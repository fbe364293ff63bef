--------------------------------- MODULE VMM ---------------------------------
(***************************************************************************)
(* The virtual memory manager, memory/vmm.c: four levels of page tables,   *)
(* of which the boot loader made the first three for the identity mapping  *)
(* with huge pages (boot/boot.asm:65-84).                                  *)
(*                                                                         *)
(* A virtual page is its four indices, a table a function from indices to  *)
(* entries.  The flags of an entry are left out except for those the code  *)
(* tests.  Pages for new tables come from the physical memory manager,     *)
(* which hands none out twice (PMM!AllocationsDisjoint) and may have none. *)
(***************************************************************************)
EXTENDS Integers, FiniteSets

CONSTANTS
    Index,                        \* the indices of a table
    Frames,                       \* the pages the PMM can hand out
    BootPml4, BootPdpt, BootPd,   \* the tables of the boot loader
    Boot,                         \* the index they are linked at
    Phys(_),                      \* where entry i of BootPd leads
    Virtual, Physical,            \* the pages callers map, and to what
    NULL

Tables == Frames \cup {BootPml4, BootPdpt, BootPd}

ASSUME VirtualAssumption == Virtual \subseteq Index \X Index \X Index \X Index
ASSUME BootAssumption == /\ Boot \in Index
                         /\ {BootPml4, BootPdpt, BootPd} \cap Frames = {}
                         /\ Cardinality({BootPml4, BootPdpt, BootPd}) = 3
                         /\ NULL \notin Tables \cup Physical
                         /\ \A i \in Index : Phys(i) \in Physical

VARIABLES
    vm,  \* the page tables, and the pages the PMM has left
    ret  \* what the last operation returned

vars == <<vm, ret>>

\* An entry of a table that is not present, and the others.  The processor
\* and the code tell a link from a mapping by the level it is found at.
Absent == [present |-> FALSE, huge |-> FALSE, to |-> NULL]
Link(p) == [present |-> TRUE, huge |-> FALSE, to |-> p]
Huge(p) == [present |-> TRUE, huge |-> TRUE, to |-> p]

Entries == {Absent} \cup {Link(p) : p \in Tables \cup Physical} \cup {Huge(p) : p \in Physical}
NewTable == [i \in Index |-> Absent]

Init ==
    /\ vm = [table |-> [t \in Tables |->
                          CASE t = BootPml4 -> [NewTable EXCEPT ![Boot] = Link(BootPdpt)]
                            [] t = BootPdpt -> [NewTable EXCEPT ![Boot] = Link(BootPd)]
                            [] t = BootPd   -> [i \in Index |-> Huge(Phys(i))]
                            [] OTHER        -> NewTable],
             left  |-> Frames]
    /\ ret = TRUE
----------------------------------------------------------------------------
\* Faults: the new table is linked but not cleared, or not linked.
WalkForgets(s, t, i) ==
    IF s.table[t][i].present THEN {[s |-> s, t |-> s.table[t][i].to]}
    ELSE {[s |-> s, t |-> NULL]} \cup
         {[s |-> [table |-> [s.table EXCEPT ![f] = NewTable], left |-> s.left \ {f}],
           t |-> f] : f \in s.left}

WalkStale(s, t, i) ==
    IF s.table[t][i].present THEN {[s |-> s, t |-> s.table[t][i].to]}
    ELSE {[s |-> s, t |-> NULL]} \cup
         {[s |-> [table |-> [s.table EXCEPT ![t][i] = Link(f), ![f] = s.table[t]],
                  left  |-> s.left \ {f}],
           t |-> f] : f \in s.left}

table_walk_alloc(s, t, i) ==
    IF s.table[t][i].present THEN {[s |-> s, t |-> s.table[t][i].to]}
    ELSE {[s |-> s, t |-> NULL]} \cup
         {[s |-> [table |-> [s.table EXCEPT ![t][i] = Link(f), ![f] = NewTable],
                  left  |-> s.left \ {f}],
           t |-> f] : f \in s.left}

\* The outcomes of a walk that went on with each of the tables in W.
Levels(W, i) ==
    UNION {IF w.t = NULL THEN {w} ELSE table_walk_alloc(w.s, w.t, i) : w \in W}

\* The test for a huge page, which refuses to split it.
RefuseHuge(w, i) ==
    IF w.t = NULL THEN w
    ELSE IF w.s.table[w.t][i].huge THEN [w EXCEPT !.t = NULL] ELSE w

vmm_map_page(s, v, p) ==
    LET pd == Levels(table_walk_alloc(s, BootPml4, v[1]), v[2])
        pt == Levels({RefuseHuge(w, v[3]) : w \in pd}, v[3])
    IN  {IF w.t = NULL THEN [s |-> w.s, ret |-> FALSE]
         ELSE [s |-> [w.s EXCEPT !.table[w.t][v[4]] = Link(p)], ret |-> TRUE] : w \in pt}

\* The walks of vmm_unmap_page and vmm_resolve, which allocate nothing.
Below(s, t, i) ==
    IF t = NULL THEN NULL ELSE IF s.table[t][i].present THEN s.table[t][i].to ELSE NULL

PdOf(s, v) == Below(s, Below(s, BootPml4, v[1]), v[2])

\* A fault: only the present bit is cleared.
UnmapBit(s, v) ==
    LET pd == PdOf(s, v)
        e  == IF pd = NULL THEN Absent ELSE s.table[pd][v[3]]
    IN  IF e.huge \/ ~e.present THEN [s |-> s, ret |-> FALSE]
        ELSE [s |-> [s EXCEPT !.table[e.to][v[4]].present = FALSE], ret |-> TRUE]

vmm_unmap_page(s, v) ==
    LET pd == PdOf(s, v)
        e  == IF pd = NULL THEN Absent ELSE s.table[pd][v[3]]
    IN  IF e.huge \/ ~e.present THEN [s |-> s, ret |-> FALSE]
        ELSE [s |-> [s EXCEPT !.table[e.to][v[4]] = Absent], ret |-> TRUE]

vmm_resolve(s, v) ==
    LET pd == PdOf(s, v)
        e  == IF pd = NULL THEN Absent ELSE s.table[pd][v[3]]
    IN  IF e.huge THEN e.to ELSE IF ~e.present THEN NULL ELSE Below(s, e.to, v[4])
----------------------------------------------------------------------------
Map(v, p) == \E o \in vmm_map_page(vm, v, p) : vm' = o.s /\ ret' = o.ret

Unmap(v) == LET o == vmm_unmap_page(vm, v) IN vm' = o.s /\ ret' = o.ret

Next ==
    \/ \E v \in Virtual, p \in Physical : Map(v, p)
    \/ \E v \in Virtual : Unmap(v)

Spec == Init /\ [][Next]_vars
----------------------------------------------------------------------------
TypeOK ==
    /\ vm.table \in [Tables -> [Index -> Entries]] /\ vm.left \subseteq Frames
    /\ ret \in BOOLEAN

\* The tables of each level that can be reached from the top.
Pdpts == {vm.table[BootPml4][i].to : i \in Index} \ {NULL}
Pds == {vm.table[t][i].to : t \in Pdpts, i \in Index} \ {NULL}

(***************************************************************************)
(* No table is reached in two ways, and none is a page the PMM still has:  *)
(* each page that table_walk_alloc (vmm.c:14) took is linked at exactly    *)
(* one entry, also when vmm_map_page fails half way (vmm.c:36-44) and      *)
(* leaves empty tables behind for the next call to use.                    *)
(***************************************************************************)
Linked == {x \in ({BootPml4} \cup Pdpts \cup Pds) \X Index :
              vm.table[x[1]][x[2]].present /\ ~vm.table[x[1]][x[2]].huge}

TablesTree ==
    /\ \A x, y \in Linked : vm.table[x[1]][x[2]].to = vm.table[y[1]][y[2]].to => x = y
    /\ {vm.table[x[1]][x[2]].to : x \in Linked} = (Frames \ vm.left) \cup {BootPdpt, BootPd}

Space == INSTANCE AddressSpace
             WITH Fixed <- {v \in Virtual : v[1] = Boot /\ v[2] = Boot},
                  Unmapped <- NULL,
                  space <- [v \in Virtual |-> vmm_resolve(vm, v)],
                  ok <- ret

(***************************************************************************)
(* What vmm_resolve (vmm.c:69) answers is an address space: vmm_map_page   *)
(* and vmm_unmap_page change the page they are given and no other,         *)
(* whatever tables they share, and change nothing when they return false.  *)
(***************************************************************************)
ImplementsAddressSpace == Space!Spec
=============================================================================
