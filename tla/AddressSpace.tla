---------------------------- MODULE AddressSpace ----------------------------
(***************************************************************************)
(* What a virtual memory manager promises: a function from virtual pages   *)
(* to physical pages.  Mapping or unmapping a page changes that page only; *)
(* an operation that fails changes nothing; the pages fixed at boot can    *)
(* neither be remapped nor unmapped.                                       *)
(***************************************************************************)
CONSTANTS
    Virtual,   \* the virtual pages
    Physical,  \* the physical pages
    Fixed,     \* the virtual pages of the boot mapping
    Unmapped   \* no physical page

VARIABLES
    space,  \* space[v]: where v is mapped
    ok      \* what the last operation returned

vars == <<space, ok>>

Init ==
    /\ space \in [Virtual -> Physical \cup {Unmapped}]
    /\ \A v \in Virtual : space[v] # Unmapped <=> v \in Fixed
    /\ ok = TRUE

Map(v, p) ==
    /\ v \notin Fixed
    /\ space' = [space EXCEPT ![v] = p]
    /\ ok' = TRUE

Unmap(v) ==
    /\ v \notin Fixed
    /\ space' = [space EXCEPT ![v] = Unmapped]
    /\ ok' = TRUE

Fail == ok' = FALSE /\ UNCHANGED space

Next ==
    \/ \E v \in Virtual, p \in Physical : Map(v, p)
    \/ \E v \in Virtual : Unmap(v)
    \/ Fail

Spec == Init /\ [][Next]_vars
=============================================================================
