-------------------------------- MODULE Heap --------------------------------
(***************************************************************************)
(* The kernel heap, memory/heap.c: a doubly linked list of blocks, each a  *)
(* header followed by its payload, first fit with splitting, coalescing on *)
(* kfree, and growth by runs of pages from the physical memory manager.    *)
(*                                                                         *)
(* The heap is one record, so that an operation that is several calls in   *)
(* the code (grow, take, release, coalesce) is the composition of their    *)
(* operators.  Addresses are those of headers.  `linked', `stale', `mem',  *)
(* `bases' and `seam' are history: the blocks on the list, the headers     *)
(* that left it and still stand in memory, the addresses given to          *)
(* heap_add_region, where those regions start, and whether coalesce has    *)
(* ever joined two blocks that do not touch.                               *)
(***************************************************************************)
EXTENDS Integers, FiniteSets, FiniteSetsExt

CONSTANTS
    HDR,         \* sizeof(block_t)
    HEAP_ALIGN,
    HEAP_MIN,
    PAGE,        \* PAGE_SIZE
    ARENA,       \* the address of early_arena
    EARLY_HEAP,  \* its size
    TOP,         \* the last address of memory
    Requests     \* the sizes clients ask for

NULL == 0
Addr == 1 .. TOP

ASSUME HeaderAssumption == HDR \in Nat \ {0}
ASSUME AlignAssumption == HEAP_ALIGN \in Nat \ {0} /\ HEAP_MIN \in Nat \ {0}
ASSUME PageAssumption == PAGE \in Nat \ {0}
ASSUME TopAssumption == TOP \in Nat
ASSUME ArenaAssumption == /\ ARENA \in Addr
                          /\ EARLY_HEAP \in Nat
                          /\ HDR + HEAP_MIN <= EARLY_HEAP
                          /\ ARENA + EARLY_HEAP - 1 <= TOP
ASSUME RequestsAssumption == Requests \subseteq Nat \ {0}

VARIABLES
    heap,  \* the list, the counters and their history
    live   \* live[b]: the bytes promised to the client that holds b, 0 if none

vars == <<heap, live>>

Heaps == [size : [Addr -> Nat], free : [Addr -> BOOLEAN],
          next : [Addr -> Addr \cup {NULL}], prev : [Addr -> Addr \cup {NULL}],
          head : Addr \cup {NULL}, used : Int, total : Nat,
          linked : SUBSET Addr, stale : SUBSET Addr, mem : SUBSET Addr,
          bases : SUBSET Addr, seam : BOOLEAN]

RoundUp(n, a) == ((n + a - 1) \div a) * a
End(h, b) == b + HDR + h.size[b]
Extent(h, b) == b .. End(h, b) - 1
----------------------------------------------------------------------------
\* Link the pointer `prev' of block b, if there is one, to a.
SetPrev(h, b, a) == IF b = NULL THEN h.prev ELSE [h.prev EXCEPT ![b] = a]

\* A header written at b destroys the stale headers it overlaps.
Trampled(h, b) == {s \in h.stale : b - HDR < s /\ s < b + HDR}

heap_add_region(h, b, len) ==
    [h EXCEPT !.size[b] = len - HDR,
              !.free[b] = TRUE,
              !.next[b] = h.head,
              !.prev = [SetPrev(h, h.head, b) EXCEPT ![b] = NULL],
              !.head = b,
              !.total = @ + len,
              !.linked = @ \cup {b},
              !.mem = @ \cup b .. b + len - 1,
              !.bases = @ \cup {b}]

heap_init ==
    heap_add_region([size |-> [a \in Addr |-> 0], free |-> [a \in Addr |-> FALSE],
                     next |-> [a \in Addr |-> NULL], prev |-> [a \in Addr |-> NULL],
                     head |-> NULL, used |-> 0, total |-> 0, linked |-> {},
                     stale |-> {}, mem |-> {}, bases |-> {}, seam |-> FALSE],
                    ARENA, EARLY_HEAP)

\* Faults: the header of the swallowed block is lost, and the back pointer
\* of the block after it is not moved.
AbsorbPayload(h, a, n) ==
    [h EXCEPT !.size[a] = @ + h.size[n],
              !.next[a] = h.next[n],
              !.prev = SetPrev(h, h.next[n], a),
              !.linked = @ \ {n},
              !.stale = @ \cup {n},
              !.seam = @ \/ n # End(h, a)]

AbsorbForward(h, a, n) ==
    [h EXCEPT !.size[a] = @ + HDR + h.size[n],
              !.next[a] = h.next[n],
              !.linked = @ \ {n},
              !.stale = @ \cup {n},
              !.seam = @ \/ n # End(h, a)]

\* One half of coalesce: block a swallows n, its neighbour on the list.
Absorb(h, a, n) ==
    [h EXCEPT !.size[a] = @ + HDR + h.size[n],
              !.next[a] = h.next[n],
              !.prev = SetPrev(h, h.next[n], a),
              !.linked = @ \ {n},
              !.stale = @ \cup {n},
              !.seam = @ \/ n # End(h, a)]

\* Faults: the flag of the neighbour is not tested.
AbsorbAnyNext(h, b) == IF h.next[b] # NULL THEN Absorb(h, b, h.next[b]) ELSE h
IntoAnyPrev(h, b) == IF h.prev[b] # NULL THEN Absorb(h, h.prev[b], b) ELSE h

AbsorbNext(h, b) ==
    IF h.next[b] # NULL /\ h.free[h.next[b]] THEN Absorb(h, b, h.next[b]) ELSE h

AbsorbIntoPrev(h, b) ==
    IF h.prev[b] # NULL /\ h.free[h.prev[b]] THEN Absorb(h, h.prev[b], b) ELSE h

\* A fault: coalescing in one direction only.
CoalesceForward(h, b) == AbsorbNext(h, b)

coalesce(h, b) == AbsorbIntoPrev(AbsorbNext(h, b), b)

\* Faults: no test for a second free, and the size read after merging.
KfreeUnchecked(h, b) ==
    coalesce([h EXCEPT !.free[b] = TRUE, !.used = @ - h.size[b]], b)

KfreeLate(h, b) ==
    IF h.free[b] THEN h
    ELSE LET g == coalesce([h EXCEPT !.free[b] = TRUE], b)
         IN  [g EXCEPT !.used = @ - g.size[b]]

\* kfree of a block, and of one whose header already says free.
kfree(h, b) ==
    IF h.free[b] THEN h
    ELSE coalesce([h EXCEPT !.free[b] = TRUE, !.used = @ - h.size[b]], b)

\* A fault: splitting off a tail too small for a block.
SplitTight(h, b, need) ==
    LET n == b + HDR + need
    IN  [h EXCEPT !.size = [@ EXCEPT ![n] = h.size[b] - need - HDR, ![b] = need],
                  !.free[n] = TRUE,
                  !.next = [@ EXCEPT ![n] = h.next[b], ![b] = n],
                  !.prev = [SetPrev(h, h.next[b], n) EXCEPT ![n] = b],
                  !.linked = @ \cup {n},
                  !.stale = @ \ Trampled(h, n)]

\* The tail of a block that is larger than the request by a useful amount
\* becomes a block of its own.
Split(h, b, need) ==
    LET n == b + HDR + need
    IN  IF h.size[b] < need + HDR + HEAP_MIN THEN h
        ELSE [h EXCEPT !.size = [@ EXCEPT ![n] = h.size[b] - need - HDR, ![b] = need],
                       !.free[n] = TRUE,
                       !.next = [@ EXCEPT ![n] = h.next[b], ![b] = n],
                       !.prev = [SetPrev(h, h.next[b], n) EXCEPT ![n] = b],
                       !.linked = @ \cup {n},
                       !.stale = @ \ Trampled(h, n)]

\* The block goes to the client, who may write over stale headers in it.
Claim(h, b) ==
    [h EXCEPT !.free[b] = FALSE,
              !.used = @ + h.size[b],
              !.stale = @ \ Extent(h, b)]

Take(h, b, need) == Claim(Split(h, b, need), b)

\* The walk of the list from heap_head.
NextOf(h, b) == IF b = NULL THEN NULL ELSE h.next[b]

Walk(h) ==
    LET w[n \in 0 .. Cardinality(h.linked)] ==
            IF n = 0 THEN h.head ELSE NextOf(h, w[n - 1])
    IN  w

Precedes(h, a, b) ==
    LET w == Walk(h) IN \E i, j \in DOMAIN w : i < j /\ w[i] = a /\ w[j] = b

Fits(h, b, need) == h.free[b] /\ need <= h.size[b]

FirstFits(h, need) ==
    {b \in h.linked : /\ Fits(h, b, need)
                      /\ \A c \in h.linked : Fits(h, c, need) => ~Precedes(h, c, b)}

\* expand_heap: the bytes asked of the physical memory manager, and the
\* page-aligned runs it may answer with, which are disjoint from every run
\* handed out before (PMM!AllocationsDisjoint).
ExpandBytes(need) == RoundUp(need + HDR + PAGE, PAGE)

Runs(h, len) ==
    {b \in Addr : /\ b % PAGE = 0
                  /\ b + len - 1 <= TOP
                  /\ (b .. b + len - 1) \cap h.mem = {}}

Need(size) ==
    IF RoundUp(size, HEAP_ALIGN) < HEAP_MIN THEN HEAP_MIN ELSE RoundUp(size, HEAP_ALIGN)

\* kmalloc after rounding: the possible outcomes.  After an expansion the
\* second attempt starts at the new region's block, which is large enough.
kmalloc(h, need) ==
    IF \E b \in h.linked : Fits(h, b, need)
    THEN {[heap |-> Take(h, b, need), ret |-> b] : b \in FirstFits(h, need)}
    ELSE {[heap |-> h, ret |-> NULL]} \cup
         {[heap |-> Take(heap_add_region(h, b, ExpandBytes(need)), b, need), ret |-> b]
              : b \in Runs(h, ExpandBytes(need))}
----------------------------------------------------------------------------
Init ==
    /\ heap = heap_init
    /\ live = [b \in Addr |-> 0]

\* kmalloc, and kcalloc, which clears what kmalloc returns.
Kmalloc(size) ==
    \E o \in kmalloc(heap, Need(size)) :
        /\ heap' = o.heap
        /\ live' = IF o.ret = NULL THEN live ELSE [live EXCEPT ![o.ret] = Need(size)]

Kfree(b) ==
    /\ live[b] > 0
    /\ heap' = kfree(heap, b)
    /\ live' = [live EXCEPT ![b] = 0]

\* kfree of a pointer that was freed before, while its header still stands.
KfreeAgain(b) ==
    /\ b \in heap.linked \cup heap.stale
    /\ live[b] = 0
    /\ heap' = kfree(heap, b)
    /\ UNCHANGED live

\* krealloc of a live block: in place, moved, or failed with the old block
\* intact.  (A null pointer is kmalloc, a size of zero is kfree.)
Krealloc(b, size) ==
    /\ live[b] > 0
    /\ \/ /\ size <= heap.size[b]
          /\ live' = [live EXCEPT ![b] = IF size > @ THEN size ELSE @]
          /\ UNCHANGED heap
       \/ /\ size > heap.size[b]
          /\ \E o \in kmalloc(heap, Need(size)) :
                IF o.ret = NULL THEN UNCHANGED vars
                ELSE /\ heap' = kfree(o.heap, b)
                     /\ live' = [live EXCEPT ![o.ret] = Need(size), ![b] = 0]

\* The heap before coalesce has joined blocks that do not touch.  After that
\* blocks reach over memory that is not the heap's: the model stops there.
Intact == ~heap.seam

Next ==
    /\ Intact
    /\ \/ \E size \in Requests : Kmalloc(size)
       \/ \E b \in Addr : Kfree(b)
       \/ \E b \in Addr : KfreeAgain(b)
       \/ \E b \in Addr, size \in Requests : Krealloc(b, size)

Spec == Init /\ [][Next]_vars
----------------------------------------------------------------------------
TypeOK == heap \in Heaps /\ live \in [Addr -> Nat]

(***************************************************************************)
(* The blocks tile the memory given to heap_add_region (heap.c:32): no two *)
(* blocks, headers included, share an address, and every address of every  *)
(* region belongs to a block, through splits, merges and expansions.       *)
(***************************************************************************)
BlocksTile ==
    Intact =>
        /\ \A a, b \in heap.linked : a # b => Extent(heap, a) \cap Extent(heap, b) = {}
        /\ heap.mem = UNION {Extent(heap, b) : b \in heap.linked}

(***************************************************************************)
(* The list is a proper doubly linked list: the walk from heap_head that   *)
(* kmalloc makes (heap.c:82) reaches every block and ends, and the prev    *)
(* pointers coalesce relies on (heap.c:60) retrace it.                     *)
(***************************************************************************)
ListCoherent ==
    Intact =>
        LET w == Walk(heap)
        IN  /\ {w[n] : n \in DOMAIN w} \ {NULL} = heap.linked
            /\ w[Cardinality(heap.linked)] = NULL
            /\ \A n \in DOMAIN w : w[n] # NULL =>
                  heap.prev[w[n]] = IF n = 0 THEN NULL ELSE w[n - 1]

(***************************************************************************)
(* A block is in use exactly while some client holds it, and it is as      *)
(* large as what kmalloc (heap.c:76) promised: what krealloc and double    *)
(* frees do never lets two clients hold a block or loses one.              *)
(***************************************************************************)
InUse(h) == {b \in h.linked : ~h.free[b]}

LiveBlocksExact ==
    Intact => \A b \in Addr : /\ live[b] > 0 <=> b \in InUse(heap)
                              /\ live[b] > 0 => live[b] <= heap.size[b]

(***************************************************************************)
(* heap_used (heap.c:28) is the sum of the blocks in use: what kfree       *)
(* subtracts is what kmalloc added, whatever was split or merged between.  *)
(***************************************************************************)
UsedExact == heap.used = MapThenSumSet(LAMBDA b : heap.size[b], InUse(heap))

(***************************************************************************)
(* Two neighbouring blocks of one region are never both free: every kfree  *)
(* leaves the list fully coalesced (heap.c:54).                            *)
(***************************************************************************)
NoAdjacentFree ==
    Intact =>
        \A b \in heap.linked :
            (heap.free[b] /\ heap.next[b] \notin heap.bases \cup {NULL})
                => ~heap.free[heap.next[b]]

(***************************************************************************)
(* Freeing a pointer twice changes nothing, whether its block has since    *)
(* been merged away or not: the check in kfree (heap.c:121) sees the free  *)
(* flag of the stale header.                                               *)
(***************************************************************************)
DoubleFreeIgnored ==
    [][\A b \in Addr : KfreeAgain(b) => UNCHANGED heap]_vars

(***************************************************************************)
(* A block in use is neither moved, resized nor taken from its client by   *)
(* what others allocate and free: kfree and kmalloc touch the headers of   *)
(* the neighbours (heap.c:56, heap.c:95), never their extents.             *)
(***************************************************************************)
LiveBlocksStable ==
    [][Intact' =>
          \A b \in Addr : (live[b] > 0 /\ live'[b] > 0) =>
              b \in heap'.linked /\ heap'.size[b] = heap.size[b]]_vars

(***************************************************************************)
(* "adjacent free blocks coalesce" (heap.c:5): coalesce joins only blocks  *)
(* that are adjacent in memory.                                            *)
(***************************************************************************)
OnlyAdjacentMerged == ~heap.seam
=============================================================================
