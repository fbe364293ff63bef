------------------------------ MODULE MCHeap ------------------------------
(***************************************************************************)
(* Heap on a small memory: an arena of 12 units and pages of 4 units, with *)
(* room for two expansions.                                                *)
(***************************************************************************)
EXTENDS Heap

\* What the code can still read: the headers on the list and, of those that
\* left it, where they stand (their free flag is set).
Readable ==
    <<[b \in heap.linked |-> <<heap.size[b], heap.free[b], heap.next[b], heap.prev[b]>>],
      [b \in heap.stale |-> heap.free[b]],
      heap.head, heap.used, heap.total, heap.mem, heap.bases, heap.seam, live>>
\* The entry points the kernel calls: krealloc has no caller.
CallersNext ==
    /\ Intact
    /\ \/ \E size \in Requests : Kmalloc(size)
       \/ \E b \in Addr : Kfree(b)

CallersSpec == Init /\ [][CallersNext]_vars
=============================================================================
