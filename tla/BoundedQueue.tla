---------------------------- MODULE BoundedQueue ----------------------------
(***************************************************************************)
(* What an input driver's buffer promises: a first-in first-out queue that *)
(* holds at most Capacity items, refuses an item only when it is full, and *)
(* hands every item it accepted to the reader, once and in order.          *)
(***************************************************************************)
EXTENDS Naturals, Sequences

CONSTANTS Items, Capacity

VARIABLES
    queue,
    refused,   \* whether the last item offered was refused
    delivered  \* the item the reader got last

vars == <<queue, refused, delivered>>

Init == queue = <<>> /\ refused = FALSE /\ delivered \notin Items

Put(i) ==
    /\ Len(queue) < Capacity
    /\ queue' = Append(queue, i)
    /\ refused' = FALSE
    /\ UNCHANGED delivered

Refuse ==
    /\ Len(queue) = Capacity
    /\ refused' = TRUE
    /\ UNCHANGED <<queue, delivered>>

Get ==
    /\ queue # <<>>
    /\ delivered' = Head(queue)
    /\ queue' = Tail(queue)
    /\ UNCHANGED refused

Next == Get \/ Refuse \/ \E i \in Items : Put(i)

Spec == Init /\ [][Next]_vars /\ WF_vars(Get)
=============================================================================
