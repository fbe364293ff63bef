-------------------------------- MODULE Sched --------------------------------
(***************************************************************************)
(* The cooperative scheduler, kernel/core/sched.c.  Tasks are slots of the *)
(* task table; the ready queue is threaded through their next pointers.    *)
(* The walk to the end of the queue in sched_yield is a loop, so each of   *)
(* its iterations is a step.  sched_lock is held from the first step of    *)
(* sched_yield to the last and nothing else runs, so it is left out, as    *)
(* are the names, entry points and tick counts.                            *)
(***************************************************************************)
EXTENDS Integers, FiniteSetsExt

CONSTANT MAX_TASKS

NULL == 0
Tasks == 1 .. MAX_TASKS

VARIABLES
    created,   \* the slots with a task: id # 0
    running,   \* the tasks whose state is TASK_RUNNING
    next,      \* task->next
    current, ready_q,
    pc,        \* "run", or "walk" in the loop of sched_yield
    tail,      \* the link `tail' points to: NULL is &ready_q, t is &t->next
    chosen     \* the local variable next of sched_yield

vars == <<created, running, next, current, ready_q, pc, tail, chosen>>

\* sched_init: the idle task is created, which queues it, and made current.
Init ==
    /\ created = {1}
    /\ running = {1}
    /\ next = [t \in Tasks |-> NULL]
    /\ current = 1
    /\ ready_q = 1
    /\ pc = "run" /\ tail = NULL /\ chosen = NULL

\* A full task table makes sched_create return NULL.
sched_create ==
    /\ pc = "run"
    /\ created # Tasks
    /\ LET t == Min(Tasks \ created)
       IN  /\ created' = created \cup {t}
           /\ next' = [next EXCEPT ![t] = ready_q]
           /\ ready_q' = t
    /\ UNCHANGED <<running, current, pc, tail, chosen>>

\* sched_yield up to its loop: take the first ready task off the queue.
\* The queue is never empty and there is always a current task.
YieldBegin ==
    /\ pc = "run"
    /\ running' = running \ {current}
    /\ chosen' = ready_q
    /\ ready_q' = next[ready_q]
    /\ next' = [next EXCEPT ![current] = NULL]
    /\ tail' = NULL
    /\ pc' = "walk"
    /\ UNCHANGED <<created, current>>

\* *tail, and the loop that moves tail to the last link.
Link(t) == IF t = NULL THEN ready_q ELSE next[t]

YieldWalk ==
    /\ pc = "walk"
    /\ Link(tail) # NULL
    /\ tail' = Link(tail)
    /\ UNCHANGED <<created, running, next, current, ready_q, pc, chosen>>

\* The end of sched_yield: *tail = current, then switch to the chosen task.
YieldEnd ==
    /\ pc = "walk"
    /\ Link(tail) = NULL
    /\ IF tail = NULL
       THEN ready_q' = current /\ next' = [next EXCEPT ![chosen] = NULL]
       ELSE UNCHANGED ready_q /\ next' = [next EXCEPT ![tail] = current, ![chosen] = NULL]
    /\ current' = chosen
    /\ running' = running \cup {chosen}
    /\ pc' = "run"
    /\ UNCHANGED <<created, tail, chosen>>

sched_yield == YieldBegin \/ YieldWalk \/ YieldEnd

Next == sched_create \/ sched_yield

\* The processor executes the code of a call that has begun.
Spec == Init /\ [][Next]_vars /\ WF_vars(YieldWalk \/ YieldEnd)
----------------------------------------------------------------------------
(***************************************************************************)
(* A task that calls sched_yield (sched.c:60) hands the processor on: the  *)
(* call returns.                                                           *)
(***************************************************************************)
YieldReturns == pc = "walk" ~> pc = "run"
=============================================================================
