---------------------------- MODULE TaskService ----------------------------
(***************************************************************************)
(* What ThreadPool promises its callers, with nothing of how it does it:   *)
(* accepted tasks start in the order of acceptance, each one on a free     *)
(* slot, each one once, and the service closes only when every accepted    *)
(* task has finished.  ThreadPool.tla is shown to implement this module.   *)
(***************************************************************************)
EXTENDS Naturals, Sequences

CONSTANTS
    Tasks,      \* the callables handed to push
    Slots,      \* one slot per worker thread
    NoTask      \* the content of a free slot

VARIABLES
    queue,      \* tasks accepted and not started, oldest first
    slot,       \* the task each slot runs
    finished,   \* tasks that have run to their end
    closed      \* the service has been shut down

vars == <<queue, slot, finished, closed>>

TypeOK ==
    /\ queue \in Seq(Tasks)
    /\ slot \in [Slots -> Tasks \cup {NoTask}]
    /\ finished \subseteq Tasks
    /\ closed \in BOOLEAN

Init ==
    /\ queue = <<>>
    /\ slot = [s \in Slots |-> NoTask]
    /\ finished = {}
    /\ closed = FALSE

\* A task is accepted at most once: it is neither queued, nor running, nor done.
Accept(t) ==
    /\ ~closed
    /\ \A i \in 1..Len(queue) : queue[i] # t
    /\ \A s \in Slots : slot[s] # t
    /\ t \notin finished
    /\ queue' = Append(queue, t)
    /\ UNCHANGED <<slot, finished, closed>>

Start(s) ==
    /\ slot[s] = NoTask
    /\ queue # <<>>
    /\ slot' = [slot EXCEPT ![s] = Head(queue)]
    /\ queue' = Tail(queue)
    /\ UNCHANGED <<finished, closed>>

Finish(s) ==
    /\ slot[s] # NoTask
    /\ finished' = finished \cup {slot[s]}
    /\ slot' = [slot EXCEPT ![s] = NoTask]
    /\ UNCHANGED <<queue, closed>>

\* Closing is graceful: nothing accepted is left behind.
Close ==
    /\ ~closed
    /\ queue = <<>>
    /\ \A s \in Slots : slot[s] = NoTask
    /\ closed' = TRUE
    /\ UNCHANGED <<queue, slot, finished>>

Next ==
    \/ \E t \in Tasks : Accept(t)
    \/ \E s \in Slots : Start(s) \/ Finish(s)
    \/ Close

Spec == Init /\ [][Next]_vars

=============================================================================
