----------------------------- MODULE ThreadPool -----------------------------
(***************************************************************************)
(* nap::ThreadPool (src/src/threadpool.h, src/src/threadpool.cpp): a fixed *)
(* set of worker threads over one queue, one mutex and one condition       *)
(* variable.  A step is what a thread does between two points where        *)
(* another thread can observe it: taking the mutex, evaluating the wait    *)
(* predicate, going to sleep, leaving the critical section, notifying.     *)
(*                                                                         *)
(* Threads of the model: the workers 1..Threads, the client threads that   *)
(* call push, and the thread that owns the pool and runs its constructor   *)
(* and its destructor (Owner).  A task running on a worker may itself call *)
(* push.  What a task computes is left out: its future is only pending,    *)
(* ready (a value or an exception) or broken (destroyed without running).  *)
(***************************************************************************)
EXTENDS Integers, Sequences, FiniteSets

CONSTANTS
    Threads,    \* the argument of the constructor
    Clients,    \* threads that push and are not workers
    Tasks,      \* the callables pushed; each one is pushed at most once
    Owner,      \* the thread that constructs and destroys the pool
    Nobody,     \* the owner of a free mutex
    NoTask

Workers == 1..Threads
Pushers == Clients \cup Workers

ASSUME ThreadsAssumption == Threads \in Nat
ASSUME ClientsAssumption == IsFiniteSet(Clients)
ASSUME NamesAssumption ==
    /\ Clients \cap Workers = {}
    /\ Owner \notin Pushers
    /\ Nobody \notin Pushers \cup {Owner}
    /\ NoTask \notin Tasks

VARIABLES
    tasks,          \* the queue, oldest first
    stop,
    queue_mutex,    \* the thread that holds the mutex
    wpc,            \* where each worker is in the handler loop
    cur,            \* the handler's local "task"
    ppc,            \* where each thread is inside push
    arg,            \* the task its push call is about
    future,         \* what the future of each task shows
    opc,            \* where the owner is: constructor, use, destructor
    nworkers,       \* workers.size()
    joined          \* workers already joined by the destructor

pool   == <<tasks, stop, queue_mutex>>
worker == <<wpc, cur>>
pusher == <<ppc, arg>>
owner  == <<opc, nworkers, joined>>
vars   == <<tasks, stop, queue_mutex, wpc, cur, ppc, arg, future,
            opc, nworkers, joined>>

WorkerPC == {"unborn", "top", "test", "sleep", "go", "waiting", "woken",
             "running", "exited"}
PusherPC == {"idle", "lock", "emplace", "notify"}
OwnerPC  == {"constructing", "alive", "lock", "stop", "notify", "join",
             "destroyed", "terminated", "thrown"}
FutureState == {"none", "pending", "ready", "broken", "refused"}

TypeOK ==
    /\ tasks \in Seq(Tasks)
    /\ stop \in BOOLEAN
    /\ queue_mutex \in Pushers \cup {Owner, Nobody}
    /\ wpc \in [Workers -> WorkerPC]
    /\ cur \in [Workers -> Tasks \cup {NoTask}]
    /\ ppc \in [Pushers -> PusherPC]
    /\ arg \in [Pushers -> Tasks \cup {NoTask}]
    /\ future \in [Tasks -> FutureState]
    /\ opc \in OwnerPC
    /\ nworkers \in 0..Threads
    /\ joined \in 0..Threads

Init ==
    /\ tasks = <<>>
    /\ stop = FALSE
    /\ queue_mutex = Nobody
    /\ wpc = [w \in Workers |-> "unborn"]
    /\ cur = [w \in Workers |-> NoTask]
    /\ ppc = [p \in Pushers |-> "idle"]
    /\ arg = [p \in Pushers |-> NoTask]
    /\ future = [t \in Tasks |-> "none"]
    /\ opc = "constructing"
    /\ nworkers = 0
    /\ joined = 0

Lock(th) ==
    /\ queue_mutex = Nobody
    /\ queue_mutex' = th

Unlock(th) ==
    /\ queue_mutex = th
    /\ queue_mutex' = Nobody

-----------------------------------------------------------------------------
(* The constructor: one emplace_back per thread.  std::thread may fail to    *)
(* start: unwinding then destroys the vector, and a joinable thread in it   *)
(* terminates the process, and every thread with it; with none started the  *)
(* exception just leaves the constructor.                                   *)

\* Fault: the loop runs once too often.
SpawnOneMore ==
    /\ opc = "constructing"
    /\ nworkers <= Threads
    /\ nworkers' = nworkers + 1
    /\ wpc' = [wpc EXCEPT ![nworkers'] = "top"]
    /\ UNCHANGED <<pool, cur, pusher, future, opc, joined>>

Spawn ==
    /\ opc = "constructing"
    /\ nworkers < Threads
    /\ nworkers' = nworkers + 1
    /\ wpc' = [wpc EXCEPT ![nworkers'] = "top"]
    /\ UNCHANGED <<pool, cur, pusher, future, opc, joined>>

SpawnFails ==
    /\ opc = "constructing"
    /\ nworkers < Threads
    /\ opc' = IF nworkers = 0 THEN "thrown" ELSE "terminated"
    /\ wpc' = [w \in Workers |-> "unborn"]
    /\ ppc' = [p \in Pushers |-> "idle"]
    /\ queue_mutex' = Nobody
    /\ UNCHANGED <<tasks, stop, cur, arg, future, nworkers, joined>>

Constructed ==
    /\ opc = "constructing"
    /\ nworkers = Threads
    /\ opc' = "alive"
    /\ UNCHANGED <<pool, worker, pusher, future, nworkers, joined>>

-----------------------------------------------------------------------------
(* push.  The test of stop comes before the mutex is taken.                 *)

\* Who may be inside push: a client while the pool is alive, or a running task.
MayPush(p) ==
    IF p \in Workers THEN wpc[p] = "running" ELSE opc = "alive"

PushRefused(p, t) ==
    /\ ppc[p] = "idle" /\ MayPush(p)
    /\ future[t] = "none"
    /\ stop
    /\ future' = [future EXCEPT ![t] = "refused"]
    /\ UNCHANGED <<pool, worker, pusher, owner>>

PushCheck(p, t) ==
    /\ ppc[p] = "idle" /\ MayPush(p)
    /\ future[t] = "none"
    /\ ~stop
    /\ ppc' = [ppc EXCEPT ![p] = "lock"]
    /\ arg' = [arg EXCEPT ![p] = t]
    /\ future' = [future EXCEPT ![t] = "pending"]
    /\ UNCHANGED <<pool, worker, owner>>

PushLock(p) ==
    /\ ppc[p] = "lock"
    /\ Lock(p)
    /\ ppc' = [ppc EXCEPT ![p] = "emplace"]
    /\ UNCHANGED <<tasks, stop, worker, arg, future, owner>>

PushEmplace(p) ==
    /\ ppc[p] = "emplace"
    /\ tasks' = Append(tasks, arg[p])
    /\ arg' = [arg EXCEPT ![p] = NoTask]
    /\ Unlock(p)
    /\ ppc' = [ppc EXCEPT ![p] = "notify"]
    /\ UNCHANGED <<stop, worker, future, owner>>

Waiting == {w \in Workers : wpc[w] = "waiting"}

\* Fault: notify only when the queue was empty before this push.
NotifyFirstOnly ==
    \/ (Waiting = {} \/ Len(tasks) # 1) /\ UNCHANGED wpc
    \/ Len(tasks) = 1 /\ \E w \in Waiting : wpc' = [wpc EXCEPT ![w] = "woken"]

\* Fault: no notification at all.
NotifyNobody == UNCHANGED wpc

\* condition.notify_one(): wakes one sleeper, or does nothing when none sleeps.
NotifyOne ==
    \/ Waiting = {} /\ UNCHANGED wpc
    \/ \E w \in Waiting : wpc' = [wpc EXCEPT ![w] = "woken"]

PushNotify(p) ==
    /\ ppc[p] = "notify"
    /\ NotifyOne
    /\ ppc' = [ppc EXCEPT ![p] = "idle"]
    /\ UNCHANGED <<pool, cur, arg, future, owner>>

-----------------------------------------------------------------------------
(* The handler loop of worker w.                                            *)

\* Fault: the wait predicate forgets stop.
ReadyIgnoresStop == tasks # <<>>

Ready == stop \/ tasks # <<>>

WorkerLock(w) ==
    /\ wpc[w] \in {"top", "woken"}
    /\ Lock(w)
    /\ wpc' = [wpc EXCEPT ![w] = "test"]
    /\ UNCHANGED <<tasks, stop, cur, pusher, future, owner>>

\* The predicate of condition.wait, evaluated under the mutex.
WorkerTest(w) ==
    /\ wpc[w] = "test"
    /\ wpc' = [wpc EXCEPT ![w] = IF Ready THEN "go" ELSE "sleep"]
    /\ UNCHANGED <<pool, cur, pusher, future, owner>>

\* condition.wait releases the mutex and joins the sleepers in one step.
WorkerSleep(w) ==
    /\ wpc[w] = "sleep"
    /\ Unlock(w)
    /\ wpc' = [wpc EXCEPT ![w] = "waiting"]
    /\ UNCHANGED <<tasks, stop, cur, pusher, future, owner>>

SpuriousWakeup(w) ==
    /\ wpc[w] = "waiting"
    /\ wpc' = [wpc EXCEPT ![w] = "woken"]
    /\ UNCHANGED <<pool, cur, pusher, future, owner>>

\* Fault: a stopped worker leaves without draining the queue.
ReturnUndrained(w) ==
    /\ wpc[w] = "go"
    /\ stop
    /\ Unlock(w)
    /\ wpc' = [wpc EXCEPT ![w] = "exited"]
    /\ UNCHANGED <<tasks, stop, cur, pusher, future, owner>>

WorkerReturn(w) ==
    /\ wpc[w] = "go"
    /\ stop /\ tasks = <<>>
    /\ Unlock(w)
    /\ wpc' = [wpc EXCEPT ![w] = "exited"]
    /\ UNCHANGED <<tasks, stop, cur, pusher, future, owner>>

\* Fault: the task is copied out and not popped.
TakeWithoutPop(w) ==
    /\ wpc[w] = "go"
    /\ ~(stop /\ tasks = <<>>)
    /\ cur' = [cur EXCEPT ![w] = Head(tasks)]
    /\ Unlock(w)
    /\ wpc' = [wpc EXCEPT ![w] = "running"]
    /\ UNCHANGED <<tasks, stop, pusher, future, owner>>

\* Fault: the newest task is taken first.
TakeNewest(w) ==
    /\ wpc[w] = "go"
    /\ ~(stop /\ tasks = <<>>)
    /\ cur' = [cur EXCEPT ![w] = tasks[Len(tasks)]]
    /\ tasks' = SubSeq(tasks, 1, Len(tasks) - 1)
    /\ Unlock(w)
    /\ wpc' = [wpc EXCEPT ![w] = "running"]
    /\ UNCHANGED <<stop, pusher, future, owner>>

WorkerTake(w) ==
    /\ wpc[w] = "go"
    /\ ~(stop /\ tasks = <<>>)
    /\ cur' = [cur EXCEPT ![w] = Head(tasks)]
    /\ tasks' = Tail(tasks)
    /\ Unlock(w)
    /\ wpc' = [wpc EXCEPT ![w] = "running"]
    /\ UNCHANGED <<stop, pusher, future, owner>>

\* task() returns; the packaged task has stored a value or an exception.
WorkerFinish(w) ==
    /\ wpc[w] = "running"
    /\ ppc[w] = "idle"
    /\ future' = [future EXCEPT ![cur[w]] = "ready"]
    /\ cur' = [cur EXCEPT ![w] = NoTask]
    /\ wpc' = [wpc EXCEPT ![w] = "top"]
    /\ UNCHANGED <<pool, pusher, owner>>

-----------------------------------------------------------------------------
(* The destructor.  It starts when no client is inside a call: calling a    *)
(* member of an object under destruction is outside C++, but the tasks      *)
(* still running on the workers may go on calling push.                     *)

DtorBegin ==
    /\ opc = "alive"
    /\ \A c \in Clients : ppc[c] = "idle"
    /\ opc' = "lock"
    /\ UNCHANGED <<pool, worker, pusher, future, nworkers, joined>>

DtorLock ==
    /\ opc = "lock"
    /\ Lock(Owner)
    /\ opc' = "stop"
    /\ UNCHANGED <<tasks, stop, worker, pusher, future, nworkers, joined>>

DtorStop ==
    /\ opc = "stop"
    /\ stop' = TRUE
    /\ Unlock(Owner)
    /\ opc' = "notify"
    /\ UNCHANGED <<tasks, worker, pusher, future, nworkers, joined>>

\* Fault: the destructor wakes one worker only.
DtorNotifyOne ==
    /\ opc = "notify"
    /\ NotifyOne
    /\ opc' = "join"
    /\ UNCHANGED <<pool, cur, pusher, future, nworkers, joined>>

\* condition.notify_all()
DtorNotifyAll ==
    /\ opc = "notify"
    /\ wpc' = [w \in Workers |-> IF wpc[w] = "waiting" THEN "woken" ELSE wpc[w]]
    /\ opc' = "join"
    /\ UNCHANGED <<pool, cur, pusher, future, nworkers, joined>>

\* for (thread& worker : workers) worker.join();
DtorJoin ==
    /\ opc = "join"
    /\ joined < nworkers
    /\ wpc[joined + 1] = "exited"
    /\ joined' = joined + 1
    /\ UNCHANGED <<pool, worker, pusher, future, opc, nworkers>>

\* The members go: a packaged task left in the queue breaks its promise.
DtorEnd ==
    /\ opc = "join"
    /\ joined = nworkers
    /\ opc' = "destroyed"
    /\ future' = [t \in Tasks |->
                    IF \E i \in 1..Len(tasks) : tasks[i] = t
                    THEN "broken" ELSE future[t]]
    /\ tasks' = <<>>
    /\ UNCHANGED <<stop, queue_mutex, worker, pusher, nworkers, joined>>

-----------------------------------------------------------------------------
Gone == opc \in {"destroyed", "terminated", "thrown"} /\ UNCHANGED vars

OwnerStep ==
    \/ Spawn \/ SpawnFails \/ Constructed
    \/ DtorBegin \/ DtorLock \/ DtorStop \/ DtorNotifyAll \/ DtorJoin \/ DtorEnd

PushStep(p) ==
    \/ \E t \in Tasks : PushRefused(p, t) \/ PushCheck(p, t)
    \/ PushLock(p) \/ PushEmplace(p) \/ PushNotify(p)

WorkerStep(w) ==
    \/ WorkerLock(w) \/ WorkerTest(w) \/ WorkerSleep(w) \/ SpuriousWakeup(w)
    \/ WorkerReturn(w) \/ WorkerTake(w) \/ WorkerFinish(w)

Next ==
    \/ OwnerStep
    \/ \E p \in Pushers : PushStep(p)
    \/ \E w \in Workers : WorkerStep(w)
    \/ Gone

Spec == Init /\ [][Next]_vars

(***************************************************************************)
(* A thread that can step eventually does, tasks return, and a thread that *)
(* finds the mutex free again and again eventually gets it.  Nothing makes *)
(* a caller push, an owner destroy the pool, or a thread fail to start.    *)
(***************************************************************************)
Fairness ==
    /\ WF_vars(Constructed \/ Spawn)
    /\ SF_vars(DtorLock)
    /\ WF_vars(DtorStop \/ DtorNotifyAll \/ DtorJoin \/ DtorEnd)
    /\ \A p \in Pushers :
        /\ SF_vars(PushLock(p))
        /\ WF_vars(PushEmplace(p) \/ PushNotify(p))
    /\ \A w \in Workers :
        /\ SF_vars(WorkerLock(w))
        /\ WF_vars(WorkerTest(w) \/ WorkerSleep(w) \/ WorkerReturn(w)
                    \/ WorkerTake(w) \/ WorkerFinish(w))

FairSpec == Spec /\ Fairness

-----------------------------------------------------------------------------
(* Safety                                                                   *)

(***************************************************************************)
(* No lost wake-up: while a worker sleeps, every queued task has an awake  *)
(* worker on its way to the predicate, or a push that has still to notify  *)
(* (push notifies after it has released the mutex, so a worker may test    *)
(* the predicate, or steal the task, between the two).                     *)
(***************************************************************************)
Awake == {w \in Workers : wpc[w] \in {"top", "woken", "test", "go"}}
Notifying == {p \in Pushers : ppc[p] = "notify"}

NoLostWakeup ==
    Waiting # {} => Len(tasks) <= Cardinality(Awake) + Cardinality(Notifying)

(***************************************************************************)
(* Once the destructor has called notify_all, no worker sleeps again: none *)
(* can have tested the predicate before stop was set and slept after.      *)
(***************************************************************************)
StopIsHeard == opc \in {"join", "destroyed"} => Waiting = {}

(***************************************************************************)
(* A task accepted by push and not yet run is in exactly one place: in the *)
(* call that is pushing it, at one position of the queue, or on one        *)
(* worker; any other task is nowhere.                                      *)
(***************************************************************************)
Places(t) ==
    {<<"call", p>> : p \in {q \in Pushers :
                               ppc[q] \in {"lock", "emplace"} /\ arg[q] = t}}
    \cup {<<"queue", i>> : i \in {j \in 1..Len(tasks) : tasks[j] = t}}
    \cup {<<"worker", w>> : w \in {v \in Workers : cur[v] = t}}

OnePlace ==
    \A t \in Tasks :
        IF future[t] = "pending"
        THEN \E place \in Places(t) : Places(t) = {place}
        ELSE Places(t) = {}

(***************************************************************************)
(* Destruction drains: when ~ThreadPool returns, every task that push did  *)
(* not refuse has run, also the tasks that running tasks pushed while the  *)
(* destructor was waiting for the workers.  (A pool of 0 threads runs      *)
(* nothing, hence the hypothesis.)                                         *)
(***************************************************************************)
Drained ==
    Threads > 0 /\ opc = "destroyed" =>
        \A t \in Tasks : future[t] \in {"none", "ready", "refused"}

(***************************************************************************)
(* The pool implements the task service: tasks start in the order in which *)
(* they entered the queue, one per free worker, each once, and the pool is *)
(* gone only when every one of them has finished.                          *)
(***************************************************************************)
Service == INSTANCE TaskService WITH
    Slots    <- Workers,
    queue    <- tasks,
    slot     <- cur,
    finished <- {t \in Tasks : future[t] = "ready"},
    closed   <- opc = "destroyed"

ImplementsService == Service!Spec

(***************************************************************************)
(* threadpool.h:46 throws "enqueue on stopped ThreadPool": a pool that is  *)
(* stopped accepts no task.  The test of stop is made before the mutex is  *)
(* taken, so a running task whose push call tested it in time enqueues     *)
(* after the destructor has set it.                                        *)
(***************************************************************************)
NoEnqueueOnStopped == [][stop => Len(tasks') <= Len(tasks)]_vars

-----------------------------------------------------------------------------
(* Liveness                                                                 *)

(***************************************************************************)
(* The future of every task push accepted becomes ready, whether the pool  *)
(* stays alive or is destroyed meanwhile.                                  *)
(***************************************************************************)
AcceptedTaskRuns ==
    \A t \in Tasks : future[t] = "pending" ~> future[t] = "ready"

(***************************************************************************)
(* The destructor returns: every worker hears stop, drains what is left    *)
(* and is joined.                                                          *)
(***************************************************************************)
DestructorReturns == opc = "lock" ~> opc = "destroyed"

=============================================================================
