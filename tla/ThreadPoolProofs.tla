-------------------------- MODULE ThreadPoolProofs --------------------------
(***************************************************************************)
(* Proofs about ThreadPool.tla, for every number of threads, clients and   *)
(* tasks.  The inductive invariant is Inv below: the typing, who holds the *)
(* mutex, what each place of the handler loop has established, and the     *)
(* phases of the pool's life.                                              *)
(***************************************************************************)
EXTENDS ThreadPool, FiniteSetTheorems, TLAPS

\* The mutex is held by exactly the thread that is in a critical section.
MutexInv ==
    /\ \A w \in Workers : wpc[w] \in {"test", "sleep", "go"} => queue_mutex = w
    /\ \A p \in Pushers : ppc[p] = "emplace" => queue_mutex = p
    /\ opc = "stop" => queue_mutex = Owner

\* Only a running worker is inside push, and push has its task in hand.
PushInv ==
    /\ \A w \in Workers : ppc[w] # "idle" => wpc[w] = "running"
    /\ \A p \in Pushers : ppc[p] \in {"lock", "emplace"} => arg[p] \in Tasks

\* What the predicate said still holds while the mutex is held.
TestedInv ==
    /\ \A w \in Workers : wpc[w] = "go" => Ready
    /\ \A w \in Workers : wpc[w] = "sleep" => ~Ready

\* The phases of the owner, and what each one means for the other threads.
PhaseInv ==
    /\ stop <=> opc \in {"notify", "join", "destroyed"}
    /\ opc # "alive" => \A c \in Clients : ppc[c] = "idle"
    /\ \A w \in Workers : wpc[w] = "exited" => stop
    /\ opc \in {"join", "destroyed"} => \A w \in Workers : wpc[w] # "waiting"
    /\ opc = "constructing" =>
         \A w \in Workers : w > nworkers => wpc[w] = "unborn"
    /\ opc \notin {"constructing", "terminated", "thrown"} => nworkers = Threads
    /\ opc \in {"terminated", "thrown"} => \A w \in Workers : wpc[w] = "unborn"

Inv == TypeOK /\ MutexInv /\ PushInv /\ TestedInv /\ PhaseInv

-----------------------------------------------------------------------------
USE ThreadsAssumption, NamesAssumption

LEMMA InitInv == Init => Inv
<1> SUFFICES ASSUME Init PROVE Inv
  OBVIOUS
<1> USE DEF Init, Workers, Pushers
<1>1. TypeOK
  <2>0. stop \in BOOLEAN
    BY Zenon
  <2>1. tasks \in Seq(Tasks)
    BY <<>> \in Seq(Tasks)
  <2>2. nworkers \in 0..Threads /\ joined \in 0..Threads
    OBVIOUS
  <2>3. queue_mutex \in Pushers \cup {Owner, Nobody} /\ opc \in OwnerPC
    BY DEF OwnerPC
  <2>4. wpc \in [Workers -> WorkerPC] /\ cur \in [Workers -> Tasks \cup {NoTask}]
    BY DEF WorkerPC
  <2>5. /\ ppc \in [Pushers -> PusherPC]
        /\ arg \in [Pushers -> Tasks \cup {NoTask}]
        /\ future \in [Tasks -> FutureState]
    BY DEF PusherPC, FutureState
  <2>6. QED
    BY <2>0, <2>1, <2>2, <2>3, <2>4, <2>5 DEF TypeOK
<1>2. MutexInv /\ PushInv /\ TestedInv /\ PhaseInv
  BY DEF MutexInv, PushInv, TestedInv, PhaseInv
<1>3. QED
  BY <1>1, <1>2 DEF Inv

LEMMA TypingStep == Inv /\ [Next]_vars => TypeOK'
<1> SUFFICES ASSUME Inv, [Next]_vars PROVE TypeOK'
  OBVIOUS
<1> USE DEF Inv, TypeOK, WorkerPC, PusherPC, OwnerPC, FutureState, Workers,
            Pushers, pool, worker, pusher, owner
<1>1. CASE OwnerStep
  <2>1. CASE Spawn
    BY <2>1 DEF Spawn
  <2>2. CASE SpawnFails
    BY <2>2 DEF SpawnFails
  <2>3. CASE Constructed
    BY <2>3 DEF Constructed
  <2>4. CASE DtorBegin
    BY <2>4 DEF DtorBegin
  <2>5. CASE DtorLock
    BY <2>5 DEF DtorLock, Lock
  <2>6. CASE DtorStop
    BY <2>6 DEF DtorStop, Unlock
  <2>7. CASE DtorNotifyAll
    BY <2>7 DEF DtorNotifyAll
  <2>8. CASE DtorJoin
    BY <2>8 DEF DtorJoin
  <2>9. CASE DtorEnd
    BY <2>9 DEF DtorEnd
  <2>10. QED
    BY <1>1, <2>1, <2>2, <2>3, <2>4, <2>5, <2>6, <2>7, <2>8, <2>9 DEF OwnerStep
<1>2. ASSUME NEW p \in Pushers, PushStep(p)
      PROVE  TypeOK'
  <2>1. ASSUME NEW t \in Tasks, PushRefused(p, t) PROVE TypeOK'
    BY <2>1 DEF PushRefused
  <2>2. ASSUME NEW t \in Tasks, PushCheck(p, t) PROVE TypeOK'
    BY <2>2 DEF PushCheck
  <2>3. CASE PushLock(p)
    BY <2>3 DEF PushLock, Lock
  <2>4. CASE PushEmplace(p)
    BY <2>4 DEF PushEmplace, Unlock, PushInv
  <2>5. CASE PushNotify(p)
    BY <2>5 DEF PushNotify, NotifyOne, Waiting
  <2>6. QED
    BY <1>2, <2>1, <2>2, <2>3, <2>4, <2>5 DEF PushStep
<1>3. ASSUME NEW w \in Workers, WorkerStep(w)
      PROVE  TypeOK'
  <2>1. CASE WorkerLock(w)
    BY <2>1 DEF WorkerLock, Lock
  <2>2. CASE WorkerTest(w)
    BY <2>2 DEF WorkerTest
  <2>3. CASE WorkerSleep(w)
    BY <2>3 DEF WorkerSleep, Unlock
  <2>4. CASE SpuriousWakeup(w)
    BY <2>4 DEF SpuriousWakeup
  <2>5. CASE WorkerReturn(w)
    BY <2>5 DEF WorkerReturn, Unlock
  <2>6. CASE WorkerTake(w)
    <3>1. tasks # <<>>
      BY <2>6, <1>3 DEF WorkerTake, TestedInv, Ready
    <3>2. Head(tasks) \in Tasks /\ Tail(tasks) \in Seq(Tasks)
      BY <3>1
    <3>3. QED
      BY <2>6, <3>2 DEF WorkerTake, Unlock
  <2>7. CASE WorkerFinish(w)
    BY <2>7 DEF WorkerFinish
  <2>8. QED
    BY <1>3, <2>1, <2>2, <2>3, <2>4, <2>5, <2>6, <2>7 DEF WorkerStep
<1>4. CASE UNCHANGED vars
  BY <1>4 DEF vars
<1>5. QED
  BY <1>1, <1>2, <1>3, <1>4 DEF Next, Gone

(* One step per action; each leaf expands the action and the parts of the    *)
(* invariant only.                                                           *)

LEMMA ControlStep ==
    Inv /\ [Next]_vars => (MutexInv /\ PushInv /\ TestedInv /\ PhaseInv)'
<1> DEFINE Control == MutexInv /\ PushInv /\ TestedInv /\ PhaseInv
<1> SUFFICES ASSUME Inv, [Next]_vars PROVE Control'
  OBVIOUS
<1> USE DEF Inv, TypeOK, MutexInv, PushInv, TestedInv, PhaseInv, Ready,
            Workers, Pushers, pool, worker, pusher, owner
<1>1. CASE OwnerStep
  <2>1. CASE Spawn
    BY <2>1 DEF Spawn
  <2>2. CASE SpawnFails
    BY <2>2 DEF SpawnFails
  <2>3. CASE Constructed
    BY <2>3 DEF Constructed
  <2>4. CASE DtorBegin
    BY <2>4 DEF DtorBegin
  <2>5. CASE DtorLock
    BY <2>5 DEF DtorLock, Lock
  <2>6. CASE DtorStop
    BY <2>6 DEF DtorStop, Unlock
  <2>7. CASE DtorNotifyAll
    BY <2>7 DEF DtorNotifyAll
  <2>8. CASE DtorJoin
    BY <2>8 DEF DtorJoin
  <2>9. CASE DtorEnd
    BY <2>9 DEF DtorEnd
  <2>10. QED
    BY <1>1, <2>1, <2>2, <2>3, <2>4, <2>5, <2>6, <2>7, <2>8, <2>9 DEF OwnerStep
<1>2. ASSUME NEW p \in Pushers, PushStep(p)
      PROVE  Control'
  <2>1. ASSUME NEW t \in Tasks, PushRefused(p, t) PROVE Control'
    BY <2>1 DEF PushRefused
  <2>2. ASSUME NEW t \in Tasks, PushCheck(p, t) PROVE Control'
    BY <2>2 DEF PushCheck, MayPush
  <2>3. CASE PushLock(p)
    BY <2>3 DEF PushLock, Lock
  <2>4. CASE PushEmplace(p)
    BY <2>4 DEF PushEmplace, Unlock
  <2>5. CASE PushNotify(p)
    BY <2>5 DEF PushNotify, NotifyOne, Waiting
  <2>6. QED
    BY <1>2, <2>1, <2>2, <2>3, <2>4, <2>5 DEF PushStep
<1>3. ASSUME NEW w \in Workers, WorkerStep(w)
      PROVE  Control'
  <2>1. CASE WorkerLock(w)
    BY <2>1 DEF WorkerLock, Lock
  <2>2. CASE WorkerTest(w)
    BY <2>2 DEF WorkerTest
  <2>3. CASE WorkerSleep(w)
    BY <2>3 DEF WorkerSleep, Unlock
  <2>4. CASE SpuriousWakeup(w)
    BY <2>4 DEF SpuriousWakeup
  <2>5. CASE WorkerReturn(w)
    BY <2>5 DEF WorkerReturn, Unlock
  <2>6. CASE WorkerTake(w)
    BY <2>6 DEF WorkerTake, Unlock
  <2>7. CASE WorkerFinish(w)
    BY <2>7 DEF WorkerFinish
  <2>8. QED
    BY <1>3, <2>1, <2>2, <2>3, <2>4, <2>5, <2>6, <2>7 DEF WorkerStep
<1>4. CASE UNCHANGED vars
  BY <1>4 DEF vars
<1>5. QED
  BY <1>1, <1>2, <1>3, <1>4 DEF Next, Gone

LEMMA Invariance == Spec => []Inv
<1>1. Inv /\ [Next]_vars => Inv'
  BY TypingStep, ControlStep DEF Inv
<1>2. QED
  BY InitInv, <1>1, PTL DEF Spec

(***************************************************************************)
(* Type correctness.  It rests on Inv: the queue is not empty when a       *)
(* worker takes its head only because the predicate was evaluated under    *)
(* the mutex the worker still holds.                                       *)
(***************************************************************************)
THEOREM TypeCorrect == Spec => []TypeOK
<1>1. Inv => TypeOK
  BY DEF Inv
<1>2. QED
  BY Invariance, <1>1, PTL

(***************************************************************************)
(* No worker sleeps once ~ThreadPool (threadpool.cpp:40-48) has called     *)
(* notify_all.                                                             *)
(***************************************************************************)
THEOREM StopHeard == Spec => []StopIsHeard
<1>1. Inv => StopIsHeard
  BY DEF Inv, PhaseInv, StopIsHeard, Waiting
<1>2. QED
  BY Invariance, <1>1, PTL
-----------------------------------------------------------------------------
(* Where a task is: in a push call, in the queue, or on a worker.            *)

InCall(p, t) == ppc[p] \in {"lock", "emplace"} /\ arg[p] = t
OnWorker(w, t) == cur[w] = t

\* A worker has a task in hand exactly while it runs it; nothing runs before
\* the constructor has returned.
CurInv ==
    /\ \A w \in Workers : wpc[w] = "running" <=> cur[w] # NoTask
    /\ opc = "constructing" =>
         tasks = <<>> /\ \A w \in Workers : wpc[w] # "running"

\* A task that is somewhere is pending.
PendingInv ==
    \A t \in Tasks :
        /\ \A p \in Pushers : InCall(p, t) => future[t] = "pending"
        /\ \A i \in 1..Len(tasks) : tasks[i] = t => future[t] = "pending"
        /\ \A w \in Workers : OnWorker(w, t) => future[t] = "pending"

\* No task is in two places.
ApartInv ==
    /\ \A p, q \in Pushers : \A t \in Tasks :
         InCall(p, t) /\ InCall(q, t) => p = q
    /\ \A i, j \in 1..Len(tasks) : tasks[i] = tasks[j] => i = j
    /\ \A v, w \in Workers : \A t \in Tasks :
         OnWorker(v, t) /\ OnWorker(w, t) => v = w
    /\ \A t \in Tasks : \A p \in Pushers : InCall(p, t) =>
         /\ \A i \in 1..Len(tasks) : tasks[i] # t
         /\ \A w \in Workers : ~OnWorker(w, t)
    /\ \A i \in 1..Len(tasks) : \A w \in Workers : tasks[i] # cur[w]

\* A pending task is somewhere.
Somewhere(t) ==
    \/ \E p \in Pushers : InCall(p, t)
    \/ \E i \in 1..Len(tasks) : tasks[i] = t
    \/ \E w \in Workers : OnWorker(w, t)

SomewhereInv == \A t \in Tasks : future[t] = "pending" => Somewhere(t)

PlaceInv == CurInv /\ PendingInv /\ ApartInv /\ SomewhereInv

LEMMA CurStep == Inv /\ CurInv /\ [Next]_vars => CurInv'
<1> SUFFICES ASSUME Inv, CurInv, [Next]_vars PROVE CurInv'
  OBVIOUS
<1> USE DEF Inv, TypeOK, PushInv, TestedInv, PhaseInv, Ready, CurInv,
            Workers, Pushers, pool, worker, pusher, owner
<1>1. CASE OwnerStep
  <2>1. CASE Spawn
    BY <2>1 DEF Spawn
  <2>2. CASE SpawnFails
    BY <2>2 DEF SpawnFails
  <2>3. CASE Constructed
    BY <2>3 DEF Constructed
  <2>4. CASE DtorBegin
    BY <2>4 DEF DtorBegin
  <2>5. CASE DtorLock
    BY <2>5 DEF DtorLock
  <2>6. CASE DtorStop
    BY <2>6 DEF DtorStop
  <2>7. CASE DtorNotifyAll
    BY <2>7 DEF DtorNotifyAll
  <2>8. CASE DtorJoin
    BY <2>8 DEF DtorJoin
  <2>9. CASE DtorEnd
    BY <2>9 DEF DtorEnd
  <2>10. QED
    BY <1>1, <2>1, <2>2, <2>3, <2>4, <2>5, <2>6, <2>7, <2>8, <2>9 DEF OwnerStep
<1>2. ASSUME NEW p \in Pushers, PushStep(p)
      PROVE  CurInv'
  <2>1. ASSUME NEW t \in Tasks, PushRefused(p, t) PROVE CurInv'
    BY <2>1 DEF PushRefused
  <2>2. ASSUME NEW t \in Tasks, PushCheck(p, t) PROVE CurInv'
    BY <2>2 DEF PushCheck, MayPush
  <2>3. CASE PushLock(p)
    BY <2>3 DEF PushLock
  <2>4. CASE PushEmplace(p)
    BY <2>4 DEF PushEmplace
  <2>5. CASE PushNotify(p)
    BY <2>5 DEF PushNotify, NotifyOne, Waiting
  <2>6. QED
    BY <1>2, <2>1, <2>2, <2>3, <2>4, <2>5 DEF PushStep
<1>3. ASSUME NEW w \in Workers, WorkerStep(w)
      PROVE  CurInv'
  <2>1. CASE WorkerLock(w)
    BY <2>1 DEF WorkerLock
  <2>2. CASE WorkerTest(w)
    BY <2>2 DEF WorkerTest
  <2>3. CASE WorkerSleep(w)
    BY <2>3 DEF WorkerSleep
  <2>4. CASE SpuriousWakeup(w)
    BY <2>4 DEF SpuriousWakeup
  <2>5. CASE WorkerReturn(w)
    BY <2>5 DEF WorkerReturn
  <2>6. CASE WorkerTake(w)
    BY <2>6 DEF WorkerTake
  <2>7. CASE WorkerFinish(w)
    BY <2>7 DEF WorkerFinish
  <2>8. QED
    BY <1>3, <2>1, <2>2, <2>3, <2>4, <2>5, <2>6, <2>7 DEF WorkerStep
<1>4. CASE UNCHANGED vars
  BY <1>4 DEF vars
<1>5. QED
  BY <1>1, <1>2, <1>3, <1>4 DEF Next, Gone

LEMMA PendingStep == Inv /\ PlaceInv /\ [Next]_vars => PendingInv'
<1> SUFFICES ASSUME Inv, PlaceInv, [Next]_vars PROVE PendingInv'
  OBVIOUS
<1> USE DEF Inv, TypeOK, PushInv, TestedInv, PhaseInv, Ready, PlaceInv, CurInv,
            PendingInv, ApartInv, InCall, OnWorker,
            Workers, Pushers, pool, worker, pusher, owner
<1>1. CASE OwnerStep
  <2>1. CASE Spawn
    BY <2>1 DEF Spawn
  <2>2. CASE SpawnFails
    BY <2>2 DEF SpawnFails
  <2>3. CASE Constructed
    BY <2>3 DEF Constructed
  <2>4. CASE DtorBegin
    BY <2>4 DEF DtorBegin
  <2>5. CASE DtorLock
    BY <2>5 DEF DtorLock
  <2>6. CASE DtorStop
    BY <2>6 DEF DtorStop
  <2>7. CASE DtorNotifyAll
    BY <2>7 DEF DtorNotifyAll
  <2>8. CASE DtorJoin
    BY <2>8 DEF DtorJoin
  <2>9. CASE DtorEnd
    BY <2>9 DEF DtorEnd
  <2>10. QED
    BY <1>1, <2>1, <2>2, <2>3, <2>4, <2>5, <2>6, <2>7, <2>8, <2>9 DEF OwnerStep
<1>2. ASSUME NEW p \in Pushers, PushStep(p)
      PROVE  PendingInv'
  <2>1. ASSUME NEW t \in Tasks, PushRefused(p, t) PROVE PendingInv'
    BY <2>1 DEF PushRefused
  <2>2. ASSUME NEW t \in Tasks, PushCheck(p, t) PROVE PendingInv'
    BY <2>2 DEF PushCheck, MayPush
  <2>3. CASE PushLock(p)
    BY <2>3 DEF PushLock
  <2>4. CASE PushEmplace(p)
    BY <2>4 DEF PushEmplace
  <2>5. CASE PushNotify(p)
    BY <2>5 DEF PushNotify, NotifyOne, Waiting
  <2>6. QED
    BY <1>2, <2>1, <2>2, <2>3, <2>4, <2>5 DEF PushStep
<1>3. ASSUME NEW w \in Workers, WorkerStep(w)
      PROVE  PendingInv'
  <2>1. CASE WorkerLock(w)
    BY <2>1 DEF WorkerLock
  <2>2. CASE WorkerTest(w)
    BY <2>2 DEF WorkerTest
  <2>3. CASE WorkerSleep(w)
    BY <2>3 DEF WorkerSleep
  <2>4. CASE SpuriousWakeup(w)
    BY <2>4 DEF SpuriousWakeup
  <2>5. CASE WorkerReturn(w)
    BY <2>5 DEF WorkerReturn
  <2>6. CASE WorkerTake(w)
    BY <2>6 DEF WorkerTake
  <2>7. CASE WorkerFinish(w)
    BY <2>7 DEF WorkerFinish
  <2>8. QED
    BY <1>3, <2>1, <2>2, <2>3, <2>4, <2>5, <2>6, <2>7 DEF WorkerStep
<1>4. CASE UNCHANGED vars
  BY <1>4 DEF vars
<1>5. QED
  BY <1>1, <1>2, <1>3, <1>4 DEF Next, Gone

LEMMA ApartStep == Inv /\ PlaceInv /\ [Next]_vars => ApartInv'
<1> SUFFICES ASSUME Inv, PlaceInv, [Next]_vars PROVE ApartInv'
  OBVIOUS
<1> USE DEF Inv, TypeOK, PushInv, TestedInv, PhaseInv, Ready, PlaceInv, CurInv,
            PendingInv, ApartInv, InCall, OnWorker,
            Workers, Pushers, pool, worker, pusher, owner
<1>1. CASE OwnerStep
  <2>1. CASE Spawn
    BY <2>1 DEF Spawn
  <2>2. CASE SpawnFails
    BY <2>2 DEF SpawnFails
  <2>3. CASE Constructed
    BY <2>3 DEF Constructed
  <2>4. CASE DtorBegin
    BY <2>4 DEF DtorBegin
  <2>5. CASE DtorLock
    BY <2>5 DEF DtorLock
  <2>6. CASE DtorStop
    BY <2>6 DEF DtorStop
  <2>7. CASE DtorNotifyAll
    BY <2>7 DEF DtorNotifyAll
  <2>8. CASE DtorJoin
    BY <2>8 DEF DtorJoin
  <2>9. CASE DtorEnd
    BY <2>9 DEF DtorEnd
  <2>10. QED
    BY <1>1, <2>1, <2>2, <2>3, <2>4, <2>5, <2>6, <2>7, <2>8, <2>9 DEF OwnerStep
<1>2. ASSUME NEW p \in Pushers, PushStep(p)
      PROVE  ApartInv'
  <2>1. ASSUME NEW t \in Tasks, PushRefused(p, t) PROVE ApartInv'
    BY <2>1 DEF PushRefused
  <2>2. ASSUME NEW t \in Tasks, PushCheck(p, t) PROVE ApartInv'
    BY <2>2 DEF PushCheck, MayPush
  <2>3. CASE PushLock(p)
    BY <2>3 DEF PushLock
  <2>4. CASE PushEmplace(p)
    BY <2>4 DEF PushEmplace
  <2>5. CASE PushNotify(p)
    BY <2>5 DEF PushNotify, NotifyOne, Waiting
  <2>6. QED
    BY <1>2, <2>1, <2>2, <2>3, <2>4, <2>5 DEF PushStep
<1>3. ASSUME NEW w \in Workers, WorkerStep(w)
      PROVE  ApartInv'
  <2>1. CASE WorkerLock(w)
    BY <2>1 DEF WorkerLock
  <2>2. CASE WorkerTest(w)
    BY <2>2 DEF WorkerTest
  <2>3. CASE WorkerSleep(w)
    BY <2>3 DEF WorkerSleep
  <2>4. CASE SpuriousWakeup(w)
    BY <2>4 DEF SpuriousWakeup
  <2>5. CASE WorkerReturn(w)
    BY <2>5 DEF WorkerReturn
  <2>6. CASE WorkerTake(w)
    BY <2>6, SMTT(40) DEF WorkerTake
  <2>7. CASE WorkerFinish(w)
    BY <2>7 DEF WorkerFinish
  <2>8. QED
    BY <1>3, <2>1, <2>2, <2>3, <2>4, <2>5, <2>6, <2>7 DEF WorkerStep
<1>4. CASE UNCHANGED vars
  BY <1>4 DEF vars
<1>5. QED
  BY <1>1, <1>2, <1>3, <1>4 DEF Next, Gone

LEMMA SomewhereStep == Inv /\ PlaceInv /\ [Next]_vars => SomewhereInv'
<1> SUFFICES ASSUME Inv, PlaceInv, [Next]_vars PROVE SomewhereInv'
  OBVIOUS
<1> USE DEF Inv, TypeOK, PushInv, TestedInv, PhaseInv, Ready, PlaceInv, CurInv,
            PendingInv, ApartInv, SomewhereInv, Somewhere, InCall, OnWorker,
            Workers, Pushers, pool, worker, pusher, owner
<1>1. CASE OwnerStep
  <2>1. CASE Spawn
    BY <2>1 DEF Spawn
  <2>2. CASE SpawnFails
    BY <2>2 DEF SpawnFails
  <2>3. CASE Constructed
    BY <2>3 DEF Constructed
  <2>4. CASE DtorBegin
    BY <2>4 DEF DtorBegin
  <2>5. CASE DtorLock
    BY <2>5 DEF DtorLock
  <2>6. CASE DtorStop
    BY <2>6 DEF DtorStop
  <2>7. CASE DtorNotifyAll
    BY <2>7 DEF DtorNotifyAll
  <2>8. CASE DtorJoin
    BY <2>8 DEF DtorJoin
  <2>9. CASE DtorEnd
    BY <2>9 DEF DtorEnd
  <2>10. QED
    BY <1>1, <2>1, <2>2, <2>3, <2>4, <2>5, <2>6, <2>7, <2>8, <2>9 DEF OwnerStep
<1>2. ASSUME NEW p \in Pushers, PushStep(p)
      PROVE  SomewhereInv'
  <2>1. ASSUME NEW t \in Tasks, PushRefused(p, t) PROVE SomewhereInv'
    BY <2>1 DEF PushRefused
  <2>2. ASSUME NEW t \in Tasks, PushCheck(p, t) PROVE SomewhereInv'
    <3> SUFFICES ASSUME NEW u \in Tasks, future'[u] = "pending"
                 PROVE  Somewhere(u)'
      OBVIOUS
    <3>1. CASE u = t
      <4>1. InCall(p, t)'
        BY <2>2 DEF PushCheck
      <4>2. QED
        BY <3>1, <4>1
    <3>2. CASE u # t
      <4>1. Somewhere(u)
        BY <2>2, <3>2 DEF PushCheck
      <4>2. \A q \in Pushers : InCall(q, u) => InCall(q, u)'
        BY <2>2 DEF PushCheck
      <4>3. UNCHANGED <<tasks, cur>>
        BY <2>2 DEF PushCheck
      <4>4. QED
        BY <4>1, <4>2, <4>3
    <3>3. QED
      BY <3>1, <3>2
  <2>3. CASE PushLock(p)
    BY <2>3 DEF PushLock
  <2>4. CASE PushEmplace(p)
    BY <2>4 DEF PushEmplace
  <2>5. CASE PushNotify(p)
    BY <2>5 DEF PushNotify, NotifyOne, Waiting
  <2>6. QED
    BY <1>2, <2>1, <2>2, <2>3, <2>4, <2>5 DEF PushStep
<1>3. ASSUME NEW w \in Workers, WorkerStep(w)
      PROVE  SomewhereInv'
  <2>1. CASE WorkerLock(w)
    BY <2>1 DEF WorkerLock
  <2>2. CASE WorkerTest(w)
    <3>1. UNCHANGED <<tasks, cur, ppc, arg, future>>
      BY <2>2 DEF WorkerTest
    <3>2. QED
      BY <3>1
  <2>3. CASE WorkerSleep(w)
    BY <2>3 DEF WorkerSleep
  <2>4. CASE SpuriousWakeup(w)
    BY <2>4 DEF SpuriousWakeup
  <2>5. CASE WorkerReturn(w)
    BY <2>5 DEF WorkerReturn
  <2>6. CASE WorkerTake(w)
    <3> SUFFICES ASSUME NEW u \in Tasks, future'[u] = "pending"
                 PROVE  Somewhere(u)'
      OBVIOUS
    <3>1. UNCHANGED <<ppc, arg, future>> /\ Somewhere(u)
      BY <2>6 DEF WorkerTake
    <3>2. CASE \E q \in Pushers : InCall(q, u)
      BY <3>1, <3>2
    <3>3. CASE \E i \in 1..Len(tasks) : tasks[i] = u
      <4> PICK i \in 1..Len(tasks) : tasks[i] = u
        BY <3>3
      <4>1. CASE i = 1
        <5>1. cur'[w] = u
          BY <2>6, <4>1, <1>3 DEF WorkerTake
        <5>2. QED
          BY <5>1
      <4>2. CASE i # 1
        <5>1. i - 1 \in 1..Len(tasks') /\ tasks'[i - 1] = u
          BY <2>6, <4>2 DEF WorkerTake
        <5>2. QED
          BY <5>1
      <4>3. QED
        BY <4>1, <4>2
    <3>4. CASE \E v \in Workers : OnWorker(v, u)
      <4> PICK v \in Workers : cur[v] = u
        BY <3>4
      <4>1. cur[w] = NoTask /\ u # NoTask
        BY <2>6, <1>3 DEF WorkerTake
      <4>2. cur'[v] = u
        BY <2>6, <4>1 DEF WorkerTake
      <4>3. QED
        BY <4>2
    <3>5. QED
      BY <3>1, <3>2, <3>3, <3>4
  <2>7. CASE WorkerFinish(w)
    <3> SUFFICES ASSUME NEW u \in Tasks, future'[u] = "pending"
                 PROVE  Somewhere(u)'
      OBVIOUS
    <3>1. u # cur[w] /\ future[u] = "pending"
      BY <2>7, <1>3 DEF WorkerFinish
    <3>2. Somewhere(u) /\ UNCHANGED <<tasks, ppc, arg>>
      BY <2>7, <3>1 DEF WorkerFinish
    <3>3. \A v \in Workers : OnWorker(v, u) => OnWorker(v, u)'
      BY <2>7, <3>1 DEF WorkerFinish
    <3>4. QED
      BY <3>2, <3>3
  <2>8. QED
    BY <1>3, <2>1, <2>2, <2>3, <2>4, <2>5, <2>6, <2>7 DEF WorkerStep
<1>4. CASE UNCHANGED vars
  BY <1>4 DEF vars
<1>5. QED
  BY <1>1, <1>2, <1>3, <1>4 DEF Next, Gone

LEMMA PlaceInvariance == Spec => [](Inv /\ PlaceInv)
<1>1. Init => PlaceInv
  BY DEF Init, PlaceInv, CurInv, PendingInv, ApartInv, SomewhereInv, InCall,
         OnWorker, Workers, Pushers
<1>2. Inv /\ PlaceInv /\ [Next]_vars => (Inv /\ PlaceInv)'
  BY TypingStep, ControlStep, CurStep, PendingStep, ApartStep, SomewhereStep
     DEF Inv, PlaceInv
<1>3. QED
  BY InitInv, <1>1, <1>2, PTL DEF Spec

LEMMA PlacesUnique ==
    ASSUME Inv, PlaceInv, NEW t \in Tasks
    PROVE  IF future[t] = "pending"
           THEN \E place \in Places(t) : Places(t) = {place}
           ELSE Places(t) = {}
<1> USE DEF PlaceInv, ApartInv, PendingInv, InCall, OnWorker
<1>1. CASE future[t] # "pending"
  <2>1. Places(t) = {}
    BY <1>1 DEF Places
  <2>2. QED
    BY <1>1, <2>1
<1>2. CASE future[t] = "pending"
  <2>1. CASE \E p \in Pushers : InCall(p, t)
    <3> PICK p \in Pushers : InCall(p, t)
      BY <2>1
    <3>1. Places(t) = {<<"call", p>>}
      BY DEF Places
    <3>2. QED
      BY <1>2, <3>1
  <2>2. CASE \E i \in 1..Len(tasks) : tasks[i] = t
    <3> PICK i \in 1..Len(tasks) : tasks[i] = t
      BY <2>2
    <3>1. \A j \in 1..Len(tasks) : tasks[j] = t => j = i
      OBVIOUS
    <3>2. Places(t) = {<<"queue", i>>}
      BY <3>1 DEF Places
    <3>3. QED
      BY <1>2, <3>2
  <2>3. CASE \E w \in Workers : OnWorker(w, t)
    <3> PICK w \in Workers : OnWorker(w, t)
      BY <2>3
    <3>1. Places(t) = {<<"worker", w>>}
      BY DEF Places
    <3>2. QED
      BY <1>2, <3>1
  <2>4. QED
    BY <1>2, <2>1, <2>2, <2>3 DEF SomewhereInv, Somewhere
<1>3. QED
  BY <1>1, <1>2

(***************************************************************************)
(* A task that push accepted and that has not run is in exactly one place: *)
(* none is lost, none is run twice (threadpool.h:50, threadpool.cpp:27).   *)
(***************************************************************************)
THEOREM OnePlaceAlways == Spec => []OnePlace
<1>1. Inv /\ PlaceInv => OnePlace
  BY PlacesUnique DEF OnePlace
<1>2. QED
  BY PlaceInvariance, <1>1, PTL

-----------------------------------------------------------------------------
(* Draining.  The last worker leaves only with the queue empty, and after    *)
(* that nobody is left who could push.                                       *)

DrainInv ==
    /\ opc \notin {"join", "destroyed"} => joined = 0
    /\ \A w \in Workers : w <= joined => wpc[w] = "exited"
    /\ opc = "destroyed" => joined = Threads
    /\ Threads > 0 /\ (\A w \in Workers : wpc[w] = "exited") => tasks = <<>>
    /\ Threads > 0 => \A t \in Tasks : future[t] # "broken"

LEMMA DrainStep == Inv /\ PlaceInv /\ DrainInv /\ [Next]_vars => DrainInv'
<1> SUFFICES ASSUME Inv, PlaceInv, DrainInv, [Next]_vars PROVE DrainInv'
  OBVIOUS
<1> USE DEF Inv, TypeOK, PushInv, PhaseInv, PlaceInv, CurInv, DrainInv,
            Workers, Pushers, pool, worker, pusher, owner
<1>1. CASE OwnerStep
  <2>1. CASE Spawn
    BY <2>1 DEF Spawn
  <2>2. CASE SpawnFails
    BY <2>2 DEF SpawnFails
  <2>3. CASE Constructed
    BY <2>3 DEF Constructed
  <2>4. CASE DtorBegin
    BY <2>4 DEF DtorBegin
  <2>5. CASE DtorLock
    BY <2>5 DEF DtorLock
  <2>6. CASE DtorStop
    BY <2>6 DEF DtorStop
  <2>7. CASE DtorNotifyAll
    BY <2>7 DEF DtorNotifyAll
  <2>8. CASE DtorJoin
    BY <2>8 DEF DtorJoin
  <2>9. CASE DtorEnd
    BY <2>9 DEF DtorEnd
  <2>10. QED
    BY <1>1, <2>1, <2>2, <2>3, <2>4, <2>5, <2>6, <2>7, <2>8, <2>9 DEF OwnerStep
<1>2. ASSUME NEW p \in Pushers, PushStep(p)
      PROVE  DrainInv'
  <2>1. ASSUME NEW t \in Tasks, PushRefused(p, t) PROVE DrainInv'
    BY <2>1 DEF PushRefused
  <2>2. ASSUME NEW t \in Tasks, PushCheck(p, t) PROVE DrainInv'
    BY <2>2 DEF PushCheck, MayPush
  <2>3. CASE PushLock(p)
    BY <2>3 DEF PushLock
  <2>4. CASE PushEmplace(p)
    BY <2>4 DEF PushEmplace
  <2>5. CASE PushNotify(p)
    BY <2>5 DEF PushNotify, NotifyOne, Waiting
  <2>6. QED
    BY <1>2, <2>1, <2>2, <2>3, <2>4, <2>5 DEF PushStep
<1>3. ASSUME NEW w \in Workers, WorkerStep(w)
      PROVE  DrainInv'
  <2>1. CASE WorkerLock(w)
    BY <2>1 DEF WorkerLock
  <2>2. CASE WorkerTest(w)
    BY <2>2 DEF WorkerTest
  <2>3. CASE WorkerSleep(w)
    BY <2>3 DEF WorkerSleep
  <2>4. CASE SpuriousWakeup(w)
    BY <2>4 DEF SpuriousWakeup
  <2>5. CASE WorkerReturn(w)
    BY <2>5 DEF WorkerReturn
  <2>6. CASE WorkerTake(w)
    BY <2>6 DEF WorkerTake
  <2>7. CASE WorkerFinish(w)
    BY <2>7 DEF WorkerFinish
  <2>8. QED
    BY <1>3, <2>1, <2>2, <2>3, <2>4, <2>5, <2>6, <2>7 DEF WorkerStep
<1>4. CASE UNCHANGED vars
  BY <1>4 DEF vars
<1>5. QED
  BY <1>1, <1>2, <1>3, <1>4 DEF Next, Gone

LEMMA DrainInvariance == Spec => [](Inv /\ PlaceInv /\ DrainInv)
<1>1. Init => DrainInv
  BY DEF Init, DrainInv, Workers
<1>2. DrainInv /\ (Inv /\ PlaceInv) /\ [Next]_vars => DrainInv'
  BY DrainStep
<1>3. QED
  BY PlaceInvariance, <1>1, <1>2, PTL DEF Spec

(***************************************************************************)
(* Destruction drains: ~ThreadPool (threadpool.cpp:40-48) returns only     *)
(* when every accepted task has run, and breaks no promise.                *)
(***************************************************************************)
THEOREM DestructionDrains == Spec => []Drained
<1>1. Inv /\ PlaceInv /\ DrainInv => Drained
  <2> SUFFICES ASSUME Inv, PlaceInv, DrainInv, Threads > 0, opc = "destroyed",
                      NEW t \in Tasks
               PROVE  future[t] \in {"none", "ready", "refused"}
    BY DEF Drained
  <2>1. \A w \in Workers : wpc[w] = "exited"
    BY DEF DrainInv, Workers
  <2>2. tasks = <<>> /\ \A w \in Workers : ~OnWorker(w, t)
    BY <2>1 DEF DrainInv, PlaceInv, CurInv, OnWorker, Inv, TypeOK
  <2>3. \A p \in Pushers : ~InCall(p, t)
    BY <2>1 DEF Inv, PushInv, PhaseInv, InCall, Pushers
  <2>4. future[t] # "pending"
    BY <2>2, <2>3 DEF PlaceInv, SomewhereInv, Somewhere
  <2>5. QED
    BY <2>4 DEF DrainInv, Inv, TypeOK, FutureState
<1>2. QED
  BY DrainInvariance, <1>1, PTL

-----------------------------------------------------------------------------
(* Refinement.  PushEmplace is Accept, WorkerTake is Start, WorkerFinish is  *)
(* Finish, DtorEnd is Close, and every other step stutters.                  *)

LEMMA InitService == Init => Service!Init
  BY DEF Init, Service!Init

LEMMA StepService ==
    ASSUME Threads > 0, Inv, PlaceInv, DrainInv, [Next]_vars
    PROVE  [Service!Next]_Service!vars
<1> USE DEF Inv, TypeOK, PushInv, TestedInv, PhaseInv, Ready, PlaceInv, CurInv,
            PendingInv, ApartInv, InCall, OnWorker,
            Workers, Pushers, pool, worker, pusher, owner
<1> DEFINE Done == {t \in Tasks : future[t] = "ready"}
<1> DEFINE Over == opc = "destroyed"
<1> DEFINE Stutter == UNCHANGED <<tasks, cur, Done, Over>>
<1>0. Stutter => UNCHANGED Service!vars
  BY DEF Service!vars
<1>1. CASE OwnerStep
  <2>1. CASE Spawn
    <3>1. Stutter
      BY <2>1 DEF Spawn
    <3>2. QED
      BY <1>0, <3>1
  <2>2. CASE SpawnFails
    <3>1. Stutter
      BY <2>2 DEF SpawnFails
    <3>2. QED
      BY <1>0, <3>1
  <2>3. CASE Constructed
    <3>1. Stutter
      BY <2>3 DEF Constructed
    <3>2. QED
      BY <1>0, <3>1
  <2>4. CASE DtorBegin
    <3>1. Stutter
      BY <2>4 DEF DtorBegin
    <3>2. QED
      BY <1>0, <3>1
  <2>5. CASE DtorLock
    <3>1. Stutter
      BY <2>5 DEF DtorLock
    <3>2. QED
      BY <1>0, <3>1
  <2>6. CASE DtorStop
    <3>1. Stutter
      BY <2>6 DEF DtorStop
    <3>2. QED
      BY <1>0, <3>1
  <2>7. CASE DtorNotifyAll
    <3>1. Stutter
      BY <2>7 DEF DtorNotifyAll
    <3>2. QED
      BY <1>0, <3>1
  <2>8. CASE DtorJoin
    <3>1. Stutter
      BY <2>8 DEF DtorJoin
    <3>2. QED
      BY <1>0, <3>1
  <2>9. CASE DtorEnd
    <3>1. \A v \in Workers : wpc[v] = "exited"
      BY <2>9 DEF DtorEnd, DrainInv
    <3>2. tasks = <<>> /\ \A v \in Workers : cur[v] = NoTask
      BY <3>1 DEF DrainInv
    <3>3. future' = future /\ tasks' = tasks /\ cur' = cur
      BY <2>9, <3>2 DEF DtorEnd
    <3>4. Service!Close
      BY <2>9, <3>2, <3>3 DEF DtorEnd, Service!Close
    <3>5. QED
      BY <3>4 DEF Service!Next
  <2>10. QED
    BY <1>1, <2>1, <2>2, <2>3, <2>4, <2>5, <2>6, <2>7, <2>8, <2>9 DEF OwnerStep
<1>2. ASSUME NEW p \in Pushers, PushStep(p)
      PROVE  [Service!Next]_Service!vars
  <2>1. ASSUME NEW t \in Tasks, PushRefused(p, t)
        PROVE  [Service!Next]_Service!vars
    <3>1. Stutter
      BY <2>1 DEF PushRefused
    <3>2. QED
      BY <1>0, <3>1
  <2>2. ASSUME NEW t \in Tasks, PushCheck(p, t)
        PROVE  [Service!Next]_Service!vars
    <3>1. Stutter
      BY <2>2 DEF PushCheck
    <3>2. QED
      BY <1>0, <3>1
  <2>3. CASE PushLock(p)
    <3>1. Stutter
      BY <2>3 DEF PushLock
    <3>2. QED
      BY <1>0, <3>1
  <2>4. CASE PushEmplace(p)
    <3>1. arg[p] \in Tasks /\ future[arg[p]] = "pending" /\ opc # "destroyed"
      BY <2>4, <1>2 DEF PushEmplace, DrainInv
    <3>2. /\ \A i \in 1..Len(tasks) : tasks[i] # arg[p]
          /\ \A v \in Workers : cur[v] # arg[p]
      BY <2>4, <3>1, <1>2 DEF PushEmplace
    <3>3. Service!Accept(arg[p])
      BY <2>4, <3>1, <3>2 DEF PushEmplace, Service!Accept
    <3>4. QED
      BY <3>1, <3>3 DEF Service!Next
  <2>5. CASE PushNotify(p)
    <3>1. Stutter
      BY <2>5 DEF PushNotify
    <3>2. QED
      BY <1>0, <3>1
  <2>6. QED
    BY <1>2, <2>1, <2>2, <2>3, <2>4, <2>5 DEF PushStep
<1>3. ASSUME NEW w \in Workers, WorkerStep(w)
      PROVE  [Service!Next]_Service!vars
  <2>1. CASE WorkerLock(w)
    <3>1. Stutter
      BY <2>1 DEF WorkerLock
    <3>2. QED
      BY <1>0, <3>1
  <2>2. CASE WorkerTest(w)
    <3>1. Stutter
      BY <2>2 DEF WorkerTest
    <3>2. QED
      BY <1>0, <3>1
  <2>3. CASE WorkerSleep(w)
    <3>1. Stutter
      BY <2>3 DEF WorkerSleep
    <3>2. QED
      BY <1>0, <3>1
  <2>4. CASE SpuriousWakeup(w)
    <3>1. Stutter
      BY <2>4 DEF SpuriousWakeup
    <3>2. QED
      BY <1>0, <3>1
  <2>5. CASE WorkerReturn(w)
    <3>1. Stutter
      BY <2>5 DEF WorkerReturn
    <3>2. QED
      BY <1>0, <3>1
  <2>6. CASE WorkerTake(w)
    <3>1. cur[w] = NoTask /\ tasks # <<>>
      BY <2>6, <1>3 DEF WorkerTake
    <3>2. Service!Start(w)
      BY <2>6, <3>1 DEF WorkerTake, Service!Start
    <3>3. QED
      BY <1>3, <3>2 DEF Service!Next
  <2>7. CASE WorkerFinish(w)
    <3>1. cur[w] \in Tasks
      BY <2>7, <1>3 DEF WorkerFinish
    <3>2. Done' = Done \cup {cur[w]}
      BY <2>7, <3>1 DEF WorkerFinish
    <3>3. Service!Finish(w)
      BY <2>7, <3>1, <3>2 DEF WorkerFinish, Service!Finish
    <3>4. QED
      BY <1>3, <3>3 DEF Service!Next
  <2>8. QED
    BY <1>3, <2>1, <2>2, <2>3, <2>4, <2>5, <2>6, <2>7 DEF WorkerStep
<1>4. CASE UNCHANGED vars
  BY <1>0, <1>4 DEF vars
<1>5. QED
  BY <1>1, <1>2, <1>3, <1>4 DEF Next, Gone

(***************************************************************************)
(* The pool implements the task service of TaskService.tla, whatever the   *)
(* number of clients and tasks, with at least one thread.                  *)
(***************************************************************************)
THEOREM PoolImplementsService ==
    ASSUME Threads > 0
    PROVE  Spec => ImplementsService
<1>1. Inv /\ PlaceInv /\ DrainInv /\ [Next]_vars => [Service!Next]_Service!vars
  BY StepService
<1>2. QED
  BY InitService, <1>1, DrainInvariance, PTL
     DEF Spec, ImplementsService, Service!Spec

-----------------------------------------------------------------------------
(* No lost wake-up.  Given Inv, NoLostWakeup is inductive: a task enters the *)
(* queue together with a pending notification, a notification that finds a   *)
(* sleeper becomes an awake worker, and a worker goes to sleep, or leaves,   *)
(* only when it has seen the queue empty and nobody could fill it since.     *)

LEMMA CountsFinite ==
    ASSUME NEW S, S \subseteq Pushers
    PROVE  IsFiniteSet(S) /\ Cardinality(S) \in Nat
<1>1. IsFiniteSet(Workers)
  BY FS_Interval DEF Workers
<1>2. IsFiniteSet(Pushers)
  BY <1>1, ClientsAssumption, FS_Union DEF Pushers
<1>3. QED
  BY <1>2, FS_Subset, FS_CardinalityType

\* How the two counts move.
LEMMA CountAdd ==
    ASSUME NEW S, S \subseteq Pushers, NEW x, x \notin S
    PROVE  Cardinality(S \cup {x}) = Cardinality(S) + 1
BY CountsFinite, FS_AddElement

LEMMA CountRemove ==
    ASSUME NEW S, S \subseteq Pushers, NEW x \in S
    PROVE  Cardinality(S \ {x}) = Cardinality(S) - 1
BY CountsFinite, FS_RemoveElement

LEMMA WakeupStep == Inv /\ NoLostWakeup /\ [Next]_vars => NoLostWakeup'
<1> SUFFICES ASSUME Inv, NoLostWakeup, [Next]_vars PROVE NoLostWakeup'
  OBVIOUS
<1> USE DEF Inv, TypeOK, PushInv, TestedInv, PhaseInv, Ready,
            pool, worker, pusher, owner
<1>0. /\ Awake \subseteq Pushers /\ Notifying \subseteq Pushers
      /\ Cardinality(Awake) \in Nat /\ Cardinality(Notifying) \in Nat
      /\ Cardinality(Awake') \in Nat /\ Cardinality(Notifying') \in Nat
      /\ Len(tasks) \in Nat
  <2>1. /\ Awake \subseteq Pushers /\ Notifying \subseteq Pushers
        /\ Awake' \subseteq Pushers /\ Notifying' \subseteq Pushers
    BY DEF Awake, Notifying, Pushers
  <2>2. QED
    BY <2>1, CountsFinite
<1>a. ASSUME Waiting' = Waiting, Awake' = Awake, Notifying' = Notifying,
             tasks' = tasks
      PROVE  NoLostWakeup'
  BY <1>a DEF NoLostWakeup
<1>b. ASSUME Waiting' = {} \/ tasks' = <<>>
      PROVE  NoLostWakeup'
  BY <1>0, <1>b DEF NoLostWakeup
<1>c. ASSUME NEW x, x \notin Awake, Awake' = Awake \cup {x},
             Waiting' \subseteq Waiting, Notifying' = Notifying, tasks' = tasks
      PROVE  NoLostWakeup'
  BY <1>0, <1>c, CountAdd DEF NoLostWakeup
<1>1. CASE OwnerStep
  <2>1. CASE Spawn
    <3> DEFINE w == nworkers + 1
    <3>1. w \in Workers /\ wpc[w] = "unborn"
      BY <2>1 DEF Spawn, Workers
    <3>2. w \notin Awake /\ Awake' = Awake \cup {w}
      BY <2>1, <3>1 DEF Spawn, Awake
    <3>3. UNCHANGED <<Waiting, Notifying, tasks>>
      BY <2>1, <3>1 DEF Spawn, Waiting, Notifying
    <3>4. QED
      BY <1>c, <3>2, <3>3
  <2>2. CASE SpawnFails
    <3>1. Waiting' = {}
      BY <2>2 DEF SpawnFails, Waiting
    <3>2. QED
      BY <1>b, <3>1
  <2>3. CASE Constructed
    <3>1. UNCHANGED <<Waiting, Awake, Notifying, tasks>>
      BY <2>3 DEF Constructed, Waiting, Awake, Notifying
    <3>2. QED
      BY <1>a, <3>1
  <2>4. CASE DtorBegin
    <3>1. UNCHANGED <<Waiting, Awake, Notifying, tasks>>
      BY <2>4 DEF DtorBegin, Waiting, Awake, Notifying
    <3>2. QED
      BY <1>a, <3>1
  <2>5. CASE DtorLock
    <3>1. UNCHANGED <<Waiting, Awake, Notifying, tasks>>
      BY <2>5 DEF DtorLock, Waiting, Awake, Notifying
    <3>2. QED
      BY <1>a, <3>1
  <2>6. CASE DtorStop
    <3>1. UNCHANGED <<Waiting, Awake, Notifying, tasks>>
      BY <2>6 DEF DtorStop, Waiting, Awake, Notifying
    <3>2. QED
      BY <1>a, <3>1
  <2>7. CASE DtorNotifyAll
    <3>1. Waiting' = {}
      BY <2>7 DEF DtorNotifyAll, Waiting
    <3>2. QED
      BY <1>b, <3>1
  <2>8. CASE DtorJoin
    <3>1. UNCHANGED <<Waiting, Awake, Notifying, tasks>>
      BY <2>8 DEF DtorJoin, Waiting, Awake, Notifying
    <3>2. QED
      BY <1>a, <3>1
  <2>9. CASE DtorEnd
    <3>1. tasks' = <<>>
      BY <2>9 DEF DtorEnd, Waiting
    <3>2. QED
      BY <1>b, <3>1
  <2>10. QED
    BY <1>1, <2>1, <2>2, <2>3, <2>4, <2>5, <2>6, <2>7, <2>8, <2>9 DEF OwnerStep
<1>2. ASSUME NEW p \in Pushers, PushStep(p)
      PROVE  NoLostWakeup'
  <2>1. ASSUME NEW t \in Tasks, PushRefused(p, t) PROVE NoLostWakeup'
    <3>1. UNCHANGED <<Waiting, Awake, Notifying, tasks>>
      BY <2>1 DEF PushRefused, Waiting, Awake, Notifying
    <3>2. QED
      BY <1>a, <3>1
  <2>2. ASSUME NEW t \in Tasks, PushCheck(p, t) PROVE NoLostWakeup'
    <3>1. UNCHANGED <<Waiting, Awake, Notifying, tasks>>
      BY <2>2 DEF PushCheck, Waiting, Awake, Notifying
    <3>2. QED
      BY <1>a, <3>1
  <2>3. CASE PushLock(p)
    <3>1. UNCHANGED <<Waiting, Awake, Notifying, tasks>>
      BY <2>3 DEF PushLock, Waiting, Awake, Notifying
    <3>2. QED
      BY <1>a, <3>1
  <2>4. CASE PushEmplace(p)
    <3>1. p \notin Notifying /\ Notifying' = Notifying \cup {p}
      BY <2>4, <1>2 DEF PushEmplace, Notifying
    <3>2. Cardinality(Notifying') = Cardinality(Notifying) + 1
      BY <1>0, <3>1, CountAdd
    <3>3. Len(tasks') = Len(tasks) + 1
      BY <2>4, <1>2 DEF PushEmplace
    <3>4. UNCHANGED <<Waiting, Awake>>
      BY <2>4 DEF PushEmplace, Waiting, Awake
    <3>5. QED
      BY <1>0, <3>2, <3>3, <3>4 DEF NoLostWakeup
  <2>5. CASE PushNotify(p)
    <3>1. CASE Waiting = {} /\ UNCHANGED wpc
      <4>1. Waiting' = {}
        BY <3>1 DEF Waiting
      <4>2. QED
        BY <1>b, <4>1
    <3>2. ASSUME NEW w \in Waiting, wpc' = [wpc EXCEPT ![w] = "woken"]
          PROVE  NoLostWakeup'
      <4>1. w \notin Awake /\ Awake' = Awake \cup {w}
        BY <3>2 DEF Waiting, Awake
      <4>2. p \in Notifying /\ Notifying' = Notifying \ {p}
        BY <2>5, <1>2 DEF PushNotify, Notifying
      <4>3. Cardinality(Awake') = Cardinality(Awake) + 1
        BY <1>0, <4>1, CountAdd
      <4>4. Cardinality(Notifying') = Cardinality(Notifying) - 1
        BY <1>0, <4>2, CountRemove
      <4>5. tasks' = tasks /\ Waiting # {}
        BY <2>5 DEF PushNotify
      <4>6. QED
        BY <1>0, <4>3, <4>4, <4>5 DEF NoLostWakeup
    <3>3. QED
      BY <2>5, <3>1, <3>2 DEF PushNotify, NotifyOne
  <2>6. QED
    BY <1>2, <2>1, <2>2, <2>3, <2>4, <2>5 DEF PushStep
<1>3. ASSUME NEW w \in Workers, WorkerStep(w)
      PROVE  NoLostWakeup'
  <2>1. CASE WorkerLock(w)
    <3>1. UNCHANGED <<Waiting, Awake, Notifying, tasks>>
      BY <2>1 DEF WorkerLock, Waiting, Awake, Notifying
    <3>2. QED
      BY <1>a, <3>1
  <2>2. CASE WorkerTest(w)
    <3>1. CASE Ready
      <4>1. UNCHANGED <<Waiting, Awake, Notifying, tasks>>
        BY <2>2, <3>1 DEF WorkerTest, Waiting, Awake, Notifying
      <4>2. QED
        BY <1>a, <4>1
    <3>2. CASE ~Ready
      <4>1. tasks' = <<>>
        BY <2>2, <3>2 DEF WorkerTest
      <4>2. QED
        BY <1>b, <4>1
    <3>3. QED
      BY <3>1, <3>2
  <2>3. CASE WorkerSleep(w)
    <3>1. tasks' = <<>>
      BY <2>3, <1>3 DEF WorkerSleep, Waiting
    <3>2. QED
      BY <1>b, <3>1
  <2>4. CASE SpuriousWakeup(w)
    <3>1. w \notin Awake /\ Awake' = Awake \cup {w}
      BY <2>4, <1>3 DEF SpuriousWakeup, Awake
    <3>2. Waiting' \subseteq Waiting /\ UNCHANGED <<Notifying, tasks>>
      BY <2>4 DEF SpuriousWakeup, Waiting, Notifying
    <3>3. QED
      BY <1>c, <3>1, <3>2
  <2>5. CASE WorkerReturn(w)
    <3>1. tasks' = <<>>
      BY <2>5 DEF WorkerReturn, Waiting
    <3>2. QED
      BY <1>b, <3>1
  <2>6. CASE WorkerTake(w)
    <3>1. w \in Awake /\ Awake' = Awake \ {w}
      BY <2>6, <1>3 DEF WorkerTake, Awake
    <3>2. Cardinality(Awake') = Cardinality(Awake) - 1
      BY <1>0, <3>1, CountRemove
    <3>3. tasks # <<>>
      BY <2>6, <1>3 DEF WorkerTake
    <3>4. Len(tasks') = Len(tasks) - 1
      BY <2>6, <3>3 DEF WorkerTake
    <3>5. UNCHANGED <<Waiting, Notifying>>
      BY <2>6, <1>3 DEF WorkerTake, Waiting, Notifying
    <3>6. QED
      BY <1>0, <3>2, <3>4, <3>5 DEF NoLostWakeup
  <2>7. CASE WorkerFinish(w)
    <3>1. w \notin Awake /\ Awake' = Awake \cup {w}
      BY <2>7, <1>3 DEF WorkerFinish, Awake
    <3>2. UNCHANGED <<Waiting, Notifying, tasks>>
      BY <2>7, <1>3 DEF WorkerFinish, Waiting, Notifying
    <3>3. QED
      BY <1>c, <3>1, <3>2
  <2>8. QED
    BY <1>3, <2>1, <2>2, <2>3, <2>4, <2>5, <2>6, <2>7 DEF WorkerStep
<1>4. CASE UNCHANGED vars
  <2>1. UNCHANGED <<Waiting, Awake, Notifying, tasks>>
    BY <1>4 DEF vars, Waiting, Awake, Notifying
  <2>2. QED
    BY <1>a, <2>1
<1>5. QED
  BY <1>1, <1>2, <1>3, <1>4 DEF Next, Gone

(***************************************************************************)
(* No lost wake-up: notifying after the mutex is released                  *)
(* (threadpool.h:56) never leaves a task in the queue with a sleeping      *)
(* worker and nobody on the way to it.                                     *)
(***************************************************************************)
THEOREM WakeupsKept == Spec => []NoLostWakeup
<1>1. Init => NoLostWakeup
  BY DEF Init, NoLostWakeup, Waiting
<1>2. Inv /\ NoLostWakeup /\ [Next]_vars => NoLostWakeup'
  BY WakeupStep
<1>3. QED
  BY Invariance, <1>1, <1>2, PTL DEF Spec

=============================================================================
