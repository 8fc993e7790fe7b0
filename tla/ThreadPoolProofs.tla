-------------------------- MODULE ThreadPoolProofs --------------------------
(***************************************************************************)
(* Proofs about ThreadPool, for every finite set of workers and every set  *)
(* of tasks.                                                               *)
(***************************************************************************)
EXTENDS ThreadPool, SequenceLemmas, TLAPS

-----------------------------------------------------------------------------
(* The pool keeps its type: a worker holds a task exactly while it runs    *)
(* one, and is inside Add only while it runs one.                          *)
LEMMA InitTypeOK == Init => TypeOK
  BY PoolAssumption, EmptySeq DEF Init, TypeOK, Threads

(* Every step of the pool keeps the types, and that a worker holds a task  *)
(* exactly while it runs one.                                              *)
LEMMA NextTypeOK == TypeOK /\ [Next]_vars => TypeOK'
<1> SUFFICES ASSUME TypeOK, [Next]_vars
             PROVE  TypeOK'
  OBVIOUS
<1> USE PoolAssumption
<1>1. CASE UNCHANGED vars
  BY <1>1 DEF TypeOK, vars
<1>2. ASSUME NEW w \in Workers, Wait(w) \/ SpuriousWakeup(w) \/ Return(w)
      PROVE  TypeOK'
  BY <1>2 DEF TypeOK, Wait, SpuriousWakeup, Return, MayReturn
<1>3. ASSUME NEW w \in Workers, Take(w)
      PROVE  TypeOK'
  <2>1. /\ Head(task_queue) \in Tasks
        /\ Tail(task_queue) \in Seq(Tasks)
        /\ Append(started, Head(task_queue)) \in Seq(Tasks)
    BY <1>3, HeadTailProperties DEF TypeOK, Take, Front, Popped
  <2>2. QED
    BY <1>3, <2>1 DEF TypeOK, Take, Front, Popped
<1>4. ASSUME NEW w \in Workers, RunTask(w) \/ AddThrows(w)
      PROVE  TypeOK'
  <2>1. /\ task[w] \in Tasks
        /\ w \notin notifying
        /\ task' = [task EXCEPT ![w] = NoTask]
        /\ pc' = [pc EXCEPT ![w] = "ready"]
        /\ UNCHANGED <<stop, task_queue, notifying, opc, accepted, started>>
    BY <1>4 DEF TypeOK, RunTask, AddThrows, IterationEnds
  <2>2. future' \in [Tasks -> {"none", "value", "exception"}]
    BY <1>4, <2>1 DEF TypeOK, RunTask, AddThrows, IterationEnds
  <2>3. QED
    BY <2>1, <2>2 DEF TypeOK
<1>5. ASSUME NEW th \in Threads, NEW t \in Tasks, Add(th, t)
      PROVE  TypeOK'
  BY <1>5 DEF TypeOK, Add, InClientCode, Threads
<1>6. ASSUME NEW th \in Threads, NotifyOne(th)
      PROVE  TypeOK'
  BY <1>6 DEF TypeOK, NotifyOne, WakeOne, Waiting, Threads
<1>7. CASE Stop \/ NotifyAll \/ Join
  BY <1>7 DEF TypeOK, Stop, NotifyAll, WakeAll, Join, AllReturned, Waiting
<1>8. QED
  BY <1>1, <1>2, <1>3, <1>4, <1>5, <1>6, <1>7
     DEF Next, WorkerStep, Destroyed, vars

(* Type correctness of the pool: of the queue, of every worker's position  *)
(* in its loop and of the futures that Add has handed out.                 *)
THEOREM PoolTypeCorrect == Spec => []TypeOK
<1>1. QED
  BY InitTypeOK, NextTypeOK, PTL DEF Spec

-----------------------------------------------------------------------------
(* Appending a task to a queue or a history adds it to the tasks in it.    *)
LEMMA ElementsAfterAppend ==
  ASSUME NEW s \in Seq(Tasks), NEW t \in Tasks
  PROVE  Elements(Append(s, t)) = Elements(s) \cup {t}
  BY ElementsOfAppend DEF Elements

-----------------------------------------------------------------------------
(* The inductive invariant.                                                *)

(* stop_ is what separates the open pool from its destructor.              *)
StopMatches == stop <=> opc # "open"

(* A worker returns only from a stopped pool with an empty queue, and      *)
(* nothing is queued after that.                                           *)
ReturnedDrained == \A w \in Workers : pc[w] = "exited" => stop /\ task_queue = <<>>

JoinedReturned == opc = "destroyed" => \A w \in Workers : pc[w] = "exited"

(* A task that was taken has ended or is held by a worker.                 *)
StartedTracked ==
    \A t \in Elements(started) : future[t] # "none" \/ \E w \in Workers : task[w] = t

(* Add has queued no task twice.                                           *)
AcceptedOnce == \A i, j \in 1..Len(accepted) : accepted[i] = accepted[j] => i = j

(* A task that a worker holds was taken from the queue, has no result yet  *)
(* and is in nobody else's hands.                                          *)
HeldOnce ==
    \A w \in Workers : task[w] # NoTask =>
        /\ task[w] \in Elements(started)
        /\ future[task[w]] = "none"
        /\ \A v \in Workers : task[v] = task[w] => v = w

EndedStarted == \A t \in Tasks : future[t] # "none" => t \in Elements(started)

PoolInv ==
    /\ TypeOK
    /\ TakenInOrder
    /\ BacklogCovered
    /\ NoSleeperAtJoin
    /\ StopMatches
    /\ ReturnedDrained
    /\ JoinedReturned
    /\ StartedTracked
    /\ AcceptedOnce
    /\ HeldOnce
    /\ EndedStarted

-----------------------------------------------------------------------------
(* Each part of the invariant is preserved by every step.                  *)

(* Taking moves the head of the queue to the end of what was started; Add  *)
(* extends both sides of the equation.                                     *)
LEMMA NextTakenInOrder ==
  TypeOK /\ TakenInOrder /\ [Next]_vars => TakenInOrder'
<1> SUFFICES ASSUME TypeOK, TakenInOrder, [Next]_vars
             PROVE  TakenInOrder'
  OBVIOUS
<1>1. ASSUME NEW w \in Workers, Take(w)
      PROVE  TakenInOrder'
  <2>1. Append(started, Head(task_queue)) \o Tail(task_queue) = started \o task_queue
    BY <1>1, MoveHead DEF TypeOK, Take, Front, Popped
  <2>2. QED
    BY <1>1, <2>1 DEF TakenInOrder, Take, Front, Popped
<1>2. ASSUME NEW th \in Threads, NEW t \in Tasks, Add(th, t)
      PROVE  TakenInOrder'
  <2>1. started \o Append(task_queue, t) = Append(started \o task_queue, t)
    BY AppendToSecond DEF TypeOK
  <2>2. QED
    BY <1>2, <2>1 DEF Add, TakenInOrder
<1>3. CASE UNCHANGED <<accepted, started, task_queue>>
  BY <1>3 DEF TakenInOrder
<1>4. QED
  BY <1>1, <1>2, <1>3
     DEF Next, WorkerStep, Wait, SpuriousWakeup, Return, MayReturn, RunTask, AddThrows, IterationEnds,
         NotifyOne, WakeOne, Stop, NotifyAll, WakeAll, Join, AllReturned, Destroyed, vars

(* The sets that BacklogCovered counts are finite.                         *)
LEMMA FiniteThreads ==
  ASSUME TypeOK
  PROVE  /\ IsFiniteSet(Ready) /\ Cardinality(Ready) \in Nat
         /\ IsFiniteSet(notifying) /\ Cardinality(notifying) \in Nat
<1>1. IsFiniteSet(Threads)
  BY PoolAssumption, FS_AddElement DEF Threads
<1>2. IsFiniteSet(Ready) /\ IsFiniteSet(notifying)
  BY <1>1, PoolAssumption, FS_Subset DEF Ready, TypeOK
<1>3. QED
  BY <1>2, FS_CardinalityType

(* No step uncovers the backlog: Add brings a notification to come, the    *)
(* notification turns a sleeper into a worker that is ready, and whoever   *)
(* takes a task leaves one fewer in the queue.                             *)
LEMMA NextBacklogCovered ==
  TypeOK /\ BacklogCovered /\ [Next]_vars => BacklogCovered'
<1> SUFFICES ASSUME TypeOK, BacklogCovered, [Next]_vars, Waiting' # {}
             PROVE  Len(task_queue') <= Cardinality(Ready') + Cardinality(notifying')
  BY DEF BacklogCovered
<1> USE PoolAssumption
<1> DEFINE R == Cardinality(Ready)
           N == Cardinality(notifying)
<1>a. Len(task_queue) \in Nat /\ R \in Nat /\ N \in Nat
  BY FiniteThreads, LenProperties DEF TypeOK
<1>b. TypeOK'
  BY NextTypeOK
<1>c. Cardinality(Ready') \in Nat /\ Cardinality(notifying') \in Nat
  <2>1. Ready' \subseteq Workers /\ notifying' \subseteq Threads
    BY <1>b DEF Ready, TypeOK, Threads
  <2>2. IsFiniteSet(Threads)
    BY FS_AddElement DEF Threads
  <2>3. QED
    BY <2>1, <2>2, FS_Subset, FS_CardinalityType
<1>1. ASSUME NEW w \in Workers, Wait(w) \/ Return(w)
      PROVE  Len(task_queue') <= Cardinality(Ready') + Cardinality(notifying')
  BY <1>1, <1>c, EmptySeq DEF Wait, Return, MayReturn
<1>2. ASSUME NEW w \in Workers, SpuriousWakeup(w)
      PROVE  Len(task_queue') <= Cardinality(Ready') + Cardinality(notifying')
  <2>1. Ready' = Ready \cup {w} /\ w \notin Ready /\ w \in Waiting
    BY <1>2 DEF SpuriousWakeup, Ready, Waiting, TypeOK
  <2>2. Cardinality(Ready') = R + 1
    BY <2>1, FiniteThreads, FS_AddElement
  <2>3. QED
    BY <1>2, <1>a, <2>1, <2>2 DEF SpuriousWakeup, BacklogCovered
<1>3. ASSUME NEW w \in Workers, Take(w)
      PROVE  Len(task_queue') <= Cardinality(Ready') + Cardinality(notifying')
  <2>1. /\ Ready' = Ready \ {w} /\ w \in Ready
        /\ Waiting' = Waiting
    BY <1>3 DEF Take, Front, Popped, Ready, Waiting, TypeOK
  <2>2. Cardinality(Ready') = R - 1
    BY <2>1, FiniteThreads, FS_RemoveElement
  <2>3. Len(task_queue') = Len(task_queue) - 1
    BY <1>3, HeadTailProperties DEF Take, Front, Popped, TypeOK
  <2>4. QED
    BY <1>3, <1>a, <2>1, <2>2, <2>3 DEF Take, Front, Popped, BacklogCovered
<1>4. ASSUME NEW w \in Workers, RunTask(w) \/ AddThrows(w)
      PROVE  Len(task_queue') <= Cardinality(Ready') + Cardinality(notifying')
  <2>1. /\ Ready' = Ready \cup {w} /\ w \notin Ready
        /\ Waiting' = Waiting
        /\ UNCHANGED <<task_queue, notifying>>
    BY <1>4 DEF RunTask, AddThrows, IterationEnds, Ready, Waiting, TypeOK
  <2>2. Cardinality(Ready') = R + 1
    BY <2>1, FiniteThreads, FS_AddElement
  <2>3. QED
    BY <1>a, <2>1, <2>2 DEF BacklogCovered
<1>5. ASSUME NEW th \in Threads, NEW t \in Tasks, Add(th, t)
      PROVE  Len(task_queue') <= Cardinality(Ready') + Cardinality(notifying')
  <2>1. /\ notifying' = notifying \cup {th} /\ th \notin notifying
        /\ Ready' = Ready /\ Waiting' = Waiting
    BY <1>5 DEF Add, InClientCode, Ready, Waiting
  <2>2. Cardinality(notifying') = N + 1
    BY <2>1, FiniteThreads, FS_AddElement
  <2>3. Len(task_queue') = Len(task_queue) + 1
    BY <1>5 DEF Add, TypeOK
  <2>4. QED
    BY <1>a, <2>1, <2>2, <2>3 DEF BacklogCovered
<1>6. ASSUME NEW th \in Threads, NotifyOne(th)
      PROVE  Len(task_queue') <= Cardinality(Ready') + Cardinality(notifying')
  <2>1. Cardinality(notifying') = N - 1 /\ task_queue' = task_queue
    BY <1>6, FiniteThreads, FS_RemoveElement DEF NotifyOne, WakeOne
  <2>2. PICK w \in Waiting : pc' = [pc EXCEPT ![w] = "ready"]
    BY <1>6 DEF NotifyOne, WakeOne, Waiting
  <2>3. Ready' = Ready \cup {w} /\ w \notin Ready
    BY <2>2 DEF Ready, Waiting, TypeOK
  <2>4. Cardinality(Ready') = R + 1
    BY <2>3, FiniteThreads, FS_AddElement
  <2>5. QED
    BY <1>a, <2>1, <2>2, <2>4 DEF BacklogCovered
<1>7. CASE NotifyAll
  BY <1>7 DEF NotifyAll, WakeAll, Waiting, TypeOK
<1>8. CASE UNCHANGED <<task_queue, pc, notifying>>
  BY <1>8 DEF BacklogCovered, Ready, Waiting
<1>9. QED
  BY <1>1, <1>2, <1>3, <1>4, <1>5, <1>6, <1>7, <1>8
     DEF Next, WorkerStep, Stop, Join, AllReturned, Destroyed, vars
(* The order of the destructor's steps, and what a worker that has         *)
(* returned has seen.                                                      *)
LEMMA NextShutdown ==
  ASSUME TypeOK, NoSleeperAtJoin, StopMatches, ReturnedDrained, JoinedReturned, [Next]_vars
  PROVE  NoSleeperAtJoin' /\ StopMatches' /\ ReturnedDrained' /\ JoinedReturned'
<1> USE DEF NoSleeperAtJoin, StopMatches, ReturnedDrained, JoinedReturned, Waiting
<1> DEFINE Goal == NoSleeperAtJoin' /\ StopMatches' /\ ReturnedDrained' /\ JoinedReturned'
<1>1. ASSUME NEW w \in Workers, Wait(w) \/ SpuriousWakeup(w) \/ Return(w)
      PROVE  Goal
  BY <1>1 DEF TypeOK, Wait, SpuriousWakeup, Return, MayReturn
<1>2. ASSUME NEW w \in Workers, Take(w) PROVE Goal
  BY <1>2 DEF TypeOK, Take, Front, Popped
<1>3. ASSUME NEW w \in Workers, RunTask(w) \/ AddThrows(w) PROVE Goal
  BY <1>3 DEF TypeOK, RunTask, AddThrows, IterationEnds
<1>4. ASSUME NEW th \in Threads, NEW t \in Tasks, Add(th, t) PROVE Goal
  BY <1>4 DEF TypeOK, Add
<1>5. ASSUME NEW th \in Threads, NotifyOne(th) PROVE Goal
  BY <1>5 DEF TypeOK, NotifyOne, WakeOne
<1>6. CASE Stop
  BY <1>6 DEF TypeOK, Stop
<1>7. CASE NotifyAll
  BY <1>7 DEF TypeOK, NotifyAll, WakeAll
<1>8. CASE Join
  BY <1>8 DEF TypeOK, Join, AllReturned
<1>9. CASE UNCHANGED vars
  BY <1>9 DEF vars
<1>10. QED
  BY <1>1, <1>2, <1>3, <1>4, <1>5, <1>6, <1>7, <1>8, <1>9
     DEF Next, WorkerStep, Destroyed

(* A task leaves a worker's hands only with its future set.                *)
LEMMA NextStartedTracked ==
  ASSUME TypeOK, StartedTracked, [Next]_vars
  PROVE  StartedTracked'
<1> USE PoolAssumption
<1>1. ASSUME NEW w \in Workers, Take(w) PROVE StartedTracked'
  <2>1. Head(task_queue) \in Tasks
    BY <1>1, HeadTailProperties DEF TypeOK, Take, Front, Popped
  <2>2. Elements(started') = Elements(started) \cup {Head(task_queue)}
    BY <1>1, <2>1, ElementsAfterAppend DEF TypeOK, Take, Front, Popped
  <2>3. task[w] = NoTask /\ task' = [task EXCEPT ![w] = Head(task_queue)] /\ future' = future
    BY <1>1 DEF Take, Front, Popped, TypeOK
  <2>4. Elements(started) \subseteq Tasks
    BY DEF Elements, TypeOK
  <2>5. ASSUME NEW t \in Elements(started)
        PROVE  future'[t] # "none" \/ \E v \in Workers : task'[v] = t
    <3>1. CASE future[t] # "none"
      BY <3>1, <2>3
    <3>2. CASE \E v \in Workers : task[v] = t
      BY <3>2, <2>3, <2>4, <2>5 DEF TypeOK
    <3>3. QED
      BY <3>1, <3>2, <2>5 DEF StartedTracked
  <2>6. \E v \in Workers : task'[v] = Head(task_queue)
    BY <2>3 DEF TypeOK
  <2>7. QED
    BY <2>2, <2>5, <2>6 DEF StartedTracked
<1>2. ASSUME NEW w \in Workers, RunTask(w) \/ AddThrows(w) PROVE StartedTracked'
  <2>1. /\ task[w] \in Tasks
        /\ task' = [task EXCEPT ![w] = NoTask]
        /\ started' = started
        /\ \E r \in {"value", "exception"} : future' = [future EXCEPT ![task[w]] = r]
    BY <1>2 DEF RunTask, AddThrows, IterationEnds, TypeOK
  <2>2. future'[task[w]] # "none" /\ \A t \in Tasks : t # task[w] => future'[t] = future[t]
    BY <2>1 DEF TypeOK
  <2>3. Elements(started) \subseteq Tasks
    BY DEF Elements, TypeOK
  <2>4. ASSUME NEW t \in Elements(started)
        PROVE  future'[t] # "none" \/ \E v \in Workers : task'[v] = t
    <3>1. CASE t = task[w]
      BY <3>1, <2>2
    <3>2. CASE t # task[w]
      BY <3>2, <2>1, <2>2, <2>3, <2>4 DEF StartedTracked, TypeOK
    <3>3. QED
      BY <3>1, <3>2
  <2>5. QED
    BY <2>1, <2>4 DEF StartedTracked
<1>3. CASE UNCHANGED <<started, task, future>>
  BY <1>3 DEF StartedTracked
<1>4. QED
  BY <1>1, <1>2, <1>3
     DEF Next, WorkerStep, Wait, SpuriousWakeup, Return, MayReturn, Add, NotifyOne, WakeOne, Stop,
         NotifyAll, WakeAll, Join, AllReturned, Destroyed, vars

(* Add refuses a task that it has queued before.                           *)
LEMMA NextAcceptedOnce ==
  ASSUME TypeOK, AcceptedOnce, [Next]_vars
  PROVE  AcceptedOnce'
<1>1. ASSUME NEW th \in Threads, NEW t \in Tasks, Add(th, t) PROVE AcceptedOnce'
  <2>1. accepted' = Append(accepted, t) /\ t \notin Elements(accepted)
    BY <1>1 DEF Add
  <2>2. /\ Len(accepted) \in Nat
        /\ Len(accepted') = Len(accepted) + 1
        /\ \A i \in 1..Len(accepted) : accepted'[i] = accepted[i] /\ accepted[i] # t
        /\ accepted'[Len(accepted) + 1] = t
    BY <2>1, LenProperties DEF TypeOK, Elements
  <2>3. QED
    BY <2>2 DEF AcceptedOnce
<1>2. CASE UNCHANGED accepted
  BY <1>2 DEF AcceptedOnce
<1>3. QED
  BY <1>1, <1>2
     DEF Next, WorkerStep, Wait, SpuriousWakeup, Return, Take, RunTask, AddThrows, NotifyOne,
         Stop, NotifyAll, Join, Destroyed, vars

(* The head of the queue has not been taken before.                        *)
LEMMA HeadIsNew ==
  ASSUME TypeOK, TakenInOrder, AcceptedOnce, task_queue # <<>>
  PROVE  Head(task_queue) \notin Elements(started)
<1>1. /\ started \in Seq(Tasks) /\ task_queue \in Seq(Tasks)
      /\ Len(started) \in Nat /\ Len(task_queue) \in Nat \ {0}
      /\ Head(task_queue) = task_queue[1]
  BY LenProperties, EmptySeq, HeadTailProperties DEF TypeOK
<1>2. /\ Len(accepted) = Len(started) + Len(task_queue)
      /\ accepted[Len(started) + 1] = Head(task_queue)
      /\ \A i \in 1..Len(started) : accepted[i] = started[i]
  BY <1>1, ConcatProperties DEF TakenInOrder
<1>3. ASSUME NEW i \in 1..Len(started), started[i] = Head(task_queue) PROVE FALSE
  <2>1. i \in 1..Len(accepted) /\ Len(started) + 1 \in 1..Len(accepted)
    BY <1>1, <1>2
  <2>2. i = Len(started) + 1
    BY <1>2, <1>3, <2>1 DEF AcceptedOnce
  <2>3. QED
    BY <1>1, <2>2
<1>4. QED
  BY <1>3 DEF Elements

(* A task is taken once, and given its result once, by whoever holds it.   *)
LEMMA NextHeldOnce ==
  ASSUME TypeOK, TakenInOrder, AcceptedOnce, HeldOnce, EndedStarted, [Next]_vars
  PROVE  HeldOnce' /\ EndedStarted'
<1> USE PoolAssumption
<1>1. ASSUME NEW w \in Workers, Take(w) PROVE HeldOnce' /\ EndedStarted'
  <2> DEFINE h == Head(task_queue)
  <2>1. h \in Tasks /\ h \notin Elements(started)
    BY <1>1, HeadIsNew, HeadTailProperties DEF TypeOK, Take
  <2>2. Elements(started') = Elements(started) \cup {h}
    BY <1>1, <2>1, ElementsAfterAppend DEF TypeOK, Take, Front, Popped
  <2>3. task[w] = NoTask /\ task' = [task EXCEPT ![w] = h] /\ future' = future
    BY <1>1 DEF Take, Front, Popped, TypeOK
  <2>4. future[h] = "none" /\ \A v \in Workers : task[v] # h
    BY <2>1 DEF HeldOnce, EndedStarted, TypeOK
  <2> HIDE DEF h
  <2>5. task'[w] = h /\ \A v \in Workers : v # w => task'[v] = task[v]
    BY <2>3 DEF TypeOK
  <2>6. HeldOnce'
    BY <2>1, <2>2, <2>3, <2>4, <2>5 DEF HeldOnce
  <2>7. EndedStarted'
    BY <2>2, <2>3 DEF EndedStarted
  <2>8. QED
    BY <2>6, <2>7
<1>2. ASSUME NEW w \in Workers, RunTask(w) \/ AddThrows(w)
      PROVE  HeldOnce' /\ EndedStarted'
  <2>1. /\ task[w] \in Tasks
        /\ task' = [task EXCEPT ![w] = NoTask]
        /\ started' = started
        /\ \E r \in {"value", "exception"} : future' = [future EXCEPT ![task[w]] = r]
    BY <1>2 DEF RunTask, AddThrows, IterationEnds, TypeOK
  <2>2. \A t \in Tasks : t # task[w] => future'[t] = future[t]
    BY <2>1 DEF TypeOK
  <2>3. task'[w] = NoTask /\ \A v \in Workers : v # w => task'[v] = task[v]
    BY <2>1 DEF TypeOK
  <2>4. task[w] \in Elements(started)
    BY <2>1 DEF HeldOnce
  <2>5. HeldOnce'
    BY <2>1, <2>2, <2>3 DEF HeldOnce, TypeOK
  <2>6. EndedStarted'
    BY <2>1, <2>2, <2>4 DEF EndedStarted
  <2>7. QED
    BY <2>5, <2>6
<1>3. CASE UNCHANGED <<started, task, future>>
  BY <1>3 DEF HeldOnce, EndedStarted
<1>4. QED
  BY <1>1, <1>2, <1>3
     DEF Next, WorkerStep, Wait, SpuriousWakeup, Return, Add, NotifyOne, Stop,
         NotifyAll, Join, Destroyed, vars

-----------------------------------------------------------------------------
(* The invariant holds of a pool that has just been constructed ...        *)
LEMMA InitPoolInv == Init => PoolInv
<1> SUFFICES ASSUME Init PROVE PoolInv
  OBVIOUS
<1>1. TypeOK
  BY InitTypeOK
<1>2. TakenInOrder
  BY EmptySeq, ConcatEmptySeq DEF Init, TakenInOrder
<1>3. Elements(<<>>) = {}
  BY EmptySeq DEF Elements
<1>4. QED
  BY <1>1, <1>2, <1>3 DEF Init, PoolInv, BacklogCovered, NoSleeperAtJoin, StopMatches,
     ReturnedDrained, JoinedReturned, StartedTracked, Waiting, AcceptedOnce, HeldOnce, EndedStarted

(* ... is kept by every step of workers, callers of Add and destructor ... *)
LEMMA NextPoolInv == PoolInv /\ [Next]_vars => PoolInv'
  BY NextTypeOK, NextTakenInOrder, NextBacklogCovered, NextShutdown, NextStartedTracked,
     NextAcceptedOnce, NextHeldOnce
     DEF PoolInv

(* ... and so holds at every moment of the pool's life.                    *)
THEOREM PoolInvariant == Spec => []PoolInv
<1>1. QED
  BY InitPoolInv, NextPoolInv, PTL DEF Spec

(* At the end every worker has returned, which the last one did with an    *)
(* empty queue, so all that was accepted has been taken; no worker holds a *)
(* task any more, so all that was taken has its result.                    *)
LEMMA PoolInvKeepsPromises == PoolInv => NoBrokenPromise
<1> SUFFICES ASSUME PoolInv, opc = "destroyed", NEW t \in Elements(accepted)
             PROVE  future[t] # "none"
  BY DEF NoBrokenPromise
<1> USE PoolAssumption
<1>1. \A w \in Workers : pc[w] = "exited" /\ task[w] = NoTask
  BY DEF PoolInv, JoinedReturned, TypeOK
<1>2. task_queue = <<>>
  BY <1>1 DEF PoolInv, ReturnedDrained
<1>3. accepted = started
  BY <1>2, ConcatEmptySeq DEF PoolInv, TakenInOrder, TypeOK
<1>4. t \in Tasks /\ t \in Elements(started)
  BY <1>3 DEF Elements, PoolInv, TypeOK
<1>5. QED
  BY <1>1, <1>4 DEF PoolInv, StartedTracked

(* The tasks are taken in the order of Add, each of them once, whatever    *)
(* the number of workers and whoever calls Add.                            *)
THEOREM TasksTakenInOrder == Spec => []TakenInOrder
<1>1. PoolInv => TakenInOrder
  BY DEF PoolInv
<1>2. QED
  BY <1>1, PoolInvariant, PTL

(* Notifying after the unlock never strands a queued task beside a         *)
(* sleeping worker.                                                        *)
THEOREM NoWakeupLost == Spec => []BacklogCovered
<1>1. PoolInv => BacklogCovered
  BY DEF PoolInv
<1>2. QED
  BY <1>1, PoolInvariant, PTL

(* No worker sleeps through the destructor.                                *)
THEOREM NobodySleepsAtJoin == Spec => []NoSleeperAtJoin
<1>1. PoolInv => NoSleeperAtJoin
  BY DEF PoolInv
<1>2. QED
  BY <1>1, PoolInvariant, PTL

(* When the destructor returns, no future is left without its result.      *)
THEOREM PromisesKept == Spec => []NoBrokenPromise
<1>1. QED
  BY PoolInvKeepsPromises, PoolInvariant, PTL

(* Whoever gives a future its result holds the task, and the future of a   *)
(* held task has no result: none is given twice.                           *)
LEMMA StepSetsOnce ==
  ASSUME PoolInv, [Next]_vars, NEW t \in Tasks, future[t] # "none"
  PROVE  future'[t] = future[t]
<1> USE PoolAssumption
<1>1. ASSUME NEW w \in Workers, RunTask(w) \/ AddThrows(w) PROVE future'[t] = future[t]
  <2>1. /\ task[w] \in Tasks
        /\ \E r \in {"value", "exception"} : future' = [future EXCEPT ![task[w]] = r]
    BY <1>1 DEF RunTask, AddThrows, IterationEnds, PoolInv, TypeOK
  <2>2. future[task[w]] = "none"
    BY <2>1 DEF PoolInv, HeldOnce
  <2>3. QED
    BY <2>1, <2>2 DEF PoolInv, TypeOK
<1>2. CASE UNCHANGED future
  BY <1>2
<1>3. QED
  BY <1>1, <1>2
     DEF Next, WorkerStep, Wait, SpuriousWakeup, Return, Take, Add, NotifyOne, Stop,
         NotifyAll, Join, Destroyed, vars

(* A future is given its result once: no task is run twice.                *)
THEOREM FuturesSetOnce == Spec => FutureSetOnce
<1>1. PoolInv /\ [Next]_vars => [\A t \in Tasks : future[t] # "none" => future'[t] = future[t]]_vars
  BY StepSetsOnce
<1>2. QED
  BY <1>1, PoolInvariant, PTL DEF Spec, FutureSetOnce

-----------------------------------------------------------------------------
(* The refinement of TaskService.                                          *)

Ended == {t \in Tasks : future[t] # "none"}
Running == {w \in Workers : task[w] # NoTask}

(* The tasks taken are those that have ended and those in the hands of the *)
(* workers, one for each: so the pool never runs more tasks than it has    *)
(* workers.                                                                *)
LEMMA RunningTasks ==
  ASSUME PoolInv
  PROVE  /\ IsFiniteSet(Ended) /\ Cardinality(Ended) \in Nat
         /\ IsFiniteSet(Running) /\ Cardinality(Running) \in Nat
         /\ Len(started) = Cardinality(Ended) + Cardinality(Running)
<1> USE PoolAssumption
<1> DEFINE H == {task[w] : w \in Running}
           f == [w \in Running |-> task[w]]
<1>1. /\ started \in Seq(Tasks) /\ task_queue \in Seq(Tasks)
      /\ Len(started) \in Nat /\ Len(task_queue) \in Nat
  BY LenProperties DEF PoolInv, TypeOK
<1>2. \A i, j \in 1..Len(started) : started[i] = started[j] => i = j
  <2>1. /\ Len(accepted) = Len(started) + Len(task_queue)
        /\ \A i \in 1..Len(started) : accepted[i] = started[i]
    BY <1>1, ConcatProperties DEF PoolInv, TakenInOrder
  <2>2. \A i \in 1..Len(started) : i \in 1..Len(accepted)
    BY <2>1, <1>1
  <2>3. QED
    BY <2>1, <2>2 DEF PoolInv, AcceptedOnce
<1>3. IsFiniteSet(Elements(started)) /\ Cardinality(Elements(started)) = Len(started)
  BY <1>1, <1>2, CardinalityOfElements DEF Elements
<1>4. Elements(started) \subseteq Tasks
  BY <1>1 DEF Elements
<1>5. IsFiniteSet(Running)
  BY FS_Subset DEF Running
<1>6. IsFiniteSet(H) /\ Cardinality(H) = Cardinality(Running)
  <2>1. \A v, w \in Running : f[v] = f[w] => v = w
    BY DEF Running, PoolInv, HeldOnce
  <2>2. f \in Bijection(Running, H)
    BY <2>1 DEF Bijection, Injection, Surjection, IsInjective
  <2> HIDE DEF H, f
  <2>3. ExistsBijection(Running, H)
    BY <2>2 DEF ExistsBijection
  <2>4. QED
    BY <2>3, <1>5, FS_Bijection
<1>7. Elements(started) = Ended \cup H
  BY <1>4 DEF Ended, Running, PoolInv, StartedTracked, HeldOnce, EndedStarted
<1>8. Ended \cap H = {}
  BY DEF Ended, Running, PoolInv, HeldOnce
<1> HIDE DEF H, f
<1>9. IsFiniteSet(Ended)
  BY <1>3, <1>7, FS_Subset
<1>10. Len(started) = Cardinality(Ended) + Cardinality(H)
  <2>1. Cardinality(Ended \cup H) = Cardinality(Ended) + Cardinality(H) - Cardinality({})
    BY <1>6, <1>8, <1>9, FS_Union
  <2>2. Cardinality(Ended) \in Nat /\ Cardinality(H) \in Nat
    BY <1>6, <1>9, FS_CardinalityType
  <2>3. QED
    BY <1>3, <1>7, <2>1, <2>2, FS_EmptySet
<1>11. QED
  BY <1>5, <1>6, <1>9, <1>10, FS_CardinalityType

(* A constructed pool is a service that has taken nothing.                 *)
LEMMA InitService == Init => Service!Init
<1> SUFFICES ASSUME Init PROVE Service!Init
  OBVIOUS
<1>1. Len(<<>>) = 0
  BY EmptySeq
<1>2. QED
  BY <1>1 DEF Init, Service!Init

(* TaskService counts as this module does.                                 *)
LEMMA SameCardinality == \A S : Service!Cardinality(S) = Cardinality(S)
  BY DEF Service!Cardinality, Cardinality, Service!IsFiniteSet, IsFiniteSet

(* Taking a task begins it: the worker was free, so a slot was.            *)
LEMMA TakeBegins ==
  ASSUME PoolInv, NEW w \in Workers, Take(w)
  PROVE  Service!Begin
<1> USE PoolAssumption
<1>1. /\ started \in Seq(Tasks) /\ task_queue \in Seq(Tasks)
      /\ Len(started) \in Nat /\ Len(task_queue) \in Nat \ {0}
  BY LenProperties, EmptySeq DEF PoolInv, TypeOK, Take
<1>2. opc \in {"open", "notify_all", "joining"}
  BY DEF PoolInv, TypeOK, JoinedReturned, Take
<1>3. Len(started) < Len(accepted)
  <2>1. Len(accepted) = Len(started) + Len(task_queue)
    BY <1>1, ConcatProperties DEF PoolInv, TakenInOrder
  <2>2. QED
    BY <1>1, <2>1
<1>4. Len(started') = Len(started) + 1
  <2>1. Head(task_queue) \in Tasks
    BY <1>1, HeadTailProperties DEF Take
  <2>2. QED
    BY <1>1, <2>1, AppendProperties DEF Take, Front
<1>5. Cardinality(Running) < Cardinality(Workers)
  <2>1. Running \subseteq Workers /\ w \in Workers /\ w \notin Running
    BY DEF Running, Take, PoolInv, TypeOK
  <2>2. Running # Workers
    BY <2>1
  <2>3. /\ Cardinality(Running) <= Cardinality(Workers)
        /\ Cardinality(Running) # Cardinality(Workers)
    BY <2>1, <2>2, FS_Subset
  <2>4. Cardinality(Running) \in Nat /\ Cardinality(Workers) \in Nat
    BY RunningTasks, FS_CardinalityType
  <2>5. QED
    BY <2>3, <2>4
<1>6. Len(started) - Cardinality(Ended) < Cardinality(Workers)
  <2>1. Cardinality(Workers) \in Nat
    BY FS_CardinalityType
  <2>2. QED
    BY <1>1, <1>5, <2>1, RunningTasks
<1>7. UNCHANGED <<accepted, future, opc>>
  BY DEF Take
<1>8. QED
  BY <1>2, <1>3, <1>4, <1>6, <1>7, SameCardinality DEF Service!Begin, Ended

(* A task that returns or throws ends: it had begun and not ended.         *)
LEMMA RunEnds ==
  ASSUME PoolInv, NEW w \in Workers, RunTask(w) \/ AddThrows(w)
  PROVE  \E t \in Tasks : Service!End(t)
<1> USE PoolAssumption
<1>1. /\ task[w] \in Tasks
      /\ pc[w] = "running"
      /\ UNCHANGED <<opc, accepted, started>>
      /\ \E r \in {"value", "exception"} : future' = [future EXCEPT ![task[w]] = r]
  BY DEF RunTask, AddThrows, IterationEnds, PoolInv, TypeOK
<1>2. opc \in {"open", "notify_all", "joining"}
  BY <1>1 DEF PoolInv, TypeOK, JoinedReturned
<1>3. task[w] \in Elements(started) /\ task[w] \notin Ended
  BY <1>1 DEF Ended, PoolInv, HeldOnce
<1>4. Ended' = Ended \cup {task[w]}
  BY <1>1 DEF Ended, PoolInv, TypeOK
<1>5. \E i \in 1..Len(started) : accepted[i] = task[w]
  <2>1. /\ started \in Seq(Tasks) /\ task_queue \in Seq(Tasks)
        /\ Len(started) \in Nat /\ Len(task_queue) \in Nat
    BY LenProperties DEF PoolInv, TypeOK
  <2>2. \A i \in 1..Len(started) : accepted[i] = started[i]
    BY <2>1, ConcatProperties DEF PoolInv, TakenInOrder
  <2>3. QED
    BY <2>2, <1>3 DEF Elements
<1>6. PICK t \in Tasks : t = task[w]
  BY <1>1
<1>7. Service!End(t)
  BY <1>1, <1>2, <1>3, <1>4, <1>5, <1>6 DEF Service!End, Ended
<1>8. QED
  BY <1>7

(* Add submits.                                                            *)
LEMMA AddSubmits ==
  ASSUME PoolInv, NEW th \in Threads, NEW t \in Tasks, Add(th, t)
  PROVE  Service!Submit(t)
  BY DEF Add, Service!Submit, Service!Taken, Elements, PoolInv, StopMatches

(* The destructor closes: when it has joined the workers, all has ended.   *)
LEMMA JoinCloses ==
  ASSUME PoolInv, Join
  PROVE  Service!FinishClosing
<1> USE PoolAssumption
<1>1. /\ \A w \in Workers : pc[w] = "exited" /\ task[w] = NoTask
      /\ task_queue = <<>>
  BY DEF Join, AllReturned, PoolInv, TypeOK, ReturnedDrained
<1>2. accepted = started
  BY <1>1, ConcatEmptySeq DEF PoolInv, TakenInOrder, TypeOK
<1>3. Elements(started) \subseteq Tasks
  BY DEF Elements, PoolInv, TypeOK
<1>4. Ended = Elements(accepted)
  BY <1>1, <1>2, <1>3 DEF Ended, PoolInv, StartedTracked, EndedStarted
<1>5. UNCHANGED <<accepted, started, future>> /\ opc = "joining" /\ opc' = "destroyed"
  BY DEF Join
<1>6. QED
  BY <1>4, <1>5 DEF Service!FinishClosing, Service!Taken, Elements, Ended

(* Every step of workers, callers and destructor is a step of the service  *)
(* or leaves it as it was.                                                 *)
LEMMA NextService ==
  PoolInv /\ [Next]_vars => [Service!Next]_(Service!svars)
<1> SUFFICES ASSUME PoolInv, [Next]_vars PROVE Service!Next \/ UNCHANGED Service!svars
  OBVIOUS
<1>1. ASSUME NEW w \in Workers, Take(w) PROVE Service!Next
  BY <1>1, TakeBegins DEF Service!Next
<1>2. ASSUME NEW w \in Workers, RunTask(w) \/ AddThrows(w) PROVE Service!Next
  BY <1>2, RunEnds DEF Service!Next
<1>3. ASSUME NEW th \in Threads, NEW t \in Tasks, Add(th, t) PROVE Service!Next
  BY <1>3, AddSubmits DEF Service!Next
<1>4. CASE Stop
  <2>1. Service!StartClosing
    BY <1>4 DEF Stop, Service!StartClosing
  <2>2. QED
    BY <2>1 DEF Service!Next
<1>5. CASE NotifyAll
  BY <1>5 DEF NotifyAll, Service!svars
<1>6. CASE Join
  BY <1>6, JoinCloses DEF Service!Next
<1>7. CASE UNCHANGED <<accepted, started, future, opc>>
  BY <1>7 DEF Service!svars
<1>8. QED
  BY <1>1, <1>2, <1>3, <1>4, <1>5, <1>6, <1>7
     DEF Next, WorkerStep, Wait, SpuriousWakeup, Return, NotifyOne, Destroyed, vars

(* The pool implements TaskService.                                        *)
THEOREM PoolImplementsService == Spec => ImplementsService
<1>1. QED
  BY InitService, NextService, PoolInvariant, PTL DEF Spec, ImplementsService, Service!Spec
=============================================================================
