----------------------- MODULE ServerLifecycleProofs ------------------------
(***************************************************************************)
(* Proofs about ServerLifecycle, for every number of sub reactors.  What   *)
(* is proved about ThreadPool holds of the Server's pool too: every step   *)
(* of the Server is a step of its pool or leaves it alone.                 *)
(***************************************************************************)
EXTENDS ServerLifecycle, SequenceLemmas, TLAPS

Q == INSTANCE ThreadPoolProofs WITH Tasks <- Reactors, Endless <- Reactors

-----------------------------------------------------------------------------
(* The pool of a Server meets ThreadPool's assumption.                     *)
LEMMA PoolOfReactors == Q!PoolAssumption
<1>1. Workers # {}
  BY LifecycleAssumption, FS_EmptySet
<1>2. Q!IsFiniteSet(Workers) <=> IsFiniteSet(Workers)
  BY DEF IsFiniteSet, Q!IsFiniteSet
<1>3. QED
  BY <1>1, <1>2, LifecycleAssumption DEF Q!PoolAssumption

(* P and Q are the same instance of ThreadPool.                            *)
LEMMA SamePool ==
  /\ Q!TypeOK <=> P!TypeOK
  /\ \A s : Q!Elements(s) = P!Elements(s)
  /\ P!Init <=> Q!Init
<1>1. Q!TypeOK <=> P!TypeOK
  BY DEF Q!TypeOK, P!TypeOK, Q!Threads, P!Threads
<1>2. \A s : Q!Elements(s) = P!Elements(s)
  BY DEF Q!Elements, P!Elements
<1>3. P!Init <=> Q!Init
  BY DEF P!Init, Q!Init
<1>4. QED
  BY <1>1, <1>2, <1>3

(* A worker's step of the one is a step of the other.                      *)
LEMMA SameWorkerSteps ==
  ASSUME NEW w \in Workers, P!WorkerStep(w) \/ P!SpuriousWakeup(w) \/ P!RunTask(w)
  PROVE  Q!Next
<1>1. CASE P!WorkerStep(w)
  <2>1. P!Wait(w) => Q!Wait(w)
    BY DEF P!Wait, Q!Wait
  <2>2. P!Return(w) => Q!Return(w)
    BY DEF P!Return, Q!Return, P!MayReturn, Q!MayReturn
  <2>3. P!Take(w) => Q!Take(w)
    BY DEF P!Take, Q!Take, P!Front, Q!Front, P!Popped, Q!Popped
  <2>4. QED
    BY <1>1, <2>1, <2>2, <2>3 DEF P!WorkerStep, Q!WorkerStep, Q!Next
<1>2. CASE P!SpuriousWakeup(w)
  BY <1>2 DEF P!SpuriousWakeup, Q!SpuriousWakeup, Q!Next
<1>3. CASE P!RunTask(w)
  <2>1. Q!RunTask(w)
    BY <1>3 DEF P!RunTask, Q!RunTask, P!IterationEnds, Q!IterationEnds
  <2>2. QED
    BY <2>1 DEF Q!Next
<1>4. QED
  BY <1>1, <1>2, <1>3

(* So is a step of the owner's: Add, its notify_one, the destructor.       *)
LEMMA SameOwnerSteps ==
  ASSUME \/ \E r \in Reactors : P!Add(Owner, r)
         \/ P!NotifyOne(Owner) \/ P!Stop \/ P!NotifyAll \/ P!Join
  PROVE  Q!Next
<1>0. Owner \in Q!Threads
  BY DEF Q!Threads
<1>1. ASSUME NEW r \in Reactors, P!Add(Owner, r) PROVE Q!Next
  <2>1. Q!Add(Owner, r)
    BY <1>1 DEF P!Add, Q!Add, P!InClientCode, Q!InClientCode, P!Elements, Q!Elements
  <2>2. QED
    BY <1>0, <2>1 DEF Q!Next
<1>2. CASE P!NotifyOne(Owner)
  <2>1. Q!NotifyOne(Owner)
    BY <1>2 DEF P!NotifyOne, Q!NotifyOne, P!WakeOne, Q!WakeOne, P!Waiting, Q!Waiting
  <2>2. QED
    BY <1>0, <2>1 DEF Q!Next
<1>3. CASE P!Stop
  BY <1>3 DEF P!Stop, Q!Stop, Q!Next
<1>4. CASE P!NotifyAll
  <2>1. Q!NotifyAll
    BY <1>4 DEF P!NotifyAll, Q!NotifyAll, P!WakeAll, Q!WakeAll, P!Waiting, Q!Waiting
  <2>2. QED
    BY <2>1 DEF Q!Next
<1>5. CASE P!Join
  BY <1>5 DEF P!Join, Q!Join, P!AllReturned, Q!AllReturned, Q!Next
<1>6. QED
  BY <1>1, <1>2, <1>3, <1>4, <1>5

(* The i-th reactor is added when i - 1 have been.                         *)
LEMMA AddLoopAdds ==
  ASSUME P!TypeOK, AddLoop
  PROVE  \E r \in Reactors : P!Add(Owner, r)
<1>1. Len(accepted) \in Nat
  BY LenProperties DEF P!TypeOK
<1>2. Len(accepted) + 1 \in Reactors
  BY <1>1, LifecycleAssumption DEF AddLoop, MoreLoops, Reactors
<1>3. QED
  BY <1>2 DEF AddLoop

(* Every step of the Server is a step of its pool or leaves it alone.      *)
LEMMA StepOfPool ==
  ASSUME P!TypeOK, [Next]_vars
  PROVE  [Q!Next]_pool
<1>1. CASE NewLoop \/ Constructed \/ EnterMainLoop \/ MainLoopThrows \/ DeleteLoop \/ DestroyMembers
  BY <1>1 DEF NewLoop, Constructed, EnterMainLoop, MainLoopThrows, DeleteLoop, DestroyMembers
<1>2. CASE AddLoop
  BY <1>2, AddLoopAdds, SameOwnerSteps
<1>3. CASE NotifyWorker \/ DeletePool \/ FinishPool
  BY <1>3, SameOwnerSteps DEF NotifyWorker, DeletePool, FinishPool
<1>4. ASSUME NEW w \in Workers, Work(w) \/ WakeUp(w) \/ LoopEnds(w) PROVE [Q!Next]_pool
  BY <1>4, SameWorkerSteps DEF Work, WakeUp, LoopEnds
<1>5. ASSUME NEW w \in Workers, LoopGoesOn(w) PROVE [Q!Next]_pool
  BY <1>5 DEF LoopGoesOn
<1>6. CASE UNCHANGED vars
  BY <1>6 DEF vars
<1>7. QED
  BY <1>1, <1>2, <1>3, <1>4, <1>5, <1>6 DEF Next, OwnerStep

(* So the invariant of ThreadPool is one of the Server's pool.             *)
LEMMA PoolInvKept ==
  ASSUME Q!PoolInv, [Next]_vars
  PROVE  Q!PoolInv'
<1>1. P!TypeOK
  BY SamePool DEF Q!PoolInv
<1>2. [Q!Next]_pool
  BY <1>1, StepOfPool
<1>3. Q!PoolInv /\ [Q!Next]_Q!vars => Q!PoolInv'
  BY PoolOfReactors, Q!NextPoolInv DEF Q!PoolAssumption
<1>4. QED
  BY <1>2, <1>3 DEF Q!vars, pool

-----------------------------------------------------------------------------
(* The inductive invariant.                                                *)

OwnerTypes ==
    /\ spc \in {"constructing", "unwinding", "starting", "main", "deleting", "members"}
    /\ built \in 0..NReactors
    /\ deleted \in 0..built
    /\ crashed \in BOOLEAN

(* Start and ~Server run on a Server whose loops have all been made, and   *)
(* only ~Server deletes them; the pool is closed by the owner's            *)
(* destructor, or by the constructor that unwinds.                         *)
OwnerInPlace ==
    /\ opc # "open" => spc \in {"unwinding", "members"}
    /\ spc \in {"starting", "main", "deleting", "members"} => built = NReactors
    /\ deleted > 0 => spc \in {"deleting", "members"}

(* What was used after it was deleted belonged to a loop that had not      *)
(* ended by then, and these are all that have still not ended.             *)
OrphansTracked ==
    /\ touched \subseteq orphans
    /\ orphans \subseteq 1..deleted
    /\ \A r \in 1..deleted : Unfinished(r) => r \in orphans

LifecycleInv ==
    /\ Q!PoolInv
    /\ OwnerTypes
    /\ OwnerInPlace
    /\ OrphansTracked

(* The constructor has deleted nothing and started nothing.                *)
LEMMA InitLifecycleInv == Init => LifecycleInv
<1> SUFFICES ASSUME Init PROVE LifecycleInv
  OBVIOUS
<1>1. Q!Init
  BY SamePool DEF Init
<1>2. Q!PoolInv
  BY <1>1, PoolOfReactors, Q!InitPoolInv DEF Q!PoolAssumption
<1>3. /\ spc = "constructing" /\ built = 0 /\ deleted = 0
      /\ orphans = {} /\ touched = {} /\ crashed = FALSE /\ opc = "open"
  BY <1>1 DEF Init, Q!Init
<1>4. OwnerTypes
  <2>1. built \in 0..NReactors /\ deleted \in 0..built
    BY <1>3, LifecycleAssumption
  <2>2. QED
    BY <1>3, <2>1 DEF OwnerTypes
<1>5. OwnerInPlace
  BY <1>3 DEF OwnerInPlace
<1>6. OrphansTracked
  <2>1. 1..deleted = {}
    BY <1>3
  <2>2. QED
    BY <1>3, <2>1 DEF OrphansTracked
<1>7. QED
  BY <1>2, <1>4, <1>5, <1>6 DEF LifecycleInv

(* A reactor whose loop runs in a worker has been accepted and has not     *)
(* ended, and the destructor has not returned.                             *)
LEMMA RunningLoop ==
  ASSUME Q!PoolInv, NEW w \in Workers, pc[w] = "running"
  PROVE  /\ task[w] \in Reactors
         /\ Unfinished(task[w])
         /\ opc # "destroyed"
<1>1. /\ Q!TypeOK /\ Q!HeldOnce /\ Q!JoinedReturned /\ accepted = started \o task_queue
  BY DEF Q!PoolInv, Q!TakenInOrder
<1>2. task[w] # NoTask /\ task[w] \in Reactors
  BY <1>1 DEF Q!TypeOK
<1>3. task[w] \in Q!Elements(started) /\ future[task[w]] = "none"
  BY <1>1, <1>2 DEF Q!HeldOnce
<1>4. PICK k \in 1..Len(started) : task[w] = started[k]
  BY <1>3 DEF Q!Elements
<1>5. started \in Seq(Reactors) /\ task_queue \in Seq(Reactors)
  BY <1>1 DEF Q!TypeOK
<1>6. k \in 1..Len(accepted) /\ accepted[k] = started[k]
  <2>1. /\ Len(started \o task_queue) = Len(started) + Len(task_queue)
        /\ Len(started) \in Nat /\ Len(task_queue) \in Nat
        /\ (started \o task_queue)[k] = started[k]
    BY <1>5, ConcatProperties, LenProperties
  <2>2. QED
    BY <1>1, <2>1
<1>7. task[w] \in P!Elements(accepted)
  BY <1>4, <1>6 DEF P!Elements
<1>8. opc # "destroyed"
  BY <1>1 DEF Q!JoinedReturned
<1>9. QED
  BY <1>2, <1>3, <1>7, <1>8 DEF Unfinished

(* No step but Add makes a loop one that is to end, and a loop that has    *)
(* ended stays so.                                                         *)
LEMMA UnfinishedShrinks ==
  ASSUME Q!PoolInv, [Next]_vars, ~AddLoop, NEW r \in Reactors, Unfinished(r)'
  PROVE  Unfinished(r)
<1>1. /\ r \in P!Elements(accepted') /\ future'[r] = "none"
  BY DEF Unfinished, P!Elements
<1>2. UNCHANGED accepted
  BY DEF Next, OwnerStep, NewLoop, Constructed, NotifyWorker, EnterMainLoop, MainLoopThrows, DeleteLoop,
         DestroyMembers, DeletePool, FinishPool, Work, WakeUp, LoopEnds, LoopGoesOn, P!NotifyOne, P!Stop, P!NotifyAll,
         P!Join, P!WorkerStep, P!Wait, P!Return, P!Take, P!SpuriousWakeup, P!RunTask, pool, vars
<1>3. future[r] = "none"
  <2>1. CASE UNCHANGED future
    BY <1>1, <2>1
  <2>2. ASSUME NEW w \in Workers, P!RunTask(w) PROVE future[r] = "none"
    <3>1. PICK v \in {"value", "exception"} : future' = [future EXCEPT ![task[w]] = v]
      BY <2>2 DEF P!RunTask
    <3>2. future \in [Reactors -> {"none", "value", "exception"}]
      BY DEF Q!PoolInv, Q!TypeOK
    <3>3. QED
      BY <1>1, <3>1, <3>2
  <2>3. QED
    BY <2>1, <2>2
       DEF Next, OwnerStep, NewLoop, Constructed, NotifyWorker, EnterMainLoop, MainLoopThrows, DeleteLoop,
           DestroyMembers, DeletePool, FinishPool, Work, WakeUp, LoopEnds, LoopGoesOn, P!NotifyOne, P!Stop, P!NotifyAll,
           P!Join, P!WorkerStep, P!Wait, P!Return, P!Take, P!SpuriousWakeup, pool, vars
<1>4. QED
  BY <1>1, <1>2, <1>3 DEF Unfinished

(* The owner's steps, and those that leave his place alone.                *)
LEMMA NextOwner ==
  ASSUME LifecycleInv, [Next]_vars
  PROVE  OwnerTypes' /\ OwnerInPlace'
<1>0. OwnerTypes /\ OwnerInPlace
  BY DEF LifecycleInv
<1>a. NReactors \in Nat \ {0} /\ built \in 0..NReactors /\ deleted \in 0..built
  BY LifecycleAssumption, <1>0 DEF OwnerTypes
<1>1. CASE NewLoop
  <2>1. /\ spc = "constructing" /\ built < NReactors
        /\ (built' = built + 1 /\ spc' = spc) \/ (spc' = "unwinding" /\ built' = built)
        /\ deleted' = deleted /\ crashed' = crashed /\ opc' = opc
    BY <1>1 DEF NewLoop, MoreLoops, pool
  <2>2. built' \in 0..NReactors /\ deleted' \in 0..built' /\ (deleted' > 0 <=> deleted > 0)
    BY <1>a, <2>1
  <2>3. QED
    BY <1>0, <2>1, <2>2 DEF OwnerTypes, OwnerInPlace
<1>2. CASE Constructed
  <2>1. /\ spc = "constructing" /\ ~(built < NReactors) /\ spc' \in {"starting", "deleting"}
        /\ built' = built /\ deleted' = deleted /\ crashed' = crashed /\ opc' = opc
    BY <1>2 DEF Constructed, MoreLoops, pool
  <2>2. built' = NReactors
    BY <1>a, <2>1
  <2>3. QED
    BY <1>0, <2>1, <2>2 DEF OwnerTypes, OwnerInPlace
<1>3. CASE EnterMainLoop
  BY <1>0, <1>3 DEF OwnerTypes, OwnerInPlace, EnterMainLoop, pool
<1>4. CASE MainLoopThrows
  BY <1>0, <1>4 DEF OwnerTypes, OwnerInPlace, MainLoopThrows, pool
<1>5. CASE DeleteLoop
  <2>1. /\ spc = "deleting" /\ deleted < NReactors /\ deleted' = deleted + 1
        /\ built' = built /\ spc' = spc /\ crashed' = crashed /\ opc' = opc
    BY <1>5 DEF DeleteLoop, MoreLoops, pool
  <2>2. built = NReactors
    BY <1>0, <2>1 DEF OwnerInPlace
  <2>3. deleted' \in 0..built'
    BY <1>a, <2>1, <2>2
  <2>4. QED
    BY <1>0, <2>1, <2>3 DEF OwnerTypes, OwnerInPlace
<1>6. CASE DeletePool
  <2>1. /\ spc \in {"unwinding", "members"} /\ UNCHANGED <<spc, built, deleted, crashed>>
    BY <1>6 DEF DeletePool, svars
  <2>2. QED
    BY <1>0, <2>1 DEF OwnerTypes, OwnerInPlace
<1>7. CASE FinishPool
  <2>1. opc # "open" /\ UNCHANGED <<spc, built, deleted, crashed>>
    BY <1>7 DEF FinishPool, P!NotifyAll, P!Join, svars
  <2>2. QED
    BY <1>0, <2>1 DEF OwnerTypes, OwnerInPlace
<1>8. CASE UNCHANGED <<spc, built, deleted, opc>> /\ crashed' \in BOOLEAN
  BY <1>0, <1>8 DEF OwnerTypes, OwnerInPlace
<1>9. CASE AddLoop \/ NotifyWorker
  <2>1. UNCHANGED <<spc, built, deleted, opc>> /\ crashed' = crashed
    BY <1>9 DEF AddLoop, NotifyWorker, P!Add, P!NotifyOne, svars
  <2>2. QED
    BY <1>0, <1>8, <2>1 DEF OwnerTypes
<1>10. ASSUME NEW w \in Workers, Work(w) \/ WakeUp(w) \/ LoopEnds(w) \/ LoopGoesOn(w)
       PROVE  UNCHANGED <<spc, built, deleted, opc>> /\ crashed' \in BOOLEAN
  <2>1. crashed \in BOOLEAN
    BY <1>0 DEF OwnerTypes
  <2>2. QED
    BY <1>10, <2>1
       DEF Work, WakeUp, LoopEnds, LoopGoesOn, P!WorkerStep, P!Wait, P!Return, P!Take,
           P!SpuriousWakeup, P!RunTask, svars, pool
<1>11. CASE UNCHANGED vars
  BY <1>0, <1>8, <1>11 DEF vars, pool, svars, OwnerTypes
<1>12. CASE DestroyMembers
  BY <1>0, <1>12 DEF OwnerTypes, OwnerInPlace, DestroyMembers, pool
<1>13. QED
  BY <1>1, <1>2, <1>3, <1>4, <1>5, <1>6, <1>7, <1>8, <1>9, <1>10, <1>11, <1>12 DEF Next, OwnerStep

(* What a step adds to touched is the reactor of a running loop.           *)
LEMMA StepTouches ==
  ASSUME LifecycleInv, [Next]_vars
  PROVE  \/ touched' = touched
         \/ /\ deleted > 0 /\ opc # "destroyed" /\ UNCHANGED <<deleted, orphans>>
            /\ touched' \subseteq orphans
<1>0. touched \subseteq orphans /\ Q!PoolInv /\ deleted \in Nat /\ NReactors \in Nat
  BY LifecycleAssumption DEF LifecycleInv, OrphansTracked, OwnerTypes
<1>1. ASSUME NEW w \in Workers, pc[w] = "running", Touch(w), UNCHANGED <<deleted, orphans>>
      PROVE  \/ touched' = touched
             \/ /\ deleted > 0 /\ opc # "destroyed" /\ UNCHANGED <<deleted, orphans>>
                /\ touched' \subseteq orphans
  <2>1. task[w] \in Reactors /\ Unfinished(task[w]) /\ opc # "destroyed"
    BY <1>0, <1>1, RunningLoop
  <2>2. CASE task[w] <= deleted
    <3>1. deleted > 0 /\ task[w] \in 1..deleted
      BY <1>0, <2>1, <2>2 DEF Reactors
    <3>2. task[w] \in orphans
      BY <2>1, <3>1 DEF LifecycleInv, OrphansTracked
    <3>3. touched' \subseteq orphans
      BY <1>0, <1>1, <3>2 DEF Touch
    <3>4. QED
      BY <1>1, <2>1, <3>1, <3>3
  <2>3. CASE ~(task[w] <= deleted)
    BY <1>1, <2>3 DEF Touch, IsDeleted
  <2>4. QED
    BY <2>2, <2>3
<1>2. ASSUME NEW w \in Workers, LoopEnds(w) \/ LoopGoesOn(w)
      PROVE  \/ touched' = touched
             \/ pc[w] = "running" /\ Touch(w) /\ UNCHANGED <<deleted, orphans>>
  BY <1>2 DEF LoopEnds, LoopGoesOn, P!RunTask
<1>3. \/ touched' = touched
      \/ \E w \in Workers : LoopEnds(w) \/ LoopGoesOn(w)
  BY DEF Next, OwnerStep, NewLoop, Constructed, AddLoop, NotifyWorker, EnterMainLoop, MainLoopThrows,
         DeleteLoop, DestroyMembers, DeletePool, FinishPool, Work, WakeUp, svars, vars
<1>4. QED
  BY <1>1, <1>2, <1>3

(* Every step keeps track of the loops deleted before they ended.          *)
LEMMA NextOrphans ==
  ASSUME LifecycleInv, [Next]_vars
  PROVE  OrphansTracked'
<1>0. /\ Q!PoolInv /\ OwnerTypes /\ OwnerInPlace /\ OrphansTracked
      /\ deleted \in Nat /\ NReactors \in Nat /\ deleted <= NReactors /\ P!TypeOK
  BY LifecycleAssumption, SamePool DEF LifecycleInv, OwnerTypes, Q!PoolInv
<1>1. CASE DeleteLoop
  <2>1. /\ deleted < NReactors /\ deleted' = deleted + 1 /\ touched' = touched
        /\ orphans' = orphans \cup {r \in {deleted + 1} : Unfinished(r)}
        /\ accepted' = accepted /\ future' = future
    BY <1>1 DEF DeleteLoop, MoreLoops, pool
  <2>2. touched' \subseteq orphans'
    BY <1>0, <2>1 DEF OrphansTracked
  <2>3. orphans' \subseteq 1..deleted'
    <3>1. deleted + 1 \in 1..deleted' /\ 1..deleted \subseteq 1..deleted'
      BY <1>0, <2>1
    <3>2. orphans \subseteq 1..deleted
      BY <1>0 DEF OrphansTracked
    <3>3. QED
      BY <2>1, <3>1, <3>2
  <2>4. ASSUME NEW r \in 1..deleted', Unfinished(r)' PROVE r \in orphans'
    <3>1. Unfinished(r)
      BY <2>1, <2>4 DEF Unfinished, P!Elements
    <3>2. r \in 1..deleted \/ r = deleted + 1
      BY <1>0, <2>1
    <3>3. QED
      BY <1>0, <2>1, <3>1, <3>2 DEF OrphansTracked
  <2>5. QED
    BY <2>2, <2>3, <2>4 DEF OrphansTracked
<1>2. CASE AddLoop
  <2>1. spc = "starting" /\ UNCHANGED <<deleted, orphans, touched>>
    BY <1>2 DEF AddLoop, svars
  <2>2. deleted = 0
    BY <1>0, <2>1 DEF OwnerInPlace
  <2>3. 1..deleted = {}
    BY <2>2
  <2>4. QED
    BY <1>0, <2>1, <2>3 DEF OrphansTracked
<1>3. CASE ~DeleteLoop /\ ~AddLoop
  <2>1. UNCHANGED <<deleted, orphans>>
    BY <1>3 DEF Next, OwnerStep, NewLoop, Constructed, NotifyWorker, EnterMainLoop, MainLoopThrows,
         DestroyMembers, DeletePool, FinishPool, Work, WakeUp, LoopEnds, LoopGoesOn, svars, vars
  <2>2. touched' \subseteq orphans'
    BY <1>0, <2>1, StepTouches DEF OrphansTracked
  <2>3. ASSUME NEW r \in 1..deleted', Unfinished(r)' PROVE r \in orphans'
    <3>1. r \in Reactors /\ r \in 1..deleted
      BY <1>0, <2>1 DEF Reactors
    <3>2. Unfinished(r)
      BY <1>0, <1>3, <2>3, <3>1, UnfinishedShrinks
    <3>3. QED
      BY <1>0, <2>1, <3>1, <3>2 DEF OrphansTracked
  <2>4. QED
    BY <1>0, <2>1, <2>2, <2>3 DEF OrphansTracked
<1>4. QED
  BY <1>1, <1>2, <1>3

-----------------------------------------------------------------------------
(* The theorems.                                                           *)

(* The invariant: the pool's own, the owner's place in the Server's code,  *)
(* and that the loops deleted before they ended are known.                 *)
THEOREM LifecycleInvariant == Spec => []LifecycleInv
<1>1. LifecycleInv /\ [Next]_vars => LifecycleInv'
  BY PoolInvKept, NextOwner, NextOrphans DEF LifecycleInv
<1>2. QED
  BY InitLifecycleInv, <1>1, PTL DEF Spec

(* The pool inside a Server behaves as ThreadPool says, and so has all     *)
(* that ThreadPoolProofs proves of it.                                     *)
THEOREM ServerRunsThreadPool == Spec => Q!Spec
<1>1. Init => Q!Init
  BY SamePool DEF Init
<1>2. LifecycleInv /\ [Next]_vars => [Q!Next]_Q!vars
  <2> SUFFICES ASSUME LifecycleInv, [Next]_vars PROVE [Q!Next]_Q!vars
    OBVIOUS
  <2>1. P!TypeOK
    BY SamePool DEF LifecycleInv, Q!PoolInv
  <2>2. [Q!Next]_pool
    BY <2>1, StepOfPool
  <2>3. QED
    BY <2>2 DEF Q!vars, pool
<1>3. QED
  BY LifecycleInvariant, <1>1, <1>2, PTL DEF Spec, Q!Spec

(* ~Server deletes only what the constructor made, and the pool is closed  *)
(* by the owner's destructor alone, after everything declared behind it.   *)
THEOREM LifecycleTypeCorrect == Spec => []TypeOK
<1>1. LifecycleInv => TypeOK
  <2> SUFFICES ASSUME LifecycleInv PROVE TypeOK
    OBVIOUS
  <2>1. P!TypeOK
    BY SamePool DEF LifecycleInv, Q!PoolInv
  <2>2. orphans \cup touched \subseteq 1..deleted
    BY DEF LifecycleInv, OrphansTracked
  <2>3. QED
    BY <2>1, <2>2 DEF LifecycleInv, OwnerTypes, OwnerInPlace, TypeOK
<1>2. QED
  BY <1>1, LifecycleInvariant, PTL

(* A deleted EventLoop is used only by a loop that had not ended when      *)
(* ~Server deleted it, only while ~Server runs, and never after it has     *)
(* returned.                                                               *)
THEOREM UseOfDeletedIsConfined == Spec => UseIsConfined
<1>1. LifecycleInv /\ [Next]_vars =>
        [touched' # touched =>
            /\ spc \in {"deleting", "members"} /\ ~Returned
            /\ touched' \subseteq orphans]_vars
  <2> SUFFICES ASSUME LifecycleInv, [Next]_vars, touched' # touched
               PROVE  spc \in {"deleting", "members"} /\ ~Returned /\ touched' \subseteq orphans
    OBVIOUS
  <2>1. deleted > 0 /\ opc # "destroyed" /\ touched' \subseteq orphans
    BY StepTouches
  <2>2. QED
    BY <2>1 DEF LifecycleInv, OwnerInPlace, Returned
<1>2. QED
  BY <1>1, LifecycleInvariant, PTL DEF Spec, UseIsConfined
=============================================================================
