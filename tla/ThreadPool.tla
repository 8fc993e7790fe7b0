----------------------------- MODULE ThreadPool -----------------------------
(***************************************************************************)
(* cppserver_core::ThreadPool: worker threads that share a task queue, one *)
(* mutex (tasks_mtx_) and one condition variable (cv_), and a destructor   *)
(* that stops and joins them.                                              *)
(*                                                                         *)
(* Every access to task_queue_ and stop_ is made under tasks_mtx_, so one  *)
(* critical section is one step.  notify_one and notify_all run after the  *)
(* mutex has been released and are steps of their own.  A worker leaves    *)
(* cv_.wait when it is notified or spuriously, and then evaluates the      *)
(* predicate again.  Clients of the pool are the thread that owns it and   *)
(* the tasks themselves, which may call Add while they run.                *)
(***************************************************************************)
EXTENDS Naturals, Sequences, FiniteSets

CONSTANTS Workers,    \* threads_
          Owner,      \* the thread that constructs, fills and deletes the pool
          Tasks,      \* the callables passed to Add, each of them once
          Endless,    \* the tasks that end only by throwing: EventLoop::Loop
          NoTask

ASSUME PoolAssumption ==
    /\ IsFiniteSet(Workers)
    /\ Workers # {}
    /\ Owner \notin Workers
    /\ Endless \subseteq Tasks
    /\ NoTask \notin Tasks

VARIABLES stop,        \* stop_
          task_queue,  \* task_queue_
          pc,          \* where each worker is in its loop
          task,        \* the local variable task of each worker
          notifying,   \* threads in Add between the unlock and notify_one
          opc,         \* where the owner is: "open" until the destructor
          future,      \* the shared state of the future that Add returned
          accepted,    \* history: the tasks that Add has queued, in order
          started      \* history: the tasks that workers have taken, in order

vars == <<stop, task_queue, pc, task, notifying, opc, future, accepted, started>>

Threads == Workers \cup {Owner}

Elements(s) == {s[i] : i \in 1..Len(s)}

Waiting == {w \in Workers : pc[w] = "waiting"}
Ready == {w \in Workers : pc[w] = "ready"}

(***************************************************************************)
(* A thread that exists but has not yet been scheduled is in the same      *)
(* state as one about to lock the mutex, so the constructor's loop is the  *)
(* initial state.                                                          *)
(***************************************************************************)
Init ==
    /\ stop = FALSE
    /\ task_queue = <<>>
    /\ pc = [w \in Workers |-> "ready"]
    /\ task = [w \in Workers |-> NoTask]
    /\ notifying = {}
    /\ opc = "open"
    /\ future = [t \in Tasks |-> "none"]
    /\ accepted = <<>>
    /\ started = <<>>

-----------------------------------------------------------------------------
(* A worker, from the lock to the end of the iteration.                    *)

Wait(w) ==
    /\ pc[w] = "ready"
    /\ ~stop /\ task_queue = <<>>
    /\ pc' = [pc EXCEPT ![w] = "waiting"]
    /\ UNCHANGED <<stop, task_queue, task, notifying, opc, future, accepted, started>>

SpuriousWakeup(w) ==
    /\ pc[w] = "waiting"
    /\ pc' = [pc EXCEPT ![w] = "ready"]
    /\ UNCHANGED <<stop, task_queue, task, notifying, opc, future, accepted, started>>

(* Mutant: if (stop_) return, whatever is still queued.                    *)
MayReturnOnStop == stop

MayReturn == stop /\ task_queue = <<>>

Return(w) ==
    /\ pc[w] = "ready"
    /\ MayReturn
    /\ pc' = [pc EXCEPT ![w] = "exited"]
    /\ UNCHANGED <<stop, task_queue, task, notifying, opc, future, accepted, started>>

(* Mutants: back() instead of front(), and front() without pop().          *)
Back == task_queue[Len(task_queue)]
NotPopped == task_queue

Front == Head(task_queue)
Popped == Tail(task_queue)

Take(w) ==
    /\ pc[w] = "ready"
    /\ task_queue # <<>>
    /\ task' = [task EXCEPT ![w] = Front]
    /\ task_queue' = Popped
    /\ started' = Append(started, Front)
    /\ pc' = [pc EXCEPT ![w] = "running"]
    /\ UNCHANGED <<stop, notifying, opc, future, accepted>>

(* Mutant: task declared outside the loop and not reset.                   *)
IterationKeepsTask(w) == pc' = [pc EXCEPT ![w] = "ready"] /\ UNCHANGED task

(* The end of the iteration, and of the scope of task.                     *)
IterationEnds(w) ==
    /\ pc' = [pc EXCEPT ![w] = "ready"]
    /\ task' = [task EXCEPT ![w] = NoTask]

(* task(): the packaged_task stores the value or the exception in the      *)
(* future, and the worker goes on to its next iteration in either case.    *)
RunTask(w) ==
    /\ pc[w] = "running"
    /\ w \notin notifying
    /\ \E r \in {"value", "exception"} :
          /\ task[w] \in Endless => r = "exception"
          /\ future' = [future EXCEPT ![task[w]] = r]
    /\ IterationEnds(w)
    /\ UNCHANGED <<stop, task_queue, notifying, opc, accepted, started>>

-----------------------------------------------------------------------------
(* Add, called by the owner or from within a running task.                 *)

InClientCode(th) ==
    /\ th \notin notifying
    /\ IF th = Owner THEN opc = "open" ELSE pc[th] = "running"

Add(th, t) ==
    /\ InClientCode(th)
    /\ ~stop
    /\ t \notin Elements(accepted)
    /\ task_queue' = Append(task_queue, t)
    /\ accepted' = Append(accepted, t)
    /\ notifying' = notifying \cup {th}
    /\ UNCHANGED <<stop, pc, task, opc, future, started>>

(* Add throws runtime_error when the pool is stopped; the task that called *)
(* it does not catch it, so the packaged_task hands it to the future.      *)
AddThrows(w) ==
    /\ pc[w] = "running"
    /\ w \notin notifying
    /\ stop
    /\ future' = [future EXCEPT ![task[w]] = "exception"]
    /\ IterationEnds(w)
    /\ UNCHANGED <<stop, task_queue, notifying, opc, accepted, started>>

(* Mutant: the call of cv_.notify_one() is missing.                        *)
WakeNobody == UNCHANGED pc

WakeOne ==
    \/ \E w \in Waiting : pc' = [pc EXCEPT ![w] = "ready"]
    \/ Waiting = {} /\ UNCHANGED pc

(* Its mutant is WakeOne: notify_one in the destructor.                    *)
WakeAll == pc' = [w \in Workers |-> IF w \in Waiting THEN "ready" ELSE pc[w]]

NotifyOne(th) ==
    /\ th \in notifying
    /\ notifying' = notifying \ {th}
    /\ WakeOne
    /\ UNCHANGED <<stop, task_queue, task, opc, future, accepted, started>>

-----------------------------------------------------------------------------
(* The destructor, run by the owner.                                       *)

Stop ==
    /\ opc = "open"
    /\ Owner \notin notifying
    /\ stop' = TRUE
    /\ opc' = "notify_all"
    /\ UNCHANGED <<task_queue, pc, task, notifying, future, accepted, started>>

NotifyAll ==
    /\ opc = "notify_all"
    /\ WakeAll
    /\ opc' = "joining"
    /\ UNCHANGED <<stop, task_queue, task, notifying, future, accepted, started>>

(* Mutant: the threads are detached.                                       *)
Detached == TRUE

AllReturned == \A w \in Workers : pc[w] = "exited"

Join ==
    /\ opc = "joining"
    /\ AllReturned
    /\ opc' = "destroyed"
    /\ UNCHANGED <<stop, task_queue, pc, task, notifying, future, accepted, started>>

(* The pool is gone: the only states in which nothing is left to do.       *)
Destroyed == opc = "destroyed" /\ UNCHANGED vars

-----------------------------------------------------------------------------
WorkerStep(w) == Wait(w) \/ Return(w) \/ Take(w)

Next ==
    \/ \E w \in Workers :
          \/ WorkerStep(w)
          \/ SpuriousWakeup(w)
          \/ RunTask(w)
          \/ AddThrows(w)
    \/ \E th \in Threads : NotifyOne(th) \/ \E t \in Tasks : Add(th, t)
    \/ Stop
    \/ NotifyAll
    \/ Join
    \/ Destroyed

(* The scheduler runs every thread that can run; tasks that are not        *)
(* endless come to an end.  Nobody has to call Add or delete the pool.     *)
Fairness ==
    /\ \A w \in Workers : WF_vars(WorkerStep(w))
    /\ \A w \in Workers : WF_vars(task[w] \notin Endless /\ RunTask(w))
    /\ \A th \in Threads : WF_vars(NotifyOne(th))
    /\ WF_vars(NotifyAll)
    /\ WF_vars(Join)

Spec == Init /\ [][Next]_vars

FairSpec == Spec /\ Fairness
-----------------------------------------------------------------------------
(* Properties.                                                             *)

(* Types; a worker holds a task exactly while it runs one, and a worker    *)
(* inside Add is running the task that called it.                          *)
TypeOK ==
    /\ stop \in BOOLEAN
    /\ task_queue \in Seq(Tasks)
    /\ pc \in [Workers -> {"ready", "waiting", "running", "exited"}]
    /\ task \in [Workers -> Tasks \cup {NoTask}]
    /\ \A w \in Workers : pc[w] = "running" <=> task[w] # NoTask
    /\ notifying \subseteq Threads
    /\ \A w \in Workers : w \in notifying => pc[w] = "running"
    /\ opc \in {"open", "notify_all", "joining", "destroyed"}
    /\ future \in [Tasks -> {"none", "value", "exception"}]
    /\ accepted \in Seq(Tasks)
    /\ started \in Seq(Tasks)

(* The workers together take the tasks in the order in which Add queued    *)
(* them, each of them once: no interleaving of take-and-pop under          *)
(* tasks_mtx_ loses, repeats or overtakes a task.                          *)
TakenInOrder == accepted = started \o task_queue

(* No wakeup is lost although Add notifies after it has released the       *)
(* mutex: while some worker sleeps in cv_.wait, there are at least as many *)
(* workers on their way to the queue, or notify_one calls still to come,   *)
(* as there are tasks in it.  A sub reactor's loop never returns its       *)
(* thread, so one lost wakeup would leave a reactor unserved for good.     *)
BacklogCovered ==
    Waiting # {} => Len(task_queue) <= Cardinality(Ready) + Cardinality(notifying)

(* After the destructor's notify_all no worker sleeps, now or later: none  *)
(* can miss stop_ between evaluating the predicate and falling asleep.     *)
NoSleeperAtJoin == opc \in {"joining", "destroyed"} => Waiting = {}

(* When the destructor returns, every future that Add handed out has been  *)
(* given its value or exception: stop_ drains the queue, it does not cut   *)
(* it off, and a task added by a running task is not forgotten either.     *)
NoBrokenPromise ==
    opc = "destroyed" => \A t \in Elements(accepted) : future[t] # "none"

(* A future is given its result once: no task is run twice.                *)
FutureSetOnce ==
    [][\A t \in Tasks : future[t] # "none" => future'[t] = future[t]]_vars

(* Every task that Add has queued is taken by some worker, unless endless  *)
(* tasks come to occupy all of them: a sub reactor's loop does not keep    *)
(* the tasks queued behind it from a worker that is free.                  *)
AcceptedStarts ==
    \A t \in Tasks : t \in Elements(accepted) ~>
        \/ t \in Elements(started)
        \/ \A w \in Workers : task[w] \in Endless

(* Once the destructor has begun it returns, unless it has to join a       *)
(* worker that runs an endless task: with a Server, it always has to.      *)
DestructorReturns ==
    opc = "notify_all" ~> opc = "destroyed" \/ \E w \in Workers : task[w] \in Endless

-----------------------------------------------------------------------------
(* The pool implements TaskService: what the threads, the mutex and the    *)
(* condition variable are hidden by is a queue served in order.            *)
Service == INSTANCE TaskService WITH
    Slots     <- Cardinality(Workers),
    submitted <- accepted,
    begun     <- Len(started),
    ended     <- {t \in Tasks : future[t] # "none"},
    phase     <- CASE opc = "open" -> "open"
                   [] opc \in {"notify_all", "joining"} -> "closing"
                   [] OTHER -> "closed"

(* Every step of the pool is a step of TaskService or changes nothing of   *)
(* what a client sees: in particular the destructor returns only when      *)
(* every task taken has ended.                                             *)
ImplementsService == Service!Spec
=============================================================================
