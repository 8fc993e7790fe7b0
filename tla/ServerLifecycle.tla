-------------------------- MODULE ServerLifecycle ---------------------------
(***************************************************************************)
(* The life of a cppserver_core::Server as its owner sees it: the          *)
(* constructor makes the pool and then the sub reactors, Start queues      *)
(* their loops as tasks of the pool and runs the main reactor, ~Server     *)
(* deletes the sub reactors, then, as members in the reverse order of      *)
(* their declaration, the callbacks and connections_, and only then the    *)
(* pool.  The pool is ThreadPool, with the loops as its tasks, which end   *)
(* only by throwing.                                                       *)
(*                                                                         *)
(* The owner is a caller that catches what Start or the constructor        *)
(* throws, and may also destroy a Server that it never started.            *)
(***************************************************************************)
EXTENDS Naturals, Sequences, FiniteSets

CONSTANTS Workers, Owner, NoTask,    \* as in ThreadPool
          NReactors                  \* hardware_concurrency()

Reactors == 1..NReactors

ASSUME LifecycleAssumption ==
    /\ NReactors \in Nat \ {0}
    /\ IsFiniteSet(Workers) /\ Cardinality(Workers) = NReactors
    /\ Owner \notin Workers
    /\ NoTask \notin Reactors

VARIABLES stop, task_queue, pc, task, notifying, opc, future, accepted,
          started,    \* as in ThreadPool
          spc,        \* where the owner is in the Server's code
          built,      \* sub reactors made by the constructor
          deleted,    \* sub reactors deleted by ~Server
          orphans,    \* history: loops that had not ended when deleted
          touched,    \* history: loops that went on to use what was deleted
          crashed

pool == <<stop, task_queue, pc, task, notifying, opc, future, accepted, started>>
svars == <<spc, built, deleted, orphans, touched, crashed>>
vars == <<pool, svars>>

P == INSTANCE ThreadPool WITH Tasks <- Reactors, Endless <- Reactors

IsDeleted(r) == r <= deleted
Unfinished(r) == r \in P!Elements(accepted) /\ future[r] = "none"

(* The constructor has made the main reactor, the acceptor and the pool;   *)
(* what they throw, they throw before there is a thread.                   *)
Init ==
    /\ P!Init
    /\ spc = "constructing"
    /\ built = 0 /\ deleted = 0
    /\ orphans = {} /\ touched = {} /\ crashed = FALSE

(* Mutants: i <= num_threads, and a loop that ends one too early.          *)
OneMore(i) == i <= NReactors
OneLess(i) == i + 1 < NReactors

MoreLoops(i) == i < NReactors

-----------------------------------------------------------------------------
(* The owner.                                                              *)

(* new EventLoop(), which throws when epoll_create1 fails.  ~Server does   *)
(* not run then: the pool is destroyed, the loops made so far are leaked.  *)
NewLoop ==
    /\ spc = "constructing" /\ MoreLoops(built)
    /\ \/ built' = built + 1 /\ UNCHANGED spc
       \/ spc' = "unwinding" /\ UNCHANGED built
    /\ UNCHANGED <<pool, deleted, orphans, touched, crashed>>

Constructed ==
    /\ spc = "constructing" /\ ~MoreLoops(built)
    /\ spc' \in {"starting", "deleting"}
    /\ UNCHANGED <<pool, built, deleted, orphans, touched, crashed>>

(* Start: threadpool_->Add for each sub reactor.                           *)
AddLoop ==
    /\ spc = "starting" /\ MoreLoops(Len(accepted))
    /\ P!Add(Owner, Len(accepted) + 1)
    /\ UNCHANGED svars

NotifyWorker == P!NotifyOne(Owner) /\ UNCHANGED svars

EnterMainLoop ==
    /\ spc = "starting" /\ ~MoreLoops(Len(accepted))
    /\ Owner \notin notifying
    /\ spc' = "main"
    /\ UNCHANGED <<pool, built, deleted, orphans, touched, crashed>>

(* main_reactor_->Loop() ends, as nothing sets quit_, by an exception.     *)
MainLoopThrows ==
    /\ spc = "main"
    /\ spc' = "deleting"
    /\ UNCHANGED <<pool, built, deleted, orphans, touched, crashed>>

DeleteLoop ==
    /\ spc = "deleting" /\ MoreLoops(deleted)
    /\ deleted' = deleted + 1
    /\ orphans' = orphans \cup {r \in {deleted + 1} : Unfinished(r)}
    /\ UNCHANGED <<pool, spc, built, touched, crashed>>

(* The members declared after threadpool_ go before it: the callbacks,     *)
(* connections_ with its Connections, and sub_reactors_, while workers may *)
(* still handle events of those Connections.  (In a constructor that       *)
(* throws these members are empty and there is no loop.)                   *)
DestroyMembers ==
    /\ spc = "deleting" /\ ~MoreLoops(deleted)
    /\ spc' = "members"
    /\ UNCHANGED <<pool, built, deleted, orphans, touched, crashed>>

(* ~unique_ptr<ThreadPool>.                                                *)
DeletePool ==
    /\ spc \in {"unwinding", "members"}
    /\ P!Stop
    /\ UNCHANGED svars

FinishPool == (P!NotifyAll \/ P!Join) /\ UNCHANGED svars

-----------------------------------------------------------------------------
(* The workers.                                                            *)

Work(w) == P!WorkerStep(w) /\ UNCHANGED svars
WakeUp(w) == P!SpuriousWakeup(w) /\ UNCHANGED svars

Touch(w) == touched' = touched \cup {r \in {task[w]} : IsDeleted(r)}

(* EventLoop::Loop throws: in a callback, or because epoll_wait fails, as  *)
(* it does when the Epoll has been deleted and its descriptor closed.      *)
LoopEnds(w) ==
    /\ P!RunTask(w)
    /\ Touch(w) \/ UNCHANGED touched
    /\ UNCHANGED <<spc, built, deleted, orphans, crashed>>

(* quit_, ep_ and events_ of a deleted loop are read and written, later    *)
(* also connections_ and its Connections, all of which are gone only when  *)
(* every loop is deleted: the process falls, or goes on for now.           *)
LoopGoesOn(w) ==
    /\ pc[w] = "running" /\ IsDeleted(task[w])
    /\ Touch(w)
    /\ crashed' \in BOOLEAN
    /\ UNCHANGED <<pool, spc, built, deleted, orphans>>

-----------------------------------------------------------------------------
OwnerStep ==
    \/ Constructed \/ AddLoop \/ NotifyWorker \/ EnterMainLoop
    \/ DeleteLoop \/ DestroyMembers \/ DeletePool \/ FinishPool

Next ==
    /\ ~crashed
    /\ \/ NewLoop \/ OwnerStep \/ MainLoopThrows
       \/ \E w \in Workers : Work(w) \/ WakeUp(w) \/ LoopEnds(w) \/ LoopGoesOn(w)

(* Threads that can run do; loops and main reactor need not end.           *)
Spec ==
    /\ Init /\ [][Next]_vars
    /\ WF_vars(~crashed /\ OwnerStep)
    /\ \A w \in Workers : WF_vars(~crashed /\ Work(w))
-----------------------------------------------------------------------------
(* Properties.                                                             *)

Returned == opc = "destroyed"

(* Types; ~Server deletes only what the constructor made, and the pool is  *)
(* closed by the owner's destructor alone, as the last member.             *)
TypeOK ==
    /\ P!TypeOK
    /\ spc \in {"constructing", "unwinding", "starting", "main", "deleting", "members"}
    /\ built \in 0..NReactors
    /\ deleted \in 0..built
    /\ orphans \cup touched \subseteq 1..deleted
    /\ opc # "open" => spc \in {"unwinding", "members"}
    /\ crashed \in BOOLEAN

(* Once Start is in the main loop, every sub reactor's loop gets a worker  *)
(* of its own, although none of them ever gives its worker back: the pool  *)
(* has one for each.                                                       *)
EveryLoopStarts ==
    \A r \in Reactors : spc = "main" ~> r \in P!Elements(started) \/ crashed

(* ~Server deletes loops that may be running or still queued.  What is     *)
(* deleted is used afterwards only by a loop that had not ended by then,   *)
(* and never after ~Server has returned: join confines the use after free  *)
(* to the destructor.                                                      *)
UseIsConfined ==
    [][touched' # touched =>
          /\ spc \in {"deleting", "members"} /\ ~Returned
          /\ touched' \subseteq orphans]_vars

(* The destructor of a Server that was not started, or whose constructor   *)
(* failed, returns; that of one that was started returns, brings the       *)
(* process down, or waits for a loop that runs on.                         *)
ShutdownReturns ==
    spc \in {"unwinding", "deleting"} ~>
        Returned \/ crashed \/ \E w \in Workers : task[w] \in Reactors
=============================================================================
