------------------------------- MODULE Server -------------------------------
(***************************************************************************)
(* cppserver_core::Server and the life of its Connections: the main        *)
(* reactor accepts and builds a Connection step by step while the sub      *)
(* reactors already poll its descriptor; the kernel hands out the lowest   *)
(* free descriptor; a Connection is owned by connections_ and, while a     *)
(* callback of the application runs, by the shared_ptr that the callback   *)
(* was given; its destructor closes its descriptor through the Channel and *)
(* again through the Socket.                                               *)
(*                                                                         *)
(* A TCP connection, its Connection object and the object's Channel all go *)
(* by the name of the client.  What goes over a connection is abstracted   *)
(* to "there is something to read": Connection.tla has the bytes.          *)
(* connections_ has no lock; its operations are single steps here, so this *)
(* module shows what goes wrong even if they were made atomic.             *)
(***************************************************************************)
EXTENDS Naturals, Sequences, FiniteSets

CONSTANTS Clients,     \* TCP clients, each of which connects at most once
          NReactors,   \* sub_reactors_.size()
          MaxFd,       \* descriptors the process may still open
          MaxSends,    \* bound: how often a client sends (data or its FIN)
          MaxStops,    \* bound: how often the process is stopped and continued
          MaxResets,   \* bound: how many clients reset their stream
          AppCloses,   \* whether callbacks may call conn->Close()
          OnConnectSet,  \* was SetOnConnectCallback called?
          None,
          Spare        \* a socket that nobody refers to

ASSUME ServerAssumption ==
    /\ NReactors \in Nat \ {0}
    /\ MaxFd \in Nat \ {0}
    /\ MaxSends \in Nat
    /\ MaxStops \in Nat
    /\ MaxResets \in Nat
    /\ AppCloses \in BOOLEAN
    /\ OnConnectSet \in BOOLEAN
    /\ None \notin Clients \cup Nat /\ Spare \notin Clients /\ None # Spare

Fds == 0..(MaxFd - 1)           \* counted from the first one free at Start
Reactors == 0..(NReactors - 1)
Main == NReactors               \* the main reactor's thread
Threads == Reactors \cup {Main}

VARIABLES
    stage,        \* how far each client's connection has got
    sends,        \* how often each client has sent something
    unread,       \* is there something to read on the client's stream?
    reset,        \* the clients that have reset their stream
    fdt,          \* kernel: the descriptor table
    epoll,        \* kernel: the registration of each descriptor
    fd_,          \* Connection::sock_->fd_
    connections,  \* Server::connections_: descriptor to Connection or None
    main,         \* what the main reactor does next
    cur,          \* the Connection that NewConnection has in hand
    pc,           \* what each sub reactor does next
    todo,         \* the channels of the batch that are still to be handled
    hcur,         \* the Connection whose event a sub reactor handles
    closing,      \* close() calls that a running destructor still has to make
    stops,        \* how often the process was stopped and continued
    crashed       \* the process is gone

mvars == <<main, cur>>
rvars == <<pc, todo, hcur>>
kvars == <<sends, unread, reset, fdt, epoll, stops>>
vars == <<stage, sends, unread, reset, fdt, epoll, fd_, connections, main, cur, pc, todo,
          hcur, closing, stops, crashed>>

-----------------------------------------------------------------------------
(* The kernel.                                                             *)

FreeFds == {f \in Fds : fdt[f] = None}
LowestFree == CHOOSE f \in FreeFds : \A g \in FreeFds : f <= g

NotRegistered == [ch |-> None, et |-> FALSE, armed |-> FALSE]

HasInput(f) == fdt[f] \in Clients /\ unread[fdt[f]]

(* epoll_wait reports a level-triggered descriptor while it has input, an  *)
(* edge-triggered one once for each time that input arrives.               *)
Reported(f) == epoll[f].ch # None /\ HasInput(f) /\ (epoll[f].et => epoll[f].armed)

InputArrives(c) ==
    /\ unread' = [unread EXCEPT ![c] = TRUE]
    /\ epoll' = [f \in Fds |-> IF fdt[f] = c THEN [epoll[f] EXCEPT !.armed = TRUE]
                                             ELSE epoll[f]]

(* read() until EAGAIN takes what the stream behind the descriptor has.    *)
Drained(f) == [c \in Clients |-> unread[c] /\ c # fdt[f]]

-----------------------------------------------------------------------------
(* fd % sub_reactors_.size(): the sub reactor that a Connection belongs to *)
LoopOf(c) == fd_[c] % NReactors

(* Stages in which events can already be reported, in NewConnection's      *)
(* order.  From "published" on shared_from_this works.                     *)
HasCallback(c) == stage[c] \in {"callbacks", "published"}

(* connections_ owns the object.                                           *)
InMap(m, c) == fd_[c] # None /\ m[fd_[c]] = c

Init ==
    /\ stage = [c \in Clients |-> "away"]
    /\ sends = [c \in Clients |-> 0]
    /\ unread = [c \in Clients |-> FALSE]
    /\ reset = {}
    /\ fdt = [f \in Fds |-> None]
    /\ epoll = [f \in Fds |-> NotRegistered]
    /\ fd_ = [c \in Clients |-> None]
    /\ connections = [f \in Fds |-> None]
    /\ main = "loop" /\ cur = None
    /\ pc = [r \in Reactors |-> "loop"]
    /\ todo = [r \in Reactors |-> {}]
    /\ hcur = [r \in Reactors |-> None]
    /\ closing = [th \in Threads |-> <<>>]
    /\ stops = 0
    /\ crashed = FALSE

-----------------------------------------------------------------------------
(* Clients.                                                                *)

Connect(c) ==
    /\ stage[c] = "away"
    /\ stage' = [stage EXCEPT ![c] = "queued"]
    /\ UNCHANGED <<kvars, fd_, connections, mvars, rvars, closing, crashed>>

Send(c) ==
    /\ \/ stage[c] = "queued"
       \/ \E f \in Fds : fdt[f] = c
    /\ sends[c] < MaxSends
    /\ sends' = [sends EXCEPT ![c] = @ + 1]
    /\ InputArrives(c)
    /\ UNCHANGED <<stage, reset, stops, fdt, fd_, connections, mvars, rvars, closing, crashed>>

(* An RST arrives.  It is reported like input and ends with read().        *)
Reset(c) ==
    /\ \E f \in Fds : fdt[f] = c
    /\ c \notin reset /\ Cardinality(reset) < MaxResets
    /\ reset' = reset \cup {c}
    /\ InputArrives(c)
    /\ UNCHANGED <<stage, sends, stops, fdt, fd_, connections, mvars, rvars, closing, crashed>>

-----------------------------------------------------------------------------
(* The main reactor: Acceptor::AcceptConnection and Server::NewConnection. *)
(* An exception leaves Loop, Start and main(): std::terminate.             *)

Throw ==
    /\ crashed' = TRUE
    /\ UNCHANGED <<stage, kvars, fd_, connections, mvars, rvars, closing>>

(* Mutant: a second thread accepts while NewConnection is at work.         *)
NeverBusy == TRUE

(* The main reactor is in epoll_wait.                                      *)
MainIdle == main = "loop" /\ closing[Main] = <<>>

(* Socket::Accept on the listening socket, which blocks: accept() fails    *)
(* when no descriptor is left.                                             *)
SocketAccept(c) ==
    \/ /\ FreeFds # {}
       /\ fdt' = [fdt EXCEPT ![LowestFree] = c]
       /\ fd_' = [fd_ EXCEPT ![c] = LowestFree]
       /\ UNCHANGED crashed
    \/ /\ FreeFds = {}
       /\ crashed' = TRUE
       /\ UNCHANGED <<fdt, fd_>>

Accept(c) ==
    /\ MainIdle
    /\ stage[c] = "queued"
    /\ stage' = [stage EXCEPT ![c] = "accepted"]
    /\ cur' = c
    /\ main' = "socket"
    /\ SocketAccept(c)
    /\ UNCHANGED <<stops, sends, unread, reset, epoll, connections, rvars, closing>>

(* Mutant: the Connection wraps fd without opening a socket first.         *)
NothingOpened == fdt

SocketOpened == [fdt EXCEPT ![LowestFree] = Spare]

(* make_unique<Socket>() opens a socket whose descriptor SetFd overwrites. *)
NewSocket ==
    /\ main = "socket"
    /\ \/ /\ FreeFds # {}
          /\ fdt' = SocketOpened
          /\ main' = "add"
          /\ UNCHANGED <<stage, stops, sends, unread, reset, epoll, fd_, connections, cur, rvars,
                         closing, crashed>>
       \/ FreeFds = {} /\ Throw

(* What Epoll::UpdateChannel registers; changing a registration makes an   *)
(* edge of input that is already there.                                    *)
Registration(et) == [ch |-> cur, et |-> et, armed |-> et /\ HasInput(fd_[cur])]

(* Channel::EnableRead: EPOLL_CTL_ADD, level-triggered.                    *)
EnableRead ==
    /\ main = "add"
    /\ LET f == fd_[cur] IN
       \/ /\ fdt[f] # None
          /\ epoll' = [epoll EXCEPT ![f] = Registration(FALSE)]
          /\ stage' = [stage EXCEPT ![cur] = "added"]
          /\ main' = "et"
          /\ UNCHANGED <<stops, sends, unread, reset, fdt, fd_, connections, cur, rvars, closing, crashed>>
       \/ fdt[f] = None /\ Throw

(* Channel::UseET: EPOLL_CTL_MOD, edge-triggered.                          *)
UseET ==
    /\ main = "et"
    /\ LET f == fd_[cur] IN
       \/ /\ epoll[f].ch # None
          /\ epoll' = [epoll EXCEPT ![f] = Registration(TRUE)]
          /\ main' = "callbacks"
          /\ UNCHANGED <<stage, stops, sends, unread, reset, fdt, fd_, connections, cur, rvars, closing,
                         crashed>>
       \/ epoll[f].ch = None /\ Throw

SetCallBacks ==
    /\ main = "callbacks"
    /\ stage' = [stage EXCEPT ![cur] = "callbacks"]
    /\ main' = "insert"
    /\ UNCHANGED <<kvars, fd_, connections, cur, rvars, closing, crashed>>

(* Mutant: the callbacks get a plain pointer.                              *)
HeldByNobody(c) == {}

(* The threads whose callback was given a shared_ptr to the Connection:    *)
(* shared_from_this() for the message callback, on the main reactor a copy *)
(* of connections_[fd] for the on-connection callback.                     *)
Holders(c) ==
    {r \in Reactors : pc[r] = "callback" /\ hcur[r] = c}
    \cup {th \in {Main} : main = "onconnect" /\ cur = c}

Held(c) == Holders(c) # {}

(* Mutant: neither the Channel nor the Socket owns the descriptor.         *)
ClosesNothing(c) == <<>>

(* ~Connection: the Channel and then the Socket close the descriptor.      *)
DestructorCloses(c) == <<fd_[c], fd_[c]>>

Stored(f) == [connections EXCEPT ![f] = cur]

(* connections_[fd] = std::move(conn), which drops the previous value.     *)
Insert ==
    /\ main = "insert"
    /\ LET f == fd_[cur]
           old == connections[f]
           dies == old # None /\ ~Held(old)
       IN /\ connections' = Stored(f)
          /\ stage' = [c \in Clients |-> CASE c = cur -> "published"
                                           [] c = old /\ dies -> "destroyed"
                                           [] OTHER -> stage[c]]
          /\ closing' = [closing EXCEPT ![Main] = IF dies THEN DestructorCloses(old) ELSE <<>>]
    /\ main' = "announce"
    /\ UNCHANGED <<kvars, fd_, cur, rvars, crashed>>

(* on_connection_callback_(connections_[fd]), if it is set, looks the      *)
(* Connection up again, which a sub reactor may have erased meanwhile.     *)
Announce ==
    /\ main = "announce"
    /\ closing[Main] = <<>>
    /\ IF OnConnectSet THEN main' = "onconnect" /\ cur' = connections[fd_[cur]]
                       ELSE main' = "loop" /\ cur' = None
    /\ UNCHANGED <<stage, kvars, fd_, connections, rvars, closing, crashed>>

(* Server::DeleteConnection erases whatever connections_ has under fd.     *)
DeleteConnection(f) == [connections EXCEPT ![f] = None]

(* A callback that holds c returns on thread th, after conn->Close() if    *)
(* close is TRUE, and its shared_ptr goes.  Every Connection that loses    *)
(* its last owner is destroyed.                                            *)
CallbackEnds(th, c, close) ==
    LET f == fd_[c]
        erased == IF close THEN connections[f] ELSE None
        map == IF close THEN DeleteConnection(f) ELSE connections
        others == {d \in {erased} \ {c, None} : ~Held(d)}
        D == others \cup {d \in {c} : ~InMap(map, d) /\ Holders(d) \subseteq {th}}
    IN /\ close => AppCloses
       /\ connections' = map
       /\ stage' = [d \in Clients |-> IF d \in D THEN "destroyed" ELSE stage[d]]
       /\ closing' = [closing EXCEPT ![th] =
             (IF others # {} THEN DestructorCloses(erased) ELSE <<>>)
             \o (IF c \in D THEN DestructorCloses(c) ELSE <<>>)]

(* The on-connection callback, which dereferences what it is given.        *)
OnConnection(close) ==
    /\ main = "onconnect"
    /\ \/ /\ cur # None
          /\ CallbackEnds(Main, cur, close)
          /\ main' = "loop" /\ cur' = None
          /\ UNCHANGED <<kvars, fd_, rvars, crashed>>
       \/ cur = None /\ Throw

-----------------------------------------------------------------------------
(* A sub reactor: EventLoop::Loop, Epoll::Poll, Channel::HandleEvent.  An  *)
(* exception ends the loop and stays in the future of the pool's task.     *)

Poll(r) ==
    /\ pc[r] = "loop" /\ todo[r] = {}
    /\ LET ready == {f \in Fds : Reported(f) /\ LoopOf(epoll[f].ch) = r} IN
       /\ ready # {}
       /\ todo' = [todo EXCEPT ![r] = {epoll[f].ch : f \in ready}]
       /\ epoll' = [f \in Fds |-> IF f \in ready THEN [epoll[f] EXCEPT !.armed = FALSE]
                                                 ELSE epoll[f]]
    /\ UNCHANGED <<stage, stops, sends, unread, reset, fdt, fd_, connections, mvars, pc, hcur, closing,
                   crashed>>

(* The process is stopped (SIGSTOP, a debugger) and continued: epoll_wait  *)
(* fails with EINTR in any of the threads that were inside, and Errif      *)
(* throws.                                                                 *)
StopAndContinue ==
    /\ stops < MaxStops
    /\ stops' = stops + 1
    /\ \E D \in SUBSET {r \in Reactors : pc[r] = "loop" /\ todo[r] = {}} :
          pc' = [r \in Reactors |-> IF r \in D THEN "dead" ELSE pc[r]]
    /\ crashed' \in IF MainIdle THEN BOOLEAN ELSE {FALSE}
    /\ UNCHANGED <<stage, sends, unread, reset, fdt, epoll, fd_, connections, mvars, todo,
                   hcur, closing>>

(* An exception leaves EventLoop::Loop.                                    *)
EndLoop(r) ==
    /\ pc' = [pc EXCEPT ![r] = "dead"]
    /\ todo' = [todo EXCEPT ![r] = {}]
    /\ hcur' = [hcur EXCEPT ![r] = None]

(* The reactor uses a freed Connection or Channel: it brings the process   *)
(* down or gets away with it, or an expired weak_ptr or an empty function  *)
(* throws.                                                                 *)
FreedUsed(r, rest) ==
    \/ /\ pc' = [pc EXCEPT ![r] = "loop"]
       /\ todo' = [todo EXCEPT ![r] = rest]
       /\ hcur' = [hcur EXCEPT ![r] = None]
       /\ crashed' \in BOOLEAN
    \/ EndLoop(r) /\ UNCHANGED crashed

(* The Connection was destroyed since it was put into the batch, or since  *)
(* its handler was called.  The handler may read the descriptor still.     *)
UseAfterFree(r, c) ==
    /\ stage[c] = "destroyed"
    /\ \/ pc[r] = "loop" /\ c \in todo[r] /\ FreedUsed(r, todo[r] \ {c})
       \/ pc[r] = "read" /\ c = hcur[r] /\ FreedUsed(r, todo[r])
    /\ unread' \in {unread, Drained(fd_[c])}
    /\ UNCHANGED <<stage, stops, sends, reset, fdt, epoll, fd_, connections, mvars, closing>>

(* Mutant: the loop handles the first channel of a batch only.             *)
DropBatch(r, c) == {}

RestOfBatch(r, c) == todo[r] \ {c}

(* read_callback_() throws bad_function_call while it is unset.            *)
HandleEvent(r, c) ==
    /\ pc[r] = "loop"
    /\ c \in todo[r] /\ stage[c] # "destroyed"
    /\ \/ /\ HasCallback(c)
          /\ pc' = [pc EXCEPT ![r] = "read"]
          /\ todo' = [todo EXCEPT ![r] = RestOfBatch(r, c)]
          /\ hcur' = [hcur EXCEPT ![r] = c]
       \/ ~HasCallback(c) /\ EndLoop(r)
    /\ UNCHANGED <<stage, kvars, fd_, connections, mvars, closing, crashed>>

(* Mutant: connections_ holds unique_ptr, so shared_from_this() throws.    *)
NeverShared(c) == FALSE

Shared(c) == stage[c] = "published"

(* BusinessLogic: Read() drains whatever stream the descriptor now names;  *)
(* shared_from_this() throws bad_weak_ptr before the Connection is owned   *)
(* by a shared_ptr.                                                        *)
BusinessLogic(r) ==
    /\ pc[r] = "read"
    /\ stage[hcur[r]] # "destroyed"
    /\ unread' = Drained(fd_[hcur[r]])
    /\ IF Shared(hcur[r])
       THEN pc' = [pc EXCEPT ![r] = "callback"] /\ UNCHANGED <<todo, hcur>>
       ELSE EndLoop(r)
    /\ UNCHANGED <<stage, stops, sends, reset, fdt, epoll, fd_, connections, mvars, closing, crashed>>

(* The message callback, which may write to the Connection, returns.       *)
OnMessage(r, close) ==
    /\ pc[r] = "callback"
    /\ CallbackEnds(r, hcur[r], close)
    /\ pc' = [pc EXCEPT ![r] = "return"]
    /\ UNCHANGED <<kvars, fd_, mvars, todo, hcur, crashed>>

(* A callback writes to a stream that its client has reset: nobody         *)
(* handles SIGPIPE.                                                        *)
SigPipe(c) ==
    /\ c \in reset
    /\ \E d \in Clients : Held(d) /\ fdt[fd_[d]] = c
    /\ Throw

(* Back in HandleEvent, which tests ready_events_ of a channel that may    *)
(* have been freed by its own callback, and may call its write_callback_.  *)
HandlerReturns(r) ==
    /\ pc[r] = "return"
    /\ closing[r] = <<>>
    /\ IF stage[hcur[r]] = "destroyed"
       THEN FreedUsed(r, todo[r])
       ELSE /\ pc' = [pc EXCEPT ![r] = "loop"]
            /\ hcur' = [hcur EXCEPT ![r] = None]
            /\ UNCHANGED <<todo, crashed>>
    /\ UNCHANGED <<stage, kvars, fd_, connections, mvars, closing>>

(* close(fd): frees the number, whatever stream it names by now, and the   *)
(* kernel drops the registration.  EBADF is ignored.                       *)
CloseFd(th) ==
    /\ closing[th] # <<>>
    /\ LET f == Head(closing[th]) IN
       /\ fdt' = [fdt EXCEPT ![f] = None]
       /\ epoll' = [epoll EXCEPT ![f] = NotRegistered]
    /\ closing' = [closing EXCEPT ![th] = Tail(@)]
    /\ UNCHANGED <<stage, stops, sends, unread, reset, fd_, connections, mvars, rvars, crashed>>

-----------------------------------------------------------------------------
MainStep ==
    \/ \E c \in Clients : Accept(c)
    \/ NewSocket \/ EnableRead \/ UseET \/ SetCallBacks \/ Insert \/ Announce
    \/ \E close \in BOOLEAN : OnConnection(close)

ReactorStep(r) ==
    \/ Poll(r)
    \/ \E c \in Clients : HandleEvent(r, c) \/ UseAfterFree(r, c)
    \/ BusinessLogic(r)
    \/ \E close \in BOOLEAN : OnMessage(r, close)
    \/ HandlerReturns(r)

Next ==
    /\ ~crashed
    /\ \/ \E c \in Clients : Connect(c) \/ Send(c) \/ Reset(c) \/ SigPipe(c)
       \/ MainStep
       \/ \E r \in Reactors : ReactorStep(r)
       \/ \E th \in Threads : CloseFd(th)
       \/ StopAndContinue

(* Every thread is scheduled again and again; clients do as they like.     *)
Fairness ==
    /\ WF_vars(~crashed /\ MainStep)
    /\ \A r \in Reactors : WF_vars(~crashed /\ ReactorStep(r))
    /\ \A th \in Threads : WF_vars(~crashed /\ CloseFd(th))

Spec == Init /\ [][Next]_vars
FairSpec == Spec /\ Fairness
-----------------------------------------------------------------------------
(* Properties.                                                             *)

Stages == {"away", "queued", "accepted", "added", "callbacks", "published", "destroyed"}

(* Types, and: the Connection under construction is the only one between   *)
(* accept and publication, at the stage that NewConnection has reached.    *)
TypeOK ==
    /\ stage \in [Clients -> Stages]
    /\ sends \in [Clients -> 0..MaxSends]
    /\ unread \in [Clients -> BOOLEAN]
    /\ reset \in SUBSET Clients
    /\ fdt \in [Fds -> Clients \cup {None, Spare}]
    /\ epoll \in [Fds -> [ch : Clients \cup {None}, et : BOOLEAN, armed : BOOLEAN]]
    /\ fd_ \in [Clients -> Fds \cup {None}]
    /\ connections \in [Fds -> Clients \cup {None}]
    /\ main \in {"loop", "socket", "add", "et", "callbacks", "insert", "announce", "onconnect"}
    /\ cur \in Clients \cup {None}
    /\ pc \in [Reactors -> {"loop", "read", "callback", "return", "dead"}]
    /\ todo \in [Reactors -> SUBSET Clients]
    /\ hcur \in [Reactors -> Clients \cup {None}]
    /\ closing \in [Threads -> Seq(Fds)]
    /\ stops \in 0..MaxStops
    /\ crashed \in BOOLEAN
    /\ \A c \in Clients : stage[c] \in {"accepted", "added", "callbacks"} =>
          /\ c = cur
          /\ main \in CASE stage[c] = "accepted" -> {"socket", "add"}
                        [] stage[c] = "added" -> {"et", "callbacks"}
                        [] OTHER -> {"insert"}

(* A Connection is never destroyed under a callback that was given it,     *)
(* though that callback, or another thread's, may erase it from            *)
(* connections_ and NewConnection may replace it there.                    *)
CallbackOwnsConnection ==
    /\ \A r \in Reactors : pc[r] = "callback" => stage[hcur[r]] = "published"
    /\ main = "onconnect" /\ cur # None => stage[cur] = "published"

(* No stream is orphaned: a client's open descriptor belongs to a          *)
(* Connection that NewConnection is building, that connections_ or a       *)
(* callback on either kind of thread owns, or whose destructor is about to *)
(* close it.                                                               *)
NoOrphanStream ==
    \A f \in Fds : fdt[f] \in Clients =>
        LET c == fdt[f] IN
        \/ stage[c] \in {"accepted", "added", "callbacks"}
        \/ stage[c] = "published" /\ (InMap(connections, c) \/ Held(c))
        \/ \E th \in Threads : \E i \in 1..Len(closing[th]) : closing[th][i] = f

(* Unless epoll_wait is interrupted, a sub reactor's loop is ended only by *)
(* an event of the Connection that NewConnection has registered with epoll *)
(* and not yet put in connections_, or by one that was destroyed since     *)
(* epoll_wait reported it: no event of a Connection that is published and  *)
(* alive throws.                                                           *)
LiveConnectionsNeverThrow ==
    [][\A r \in Reactors : pc[r] # "dead" /\ pc'[r] = "dead" =>
          \/ stops' # stops
          \/ /\ main \in {"et", "callbacks", "insert"}
             /\ cur \in todo[r] \cup {hcur[r]}
          \/ \E c \in Clients \cap (todo[r] \cup {hcur[r]}) : stage[c] = "destroyed"]_vars

(* Whatever a client sends, even before it has been accepted, is read by   *)
(* the sub reactor in charge unless that one has died or the process has:  *)
(* no edge is lost between EPOLL_CTL_ADD, EPOLL_CTL_MOD, epoll_wait and    *)
(* the handling of a batch.                                                *)
InputIsRead ==
    \A c \in Clients :
        unread[c] ~> \/ ~unread[c]
                     \/ crashed
                     \/ fd_[c] # None /\ pc[LoopOf(c)] = "dead"

(* With callbacks that never call Close (those of the repository's own     *)
(* servers) every Connection costs two descriptors and gives none back;    *)
(* unless it is stopped or a client resets its stream, the process falls   *)
(* at the connection that finds none or a single one left, and at no other *)
Accepted == {c \in Clients : stage[c] \notin {"away", "queued"}}

CapacityIsHalved ==
    LET n == Cardinality(Accepted) IN
    /\ ~crashed => Cardinality({f \in Fds : fdt[f] # None})
                      = IF main = "socket" THEN 2 * n - 1 ELSE 2 * n
    /\ crashed /\ stops = 0 /\ reset = {} => MaxFd \in {2 * n - 2, 2 * n - 1}

(* "one Connection instance corresponds to one TCP connection"             *)
(* (connection.h:17): the descriptor of a Connection that is in use names  *)
(* its own stream.                                                         *)
OneConnectionPerTcp ==
    \A c \in Clients : stage[c] = "published" => fdt[fd_[c]] = c

(* "start epoll_wait and handle returned events (wrapped in channels)"     *)
(* (event_loop.h:24): a sub reactor does so for as long as the server runs *)
ReactorsKeepHandling == \A r \in Reactors : pc[r] # "dead"
=============================================================================
