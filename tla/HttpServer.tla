----------------------------- MODULE HttpServer -----------------------------
(***************************************************************************)
(* test/http_server.cpp: Server, with the callbacks of HttpManager.        *)
(* OnConnection, called by the main reactor from NewConnection, registers  *)
(* an HttpParser for the Connection; OnMessage, called by a sub reactor,   *)
(* looks the parser up and lets it handle the request.                     *)
(*                                                                         *)
(* http_connections_ has no lock; its operations are single steps here.    *)
(***************************************************************************)
EXTENDS Naturals, Sequences, FiniteSets

CONSTANTS Clients, NReactors, MaxFd, MaxSends, MaxStops, MaxResets, AppCloses,
          OnConnectSet, None, Spare               \* as in Server

VARIABLES stage, sends, unread, reset, fdt, epoll, fd_, connections, main, cur, pc,
          todo, hcur, closing, stops, crashed,    \* as in Server
          http_connections    \* http_connections_: the parser of each, or None

server == <<stage, sends, unread, reset, fdt, epoll, fd_, connections, main, cur, pc, todo,
            hcur, closing, stops, crashed>>
vars == <<server, http_connections>>

S == INSTANCE Server

Init == S!Init /\ http_connections = [c \in Clients |-> None]

(* The constructor of HttpParser leaves connection_ empty ...              *)
HttpParser == [connection_ |-> None, error_ |-> FALSE]

(* ... and so does HttpManager::RegisterConn.  A null Connection would get *)
(* a parser too, which no message ever looks up.                           *)
RegisterConn(conn) ==
    http_connections' = [c \in Clients |-> IF c = conn THEN HttpParser ELSE http_connections[c]]

OnConnection ==
    /\ main = "onconnect"
    /\ RegisterConn(cur)
    /\ IF cur # None THEN S!CallbackEnds(S!Main, cur, FALSE)
                     ELSE UNCHANGED <<connections, stage, closing>>
    /\ main' = "loop" /\ cur' = None
    /\ UNCHANGED <<sends, unread, reset, fdt, epoll, stops, fd_, pc, todo, hcur, crashed>>

(* With a connection_, every request would be an error: an empty one at    *)
(* once, any other because if (PARSE_URI_ERROR) tests a constant.          *)
ParseRequest(p) == [p EXCEPT !.error_ = TRUE]

(* ParseRequest starts by dereferencing connection_; if that is a null     *)
(* pointer the process is gone.  Otherwise the request is answered by      *)
(* HandleError, whose Write may raise SIGPIPE, and the callback returns.   *)
HandleRequest(r, c) ==
    \/ /\ http_connections[c].connection_ = None
       /\ S!Throw
       /\ UNCHANGED http_connections
    \/ /\ http_connections[c].connection_ # None
       /\ http_connections' = [http_connections EXCEPT ![c] = ParseRequest(@)]
       /\ S!OnMessage(r, FALSE) \/ S!SigPipe(fdt[fd_[c]])

(* A message that precedes OnConnection has been read and is dropped.      *)
OnMessage(r) ==
    /\ pc[r] = "callback"
    /\ IF http_connections[hcur[r]] # None
       THEN HandleRequest(r, hcur[r])
       ELSE S!OnMessage(r, FALSE) /\ UNCHANGED http_connections

(* The steps of Server that the callbacks do not change.                   *)
ServerStep ==
    \/ \E c \in Clients : S!Connect(c) \/ S!Send(c) \/ S!Reset(c) \/ S!Accept(c)
    \/ S!NewSocket \/ S!EnableRead \/ S!UseET \/ S!SetCallBacks \/ S!Insert \/ S!Announce
    \/ \E r \in S!Reactors :
          \/ S!Poll(r) \/ S!BusinessLogic(r) \/ S!HandlerReturns(r)
          \/ \E c \in Clients : S!HandleEvent(r, c) \/ S!UseAfterFree(r, c)
    \/ \E th \in S!Threads : S!CloseFd(th)
    \/ S!StopAndContinue

Next ==
    /\ ~crashed
    /\ \/ ServerStep /\ UNCHANGED http_connections
       \/ OnConnection
       \/ \E r \in S!Reactors : OnMessage(r)

Spec == Init /\ [][Next]_vars
-----------------------------------------------------------------------------
(* "http request parsing & response" (README.md:19): as long as nobody     *)
(* stops the process, no client resets its stream and there are two        *)
(* descriptors for every client, a request does not bring http_server down *)
RequestsAreSurvived ==
    crashed => stops > 0 \/ reset # {} \/ MaxFd < 2 * Cardinality(Clients)
=============================================================================
