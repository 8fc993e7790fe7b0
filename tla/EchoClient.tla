----------------------------- MODULE EchoClient -----------------------------
(***************************************************************************)
(* The client programs of test/ against the echo server: Connection gives  *)
(* the server's side and the stream, this module the program that has a    *)
(* blocking Connection of its own.  It writes a line with WriteBlocking,   *)
(* reads once with ReadBlocking, and starts again; echo_single_client      *)
(* takes its lines from a user, who may enter an empty one,                *)
(* echo_multi_clients sends what it has and leaves.                        *)
(*                                                                         *)
(* The server process may die at any time (of SIGPIPE on another client's  *)
(* connection): its kernel then ends this connection with a FIN, or with a *)
(* RST if the server had not read all that had arrived.                    *)
(***************************************************************************)
EXTENDS Naturals, Sequences

CONSTANTS Payloads, Chunk, SendCap    \* as in Connection

VARIABLES payload, nsent, peer, rx, edge, tx, got, pc, state, read_buffer,
          write_buffer, lost,         \* as in Connection
          cpc,        \* the program: "line", "write", "read" or how it ended
          cstate,     \* state_ of the client's Connection
          len,        \* the length of the line in its write_buffer_
          written,    \* how many bytes write() has taken
          err         \* kernel: how the server's end has failed

cvars == <<cpc, cstate, len, written, err>>

echo == <<payload, nsent, peer, rx, edge, tx, got, pc, state, read_buffer,
          write_buffer, lost>>
vars == <<echo, cvars>>

S == INSTANCE Connection

(* As in Connection.                                                       *)
ASSUME EchoClientAssumption ==
    /\ Payloads \subseteq Seq(Nat)
    /\ \A p \in Payloads : \A i, j \in 1..Len(p) :
          (i < j /\ p[i] # S!NUL /\ p[j] # S!NUL) => p[i] < p[j]
    /\ Chunk \in Nat \ {0}
    /\ SendCap \in Nat \ {0}

(* Socket::Connect has succeeded: it throws otherwise.                     *)
Init ==
    /\ S!Init
    /\ cpc = "line" /\ cstate = "Connected"
    /\ len = 0 /\ written = 0 /\ err = "none"

-----------------------------------------------------------------------------
(* The program.                                                            *)

(* Mutant: the line is taken from the start of the text again.             *)
AnyLength == 0..Len(payload)

LineLength == 0..(Len(payload) - written)

(* GetLineWriteBuffer or SetWriteBuffer.                                   *)
GetLine(n) ==
    /\ cpc = "line"
    /\ n \in LineLength
    /\ len' = n
    /\ cpc' = "write"
    /\ UNCHANGED <<echo, cstate, written, err>>

(* One write() of the whole line.  The stream of a dead server takes it    *)
(* once and answers with a RST; a write() after that raises SIGPIPE.       *)
WriteBlocking ==
    /\ cpc = "write" /\ cstate = "Connected"
    /\ err \in {"none", "eof"}
    /\ written' = written + len
    /\ err' = IF err = "eof" /\ len > 0 THEN "pipe" ELSE err
    /\ len' = 0
    /\ cpc' = "read"
    /\ UNCHANGED <<echo, cstate>>

WriteRaisesSigpipe ==
    /\ cpc = "write" /\ cstate = "Connected"
    /\ err = "pipe"
    /\ cpc' = "killed"
    /\ UNCHANGED <<echo, cstate, len, written, err>>

(* write() fails, or Read has failed before: the program calls Close(),    *)
(* which calls a delete_connection_callback_ that nobody has set.          *)
CloseThrows ==
    /\ cpc = "write"
    /\ cstate = "Closed" \/ err = "reset"
    /\ cstate' = "Closed"
    /\ cpc' = "thrown"
    /\ UNCHANGED <<echo, len, written, err>>

(* One read() of what has arrived.                                         *)
ReadBlocking(n) ==
    /\ cpc = "read"
    /\ S!ClientRead(n)
    /\ cpc' = "line"
    /\ UNCHANGED <<cstate, len, written, err>>

(* End of file is not an error to ReadBlocking: state_ stays Connected.    *)
ReadEof ==
    /\ cpc = "read"
    /\ tx = <<>> /\ err \in {"eof", "pipe"}
    /\ cpc' = "line"
    /\ UNCHANGED <<echo, cstate, len, written, err>>

ReadFails ==
    /\ cpc = "read"
    /\ err = "reset"
    /\ cstate' = "Closed"
    /\ cpc' = "line"
    /\ UNCHANGED <<echo, len, written, err>>

(* echo_multi_clients has sent its messages and deletes the Connection.    *)
Leave ==
    /\ cpc = "line" /\ written = Len(payload)
    /\ cpc' = "left"
    /\ UNCHANGED <<echo, cstate, len, written, err>>

-----------------------------------------------------------------------------
(* The network and the other process.                                      *)

Deliver(n) ==
    /\ err = "none"
    /\ nsent + n <= written
    /\ S!ClientSend(n)
    /\ UNCHANGED cvars

(* close() resets the connection if answers are unread, or if one arrives  *)
(* later; otherwise the FIN follows what was written.                      *)
StreamEnds ==
    /\ cpc = "left"
    /\ \/ tx # <<>> /\ S!ClientEnds("reset")
       \/ tx = <<>> /\ nsent = written /\ S!ClientEnds("fin")
    /\ UNCHANGED cvars

ServerDies ==
    /\ pc # "killed"
    /\ pc' = "killed"
    /\ err' = IF rx = <<>> THEN "eof" ELSE "reset"
    /\ rx' = <<>> /\ edge' = FALSE
    /\ read_buffer' = <<>> /\ write_buffer' = <<>>
    /\ UNCHANGED <<payload, nsent, peer, tx, got, state, lost, cpc, cstate, len, written>>

(* A line was under way when the server died.                              *)
RstArrives ==
    /\ err = "eof" /\ nsent < written
    /\ err' = "pipe"
    /\ UNCHANGED <<echo, cpc, cstate, len, written>>

-----------------------------------------------------------------------------
ReadReturns == (\E n \in S!Sizes : ReadBlocking(n)) \/ ReadEof \/ ReadFails

WriteReturns == WriteBlocking \/ WriteRaisesSigpipe \/ CloseThrows

Next ==
    \/ \E n \in 0..(Chunk + SendCap) : GetLine(n)
    \/ WriteReturns \/ ReadReturns \/ Leave
    \/ \E n \in S!Sizes : Deliver(n)
    \/ StreamEnds \/ ServerDies \/ RstArrives
    \/ S!ServerStep /\ UNCHANGED cvars

(* The sub reactor and the client run, and the network delivers.  Nobody   *)
(* has to enter a line, to leave or to die.                                *)
Spec ==
    /\ Init /\ [][Next]_vars
    /\ WF_vars(S!ServerStep /\ UNCHANGED cvars)
    /\ WF_vars(WriteReturns)
    /\ WF_vars(ReadReturns)
    /\ WF_vars(\E n \in S!Sizes : Deliver(n))
    /\ WF_vars(StreamEnds)
-----------------------------------------------------------------------------
(* Properties.                                                             *)

(* Types; the client has read no more than arrived, and no more arrived    *)
(* than it wrote.                                                          *)
TypeOK ==
    /\ S!TypeOK
    /\ cpc \in {"line", "write", "read", "left", "killed", "thrown"}
    /\ cstate \in {"Connected", "Closed"}
    /\ len \in LineLength
    /\ written \in 0..Len(payload)
    /\ Len(got) <= nsent /\ nsent <= written
    /\ err \in {"none", "eof", "reset", "pipe"}

(* The client's read() returns as long as anything that it wrote has not   *)
(* come back, whatever pieces the stream was cut into on either way, and   *)
(* also when the server dies.  Each side waits for the other for good only *)
(* after an empty line, which is never sent, or when the server dropped    *)
(* bytes.                                                                  *)
EveryReadReturns ==
    cpc = "read" /\ Len(got) < written ~> cpc # "read" \/ lost # {}

(* The server learns that a client has left, even one that left before it  *)
(* had read all of its answers: state_ becomes Closed, or it is gone too.  *)
DepartureNoticed == cpc = "left" ~> state = "Closed" \/ pc = "killed"
=============================================================================
