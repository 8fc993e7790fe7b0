----------------------------- MODULE Connection -----------------------------
(***************************************************************************)
(* The data path of one server-side Connection: an edge-triggered channel, *)
(* Connection::Read and Write on a non-blocking socket, and the message    *)
(* callback of test/echo_server.cpp, against a client that sends, reads,   *)
(* half-closes and resets when it likes.                                   *)
(*                                                                         *)
(* A byte is a number; NUL is 0, and the other bytes of a payload are      *)
(* numbered in the order in which they are sent, so that what comes back   *)
(* can be told apart.  EINTR repeats a call and changes nothing.           *)
(***************************************************************************)
EXTENDS Naturals, Sequences

CONSTANTS Payloads,   \* what the client may want to send
          Chunk,      \* BUFFER_SIZE: the most that one read() returns
          SendCap     \* what the kernel buffers towards the client

NUL == 0

ASSUME ConnectionAssumption ==
    /\ Payloads \subseteq Seq(Nat)
    /\ \A p \in Payloads : \A i, j \in 1..Len(p) :
          (i < j /\ p[i] # NUL /\ p[j] # NUL) => p[i] < p[j]
    /\ Chunk \in Nat \ {0}
    /\ SendCap \in Nat \ {0}

VARIABLES payload,       \* the client's choice
          nsent,         \* how many bytes of it the client has sent
          peer,          \* the client's side: "open", "fin" or "reset"
          rx,            \* kernel: received, not yet read by the server
          edge,          \* kernel: an event that epoll_wait has to report
          tx,            \* kernel: written by the server, not yet read
          got,           \* what the client has read
          pc,            \* where the sub reactor is with this Connection
          state,         \* state_
          read_buffer,   \* read_buffer_
          write_buffer,  \* the part of write_buffer_ not yet written
          lost           \* history: why bytes have been dropped

cvars == <<payload, nsent, peer>>
vars == <<payload, nsent, peer, rx, edge, tx, got, pc, state, read_buffer,
          write_buffer, lost>>

Sent == SubSeq(payload, 1, nsent)
Least(a, b) == IF a < b THEN a ELSE b

Init ==
    /\ payload \in Payloads
    /\ nsent = 0 /\ peer = "open"
    /\ rx = <<>> /\ edge = FALSE /\ tx = <<>> /\ got = <<>>
    /\ pc = "poll"
    /\ state = "Connected"
    /\ read_buffer = <<>> /\ write_buffer = <<>>
    /\ lost = {}

-----------------------------------------------------------------------------
(* The client.  Whatever arrives is an edge for the server's epoll.        *)

ClientSend(n) ==
    /\ peer = "open"
    /\ nsent + n <= Len(payload)
    /\ nsent' = nsent + n
    /\ rx' = rx \o SubSeq(payload, nsent + 1, nsent + n)
    /\ edge' = TRUE
    /\ UNCHANGED <<payload, peer, tx, got, pc, state, read_buffer, write_buffer, lost>>

ClientEnds(how) ==
    /\ peer = "open" \/ (peer = "fin" /\ how = "reset")
    /\ peer' = how
    /\ edge' = TRUE
    /\ UNCHANGED <<payload, nsent, rx, tx, got, pc, state, read_buffer, write_buffer, lost>>

ClientRead(n) ==
    /\ peer # "reset"
    /\ n <= Len(tx)
    /\ got' = got \o SubSeq(tx, 1, n)
    /\ tx' = SubSeq(tx, n + 1, Len(tx))
    /\ UNCHANGED <<cvars, rx, edge, pc, state, read_buffer, write_buffer, lost>>

-----------------------------------------------------------------------------
(* The sub reactor: epoll_wait, HandleEvent, BusinessLogic.                *)

(* Mutant: the call of ClearBuffer is missing.                             *)
KeepBuffer(buf) == buf

ClearBuffer(buf) == <<>>

(* Read clears read_buffer_ unless the Connection is no longer connected.  *)
Poll ==
    /\ pc = "poll" /\ edge
    /\ edge' = FALSE
    /\ \/ /\ state = "Connected"
          /\ read_buffer' = ClearBuffer(read_buffer)
          /\ pc' = "read"
       \/ /\ state # "Connected"
          /\ pc' = "callback"
          /\ UNCHANGED read_buffer
    /\ UNCHANGED <<cvars, rx, tx, got, state, write_buffer, lost>>

(* Buffer::Append(buf, n) stops at the first NUL of the chunk.             *)
UpToNul(s) ==
    SubSeq(s, 1, CHOOSE n \in 0..Len(s) : /\ \A i \in 1..n : s[i] # NUL
                                          /\ n = Len(s) \/ s[n + 1] = NUL)

(* Mutant: a single read() per event.                                      *)
LeaveReadLoop == "callback"

ReadAgain == "read"

ReadSome ==
    /\ pc = "read" /\ rx # <<>>
    /\ LET n == Least(Chunk, Len(rx))
           chunk == SubSeq(rx, 1, n)
       IN /\ rx' = SubSeq(rx, n + 1, Len(rx))
          /\ read_buffer' = read_buffer \o UpToNul(chunk)
          /\ lost' = IF UpToNul(chunk) = chunk THEN lost ELSE lost \cup {"nul"}
    /\ pc' = ReadAgain
    /\ UNCHANGED <<cvars, edge, tx, got, state, write_buffer>>

ReadWouldBlock ==
    /\ pc = "read" /\ rx = <<>> /\ peer = "open"
    /\ pc' = "callback"
    /\ UNCHANGED <<cvars, rx, edge, tx, got, state, read_buffer, write_buffer, lost>>

(* Mutant: the end of the stream is not noted in state_.                   *)
StillConnected == state

Closed == "Closed"

(* read() returns 0 after the FIN, -1 after a reset.                       *)
ReadEnds ==
    /\ pc = "read" /\ rx = <<>> /\ peer # "open"
    /\ state' = Closed
    /\ lost' = IF read_buffer = <<>> THEN lost ELSE lost \cup {"closed"}
    /\ pc' = "callback"
    /\ UNCHANGED <<cvars, rx, edge, tx, got, read_buffer, write_buffer>>

(* The echo callback: SetWriteBuffer(ReadBuffer()) and Write(), or nothing *)
(* on a closed Connection.                                                 *)
OnMessage ==
    /\ pc = "callback"
    /\ \/ /\ state = "Connected"
          /\ write_buffer' = read_buffer
          /\ pc' = "write"
       \/ /\ state # "Connected"
          /\ pc' = "poll"
          /\ UNCHANGED write_buffer
    /\ UNCHANGED <<cvars, rx, edge, tx, got, state, read_buffer, lost>>

(* Mutant: write(sockfd, buf, bytes_left), always from the start of buf.   *)
LeftAtStart(n) == SubSeq(write_buffer, 1, Len(write_buffer) - n)

BytesLeft(n) == SubSeq(write_buffer, n + 1, Len(write_buffer))

(* WriteNonBlocking, one write() at a time; Write() clears the buffer when *)
(* the loop ends, whatever the reason.                                     *)
WriteSome(n) ==
    /\ pc = "write" /\ peer # "reset"
    /\ n <= Len(write_buffer)
    /\ Len(tx) + n <= SendCap
    /\ tx' = tx \o SubSeq(write_buffer, 1, n)
    /\ write_buffer' = BytesLeft(n)
    /\ UNCHANGED <<cvars, rx, edge, got, pc, state, read_buffer, lost>>

WriteDone ==
    /\ pc = "write" /\ write_buffer = <<>>
    /\ pc' = "poll"
    /\ UNCHANGED <<cvars, rx, edge, tx, got, state, read_buffer, write_buffer, lost>>

WriteWouldBlock ==
    /\ pc = "write" /\ write_buffer # <<>> /\ peer # "reset"
    /\ Len(tx) = SendCap
    /\ write_buffer' = ClearBuffer(write_buffer)
    /\ lost' = lost \cup {"again"}
    /\ pc' = "poll"
    /\ UNCHANGED <<cvars, rx, edge, tx, got, state, read_buffer>>

(* write() to a connection that was reset fails, and raises SIGPIPE, which *)
(* nobody handles, if the error has been reported before.                  *)
WriteFails ==
    /\ pc = "write" /\ write_buffer # <<>> /\ peer = "reset"
    /\ \/ pc' = "poll" /\ state' = "Closed"
       \/ pc' = "killed" /\ UNCHANGED state
    /\ write_buffer' = ClearBuffer(write_buffer)
    /\ lost' = lost \cup {"closed"}
    /\ UNCHANGED <<cvars, rx, edge, tx, got, read_buffer>>

-----------------------------------------------------------------------------
Sizes == 1..(Chunk + SendCap)    \* how much one call of the other side moves

ServerStep ==
    \/ Poll \/ ReadSome \/ ReadWouldBlock \/ ReadEnds \/ OnMessage
    \/ \E n \in Sizes : WriteSome(n)
    \/ WriteDone \/ WriteWouldBlock \/ WriteFails

Next ==
    \/ \E n \in Sizes : ClientSend(n) \/ ClientRead(n)
    \/ \E how \in {"fin", "reset"} : ClientEnds(how)
    \/ ServerStep

(* The sub reactor's thread runs, and the client reads what arrives.       *)
Fairness ==
    /\ WF_vars(ServerStep)
    /\ WF_vars(\E n \in Sizes : ClientRead(n))

Spec == Init /\ [][Next]_vars
FairSpec == Spec /\ Fairness
-----------------------------------------------------------------------------
(* Properties.                                                             *)

(* Types; the kernel's buffer is not overrun, and write_buffer_ is empty   *)
(* whenever Write is not at work.                                          *)
TypeOK ==
    /\ payload \in Payloads
    /\ nsent \in 0..Len(payload)
    /\ peer \in {"open", "fin", "reset"}
    /\ \A s \in {rx, tx, got, read_buffer, write_buffer} : s \in Seq(Nat)
    /\ Len(tx) <= SendCap
    /\ edge \in BOOLEAN
    /\ pc \in {"poll", "read", "callback", "write", "killed"}
    /\ state \in {"Connected", "Closed"}
    /\ pc # "write" => write_buffer = <<>>
    /\ lost \subseteq {"nul", "again", "closed"}

(* Edge-triggered reading strands nothing: whenever the reactor is back in *)
(* epoll_wait, input that it has not read, or an end that it has not seen, *)
(* is an event still to come, however it arrived between the last read()   *)
(* and epoll_wait.                                                         *)
NoStrandedInput ==
    pc = "poll" /\ state = "Connected" /\ (rx # <<>> \/ peer # "open") => edge

(* The bytes that the server still means to send back.                     *)
InHand == CASE pc \in {"read", "callback"} /\ state = "Connected" -> read_buffer
            [] OTHER -> write_buffer

(* Every byte sent is in exactly one place, in order, as long as none has  *)
(* been dropped: at a NUL, at a full send buffer, or for an ended stream.  *)
EchoAccounted == lost = {} => got \o tx \o InHand \o rx = Sent

(* Even when bytes are dropped, nothing comes back twice, out of order or  *)
(* as a NUL: the echo is a subsequence of what was sent.                   *)
EchoInOrder ==
    LET back == got \o tx \o InHand IN
    /\ \A i, j \in 1..Len(back) : i < j => back[i] < back[j]
    /\ \A i \in 1..Len(back) : back[i] # NUL

(* Every byte comes back if none is dropped and the client stays.          *)
EchoArrives ==
    \A n \in 1..Chunk + SendCap :
        nsent >= n ~> Len(got) >= n \/ lost # {} \/ peer # "open"
=============================================================================
