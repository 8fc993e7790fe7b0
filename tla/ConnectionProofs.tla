-------------------------- MODULE ConnectionProofs --------------------------
(***************************************************************************)
(* Proofs about Connection, for every set of payloads, every size of the   *)
(* read chunk and of the kernel's send buffer.                             *)
(***************************************************************************)
EXTENDS Connection, SequenceLemmas, TLAPS

(* What the client has back or may still get back of what was read.        *)
Back == got \o tx \o InHand

(* How much of the payload the server has read.                            *)
NRead == nsent - Len(rx)

(* The kernel holds what was sent and not read, in order.                  *)
UnreadInOrder ==
    /\ Len(rx) <= nsent
    /\ rx = SubSeq(payload, NRead + 1, nsent)

(* Every byte of the echo was read from the stream and is not a NUL.       *)
BackWasRead ==
    \A i \in 1..Len(Back) : /\ Back[i] # NUL
                            /\ \E k \in 1..NRead : payload[k] = Back[i]

(* The echo is in the order of the payload.                                *)
BackInOrder == \A i, j \in 1..Len(Back) : i < j => Back[i] < Back[j]

(* Nothing dropped: the echo is all that was read.                         *)
BackComplete == lost = {} => Back = SubSeq(payload, 1, NRead)

(* NoStrandedInput, from the end of the read loop on.                      *)
EdgePending ==
    /\ pc = "read" => state = "Connected"
    /\ pc \in {"callback", "write", "poll"} /\ state = "Connected"
         => (rx = <<>> /\ peer = "open") \/ edge

ConnectionInv ==
    /\ TypeOK
    /\ EdgePending
    /\ UnreadInOrder
    /\ BackWasRead
    /\ BackInOrder
    /\ BackComplete

-----------------------------------------------------------------------------
(* Types.                                                                  *)

(* All buffers hold sequences of bytes.                                    *)
LEMMA BufferTypes ==
  ASSUME TypeOK
  PROVE  /\ payload \in Seq(Nat) /\ rx \in Seq(Nat) /\ tx \in Seq(Nat) /\ got \in Seq(Nat)
         /\ read_buffer \in Seq(Nat) /\ write_buffer \in Seq(Nat)
         /\ Len(payload) \in Nat /\ Len(rx) \in Nat /\ Len(tx) \in Nat
         /\ Len(read_buffer) \in Nat /\ Len(write_buffer) \in Nat /\ Len(got) \in Nat
         /\ nsent \in Nat /\ nsent <= Len(payload)
<1>1. payload \in Seq(Nat) /\ \A s \in {rx, tx, got, read_buffer, write_buffer} : s \in Seq(Nat)
  BY ConnectionAssumption DEF TypeOK
<1>2. QED
  BY <1>1, LenProperties DEF TypeOK

(* What Append keeps of a chunk is its beginning, up to the first NUL.     *)
LEMMA UpToNulFacts ==
  ASSUME NEW s \in Seq(Nat)
  PROVE  \E n \in 0..Len(s) : /\ UpToNul(s) = SubSeq(s, 1, n)
                              /\ \A i \in 1..n : s[i] # NUL
<1> DEFINE T == {n \in Nat : n <= Len(s) /\ (n = Len(s) \/ s[n + 1] = NUL)}
           P(n) == /\ \A i \in 1..n : s[i] # NUL
                   /\ n = Len(s) \/ s[n + 1] = NUL
<1>1. Len(s) \in Nat /\ Len(s) \in T
  BY LenProperties
<1>2. PICK m \in T : \A y \in T : m <= y
  BY <1>1, LeastNatural
<1>3. m \in 0..Len(s) /\ (m = Len(s) \/ s[m + 1] = NUL)
  BY <1>1, <1>2
<1>4. ASSUME NEW i \in 1..m, s[i] = NUL PROVE FALSE
  <2>1. i - 1 \in Nat /\ i - 1 <= Len(s) /\ (i - 1) + 1 = i
    BY <1>1, <1>3
  <2>2. i - 1 \in T
    BY <1>4, <2>1
  <2>3. m <= i - 1
    BY <1>2, <2>2
  <2>4. QED
    BY <1>1, <1>3, <2>1, <2>3
<1>5. \E n \in 0..Len(s) : P(n)
  BY <1>3, <1>4
<1>6. UpToNul(s) = SubSeq(s, 1, CHOOSE n \in 0..Len(s) : P(n))
  BY DEF UpToNul
<1>7. P(CHOOSE n \in 0..Len(s) : P(n)) /\ (CHOOSE n \in 0..Len(s) : P(n)) \in 0..Len(s)
  BY <1>5
<1>8. QED
  BY <1>6, <1>7

(* One read() takes at least one byte, and no more than there are.         *)
LEMMA ChunkFacts ==
  ASSUME NEW s \in Seq(Nat), s # <<>>
  PROVE  Least(Chunk, Len(s)) \in 1..Len(s)
<1>1. Len(s) \in Nat \ {0}
  BY EmptySeq, LenProperties
<1>2. QED
  BY <1>1, ConnectionAssumption DEF Least

(* The initial state is well typed.                                        *)
LEMMA InitTypeOK == Init => TypeOK
<1> SUFFICES ASSUME Init PROVE TypeOK
  OBVIOUS
<1>1. payload \in Seq(Nat) /\ <<>> \in Seq(Nat) /\ Len(<<>>) = 0
  BY ConnectionAssumption, EmptySeq DEF Init
<1>2. 0 \in 0..Len(payload) /\ 0 <= SendCap
  BY <1>1, LenProperties, ConnectionAssumption
<1>3. \A s \in {rx, tx, got, read_buffer, write_buffer} : s \in Seq(Nat)
  BY <1>1 DEF Init
<1>4. Len(tx) <= SendCap /\ nsent \in 0..Len(payload)
  BY <1>1, <1>2 DEF Init
<1>5. QED
  BY <1>3, <1>4 DEF Init, TypeOK

(* Every step preserves the types.                                         *)
LEMMA NextTypeOK ==
  ASSUME TypeOK, [Next]_vars
  PROVE  TypeOK'
<1> USE ConnectionAssumption
<1>t. /\ payload \in Seq(Nat) /\ rx \in Seq(Nat) /\ tx \in Seq(Nat) /\ got \in Seq(Nat)
      /\ read_buffer \in Seq(Nat) /\ write_buffer \in Seq(Nat)
      /\ Len(payload) \in Nat /\ Len(rx) \in Nat /\ Len(tx) \in Nat /\ Len(write_buffer) \in Nat
      /\ nsent \in Nat /\ nsent <= Len(payload) /\ <<>> \in Seq(Nat)
  BY BufferTypes, EmptySeq
<1>1. ASSUME NEW n \in Sizes, ClientSend(n) PROVE TypeOK'
  <2>1. nsent \in 0..Len(payload) /\ nsent + n \in nsent..Len(payload)
    BY <1>t, <1>1 DEF ClientSend, Sizes
  <2>2. SubSeq(payload, nsent + 1, nsent + n) \in Seq(Nat)
    BY <1>t, <2>1, Slice
  <2>3. rx' \in Seq(Nat)
    BY <1>t, <1>1, <2>2, ConcatProperties DEF ClientSend
  <2>4. nsent' \in 0..Len(payload')
    BY <1>t, <1>1, <2>1 DEF ClientSend
  <2>5. QED
    BY <1>t, <1>1, <2>3, <2>4 DEF ClientSend, TypeOK
<1>2. ASSUME NEW how \in {"fin", "reset"}, ClientEnds(how) PROVE TypeOK'
  BY <1>t, <1>2 DEF ClientEnds, TypeOK
<1>3. ASSUME NEW n \in Sizes, ClientRead(n) PROVE TypeOK'
  <2>1. n \in 0..Len(tx) /\ Len(tx) \in n..Len(tx) /\ n \in Nat
    BY <1>t, <1>3 DEF ClientRead, Sizes
  <2>2. SubSeq(tx, 1, n) \in Seq(Nat)
    BY <1>t, <2>1, Prefix
  <2>3. tx' \in Seq(Nat) /\ Len(tx') = Len(tx) - n
    BY SMTT(60), <1>t, <1>3, <2>1, Slice DEF ClientRead
  <2>4. got' \in Seq(Nat)
    BY <1>t, <1>3, <2>2, ConcatProperties DEF ClientRead
  <2>5. Len(tx') <= SendCap
    BY <1>t, <2>1, <2>3 DEF TypeOK
  <2>6. QED
    BY <1>t, <1>3, <2>3, <2>4, <2>5 DEF ClientRead, TypeOK, cvars
<1>4. CASE Poll
  BY <1>t, <1>4 DEF Poll, ClearBuffer, TypeOK, cvars
<1>5. CASE ReadSome
  <2> DEFINE n == Least(Chunk, Len(rx))
             chunk == SubSeq(rx, 1, n)
  <2>1. n \in 0..Len(rx) /\ Len(rx) \in n..Len(rx)
    BY <1>t, <1>5, ChunkFacts DEF ReadSome
  <2> HIDE DEF n
  <2>2. SubSeq(rx, n + 1, Len(rx)) \in Seq(Nat) /\ chunk \in Seq(Nat)
    <3>1. rx \in Seq(Nat) /\ n \in 0..Len(rx) /\ Len(rx) \in n..Len(rx)
      BY <1>t, <2>1
    <3>2. SubSeq(rx, n + 1, Len(rx)) \in Seq(Nat)
      BY SMTT(60), <3>1, Slice
    <3>3. chunk \in Seq(Nat)
      BY ZenonT(60), <3>1, Prefix
    <3>4. QED
      BY <3>2, <3>3
  <2>3. UpToNul(chunk) \in Seq(Nat)
    BY ZenonT(60), <2>2, UpToNulFacts, Prefix
  <2>4. read_buffer \o UpToNul(chunk) \in Seq(Nat)
    BY <1>t, <2>3, ConcatProperties
  <2>5. /\ rx' \in Seq(Nat) /\ read_buffer' \in Seq(Nat)
        /\ lost' \in {lost, lost \cup {"nul"}}
        /\ pc = "read" /\ pc' = "read"
        /\ UNCHANGED <<cvars, edge, tx, got, state, write_buffer>>
    BY <1>5, <2>2, <2>4 DEF ReadSome, ReadAgain, n
  <2>6. QED
    BY <1>t, <2>5 DEF TypeOK, cvars
<1>6. CASE ReadWouldBlock
  BY <1>t, <1>6 DEF ReadWouldBlock, TypeOK, cvars
<1>7. CASE ReadEnds
  BY <1>t, <1>7 DEF ReadEnds, Closed, TypeOK, cvars
<1>8. CASE OnMessage
  BY <1>t, <1>8 DEF OnMessage, TypeOK, cvars
<1>9. ASSUME NEW n \in Sizes, WriteSome(n) PROVE TypeOK'
  <2>1. n \in 0..Len(write_buffer) /\ Len(write_buffer) \in n..Len(write_buffer) /\ n \in Nat
    BY <1>t, <1>9 DEF WriteSome, Sizes
  <2>2. SubSeq(write_buffer, 1, n) \in Seq(Nat) /\ Len(SubSeq(write_buffer, 1, n)) = n
    BY <1>t, <2>1, Prefix
  <2>3. write_buffer' \in Seq(Nat)
    BY <1>t, <1>9, <2>1, Slice DEF WriteSome, BytesLeft
  <2>4. tx' \in Seq(Nat) /\ Len(tx') = Len(tx) + n
    BY <1>t, <1>9, <2>2, ConcatProperties DEF WriteSome
  <2>5. QED
    BY <1>t, <1>9, <2>3, <2>4 DEF WriteSome, TypeOK, cvars
<1>10. CASE WriteDone
  BY <1>t, <1>10 DEF WriteDone, TypeOK, cvars
<1>11. CASE WriteWouldBlock
  BY <1>t, <1>11 DEF WriteWouldBlock, ClearBuffer, TypeOK, cvars
<1>12. CASE WriteFails
  BY <1>t, <1>12 DEF WriteFails, ClearBuffer, TypeOK, cvars
<1>13. CASE UNCHANGED vars
  BY <1>13 DEF TypeOK, vars
<1>14. QED
  BY <1>1, <1>2, <1>3, <1>4, <1>5, <1>6, <1>7, <1>8, <1>9, <1>10, <1>11, <1>12, <1>13
     DEF Next, ServerStep

(* The buffers hold bytes, the kernel's send buffer is not overrun, and    *)
(* write_buffer_ is empty whenever Write is not at work.                   *)
THEOREM ConnectionTypeCorrect == Spec => []TypeOK
<1>1. TypeOK /\ [Next]_vars => TypeOK'
  BY NextTypeOK
<1>2. QED
  BY InitTypeOK, <1>1, PTL DEF Spec

-----------------------------------------------------------------------------
(* Edge-triggered reading.                                                 *)

(* Every step keeps an event pending for input that was not read.          *)
LEMMA NextEdgePending ==
  ASSUME TypeOK, EdgePending, [Next]_vars
  PROVE  EdgePending'
<1>1. ASSUME NEW n \in Sizes, ClientSend(n) PROVE EdgePending'
  BY <1>1 DEF ClientSend, EdgePending
<1>2. ASSUME NEW n \in Sizes, ClientRead(n) \/ WriteSome(n) PROVE EdgePending'
  BY <1>2 DEF ClientRead, WriteSome, EdgePending, cvars
<1>3. ASSUME NEW how \in {"fin", "reset"}, ClientEnds(how) PROVE EdgePending'
  BY <1>3 DEF ClientEnds, EdgePending
<1>4. CASE Poll
  BY <1>4 DEF Poll, EdgePending, cvars
<1>5. CASE ReadSome
  BY <1>5 DEF ReadSome, ReadAgain, EdgePending, cvars
<1>6. CASE ReadWouldBlock \/ ReadEnds
  BY <1>6 DEF ReadWouldBlock, ReadEnds, Closed, EdgePending, cvars
<1>7. CASE OnMessage \/ WriteDone \/ WriteWouldBlock \/ WriteFails
  BY <1>7 DEF OnMessage, WriteDone, WriteWouldBlock, WriteFails, EdgePending, cvars
<1>8. CASE UNCHANGED vars
  BY <1>8 DEF EdgePending, vars
<1>9. QED
  BY <1>1, <1>2, <1>3, <1>4, <1>5, <1>6, <1>7, <1>8 DEF Next, ServerStep

(* NoStrandedInput: the read loop may stop at EAGAIN although the channel  *)
(* is edge-triggered, because what arrives later is a new event.           *)
THEOREM InputNotStranded == Spec => []NoStrandedInput
<1>1. Init => EdgePending
  BY DEF Init, EdgePending
<1>2. TypeOK /\ EdgePending /\ [Next]_vars => EdgePending'
  BY NextEdgePending
<1>3. EdgePending => NoStrandedInput
  BY DEF EdgePending, NoStrandedInput
<1>4. QED
  BY <1>1, <1>2, <1>3, ConnectionTypeCorrect, PTL DEF Spec

-----------------------------------------------------------------------------
(* Where the bytes are.                                                    *)

(* Types of the echo; between two calls of Write and Read nothing is in    *)
(* hand.                                                                   *)
LEMMA BackFacts ==
  ASSUME TypeOK
  PROVE  /\ InHand \in Seq(Nat) /\ got \o tx \in Seq(Nat) /\ Back \in Seq(Nat)
         /\ Len(Back) \in Nat
         /\ InHand = <<>> => Back = got \o tx
<1>1. InHand \in Seq(Nat)
  BY BufferTypes DEF InHand
<1>2. got \o tx \in Seq(Nat)
  BY BufferTypes, ConcatProperties
<1>3. Back \in Seq(Nat)
  BY <1>1, <1>2, ConcatProperties DEF Back
<1>4. QED
  BY <1>1, <1>2, <1>3, LenProperties, ConcatEmptySeq DEF Back

(* A step that drops what is in hand leaves the beginning of the echo.     *)
LEMMA BackDropped ==
  ASSUME TypeOK, TypeOK', UNCHANGED <<got, tx>>, InHand' = <<>>
  PROVE  /\ Len(Back') <= Len(Back)
         /\ \A i \in 1..Len(Back') : Back'[i] = Back[i]
<1>1. Back' = got \o tx
  <2>1. (got \o tx) \o <<>> = got \o tx
    BY BackFacts, ConcatEmptySeq
  <2>2. QED
    BY <2>1 DEF Back
<1>2. /\ Len(got \o tx) \in Nat /\ Len(InHand) \in Nat
      /\ Len(Back) = Len(got \o tx) + Len(InHand)
      /\ \A i \in 1..Len(got \o tx) : Back[i] = (got \o tx)[i]
  <2> DEFINE g == got \o tx
  <2>1. g \in Seq(Nat) /\ InHand \in Seq(Nat)
    BY BackFacts
  <2> HIDE DEF g
  <2>2. /\ Len(g \o InHand) = Len(g) + Len(InHand) /\ Len(g) \in Nat /\ Len(InHand) \in Nat
        /\ \A i \in 1..Len(g) : (g \o InHand)[i] = g[i]
    BY <2>1, ConcatProperties, LenProperties
  <2>3. QED
    BY <2>2 DEF g, Back
<1>3. QED
  BY <1>1, <1>2

(* What a step does to the bytes: nothing, the client sends some more, the *)
(* server reads a chunk, or it drops what it has in hand.                  *)
LEMMA BackStep ==
  ASSUME TypeOK, TypeOK', EdgePending, [Next]_vars
  PROVE  /\ payload' = payload
         /\ \/ UNCHANGED <<nsent, rx, lost>> /\ Back' = Back
            \/ /\ UNCHANGED lost /\ Back' = Back
               /\ \E n \in Sizes : ClientSend(n)
            \/ /\ ReadSome
               /\ Back' = Back \o UpToNul(SubSeq(rx, 1, Least(Chunk, Len(rx))))
            \/ /\ UNCHANGED <<nsent, rx>> /\ lost' # {}
               /\ Len(Back') <= Len(Back)
               /\ \A i \in 1..Len(Back') : Back'[i] = Back[i]
<1> DEFINE G == /\ payload' = payload
                /\ \/ UNCHANGED <<nsent, rx, lost>> /\ Back' = Back
                   \/ /\ UNCHANGED lost /\ Back' = Back
                      /\ \E n \in Sizes : ClientSend(n)
                   \/ /\ ReadSome
                      /\ Back' = Back \o UpToNul(SubSeq(rx, 1, Least(Chunk, Len(rx))))
                   \/ /\ UNCHANGED <<nsent, rx>> /\ lost' # {}
                      /\ Len(Back') <= Len(Back)
                      /\ \A i \in 1..Len(Back') : Back'[i] = Back[i]
<1>1. ASSUME NEW n \in Sizes, ClientSend(n) PROVE G
  BY <1>1 DEF ClientSend, Back, InHand
<1>2. ASSUME NEW how \in {"fin", "reset"}, ClientEnds(how) PROVE G
  BY <1>2 DEF ClientEnds, Back, InHand
<1>3. ASSUME NEW n \in Sizes, ClientRead(n) PROVE G
  <2>1. /\ got' = got \o SubSeq(tx, 1, n) /\ tx' = SubSeq(tx, n + 1, Len(tx))
        /\ n \in 0..Len(tx) /\ UNCHANGED <<payload, nsent, rx, lost>> /\ InHand' = InHand
    BY <1>3, BufferTypes DEF ClientRead, cvars, InHand, Sizes
  <2>2. got' \o tx' = got \o tx
    <3>1. (got \o SubSeq(tx, 1, n)) \o SubSeq(tx, n + 1, Len(tx)) = got \o tx
      <4>1. got \in Seq(Nat) /\ tx \in Seq(Nat) /\ n \in 0..Len(tx)
        BY <2>1, BufferTypes
      <4>2. QED
        BY <4>1, MovePrefix
    <3>2. QED
      BY <2>1, <3>1
  <2>3. Back' = Back
    BY <2>1, <2>2 DEF Back
  <2>4. QED
    BY <2>1, <2>3
<1>4. CASE Poll
  <2>1. InHand = <<>> /\ InHand' = <<>> /\ UNCHANGED <<payload, nsent, rx, lost, got, tx>>
    BY <1>4 DEF Poll, ClearBuffer, InHand, TypeOK, cvars
  <2>2. QED
    BY <2>1 DEF Back
<1>5. CASE ReadSome
  <2> DEFINE c == UpToNul(SubSeq(rx, 1, Least(Chunk, Len(rx))))
  <2>1. /\ InHand = read_buffer /\ InHand' = read_buffer \o c
        /\ UNCHANGED <<payload, got, tx>>
    BY <1>5 DEF ReadSome, ReadAgain, InHand, EdgePending, cvars
  <2>2. c \in Seq(Nat)
    <3>1. Least(Chunk, Len(rx)) \in 0..Len(rx)
      BY <1>5, ChunkFacts, BufferTypes DEF ReadSome
    <3>2. SubSeq(rx, 1, Least(Chunk, Len(rx))) \in Seq(Nat)
      BY <3>1, BufferTypes, Prefix
    <3>3. QED
      BY <3>2, UpToNulFacts, Prefix
  <2> HIDE DEF c
  <2>3. Back' = Back \o c
    <3>1. PICK g \in Seq(Nat) : g = got \o tx
      BY BackFacts
    <3>2. PICK d \in Seq(Nat) : d = c
      BY <2>2
    <3>3. g \o (read_buffer \o d) = (g \o read_buffer) \o d
      <4>1. g \in Seq(Nat) /\ read_buffer \in Seq(Nat) /\ d \in Seq(Nat)
        BY <3>1, <3>2, BufferTypes
      <4>2. QED
        BY SMTT(60), <4>1, Regroup
    <3>4. QED
      BY <2>1, <3>1, <3>2, <3>3 DEF Back
  <2>4. QED
    BY <1>5, <2>1, <2>3 DEF c
<1>6. CASE ReadWouldBlock
  BY <1>6 DEF ReadWouldBlock, Back, InHand, cvars
<1>7. CASE ReadEnds
  <2>1. /\ InHand = read_buffer /\ InHand' = <<>> /\ UNCHANGED <<payload, nsent, rx, got, tx>>
        /\ lost' = IF read_buffer = <<>> THEN lost ELSE lost \cup {"closed"}
    BY <1>7 DEF ReadEnds, Closed, InHand, EdgePending, TypeOK, cvars
  <2>2. CASE read_buffer = <<>>
    BY <2>1, <2>2 DEF Back
  <2>3. CASE read_buffer # <<>>
    BY <2>1, <2>3, BackDropped
  <2>4. QED
    BY <2>2, <2>3
<1>8. CASE OnMessage
  <2>1. InHand' = InHand /\ UNCHANGED <<payload, nsent, rx, lost, got, tx>>
    BY <1>8 DEF OnMessage, InHand, TypeOK, cvars
  <2>2. QED
    BY <2>1 DEF Back
<1>9. ASSUME NEW n \in Sizes, WriteSome(n) PROVE G
  <2>1. /\ tx' = tx \o SubSeq(write_buffer, 1, n)
        /\ InHand = write_buffer /\ InHand' = SubSeq(write_buffer, n + 1, Len(write_buffer))
        /\ n \in 0..Len(write_buffer) /\ UNCHANGED <<payload, nsent, rx, lost, got>>
    <3>1. n \in 0..Len(write_buffer)
      BY <1>9, BufferTypes DEF WriteSome, Sizes
    <3>2. QED
      BY <1>9, <3>1 DEF WriteSome, BytesLeft, cvars, InHand
  <2>2. Back' = Back
    <3>1. PICK g \in Seq(Nat) : g = got \o tx
      BY BackFacts
    <3>2. PICK p \in Seq(Nat) : p = SubSeq(write_buffer, 1, n)
      BY <2>1, BufferTypes, Prefix
    <3>3. (g \o SubSeq(write_buffer, 1, n)) \o SubSeq(write_buffer, n + 1, Len(write_buffer))
            = g \o write_buffer
      <4>1. g \in Seq(Nat) /\ write_buffer \in Seq(Nat) /\ n \in 0..Len(write_buffer)
        BY <2>1, <3>1, BufferTypes
      <4>2. QED
        BY <4>1, MovePrefix
    <3>4. got \o (tx \o p) = (got \o tx) \o p
      <4>1. \A a, b, c \in Seq(Nat) : a \o (b \o c) = (a \o b) \o c
        BY SMTT(60), Regroup
      <4>2. got \in Seq(Nat) /\ tx \in Seq(Nat) /\ p \in Seq(Nat)
        BY <3>2, BufferTypes
      <4>3. QED
        BY ZenonT(60), <4>1, <4>2
    <3>5. QED
      BY <2>1, <3>1, <3>2, <3>3, <3>4 DEF Back
  <2>3. QED
    BY <2>1, <2>2
<1>10. CASE WriteDone
  BY <1>10 DEF WriteDone, Back, InHand, cvars
<1>11. CASE WriteWouldBlock \/ WriteFails
  <2>1. InHand' = <<>> /\ UNCHANGED <<payload, nsent, rx, got, tx>> /\ lost' # {}
    BY <1>11 DEF WriteWouldBlock, WriteFails, ClearBuffer, InHand, cvars
  <2>2. QED
    BY <2>1, BackDropped
<1>12. CASE UNCHANGED vars
  BY <1>12 DEF vars, Back, InHand
<1>13. QED
  BY <1>1, <1>2, <1>3, <1>4, <1>5, <1>6, <1>7, <1>8, <1>9, <1>10, <1>11, <1>12
     DEF Next, ServerStep

(* How much was read is a number within the payload.                       *)
LEMMA NReadFacts ==
  ASSUME TypeOK, UnreadInOrder
  PROVE  /\ NRead \in Nat /\ NRead <= nsent /\ NRead + Len(rx) = nsent
         /\ NRead \in 0..Len(payload) /\ nsent \in NRead..Len(payload)
BY BufferTypes DEF UnreadInOrder, NRead

(* Sending makes the kernel's stretch longer at its end.                   *)
LEMMA SendExtends ==
  ASSUME TypeOK, UnreadInOrder, NEW n \in Sizes, ClientSend(n)
  PROVE  UnreadInOrder' /\ NRead' = NRead
<1> USE ConnectionAssumption
<1>1. /\ payload' = payload /\ nsent' = nsent + n /\ n \in Nat
      /\ rx' = rx \o SubSeq(payload, nsent + 1, nsent + n)
      /\ nsent + n \in nsent..Len(payload)
  BY SMTT(60), BufferTypes DEF ClientSend, Sizes
<1>2. SubSeq(payload, NRead + 1, nsent) \o SubSeq(payload, nsent + 1, nsent + n)
        = SubSeq(payload, NRead + 1, nsent + n)
  BY <1>1, NReadFacts, BufferTypes, SliceConcat
<1>3. rx' = SubSeq(payload, NRead + 1, nsent + n)
  BY <1>1, <1>2 DEF UnreadInOrder
<1>4. Len(rx') = (nsent + n) - NRead
  <2>1. NRead \in 0..Len(payload) /\ nsent + n \in NRead..Len(payload)
    BY <1>1, NReadFacts, BufferTypes
  <2>2. QED
    BY <1>3, <2>1, BufferTypes, Slice
<1>5. Len(rx') <= nsent' /\ nsent' - Len(rx') = NRead
  <2>1. NRead \in Nat /\ nsent \in Nat
    BY NReadFacts, BufferTypes
  <2>2. QED
    BY <1>1, <1>4, <2>1
<1>6. NRead' = NRead
  BY <1>5 DEF NRead
<1>7. QED
  BY <1>1, <1>3, <1>5, <1>6 DEF UnreadInOrder

(* One read() takes the next bytes of the payload; what Append keeps of    *)
(* them is their beginning, without a NUL, and all of them unless a loss   *)
(* is recorded.                                                            *)
LEMMA ReadTakesNext ==
  ASSUME TypeOK, UnreadInOrder, ReadSome
  PROVE  \E n \in 1..Len(rx), u \in 0..Len(rx), c \in Seq(Nat) :
            /\ UnreadInOrder' /\ NRead' = NRead + n
            /\ c = UpToNul(SubSeq(rx, 1, Least(Chunk, Len(rx))))
            /\ Len(c) = u /\ u <= n
            /\ \A i \in 1..u : c[i] # NUL /\ c[i] = payload[NRead + i]
            /\ lost' = {} => lost = {} /\ c = SubSeq(payload, NRead + 1, NRead + n)
<1> DEFINE m == Least(Chunk, Len(rx))
<1>1. /\ payload' = payload /\ nsent' = nsent
      /\ rx' = SubSeq(rx, m + 1, Len(rx))
      /\ lost' = IF UpToNul(SubSeq(rx, 1, m)) = SubSeq(rx, 1, m) THEN lost ELSE lost \cup {"nul"}
      /\ rx # <<>>
  BY DEF ReadSome, cvars
<1>2. PICK n \in 1..Len(rx) : n = m
  BY <1>1, BufferTypes, ChunkFacts
<1> DEFINE chunk == SubSeq(rx, 1, n)
           c == UpToNul(chunk)
<1>3. n \in Nat /\ n <= Len(rx) /\ n \in 0..Len(rx) /\ Len(rx) \in n..Len(rx)
  BY <1>2, BufferTypes
<1>a. /\ NRead \in Nat /\ nsent \in Nat /\ Len(rx) \in Nat /\ Len(payload) \in Nat
      /\ NRead + Len(rx) = nsent /\ nsent <= Len(payload)
  BY NReadFacts, BufferTypes
<1>4. chunk \in Seq(Nat) /\ Len(chunk) = n /\ \A i \in 1..n : chunk[i] = rx[i]
  BY <1>3, BufferTypes, Prefix
<1>5. \A i \in 1..n : chunk[i] = payload[NRead + i]
  <2>1. \A i \in 1..(nsent - NRead) : SubSeq(payload, NRead + 1, nsent)[i] = payload[NRead + i]
    BY NReadFacts, BufferTypes, Slice
  <2>2. \A i \in 1..n : i \in 1..(nsent - NRead)
    BY <1>3, NReadFacts, BufferTypes
  <2>3. QED
    BY <1>4, <2>1, <2>2 DEF UnreadInOrder
<1>6. rx' = SubSeq(payload, (NRead + n) + 1, nsent) /\ Len(rx') = Len(rx) - n
  <2>1. n \in 0..(nsent - NRead) /\ Len(rx) \in n..(nsent - NRead)
    BY SMTT(60), <1>3, NReadFacts, BufferTypes
  <2>2. SubSeq(SubSeq(payload, NRead + 1, nsent), n + 1, Len(rx))
          = SubSeq(payload, (NRead + n) + 1, NRead + Len(rx))
    <3>1. payload \in Seq(Nat) /\ NRead \in 0..Len(payload) /\ nsent \in NRead..Len(payload)
      BY NReadFacts, BufferTypes
    <3>2. QED
      BY <2>1, <3>1, SliceOfSlice
  <2>3. Len(SubSeq(rx, n + 1, Len(rx))) = Len(rx) - n
    BY <1>3, BufferTypes, Slice
  <2>4. rx' = SubSeq(rx, n + 1, Len(rx)) /\ rx = SubSeq(payload, NRead + 1, nsent)
    BY <1>1, <1>2 DEF UnreadInOrder
  <2>5. QED
    BY <2>2, <2>3, <2>4, NReadFacts
<1>7. UnreadInOrder' /\ NRead' = NRead + n
  <2>1. nsent' - Len(rx') = NRead + n /\ Len(rx') <= nsent'
    <3>1. nsent' = nsent /\ Len(rx') = Len(rx) - n
      BY <1>1, <1>6
    <3>2. QED
      BY <1>3, <1>a, <3>1
  <2>2. NRead' = NRead + n
    BY <2>1 DEF NRead
  <2>3. QED
    BY <1>1, <1>6, <2>1, <2>2 DEF UnreadInOrder
<1> HIDE DEF chunk
<1>8. PICK u \in 0..Len(chunk) : c = SubSeq(chunk, 1, u) /\ \A i \in 1..u : chunk[i] # NUL
  BY <1>4, UpToNulFacts
<1>9. /\ c \in Seq(Nat) /\ Len(c) = u /\ u \in Nat /\ u <= n /\ u \in 0..Len(rx)
      /\ \A i \in 1..u : i \in 1..n /\ c[i] = chunk[i]
  BY <1>3, <1>4, <1>8, Prefix
<1> HIDE DEF c
<1>10. \A i \in 1..u : c[i] # NUL /\ c[i] = payload[NRead + i]
  BY <1>5, <1>8, <1>9
<1>11. chunk = SubSeq(payload, NRead + 1, NRead + n)
  <2>1. NRead + n \in NRead..Len(payload)
    BY <1>3, <1>a
  <2>2. PICK d \in Seq(Nat) : d = SubSeq(payload, NRead + 1, NRead + n)
    BY <2>1, NReadFacts, BufferTypes, Slice
  <2>3. Len(d) = (NRead + n) - NRead /\ \A i \in 1..((NRead + n) - NRead) : d[i] = payload[NRead + i]
    BY ZenonT(60), <2>1, <2>2, NReadFacts, BufferTypes, Slice
  <2>4. (NRead + n) - NRead = n
    BY <1>3, NReadFacts
  <2>5. d \in Seq(Nat)
    BY <2>2
  <2>6. d = chunk
    BY <1>4, <1>5, <2>3, <2>4, <2>5, SeqEqual
  <2>7. QED
    BY <2>2, <2>6
<1>12. lost' = {} => lost = {} /\ c = SubSeq(payload, NRead + 1, NRead + n)
  BY <1>1, <1>2, <1>11 DEF c, chunk
<1>13. c = UpToNul(SubSeq(rx, 1, Least(Chunk, Len(rx))))
  BY <1>2 DEF c, chunk
<1>14. QED
  BY <1>2, <1>7, <1>9, <1>10, <1>12, <1>13

(* Every step keeps the bytes where ConnectionInv says they are.           *)
LEMMA NextConnectionInv ==
  ASSUME ConnectionInv, [Next]_vars
  PROVE  ConnectionInv'
<1>1. /\ TypeOK /\ TypeOK' /\ EdgePending /\ EdgePending'
      /\ UnreadInOrder /\ BackWasRead /\ BackInOrder /\ BackComplete
  BY NextTypeOK, NextEdgePending DEF ConnectionInv
<1>t. /\ Len(Back) \in Nat /\ Len(Back') \in Nat /\ NRead \in Nat
      /\ Back \in Seq(Nat) /\ payload \in Seq(Nat)
  <2>1. Back' \in Seq(Nat)
    <3>1. (InHand \in Seq(Nat))' /\ (got \o tx \in Seq(Nat))'
      <4>1. (got \in Seq(Nat) /\ tx \in Seq(Nat) /\ read_buffer \in Seq(Nat) /\ write_buffer \in Seq(Nat))'
        BY <1>1 DEF TypeOK
      <4>2. QED
        BY <4>1, ConcatProperties DEF InHand
    <3>2. QED
      BY <3>1, ConcatProperties DEF Back
  <2>2. QED
    BY <1>1, <2>1, BackFacts, BufferTypes, NReadFacts, LenProperties
<1>2. CASE UNCHANGED <<payload, nsent, rx, lost>> /\ Back' = Back
  <2>1. NRead' = NRead
    BY <1>2 DEF NRead
  <2>2. QED
    BY <1>1, <1>2, <2>1 DEF ConnectionInv, UnreadInOrder, BackWasRead, BackInOrder, BackComplete
<1>3. ASSUME UNCHANGED <<payload, lost>>, Back' = Back, NEW n \in Sizes, ClientSend(n)
      PROVE  ConnectionInv'
  <2>1. UnreadInOrder' /\ NRead' = NRead
    BY <1>1, <1>3, SendExtends
  <2>2. QED
    BY <1>1, <1>3, <2>1 DEF ConnectionInv, BackWasRead, BackInOrder, BackComplete
<1>4. ASSUME UNCHANGED <<payload, nsent, rx>>, lost' # {}, Len(Back') <= Len(Back),
             \A i \in 1..Len(Back') : Back'[i] = Back[i]
      PROVE  ConnectionInv'
  <2>1. NRead' = NRead
    BY <1>4 DEF NRead
  <2>2. \A i \in 1..Len(Back') : i \in 1..Len(Back)
    BY <1>t, <1>4
  <2>3. BackWasRead'
    BY <1>1, <1>4, <2>1, <2>2 DEF BackWasRead
  <2>4. BackInOrder'
    BY <1>1, <1>4, <2>2 DEF BackInOrder
  <2>5. UnreadInOrder' /\ BackComplete'
    BY <1>1, <1>4, <2>1 DEF UnreadInOrder, BackComplete
  <2>6. QED
    BY <1>1, <2>3, <2>4, <2>5 DEF ConnectionInv
<1>5. ASSUME payload' = payload, ReadSome,
             Back' = Back \o UpToNul(SubSeq(rx, 1, Least(Chunk, Len(rx))))
      PROVE  ConnectionInv'
  <2>1. PICK n \in 1..Len(rx), u \in 0..Len(rx), c \in Seq(Nat) :
            /\ UnreadInOrder' /\ NRead' = NRead + n
            /\ c = UpToNul(SubSeq(rx, 1, Least(Chunk, Len(rx))))
            /\ Len(c) = u /\ u <= n
            /\ \A i \in 1..u : c[i] # NUL /\ c[i] = payload[NRead + i]
            /\ lost' = {} => lost = {} /\ c = SubSeq(payload, NRead + 1, NRead + n)
    BY <1>1, <1>5, ReadTakesNext
  <2>2. n \in Nat /\ u \in Nat /\ u <= n /\ c \in Seq(Nat) /\ Len(c) = u /\ n <= Len(rx)
    BY <1>1, <2>1, BufferTypes
  <2>3. /\ Len(Back') = Len(Back) + u
        /\ \A i \in 1..(Len(Back) + u) :
              Back'[i] = IF i <= Len(Back) THEN Back[i] ELSE c[i - Len(Back)]
    <3>1. Back' = Back \o c
      BY <1>5, <2>1
    <3>2. QED
      BY <1>t, <2>2, <3>1, ConcatProperties
  <2>4. ASSUME NEW i \in 1..Len(Back')
        PROVE  /\ Back'[i] # NUL
               /\ \/ /\ i <= Len(Back) /\ Back'[i] = Back[i]
                     /\ \E k \in 1..NRead : payload[k] = Back'[i]
                  \/ /\ i > Len(Back) /\ NRead + (i - Len(Back)) \in (NRead + 1)..(NRead + n)
                     /\ Back'[i] = payload[NRead + (i - Len(Back))]
    <3>1. CASE i <= Len(Back)
      <4>1. i \in 1..Len(Back) /\ i \in 1..(Len(Back) + u)
        BY <1>t, <2>2, <3>1
      <4>2. Back'[i] = Back[i]
        BY <2>3, <3>1, <4>1
      <4>3. QED
        BY <1>1, <3>1, <4>1, <4>2 DEF BackWasRead
    <3>2. CASE ~(i <= Len(Back))
      <4>1. /\ i - Len(Back) \in 1..u /\ i \in 1..(Len(Back) + u) /\ i > Len(Back)
            /\ NRead + (i - Len(Back)) \in (NRead + 1)..(NRead + n)
        BY <1>t, <2>2, <2>3, <3>2
      <4>2. Back'[i] = c[i - Len(Back)]
        BY <2>3, <3>2, <4>1
      <4>3. QED
        BY <2>1, <4>1, <4>2
    <3>3. QED
      BY <3>1, <3>2
  <2>5. BackWasRead'
    <3>1. ASSUME NEW i \in 1..Len(Back')
          PROVE  Back'[i] # NUL /\ \E k \in 1..(NRead + n) : payload[k] = Back'[i]
      <4>1. \A k \in 1..NRead : k \in 1..(NRead + n)
        BY <1>t, <2>2
      <4>2. \A k \in (NRead + 1)..(NRead + n) : k \in 1..(NRead + n)
        BY <1>t, <2>2
      <4>3. QED
        BY <2>4, <4>1, <4>2
    <3>2. QED
      BY <1>5, <2>1, <3>1 DEF BackWasRead
  <2>6. BackInOrder'
    <3>1. ASSUME NEW i \in 1..Len(Back'), NEW j \in 1..Len(Back'), i < j
          PROVE  Back'[i] < Back'[j]
      <4>1. \A k, l \in 1..Len(payload) :
               (k < l /\ payload[k] # NUL /\ payload[l] # NUL) => payload[k] < payload[l]
        BY <1>1, ConnectionAssumption DEF TypeOK
      <4>2. \A k \in 1..(NRead + n) : k \in 1..Len(payload)
        <5>1. /\ NRead + Len(rx) = nsent /\ nsent <= Len(payload) /\ nsent \in Nat
              /\ Len(payload) \in Nat /\ Len(rx) \in Nat
          BY <1>1, NReadFacts, BufferTypes
        <5>2. QED
          BY <1>t, <2>2, <5>1
      <4>3. CASE j <= Len(Back)
        <5>1. i \in 1..Len(Back) /\ j \in 1..Len(Back) /\ i <= Len(Back)
          BY <1>t, <3>1, <4>3
        <5>2. Back'[i] = Back[i] /\ Back'[j] = Back[j]
          BY <1>t, <2>4, <4>3, <5>1
        <5>3. QED
          BY <1>1, <3>1, <5>1, <5>2 DEF BackInOrder
      <4>4. CASE j > Len(Back)
        <5>1. PICK l \in Nat : /\ l = NRead + (j - Len(Back)) /\ l \in (NRead + 1)..(NRead + n)
                                /\ Back'[j] = payload[l] /\ Back'[j] # NUL
          <6>1. ~(j <= Len(Back)) /\ NRead + (j - Len(Back)) \in Nat
            BY <1>t, <4>4
          <6>2. /\ NRead + (j - Len(Back)) \in (NRead + 1)..(NRead + n)
                /\ Back'[j] = payload[NRead + (j - Len(Back))] /\ Back'[j] # NUL
            BY <2>4, <6>1
          <6>3. QED
            BY <6>1, <6>2
        <5>2. PICK k \in Nat : /\ k \in 1..(NRead + n) /\ k < l
                                /\ Back'[i] = payload[k] /\ Back'[i] # NUL
          <6>1. CASE i <= Len(Back)
            <7>1. ~(i > Len(Back))
              BY <1>t, <6>1
            <7>2. PICK k \in 1..NRead : payload[k] = Back'[i] /\ Back'[i] # NUL
              BY <2>4, <7>1
            <7>3. k \in Nat /\ k \in 1..(NRead + n) /\ k < l
              <8>1. k \in 1..NRead /\ l \in (NRead + 1)..(NRead + n)
                BY <5>1, <7>2
              <8>2. QED
                BY <1>t, <2>2, <8>1
            <7>4. QED
              BY <7>2, <7>3
          <6>2. CASE i > Len(Back)
            <7>1. ~(i <= Len(Back)) /\ NRead + (i - Len(Back)) \in Nat
              BY <1>t, <6>2
            <7>2. /\ NRead + (i - Len(Back)) \in (NRead + 1)..(NRead + n)
                  /\ Back'[i] = payload[NRead + (i - Len(Back))] /\ Back'[i] # NUL
              BY <2>4, <7>1
            <7>3. NRead + (i - Len(Back)) \in 1..(NRead + n) /\ NRead + (i - Len(Back)) < l
              <8>1. l = NRead + (j - Len(Back)) /\ i < j /\ i \in Nat /\ j \in Nat
                BY <1>t, <3>1, <5>1
              <8>2. NRead + (i - Len(Back)) < l
                BY <1>t, <8>1
              <8>3. \A m \in (NRead + 1)..(NRead + n) : m \in 1..(NRead + n)
                BY <1>t, <2>2
              <8>4. QED
                BY <7>2, <8>2, <8>3
            <7>4. QED
              BY <7>1, <7>2, <7>3
          <6>3. QED
            BY <1>t, <6>1, <6>2
        <5>3. k \in 1..Len(payload) /\ l \in 1..Len(payload)
          <6>1. \A m \in (NRead + 1)..(NRead + n) : m \in 1..(NRead + n)
            BY <1>t, <2>2
          <6>2. QED
            BY <4>2, <5>1, <5>2, <6>1
        <5>4. QED
          BY <4>1, <5>1, <5>2, <5>3
      <4>5. QED
        BY <1>t, <4>3, <4>4
    <3>2. QED
      BY <3>1 DEF BackInOrder
  <2>7. BackComplete'
    <3>1. ASSUME lost' = {} PROVE Back' = SubSeq(payload, 1, NRead + n)
      <4>1. c = SubSeq(payload, NRead + 1, NRead + n) /\ Back = SubSeq(payload, 1, NRead)
        BY <1>1, <2>1, <3>1 DEF BackComplete
      <4>2. /\ NRead \in 0..Len(payload) /\ NRead + n \in NRead..Len(payload)
            /\ 0 \in 0..Len(payload) /\ 0 + 1 = 1
        <5>1. /\ NRead + Len(rx) = nsent /\ nsent <= Len(payload) /\ nsent \in Nat
              /\ Len(payload) \in Nat /\ Len(rx) \in Nat
          BY <1>1, NReadFacts, BufferTypes
        <5>2. QED
          BY <1>t, <2>2, <5>1
      <4>3. SubSeq(payload, 0 + 1, NRead) \o SubSeq(payload, NRead + 1, NRead + n)
              = SubSeq(payload, 0 + 1, NRead + n)
        BY <1>t, <4>2, SliceConcat
      <4>4. QED
        BY <1>5, <2>1, <4>1, <4>2, <4>3
    <3>2. QED
      BY <1>5, <2>1, <3>1 DEF BackComplete
  <2>8. QED
    BY <1>1, <2>1, <2>5, <2>6, <2>7 DEF ConnectionInv
<1>6. QED
  BY <1>1, <1>2, <1>3, <1>4, <1>5, BackStep

(* Before anything is sent nothing is anywhere.                            *)
LEMMA InitConnectionInv == Init => ConnectionInv
<1> SUFFICES ASSUME Init PROVE ConnectionInv
  OBVIOUS
<1>1. TypeOK /\ EdgePending
  BY InitTypeOK DEF Init, EdgePending
<1>2. Back = <<>> /\ Len(<<>>) = 0 /\ rx = <<>> /\ nsent = 0
  <2>1. <<>> \o <<>> \o <<>> = <<>>
    BY EmptySeq, ConcatEmptySeq
  <2>2. QED
    BY <2>1, EmptySeq DEF Init, Back, InHand
<1>3. NRead = 0
  <2>1. Len(rx) = 0 /\ nsent = 0
    BY <1>2
  <2>2. QED
    BY <2>1 DEF NRead
<1>4. SubSeq(payload, 0 + 1, 0) = <<>> /\ SubSeq(payload, 1, 0) = <<>>
  BY SubSeqEmpty
<1>5. UnreadInOrder
  BY <1>2, <1>3, <1>4 DEF UnreadInOrder
<1>6. BackWasRead /\ BackInOrder
  <2>1. \A i \in 1..Len(Back) : FALSE
    BY <1>2
  <2>2. QED
    BY <2>1 DEF BackWasRead, BackInOrder
<1>7. BackComplete
  BY <1>2, <1>3, <1>4 DEF BackComplete
<1>8. QED
  BY <1>1, <1>5, <1>6, <1>7 DEF ConnectionInv

(* ConnectionInv holds in every reachable state.                           *)
THEOREM ConnectionInvariant == Spec => []ConnectionInv
<1>1. ConnectionInv /\ [Next]_vars => ConnectionInv'
  BY NextConnectionInv
<1>2. QED
  BY InitConnectionInv, <1>1, PTL DEF Spec

(* EchoAccounted: whatever the sizes of reads and writes, a byte that was  *)
(* sent is in one place, in order, unless a loss has been recorded.        *)
THEOREM EchoIsAccounted == Spec => []EchoAccounted
<1>1. ConnectionInv => EchoAccounted
  <2> SUFFICES ASSUME ConnectionInv, lost = {} PROVE Back \o rx = Sent
    BY DEF EchoAccounted, Back
  <2>1. Back = SubSeq(payload, 1, NRead) /\ rx = SubSeq(payload, NRead + 1, nsent)
    BY DEF ConnectionInv, BackComplete, UnreadInOrder
  <2>2. /\ payload \in Seq(Nat) /\ NRead \in 0..Len(payload) /\ nsent \in NRead..Len(payload)
        /\ 0 \in 0..Len(payload) /\ 0 + 1 = 1
    BY NReadFacts, BufferTypes DEF ConnectionInv
  <2>3. SubSeq(payload, 0 + 1, NRead) \o SubSeq(payload, NRead + 1, nsent)
          = SubSeq(payload, 0 + 1, nsent)
    BY <2>2, SliceConcat
  <2>4. QED
    BY <2>1, <2>2, <2>3 DEF Sent
<1>2. QED
  BY <1>1, ConnectionInvariant, PTL

(* EchoInOrder: even when bytes are dropped, the echo repeats no byte,     *)
(* swaps none and holds no NUL.                                            *)
THEOREM EchoKeepsOrder == Spec => []EchoInOrder
<1>1. ConnectionInv => EchoInOrder
  BY DEF ConnectionInv, BackInOrder, BackWasRead, Back, EchoInOrder
<1>2. QED
  BY <1>1, ConnectionInvariant, PTL

-----------------------------------------------------------------------------
(* How much there is of the echo.                                          *)

(* What the client has back, what is under way to it, what the server has  *)
(* in hand and what it has not read is no more than was sent.              *)
NoMoreThanSent == Len(got) + Len(tx) + Len(InHand) + Len(rx) <= nsent

(* The bytes in hand are those of the buffer in use.                       *)
LEMMA InHandIs ==
  /\ pc \in {"read", "callback"} /\ state = "Connected" => InHand = read_buffer
  /\ ~(pc \in {"read", "callback"} /\ state = "Connected") => InHand = write_buffer
  /\ InHand = read_buffer \/ InHand = write_buffer
BY DEF InHand

(* Every step preserves it: bytes are moved or dropped, never made.        *)
LEMMA NextNoMoreThanSent ==
  ASSUME TypeOK, NoMoreThanSent, [Next]_vars
  PROVE  NoMoreThanSent'
<1>t. /\ payload \in Seq(Nat) /\ rx \in Seq(Nat) /\ tx \in Seq(Nat) /\ got \in Seq(Nat)
      /\ read_buffer \in Seq(Nat) /\ write_buffer \in Seq(Nat)
      /\ Len(payload) \in Nat /\ Len(rx) \in Nat /\ Len(tx) \in Nat
      /\ Len(read_buffer) \in Nat /\ Len(write_buffer) \in Nat /\ Len(got) \in Nat
      /\ nsent \in Nat /\ nsent <= Len(payload) /\ Len(<<>>) = 0
  BY BufferTypes, EmptySeq
<1>h. /\ pc \in {"read", "callback"} /\ state = "Connected" => InHand = read_buffer
      /\ ~(pc \in {"read", "callback"} /\ state = "Connected") => InHand = write_buffer
      /\ Len(InHand) \in Nat
  BY <1>t, InHandIs
<1>p. /\ pc' \in {"read", "callback"} /\ state' = "Connected" => InHand' = read_buffer'
      /\ ~(pc' \in {"read", "callback"} /\ state' = "Connected") => InHand' = write_buffer'
  BY DEF InHand
<1>e. pc # "write" => write_buffer = <<>>
  BY DEF TypeOK
<1>s. Len(got) + Len(tx) + Len(InHand) + Len(rx) <= nsent
  BY DEF NoMoreThanSent
<1>0. CASE /\ UNCHANGED <<nsent, rx, tx, got>>
           /\ InHand' = InHand \/ InHand' = <<>>
  BY <1>t, <1>h, <1>s, <1>0 DEF NoMoreThanSent
<1>1. ASSUME NEW n \in Sizes, ClientSend(n) PROVE NoMoreThanSent'
  <2>1. n \in Nat /\ nsent \in 0..Len(payload) /\ nsent + n \in nsent..Len(payload)
    BY <1>t, <1>1, ConnectionAssumption DEF ClientSend, Sizes
  <2>2. /\ SubSeq(payload, nsent + 1, nsent + n) \in Seq(Nat)
        /\ Len(SubSeq(payload, nsent + 1, nsent + n)) = (nsent + n) - nsent
    BY SMTT(60), <1>t, <2>1, Slice
  <2>3. Len(rx') = Len(rx) + n
    <3>1. PICK d \in Seq(Nat) : d = SubSeq(payload, nsent + 1, nsent + n) /\ Len(d) = (nsent + n) - nsent
      BY <2>2
    <3>2. rx \in Seq(Nat) /\ d \in Seq(Nat)
      BY <1>t, <3>1
    <3>3. Len(rx \o d) = Len(rx) + Len(d)
      BY <3>2, ConcatProperties
    <3>4. rx' = rx \o d
      BY <1>1, <3>1 DEF ClientSend
    <3>5. nsent \in Nat
      BY <1>t
    <3>6. (nsent + n) - nsent = n
      BY <2>1, <3>5
    <3>7. Len(d) = n
      BY <3>1, <3>6
    <3>8. QED
      BY <3>3, <3>4, <3>7
  <2>4. nsent' = nsent + n /\ tx' = tx /\ got' = got /\ InHand' = InHand
    BY <1>1 DEF ClientSend, InHand
  <2>5. QED
    BY <1>t, <1>h, <1>s, <2>1, <2>3, <2>4 DEF NoMoreThanSent
<1>3. ASSUME NEW n \in Sizes, ClientRead(n) PROVE NoMoreThanSent'
  <2>1. n \in 0..Len(tx) /\ Len(tx) \in n..Len(tx) /\ n \in Nat
    BY <1>t, <1>3, ConnectionAssumption DEF ClientRead, Sizes
  <2>2. SubSeq(tx, 1, n) \in Seq(Nat) /\ Len(SubSeq(tx, 1, n)) = n
    BY <1>t, <2>1, Prefix
  <2>3. Len(tx') = Len(tx) - n
    BY <1>t, <1>3, <2>1, Slice DEF ClientRead
  <2>4. Len(got') = Len(got) + n
    BY <1>t, <1>3, <2>2, ConcatProperties DEF ClientRead
  <2>5. nsent' = nsent /\ rx' = rx /\ InHand' = InHand
    BY <1>3 DEF ClientRead, InHand, cvars
  <2>6. QED
    BY <1>t, <1>h, <1>s, <2>1, <2>3, <2>4, <2>5 DEF NoMoreThanSent
<1>5. CASE ReadSome
  <2> DEFINE n == Least(Chunk, Len(rx))
             chunk == SubSeq(rx, 1, n)
  <2>1. n \in 0..Len(rx) /\ Len(rx) \in n..Len(rx)
    BY <1>t, <1>5, ChunkFacts DEF ReadSome
  <2> HIDE DEF n
  <2>2. /\ SubSeq(rx, n + 1, Len(rx)) \in Seq(Nat) /\ chunk \in Seq(Nat)
        /\ Len(SubSeq(rx, n + 1, Len(rx))) = Len(rx) - n /\ Len(chunk) = n
    <3>1. rx \in Seq(Nat) /\ n \in 0..Len(rx) /\ Len(rx) \in n..Len(rx)
      BY <1>t, <2>1
    <3>2. /\ SubSeq(rx, n + 1, Len(rx)) \in Seq(Nat)
          /\ Len(SubSeq(rx, n + 1, Len(rx))) = Len(rx) - n
      BY SMTT(60), <3>1, Slice
    <3>3. chunk \in Seq(Nat) /\ Len(chunk) = n
      BY ZenonT(60), <3>1, Prefix
    <3>4. QED
      BY <3>2, <3>3
  <2> HIDE DEF chunk
  <2>3. UpToNul(chunk) \in Seq(Nat) /\ Len(UpToNul(chunk)) \in 0..n
    BY <2>2, UpToNulFacts, Prefix
  <2>4. Len(read_buffer \o UpToNul(chunk)) = Len(read_buffer) + Len(UpToNul(chunk))
    BY <1>t, <2>3, ConcatProperties
  <2>5. /\ rx' = SubSeq(rx, n + 1, Len(rx)) /\ read_buffer' = read_buffer \o UpToNul(chunk)
        /\ pc = "read" /\ pc' = "read"
        /\ nsent' = nsent /\ tx' = tx /\ got' = got /\ state' = state /\ write_buffer' = write_buffer
    BY <1>5 DEF ReadSome, ReadAgain, n, chunk, cvars
  <2>6. Len(InHand') \in 0..(Len(InHand) + n)
    <3>0. /\ Len(read_buffer) \in Nat /\ Len(write_buffer) \in Nat /\ n \in Nat
          /\ Len(UpToNul(chunk)) \in 0..n /\ Len(read_buffer') = Len(read_buffer) + Len(UpToNul(chunk))
      BY <1>t, <2>1, <2>3, <2>4, <2>5
    <3>1. CASE state = "Connected"
      <4>1. InHand = read_buffer /\ InHand' = read_buffer'
        BY <1>h, <1>p, <2>5, <3>1
      <4>2. QED
        BY <3>0, <4>1
    <3>2. CASE state # "Connected"
      <4>1. InHand = write_buffer /\ InHand' = write_buffer
        BY <1>h, <1>p, <2>5, <3>2
      <4>2. QED
        BY <3>0, <4>1
    <3>3. QED
      BY <3>1, <3>2
  <2>7. Len(rx') = Len(rx) - n
    BY <2>2, <2>5
  <2>8. Len(got') = Len(got) /\ Len(tx') = Len(tx) /\ nsent' = nsent
    BY <2>5
  <2>9. n \in Nat /\ n <= Len(rx)
    BY <1>t, <2>1
  <2>10. Len(got') + Len(tx') + Len(InHand') + Len(rx') <= nsent'
    BY <1>t, <1>h, <1>s, <2>6, <2>7, <2>8, <2>9
  <2>11. QED
    BY <2>10 DEF NoMoreThanSent
<1>9. ASSUME NEW n \in Sizes, WriteSome(n) PROVE NoMoreThanSent'
  <2>1. n \in 0..Len(write_buffer) /\ Len(write_buffer) \in n..Len(write_buffer) /\ n \in Nat
    BY <1>t, <1>9, ConnectionAssumption DEF WriteSome, Sizes
  <2>2. SubSeq(write_buffer, 1, n) \in Seq(Nat) /\ Len(SubSeq(write_buffer, 1, n)) = n
    BY <1>t, <2>1, Prefix
  <2>3. Len(write_buffer') = Len(write_buffer) - n
    BY <1>t, <1>9, <2>1, Slice DEF WriteSome, BytesLeft
  <2>4. Len(tx') = Len(tx) + n
    BY <1>t, <1>9, <2>2, ConcatProperties DEF WriteSome
  <2>5. nsent' = nsent /\ rx' = rx /\ got' = got /\ InHand = write_buffer /\ InHand' = write_buffer'
    BY <1>9, <1>h, <1>p DEF WriteSome, cvars
  <2>6. QED
    BY <1>t, <1>s, <2>1, <2>3, <2>4, <2>5 DEF NoMoreThanSent
<1>10. CASE Poll
  BY <1>0, <1>10, <1>h, <1>p, <1>e DEF Poll, ClearBuffer, cvars
<1>11. CASE ReadWouldBlock
  BY <1>0, <1>11, <1>h, <1>p, <1>e DEF ReadWouldBlock, cvars
<1>12. CASE ReadEnds
  BY <1>0, <1>12, <1>h, <1>p, <1>e DEF ReadEnds, Closed, cvars
<1>13. CASE OnMessage
  BY <1>0, <1>13, <1>h, <1>p, <1>e DEF OnMessage, cvars
<1>14. CASE WriteDone
  BY <1>0, <1>14, <1>h, <1>p, <1>e DEF WriteDone, cvars
<1>15. CASE WriteWouldBlock
  BY <1>0, <1>15, <1>h, <1>p, <1>e DEF WriteWouldBlock, ClearBuffer, cvars
<1>16. CASE WriteFails
  BY <1>0, <1>16, <1>h, <1>p, <1>e DEF WriteFails, ClearBuffer, cvars
<1>17. ASSUME NEW how \in {"fin", "reset"}, ClientEnds(how) PROVE NoMoreThanSent'
  BY <1>0, <1>17, <1>h, <1>p, <1>e DEF ClientEnds
<1>18. CASE UNCHANGED vars
  BY <1>0, <1>18, <1>h, <1>p, <1>e DEF vars
<1>19. QED
  BY <1>1, <1>3, <1>5, <1>9, <1>10, <1>11, <1>12, <1>13, <1>14, <1>15, <1>16, <1>17, <1>18
     DEF Next, ServerStep

(* However the bytes are cut into reads and writes, and whatever is        *)
(* dropped, no more comes back than was sent.                              *)
THEOREM EchoNeverGrows == Spec => []NoMoreThanSent
<1>1. Init => NoMoreThanSent
  BY EmptySeq DEF Init, NoMoreThanSent, InHand
<1>2. TypeOK /\ NoMoreThanSent /\ [Next]_vars => NoMoreThanSent'
  BY NextNoMoreThanSent
<1>3. QED
  BY <1>1, <1>2, ConnectionTypeCorrect, PTL DEF Spec
=============================================================================
