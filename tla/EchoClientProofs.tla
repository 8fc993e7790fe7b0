-------------------------- MODULE EchoClientProofs --------------------------
(***************************************************************************)
(* Proofs about EchoClient, for every text, every size of the read chunk   *)
(* and of the kernel's send buffer.  What is proved about Connection       *)
(* against a client that does as it likes is used here for the programs,   *)
(* which do less; new is only the death of the server.                     *)
(***************************************************************************)
EXTENDS EchoClient, SequenceLemmas, TLAPS

R == INSTANCE ConnectionProofs

-----------------------------------------------------------------------------
(* The client's Connection meets the assumption of Connection.             *)
LEMMA SameAssumption == R!ConnectionAssumption
BY EchoClientAssumption DEF R!ConnectionAssumption, R!NUL, S!NUL

(* S and R are the same instance of Connection.                            *)
LEMMA SameConnection ==
  /\ R!TypeOK <=> S!TypeOK
  /\ S!Init <=> R!Init
  /\ S!Sizes = R!Sizes
<1>1. R!TypeOK <=> S!TypeOK
  BY DEF R!TypeOK, S!TypeOK
<1>2. S!Init <=> R!Init
  BY DEF S!Init, R!Init
<1>3. S!Sizes = R!Sizes
  BY DEF S!Sizes, R!Sizes
<1>4. QED
  BY <1>1, <1>2, <1>3

(* A step of the server's side is the same step in both.                   *)
LEMMA SameServerStep ==
  ASSUME S!ServerStep
  PROVE  R!Next
<1>1. S!Poll => R!Poll
  BY DEF S!Poll, R!Poll, S!ClearBuffer, R!ClearBuffer, S!cvars, R!cvars
<1>2. S!ReadSome => R!ReadSome
  BY DEF S!ReadSome, R!ReadSome, S!Least, R!Least, S!UpToNul, R!UpToNul, S!NUL, R!NUL,
         S!ReadAgain, R!ReadAgain, S!cvars, R!cvars
<1>3. S!ReadWouldBlock => R!ReadWouldBlock
  BY DEF S!ReadWouldBlock, R!ReadWouldBlock, S!cvars, R!cvars
<1>4. S!ReadEnds => R!ReadEnds
  BY DEF S!ReadEnds, R!ReadEnds, S!Closed, R!Closed, S!cvars, R!cvars
<1>5. S!OnMessage => R!OnMessage
  BY DEF S!OnMessage, R!OnMessage, S!cvars, R!cvars
<1>6. ASSUME NEW n \in S!Sizes, S!WriteSome(n) PROVE R!WriteSome(n)
  BY <1>6 DEF S!WriteSome, R!WriteSome, S!BytesLeft, R!BytesLeft, S!cvars, R!cvars
<1>7. S!WriteDone => R!WriteDone
  BY DEF S!WriteDone, R!WriteDone, S!cvars, R!cvars
<1>8. S!WriteWouldBlock => R!WriteWouldBlock
  BY DEF S!WriteWouldBlock, R!WriteWouldBlock, S!ClearBuffer, R!ClearBuffer, S!cvars, R!cvars
<1>9. S!WriteFails => R!WriteFails
  BY DEF S!WriteFails, R!WriteFails, S!ClearBuffer, R!ClearBuffer, S!cvars, R!cvars
<1>10. R!ServerStep
  BY <1>1, <1>2, <1>3, <1>4, <1>5, <1>6, <1>7, <1>8, <1>9, SameConnection DEF S!ServerStep, R!ServerStep
<1>11. QED
  BY <1>10 DEF R!Next

(* So are the client's steps on the stream.                                *)
LEMMA SameClientStep ==
  ASSUME \/ \E n \in S!Sizes : S!ClientSend(n) \/ S!ClientRead(n)
         \/ S!ClientEnds("fin") \/ S!ClientEnds("reset")
  PROVE  R!Next
<1>1. ASSUME NEW n \in S!Sizes, S!ClientSend(n) PROVE R!Next
  <2>1. R!ClientSend(n)
    BY <1>1 DEF S!ClientSend, R!ClientSend
  <2>2. QED
    BY <2>1, SameConnection DEF R!Next
<1>2. ASSUME NEW n \in S!Sizes, S!ClientRead(n) PROVE R!Next
  <2>1. R!ClientRead(n)
    BY <1>2 DEF S!ClientRead, R!ClientRead, S!cvars, R!cvars
  <2>2. QED
    BY <2>1, SameConnection DEF R!Next
<1>3. ASSUME NEW how \in {"fin", "reset"}, S!ClientEnds(how) PROVE R!Next
  <2>1. R!ClientEnds(how)
    BY <1>3 DEF S!ClientEnds, R!ClientEnds
  <2>2. QED
    BY <2>1 DEF R!Next
<1>4. QED
  BY <1>1, <1>2, <1>3

(* Every step but the server's death is a step of Connection or leaves it  *)
(* alone.                                                                  *)
LEMMA StepOfConnection ==
  ASSUME [Next]_vars, ~ServerDies
  PROVE  [R!Next]_R!vars
<1>0. UNCHANGED echo => UNCHANGED R!vars
  BY DEF R!vars, echo
<1>1. CASE \/ \E n \in 0..(Chunk + SendCap) : GetLine(n)
           \/ WriteReturns \/ ReadEof \/ ReadFails \/ Leave \/ RstArrives
  BY <1>0, <1>1 DEF GetLine, WriteReturns, WriteBlocking, WriteRaisesSigpipe, CloseThrows, ReadEof,
                    ReadFails, Leave, RstArrives
<1>2. CASE \E n \in S!Sizes : ReadBlocking(n) \/ Deliver(n)
  BY <1>2, SameClientStep DEF ReadBlocking, Deliver
<1>3. CASE StreamEnds
  BY <1>3, SameClientStep DEF StreamEnds
<1>4. CASE S!ServerStep
  BY <1>4, SameServerStep
<1>5. CASE UNCHANGED vars
  BY <1>0, <1>5 DEF vars
<1>6. QED
  BY <1>1, <1>2, <1>3, <1>4, <1>5 DEF Next, ReadReturns

-----------------------------------------------------------------------------
(* The inductive invariant: the server's side as in Connection, no more    *)
(* than the text is written, and no more is sent than was written.         *)
ClientTypes ==
    /\ cpc \in {"line", "write", "read", "left", "killed", "thrown"}
    /\ cstate \in {"Connected", "Closed"}
    /\ err \in {"none", "eof", "reset", "pipe"}

Counts ==
    /\ len \in Nat /\ written \in Nat
    /\ written + len <= Len(payload)
    /\ nsent <= written

EchoClientInv ==
    /\ R!TypeOK
    /\ R!NoMoreThanSent
    /\ ClientTypes
    /\ Counts

(* At first nothing has been written.                                      *)
LEMMA InitEchoClientInv == Init => EchoClientInv
<1> SUFFICES ASSUME Init PROVE EchoClientInv
  OBVIOUS
<1>1. R!Init
  BY SameConnection DEF Init
<1>2. R!TypeOK
  BY <1>1, SameAssumption, R!InitTypeOK DEF R!ConnectionAssumption
<1>3. R!NoMoreThanSent
  BY <1>1, EmptySeq DEF R!Init, R!NoMoreThanSent, R!InHand
<1>4. payload \in Seq(Nat) /\ nsent = 0
  BY <1>1, EchoClientAssumption DEF R!Init
<1>5. Counts
  BY <1>4, LenProperties DEF Init, Counts
<1>6. QED
  BY <1>2, <1>3, <1>5 DEF Init, EchoClientInv, ClientTypes

(* The server's side keeps its types and makes no bytes, also when it      *)
(* dies.                                                                   *)
LEMMA NextServerSide ==
  ASSUME EchoClientInv, [Next]_vars
  PROVE  R!TypeOK' /\ R!NoMoreThanSent'
<1>1. CASE ~ServerDies
  <2>1. [R!Next]_R!vars
    BY <1>1, StepOfConnection
  <2>2. R!TypeOK /\ R!NoMoreThanSent
    BY DEF EchoClientInv
  <2>3. R!TypeOK'
    BY <2>1, <2>2, SameAssumption, R!NextTypeOK DEF R!ConnectionAssumption
  <2>4. R!NoMoreThanSent'
    BY <2>1, <2>2, SameAssumption, R!NextNoMoreThanSent DEF R!ConnectionAssumption
  <2>5. QED
    BY <2>3, <2>4
<1>2. CASE ServerDies
  <2>1. /\ pc' = "killed" /\ rx' = <<>> /\ edge' = FALSE /\ read_buffer' = <<>> /\ write_buffer' = <<>>
        /\ payload' = payload /\ nsent' = nsent /\ peer' = peer /\ tx' = tx /\ got' = got
        /\ state' = state /\ lost' = lost
    BY <1>2 DEF ServerDies
  <2>2. R!TypeOK /\ R!NoMoreThanSent
    BY DEF EchoClientInv
  <2>3. R!TypeOK'
    <3>1. <<>> \in Seq(Nat)
      BY EmptySeq
    <3>2. QED
      BY <2>1, <2>2, <3>1 DEF R!TypeOK
  <2>4. R!NoMoreThanSent'
    <3>1. Len(R!InHand') = 0 /\ Len(rx') = 0
      BY <2>1, EmptySeq DEF R!InHand
    <3>2. /\ got \in Seq(Nat) /\ tx \in Seq(Nat) /\ rx \in Seq(Nat)
          /\ read_buffer \in Seq(Nat) /\ write_buffer \in Seq(Nat)
      BY <2>2 DEF R!TypeOK
    <3>3. R!InHand \in Seq(Nat)
      BY <3>2 DEF R!InHand
    <3>4. nsent \in Nat
      <4>1. payload \in Seq(Nat) /\ nsent \in 0..Len(payload)
        BY <2>2, EchoClientAssumption DEF R!TypeOK
      <4>2. QED
        BY <4>1, LenProperties
    <3>5. Len(got) \in Nat /\ Len(tx) \in Nat /\ Len(rx) \in Nat /\ Len(R!InHand) \in Nat
      BY <3>2, <3>3, LenProperties
    <3>6. Len(got) + Len(tx) + Len(R!InHand) + Len(rx) <= nsent
      BY <2>2 DEF R!NoMoreThanSent
    <3>7. Len(got') = Len(got) /\ Len(tx') = Len(tx) /\ nsent' = nsent
      BY <2>1
    <3>8. Len(got') + Len(tx') + Len(R!InHand') + Len(rx') <= nsent'
      BY <3>1, <3>4, <3>5, <3>6, <3>7
    <3>9. QED
      BY <3>8 DEF R!NoMoreThanSent
  <2>5. QED
    BY <2>3, <2>4
<1>3. QED
  BY <1>1, <1>2

(* No step writes more than the text or delivers more than was written.    *)
LEMMA NextCounts ==
  ASSUME EchoClientInv, [Next]_vars
  PROVE  ClientTypes' /\ Counts'
<1>0. /\ ClientTypes /\ Counts /\ payload \in Seq(Nat) /\ Len(payload) \in Nat /\ nsent \in Nat
  <2>1. payload \in Seq(Nat) /\ nsent \in 0..Len(payload)
    BY EchoClientAssumption DEF EchoClientInv, R!TypeOK
  <2>2. QED
    BY <2>1, LenProperties DEF EchoClientInv
<1>1. ASSUME NEW n \in 0..(Chunk + SendCap), GetLine(n) PROVE ClientTypes' /\ Counts'
  <2>1. /\ n \in 0..(Len(payload) - written) /\ len' = n /\ cpc' = "write"
        /\ payload' = payload /\ nsent' = nsent /\ cstate' = cstate /\ written' = written /\ err' = err
    BY <1>1 DEF GetLine, LineLength, echo
  <2>2. Counts'
    BY <1>0, <2>1 DEF Counts
  <2>3. QED
    BY <1>0, <2>1, <2>2 DEF ClientTypes
<1>2. CASE WriteBlocking
  <2>1. /\ written' = written + len /\ len' = 0 /\ cpc' = "read" /\ err' \in {"pipe", err}
        /\ payload' = payload /\ nsent' = nsent /\ cstate' = cstate
    BY <1>2 DEF WriteBlocking, echo
  <2>2. Counts'
    BY <1>0, <2>1 DEF Counts
  <2>3. QED
    BY <1>0, <2>1, <2>2 DEF ClientTypes
<1>3. CASE WriteRaisesSigpipe \/ CloseThrows \/ ReadEof \/ ReadFails \/ Leave \/ RstArrives \/ ServerDies
  <2>1. /\ payload' = payload /\ nsent' = nsent /\ written' = written /\ len' = len
    BY <1>3 DEF WriteRaisesSigpipe, CloseThrows, ReadEof, ReadFails, Leave, RstArrives, ServerDies, echo
  <2>2. ClientTypes'
    BY <1>0, <1>3 DEF ClientTypes, WriteRaisesSigpipe, CloseThrows, ReadEof, ReadFails, Leave, RstArrives,
                      ServerDies
  <2>3. QED
    BY <1>0, <2>1, <2>2 DEF Counts
<1>4. ASSUME NEW n \in S!Sizes, ReadBlocking(n) PROVE ClientTypes' /\ Counts'
  BY <1>0, <1>4 DEF ReadBlocking, S!ClientRead, S!cvars, ClientTypes, Counts
<1>5. ASSUME NEW n \in S!Sizes, Deliver(n) PROVE ClientTypes' /\ Counts'
  <2>1. /\ nsent' = nsent + n /\ nsent + n <= written /\ payload' = payload
        /\ cpc' = cpc /\ cstate' = cstate /\ len' = len /\ written' = written /\ err' = err
    BY <1>5 DEF Deliver, S!ClientSend, cvars
  <2>2. n \in Nat
    BY EchoClientAssumption DEF S!Sizes
  <2>3. Counts'
    BY <1>0, <2>1, <2>2 DEF Counts
  <2>4. QED
    BY <1>0, <2>1, <2>3 DEF ClientTypes
<1>6. CASE StreamEnds
  BY <1>0, <1>6 DEF StreamEnds, S!ClientEnds, cvars, ClientTypes, Counts
<1>7. CASE S!ServerStep /\ UNCHANGED cvars
  <2>1. payload' = payload /\ nsent' = nsent
    BY <1>7 DEF S!ServerStep, S!Poll, S!ReadSome, S!ReadWouldBlock, S!ReadEnds, S!OnMessage, S!WriteSome,
                S!WriteDone, S!WriteWouldBlock, S!WriteFails, S!cvars
  <2>2. QED
    BY <1>0, <1>7, <2>1 DEF cvars, ClientTypes, Counts
<1>8. CASE UNCHANGED vars
  BY <1>0, <1>8 DEF vars, cvars, echo, ClientTypes, Counts
<1>9. QED
  BY <1>1, <1>2, <1>3, <1>4, <1>5, <1>6, <1>7, <1>8 DEF Next, WriteReturns, ReadReturns

-----------------------------------------------------------------------------
(* The theorems.                                                           *)

(* The client writes each byte of its text once, no more is delivered than *)
(* it wrote, and no more comes back than was delivered.                    *)
THEOREM EchoClientInvariant == Spec => []EchoClientInv
<1>1. EchoClientInv /\ [Next]_vars => EchoClientInv'
  BY NextServerSide, NextCounts DEF EchoClientInv
<1>2. QED
  BY InitEchoClientInv, <1>1, PTL DEF Spec

(* Type correctness of the client programs and of the server's side; the   *)
(* client has read no more than arrived, and no more arrived than it       *)
(* wrote, also when the server dies.                                       *)
THEOREM EchoClientTypeCorrect == Spec => []TypeOK
<1>1. EchoClientInv => TypeOK
  <2> SUFFICES ASSUME EchoClientInv PROVE TypeOK
    OBVIOUS
  <2>1. S!TypeOK /\ R!TypeOK /\ R!NoMoreThanSent /\ ClientTypes /\ Counts
    BY SameConnection DEF EchoClientInv
  <2>2. payload \in Seq(Nat) /\ nsent \in 0..Len(payload)
    BY <2>1, EchoClientAssumption DEF R!TypeOK
  <2>3. /\ got \in Seq(Nat) /\ tx \in Seq(Nat) /\ rx \in Seq(Nat)
        /\ read_buffer \in Seq(Nat) /\ write_buffer \in Seq(Nat)
    BY <2>1 DEF R!TypeOK
  <2>4. R!InHand \in Seq(Nat)
    BY <2>3 DEF R!InHand
  <2>5. /\ Len(got) \in Nat /\ Len(tx) \in Nat /\ Len(rx) \in Nat /\ Len(R!InHand) \in Nat
        /\ Len(payload) \in Nat /\ nsent \in Nat
    BY <2>2, <2>3, <2>4, LenProperties
  <2>6. Len(got) <= nsent
    BY <2>1, <2>5 DEF R!NoMoreThanSent
  <2>7. len \in LineLength /\ written \in 0..Len(payload) /\ nsent <= written
    BY <2>1, <2>5 DEF Counts, LineLength
  <2>8. QED
    BY <2>1, <2>6, <2>7 DEF ClientTypes, TypeOK
<1>2. QED
  BY <1>1, EchoClientInvariant, PTL
=============================================================================
