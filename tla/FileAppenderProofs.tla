------------------------- MODULE FileAppenderProofs -------------------------
(***************************************************************************)
(* Proofs about FileAppender, for every finite set of threads that log,    *)
(* every set of records and every size of the queue.                       *)
(***************************************************************************)
EXTENDS FileAppender, SequenceLemmas, TLAPS

-----------------------------------------------------------------------------
(* Appending a record to a queue or a history adds it to the records in it *)
LEMMA ElementsAfterAppend ==
  ASSUME NEW s \in Seq(Records \cup {Pill}), NEW r \in Records \cup {Pill}
  PROVE  Elements(Append(s, r)) = Elements(s) \cup {r}
  BY ElementsOfAppend DEF Elements

(* The appender starts with its types, the stream closed and good.         *)
LEMMA InitTypeOK == Init => TypeOK
<1> SUFFICES ASSUME Init PROVE TypeOK
  OBVIOUS
<1> USE AppenderAssumption
<1>1. /\ queue \in Seq(Records \cup {Pill}) /\ Len(queue) <= MaxQueue
      /\ file \in Seq(Records \cup {LogStart, LogEnd})
      /\ logged \in Seq(Records \cup {Pill}) /\ consumed \in Seq(Records \cup {Pill})
  BY EmptySeq DEF Init
<1>2. is_open \in BOOLEAN /\ good \in BOOLEAN
  BY Zenon DEF Init
<1>3. reopens \in 0..MaxReopens
  BY SMT DEF Init
<1>4. QED
  BY <1>1, <1>2, <1>3 DEF Init, TypeOK

(* What happens to the stream: an insertion puts a record or a header into *)
(* the file or nothing, an open empties the file or leaves it, a close     *)
(* leaves it.                                                              *)
LEMMA StreamType ==
  ASSUME TypeOK,
         \/ UNCHANGED svars
         \/ OpenStream \/ CloseStream
         \/ \E x \in Records \cup {LogStart, LogEnd} : Insert(x)
  PROVE  /\ is_open' \in BOOLEAN /\ good' \in BOOLEAN
         /\ file' \in Seq(Records \cup {LogStart, LogEnd})
<1>1. CASE UNCHANGED svars
  BY <1>1 DEF TypeOK, svars
<1>2. CASE OpenStream
  BY <1>2, EmptySeq DEF TypeOK, OpenStream
<1>3. ASSUME NEW x \in Records \cup {LogStart, LogEnd}, Insert(x)
      PROVE  /\ is_open' \in BOOLEAN /\ good' \in BOOLEAN
             /\ file' \in Seq(Records \cup {LogStart, LogEnd})
  <2>1. Append(file, x) \in Seq(Records \cup {LogStart, LogEnd})
    BY <1>3, AppendProperties DEF TypeOK
  <2>2. file' \in Seq(Records \cup {LogStart, LogEnd})
    BY <1>3, <2>1 DEF TypeOK, Insert
  <2>3. QED
    BY <1>3, <2>2 DEF TypeOK, Insert
<1>4. CASE CloseStream
  BY <1>4 DEF TypeOK, CloseStream
<1>5. QED
  BY <1>1, <1>2, <1>3, <1>4

(* An insertion either extends the file of a stream that was good, or it   *)
(* leaves the file and the stream has failed.                              *)
LEMMA InsertFacts ==
  ASSUME good \in BOOLEAN, NEW x, Insert(x)
  PROVE  /\ is_open' = is_open /\ (is_open \/ ~good) /\ (good' => good)
         /\ \/ good /\ file' = Append(file, x)
            \/ ~good' /\ file' = file
BY DEF Insert

(* Every step of callers, writer and owner keeps the types, and the queue  *)
(* within max_queue_size_.                                                 *)
LEMMA NextTypeOK == TypeOK /\ [Next]_vars => TypeOK'
<1> SUFFICES ASSUME TypeOK, [Next]_vars
             PROVE  TypeOK'
  OBVIOUS
<1> USE AppenderAssumption
<1>1. CASE UNCHANGED vars
  BY <1>1 DEF TypeOK, vars
<1>2. ASSUME NEW p \in Producers, NEW r \in Records, BeginLog(p, r)
      PROVE  TypeOK'
  BY <1>2 DEF TypeOK, BeginLog, Threads, svars
<1>3. ASSUME NEW t \in Threads, WaitNotFull(t) \/ SpuriousWakeup(t)
      PROVE  TypeOK'
  BY ZenonT(60), <1>3 DEF TypeOK, WaitNotFull, SpuriousWakeup, svars
<1>4. ASSUME NEW t \in Threads, Push(t)
      PROVE  TypeOK'
  <2>1. trec[t] \in Records \cup {Pill} /\ Len(queue) \in Nat
    BY <1>4, LenProperties DEF TypeOK, Push
  <2>2. /\ queue' \in Seq(Records \cup {Pill}) /\ Len(queue') = Len(queue) + 1
        /\ logged' \in Seq(Records \cup {Pill})
    BY <1>4, <2>1, AppendProperties DEF TypeOK, Push
  <2>3. Len(queue') <= MaxQueue
    BY <1>4, <2>1, <2>2 DEF Push, HasRoom
  <2>4. QED
    BY <1>4, <2>2, <2>3 DEF TypeOK, Push, NotifyWriter, svars
<1>5. CASE WriteLogStart
  <2>1. Insert(LogStart)
    BY <1>5 DEF WriteLogStart
  <2>2. QED
    BY <1>5, <2>1, StreamType DEF TypeOK, WriteLogStart, qvars
<1>6. CASE InsertFails \/ SetBadbit \/ WaitNotEmpty \/ WriterSpuriousWakeup
  BY <1>6 DEF TypeOK, InsertFails, SetBadbit, WaitNotEmpty, WriterSpuriousWakeup, qvars, svars
<1>7. CASE Pop
  <2>1. /\ Head(queue) \in Records \cup {Pill}
        /\ Tail(queue) \in Seq(Records \cup {Pill})
        /\ Len(Tail(queue)) = Len(queue) - 1 /\ Len(queue) \in Nat
    BY <1>7, HeadTailProperties, LenProperties DEF TypeOK, Pop
  <2>2. consumed' \in Seq(Records \cup {Pill})
    BY <1>7, <2>1, AppendProperties DEF TypeOK, Pop
  <2>3. /\ queue' \in Seq(Records \cup {Pill})
        /\ Len(queue') <= MaxQueue
    BY <1>7, <2>1 DEF TypeOK, Pop, Popped
  <2>4. /\ tpc' \in [Threads -> {"idle", "entering", "waiting"}]
        /\ \A t \in Threads : tpc'[t] = "idle" <=> tpc[t] = "idle"
    BY <1>7 DEF TypeOK, Pop, NotifyOneCaller, Waiting
  <2>5. QED
    BY <1>7, <2>1, <2>2, <2>3, <2>4 DEF TypeOK, Pop, svars
<1>8. CASE WriteRecord
  <2>1. UNCHANGED svars \/ \E x \in Records \cup {LogStart, LogEnd} : Insert(x)
    BY <1>8 DEF WriteRecord, TypeOK
  <2>2. QED
    BY <1>8, <2>1, StreamType DEF TypeOK, WriteRecord, qvars
<1>9. CASE WriteLogEnd
  <2>1. Insert(LogEnd)
    BY <1>9 DEF WriteLogEnd
  <2>2. QED
    BY <1>9, <2>1, StreamType DEF TypeOK, WriteLogEnd, qvars
<1>10. CASE Construct \/ EndReopen
  <2>1. OpenStream
    BY <1>10 DEF Construct, EndReopen
  <2>2. QED
    BY <1>10, <2>1, StreamType DEF TypeOK, Construct, EndReopen, qvars
<1>11. CASE BeginReopen
  <2>1. CloseStream \/ UNCHANGED svars
    BY <1>11 DEF BeginReopen
  <2>2. reopens' \in 0..MaxReopens
    BY <1>11 DEF BeginReopen, TypeOK
  <2>3. QED
    BY <1>11, <2>1, <2>2, StreamType DEF TypeOK, BeginReopen, qvars
<1>12. CASE BeginDestroy
  BY <1>12 DEF TypeOK, BeginDestroy, Threads, svars
<1>13. CASE JoinAndClose
  <2>1. CloseStream
    BY <1>13 DEF JoinAndClose
  <2>2. QED
    BY <1>13, <2>1, StreamType DEF TypeOK, JoinAndClose, qvars
<1>14. QED
  BY <1>1, <1>2, <1>3, <1>4, <1>5, <1>6, <1>7, <1>8, <1>9, <1>10, <1>11, <1>12, <1>13
     DEF Next, WriterStep, Destroyed

(* Type correctness of the appender; its queue never outgrows its limit.   *)
THEOREM AppenderTypeCorrect == Spec => []TypeOK
<1>1. QED
  BY InitTypeOK, NextTypeOK, PTL DEF Spec

-----------------------------------------------------------------------------
(* The queue.                                                              *)

(* Push extends both sides of the equation, Pop moves the head of the      *)
(* queue to the end of what was consumed.                                  *)
LEMMA NextConsumedInOrder ==
  ASSUME TypeOK, ConsumedInOrder, [Next]_vars
  PROVE  ConsumedInOrder'
<1> USE AppenderAssumption
<1>1. ASSUME NEW t \in Threads, Push(t) PROVE ConsumedInOrder'
  <2>1. trec[t] \in Records \cup {Pill}
    BY <1>1 DEF TypeOK, Push
  <2>2. consumed \o Append(queue, trec[t]) = Append(consumed \o queue, trec[t])
    BY <2>1, AppendToSecond DEF TypeOK
  <2>3. QED
    BY <1>1, <2>2 DEF Push, ConsumedInOrder
<1>2. CASE Pop
  <2>1. Append(consumed, Head(queue)) \o Tail(queue) = consumed \o queue
    BY SMTT(60), <1>2, MoveHead DEF TypeOK, Pop
  <2>2. QED
    BY <1>2, <2>1 DEF Pop, Popped, ConsumedInOrder
<1>3. CASE UNCHANGED <<queue, logged, consumed>>
  BY <1>3 DEF ConsumedInOrder
<1>4. QED
  BY <1>1, <1>2, <1>3
     DEF Next, WriterStep, BeginLog, WaitNotFull, SpuriousWakeup, WriteLogStart, InsertFails,
         SetBadbit, WaitNotEmpty, WriterSpuriousWakeup, WriteRecord, WriteLogEnd, Construct,
         BeginReopen, EndReopen, BeginDestroy, JoinAndClose, Destroyed, qvars, vars

(* Push wakes the writer under the mutex that the writer holds from its    *)
(* test of queue_.empty() until it sleeps.                                 *)
LEMMA NextWriterSleepsOnEmpty ==
  ASSUME TypeOK, WriterSleepsOnEmpty, [Next]_vars
  PROVE  WriterSleepsOnEmpty'
<1>1. ASSUME NEW t \in Threads, Push(t) PROVE WriterSleepsOnEmpty'
  BY <1>1 DEF Push, NotifyWriter, WriterSleepsOnEmpty
<1>2. CASE UNCHANGED <<queue, wpc>>
  BY <1>2 DEF WriterSleepsOnEmpty
<1>3. CASE UNCHANGED queue /\ queue = <<>>
  BY <1>3 DEF WriterSleepsOnEmpty
<1>4. CASE wpc' # "waiting"
  BY <1>4 DEF WriterSleepsOnEmpty
<1>5. QED
  BY <1>1, <1>2, <1>3, <1>4
     DEF Next, WriterStep, BeginLog, WaitNotFull, SpuriousWakeup, WriteLogStart, InsertFails,
         SetBadbit, WaitNotEmpty, WriterSpuriousWakeup, Pop, WriteRecord, WriteLogEnd, Construct,
         BeginReopen, EndReopen, BeginDestroy, JoinAndClose, Destroyed, qvars, vars

(* There are finitely many callers in Log.                                 *)
LEMMA FiniteEntering ==
  ASSUME NEW f
  PROVE  LET E == {t \in Threads : f[t] = "entering"}
         IN  IsFiniteSet(E) /\ Cardinality(E) \in Nat
<1>1. IsFiniteSet(Threads)
  BY AppenderAssumption, FS_AddElement DEF Threads
<1>2. QED
  BY <1>1, FS_Subset, FS_CardinalityType

(* No step leaves a sleeping caller with a free place that nobody awake is *)
(* about to take: a caller falls asleep on a full queue, Push fills the    *)
(* place it leaves, and Pop wakes one caller for the place it frees.       *)
LEMMA NextSleepersJustified ==
  ASSUME TypeOK, SleepersJustified, [Next]_vars
  PROVE  SleepersJustified'
<1> SUFFICES ASSUME Waiting' # {}
             PROVE  MaxQueue <= Len(queue') + Cardinality(Entering')
  BY DEF SleepersJustified
<1> USE AppenderAssumption
<1> DEFINE E == Cardinality(Entering)
<1>a. /\ IsFiniteSet(Entering) /\ E \in Nat /\ Cardinality(Entering') \in Nat
      /\ Len(queue) \in Nat
  BY FiniteEntering, LenProperties DEF Entering, TypeOK
<1>1. ASSUME NEW p \in Producers, NEW r \in Records, BeginLog(p, r)
      PROVE  MaxQueue <= Len(queue') + Cardinality(Entering')
  <2>1. /\ Entering' = Entering \cup {p} /\ p \notin Entering
        /\ Waiting' = Waiting /\ queue' = queue
    BY <1>1 DEF BeginLog, Entering, Waiting, TypeOK, Threads
  <2>2. Cardinality(Entering') = E + 1
    BY <1>a, <2>1, FS_AddElement
  <2>3. QED
    BY <1>a, <2>1, <2>2 DEF SleepersJustified
<1>2. ASSUME NEW t \in Threads, WaitNotFull(t)
      PROVE  MaxQueue <= Len(queue') + Cardinality(Entering')
  BY <1>2, <1>a DEF WaitNotFull, HasRoom
<1>3. ASSUME NEW t \in Threads, SpuriousWakeup(t)
      PROVE  MaxQueue <= Len(queue') + Cardinality(Entering')
  <2>1. /\ Entering' = Entering \cup {t} /\ t \notin Entering
        /\ Waiting # {} /\ queue' = queue
    BY <1>3 DEF SpuriousWakeup, Entering, Waiting, TypeOK
  <2>2. Cardinality(Entering') = E + 1
    BY <1>a, <2>1, FS_AddElement
  <2>3. QED
    BY <1>a, <2>1, <2>2 DEF SleepersJustified
<1>4. ASSUME NEW t \in Threads, Push(t)
      PROVE  MaxQueue <= Len(queue') + Cardinality(Entering')
  <2>1. /\ Entering' = Entering \ {t} /\ t \in Entering
        /\ Waiting' = Waiting
    BY <1>4 DEF Push, Entering, Waiting, TypeOK
  <2>2. Cardinality(Entering') = E - 1
    BY <1>a, <2>1, FS_RemoveElement
  <2>3. Len(queue') = Len(queue) + 1
    <3>1. trec[t] \in Records \cup {Pill}
      BY <1>4 DEF TypeOK, Push
    <3>2. QED
      BY <1>4, <3>1, AppendProperties DEF TypeOK, Push
  <2>4. QED
    BY <1>a, <2>1, <2>2, <2>3 DEF SleepersJustified
<1>5. CASE Pop
  <2>1. Len(queue') = Len(queue) - 1
    BY <1>5, HeadTailProperties DEF TypeOK, Pop, Popped
  <2>2. PICK t \in Waiting : tpc' = [tpc EXCEPT ![t] = "entering"]
    BY <1>5 DEF Pop, NotifyOneCaller, Waiting
  <2>3. Entering' = Entering \cup {t} /\ t \notin Entering
    BY <2>2 DEF Entering, Waiting, TypeOK
  <2>4. Cardinality(Entering') = E + 1
    BY <1>a, <2>3, FS_AddElement
  <2>5. QED
    BY <1>a, <2>1, <2>2, <2>4 DEF SleepersJustified
<1>6. CASE BeginDestroy
  BY <1>6 DEF BeginDestroy, Waiting, TypeOK, Threads
<1>7. CASE UNCHANGED <<queue, tpc>>
  BY <1>7 DEF SleepersJustified, Entering, Waiting
<1>8. QED
  BY <1>1, <1>2, <1>3, <1>4, <1>5, <1>6, <1>7
     DEF Next, WriterStep, WriteLogStart, InsertFails, SetBadbit, WaitNotEmpty,
         WriterSpuriousWakeup, WriteRecord, WriteLogEnd, Construct, BeginReopen, EndReopen,
         JoinAndClose, Destroyed, qvars, vars

-----------------------------------------------------------------------------
(* The pill and the destructor.                                            *)

PillLast(s) ==
    /\ Len(s) > 0 /\ s[Len(s)] = Pill
    /\ \A i \in 1..(Len(s) - 1) : s[i] # Pill

(* Only the destructor sends the pill, when every caller has returned, and *)
(* nobody calls Log after that: it is the last record ever queued.         *)
PillIsLast ==
    /\ \A p \in Producers :
          /\ trec[p] # Pill
          /\ tpc[p] # "idle" => opc \in {"open", "reopening"}
    /\ \/ /\ opc \in {"constructing", "open", "reopening"}
          /\ tpc[Owner] = "idle" /\ Pill \notin Elements(logged)
       \/ /\ opc = "destroying"
          /\ trec[Owner] = Pill /\ Pill \notin Elements(logged)
       \/ /\ opc \in {"destroying", "destroyed"}
          /\ tpc[Owner] = "idle" /\ PillLast(logged)

(* The writer leaves its loop when, and only when, it has taken the pill;  *)
(* the destructor returns only after that.                                 *)
WriterEndsAtPill ==
    /\ wpc \in {"end", "done"} <=> Pill \in Elements(consumed)
    /\ opc = "destroyed" => wpc = "done"

(* What the writer has in hand is the last record that it popped.          *)
WriterHolds ==
    /\ wpc = "write" => Len(consumed) > 0 /\ wrec = consumed[Len(consumed)]
    /\ wpc = "end" => wrec = Pill
    /\ wpc \notin {"write", "end"} => wrec = NoRecord

(* A record is logged once: it is in one caller's hands or in the log.     *)
LoggedOnce ==
    /\ \A i, j \in 1..Len(logged) : logged[i] = logged[j] => i = j
    /\ \A t \in Threads : trec[t] # NoRecord =>
          /\ trec[t] \notin Elements(logged)
          /\ \A u \in Threads : trec[u] = trec[t] => u = t

AppenderInv ==
    /\ TypeOK
    /\ ConsumedInOrder
    /\ WriterSleepsOnEmpty
    /\ SleepersJustified
    /\ PillIsLast
    /\ WriterEndsAtPill
    /\ WriterHolds
    /\ LoggedOnce

(* Facts about the pill in a history.                                      *)
LEMMA PillAppended ==
  ASSUME NEW s \in Seq(Records \cup {Pill}), Pill \notin Elements(s)
  PROVE  PillLast(Append(s, Pill))
<1>1. /\ Len(s) \in Nat /\ Len(Append(s, Pill)) = Len(s) + 1
      /\ Append(s, Pill)[Len(s) + 1] = Pill
      /\ \A i \in 1..Len(s) : Append(s, Pill)[i] = s[i] /\ s[i] # Pill
  BY LenProperties, AppendProperties DEF Elements
<1>2. QED
  BY <1>1 DEF PillLast

(* Nobody but the destructor sends the pill, and nobody logs after it.     *)
LEMMA NextPillIsLast ==
  ASSUME TypeOK, PillIsLast, [Next]_vars
  PROVE  PillIsLast'
<1> USE AppenderAssumption
<1>0. Owner \in Threads /\ \A p \in Producers : p \in Threads /\ p # Owner
  BY DEF Threads
<1>p. \A p \in Producers :
        /\ trec[p] # Pill
        /\ tpc[p] # "idle" => opc \in {"open", "reopening"}
  BY DEF PillIsLast
<1>o. opc \in {"open", "reopening"} => tpc[Owner] = "idle" /\ Pill \notin Elements(logged)
  BY DEF PillIsLast
<1>1. ASSUME NEW p \in Producers, NEW r \in Records, BeginLog(p, r) PROVE PillIsLast'
  <2>1. /\ tpc'[p] = "entering" /\ \A t \in Threads : t # p => tpc'[t] = tpc[t]
        /\ trec'[p] = r /\ \A t \in Threads : t # p => trec'[t] = trec[t]
        /\ opc \in {"open", "reopening"} /\ UNCHANGED <<opc, logged>>
    BY <1>0, <1>1 DEF BeginLog, TypeOK
  <2>2. tpc'[Owner] = tpc[Owner] /\ trec'[Owner] = trec[Owner]
    BY <1>0, <2>1
  <2>3. tpc[Owner] = "idle" /\ Pill \notin Elements(logged)
    BY <1>o, <2>1
  <2>4. \A q \in Producers : trec'[q] # Pill
    BY <1>0, <1>p, <2>1
  <2>5. QED
    BY <1>0, <2>1, <2>2, <2>3, <2>4 DEF PillIsLast, Elements
<1>2. ASSUME NEW t \in Threads, WaitNotFull(t) \/ SpuriousWakeup(t) PROVE PillIsLast'
  <2>1. /\ \A u \in Threads : tpc'[u] = "idle" <=> tpc[u] = "idle"
        /\ UNCHANGED <<opc, trec, logged>>
    BY <1>2 DEF WaitNotFull, SpuriousWakeup, TypeOK
  <2>2. QED
    BY <1>0, <2>1 DEF PillIsLast, PillLast, Elements
<1>3. ASSUME NEW t \in Threads, Push(t) PROVE PillIsLast'
  <2>1. /\ tpc[t] = "entering" /\ trec[t] \in Records \cup {Pill}
        /\ tpc'[t] = "idle" /\ \A u \in Threads : u # t => tpc'[u] = tpc[u]
        /\ trec'[t] = NoRecord /\ \A u \in Threads : u # t => trec'[u] = trec[u]
        /\ logged' = Append(logged, trec[t]) /\ opc' = opc
        /\ logged \in Seq(Records \cup {Pill})
    BY <1>3 DEF Push, TypeOK
  <2>2. CASE t = Owner
    <3>1. /\ opc = "destroying" /\ trec[t] = Pill /\ Pill \notin Elements(logged)
      BY <2>1, <2>2 DEF PillIsLast
    <3>2. PillLast(logged')
      BY <2>1, <3>1, PillAppended
    <3>3. QED
      BY <1>0, <2>1, <2>2, <3>1, <3>2 DEF PillIsLast, PillLast
  <2>3. CASE t \in Producers
    <3>1. /\ opc \in {"open", "reopening"} /\ trec[t] # Pill
          /\ tpc[Owner] = "idle" /\ Pill \notin Elements(logged)
      BY <1>o, <1>p, <2>1, <2>3
    <3>2. Elements(logged') = Elements(logged) \cup {trec[t]}
      BY <2>1, ElementsAfterAppend
    <3>3. Pill \notin Elements(logged')
      BY <3>1, <3>2
    <3>4. QED
      BY <1>0, <2>1, <2>3, <3>1, <3>3 DEF PillIsLast, Elements
  <2>4. QED
    BY <2>2, <2>3 DEF Threads
<1>4. CASE Pop
  <2>1. /\ \A u \in Threads : tpc'[u] = "idle" <=> tpc[u] = "idle"
        /\ UNCHANGED <<opc, trec, logged>>
    BY <1>4 DEF Pop, NotifyOneCaller, Waiting, TypeOK
  <2>2. QED
    BY <1>0, <2>1 DEF PillIsLast, PillLast, Elements
<1>5. CASE Construct \/ BeginReopen \/ EndReopen
  <2>1. /\ UNCHANGED <<tpc, trec, logged>> /\ opc' \in {"open", "reopening"}
        /\ opc \in {"constructing", "open", "reopening"}
        /\ opc = "constructing" => opc' = "open"
    BY <1>5 DEF Construct, BeginReopen, EndReopen, qvars
  <2>2. QED
    BY <2>1 DEF PillIsLast, PillLast, Elements
<1>6. CASE BeginDestroy
  <2>1. /\ \A t \in Threads : tpc[t] = "idle"
        /\ opc = "open" /\ opc' = "destroying" /\ logged' = logged
        /\ tpc' = [tpc EXCEPT ![Owner] = "entering"]
        /\ trec' = [trec EXCEPT ![Owner] = Pill]
    BY <1>6 DEF BeginDestroy
  <2>2. /\ trec'[Owner] = Pill
        /\ \A p \in Producers : tpc'[p] = "idle" /\ trec'[p] = trec[p]
    BY <1>0, <2>1 DEF TypeOK
  <2>3. Pill \notin Elements(logged)
    BY <2>1 DEF PillIsLast
  <2>4. QED
    BY <2>1, <2>2, <2>3 DEF PillIsLast, Elements
<1>7. CASE JoinAndClose
  <2>1. /\ UNCHANGED <<tpc, trec, logged>> /\ opc' = "destroyed"
        /\ opc = "destroying" /\ tpc[Owner] = "idle" /\ trec[Owner] # Pill
    BY <1>0, <1>7 DEF JoinAndClose, qvars, TypeOK
  <2>2. QED
    BY <2>1 DEF PillIsLast, PillLast
<1>8. CASE UNCHANGED <<tpc, trec, logged, opc>>
  BY <1>8 DEF PillIsLast, PillLast, Elements
<1>9. QED
  BY <1>1, <1>2, <1>3, <1>4, <1>5, <1>6, <1>7, <1>8
     DEF Next, WriterStep, WriteLogStart, InsertFails, SetBadbit, WaitNotEmpty,
         WriterSpuriousWakeup, WriteRecord, WriteLogEnd, Destroyed, qvars, vars

(* The writer turns to "log end" exactly when it pops the pill.            *)
LEMMA NextWriterEndsAtPill ==
  ASSUME TypeOK, WriterEndsAtPill, WriterHolds, [Next]_vars
  PROVE  WriterEndsAtPill' /\ WriterHolds'
<1> USE AppenderAssumption
<1> DEFINE Goal == WriterEndsAtPill' /\ WriterHolds'
<1>1. CASE Pop
  <2>1. /\ Head(queue) \in Records \cup {Pill} /\ consumed \in Seq(Records \cup {Pill})
        /\ consumed' = Append(consumed, Head(queue)) /\ wrec' = Head(queue)
        /\ wpc = "loop" /\ opc' = opc
        /\ wpc' = IF Head(queue) = Pill THEN "end" ELSE "write"
    BY <1>1, HeadTailProperties DEF Pop, TypeOK
  <2>2. Elements(consumed') = Elements(consumed) \cup {Head(queue)}
    BY <2>1, ElementsAfterAppend
  <2>3. Len(consumed') > 0 /\ consumed'[Len(consumed')] = Head(queue)
    BY <2>1, AppendProperties, LenProperties
  <2>4. QED
    BY <2>1, <2>2, <2>3 DEF WriterEndsAtPill, WriterHolds
<1>2. ASSUME NEW t \in Threads, Push(t) PROVE Goal
  <2>1. /\ UNCHANGED <<consumed, wrec, opc>>
        /\ wpc' = wpc \/ (wpc = "waiting" /\ wpc' = "loop")
    BY <1>2 DEF Push, NotifyWriter
  <2>2. QED
    BY <2>1 DEF WriterEndsAtPill, WriterHolds, Elements
<1>3. CASE WriteLogStart \/ InsertFails \/ SetBadbit \/ WaitNotEmpty \/ WriterSpuriousWakeup
  <2>1. /\ UNCHANGED <<consumed, wrec, opc>>
        /\ wpc \in {"start", "failing", "loop", "waiting"}
        /\ wpc' \in {"start", "failing", "loop", "waiting"}
    BY <1>3 DEF WriteLogStart, InsertFails, SetBadbit, WaitNotEmpty, WriterSpuriousWakeup
  <2>2. QED
    BY <2>1 DEF WriterEndsAtPill, WriterHolds, Elements
<1>4. CASE WriteRecord \/ WriteLogEnd
  <2>1. /\ UNCHANGED <<consumed, opc>> /\ wrec' = NoRecord
        /\ \/ wpc = "write" /\ wpc' = "loop"
           \/ wpc = "end" /\ wpc' = "done"
    BY <1>4 DEF WriteRecord, WriteLogEnd
  <2>2. QED
    BY <2>1 DEF WriterEndsAtPill, WriterHolds, Elements
<1>5. CASE Construct \/ BeginReopen \/ EndReopen \/ BeginDestroy \/ JoinAndClose
  <2>1. /\ UNCHANGED <<consumed, wpc, wrec>>
        /\ opc' = "destroyed" => wpc = "done"
    BY <1>5 DEF Construct, BeginReopen, EndReopen, BeginDestroy, JoinAndClose, WriterJoined
  <2>2. QED
    BY <2>1 DEF WriterEndsAtPill, WriterHolds, Elements
<1>6. CASE UNCHANGED <<consumed, wpc, wrec, opc>>
  BY <1>6 DEF WriterEndsAtPill, WriterHolds, Elements
<1>7. QED
  BY <1>1, <1>2, <1>3, <1>4, <1>5, <1>6
     DEF Next, WriterStep, BeginLog, WaitNotFull, SpuriousWakeup, Destroyed, vars

(* BeginLog takes a record that nobody has, Push moves it to the log.      *)
LEMMA NextLoggedOnce ==
  ASSUME TypeOK, LoggedOnce, PillIsLast, [Next]_vars
  PROVE  LoggedOnce'
<1> USE AppenderAssumption
<1>1. ASSUME NEW p \in Producers, NEW r \in Records, BeginLog(p, r) PROVE LoggedOnce'
  <2>1. /\ p \in Threads /\ logged' = logged
        /\ trec' = [trec EXCEPT ![p] = r]
        /\ r \notin Elements(logged) /\ \A t \in Threads : trec[t] # r
    BY <1>1 DEF BeginLog, Threads
  <2>2. trec'[p] = r /\ \A t \in Threads : t # p => trec'[t] = trec[t]
    BY <2>1 DEF TypeOK
  <2>3. QED
    BY <2>1, <2>2 DEF LoggedOnce, Elements
<1>2. ASSUME NEW t \in Threads, Push(t) PROVE LoggedOnce'
  <2>1. /\ trec[t] \in Records \cup {Pill} /\ trec[t] # NoRecord
        /\ trec'[t] = NoRecord /\ \A u \in Threads : u # t => trec'[u] = trec[u]
        /\ logged' = Append(logged, trec[t])
        /\ logged \in Seq(Records \cup {Pill})
    BY <1>2 DEF Push, TypeOK
  <2>2. /\ trec[t] \notin Elements(logged)
        /\ \A u \in Threads : trec[u] = trec[t] => u = t
    BY <2>1 DEF LoggedOnce
  <2>3. Elements(logged') = Elements(logged) \cup {trec[t]}
    BY <2>1, ElementsAfterAppend
  <2>4. /\ Len(logged) \in Nat /\ Len(logged') = Len(logged) + 1
        /\ logged'[Len(logged) + 1] = trec[t]
        /\ \A i \in 1..Len(logged) : logged'[i] = logged[i] /\ logged[i] # trec[t]
    BY <2>1, <2>2, LenProperties, AppendProperties DEF Elements
  <2>5. \A i, j \in 1..Len(logged') : logged'[i] = logged'[j] => i = j
    BY <2>4 DEF LoggedOnce
  <2>6. \A u \in Threads : trec'[u] # NoRecord =>
          /\ trec'[u] \notin Elements(logged')
          /\ \A v \in Threads : trec'[v] = trec'[u] => v = u
    BY <2>1, <2>2, <2>3 DEF LoggedOnce
  <2>7. QED
    BY <2>5, <2>6 DEF LoggedOnce
<1>3. CASE BeginDestroy
  <2>1. /\ Owner \in Threads /\ logged' = logged
        /\ trec'[Owner] = Pill
        /\ \A t \in Threads : trec[t] = NoRecord /\ (t # Owner => trec'[t] = trec[t])
    BY <1>3 DEF BeginDestroy, TypeOK, Threads
  <2>2. Pill \notin Elements(logged)
    BY <1>3 DEF BeginDestroy, PillIsLast
  <2>3. QED
    BY <2>1, <2>2 DEF LoggedOnce, Elements
<1>4. CASE UNCHANGED <<trec, logged>>
  BY <1>4 DEF LoggedOnce, Elements
<1>5. QED
  BY <1>1, <1>2, <1>3, <1>4
     DEF Next, WriterStep, WaitNotFull, SpuriousWakeup, WriteLogStart, InsertFails,
         SetBadbit, WaitNotEmpty, WriterSpuriousWakeup, Pop, WriteRecord, WriteLogEnd, Construct,
         BeginReopen, EndReopen, JoinAndClose, Destroyed, qvars, vars

-----------------------------------------------------------------------------
(* The invariant holds of an appender whose constructor has just begun ... *)
LEMMA InitAppenderInv == Init => AppenderInv
<1> SUFFICES ASSUME Init PROVE AppenderInv
  OBVIOUS
<1> USE AppenderAssumption
<1>1. TypeOK
  BY InitTypeOK
<1>2. /\ Elements(<<>>) = {} /\ Len(<<>>) = 0
      /\ <<>> \in Seq(Records \cup {Pill}) /\ <<>> \o <<>> = <<>>
  BY EmptySeq, ConcatEmptySeq DEF Elements
<1>3. ConsumedInOrder /\ WriterSleepsOnEmpty /\ SleepersJustified
  BY <1>2 DEF Init, ConsumedInOrder, WriterSleepsOnEmpty, SleepersJustified, Waiting
<1>4. PillIsLast
  BY <1>2 DEF Init, PillIsLast, Threads
<1>5. WriterEndsAtPill /\ WriterHolds
  BY <1>2 DEF Init, WriterEndsAtPill, WriterHolds
<1>6. LoggedOnce
  BY <1>2 DEF Init, LoggedOnce
<1>7. QED
  BY <1>1, <1>3, <1>4, <1>5, <1>6 DEF AppenderInv

(* ... is kept by every step of callers, writer and owner ...              *)
LEMMA NextAppenderInv == AppenderInv /\ [Next]_vars => AppenderInv'
  BY NextTypeOK, NextConsumedInOrder, NextWriterSleepsOnEmpty, NextSleepersJustified,
     NextPillIsLast, NextWriterEndsAtPill, NextLoggedOnce
     DEF AppenderInv

(* ... and so holds at every moment of the appender's life.                *)
THEOREM AppenderInvariant == Spec => []AppenderInv
<1>1. QED
  BY InitAppenderInv, NextAppenderInv, PTL DEF Spec

(* The writer takes the records in the order of Log, none twice and none   *)
(* left out.                                                               *)
THEOREM RecordsConsumedInOrder == Spec => []ConsumedInOrder
<1>1. AppenderInv => ConsumedInOrder
  BY DEF AppenderInv
<1>2. QED
  BY <1>1, AppenderInvariant, PTL

(* No caller that sleeps on a full queue is forgotten, though each pop     *)
(* notifies only one of them.                                              *)
THEOREM NoCallerForgotten == Spec => []SleepersJustified
<1>1. AppenderInv => SleepersJustified
  BY DEF AppenderInv
<1>2. QED
  BY <1>1, AppenderInvariant, PTL

(* The writer never sleeps on a queue that holds a record.                 *)
THEOREM WriterMissesNoPush == Spec => []WriterSleepsOnEmpty
<1>1. AppenderInv => WriterSleepsOnEmpty
  BY DEF AppenderInv
<1>2. QED
  BY <1>1, AppenderInvariant, PTL

(* Once the pill has been taken, all that was ever logged has been.        *)
LEMMA PillEmptiesQueue ==
  ASSUME AppenderInv, Pill \in Elements(consumed)
  PROVE  queue = <<>> /\ consumed = logged /\ PillLast(logged)
<1> USE AppenderAssumption
<1>1. /\ consumed \in Seq(Records \cup {Pill}) /\ queue \in Seq(Records \cup {Pill})
      /\ Len(consumed) \in Nat /\ Len(queue) \in Nat
      /\ logged = consumed \o queue
  BY LenProperties DEF AppenderInv, TypeOK, ConsumedInOrder
<1>2. /\ Len(logged) = Len(consumed) + Len(queue)
      /\ \A i \in 1..Len(consumed) : logged[i] = consumed[i]
  BY <1>1, ConcatProperties
<1>3. PICK i \in 1..Len(consumed) : consumed[i] = Pill
  BY DEF Elements
<1>4. logged[i] = Pill /\ i \in 1..Len(logged)
  BY <1>1, <1>2, <1>3
<1>5. Pill \in Elements(logged)
  BY <1>4 DEF Elements
<1>6. PillLast(logged)
  BY <1>5 DEF AppenderInv, PillIsLast
<1>7. ~(i \in 1..(Len(logged) - 1))
  BY <1>4, <1>6 DEF PillLast
<1>8. Len(queue) = 0
  BY <1>1, <1>2, <1>3, <1>4, <1>7
<1>9. queue = <<>>
  BY <1>1, <1>8, EmptySeq
<1>10. QED
  BY <1>1, <1>6, <1>9, ConcatEmptySeq

(* When the destructor returns the queue is empty and the pill was the     *)
(* last record.                                                            *)
THEOREM DestructorDrains == Spec => []DrainedAtDestruction
<1>1. AppenderInv => DrainedAtDestruction
  <2> SUFFICES ASSUME AppenderInv, opc = "destroyed" PROVE queue = <<>> /\ PillLast(consumed)
    BY DEF DrainedAtDestruction, PillLast
  <2>1. Pill \in Elements(consumed)
    BY DEF AppenderInv, WriterEndsAtPill
  <2>2. QED
    BY <2>1, PillEmptiesQueue
<1>2. QED
  BY <1>1, AppenderInvariant, PTL

-----------------------------------------------------------------------------
(* The refinement of TaskService.                                          *)

(* A history is that of the service up to the pill.                        *)
LEMMA BeforePillFacts ==
  ASSUME NEW s \in Seq(Records \cup {Pill})
  PROVE  /\ Pill \notin Elements(s) => BeforePill(s) = s /\ BeforePill(Append(s, Pill)) = s
         /\ PillLast(s) => /\ Len(BeforePill(s)) = Len(s) - 1
                           /\ \A i \in 1..(Len(s) - 1) : BeforePill(s)[i] = s[i]
<1> DEFINE a == Append(s, Pill)
<1>1. Len(s) \in Nat /\ (s # <<>> => Len(s) \in 1..Len(s))
  BY LenProperties, EmptySeq
<1>2. ASSUME Pill \notin Elements(s) PROVE BeforePill(s) = s
  BY <1>1, <1>2 DEF BeforePill, Elements
<1>3. BeforePill(a) = s
  <2>1. /\ a \in Seq(Records \cup {Pill}) /\ Len(a) = Len(s) + 1
        /\ a[Len(s) + 1] = Pill /\ \A i \in 1..Len(s) : a[i] = s[i]
    BY <1>1, AppendProperties
  <2>2. a # <<>>
    BY <1>1, <2>1, EmptySeq
  <2>3. BeforePill(a) = SubSeq(a, 1, Len(s))
    <3>1. Len(a) - 1 = Len(s)
      BY <1>1, <2>1
    <3>2. QED
      BY <2>1, <2>2, <3>1 DEF BeforePill
  <2> HIDE DEF a
  <2>4. /\ SubSeq(a, 1, Len(s)) \in Seq(Records \cup {Pill})
        /\ Len(SubSeq(a, 1, Len(s))) = Len(s)
        /\ \A i \in 1..Len(s) : SubSeq(a, 1, Len(s))[i] = s[i]
    BY <1>1, <2>1, SubSeqProperties
  <2>5. SubSeq(a, 1, Len(s)) = s
    BY <2>4, SeqEqual
  <2>6. QED
    BY <2>3, <2>5
<1>4. ASSUME PillLast(s)
      PROVE  /\ Len(BeforePill(s)) = Len(s) - 1
             /\ \A i \in 1..(Len(s) - 1) : BeforePill(s)[i] = s[i]
  <2>1. s # <<>> /\ s[Len(s)] = Pill /\ Len(s) - 1 \in Nat
    BY <1>1, <1>4, EmptySeq DEF PillLast
  <2>2. BeforePill(s) = SubSeq(s, 1, Len(s) - 1)
    BY <2>1 DEF BeforePill
  <2>3. Len(s) - 1 \in 0..Len(s)
    BY <1>1, <2>1
  <2>4. QED
    BY ZenonT(60), <2>2, <2>3, Prefix
<1>5. QED
  BY <1>2, <1>3, <1>4

(* TaskService counts as this module does.                                 *)
LEMMA SameCardinality == \A S : Service!Cardinality(S) = Cardinality(S)
  BY DEF Service!Cardinality, Cardinality, Service!IsFiniteSet, IsFiniteSet

(* Two facts about the records that the writer has taken: none of them     *)
(* twice, and NoRecord is none of them.                                    *)
LEMMA ConsumedFacts ==
  ASSUME AppenderInv
  PROVE  /\ consumed \in Seq(Records \cup {Pill}) /\ Len(consumed) \in Nat
         /\ queue \in Seq(Records \cup {Pill}) /\ Len(queue) \in Nat
         /\ logged \in Seq(Records \cup {Pill}) /\ Len(logged) = Len(consumed) + Len(queue)
         /\ \A i \in 1..Len(consumed) : logged[i] = consumed[i]
         /\ \A i \in 1..Len(queue) : logged[Len(consumed) + i] = queue[i]
         /\ \A i, j \in 1..Len(consumed) : consumed[i] = consumed[j] => i = j
         /\ NoRecord \notin Elements(consumed)
<1> USE AppenderAssumption
<1>1. /\ consumed \in Seq(Records \cup {Pill}) /\ Len(consumed) \in Nat
      /\ queue \in Seq(Records \cup {Pill}) /\ Len(queue) \in Nat
      /\ logged \in Seq(Records \cup {Pill}) /\ logged = consumed \o queue
  BY LenProperties DEF AppenderInv, TypeOK, ConsumedInOrder
<1>2. /\ Len(logged) = Len(consumed) + Len(queue)
      /\ \A i \in 1..Len(consumed) : logged[i] = consumed[i]
      /\ \A i \in 1..Len(queue) : logged[Len(consumed) + i] = queue[i]
  BY <1>1, ConcatProperties
<1>3. \A i, j \in 1..Len(consumed) : consumed[i] = consumed[j] => i = j
  <2>1. \A i \in 1..Len(consumed) : i \in 1..Len(logged)
    BY <1>1, <1>2
  <2>2. QED
    BY <1>2, <2>1 DEF AppenderInv, LoggedOnce
<1>4. NoRecord \notin Elements(consumed)
  BY <1>1 DEF Elements
<1>5. QED
  BY <1>1, <1>2, <1>3, <1>4

(* An appender under construction is a service that has taken nothing.     *)
LEMMA InitService == Init => Service!Init
<1> SUFFICES ASSUME Init PROVE Service!Init
  OBVIOUS
<1>1. Len(<<>>) = 0 /\ Elements(<<>>) = {} /\ BeforePill(<<>>) = <<>>
  BY EmptySeq DEF Elements, BeforePill
<1>2. QED
  BY <1>1 DEF Init, Service!Init

(* Log submits its record; the destructor's pill is none.                  *)
LEMMA PushSubmits ==
  ASSUME AppenderInv, NEW t \in Threads, Push(t)
  PROVE  (\E r \in Records : Service!Submit(r)) \/ UNCHANGED Service!svars
<1> USE AppenderAssumption
<1>1. /\ tpc[t] = "entering" /\ trec[t] \in Records \cup {Pill} /\ trec[t] # NoRecord
      /\ logged' = Append(logged, trec[t]) /\ logged \in Seq(Records \cup {Pill})
      /\ UNCHANGED <<consumed, wrec, opc>>
  BY DEF Push, AppenderInv, TypeOK
<1>2. Elements(logged') = Elements(logged) \cup {trec[t]}
  BY <1>1, ElementsAfterAppend
<1>3. CASE t = Owner
  <2>1. trec[t] = Pill /\ Pill \notin Elements(logged)
    BY <1>1, <1>3 DEF AppenderInv, PillIsLast
  <2>2. BeforePill(logged') = BeforePill(logged)
    BY <1>1, <2>1, BeforePillFacts
  <2>3. QED
    BY <1>1, <2>2 DEF Service!svars, Elements
<1>4. CASE t \in Producers
  <2>1. /\ opc \in {"open", "reopening"} /\ trec[t] # Pill
        /\ Pill \notin Elements(logged)
    BY <1>1, <1>4 DEF AppenderInv, PillIsLast
  <2>2. logged' \in Seq(Records \cup {Pill})
    BY <1>1, AppendProperties
  <2>3. BeforePill(logged) = logged /\ BeforePill(logged') = logged'
    BY <1>1, <1>2, <2>1, <2>2, BeforePillFacts
  <2>4. PICK r \in Records : r = trec[t]
    BY <1>1, <2>1
  <2>5. r \notin Elements(logged)
    BY <1>1, <2>4 DEF AppenderInv, LoggedOnce
  <2>6. Service!Submit(r)
    BY <1>1, <2>1, <2>3, <2>4, <2>5 DEF Service!Submit, Service!Taken, Elements
  <2>7. QED
    BY <2>6
<1>5. QED
  BY <1>3, <1>4 DEF Threads

(* Pop begins a record, the writer having none in hand; it does not begin  *)
(* the pill.                                                               *)
LEMMA PopBegins ==
  ASSUME AppenderInv, Pop
  PROVE  Service!Begin \/ UNCHANGED Service!svars
<1> USE AppenderAssumption
<1> DEFINE h == Head(queue)
<1>1. /\ queue # <<>> /\ h \in Records \cup {Pill} /\ h = queue[1] /\ Len(queue) > 0
      /\ consumed' = Append(consumed, h) /\ wrec' = h
      /\ wpc = "loop" /\ UNCHANGED <<opc, logged>>
  BY ConsumedFacts, HeadTailProperties, EmptySeq DEF Pop
<1>2. /\ wrec = NoRecord /\ Pill \notin Elements(consumed) /\ opc # "destroyed"
  BY <1>1 DEF AppenderInv, WriterHolds, WriterEndsAtPill
<1> HIDE DEF h
<1>3. logged[Len(consumed) + 1] = h /\ Len(consumed) + 1 \in 1..Len(logged)
  BY <1>1, ConsumedFacts
<1>4. h \notin Elements(consumed)
  <2> SUFFICES ASSUME NEW i \in 1..Len(consumed), consumed[i] = h PROVE FALSE
    BY DEF Elements
  <2>1. logged[i] = h /\ i \in 1..Len(logged)
    BY ConsumedFacts
  <2>2. i = Len(consumed) + 1
    BY <1>3, <2>1 DEF AppenderInv, LoggedOnce
  <2>3. QED
    BY <2>2, ConsumedFacts
<1>5. Elements(consumed') = Elements(consumed) \cup {h}
  BY <1>1, ConsumedFacts, ElementsAfterAppend
<1>6. /\ Elements(consumed) \ {wrec, Pill} = Elements(consumed)
      /\ Elements(consumed') \ {wrec', Pill} = Elements(consumed)
  BY <1>1, <1>2, <1>4, <1>5, ConsumedFacts
<1>7. BeforePill(consumed) = consumed
  BY <1>2, ConsumedFacts, BeforePillFacts
<1>8. CASE h = Pill
  <2>1. BeforePill(consumed') = consumed
    BY <1>1, <1>2, <1>8, ConsumedFacts, BeforePillFacts
  <2>2. QED
    BY <1>1, <1>6, <1>7, <2>1 DEF Service!svars
<1>9. CASE h # Pill
  <2>1. consumed' \in Seq(Records \cup {Pill}) /\ Len(consumed') = Len(consumed) + 1
    BY <1>1, ConsumedFacts, AppendProperties
  <2>2. BeforePill(consumed') = consumed'
    BY <1>2, <1>5, <1>9, <2>1, BeforePillFacts
  <2>3. Len(consumed) < Len(BeforePill(logged))
    <3>1. CASE Pill \notin Elements(logged)
      BY <1>3, <3>1, ConsumedFacts, BeforePillFacts
    <3>2. CASE PillLast(logged)
      <4>1. Len(consumed) + 1 # Len(logged)
        BY <1>3, <1>9, <3>2 DEF PillLast
      <4>2. Len(BeforePill(logged)) = Len(logged) - 1
        BY <3>2, ConsumedFacts, BeforePillFacts
      <4>3. QED
        BY <1>3, <4>1, <4>2, ConsumedFacts
    <3>3. QED
      BY <3>1, <3>2 DEF AppenderInv, PillIsLast
  <2>4. Cardinality(Elements(consumed)) = Len(consumed)
    BY ConsumedFacts, CardinalityOfElements DEF Elements
  <2>5. Len(consumed) - Cardinality(Elements(consumed)) < 1
    BY <2>4, ConsumedFacts
  <2>6. QED
    BY <1>1, <1>2, <1>6, <1>7, <2>1, <2>2, <2>3, <2>5, SameCardinality DEF Service!Begin
<1>10. QED
  BY <1>8, <1>9

(* Writing or skipping the record ends it.                                 *)
LEMMA WriteEnds ==
  ASSUME AppenderInv, WriteRecord
  PROVE  \E r \in Records : Service!End(r)
<1> USE AppenderAssumption
<1>1. /\ wpc = "write" /\ wrec \in Records /\ wrec' = NoRecord
      /\ UNCHANGED <<logged, consumed, opc>>
  BY DEF WriteRecord, qvars, AppenderInv, TypeOK
<1>2. /\ Len(consumed) > 0 /\ wrec = consumed[Len(consumed)] /\ opc # "destroyed"
      /\ Pill \notin Elements(consumed)
  BY <1>1 DEF AppenderInv, WriterHolds, WriterEndsAtPill
<1>3. PICK r \in Records : r = wrec
  BY <1>1
<1>4. Len(consumed) \in 1..Len(consumed)
  BY <1>2, ConsumedFacts
<1>5. r \in Elements(consumed) /\ r # Pill /\ r # NoRecord
  BY <1>2, <1>3, <1>4 DEF Elements
<1>6. /\ Elements(consumed') \ {wrec', Pill} = (Elements(consumed) \ {wrec, Pill}) \cup {r}
      /\ r \notin Elements(consumed) \ {wrec, Pill}
  BY <1>1, <1>3, <1>5, ConsumedFacts DEF Elements
<1>7. BeforePill(consumed) = consumed
  BY <1>2, ConsumedFacts, BeforePillFacts
<1>8. BeforePill(logged)[Len(consumed)] = r
  <2>1. logged[Len(consumed)] = r /\ Len(consumed) \in 1..Len(logged)
    BY <1>2, <1>3, <1>4, ConsumedFacts
  <2>2. CASE Pill \notin Elements(logged)
    BY <2>1, <2>2, ConsumedFacts, BeforePillFacts
  <2>3. CASE PillLast(logged)
    <3>1. Len(consumed) # Len(logged)
      BY <1>5, <2>1, <2>3 DEF PillLast
    <3>2. Len(consumed) \in 1..(Len(logged) - 1)
      BY <2>1, <3>1, ConsumedFacts
    <3>3. QED
      BY <2>1, <2>3, <3>2, ConsumedFacts, BeforePillFacts
  <2>4. QED
    BY <2>2, <2>3 DEF AppenderInv, PillIsLast
<1>9. Service!End(r)
  BY <1>1, <1>2, <1>4, <1>6, <1>7, <1>8 DEF Service!End
<1>10. QED
  BY <1>9

(* The destructor closes the service when all that was logged has ended.   *)
LEMMA JoinCloses ==
  ASSUME AppenderInv, JoinAndClose
  PROVE  Service!FinishClosing
<1> USE AppenderAssumption
<1>1. /\ opc = "destroying" /\ opc' = "destroyed" /\ wpc = "done"
      /\ UNCHANGED <<logged, consumed, wrec>>
  BY DEF JoinAndClose, WriterJoined, qvars
<1>2. wrec = NoRecord /\ Pill \in Elements(consumed)
  BY <1>1 DEF AppenderInv, WriterHolds, WriterEndsAtPill
<1>3. consumed = logged /\ PillLast(logged)
  BY <1>2, PillEmptiesQueue
<1>4. /\ Len(logged) \in Nat /\ Len(logged) > 0 /\ logged[Len(logged)] = Pill
      /\ Len(BeforePill(logged)) = Len(logged) - 1
      /\ \A i \in 1..(Len(logged) - 1) : BeforePill(logged)[i] = logged[i] /\ logged[i] # Pill
  BY ZenonT(60), <1>3, ConsumedFacts, BeforePillFacts DEF PillLast
<1>5. 1..Len(logged) = 1..(Len(logged) - 1) \cup {Len(logged)}
  BY <1>4
<1>6. Elements(logged) = Elements(BeforePill(logged)) \cup {Pill} /\ Pill \notin Elements(BeforePill(logged))
  BY <1>4, <1>5 DEF Elements
<1>7. Elements(consumed) \ {wrec, Pill} = Elements(BeforePill(logged))
  BY <1>2, <1>3, <1>6, ConsumedFacts
<1>8. QED
  BY <1>1, <1>7 DEF Service!FinishClosing, Service!Taken, Elements

(* Every step of callers, writer and owner is a step of the service or     *)
(* leaves it as it was.                                                    *)
LEMMA NextService ==
  AppenderInv /\ [Next]_vars => [Service!Next]_(Service!svars)
<1> SUFFICES ASSUME AppenderInv, [Next]_vars PROVE Service!Next \/ UNCHANGED Service!svars
  OBVIOUS
<1> USE AppenderAssumption
<1>1. ASSUME NEW t \in Threads, Push(t) PROVE Service!Next \/ UNCHANGED Service!svars
  BY <1>1, PushSubmits DEF Service!Next
<1>2. CASE Pop
  BY <1>2, PopBegins DEF Service!Next
<1>3. CASE WriteRecord
  BY <1>3, WriteEnds DEF Service!Next
<1>4. CASE WriteLogEnd
  <2>1. /\ wrec = Pill /\ wrec' = NoRecord /\ UNCHANGED <<logged, consumed, opc>>
    BY <1>4 DEF WriteLogEnd, qvars, AppenderInv, WriterHolds
  <2>2. Elements(consumed') \ {wrec', Pill} = Elements(consumed) \ {wrec, Pill}
    BY <2>1, ConsumedFacts DEF Elements
  <2>3. QED
    BY <2>1, <2>2 DEF Service!svars
<1>5. CASE Construct \/ BeginReopen \/ EndReopen
  <2>1. /\ opc \in {"constructing", "open", "reopening"} /\ opc' \in {"open", "reopening"}
        /\ UNCHANGED <<logged, consumed, wrec>>
    BY <1>5 DEF Construct, BeginReopen, EndReopen, qvars
  <2>2. QED
    BY <2>1 DEF Service!svars, Elements
<1>6. CASE BeginDestroy
  <2>1. /\ opc = "open" /\ opc' = "destroying" /\ UNCHANGED <<logged, consumed, wrec>>
    BY <1>6 DEF BeginDestroy
  <2>2. Service!StartClosing
    BY <2>1 DEF Service!StartClosing, Elements
  <2>3. QED
    BY <2>2 DEF Service!Next
<1>7. CASE JoinAndClose
  BY <1>7, JoinCloses DEF Service!Next
<1>8. CASE UNCHANGED <<logged, consumed, wrec, opc>>
  BY <1>8 DEF Service!svars, Elements
<1>9. QED
  BY <1>1, <1>2, <1>3, <1>4, <1>5, <1>6, <1>7, <1>8
     DEF Next, WriterStep, BeginLog, WaitNotFull, SpuriousWakeup, WriteLogStart, InsertFails,
         SetBadbit, WaitNotEmpty, WriterSpuriousWakeup, Destroyed, qvars, vars

(* The appender implements TaskService with one slot: records are taken up *)
(* one at a time in the order of Log, and the destructor returns only when *)
(* the last of them has been dealt with.                                   *)
THEOREM AppenderImplementsService == Spec => ImplementsService
<1>1. QED
  BY InitService, NextService, AppenderInvariant, PTL DEF Spec, ImplementsService, Service!Spec

-----------------------------------------------------------------------------
(* The file.                                                               *)

(* How many records the writer has written or skipped.                     *)
Handled == IF wpc \in {"write", "end", "done"} THEN Len(consumed) - 1 ELSE Len(consumed)

(* The order of open, "log start" and the first record; a stream that is   *)
(* closed but good is never written to.                                    *)
StreamInOrder ==
    /\ wpc \in {"start", "failing"} => file = <<>> /\ consumed = <<>>
    /\ opc = "constructing" => ~is_open /\ file = <<>> /\ logged = <<>>
    /\ opc = "reopening" => reopens > 0
    /\ opc \in {"open", "destroying"} => is_open \/ ~good

(* The file is a stretch of the log, and up to date while the stream is in *)
(* a good state.                                                           *)
IsStretch(i, j, head, tail) ==
    /\ i <= j
    /\ file = head \o DueIn(SubSeq(logged, i + 1, j), level) \o tail
    /\ good => j = Handled
    /\ tail = <<LogEnd>> => wpc = "done" /\ j = Handled
    /\ wpc = "done" /\ tail = <<>> => ~good
    /\ reopens = 0 => i = 0

FileIsStretch ==
    \E i, j \in 0..Handled, head \in {<<>>, <<LogStart>>}, tail \in {<<>>, <<LogEnd>>} :
        IsStretch(i, j, head, tail)

FileInv == StreamInOrder /\ FileIsStretch

(* The recursion of DueIn: g holds what is selected of the first i records *)
(* for every i up to n.                                                    *)
Picks(s, l, n, g) ==
    g = [i \in 0..n |-> IF i = 0 THEN <<>>
                        ELSE IF LevelOf[s[i]] >= l THEN Append(g[i - 1], s[i]) ELSE g[i - 1]]

(* Such a function exists for every length: by induction on it.            *)
LEMMA PicksExists ==
  ASSUME NEW s, NEW l, NEW n \in Nat
  PROVE  \E g : Picks(s, l, n, g)
<1> DEFINE S == {k \in Nat : \E g : Picks(s, l, k, g)}
<1>1. 0 \in S
  <2>1. Picks(s, l, 0, [i \in 0..0 |-> <<>>])
    BY DEF Picks
  <2>2. QED
    BY <2>1
<1>2. ASSUME NEW k \in Nat, k \in S PROVE k + 1 \in S
  <2>1. PICK g : Picks(s, l, k, g)
    BY <1>2
  <2> DEFINE last == IF LevelOf[s[k + 1]] >= l THEN Append(g[k], s[k + 1]) ELSE g[k]
             h == [i \in 0..(k + 1) |-> IF i <= k THEN g[i] ELSE last]
  <2>2. \A i \in 0..k : h[i] = g[i]
    OBVIOUS
  <2>3. h[k + 1] = last
    OBVIOUS
  <2>4. ASSUME NEW i \in 0..(k + 1)
        PROVE  h[i] = IF i = 0 THEN <<>>
                      ELSE IF LevelOf[s[i]] >= l THEN Append(h[i - 1], s[i]) ELSE h[i - 1]
    <3> HIDE DEF h
    <3>1. CASE i = k + 1
      <4>1. h[i - 1] = g[k] /\ i # 0
        BY <2>2, <3>1
      <4>2. QED
        BY <2>3, <3>1, <4>1
    <3>2. CASE i \in 0..k
      <4>1. g[i] = IF i = 0 THEN <<>>
                   ELSE IF LevelOf[s[i]] >= l THEN Append(g[i - 1], s[i]) ELSE g[i - 1]
        BY <2>1, <3>2 DEF Picks
      <4>2. i # 0 => i - 1 \in 0..k
        BY <3>2
      <4>3. QED
        BY <2>2, <3>2, <4>1, <4>2
    <3>3. QED
      BY <3>1, <3>2
  <2>5. Picks(s, l, k + 1, h)
    <3>1. h = [i \in 0..(k + 1) |-> h[i]]
      OBVIOUS
    <3> HIDE DEF h
    <3>2. QED
      BY <2>4, <3>1 DEF Picks
  <2>6. QED
    BY <2>5
<1> HIDE DEF S
<1>3. Nat \subseteq S
  BY <1>1, <1>2, SetInduction
<1>4. QED
  BY <1>3 DEF S

(* It is determined by the records up to that length.                      *)
LEMMA PicksUnique ==
  ASSUME NEW s, NEW u, NEW l, NEW n \in Nat, NEW m \in Nat, n <= m, NEW g, NEW h,
         \A i \in 1..n : s[i] = u[i],
         Picks(s, l, n, g), Picks(u, l, m, h)
  PROVE  g[n] = h[n]
<1> DEFINE S == {k \in Nat : k <= n => g[k] = h[k]}
<1>1. 0 \in S
  BY DEF Picks
<1>2. ASSUME NEW k \in Nat, k \in S PROVE k + 1 \in S
  <2> SUFFICES ASSUME k + 1 <= n PROVE g[k + 1] = h[k + 1]
    OBVIOUS
  <2>1. k + 1 \in 0..n /\ k + 1 \in 0..m /\ k + 1 # 0 /\ (k + 1) - 1 = k /\ g[k] = h[k] /\ s[k + 1] = u[k + 1]
    BY <1>2
  <2>2. g[k + 1] = IF LevelOf[s[k + 1]] >= l THEN Append(g[k], s[k + 1]) ELSE g[k]
    BY ZenonT(60), <2>1 DEF Picks
  <2>3. h[k + 1] = IF LevelOf[u[k + 1]] >= l THEN Append(h[k], u[k + 1]) ELSE h[k]
    BY <2>1 DEF Picks
  <2>4. QED
    BY <2>1, <2>2, <2>3
<1> HIDE DEF S
<1>3. n \in S
  BY <1>1, <1>2, SetInduction
<1>4. QED
  BY <1>3 DEF S

(* DueIn is the last value of such a function.                             *)
LEMMA DueInPicks ==
  ASSUME NEW s, NEW l, Len(s) \in Nat
  PROVE  \E g : Picks(s, l, Len(s), g) /\ DueIn(s, l) = g[Len(s)]
<1> DEFINE f == CHOOSE g : Picks(s, l, Len(s), g)
<1>1. Picks(s, l, Len(s), f)
  BY PicksExists
<1>2. DueIn(s, l) = f[Len(s)]
  BY DEF DueIn, Picks
<1>3. QED
  BY <1>1, <1>2
(* Nothing is selected of nothing.                                         *)
LEMMA DueInEmpty ==
  ASSUME NEW l
  PROVE  DueIn(<<>>, l) = <<>>
<1>1. Len(<<>>) = 0
  BY EmptySeq
<1>2. PICK g : Picks(<<>>, l, 0, g) /\ DueIn(<<>>, l) = g[0]
  BY <1>1, DueInPicks
<1>3. QED
  BY <1>2 DEF Picks

(* What is selected of a longer sequence.                                  *)
LEMMA DueInAppend ==
  ASSUME NEW S, NEW s \in Seq(S), NEW x \in S, NEW l
  PROVE  DueIn(Append(s, x), l) = IF LevelOf[x] >= l THEN Append(DueIn(s, l), x) ELSE DueIn(s, l)
<1> DEFINE a == Append(s, x)
<1>1. /\ Len(s) \in Nat /\ Len(a) = Len(s) + 1 /\ a[Len(s) + 1] = x
      /\ \A i \in 1..Len(s) : a[i] = s[i]
  BY LenProperties, AppendProperties
<1> HIDE DEF a
<1>2. PICK g : Picks(s, l, Len(s), g) /\ DueIn(s, l) = g[Len(s)]
  BY <1>1, DueInPicks
<1>3. PICK h : Picks(a, l, Len(s) + 1, h) /\ DueIn(a, l) = h[Len(s) + 1]
  <2>1. Len(a) \in Nat
    BY <1>1
  <2>2. QED
    BY <1>1, <2>1, DueInPicks
<1>4. g[Len(s)] = h[Len(s)]
  <2>1. Len(s) + 1 \in Nat /\ Len(s) <= Len(s) + 1 /\ \A i \in 1..Len(s) : s[i] = a[i]
    BY <1>1
  <2>2. QED
    BY <1>1, <1>2, <1>3, <2>1, PicksUnique
<1>5. h[Len(s) + 1] = IF LevelOf[x] >= l THEN Append(h[Len(s)], x) ELSE h[Len(s)]
  <2>1. Len(s) + 1 \in 0..(Len(s) + 1) /\ Len(s) + 1 # 0 /\ (Len(s) + 1) - 1 = Len(s)
    BY <1>1
  <2>2. QED
    BY <1>1, <1>3, <2>1 DEF Picks
<1>6. QED
  BY <1>2, <1>3, <1>4, <1>5 DEF a

(* What is selected is a sequence of records.                              *)
LEMMA DueInType ==
  ASSUME NEW S, NEW s \in Seq(S), NEW l
  PROVE  DueIn(s, l) \in Seq(S)
<1>1. Len(s) \in Nat /\ \A i \in 1..Len(s) : s[i] \in S
  BY LenProperties, ElementOfSeq
<1>2. PICK g : Picks(s, l, Len(s), g) /\ DueIn(s, l) = g[Len(s)]
  BY <1>1, DueInPicks
<1> DEFINE K == {k \in Nat : k <= Len(s) => g[k] \in Seq(S)}
<1>3. 0 \in K
  BY <1>1, <1>2, EmptySeq DEF Picks
<1>4. ASSUME NEW k \in Nat, k \in K PROVE k + 1 \in K
  <2> SUFFICES ASSUME k + 1 <= Len(s) PROVE g[k + 1] \in Seq(S)
    OBVIOUS
  <2>1. k + 1 \in 0..Len(s) /\ k + 1 \in 1..Len(s) /\ k + 1 # 0 /\ (k + 1) - 1 = k /\ g[k] \in Seq(S)
    BY <1>1, <1>4
  <2>2. g[k + 1] = IF LevelOf[s[k + 1]] >= l THEN Append(g[k], s[k + 1]) ELSE g[k]
    BY <1>2, <2>1 DEF Picks
  <2>3. Append(g[k], s[k + 1]) \in Seq(S)
    BY <1>1, <2>1, AppendProperties
  <2>4. QED
    BY <2>1, <2>2, <2>3
<1> HIDE DEF K
<1>5. Len(s) \in K
  BY <1>1, <1>3, <1>4, SetInduction
<1>6. QED
  BY <1>1, <1>2, <1>5 DEF K

(* Opening, the writer's start and Reopen come in the order stated.        *)
LEMMA NextStreamInOrder ==
  ASSUME AppenderInv, StreamInOrder, [Next]_vars
  PROVE  StreamInOrder'
<1> USE AppenderAssumption
<1>t. is_open \in BOOLEAN /\ good \in BOOLEAN /\ reopens \in Nat
  BY DEF AppenderInv, TypeOK
<1>1. ASSUME NEW t \in Threads, Push(t) PROVE StreamInOrder'
  <2>1. /\ tpc[t] = "entering" /\ UNCHANGED <<opc, reopens, is_open, good, file, consumed>>
        /\ wpc' \in {"start", "failing"} => wpc' = wpc
    BY <1>1 DEF Push, NotifyWriter, svars
  <2>2. opc # "constructing"
    BY <2>1 DEF AppenderInv, PillIsLast, Threads
  <2>3. QED
    BY <2>1, <2>2 DEF StreamInOrder
<1>2. CASE WriteLogStart
  <2>1. /\ UNCHANGED <<opc, reopens, is_open, logged>> /\ wpc' = "loop" /\ wpc = "start"
        /\ is_open \/ ~good
        /\ good' => good
        /\ ~good => file' = file
    BY <1>2, <1>t, InsertFacts DEF WriteLogStart, qvars
  <2>2. opc = "constructing" => file' = <<>>
    <3>1. ASSUME opc = "constructing" PROVE ~is_open
      BY <3>1 DEF StreamInOrder
    <3>2. QED
      BY <2>1, <3>1 DEF StreamInOrder
  <2>3. QED
    BY <2>1, <2>2 DEF StreamInOrder
<1>3. CASE SetBadbit
  <2>1. /\ wpc = "failing" /\ wpc' = "loop" /\ good' = FALSE
        /\ UNCHANGED <<opc, reopens, is_open, file, logged, consumed>>
    BY <1>3 DEF SetBadbit, qvars
  <2>2. QED
    BY <2>1 DEF StreamInOrder
<1>4. CASE InsertFails \/ WaitNotEmpty \/ WriterSpuriousWakeup
  <2>1. /\ UNCHANGED <<opc, reopens, is_open, good, file, logged, consumed>>
        /\ wpc' \in {"start", "failing"} => wpc = "start"
    BY <1>4 DEF InsertFails, WaitNotEmpty, WriterSpuriousWakeup, qvars, svars
  <2>2. QED
    BY <2>1 DEF StreamInOrder
<1>5. CASE Pop
  <2>1. /\ UNCHANGED <<opc, reopens, is_open, good, file, logged>>
        /\ wpc' \notin {"start", "failing"}
    BY <1>5 DEF Pop, svars
  <2>2. QED
    BY <2>1 DEF StreamInOrder
<1>6. CASE WriteRecord \/ WriteLogEnd
  <2>1. /\ UNCHANGED <<opc, reopens, is_open, logged, consumed>>
        /\ wpc' \in {"loop", "done"} /\ (good' => good)
        /\ wpc \in {"write", "end"}
    BY <1>6, <1>t, InsertFacts DEF WriteRecord, WriteLogEnd, qvars, svars
  <2>2. opc # "constructing"
    <3>1. Len(consumed) > 0
      <4>1. CASE wpc = "write"
        BY <4>1 DEF AppenderInv, WriterHolds
      <4>2. CASE wpc = "end"
        <5>1. Pill \in Elements(consumed) /\ Len(consumed) \in Nat
          BY <4>2, ConsumedFacts DEF AppenderInv, WriterEndsAtPill
        <5>2. QED
          BY <5>1 DEF Elements
      <4>3. QED
        BY <2>1, <4>1, <4>2
    <3>2. Len(logged) > 0
      BY <3>1, ConsumedFacts
    <3>3. QED
      BY <3>2, EmptySeq DEF StreamInOrder
  <2>3. QED
    BY <1>t, <2>1, <2>2 DEF StreamInOrder
<1>7. CASE Construct \/ EndReopen
  <2>1. /\ opc' = "open" /\ UNCHANGED <<wpc, reopens, consumed, logged>>
        /\ \/ good' = FALSE /\ UNCHANGED <<is_open, file>>
           \/ good' = TRUE /\ is_open' = TRUE /\ file' = <<>>
        /\ opc \in {"constructing", "reopening"}
    BY <1>7 DEF Construct, EndReopen, OpenStream, qvars
  <2>2. QED
    BY <1>t, <2>1 DEF StreamInOrder
<1>8. CASE BeginReopen
  <2>1. /\ opc' = "reopening" /\ reopens' = reopens + 1
        /\ UNCHANGED <<wpc, file, consumed, logged>>
    BY <1>8 DEF BeginReopen, CloseStream, qvars, svars
  <2>2. QED
    BY <1>t, <2>1 DEF StreamInOrder
<1>9. CASE BeginDestroy \/ JoinAndClose
  <2>1. /\ opc' \in {"destroying", "destroyed"} /\ UNCHANGED <<wpc, reopens, file, consumed, logged>>
        /\ opc' = "destroying" => opc = "open" /\ is_open' = is_open /\ good' = good
    BY <1>9 DEF BeginDestroy, JoinAndClose, CloseStream, qvars, svars
  <2>2. QED
    BY <2>1 DEF StreamInOrder
<1>10. CASE UNCHANGED <<wpc, opc, reopens, is_open, good, file, logged, consumed>>
  BY <1>10 DEF StreamInOrder
<1>11. QED
  BY <1>1, <1>2, <1>3, <1>4, <1>5, <1>6, <1>7, <1>8, <1>9, <1>10
     DEF Next, WriterStep, BeginLog, WaitNotFull, SpuriousWakeup, Destroyed, svars, vars

(* How far the writer has got in the log.                                  *)
LEMMA HandledFacts ==
  ASSUME AppenderInv
  PROVE  /\ Handled \in Nat /\ Handled <= Len(consumed) /\ Handled <= Len(logged)
         /\ wpc \in {"write", "end", "done"} => Handled = Len(consumed) - 1
<1>1. wpc \in {"end", "done"} => Len(consumed) > 0
  <2>1. ASSUME wpc \in {"end", "done"} PROVE Len(consumed) > 0
    <3>1. Pill \in Elements(consumed)
      BY <2>1 DEF AppenderInv, WriterEndsAtPill
    <3>2. QED
      BY <3>1, ConsumedFacts DEF Elements
  <2>2. QED
    BY <2>1
<1>2. wpc = "write" => Len(consumed) > 0
  BY DEF AppenderInv, WriterHolds
<1>3. QED
  BY <1>1, <1>2, ConsumedFacts DEF Handled

(* A step that writes nothing keeps the stretch.                           *)
LEMMA StretchKept ==
  ASSUME AppenderInv, FileIsStretch,
         UNCHANGED <<file, level>>,
         Handled' = Handled,
         wpc' = "done" <=> wpc = "done",
         good' => good,
         reopens' = 0 => reopens = 0,
         \/ logged' = logged
         \/ \E x \in Records \cup {Pill} : logged' = Append(logged, x)
  PROVE  FileIsStretch'
<1>1. PICK i \in 0..Handled, j \in 0..Handled,
           head \in {<<>>, <<LogStart>>}, tail \in {<<>>, <<LogEnd>>} : IsStretch(i, j, head, tail)
  BY DEF FileIsStretch
<1>2. SubSeq(logged', i + 1, j) = SubSeq(logged, i + 1, j)
  <2>1. logged \in Seq(Records \cup {Pill}) /\ i \in 0..Len(logged) /\ j \in i..Len(logged)
    BY <1>1, HandledFacts, ConsumedFacts DEF IsStretch
  <2>2. QED
    BY SMTT(60), <2>1, SliceOfAppend
<1>3. IsStretch(i, j, head, tail)'
  BY <1>1, <1>2 DEF IsStretch
<1>4. i \in 0..Handled' /\ j \in 0..Handled'
  OBVIOUS
<1>5. QED
  BY <1>3, <1>4 DEF FileIsStretch

(* Opening the file anew starts a new stretch where the writer is.         *)
LEMMA StretchOpened ==
  ASSUME AppenderInv, StreamInOrder, Construct \/ EndReopen, file' = <<>>
  PROVE  FileIsStretch'
<1> USE AppenderAssumption
<1>1. /\ UNCHANGED <<wpc, consumed, logged, level, reopens>>
      /\ opc \in {"constructing", "reopening"}
  BY DEF Construct, EndReopen, qvars
<1>2. wpc # "done" /\ Handled \in Nat /\ Handled' = Handled
  <2>1. Pill \notin Elements(logged)
    BY <1>1 DEF AppenderInv, PillIsLast
  <2>2. Pill \notin Elements(consumed)
    <3>1. \A i \in 1..Len(consumed) : i \in 1..Len(logged) /\ logged[i] = consumed[i]
      BY ConsumedFacts
    <3>2. QED
      BY <2>1, <3>1 DEF Elements
  <2>3. QED
    BY <1>1, <2>2, HandledFacts DEF AppenderInv, WriterEndsAtPill, Handled
<1>3. reopens = 0 => Handled = 0
  <2>1. ASSUME reopens = 0 PROVE Handled = 0
    <3>1. logged = <<>>
      BY <1>1, <2>1 DEF StreamInOrder
    <3>2. QED
      BY <3>1, HandledFacts, EmptySeq
  <2>2. QED
    BY <2>1
<1>4. DueIn(SubSeq(logged, Handled + 1, Handled), level) = <<>>
  <2>1. SubSeq(logged, Handled + 1, Handled) = <<>>
    BY <1>2, SubSeqEmpty
  <2>2. QED
    BY <2>1, DueInEmpty
<1>5. <<>> \o <<>> \o <<>> = <<>>
  BY EmptySeq, ConcatEmptySeq
<1>6. PICK n \in 0..Handled : n = Handled
  BY <1>2
<1>7. IsStretch(n, n, <<>>, <<>>)'
  <2>1. <<>> # <<LogEnd>>
    OBVIOUS
  <2>2. file' = <<>> \o DueIn(SubSeq(logged', n + 1, n), level') \o <<>>
    BY <1>1, <1>4, <1>5, <1>6
  <2>3. QED
    BY <1>1, <1>2, <1>3, <1>6, <2>1, <2>2 DEF IsStretch
<1>8. n \in 0..Handled'
  BY <1>2
<1>9. QED
  BY <1>7, <1>8 DEF FileIsStretch

(* "log start" comes first in the file.                                    *)
LEMMA StretchStarted ==
  ASSUME AppenderInv, StreamInOrder, FileIsStretch, WriteLogStart
  PROVE  FileIsStretch'
<1> USE AppenderAssumption
<1>0. good \in BOOLEAN
  BY DEF AppenderInv, TypeOK
<1>1. /\ wpc = "start" /\ wpc' = "loop" /\ UNCHANGED <<consumed, logged, level, reopens>>
      /\ good' => good
      /\ \/ good /\ file' = Append(file, LogStart)
         \/ ~good' /\ file' = file
  BY <1>0, InsertFacts DEF WriteLogStart, qvars
<1>2. file = <<>> /\ consumed = <<>> /\ Handled = 0 /\ Handled' = 0
  BY <1>1, EmptySeq DEF StreamInOrder, Handled
<1>3. CASE ~good' /\ file' = file
  BY <1>1, <1>2, <1>3, StretchKept
<1>4. CASE good /\ file' = Append(file, LogStart)
  <2>1. DueIn(SubSeq(logged, 0 + 1, 0), level) = <<>>
    <3>1. SubSeq(logged, 0 + 1, 0) = <<>>
      BY SubSeqEmpty
    <3>2. QED
      BY <3>1, DueInEmpty
  <2>2. file' = <<LogStart>> \o <<>> \o <<>>
    <3>1. <<LogStart>> \in Seq({LogStart}) /\ Append(<<>>, LogStart) = <<LogStart>>
      OBVIOUS
    <3>2. QED
      BY <1>1, <1>2, <1>4, <3>1, ConcatEmptySeq
  <2>3. IsStretch(0, 0, <<LogStart>>, <<>>)'
    <3>1. <<>> # <<LogEnd>>
      OBVIOUS
    <3>2. file' = <<LogStart>> \o DueIn(SubSeq(logged', 0 + 1, 0), level') \o <<>>
      BY <1>1, <2>1, <2>2
    <3>3. QED
      BY <1>1, <1>2, <3>1, <3>2 DEF IsStretch
  <2>4. 0 \in 0..Handled'
    BY <1>2
  <2>5. QED
    BY <2>3, <2>4 DEF FileIsStretch
<1>5. QED
  BY <1>1, <1>3, <1>4

(* A record extends the stretch by one, written or skipped; a stream that  *)
(* has failed is left behind.                                              *)
LEMMA StretchExtended ==
  ASSUME AppenderInv, FileIsStretch, WriteRecord
  PROVE  FileIsStretch'
<1> USE AppenderAssumption
<1> DEFINE R == Records \cup {Pill}
           U == Records \cup {Pill, LogStart, LogEnd}
<1>0. wrec \in Records /\ good \in BOOLEAN
  BY DEF WriteRecord, AppenderInv, TypeOK
<1>1. /\ wpc = "write" /\ wpc' = "loop" /\ UNCHANGED <<consumed, logged, level, reopens>>
      /\ good' => good
      /\ \/ good /\ file' = IF LevelOf[wrec] >= level THEN Append(file, wrec) ELSE file
         \/ ~good' /\ file' = file
      /\ wrec \in Records
  BY <1>0, InsertFacts DEF WriteRecord, Due, qvars, svars
<1>2. /\ Handled \in Nat /\ Handled' = Handled + 1 /\ Handled + 1 = Len(consumed)
      /\ Handled + 1 <= Len(logged)
  BY <1>1, HandledFacts, ConsumedFacts DEF Handled
<1>3. logged[Handled + 1] = wrec
  <2>1. wrec = consumed[Len(consumed)]
    BY <1>1 DEF AppenderInv, WriterHolds
  <2>2. QED
    BY <1>2, <2>1, ConsumedFacts
<1>4. PICK i \in 0..Handled, j \in 0..Handled,
           head \in {<<>>, <<LogStart>>}, tail \in {<<>>, <<LogEnd>>} : IsStretch(i, j, head, tail)
  BY DEF FileIsStretch
<1>5. /\ i <= j /\ (reopens = 0 => i = 0) /\ tail = <<>> /\ (good => j = Handled)
      /\ file = head \o DueIn(SubSeq(logged, i + 1, j), level) \o tail
  BY <1>1, <1>4 DEF IsStretch
<1>6. CASE ~good' /\ file' = file
  <2>1. IsStretch(i, j, head, <<>>)'
    <3>1. <<>> # <<LogEnd>> /\ file' = file
      BY <1>1, <1>6
    <3>2. QED
      BY <1>1, <1>5, <1>6, <3>1 DEF IsStretch
  <2>2. i \in 0..Handled' /\ j \in 0..Handled'
    BY <1>2
  <2>3. QED
    BY <2>1, <2>2 DEF FileIsStretch
<1>7. CASE good /\ file' = IF LevelOf[wrec] >= level THEN Append(file, wrec) ELSE file
  <2> DEFINE before == DueIn(SubSeq(logged, i + 1, j), level)
             after == DueIn(SubSeq(logged, i + 1, j + 1), level)
  <2>1. logged \in Seq(R) /\ i \in 0..Len(logged) /\ j \in i..Len(logged) /\ j + 1 <= Len(logged)
    BY <1>2, <1>5, <1>7, ConsumedFacts
  <2>2. /\ SubSeq(logged, i + 1, j) \in Seq(R)
        /\ SubSeq(logged, i + 1, j + 1) = Append(SubSeq(logged, i + 1, j), wrec)
    <3>1. logged[j + 1] = wrec
      BY <1>3, <1>5, <1>7
    <3> HIDE DEF R
    <3>2. SubSeq(logged, i + 1, j) \in Seq(R)
      BY <2>1, Slice
    <3>3. SubSeq(logged, i + 1, j + 1) = Append(SubSeq(logged, i + 1, j), logged[j + 1])
      BY <2>1, SliceExtended
    <3>4. QED
      BY <3>1, <3>2, <3>3
  <2>3. after = IF LevelOf[wrec] >= level THEN Append(before, wrec) ELSE before
    <3>1. wrec \in R
      BY <1>1
    <3> HIDE DEF R
    <3>2. DueIn(Append(SubSeq(logged, i + 1, j), wrec), level)
            = IF LevelOf[wrec] >= level THEN Append(before, wrec) ELSE before
      BY ZenonT(60), <2>2, <3>1, DueInAppend
    <3>3. QED
      BY <2>2, <3>2
  <2>4. before \in Seq(R)
    BY <2>2, DueInType
  <2> HIDE DEF before, after
  <2>5. head \in Seq(U) /\ before \in Seq(U) /\ wrec \in U
    <3>1. R \subseteq U
      OBVIOUS
    <3>2. before \in Seq(U)
      BY <2>4, <3>1, SeqOfSubset
    <3>3. <<>> \in Seq(U) /\ <<LogStart>> \in Seq(U)
      BY EmptySeq
    <3>4. QED
      BY <1>1, <3>2, <3>3
  <2>6. file = head \o before
    <3>1. head \o before \in Seq(U)
      BY <2>5, ConcatProperties
    <3>2. QED
      BY <1>5, <3>1, ConcatEmptySeq DEF before
  <2>7. file' = head \o after
    <3>1. head \o Append(before, wrec) = Append(head \o before, wrec)
      BY <2>5, AppendToSecond
    <3>2. QED
      BY <1>1, <1>7, <2>3, <2>6, <3>1
  <2>8. file' = head \o after \o <<>>
    <3>1. head \o after \in Seq(U)
      BY <1>1, <2>3, <2>5, ConcatProperties, AppendProperties
    <3>2. QED
      BY <2>7, <3>1, ConcatEmptySeq
  <2>9. PICK k \in 0..Handled' : k = j + 1
    BY <1>2, <1>5, <1>7
  <2>10. IsStretch(i, k, head, <<>>)'
    <3>1. <<>> # <<LogEnd>> /\ i <= k /\ k = Handled'
      BY <1>2, <1>5, <1>7, <2>9
    <3>2. file' = head \o DueIn(SubSeq(logged', i + 1, k), level') \o <<>>
      BY <1>1, <2>8, <2>9 DEF after
    <3>3. QED
      BY <1>1, <1>5, <3>1, <3>2 DEF IsStretch
  <2>11. i \in 0..Handled'
    BY <1>2
  <2>12. QED
    BY <2>10, <2>11 DEF FileIsStretch
<1>8. QED
  BY <1>1, <1>6, <1>7

(* "log end" comes last in the file.                                       *)
LEMMA StretchEnded ==
  ASSUME AppenderInv, FileIsStretch, WriteLogEnd
  PROVE  FileIsStretch'
<1> USE AppenderAssumption
<1> DEFINE R == Records \cup {Pill}
           U == Records \cup {Pill, LogStart, LogEnd}
<1>0. good \in BOOLEAN
  BY DEF AppenderInv, TypeOK
<1>1. /\ wpc = "end" /\ wpc' = "done" /\ UNCHANGED <<consumed, logged, level, reopens>>
      /\ good' => good
      /\ \/ good /\ file' = Append(file, LogEnd)
         \/ ~good' /\ file' = file
  BY <1>0, InsertFacts DEF WriteLogEnd, qvars
<1>2. Handled \in Nat /\ Handled' = Handled
  BY <1>1, HandledFacts DEF Handled
<1>3. PICK i \in 0..Handled, j \in 0..Handled,
           head \in {<<>>, <<LogStart>>}, tail \in {<<>>, <<LogEnd>>} : IsStretch(i, j, head, tail)
  BY DEF FileIsStretch
<1> DEFINE written == DueIn(SubSeq(logged, i + 1, j), level)
<1>4. /\ i <= j /\ (reopens = 0 => i = 0) /\ tail = <<>> /\ (good => j = Handled)
      /\ file = head \o written \o tail
  BY <1>1, <1>3 DEF IsStretch
<1>5. <<>> # <<LogEnd>> /\ i \in 0..Handled' /\ j \in 0..Handled'
  BY <1>2
<1>6. CASE ~good' /\ file' = file
  <2>1. IsStretch(i, j, head, <<>>)'
    BY <1>1, <1>4, <1>5, <1>6 DEF IsStretch
  <2>2. QED
    BY <1>5, <2>1 DEF FileIsStretch
<1>7. CASE good /\ file' = Append(file, LogEnd)
  <2>1. head \o written \in Seq(U)
    <3>1. logged \in Seq(R) /\ i \in 0..Len(logged) /\ j \in i..Len(logged)
      BY <1>2, <1>4, HandledFacts, ConsumedFacts
    <3>2. SubSeq(logged, i + 1, j) \in Seq(R)
      BY <3>1, Slice
    <3>3. written \in Seq(R)
      BY <3>2, DueInType
    <3> HIDE DEF written
    <3>4. R \subseteq U /\ head \in Seq(U)
      <4>1. <<>> \in Seq(U) /\ <<LogStart>> \in Seq(U)
        BY EmptySeq
      <4>2. QED
        BY <4>1
    <3>5. written \in Seq(U)
      BY <3>3, <3>4, SeqOfSubset
    <3>6. QED
      BY <3>4, <3>5, ConcatProperties
  <2>2. (head \o written) \o <<>> = head \o written
    BY <2>1, ConcatEmptySeq
  <2>3. file' = head \o written \o <<LogEnd>>
    <3> HIDE DEF written
    <3>1. Append(head \o written, LogEnd) = (head \o written) \o <<LogEnd>>
      BY <2>1, AppendIsConcat
    <3>2. QED
      BY <1>1, <1>4, <1>7, <2>2, <3>1
  <2>4. IsStretch(i, j, head, <<LogEnd>>)'
    BY <1>1, <1>2, <1>4, <1>5, <1>7, <2>3 DEF IsStretch
  <2>5. QED
    BY <1>5, <2>4 DEF FileIsStretch
<1>8. QED
  BY <1>1, <1>6, <1>7

(* The file stays one stretch of the log in every step.                    *)
LEMMA NextFileInv ==
  ASSUME AppenderInv, FileInv, [Next]_vars
  PROVE  FileInv'
<1> USE AppenderAssumption
<1>t. StreamInOrder /\ FileIsStretch /\ StreamInOrder'
  BY NextStreamInOrder DEF FileInv
<1>g. good \in BOOLEAN
  BY DEF AppenderInv, TypeOK
<1> SUFFICES FileIsStretch'
  BY <1>t DEF FileInv
<1>1. ASSUME NEW t \in Threads, Push(t) PROVE FileIsStretch'
  <2>1. /\ tpc[t] = "entering" /\ UNCHANGED <<reopens, good, file, level, consumed>>
        /\ wpc' = IF wpc = "waiting" THEN "loop" ELSE wpc
        /\ logged' = Append(logged, trec[t])
    BY <1>1 DEF Push, NotifyWriter, svars
  <2>2. trec[t] \in Records \cup {Pill}
    BY <2>1 DEF AppenderInv, TypeOK
  <2>3. Handled' = Handled /\ (wpc' = "done" <=> wpc = "done")
    BY <2>1 DEF Handled
  <2>4. QED
    BY <1>t, <2>1, <2>2, <2>3, StretchKept
<1>2. CASE WriteLogStart
  BY <1>t, <1>2, StretchStarted
<1>3. CASE SetBadbit \/ InsertFails \/ WaitNotEmpty \/ WriterSpuriousWakeup
  <2>1. /\ UNCHANGED <<reopens, file, level, logged, consumed>> /\ (good' => good)
        /\ wpc \in {"start", "failing", "loop", "waiting"}
        /\ wpc' \in {"start", "failing", "loop", "waiting"}
    BY <1>3 DEF SetBadbit, InsertFails, WaitNotEmpty, WriterSpuriousWakeup, qvars, svars
  <2>2. Handled' = Handled /\ (wpc' = "done" <=> wpc = "done")
    BY <2>1 DEF Handled
  <2>3. QED
    BY <1>t, <2>1, <2>2, StretchKept
<1>4. CASE Pop
  <2>1. /\ UNCHANGED <<reopens, good, file, level, logged>>
        /\ wpc = "loop" /\ wpc' \in {"end", "write"} /\ queue # <<>>
        /\ consumed' = Append(consumed, Head(queue))
    BY <1>4 DEF Pop, svars
  <2>2. Len(consumed') = Len(consumed) + 1 /\ Len(consumed) \in Nat
    <3>1. consumed \in Seq(Records \cup {Pill}) /\ Head(queue) \in Records \cup {Pill}
      BY <2>1, HeadTailProperties DEF AppenderInv, TypeOK
    <3>2. QED
      BY <2>1, <3>1, AppendProperties, LenProperties
  <2>3. Handled' = Handled /\ (wpc' = "done" <=> wpc = "done")
    BY <2>1, <2>2 DEF Handled
  <2>4. QED
    BY <1>t, <2>1, <2>3, StretchKept
<1>5. CASE WriteRecord
  BY <1>t, <1>5, StretchExtended
<1>6. CASE WriteLogEnd
  BY <1>t, <1>6, StretchEnded
<1>7. CASE Construct \/ EndReopen
  <2>1. CASE file' = <<>>
    BY <1>t, <1>7, <2>1, StretchOpened
  <2>2. CASE good' = FALSE /\ UNCHANGED file
    <3>1. UNCHANGED <<wpc, reopens, level, logged, consumed>>
      BY <1>7 DEF Construct, EndReopen, qvars
    <3>2. Handled' = Handled
      BY <3>1 DEF Handled
    <3>3. QED
      BY <1>t, <2>2, <3>1, <3>2, StretchKept
  <2>3. QED
    BY <1>7, <2>1, <2>2 DEF Construct, EndReopen, OpenStream
<1>8. CASE BeginReopen
  <2>1. UNCHANGED <<wpc, file, level, logged, consumed>> /\ reopens' = reopens + 1 /\ (good' => good)
    BY <1>8 DEF BeginReopen, CloseStream, qvars, svars
  <2>2. reopens' = 0 => reopens = 0
    BY <2>1 DEF AppenderInv, TypeOK
  <2>3. Handled' = Handled
    BY <2>1 DEF Handled
  <2>4. QED
    BY <1>t, <2>1, <2>2, <2>3, StretchKept
<1>9. CASE UNCHANGED <<wpc, reopens, good, file, level, logged, consumed>>
  <2>1. Handled' = Handled
    BY <1>9 DEF Handled
  <2>2. QED
    BY <1>t, <1>9, <2>1, StretchKept
<1>10. CASE JoinAndClose
  <2>1. UNCHANGED <<wpc, reopens, file, level, logged, consumed>> /\ (good' => good)
    BY <1>10, <1>g DEF JoinAndClose, CloseStream, qvars
  <2>2. Handled' = Handled
    BY <2>1 DEF Handled
  <2>3. QED
    BY <1>t, <2>1, <2>2, StretchKept
<1>11. QED
  BY <1>1, <1>2, <1>3, <1>4, <1>5, <1>6, <1>7, <1>8, <1>9, <1>10
     DEF Next, WriterStep, BeginLog, WaitNotFull, SpuriousWakeup, BeginDestroy,
         Destroyed, qvars, svars, vars

(* Before the file is opened it is an empty stretch.                       *)
LEMMA InitFileInv == Init => FileInv
<1> SUFFICES ASSUME Init PROVE FileInv
  OBVIOUS
<1>1. StreamInOrder
  BY DEF Init, StreamInOrder
<1>2. Handled = 0
  BY EmptySeq DEF Init, Handled
<1>3. IsStretch(0, 0, <<>>, <<>>)
  <2>1. SubSeq(logged, 0 + 1, 0) = <<>>
    BY SubSeqEmpty
  <2>2. file = <<>> \o DueIn(SubSeq(logged, 0 + 1, 0), level) \o <<>>
    BY <2>1, DueInEmpty, EmptySeq, ConcatEmptySeq DEF Init
  <2>3. <<>> # <<LogEnd>> /\ wpc = "start"
    BY DEF Init
  <2>4. QED
    BY <1>2, <2>2, <2>3 DEF IsStretch
<1>4. QED
  BY <1>1, <1>2, <1>3 DEF FileInv, FileIsStretch

(* When the destructor has returned, the writer has handled the whole log  *)
(* but the pill.                                                           *)
LEMMA StretchAtDestruction ==
  ASSUME AppenderInv, FileInv, DrainedAtDestruction, opc = "destroyed" => wpc = "done"
  PROVE  FileIsOneStretch
<1> SUFFICES ASSUME opc = "destroyed"
             PROVE  \E i, j \in 0..(Len(logged) - 1),
                       head \in {<<>>, <<LogStart>>}, tail \in {<<>>, <<LogEnd>>} :
                      /\ file = head \o DueIn(SubSeq(logged, i + 1, j), level) \o tail
                      /\ tail = <<LogEnd>> => j = Len(logged) - 1
                      /\ tail = <<>> => ~good
                      /\ reopens = 0 => i = 0
  BY DEF FileIsOneStretch
<1>1. Handled = Len(logged) - 1
  <2>1. logged = consumed
    BY ConcatEmptySeq DEF AppenderInv, TypeOK, ConsumedInOrder, DrainedAtDestruction
  <2>2. QED
    BY <2>1, HandledFacts
<1>2. PICK i \in 0..Handled, j \in 0..Handled,
           head \in {<<>>, <<LogStart>>}, tail \in {<<>>, <<LogEnd>>} : IsStretch(i, j, head, tail)
  BY DEF FileInv, FileIsStretch
<1>3. /\ file = head \o DueIn(SubSeq(logged, i + 1, j), level) \o tail
      /\ tail = <<LogEnd>> => j = Len(logged) - 1
      /\ tail = <<>> => ~good
      /\ reopens = 0 => i = 0
  BY <1>1, <1>2 DEF IsStretch
<1>4. QED
  BY <1>1, <1>2, <1>3

(* FileIsOneStretch: after any interleaving of the constructor, callers of *)
(* Log, the writer, Reopen and the destructor, and whichever opens, writes *)
(* and closes fail, the stream has taken one gapless stretch of the log,   *)
(* from its first record unless Reopen was called and to its end unless    *)
(* the stream has failed.                                                  *)
THEOREM FileHoldsOneStretch == Spec => []FileIsOneStretch
<1>1. Init /\ AppenderInv => FileInv
  BY InitFileInv
<1>2. AppenderInv /\ FileInv /\ [Next]_vars => FileInv'
  BY NextFileInv
<1>3. AppenderInv /\ FileInv /\ DrainedAtDestruction => FileIsOneStretch
  BY StretchAtDestruction DEF AppenderInv, WriterEndsAtPill
<1>4. QED
  BY <1>1, <1>2, <1>3, AppenderInvariant, DestructorDrains, PTL DEF Spec
=============================================================================
