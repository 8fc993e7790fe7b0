---------------------------- MODULE FileAppender ----------------------------
(***************************************************************************)
(* cppserver_logger::FileAppender: threads that log put records into a     *)
(* bounded queue (mtx_, cv_not_full_, cv_not_empty_), a writer thread      *)
(* writes them to an ofstream, the destructor sends a last record of level *)
(* OTHER and joins the writer.                                             *)
(*                                                                         *)
(* The constructor starts the writer before it opens the file, and the     *)
(* writer's "log start" takes no lock: the two race.  An insertion into a  *)
(* closed stream fails in two steps, the attempt and setstate(badbit), and *)
(* a successful open() between them clears the state too early.            *)
(* As C++ demands of the callers, Log and Reopen are called only between   *)
(* the constructor's and the destructor's call.                            *)
(***************************************************************************)
EXTENDS Naturals, Sequences, FiniteSets

CONSTANTS Producers,     \* threads that log
          Owner,         \* the thread that constructs, reopens and destroys
          Records,       \* log events, each logged at most once
          LevelOf,       \* the level that each record is logged with
          LoggerLevel,   \* Logger::level_
          Levels,        \* what the uninitialised Appender::level_ may hold
          MaxQueue,      \* max_queue_size_
          DiskMayFail,   \* can opening, writing or closing the file fail?
          MaxReopens,    \* bound: calls of Reopen
          Pill,          \* the record of level OTHER
          LogStart, LogEnd,
          NoRecord

ASSUME AppenderAssumption ==
    /\ IsFiniteSet(Producers)
    /\ Owner \notin Producers
    /\ LevelOf \in [Records -> Nat]
    /\ LoggerLevel \in Nat
    /\ Levels \subseteq Nat /\ Levels # {}
    /\ MaxQueue \in Nat \ {0}
    /\ DiskMayFail \in BOOLEAN
    /\ MaxReopens \in Nat
    /\ Pill \notin Records
    /\ LogStart \notin Records /\ LogEnd \notin Records
    /\ NoRecord \notin Records \cup {Pill}

VARIABLES queue,     \* queue_
          tpc,       \* where each thread is in Log
          trec,      \* the record that it logs
          wpc,       \* where the writer is in ConsumeLog
          wrec,      \* event_pair
          opc,       \* where the owner is
          reopens,   \* how often Reopen was called
          is_open,   \* file_stream_.is_open()
          good,      \* !!file_stream_
          file,      \* what the stream has taken since the file was opened
          level,     \* Appender::level_
          logged,    \* history: the records pushed, in order
          consumed   \* history: the records popped, in order

qvars == <<queue, tpc, trec, logged>>
svars == <<is_open, good, file>>
vars == <<queue, tpc, trec, wpc, wrec, opc, reopens, is_open, good, file, level,
          logged, consumed>>

Threads == Producers \cup {Owner}
Waiting == {t \in Threads : tpc[t] = "waiting"}
Entering == {t \in Threads : tpc[t] = "entering"}

Elements(s) == {s[i] : i \in 1..Len(s)}

(* Records that Logger::Log passes on, and those the appender then writes. *)
Passes(r) == LevelOf[r] >= LoggerLevel
Due(r) == LevelOf[r] >= level

Init ==
    /\ queue = <<>>
    /\ tpc = [t \in Threads |-> "idle"]
    /\ trec = [t \in Threads |-> NoRecord]
    /\ wpc = "start" /\ wrec = NoRecord
    /\ opc = "constructing"
    /\ reopens = 0
    /\ is_open = FALSE /\ good = TRUE
    /\ file = <<>>
    /\ level \in Levels
    /\ logged = <<>> /\ consumed = <<>>

-----------------------------------------------------------------------------
(* The stream.                                                             *)

(* file_stream_.open(): sets failbit on a stream that is open already or   *)
(* when the file cannot be opened; otherwise truncates the file and clears *)
(* the state.                                                              *)
OpenStream ==
    \/ /\ is_open \/ DiskMayFail
       /\ good' = FALSE
       /\ UNCHANGED <<is_open, file>>
    \/ /\ ~is_open
       /\ good' = TRUE /\ is_open' = TRUE
       /\ file' = <<>>

(* file_stream_ << x on a stream that is open or has already failed.  A    *)
(* write that fails (no space, an I/O error) sets badbit, at once or when  *)
(* x is flushed.                                                           *)
Insert(x) ==
    /\ is_open \/ ~good
    /\ \/ /\ file' = IF good THEN Append(file, x) ELSE file
          /\ UNCHANGED good
       \/ /\ good /\ DiskMayFail
          /\ good' = FALSE
          /\ file' \in {file, Append(file, x)}
    /\ UNCHANGED is_open

(* file_stream_.close(): sets failbit when the last flush fails.           *)
CloseStream ==
    /\ is_open' = FALSE
    /\ good' \in IF DiskMayFail THEN {good, FALSE} ELSE {good}
    /\ UNCHANGED file

-----------------------------------------------------------------------------
(* Logger::Log and FileAppender::Log.                                      *)

BeginLog(p, r) ==
    /\ tpc[p] = "idle"
    /\ opc \in {"open", "reopening"}
    /\ r \notin Elements(logged) /\ \A t \in Threads : trec[t] # r
    /\ Passes(r)
    /\ tpc' = [tpc EXCEPT ![p] = "entering"]
    /\ trec' = [trec EXCEPT ![p] = r]
    /\ UNCHANGED <<queue, wpc, wrec, opc, reopens, svars, level, logged, consumed>>

(* Mutant: while (queue_.size() > max_queue_size_).                        *)
HasRoomForOneMore == Len(queue) <= MaxQueue

HasRoom == Len(queue) < MaxQueue

WaitNotFull(t) ==
    /\ tpc[t] = "entering"
    /\ ~HasRoom
    /\ tpc' = [tpc EXCEPT ![t] = "waiting"]
    /\ UNCHANGED <<queue, trec, wpc, wrec, opc, reopens, svars, level, logged, consumed>>

SpuriousWakeup(t) ==
    /\ tpc[t] = "waiting"
    /\ tpc' = [tpc EXCEPT ![t] = "entering"]
    /\ UNCHANGED <<queue, trec, wpc, wrec, opc, reopens, svars, level, logged, consumed>>

(* Mutant: the call of cv_not_empty_.notify_one() is missing.              *)
NotifyNoWriter == UNCHANGED wpc

(* The writer is the only thread that waits for cv_not_empty_.             *)
NotifyWriter == wpc' = IF wpc = "waiting" THEN "loop" ELSE wpc

(* push and notify_one under mtx_.                                         *)
Push(t) ==
    /\ tpc[t] = "entering"
    /\ HasRoom
    /\ queue' = Append(queue, trec[t])
    /\ logged' = Append(logged, trec[t])
    /\ tpc' = [tpc EXCEPT ![t] = "idle"]
    /\ trec' = [trec EXCEPT ![t] = NoRecord]
    /\ NotifyWriter
    /\ UNCHANGED <<wrec, opc, reopens, svars, level, consumed>>

-----------------------------------------------------------------------------
(* The writer: ConsumeLog.                                                 *)

WriteLogStart ==
    /\ wpc = "start"
    /\ Insert(LogStart)
    /\ wpc' = "loop"
    /\ UNCHANGED <<qvars, wrec, opc, reopens, level, consumed>>

(* The insertion has found the stream closed ...                           *)
InsertFails ==
    /\ wpc = "start"
    /\ ~is_open /\ good
    /\ wpc' = "failing"
    /\ UNCHANGED <<qvars, wrec, opc, reopens, svars, level, consumed>>

(* ... and sets badbit, whether or not the stream is still closed.         *)
SetBadbit ==
    /\ wpc = "failing"
    /\ good' = FALSE
    /\ wpc' = "loop"
    /\ UNCHANGED <<qvars, wrec, opc, reopens, is_open, file, level, consumed>>

WaitNotEmpty ==
    /\ wpc = "loop"
    /\ queue = <<>>
    /\ wpc' = "waiting"
    /\ UNCHANGED <<qvars, wrec, opc, reopens, svars, level, consumed>>

WriterSpuriousWakeup ==
    /\ wpc = "waiting"
    /\ wpc' = "loop"
    /\ UNCHANGED <<qvars, wrec, opc, reopens, svars, level, consumed>>

(* Mutants: pop without cv_not_full_.notify_one(), front() without pop().  *)
NotifyNoCaller == UNCHANGED tpc
FrontStays == queue

NotifyOneCaller ==
    \/ \E t \in Waiting : tpc' = [tpc EXCEPT ![t] = "entering"]
    \/ Waiting = {} /\ UNCHANGED tpc

Popped == Tail(queue)

(* front, pop and cv_not_full_.notify_one() under mtx_.                    *)
Pop ==
    /\ wpc = "loop"
    /\ queue # <<>>
    /\ wrec' = Head(queue)
    /\ queue' = Popped
    /\ consumed' = Append(consumed, Head(queue))
    /\ NotifyOneCaller
    /\ wpc' = IF Head(queue) = Pill THEN "end" ELSE "write"
    /\ UNCHANGED <<trec, opc, reopens, svars, level, logged>>

(* Under file_mtx_, which Reopen holds while it is at work.                *)
WriteRecord ==
    /\ wpc = "write"
    /\ opc # "reopening"
    /\ IF Due(wrec) THEN Insert(wrec) ELSE UNCHANGED svars
    /\ wpc' = "loop"
    /\ wrec' = NoRecord
    /\ UNCHANGED <<qvars, opc, reopens, level, consumed>>

WriteLogEnd ==
    /\ wpc = "end"
    /\ Insert(LogEnd)
    /\ wpc' = "done"
    /\ wrec' = NoRecord
    /\ UNCHANGED <<qvars, opc, reopens, level, consumed>>

-----------------------------------------------------------------------------
(* The owner.                                                              *)

Construct ==
    /\ opc = "constructing"
    /\ OpenStream
    /\ opc' = "open"
    /\ UNCHANGED <<qvars, wpc, wrec, reopens, level, consumed>>

(* Reopen, first half: close() if the stream is in a good state.           *)
BeginReopen ==
    /\ opc = "open"
    /\ reopens < MaxReopens
    /\ IF good THEN CloseStream ELSE UNCHANGED svars
    /\ reopens' = reopens + 1
    /\ opc' = "reopening"
    /\ UNCHANGED <<qvars, wpc, wrec, level, consumed>>

EndReopen ==
    /\ opc = "reopening"
    /\ OpenStream
    /\ opc' = "open"
    /\ UNCHANGED <<qvars, wpc, wrec, reopens, level, consumed>>

(* The destructor logs the pill; callers of Log have returned.             *)
BeginDestroy ==
    /\ opc = "open"
    /\ \A t \in Threads : tpc[t] = "idle"
    /\ opc' = "destroying"
    /\ tpc' = [tpc EXCEPT ![Owner] = "entering"]
    /\ trec' = [trec EXCEPT ![Owner] = Pill]
    /\ UNCHANGED <<queue, wpc, wrec, reopens, svars, level, logged, consumed>>

(* Mutant: the writer thread is detached, not joined.                      *)
WriterDetached == TRUE

WriterJoined == wpc = "done"

JoinAndClose ==
    /\ opc = "destroying"
    /\ tpc[Owner] = "idle"
    /\ WriterJoined
    /\ CloseStream
    /\ opc' = "destroyed"
    /\ UNCHANGED <<qvars, wpc, wrec, reopens, level, consumed>>

Destroyed == opc = "destroyed" /\ UNCHANGED vars

-----------------------------------------------------------------------------
WriterStep ==
    \/ WriteLogStart \/ InsertFails \/ SetBadbit
    \/ WaitNotEmpty \/ Pop \/ WriteRecord \/ WriteLogEnd

Next ==
    \/ \E p \in Producers, r \in Records : BeginLog(p, r)
    \/ \E t \in Threads : WaitNotFull(t) \/ SpuriousWakeup(t) \/ Push(t)
    \/ WriterStep
    \/ WriterSpuriousWakeup
    \/ Construct
    \/ BeginReopen \/ EndReopen
    \/ BeginDestroy \/ JoinAndClose
    \/ Destroyed

(* Threads that can run do run; nobody has to log, reopen or destroy.      *)
Fairness ==
    /\ WF_vars(WriterStep)
    /\ \A t \in Threads : WF_vars(WaitNotFull(t) \/ Push(t))
    /\ WF_vars(EndReopen)
    /\ WF_vars(JoinAndClose)

Spec == Init /\ [][Next]_vars
FairSpec == Spec /\ Fairness
-----------------------------------------------------------------------------
(* Properties.                                                             *)

(* Types; the queue never exceeds max_queue_size_.                         *)
TypeOK ==
    /\ queue \in Seq(Records \cup {Pill})
    /\ Len(queue) <= MaxQueue
    /\ tpc \in [Threads -> {"idle", "entering", "waiting"}]
    /\ trec \in [Threads -> Records \cup {Pill, NoRecord}]
    /\ \A t \in Threads : tpc[t] = "idle" <=> trec[t] = NoRecord
    /\ wpc \in {"start", "failing", "loop", "waiting", "write", "end", "done"}
    /\ wrec \in Records \cup {Pill, NoRecord}
    /\ wpc = "write" => wrec \in Records
    /\ opc \in {"constructing", "open", "reopening", "destroying", "destroyed"}
    /\ reopens \in 0..MaxReopens
    /\ is_open \in BOOLEAN /\ good \in BOOLEAN
    /\ file \in Seq(Records \cup {LogStart, LogEnd})
    /\ level \in Levels
    /\ logged \in Seq(Records \cup {Pill})
    /\ consumed \in Seq(Records \cup {Pill})

(* The writer takes the records in the order in which Log queued them.     *)
ConsumedInOrder == logged = consumed \o queue

(* No wakeup of a blocked caller is lost although Pop notifies only one of *)
(* them: as long as one sleeps, the free places in the queue are all       *)
(* spoken for by callers that are awake.                                   *)
SleepersJustified ==
    Waiting # {} => MaxQueue <= Len(queue) + Cardinality(Entering)

(* The writer sleeps only on an empty queue: it cannot miss a push between *)
(* testing queue_.empty() and falling asleep.                              *)
WriterSleepsOnEmpty == wpc = "waiting" => queue = <<>>

(* When the destructor returns nothing is left behind: the queue is empty  *)
(* and the pill was the last record, so no record was overtaken by it.     *)
DrainedAtDestruction ==
    opc = "destroyed" =>
        /\ queue = <<>>
        /\ Len(consumed) > 0 /\ consumed[Len(consumed)] = Pill
        /\ \A i \in 1..(Len(consumed) - 1) : consumed[i] # Pill

(* The records of s that an appender of level l writes: SelectSeq, written *)
(* as a recursive function.                                                *)
DueIn(s, l) ==
    LET pick[i \in 0..Len(s)] ==
            IF i = 0 THEN <<>>
            ELSE IF LevelOf[s[i]] >= l THEN Append(pick[i - 1], s[i])
            ELSE pick[i - 1]
    IN  pick[Len(s)]

(* What the stream has taken when the destructor returns is one stretch of *)
(* the log: due records in the order of Log and without a gap, after "log  *)
(* start" (or not: it may come before the open), from the first record on  *)
(* unless Reopen was called, and up to the last one and "log end" unless   *)
(* the stream has failed.                                                  *)
FileIsOneStretch ==
    opc = "destroyed" =>
        LET last == Len(logged) - 1 IN
        \E i, j \in 0..last, head \in {<<>>, <<LogStart>>}, tail \in {<<>>, <<LogEnd>>} :
            /\ file = head \o DueIn(SubSeq(logged, i + 1, j), level) \o tail
            /\ tail = <<LogEnd>> => j = last
            /\ tail = <<>> => ~good
            /\ reopens = 0 => i = 0

(* Every call of Log returns: a full queue is drained.                     *)
LogReturns == \A t \in Threads : tpc[t] = "entering" ~> tpc[t] = "idle"

(* The destructor returns: the pill reaches the writer.                    *)
DestructorReturns == opc = "destroying" ~> opc = "destroyed"

(* To its callers the appender is a TaskService that runs one task at a    *)
(* time: logging is submitting a record, and writing or skipping it is     *)
(* running it.                                                             *)
BeforePill(s) == IF s # <<>> /\ s[Len(s)] = Pill THEN SubSeq(s, 1, Len(s) - 1) ELSE s

Service == INSTANCE TaskService WITH
    Tasks     <- Records,
    Slots     <- 1,
    submitted <- BeforePill(logged),
    begun     <- Len(BeforePill(consumed)),
    ended     <- Elements(consumed) \ {wrec, Pill},
    phase     <- CASE opc = "destroying" -> "closing"
                   [] opc = "destroyed" -> "closed"
                   [] OTHER -> "open"

(* Whatever threads log, wait, reopen and destroy: records are taken up    *)
(* one at a time in the order of Log, and the destructor returns only when *)
(* the last of them has been dealt with.                                   *)
ImplementsService == Service!Spec

(* "if the file is already opened, close it and open again" (logger.h:201) *)
(* After Reopen, with a disk that never refuses, the stream can be written *)
ReopenRestores == [][opc = "reopening" /\ opc' = "open" => good']_vars
=============================================================================
