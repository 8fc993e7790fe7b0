---------------------------- MODULE TaskService ----------------------------
(***************************************************************************)
(* What ThreadPool promises its clients, and FileAppender its callers, for *)
(* whom logging a record is submitting a task: without threads, locks or   *)
(* condition variables, tasks begin in the order in which they were        *)
(* submitted, at most Slots of them run at a time, and the service closes  *)
(* only when every task that it took has ended.                            *)
(***************************************************************************)
EXTENDS Naturals, Sequences, FiniteSets

CONSTANTS Tasks,      \* whatever a client may submit
          Slots       \* how many tasks may run at once

VARIABLES submitted,  \* the tasks taken, in order
          begun,      \* how many of them have begun
          ended,      \* the set of those that have ended
          phase       \* "open", "closing" or "closed"

svars == <<submitted, begun, ended, phase>>

Taken == {submitted[i] : i \in 1..Len(submitted)}

Init ==
    /\ submitted = <<>>
    /\ begun = 0
    /\ ended = {}
    /\ phase = "open"

Submit(t) ==
    /\ phase = "open"
    /\ t \notin Taken
    /\ submitted' = Append(submitted, t)
    /\ UNCHANGED <<begun, ended, phase>>

Begin ==
    /\ phase # "closed"
    /\ begun < Len(submitted)
    /\ begun - Cardinality(ended) < Slots
    /\ begun' = begun + 1
    /\ UNCHANGED <<submitted, ended, phase>>

End(t) ==
    /\ phase # "closed"
    /\ \E i \in 1..begun : submitted[i] = t
    /\ t \notin ended
    /\ ended' = ended \cup {t}
    /\ UNCHANGED <<submitted, begun, phase>>

StartClosing ==
    /\ phase = "open"
    /\ phase' = "closing"
    /\ UNCHANGED <<submitted, begun, ended>>

FinishClosing ==
    /\ phase = "closing"
    /\ ended = Taken
    /\ phase' = "closed"
    /\ UNCHANGED <<submitted, begun, ended>>

Next ==
    \/ \E t \in Tasks : Submit(t) \/ End(t)
    \/ Begin
    \/ StartClosing
    \/ FinishClosing

Spec == Init /\ [][Next]_svars
=============================================================================
