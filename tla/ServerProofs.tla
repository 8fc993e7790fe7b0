---------------------------- MODULE ServerProofs ----------------------------
(***************************************************************************)
(* Proofs about Server, for every set of clients and every number of sub   *)
(* reactors and descriptors.                                               *)
(***************************************************************************)
EXTENDS Server, SequenceLemmas, FiniteSetTheorems, TLAPS

Building == {"accepted", "added", "callbacks"}

(* NewConnection works on one Connection; its stage follows main.          *)
StageFollowsMain ==
    ~crashed =>
        CASE main = "loop" -> cur = None
          [] main \in {"socket", "add"} -> cur \in Clients /\ stage[cur] = "accepted"
          [] main \in {"et", "callbacks"} -> cur \in Clients /\ stage[cur] = "added"
          [] main = "insert" -> cur \in Clients /\ stage[cur] = "callbacks"
          [] main = "announce" -> cur \in Clients /\ stage[cur] \in {"published", "destroyed"}
          [] OTHER -> TRUE

(* A Connection has one descriptor, from accept on.                        *)
FdsAssigned ==
    /\ ~crashed => \A c \in Clients : stage[c] \notin {"away", "queued"} => fd_[c] \in Fds
    /\ \A f \in Fds : fdt[f] \in Clients =>
          fd_[fdt[f]] = f /\ stage[fdt[f]] \notin {"away", "queued"}
    /\ \A f \in Fds : connections[f] \in Clients =>
          fd_[connections[f]] = f /\ stage[connections[f]] = "published"

(* The sub reactor that handles a Connection is the one that fd % size     *)
(* names, and the Connection was registered with epoll before.             *)
HandlerInCharge ==
    /\ \A f \in Fds : epoll[f].ch # None => stage[epoll[f].ch] \notin {"away", "queued", "accepted"}
    /\ \A r \in Reactors : \A c \in todo[r] :
          LoopOf(c) = r /\ stage[c] \notin {"away", "queued", "accepted"}
    /\ \A r \in Reactors : pc[r] \in {"read", "callback", "return"} =>
          /\ hcur[r] \in Clients /\ LoopOf(hcur[r]) = r
          /\ stage[hcur[r]] \in {"callbacks", "published", "destroyed"}

(* Destructors close descriptors only where NewConnection and the          *)
(* callbacks run them.                                                     *)
ClosingInPlace ==
    /\ closing[Main] # <<>> => main \in {"announce", "loop"}
    /\ \A r \in Reactors : closing[r] # <<>> => pc[r] = "return"

(* Whoever holds a Connection holds one that is alive.                     *)
HeldAlive == \A c \in Clients : Held(c) => stage[c] = "published"

ServerInv ==
    /\ TypeOK
    /\ StageFollowsMain
    /\ FdsAssigned
    /\ HandlerInCharge
    /\ ClosingInPlace
    /\ HeldAlive
    /\ NoOrphanStream

-----------------------------------------------------------------------------
(* What the steps rely on.                                                 *)

(* accept() and socket() return a free descriptor.                         *)
LEMMA LowestIsFree ==
  ASSUME FreeFds # {}
  PROVE  LowestFree \in Fds /\ fdt[LowestFree] = None
<1>1. FreeFds \subseteq Nat
  BY ServerAssumption DEF FreeFds, Fds
<1>2. \E f \in FreeFds : \A g \in FreeFds : f <= g
  BY <1>1, LeastNatural
<1>3. LowestFree \in FreeFds
  BY <1>2 DEF LowestFree
<1>4. QED
  BY <1>3 DEF FreeFds

(* While NewConnection is at work, its Connection has a descriptor.        *)
LEMMA CurFacts ==
  ASSUME TypeOK, StageFollowsMain, FdsAssigned, ~crashed, main \notin {"loop", "onconnect"}
  PROVE  /\ cur \in Clients /\ fd_[cur] \in Fds
         /\ main \in {"socket", "add"} => stage[cur] = "accepted"
         /\ main \in {"et", "callbacks"} => stage[cur] = "added"
         /\ main = "insert" => stage[cur] = "callbacks"
         /\ main = "announce" => stage[cur] \in {"published", "destroyed"}
<1>1. main \in {"socket", "add", "et", "callbacks", "insert", "announce"}
  BY DEF TypeOK
<1>2. cur \in Clients /\ stage[cur] \notin {"away", "queued"}
  BY <1>1 DEF StageFollowsMain
<1>3. fd_[cur] \in Fds
  BY <1>2 DEF FdsAssigned
<1>4. QED
  BY <1>1, <1>2, <1>3 DEF StageFollowsMain

(* A Connection whose event is handled has a descriptor.                   *)
LEMMA HandledHasFd ==
  ASSUME TypeOK, FdsAssigned, HandlerInCharge, ~crashed,
         NEW r \in Reactors, pc[r] \in {"read", "callback", "return"}
  PROVE  hcur[r] \in Clients /\ fd_[hcur[r]] \in Fds /\ LoopOf(hcur[r]) = r
BY DEF FdsAssigned, HandlerInCharge

(* The main reactor's thread is none of the sub reactors.                  *)
LEMMA MainIsNoReactor == Main \in Threads /\ Main \notin Reactors /\ Reactors \subseteq Threads
BY ServerAssumption DEF Main, Threads, Reactors

(* What ~Connection has to close: its descriptor, twice.                   *)
LEMMA DestructorType ==
  ASSUME NEW c \in Clients, fd_[c] \in Fds
  PROVE  /\ DestructorCloses(c) \in Seq(Fds)
         /\ Len(DestructorCloses(c)) = 2
         /\ DestructorCloses(c)[1] = fd_[c]
BY DEF DestructorCloses

-----------------------------------------------------------------------------
(* Types.                                                                  *)

(* The last conjunct of TypeOK.                                            *)
OneIsBuilt ==
    \A c \in Clients : stage[c] \in {"accepted", "added", "callbacks"} =>
        /\ c = cur
        /\ main \in CASE stage[c] = "accepted" -> {"socket", "add"}
                      [] stage[c] = "added" -> {"et", "callbacks"}
                      [] OTHER -> {"insert"}

(* The other conjuncts, in the order of the variables.                     *)
Types ==
    /\ stage \in [Clients -> Stages]
    /\ sends \in [Clients -> 0..MaxSends]
    /\ unread \in [Clients -> BOOLEAN]
    /\ reset \in SUBSET Clients
    /\ fdt \in [Fds -> Clients \cup {None, Spare}]
    /\ epoll \in [Fds -> [ch : Clients \cup {None}, et : BOOLEAN, armed : BOOLEAN]]
    /\ fd_ \in [Clients -> Fds \cup {None}]
    /\ connections \in [Fds -> Clients \cup {None}]
    /\ main \in {"loop", "socket", "add", "et", "callbacks", "insert", "announce", "onconnect"}
    /\ cur \in Clients \cup {None}
    /\ pc \in [Reactors -> {"loop", "read", "callback", "return", "dead"}]
    /\ todo \in [Reactors -> SUBSET Clients]
    /\ hcur \in [Reactors -> Clients \cup {None}]
    /\ closing \in [Threads -> Seq(Fds)]
    /\ stops \in 0..MaxStops
    /\ crashed \in BOOLEAN

(* TypeOK in its two parts.                                                *)
LEMMA TypeOKSplit == TypeOK <=> Types /\ OneIsBuilt
BY DEF TypeOK, Types, OneIsBuilt

-----------------------------------------------------------------------------
(* The callbacks and what they hold.                                       *)

(* The callback that thread th runs for Connection c returns.              *)
Returns(th, c, close) ==
    /\ th \in Holders(c)
    /\ \/ th \in Reactors /\ OnMessage(th, close)
       \/ th = Main /\ OnConnection(close)

(* A Connection that a callback holds is published and has a descriptor; a *)
(* thread holds no other.                                                  *)
LEMMA HeldFacts ==
  ASSUME ServerInv, ~crashed, NEW c \in Clients, NEW th \in Holders(c)
  PROVE  /\ stage[c] = "published" /\ fd_[c] \in Fds /\ th \in Threads
         /\ th \in Reactors => pc[th] = "callback" /\ hcur[th] = c
         /\ th \notin Reactors => th = Main /\ main = "onconnect" /\ cur = c
         /\ \A d \in Clients : th \in Holders(d) => d = c
<1>1. stage[c] = "published"
  BY DEF ServerInv, HeldAlive, Held
<1>2. fd_[c] \in Fds
  BY <1>1 DEF ServerInv, FdsAssigned
<1>3. QED
  BY <1>1, <1>2, MainIsNoReactor DEF Holders

(* The message callback's return, in these terms ...                       *)
LEMMA OnMessageReturns ==
  ASSUME ServerInv, ~crashed, NEW r \in Reactors, NEW close \in BOOLEAN, OnMessage(r, close)
  PROVE  hcur[r] \in Clients /\ Returns(r, hcur[r], close)
<1>1. pc[r] = "callback"
  BY DEF OnMessage
<1>2. hcur[r] \in Clients
  BY <1>1, HandledHasFd DEF ServerInv
<1>3. QED
  BY <1>1, <1>2 DEF Returns, Holders

(* ... and that of the on-connection callback.                             *)
LEMMA OnConnectionReturns ==
  ASSUME ServerInv, ~crashed, NEW close \in BOOLEAN, OnConnection(close), cur # None
  PROVE  cur \in Clients /\ Returns(Main, cur, close)
<1>1. main = "onconnect" /\ cur \in Clients
  BY DEF OnConnection, ServerInv, TypeOK
<1>2. QED
  BY <1>1 DEF Returns, Holders

(* What a return changes beside the Connections, and what it leaves.       *)
LEMMA ReturnSteps ==
  ASSUME ServerInv, ~crashed, NEW th, NEW c \in Clients, NEW close \in BOOLEAN, Returns(th, c, close)
  PROVE  /\ CallbackEnds(th, c, close)
         /\ UNCHANGED <<sends, unread, reset, fdt, epoll, stops, fd_, todo, hcur, crashed>>
         /\ \/ th \in Reactors /\ pc' = [pc EXCEPT ![th] = "return"] /\ UNCHANGED <<main, cur>>
            \/ /\ th = Main /\ main = "onconnect" /\ main' = "loop" /\ cur' = None
               /\ UNCHANGED pc
<1>1. CASE th \in Reactors /\ OnMessage(th, close)
  <2>1. th \in Holders(c) /\ hcur[th] = c
    BY <1>1, HeldFacts DEF Returns
  <2>2. QED
    BY <1>1, <2>1 DEF OnMessage, kvars, mvars
<1>2. CASE th = Main /\ OnConnection(close)
  <2>1. cur = c /\ cur # None
    BY <1>2, HeldFacts, MainIsNoReactor, ServerAssumption DEF Returns
  <2>2. QED
    BY <1>2, <2>1 DEF OnConnection, kvars, rvars
<1>3. QED
  BY <1>1, <1>2 DEF Returns

(* What it leaves to be closed is at most what two destructors close: that *)
(* of a Connection erased from connections_, and that of its own.          *)
LEMMA CallbackCloses ==
  ASSUME ServerInv, ~crashed, NEW c \in Clients, NEW th \in Holders(c), NEW close \in BOOLEAN,
         CallbackEnds(th, c, close)
  PROVE  \E q \in Seq(Fds) :
            /\ closing' = [closing EXCEPT ![th] = q]
            /\ \A d \in Clients : stage'[d] # stage[d] =>
                  \E i \in 1..Len(q) : q[i] = fd_[d]
<1> USE ServerAssumption
<1> DEFINE f == fd_[c]
           erased == IF close THEN connections[f] ELSE None
           map == IF close THEN DeleteConnection(f) ELSE connections
           others == {d \in {erased} \ {c, None} : ~Held(d)}
           D == others \cup {d \in {c} : ~InMap(map, d) /\ Holders(d) \subseteq {th}}
           a == IF others # {} THEN DestructorCloses(erased) ELSE <<>>
           b == IF c \in D THEN DestructorCloses(c) ELSE <<>>
<1>t. TypeOK /\ FdsAssigned
  BY DEF ServerInv
<1>1. f \in Fds
  BY HeldFacts
<1>2. /\ stage' = [d \in Clients |-> IF d \in D THEN "destroyed" ELSE stage[d]]
      /\ closing' = [closing EXCEPT ![th] = a \o b]
  BY DEF CallbackEnds
<1>3. others # {} => erased \in Clients /\ fd_[erased] = f /\ others = {erased}
  <2>1. ASSUME others # {} PROVE erased \in Clients /\ fd_[erased] = f /\ others = {erased}
    <3>1. erased # None
      BY <2>1
    <3>2. erased = connections[f]
      BY <3>1
    <3>3. QED
      BY <1>t, <1>1, <2>1, <3>1, <3>2 DEF TypeOK, FdsAssigned
  <2>2. QED
    BY <2>1
<1>4. \A d \in D : (d = c /\ c \in D) \/ (others # {} /\ d = erased)
  OBVIOUS
<1> HIDE DEF erased, map, others, D, f
<1>5. /\ a \in Seq(Fds) /\ Len(a) \in Nat
      /\ others # {} => Len(a) = 2 /\ a[1] = fd_[erased]
  <2>1. CASE others # {}
    <3>1. a = DestructorCloses(erased)
      BY <2>1
    <3>2. QED
      BY <1>1, <1>3, <2>1, <3>1, DestructorType
  <2>2. CASE others = {}
    BY <2>2, EmptySeq
  <2>3. QED
    BY <2>1, <2>2
<1>6. /\ b \in Seq(Fds) /\ Len(b) \in Nat
      /\ c \in D => Len(b) = 2 /\ b[1] = fd_[c]
  <2>1. CASE c \in D
    <3>1. b = DestructorCloses(c) /\ fd_[c] \in Fds
      BY <1>1, <2>1 DEF f
    <3>2. QED
      BY <2>1, <3>1, DestructorType
  <2>2. CASE c \notin D
    BY <2>2, EmptySeq
  <2>3. QED
    BY <2>1, <2>2
<1> HIDE DEF a, b
<1>7. PICK q \in Seq(Fds) : q = a \o b
  BY <1>5, <1>6, ConcatProperties
<1>8. /\ Len(q) = Len(a) + Len(b)
      /\ \A i \in 1..(Len(a) + Len(b)) : q[i] = IF i <= Len(a) THEN a[i] ELSE b[i - Len(a)]
  BY <1>5, <1>6, <1>7, ConcatProperties
<1>9. ASSUME NEW d \in Clients, stage'[d] # stage[d]
      PROVE  \E i \in 1..Len(q) : q[i] = fd_[d]
  <2>1. d \in D
    BY <1>2, <1>9
  <2>2. CASE d = c /\ c \in D
    <3>0. Len(a) \in Nat /\ Len(b) = 2 /\ Len(q) = Len(a) + Len(b)
      BY <1>5, <1>6, <1>8, <2>2
    <3>1. Len(a) + 1 \in 1..Len(q) /\ ~(Len(a) + 1 <= Len(a)) /\ (Len(a) + 1) - Len(a) = 1
      BY <3>0
    <3>2. q[Len(a) + 1] = fd_[d]
      BY <1>6, <1>8, <2>2, <3>1
    <3>3. QED
      BY <3>1, <3>2
  <2>3. CASE others # {} /\ d = erased
    <3>1. 1 \in 1..Len(q) /\ 1 <= Len(a)
      BY <1>5, <1>6, <1>8, <2>3
    <3>2. q[1] = fd_[d]
      BY <1>5, <1>8, <2>3, <3>1
    <3>3. QED
      BY <3>1, <3>2
  <2>4. QED
    BY <1>4, <2>1, <2>2, <2>3
<1>10. QED
  BY <1>2, <1>7, <1>9

(* A return preserves the types.                                           *)
LEMMA ReturnTypes ==
  ASSUME ServerInv, ~crashed, NEW th, NEW c \in Clients, NEW close \in BOOLEAN, Returns(th, c, close)
  PROVE  Types'
<1> USE ServerAssumption
<1>t. Types
  BY TypeOKSplit DEF ServerInv
<1>h. th \in Holders(c)
  BY DEF Returns
<1>1. /\ CallbackEnds(th, c, close)
      /\ UNCHANGED <<sends, unread, reset, fdt, epoll, stops, fd_, todo, hcur, crashed>>
      /\ pc' \in {pc, [pc EXCEPT ![th] = "return"]}
      /\ main' \in {main, "loop"} /\ cur' \in {cur, None}
  BY ReturnSteps
<1>2. stage' \in [Clients -> Stages]
  <2>1. PICK D : stage' = [d \in Clients |-> IF d \in D THEN "destroyed" ELSE stage[d]]
    BY <1>1 DEF CallbackEnds
  <2>2. QED
    BY <1>t, <2>1 DEF Types, Stages
<1>3. closing' \in [Threads -> Seq(Fds)]
  <2>1. PICK q \in Seq(Fds) : closing' = [closing EXCEPT ![th] = q]
    BY <1>1, <1>h, CallbackCloses
  <2>2. QED
    BY <1>t, <2>1 DEF Types
<1>4. connections' \in [Fds -> Clients \cup {None}]
  <2>1. connections' \in {connections, [connections EXCEPT ![fd_[c]] = None]}
    BY <1>1 DEF CallbackEnds, DeleteConnection
  <2>2. QED
    BY <1>t, <2>1 DEF Types
<1>5. pc' \in [Reactors -> {"loop", "read", "callback", "return", "dead"}]
  BY <1>t, <1>1 DEF Types
<1>6. QED
  BY <1>t, <1>1, <1>2, <1>3, <1>4, <1>5 DEF Types

-----------------------------------------------------------------------------
(* The loops.                                                              *)

(* Where a sub reactor goes from a freed Connection or from a handler.     *)
LoopGoesOn(r) ==
    /\ \E x \in {"loop", "dead"} : pc' = [pc EXCEPT ![r] = x]
    /\ \E S \in SUBSET todo[r] : todo' = [todo EXCEPT ![r] = S]
    /\ hcur' = [hcur EXCEPT ![r] = None]
    /\ crashed' \in BOOLEAN

(* The use of a freed Connection.                                          *)
LEMMA FreedStep ==
  ASSUME TypeOK, NEW r \in Reactors, NEW c \in Clients, UseAfterFree(r, c)
  PROVE  /\ LoopGoesOn(r) /\ pc[r] \in {"loop", "read"}
         /\ stage[c] = "destroyed" /\ c \in todo[r] \cup {hcur[r]}
         /\ unread' \in [Clients -> BOOLEAN]
<1>1. /\ stage[c] = "destroyed"
      /\ \/ pc[r] = "loop" /\ c \in todo[r] /\ FreedUsed(r, todo[r] \ {c})
         \/ pc[r] = "read" /\ c = hcur[r] /\ FreedUsed(r, todo[r])
      /\ unread' \in {unread, Drained(fd_[c])}
  BY DEF UseAfterFree
<1>2. PICK rest \in SUBSET todo[r] : FreedUsed(r, rest)
  <2>1. todo[r] \ {c} \in SUBSET todo[r] /\ todo[r] \in SUBSET todo[r]
    OBVIOUS
  <2>2. QED
    BY <1>1, <2>1
<1>3. {} \in SUBSET todo[r] /\ crashed \in BOOLEAN
  BY DEF TypeOK
<1>4. LoopGoesOn(r)
  BY <1>2, <1>3 DEF FreedUsed, EndLoop, LoopGoesOn
<1>5. unread' \in [Clients -> BOOLEAN]
  BY <1>1 DEF Drained, TypeOK
<1>6. QED
  BY <1>1, <1>4, <1>5

(* The return of a handler.                                                *)
LEMMA ReturnStep ==
  ASSUME TypeOK, NEW r \in Reactors, HandlerReturns(r)
  PROVE  /\ LoopGoesOn(r) /\ pc[r] = "return" /\ closing[r] = <<>>
         /\ stage[hcur[r]] # "destroyed" => pc' = [pc EXCEPT ![r] = "loop"] /\ crashed' = crashed
<1>1. /\ pc[r] = "return" /\ closing[r] = <<>>
      /\ \/ stage[hcur[r]] = "destroyed" /\ FreedUsed(r, todo[r])
         \/ /\ stage[hcur[r]] # "destroyed" /\ pc' = [pc EXCEPT ![r] = "loop"]
            /\ hcur' = [hcur EXCEPT ![r] = None] /\ UNCHANGED <<todo, crashed>>
  BY DEF HandlerReturns
<1>2. /\ {} \in SUBSET todo[r] /\ todo[r] \in SUBSET todo[r] /\ crashed \in BOOLEAN
      /\ todo = [todo EXCEPT ![r] = todo[r]]
  BY DEF TypeOK
<1>3. LoopGoesOn(r)
  <2>1. CASE stage[hcur[r]] = "destroyed"
    <3>1. FreedUsed(r, todo[r])
      BY <1>1, <2>1
    <3>2. QED
      BY <1>2, <3>1 DEF FreedUsed, EndLoop, LoopGoesOn
  <2>2. CASE stage[hcur[r]] # "destroyed"
    BY <1>1, <1>2, <2>2 DEF LoopGoesOn
  <2>3. QED
    BY <2>1, <2>2
<1>4. QED
  BY <1>1, <1>3

(* Both preserve the types.                                                *)
LEMMA LoopTypes ==
  ASSUME TypeOK, NEW r \in Reactors, LoopGoesOn(r)
  PROVE  /\ pc' \in [Reactors -> {"loop", "read", "callback", "return", "dead"}]
         /\ todo' \in [Reactors -> SUBSET Clients]
         /\ hcur' \in [Reactors -> Clients \cup {None}]
         /\ crashed' \in BOOLEAN
<1>1. /\ todo \in [Reactors -> SUBSET Clients]
      /\ hcur \in [Reactors -> Clients \cup {None}]
      /\ pc \in [Reactors -> {"loop", "read", "callback", "return", "dead"}]
  BY DEF TypeOK
<1>2. todo' \in [Reactors -> SUBSET Clients]
  BY <1>1 DEF LoopGoesOn
<1>3. QED
  BY <1>1, <1>2 DEF LoopGoesOn

-----------------------------------------------------------------------------
(* The types, step by step.                                                *)

(* The main reactor's steps preserve the types.                            *)
LEMMA MainTypes ==
  ASSUME ServerInv, ~crashed, MainStep
  PROVE  Types'
<1> USE ServerAssumption
<1>t. Types /\ TypeOK /\ StageFollowsMain /\ FdsAssigned
  BY TypeOKSplit DEF ServerInv
<1>1. ASSUME NEW c \in Clients, Accept(c) PROVE Types'
  <2>1. /\ stage' = [stage EXCEPT ![c] = "accepted"] /\ cur' = c /\ main' = "socket"
        /\ UNCHANGED <<stops, sends, unread, reset, epoll, connections, pc, todo, hcur, closing>>
    BY <1>1 DEF Accept, rvars
  <2>2. /\ fdt' \in [Fds -> Clients \cup {None, Spare}]
        /\ fd_' \in [Clients -> Fds \cup {None}]
        /\ crashed' \in BOOLEAN
    <3>1. CASE FreeFds # {}
      <4>1. /\ fdt' = [fdt EXCEPT ![LowestFree] = c]
            /\ fd_' = [fd_ EXCEPT ![c] = LowestFree] /\ UNCHANGED crashed
        BY <1>1, <3>1 DEF Accept, SocketAccept
      <4>2. LowestFree \in Fds
        BY <3>1, LowestIsFree
      <4>3. QED
        BY <1>t, <4>1, <4>2 DEF Types
    <3>2. CASE FreeFds = {}
      BY <1>t, <1>1, <3>2 DEF Accept, SocketAccept, Types
    <3>3. QED
      BY <3>1, <3>2
  <2>3. stage' \in [Clients -> Stages]
    BY <1>t, <2>1 DEF Types, Stages
  <2>4. QED
    BY <1>t, <2>1, <2>2, <2>3 DEF Types
<1>2. ASSUME Throw PROVE Types'
  BY <1>t, <1>2 DEF Throw, Types, kvars, mvars, rvars
<1>3. CASE NewSocket
  <2>1. CASE FreeFds # {}
    <3>1. /\ fdt' = [fdt EXCEPT ![LowestFree] = Spare] /\ main' = "add"
          /\ UNCHANGED <<stage, stops, sends, unread, reset, epoll, fd_, connections, cur, pc, todo, hcur,
                         closing, crashed>>
      BY <1>3, <2>1 DEF NewSocket, SocketOpened, rvars
    <3>2. QED
      BY <1>t, <3>1 DEF Types
  <2>2. CASE FreeFds = {}
    BY <1>2, <1>3, <2>2 DEF NewSocket
  <2>3. QED
    BY <2>1, <2>2
<1>4. ASSUME NEW et \in BOOLEAN, main \notin {"loop", "onconnect"}
      PROVE  Registration(et) \in [ch : Clients \cup {None}, et : BOOLEAN, armed : BOOLEAN]
  <2>1. cur \in Clients
    BY <1>t, <1>4, CurFacts
  <2>2. HasInput(fd_[cur]) \in BOOLEAN
    BY <1>t DEF HasInput, Types
  <2>3. QED
    BY <1>4, <2>1, <2>2 DEF Registration
<1>5. CASE EnableRead
  <2>1. CASE fdt[fd_[cur]] # None
    <3>1. /\ epoll' = [epoll EXCEPT ![fd_[cur]] = Registration(FALSE)]
          /\ stage' = [stage EXCEPT ![cur] = "added"] /\ main' = "et"
          /\ UNCHANGED <<stops, sends, unread, reset, fdt, fd_, connections, cur, pc, todo, hcur,
                         closing, crashed>>
      BY <1>5, <2>1 DEF EnableRead, rvars
    <3>2. Registration(FALSE) \in [ch : Clients \cup {None}, et : BOOLEAN, armed : BOOLEAN]
      BY <1>4, <1>5 DEF EnableRead
    <3>3. epoll' \in [Fds -> [ch : Clients \cup {None}, et : BOOLEAN, armed : BOOLEAN]]
      BY <1>t, <3>1, <3>2 DEF Types
    <3>4. stage' \in [Clients -> Stages]
      BY <1>t, <3>1 DEF Types, Stages
    <3>5. QED
      BY <1>t, <3>1, <3>3, <3>4 DEF Types
  <2>2. CASE fdt[fd_[cur]] = None
    BY <1>2, <1>5, <2>2 DEF EnableRead
  <2>3. QED
    BY <2>1, <2>2
<1>6. CASE UseET
  <2>1. CASE epoll[fd_[cur]].ch # None
    <3>1. /\ epoll' = [epoll EXCEPT ![fd_[cur]] = Registration(TRUE)]
          /\ main' = "callbacks"
          /\ UNCHANGED <<stage, stops, sends, unread, reset, fdt, fd_, connections, cur, pc, todo, hcur,
                         closing, crashed>>
      BY <1>6, <2>1 DEF UseET, rvars
    <3>2. Registration(TRUE) \in [ch : Clients \cup {None}, et : BOOLEAN, armed : BOOLEAN]
      BY <1>4, <1>6 DEF UseET
    <3>3. epoll' \in [Fds -> [ch : Clients \cup {None}, et : BOOLEAN, armed : BOOLEAN]]
      BY <1>t, <3>1, <3>2 DEF Types
    <3>4. QED
      BY <1>t, <3>1, <3>3 DEF Types
  <2>2. CASE epoll[fd_[cur]].ch = None
    BY <1>2, <1>6, <2>2 DEF UseET
  <2>3. QED
    BY <2>1, <2>2
<1>7. CASE SetCallBacks
  <2>1. stage' \in [Clients -> Stages]
    BY <1>t, <1>7 DEF SetCallBacks, Types, Stages
  <2>2. QED
    BY <1>t, <1>7, <2>1 DEF SetCallBacks, Types, kvars, rvars
<1>8. CASE Insert
  <2> DEFINE f == fd_[cur]
             old == connections[f]
             dies == old # None /\ ~Held(old)
  <2>1. cur \in Clients /\ f \in Fds
    BY <1>t, <1>8, CurFacts DEF Insert
  <2>2. connections' \in [Fds -> Clients \cup {None}]
    BY <1>t, <1>8, <2>1 DEF Insert, Stored, Types
  <2>3. stage' \in [Clients -> Stages]
    <3>1. \A c \in Clients : stage[c] \in Stages
      BY <1>t DEF Types
    <3>2. stage' = [c \in Clients |-> CASE c = cur -> "published"
                                        [] c = old /\ dies -> "destroyed"
                                        [] OTHER -> stage[c]]
      BY <1>8 DEF Insert
    <3> HIDE DEF old, dies
    <3>3. QED
      BY <3>1, <3>2 DEF Stages
  <2>4. closing' \in [Threads -> Seq(Fds)]
    <3>1. CASE dies
      <4>1. old \in Clients /\ fd_[old] = f
        BY <1>t, <2>1, <3>1 DEF Types, FdsAssigned
      <4>2. closing' = [closing EXCEPT ![Main] = DestructorCloses(old)]
        BY <1>8, <3>1 DEF Insert
      <4>3. DestructorCloses(old) \in Seq(Fds)
        BY <2>1, <4>1, DestructorType
      <4>4. closing \in [Threads -> Seq(Fds)]
        BY <1>t DEF Types
      <4>5. QED
        BY <4>2, <4>3, <4>4
    <3>2. CASE ~dies
      <4>1. closing' = [closing EXCEPT ![Main] = <<>>]
        BY <1>8, <3>2 DEF Insert
      <4>2. closing \in [Threads -> Seq(Fds)] /\ <<>> \in Seq(Fds)
        BY <1>t, EmptySeq DEF Types
      <4>3. QED
        BY <4>1, <4>2
    <3>3. QED
      BY <3>1, <3>2
  <2>5. /\ main' = "announce"
        /\ UNCHANGED <<sends, unread, reset, fdt, epoll, stops, fd_, cur, pc, todo, hcur, crashed>>
    BY <1>8 DEF Insert, kvars, rvars
  <2>6. QED
    BY <1>t, <2>2, <2>3, <2>4, <2>5 DEF Types
<1>9. CASE Announce
  <2>1. fd_[cur] \in Fds
    BY <1>t, <1>9, CurFacts DEF Announce
  <2>2. /\ main' \in {"loop", "onconnect"} /\ cur' \in {None, connections[fd_[cur]]}
        /\ UNCHANGED <<stage, sends, unread, reset, fdt, epoll, stops, fd_, connections, pc, todo,
                       hcur, closing, crashed>>
    BY <1>9 DEF Announce, kvars, rvars
  <2>3. QED
    BY <1>t, <2>1, <2>2 DEF Types
<1>10. ASSUME NEW close \in BOOLEAN, OnConnection(close) PROVE Types'
  <2>1. CASE cur = None
    BY <1>2, <1>10, <2>1 DEF OnConnection
  <2>2. CASE cur # None
    BY <1>10, <2>2, OnConnectionReturns, ReturnTypes
  <2>3. QED
    BY <2>1, <2>2
<1>11. QED
  BY <1>1, <1>3, <1>5, <1>6, <1>7, <1>8, <1>9, <1>10 DEF MainStep

(* Arming a registration, or disarming it, leaves the rest as it was.      *)
LEMMA ArmedType ==
  ASSUME NEW e \in [ch : Clients \cup {None}, et : BOOLEAN, armed : BOOLEAN], NEW b \in BOOLEAN
  PROVE  /\ [e EXCEPT !.armed = b] \in [ch : Clients \cup {None}, et : BOOLEAN, armed : BOOLEAN]
         /\ [e EXCEPT !.armed = b].ch = e.ch
OBVIOUS

(* The sub reactors' steps preserve the types.                             *)
LEMMA ReactorTypes ==
  ASSUME ServerInv, ~crashed, NEW r \in Reactors, ReactorStep(r)
  PROVE  Types'
<1> USE ServerAssumption
<1>t. Types /\ TypeOK
  BY TypeOKSplit DEF ServerInv
<1>1. CASE Poll(r)
  <2> DEFINE ready == {f \in Fds : Reported(f) /\ LoopOf(epoll[f].ch) = r}
  <2>1. /\ todo' = [todo EXCEPT ![r] = {epoll[f].ch : f \in ready}]
        /\ epoll' = [f \in Fds |-> IF f \in ready THEN [epoll[f] EXCEPT !.armed = FALSE]
                                                  ELSE epoll[f]]
        /\ UNCHANGED <<stage, stops, sends, unread, reset, fdt, fd_, connections, main, cur, pc, hcur,
                       closing, crashed>>
    BY <1>1 DEF Poll, mvars
  <2>2. \A f \in ready : f \in Fds /\ epoll[f].ch \in Clients
    BY <1>t DEF Reported, Types
  <2> HIDE DEF ready
  <2>3. todo' \in [Reactors -> SUBSET Clients]
    BY <1>t, <2>1, <2>2 DEF Types
  <2>4. epoll' \in [Fds -> [ch : Clients \cup {None}, et : BOOLEAN, armed : BOOLEAN]]
    <3>1. \A f \in Fds : epoll[f] \in [ch : Clients \cup {None}, et : BOOLEAN, armed : BOOLEAN]
      BY <1>t DEF Types
    <3>2. \A f \in Fds : [epoll[f] EXCEPT !.armed = FALSE]
                             \in [ch : Clients \cup {None}, et : BOOLEAN, armed : BOOLEAN]
      BY <3>1, ArmedType
    <3>3. QED
      BY <2>1, <3>1, <3>2
  <2>5. QED
    BY <1>t, <2>1, <2>3, <2>4 DEF Types
<1>2. ASSUME NEW c \in Clients, UseAfterFree(r, c) PROVE Types'
  <2>1. UNCHANGED <<stage, stops, sends, reset, fdt, epoll, fd_, connections, main, cur, closing>>
    BY <1>2 DEF UseAfterFree, mvars
  <2>2. QED
    BY <1>t, <1>2, <2>1, FreedStep, LoopTypes DEF Types
<1>3. ASSUME NEW c \in Clients, HandleEvent(r, c) PROVE Types'
  <2>1. UNCHANGED <<stage, stops, sends, unread, reset, fdt, epoll, fd_, connections, main, cur, closing,
                    crashed>>
    BY <1>3 DEF HandleEvent, kvars, mvars
  <2>2. /\ todo' \in [Reactors -> SUBSET Clients] /\ hcur' \in [Reactors -> Clients \cup {None}]
        /\ pc' \in [Reactors -> {"loop", "read", "callback", "return", "dead"}]
    <3>1. \/ /\ pc' = [pc EXCEPT ![r] = "read"] /\ todo' = [todo EXCEPT ![r] = todo[r] \ {c}]
             /\ hcur' = [hcur EXCEPT ![r] = c]
          \/ /\ pc' = [pc EXCEPT ![r] = "dead"] /\ todo' = [todo EXCEPT ![r] = {}]
             /\ hcur' = [hcur EXCEPT ![r] = None]
      BY <1>3 DEF HandleEvent, RestOfBatch, EndLoop
    <3>2. /\ todo \in [Reactors -> SUBSET Clients] /\ hcur \in [Reactors -> Clients \cup {None}]
          /\ pc \in [Reactors -> {"loop", "read", "callback", "return", "dead"}]
      BY <1>t DEF Types
    <3>3. todo' \in [Reactors -> SUBSET Clients]
      BY <3>1, <3>2
    <3>4. QED
      BY <3>1, <3>2, <3>3
  <2>3. QED
    BY <1>t, <2>1, <2>2 DEF Types
<1>4. CASE BusinessLogic(r)
  <2>1. UNCHANGED <<stage, stops, sends, reset, fdt, epoll, fd_, connections, main, cur, closing, crashed>>
    BY <1>4 DEF BusinessLogic, mvars
  <2>2. unread' \in [Clients -> BOOLEAN]
    <3>1. unread' = [d \in Clients |-> unread[d] /\ d # fdt[fd_[hcur[r]]]]
      BY <1>4 DEF BusinessLogic, Drained
    <3>2. QED
      BY <3>1
  <2>3. /\ todo' \in [Reactors -> SUBSET Clients] /\ hcur' \in [Reactors -> Clients \cup {None}]
        /\ pc' \in [Reactors -> {"loop", "read", "callback", "return", "dead"}]
    <3>1. \/ pc' = [pc EXCEPT ![r] = "callback"] /\ UNCHANGED <<todo, hcur>>
          \/ /\ pc' = [pc EXCEPT ![r] = "dead"] /\ todo' = [todo EXCEPT ![r] = {}]
             /\ hcur' = [hcur EXCEPT ![r] = None]
      BY <1>4 DEF BusinessLogic, EndLoop
    <3>2. QED
      BY <1>t, <3>1 DEF Types
  <2>4. QED
    BY <1>t, <2>1, <2>2, <2>3 DEF Types
<1>5. ASSUME NEW close \in BOOLEAN, OnMessage(r, close) PROVE Types'
  BY <1>5, OnMessageReturns, ReturnTypes
<1>6. CASE HandlerReturns(r)
  <2>1. UNCHANGED <<stage, sends, unread, reset, fdt, epoll, stops, fd_, connections, main, cur, closing>>
    BY <1>6 DEF HandlerReturns, kvars, mvars
  <2>2. QED
    BY <1>t, <1>6, <2>1, ReturnStep, LoopTypes DEF Types
<1>7. QED
  BY <1>1, <1>2, <1>3, <1>4, <1>5, <1>6 DEF ReactorStep

(* So do all the others.                                                   *)
LEMMA NextTypes ==
  ASSUME ServerInv, [Next]_vars
  PROVE  Types'
<1> USE ServerAssumption
<1>t. Types
  BY TypeOKSplit DEF ServerInv
<1>1. CASE UNCHANGED vars
  BY <1>t, <1>1 DEF Types, vars
<1>2. ASSUME NEW c \in Clients, Connect(c) PROVE Types'
  <2>1. stage' \in [Clients -> Stages]
    BY <1>t, <1>2 DEF Connect, Types, Stages
  <2>2. QED
    BY <1>t, <1>2, <2>1 DEF Connect, Types, kvars, mvars, rvars
<1>3. ASSUME NEW c \in Clients, InputArrives(c)
      PROVE  /\ unread' \in [Clients -> BOOLEAN]
             /\ epoll' \in [Fds -> [ch : Clients \cup {None}, et : BOOLEAN, armed : BOOLEAN]]
  <2>1. /\ unread' = [unread EXCEPT ![c] = TRUE]
        /\ epoll' = [f \in Fds |-> IF fdt[f] = c THEN [epoll[f] EXCEPT !.armed = TRUE] ELSE epoll[f]]
    BY <1>3 DEF InputArrives
  <2>2. \A f \in Fds : epoll[f] \in [ch : Clients \cup {None}, et : BOOLEAN, armed : BOOLEAN]
    BY <1>t DEF Types
  <2>3. \A f \in Fds : [epoll[f] EXCEPT !.armed = TRUE]
                           \in [ch : Clients \cup {None}, et : BOOLEAN, armed : BOOLEAN]
    BY <2>2, ArmedType
  <2>4. epoll' \in [Fds -> [ch : Clients \cup {None}, et : BOOLEAN, armed : BOOLEAN]]
    BY <2>1, <2>2, <2>3
  <2>5. unread' \in [Clients -> BOOLEAN]
    BY <1>t, <2>1 DEF Types
  <2>6. QED
    BY <2>4, <2>5
<1>6. ASSUME NEW c \in Clients, Send(c) PROVE Types'
  <2>1. /\ UNCHANGED <<stage, reset, stops, fdt, fd_, connections, main, cur, pc, todo, hcur, closing,
                       crashed>>
        /\ sends' = [sends EXCEPT ![c] = @ + 1] /\ sends[c] < MaxSends
        /\ InputArrives(c)
    BY <1>6 DEF Send, mvars, rvars
  <2>2. sends' \in [Clients -> 0..MaxSends]
    BY <1>t, <2>1 DEF Types
  <2>3. QED
    BY <1>3, <1>t, <2>1, <2>2 DEF Types
<1>7. ASSUME NEW c \in Clients, Reset(c) PROVE Types'
  <2>1. /\ UNCHANGED <<stage, sends, stops, fdt, fd_, connections, main, cur, pc, todo, hcur, closing,
                       crashed>>
        /\ reset' = reset \cup {c} /\ InputArrives(c)
    BY <1>7 DEF Reset, mvars, rvars
  <2>2. reset' \in SUBSET Clients
    BY <1>t, <2>1 DEF Types
  <2>3. QED
    BY <1>3, <1>t, <2>1, <2>2 DEF Types
<1>8. ASSUME NEW c \in Clients, SigPipe(c) PROVE Types'
  BY <1>t, <1>8 DEF SigPipe, Throw, Types, kvars, mvars, rvars
<1>4. ASSUME NEW th \in Threads, CloseFd(th) PROVE Types'
  <2>1. /\ UNCHANGED <<stage, stops, sends, unread, reset, fd_, connections, main, cur, pc, todo, hcur,
                       crashed>>
        /\ closing' = [closing EXCEPT ![th] = Tail(@)] /\ closing[th] # <<>>
        /\ fdt' = [fdt EXCEPT ![Head(closing[th])] = None]
        /\ epoll' = [epoll EXCEPT ![Head(closing[th])] = NotRegistered]
    BY <1>4 DEF CloseFd, mvars, rvars
  <2>2. closing' \in [Threads -> Seq(Fds)]
    <3>1. Tail(closing[th]) \in Seq(Fds)
      BY <1>t, <2>1, HeadTailProperties DEF Types
    <3>2. QED
      BY <1>t, <2>1, <3>1 DEF Types
  <2>3. epoll' \in [Fds -> [ch : Clients \cup {None}, et : BOOLEAN, armed : BOOLEAN]]
    BY <1>t, <2>1 DEF Types, NotRegistered
  <2>4. fdt' \in [Fds -> Clients \cup {None, Spare}]
    BY <1>t, <2>1 DEF Types
  <2>5. QED
    BY <1>t, <2>1, <2>2, <2>3, <2>4 DEF Types
<1>5. CASE StopAndContinue
  <2>1. /\ UNCHANGED <<stage, sends, unread, reset, fdt, epoll, fd_, connections, main, cur, todo, hcur,
                       closing>>
        /\ stops < MaxStops /\ stops' = stops + 1 /\ crashed' \in BOOLEAN
    BY <1>5 DEF StopAndContinue, mvars
  <2>2. pc' \in [Reactors -> {"loop", "read", "callback", "return", "dead"}]
    <3>1. PICK D : pc' = [q \in Reactors |-> IF q \in D THEN "dead" ELSE pc[q]]
      BY <1>5 DEF StopAndContinue
    <3>2. QED
      BY <1>t, <3>1 DEF Types
  <2>3. stops' \in 0..MaxStops
    BY <1>t, <2>1 DEF Types
  <2>4. QED
    BY <1>t, <2>1, <2>2, <2>3 DEF Types
<1>9. QED
  BY <1>1, <1>2, <1>4, <1>5, <1>6, <1>7, <1>8, MainTypes, ReactorTypes DEF Next

-----------------------------------------------------------------------------
(* The life of a Connection.                                               *)

(* A returning callback lets go of its Connection, and no other does.      *)
LEMMA ReturnReleases ==
  ASSUME ServerInv, ~crashed, NEW th, NEW c \in Clients, NEW close \in BOOLEAN, Returns(th, c, close),
         NEW d \in Clients
  PROVE  Holders(d)' = Holders(d) \ {th}
<1>1. CASE th \in Reactors /\ pc' = [pc EXCEPT ![th] = "return"] /\ UNCHANGED <<main, cur, hcur>>
  <2>1. pc \in [Reactors -> {"loop", "read", "callback", "return", "dead"}]
    BY DEF ServerInv, TypeOK
  <2>2. th # Main
    BY <1>1, MainIsNoReactor
  <2>3. QED
    BY <1>1, <2>1, <2>2 DEF Holders
<1>2. CASE th = Main /\ main' = "loop" /\ UNCHANGED <<pc, hcur>>
  BY <1>2, MainIsNoReactor DEF Holders
<1>3. QED
  BY <1>1, <1>2, ReturnSteps

(* What a return destroys was published, is in connections_ no more and is *)
(* held by no other callback; what it only erases is held by another.      *)
LEMMA ReturnEffect ==
  ASSUME ServerInv, ~crashed, NEW th, NEW c \in Clients, NEW close \in BOOLEAN, Returns(th, c, close)
  PROVE  /\ \A g \in Fds : connections'[g] # None => connections'[g] = connections[g]
         /\ \A d \in Clients : stage'[d] # stage[d] =>
               /\ stage[d] = "published" /\ stage'[d] = "destroyed"
               /\ Holders(d) \subseteq {th}
               /\ \A g \in Fds : connections'[g] # d
         /\ \A d \in Clients : stage'[d] = stage[d] =>
               \/ \E x \in Holders(d) : x # th
               \/ d # c /\ \A g \in Fds : connections[g] = d => connections'[g] = d
               \/ \E g \in Fds : fd_[d] = g /\ connections'[g] = d
<1> USE ServerAssumption
<1> DEFINE f == fd_[c]
           erased == IF close THEN connections[f] ELSE None
           map == IF close THEN DeleteConnection(f) ELSE connections
           others == {d \in {erased} \ {c, None} : ~Held(d)}
           D == others \cup {d \in {c} : ~InMap(map, d) /\ Holders(d) \subseteq {th}}
<1>h. th \in Holders(c) /\ CallbackEnds(th, c, close)
  BY ReturnSteps DEF Returns
<1>1. f \in Fds /\ stage[c] = "published"
  BY <1>h, HeldFacts
<1>2. /\ connections' = map
      /\ stage' = [d \in Clients |-> IF d \in D THEN "destroyed" ELSE stage[d]]
  BY <1>h DEF CallbackEnds
<1>3. connections \in [Fds -> Clients \cup {None}]
  BY DEF ServerInv, TypeOK
<1>4. \A g \in Fds : connections'[g] # None => connections'[g] = connections[g]
  BY <1>1, <1>2, <1>3 DEF DeleteConnection
<1>5. \A g \in Fds : connections[g] \in Clients =>
         /\ fd_[connections[g]] = g
         /\ stage[connections[g]] = "published"
  BY DEF ServerInv, FdsAssigned
<1>d. \A d \in D : d \in Clients => stage[d] = "published"
  <2>1. \A d \in others : d \in Clients => stage[d] = "published"
    BY <1>1, <1>5
  <2>2. QED
    BY <1>1, <2>1
<1>6. ASSUME NEW d \in Clients, stage'[d] # stage[d]
      PROVE  /\ stage[d] = "published" /\ stage'[d] = "destroyed"
             /\ Holders(d) \subseteq {th}
             /\ \A g \in Fds : connections'[g] # d
  <2>1. d \in D
    BY <1>2, <1>6
  <2>2. stage[d] = "published" /\ stage'[d] = "destroyed"
    BY <1>2, <1>d, <2>1
  <2>3. CASE d = c /\ ~InMap(map, c) /\ Holders(c) \subseteq {th}
    <3>1. \A g \in Fds : connections'[g] # c
      <4>1. ASSUME NEW g \in Fds, connections'[g] = c PROVE FALSE
        <5>1. connections[g] = c
          BY <1>1, <1>4, <4>1
        <5>2. f = g /\ f # None
          BY <1>1, <1>5, <5>1 DEF Fds
        <5>3. QED
          BY <1>2, <2>3, <4>1, <5>2 DEF InMap
      <4>2. QED
        BY <4>1
    <3>2. QED
      BY <2>2, <2>3, <3>1
  <2>4. CASE d \in others
    <3>1. close /\ d = connections[f] /\ ~Held(d)
      BY <2>4
    <3>2. connections' = [connections EXCEPT ![f] = None]
      BY <1>2, <3>1 DEF DeleteConnection
    <3>3. ASSUME NEW g \in Fds, connections'[g] = d PROVE FALSE
      <4>1. g # f
        BY <1>1, <1>3, <3>2, <3>3
      <4>2. connections[g] = d
        BY <1>3, <3>2, <3>3, <4>1
      <4>3. fd_[d] = g /\ fd_[d] = f
        BY <1>1, <1>5, <3>1, <4>2
      <4>4. QED
        BY <4>1, <4>3
    <3>4. Holders(d) \subseteq {th}
      BY <3>1 DEF Held
    <3>5. QED
      BY <2>2, <3>3, <3>4
  <2>5. QED
    BY <2>1, <2>3, <2>4
<1>7. ASSUME NEW d \in Clients, stage'[d] = stage[d]
      PROVE  \/ \E x \in Holders(d) : x # th
             \/ d # c /\ \A g \in Fds : connections[g] = d => connections'[g] = d
             \/ \E g \in Fds : fd_[d] = g /\ connections'[g] = d
  <2>1. d \notin D
    BY <1>2, <1>7, <1>d
  <2>2. CASE d = c
    <3>1. CASE InMap(map, c)
      BY <1>1, <1>2, <2>2, <3>1 DEF InMap
    <3>2. CASE ~(Holders(c) \subseteq {th})
      BY <2>2, <3>2
    <3>3. QED
      BY <2>1, <2>2, <3>1, <3>2
  <2>3. CASE d # c
    <3>1. CASE close /\ d = connections[f]
      <4>1. Held(d)
        BY <2>1, <2>3, <3>1
      <4>2. PICK x \in Holders(d) : TRUE
        BY <4>1 DEF Held
      <4>3. x # th
        BY <1>h, <2>3, HeldFacts
      <4>4. QED
        BY <4>3
    <3>2. CASE ~(close /\ d = connections[f])
      <4>1. \A g \in Fds : connections[g] = d => connections'[g] = d
        BY <1>1, <1>2, <1>3, <3>2 DEF DeleteConnection
      <4>2. QED
        BY <2>3, <4>1
    <3>3. QED
      BY <3>1, <3>2
  <2>4. QED
    BY <2>2, <2>3
<1>8. QED
  BY <1>4, <1>6, <1>7

(* What a return leaves as it is stays in connections_ or is held by       *)
(* another callback.                                                       *)
LEMMA ReturnSpares ==
  ASSUME ServerInv, ~crashed, NEW th, NEW c \in Clients, NEW close \in BOOLEAN, Returns(th, c, close),
         NEW d \in Clients, stage'[d] = stage[d]
  PROVE  \/ \E x \in Holders(d) : x # th
         \/ d # c /\ \A g \in Fds : connections[g] = d => connections'[g] = d
         \/ \E g \in Fds : fd_[d] = g /\ connections'[g] = d
BY ReturnEffect

(* The part of this that most proofs need.                                 *)
LEMMA ReturnStages ==
  ASSUME ServerInv, ~crashed, NEW th, NEW c \in Clients, NEW close \in BOOLEAN, Returns(th, c, close)
  PROVE  /\ fd_' = fd_ /\ fdt' = fdt
         /\ \A d \in Clients : \/ stage'[d] = stage[d]
                               \/ /\ stage[d] = "published" /\ stage'[d] = "destroyed"
                                  /\ \A g \in Fds : connections'[g] # d
         /\ \A g \in Fds : connections'[g] # None => connections'[g] = connections[g]
<1>1. fd_' = fd_ /\ fdt' = fdt
  BY ReturnSteps
<1>2. \A d \in Clients : stage'[d] # stage[d] =>
         /\ stage[d] = "published" /\ stage'[d] = "destroyed"
         /\ \A g \in Fds : connections'[g] # d
  BY ReturnEffect
<1>3. \A g \in Fds : connections'[g] # None => connections'[g] = connections[g]
  BY ReturnEffect
<1>4. QED
  BY <1>1, <1>2, <1>3

(* A sub reactor changes no stage, except that a callback's return may     *)
(* destroy Connections that were published.                                *)
LEMMA ReactorStage ==
  ASSUME ServerInv, ~crashed, NEW r \in Reactors, ReactorStep(r)
  PROVE  /\ UNCHANGED <<main, cur, fd_, fdt>>
         /\ \A d \in Clients : \/ stage'[d] = stage[d]
                               \/ stage[d] = "published" /\ stage'[d] = "destroyed"
<1>1. ASSUME NEW close \in BOOLEAN, OnMessage(r, close)
      PROVE  /\ UNCHANGED <<main, cur, fd_, fdt>>
             /\ \A d \in Clients : \/ stage'[d] = stage[d]
                                   \/ stage[d] = "published" /\ stage'[d] = "destroyed"
  <2>1. UNCHANGED <<main, cur, fd_, fdt>>
    BY <1>1 DEF OnMessage, kvars, mvars
  <2>2. QED
    BY <1>1, <2>1, OnMessageReturns, ReturnStages
<1>2. CASE ~\E close \in BOOLEAN : OnMessage(r, close)
  BY <1>2 DEF ReactorStep, Poll, UseAfterFree, HandleEvent, BusinessLogic, HandlerReturns, kvars, mvars
<1>3. QED
  BY <1>1, <1>2

(* The steps that change connections_ or the stage of a Connection.        *)
LEMMA StageSteps ==
  ASSUME ServerInv, [Next]_vars
  PROVE  \/ ~crashed /\ \E c \in Clients : Connect(c) \/ Accept(c)
         \/ ~crashed /\ (EnableRead \/ SetCallBacks)
         \/ ~crashed /\ Insert
         \/ ~crashed /\ \E th \in Threads, c \in Clients, close \in BOOLEAN : Returns(th, c, close)
         \/ UNCHANGED <<stage, connections, fd_>>
<1> DEFINE Goal == \/ ~crashed /\ \E th \in Threads, c \in Clients, close \in BOOLEAN : Returns(th, c, close)
                   \/ UNCHANGED <<stage, connections, fd_>>
<1>1. ASSUME ~crashed, NEW r \in Reactors, NEW close \in BOOLEAN, OnMessage(r, close) PROVE Goal
  <2>1. r \in Threads
    BY MainIsNoReactor
  <2>2. QED
    BY <1>1, <2>1, OnMessageReturns
<1>2. ASSUME ~crashed, NEW close \in BOOLEAN, OnConnection(close) PROVE Goal
  <2>1. CASE cur = None
    BY <1>2, <2>1 DEF OnConnection, Throw
  <2>2. CASE cur # None
    BY <1>2, <2>2, OnConnectionReturns, MainIsNoReactor
  <2>3. QED
    BY <2>1, <2>2
<1>3. ASSUME NEW r \in Reactors, ReactorStep(r), ~\E close \in BOOLEAN : OnMessage(r, close) PROVE Goal
  <2>1. UNCHANGED <<stage, connections, fd_>>
    BY <1>3 DEF ReactorStep, Poll, UseAfterFree, HandleEvent, BusinessLogic, HandlerReturns
  <2>2. QED
    BY <2>1
<1>4. ASSUME NewSocket \/ UseET \/ Announce PROVE Goal
  <2>1. UNCHANGED <<stage, connections, fd_>>
    BY <1>4 DEF NewSocket, UseET, Announce, Throw
  <2>2. QED
    BY <2>1
<1>5. ASSUME NEW c \in Clients, Send(c) \/ Reset(c) \/ SigPipe(c) PROVE Goal
  <2>1. UNCHANGED <<stage, connections, fd_>>
    BY <1>5 DEF Send, Reset, SigPipe, Throw
  <2>2. QED
    BY <2>1
<1>6. ASSUME StopAndContinue \/ UNCHANGED vars \/ \E th \in Threads : CloseFd(th) PROVE Goal
  <2>1. UNCHANGED <<stage, connections, fd_>>
    BY <1>6 DEF StopAndContinue, CloseFd, vars
  <2>2. QED
    BY <2>1
<1> HIDE DEF Goal
<1>7. \/ ~crashed /\ \E c \in Clients : Connect(c) \/ Accept(c)
      \/ ~crashed /\ (EnableRead \/ SetCallBacks)
      \/ ~crashed /\ Insert
      \/ Goal
  BY <1>1, <1>2, <1>3, <1>4, <1>5, <1>6 DEF Next, MainStep, ReactorStep
<1>8. QED
  BY <1>7 DEF Goal

(* connections_[fd] = conn publishes the new Connection and destroys the   *)
(* one that it replaces, unless a callback holds that one.                 *)
LEMMA InsertEffect ==
  ASSUME ServerInv, ~crashed, Insert
  PROVE  \E f \in Fds, old \in Clients \cup {None} :
            /\ f = fd_[cur] /\ old = connections[f] /\ old # cur /\ cur \in Clients
            /\ old # None => fd_[old] = f /\ stage[old] = "published"
            /\ connections' = [connections EXCEPT ![f] = cur]
            /\ stage'[cur] = "published"
            /\ \A d \in Clients : d \notin {cur, old} => stage'[d] = stage[d]
            /\ \/ /\ old = None \/ Held(old)
                  /\ old # None => stage'[old] = stage[old]
                  /\ closing' = [closing EXCEPT ![Main] = <<>>]
               \/ /\ old # None /\ ~Held(old)
                  /\ stage'[old] = "destroyed"
                  /\ closing' = [closing EXCEPT ![Main] = DestructorCloses(old)]
<1> USE ServerAssumption
<1>1. /\ cur \in Clients /\ fd_[cur] \in Fds /\ stage[cur] = "callbacks"
      /\ connections \in [Fds -> Clients \cup {None}]
  BY CurFacts DEF ServerInv, Insert, TypeOK
<1>2. PICK f \in Fds, old \in Clients \cup {None} : f = fd_[cur] /\ old = connections[f]
  BY <1>1
<1>3. old # None => fd_[old] = f /\ stage[old] = "published"
  BY <1>1, <1>2 DEF ServerInv, FdsAssigned
<1>4. old # cur
  BY <1>1, <1>3
<1>5. /\ connections' = [connections EXCEPT ![f] = cur]
      /\ stage' = [c \in Clients |-> CASE c = cur -> "published"
                                        [] c = old /\ (old # None /\ ~Held(old)) -> "destroyed"
                                        [] OTHER -> stage[c]]
      /\ closing' = [closing EXCEPT ![Main] =
                        IF old # None /\ ~Held(old) THEN DestructorCloses(old) ELSE <<>>]
  BY <1>2 DEF Insert, Stored
<1>6. /\ stage'[cur] = "published"
      /\ \A d \in Clients : d \notin {cur, old} => stage'[d] = stage[d]
  BY <1>1, <1>4, <1>5
<1>7. CASE old # None /\ ~Held(old)
  <2>1. old \in Clients
    BY <1>2, <1>7
  <2>2. stage'[old] = "destroyed"
    BY <1>4, <1>5, <1>7, <2>1
  <2>3. QED
    BY <1>1, <1>2, <1>3, <1>4, <1>5, <1>6, <1>7, <2>2
<1>8. CASE ~(old # None /\ ~Held(old))
  <2>1. old # None => stage'[old] = stage[old]
    BY <1>2, <1>4, <1>5, <1>8
  <2>2. QED
    BY <1>1, <1>2, <1>3, <1>4, <1>5, <1>6, <1>8, <2>1
<1>9. QED
  BY <1>7, <1>8

(* Stages and main go together.                                            *)
LEMMA NextStages ==
  ASSUME ServerInv, [Next]_vars
  PROVE  OneIsBuilt' /\ StageFollowsMain'
<1> USE ServerAssumption
<1>t. Types /\ OneIsBuilt /\ TypeOK /\ StageFollowsMain /\ FdsAssigned
  BY TypeOKSplit DEF ServerInv
<1>u. /\ stage \in [Clients -> Stages]
      /\ main \in {"loop", "socket", "add", "et", "callbacks", "insert", "announce", "onconnect"}
  BY <1>t DEF Types
<1>1. ASSUME UNCHANGED <<main, cur>>, crashed' = FALSE => crashed = FALSE,
             \A d \in Clients : \/ stage'[d] = stage[d]
                                \/ stage[d] = "published" /\ stage'[d] = "destroyed"
                                \/ stage[d] = "away" /\ stage'[d] = "queued"
      PROVE  OneIsBuilt' /\ StageFollowsMain'
  <2>1. OneIsBuilt'
    BY <1>1, <1>t DEF OneIsBuilt
  <2>2. StageFollowsMain'
    <3>1. ASSUME ~crashed'
          PROVE  /\ ~crashed
                 /\ main = "loop" => cur' = None
                 /\ main \notin {"loop", "onconnect"} => cur' \in Clients
                 /\ main \in {"socket", "add"} => stage'[cur] = "accepted"
                 /\ main \in {"et", "callbacks"} => stage'[cur] = "added"
                 /\ main = "insert" => stage'[cur] = "callbacks"
                 /\ main = "announce" => stage'[cur] \in {"published", "destroyed"}
      <4>1. ~crashed
        <5>1. crashed \in BOOLEAN /\ crashed' \in BOOLEAN
          BY <1>t, NextTypes DEF Types
        <5>2. QED
          BY <1>1, <3>1, <5>1
      <4>2. main = "loop" => cur' = None
        BY <1>1, <1>t, <4>1 DEF StageFollowsMain
      <4>3. CASE main \notin {"loop", "onconnect"}
        BY <1>1, <1>t, <4>1, <4>3, CurFacts
      <4>4. QED
        BY <4>1, <4>2, <4>3
    <3>2. QED
      BY <1>1, <1>u, <3>1 DEF StageFollowsMain
  <2>3. QED
    BY <2>1, <2>2
<1>2. ASSUME ~crashed, NEW c \in Clients, Accept(c) PROVE OneIsBuilt' /\ StageFollowsMain'
  <2>1. /\ main = "loop" /\ stage' = [stage EXCEPT ![c] = "accepted"] /\ cur' = c
        /\ main' = "socket"
    BY <1>2 DEF Accept, MainIdle
  <2>2. \A d \in Clients : stage[d] \notin Building
    BY <1>t, <2>1 DEF OneIsBuilt, Building
  <2>3. /\ stage'[c] = "accepted"
        /\ \A d \in Clients : d # c => stage'[d] = stage[d]
    BY <1>u, <2>1
  <2>4. OneIsBuilt'
    BY <2>1, <2>2, <2>3 DEF OneIsBuilt, Building
  <2>5. QED
    BY <2>1, <2>3, <2>4 DEF StageFollowsMain
<1>3. ASSUME Throw PROVE OneIsBuilt' /\ StageFollowsMain'
  BY <1>1, <1>3 DEF Throw, mvars
<1>4. ASSUME ~crashed, NewSocket PROVE OneIsBuilt' /\ StageFollowsMain'
  <2>1. CASE FreeFds # {}
    <3>1. main = "socket" /\ main' = "add" /\ UNCHANGED <<stage, cur, crashed>>
      BY <1>4, <2>1 DEF NewSocket
    <3>2. QED
      BY <1>t, <1>4, <3>1 DEF OneIsBuilt, StageFollowsMain
  <2>2. CASE FreeFds = {}
    BY <1>3, <1>4, <2>2 DEF NewSocket
  <2>3. QED
    BY <2>1, <2>2
<1>5. ASSUME ~crashed, EnableRead PROVE OneIsBuilt' /\ StageFollowsMain'
  <2>1. CASE fdt[fd_[cur]] # None
    <3>1. main = "add" /\ main' = "et" /\ stage' = [stage EXCEPT ![cur] = "added"] /\ UNCHANGED cur
      BY <1>5, <2>1 DEF EnableRead
    <3>2. cur \in Clients
      BY <1>t, <1>5, <3>1, CurFacts
    <3>3. /\ stage'[cur] = "added"
          /\ \A d \in Clients : d # cur => stage'[d] = stage[d]
      BY <1>u, <3>1, <3>2
    <3>4. QED
      BY <1>t, <3>1, <3>2, <3>3 DEF OneIsBuilt, StageFollowsMain
  <2>2. CASE fdt[fd_[cur]] = None
    BY <1>3, <1>5, <2>2 DEF EnableRead
  <2>3. QED
    BY <2>1, <2>2
<1>6. ASSUME ~crashed, UseET PROVE OneIsBuilt' /\ StageFollowsMain'
  <2>1. CASE epoll[fd_[cur]].ch # None
    <3>1. main = "et" /\ main' = "callbacks" /\ UNCHANGED <<stage, cur, crashed>>
      BY <1>6, <2>1 DEF UseET
    <3>2. QED
      BY <1>t, <1>6, <3>1 DEF OneIsBuilt, StageFollowsMain
  <2>2. CASE epoll[fd_[cur]].ch = None
    BY <1>3, <1>6, <2>2 DEF UseET
  <2>3. QED
    BY <2>1, <2>2
<1>7. ASSUME ~crashed, SetCallBacks PROVE OneIsBuilt' /\ StageFollowsMain'
  <2>1. /\ main = "callbacks" /\ main' = "insert" /\ stage' = [stage EXCEPT ![cur] = "callbacks"]
        /\ UNCHANGED cur
    BY <1>7 DEF SetCallBacks
  <2>2. cur \in Clients
    BY <1>t, <1>7, <2>1, CurFacts
  <2>3. /\ stage'[cur] = "callbacks"
        /\ \A d \in Clients : d # cur => stage'[d] = stage[d]
    BY <1>u, <2>1, <2>2
  <2>4. QED
    BY <1>t, <2>1, <2>2, <2>3 DEF OneIsBuilt, StageFollowsMain
<1>8. ASSUME ~crashed, Insert PROVE OneIsBuilt' /\ StageFollowsMain'
  <2>1. main = "insert" /\ main' = "announce" /\ UNCHANGED cur
    BY <1>8 DEF Insert
  <2>2. cur \in Clients
    BY <1>t, <1>8, <2>1, CurFacts
  <2>3. /\ stage'[cur] = "published"
        /\ \A d \in Clients : d # cur => stage'[d] \in {stage[d], "destroyed"}
    BY <1>8, InsertEffect
  <2>4. QED
    BY <1>t, <2>1, <2>2, <2>3 DEF OneIsBuilt, StageFollowsMain
<1>9. ASSUME ~crashed, Announce PROVE OneIsBuilt' /\ StageFollowsMain'
  <2>1. /\ main = "announce" /\ UNCHANGED stage
        /\ \/ main' = "loop" /\ cur' = None
           \/ main' = "onconnect"
    BY <1>9 DEF Announce
  <2>2. QED
    BY <1>t, <2>1 DEF OneIsBuilt, StageFollowsMain
<1>15. ASSUME ~crashed, NEW close \in BOOLEAN, OnConnection(close)
       PROVE  OneIsBuilt' /\ StageFollowsMain'
  <2>1. CASE cur = None
    BY <1>3, <1>15, <2>1 DEF OnConnection
  <2>2. CASE cur # None
    <3>1. main = "onconnect" /\ main' = "loop" /\ cur' = None
      BY <1>15, <2>2 DEF OnConnection
    <3>2. \A d \in Clients : stage'[d] \in {stage[d], "destroyed"}
      BY <1>15, <2>2, OnConnectionReturns, ReturnStages
    <3>3. QED
      BY <1>t, <3>1, <3>2 DEF OneIsBuilt, StageFollowsMain
  <2>3. QED
    BY <2>1, <2>2
<1>10. ASSUME ~crashed, NEW r \in Reactors, ReactorStep(r) PROVE OneIsBuilt' /\ StageFollowsMain'
  <2>1. crashed = FALSE
    BY <1>10, <1>t DEF Types
  <2>2. /\ UNCHANGED <<main, cur>>
        /\ \A d \in Clients : \/ stage'[d] = stage[d]
                              \/ stage[d] = "published" /\ stage'[d] = "destroyed"
    BY <1>10, ReactorStage
  <2>3. QED
    BY <1>1, <2>1, <2>2
<1>11. ASSUME ~crashed, NEW c \in Clients, Connect(c) PROVE OneIsBuilt' /\ StageFollowsMain'
  <2>1. /\ UNCHANGED <<main, cur, crashed>> /\ stage[c] = "away"
        /\ stage' = [stage EXCEPT ![c] = "queued"]
    BY <1>11 DEF Connect, mvars
  <2>2. \A d \in Clients : stage'[d] = stage[d] \/ (stage[d] = "away" /\ stage'[d] = "queued")
    BY <1>u, <2>1
  <2>3. QED
    BY <1>1, <2>1, <2>2
<1>12. CASE UNCHANGED <<main, cur, stage>> /\ ~crashed
  <2>1. crashed = FALSE
    BY <1>12, <1>t DEF Types
  <2>2. QED
    BY <1>1, <1>12, <2>1
<1>13. CASE UNCHANGED vars
  BY <1>1, <1>13 DEF vars
<1>14. QED
  BY <1>2, <1>4, <1>5, <1>6, <1>7, <1>8, <1>9, <1>10, <1>11, <1>12, <1>13, <1>15
     DEF Next, MainStep, Send, Reset, SigPipe, Throw, CloseFd, StopAndContinue, mvars

(* Stages are passed in one direction, and a descriptor stays assigned.    *)
LEMMA StagesGrow ==
  ASSUME ServerInv, [Next]_vars, NEW c \in Clients
  PROVE  /\ stage[c] \notin {"away", "queued"} =>
               stage'[c] \notin {"away", "queued"} /\ fd_'[c] = fd_[c]
         /\ stage[c] \notin {"away", "queued", "accepted"} =>
               stage'[c] \notin {"away", "queued", "accepted"}
<1>t. stage \in [Clients -> Stages] /\ fd_ \in [Clients -> Fds \cup {None}]
  BY DEF ServerInv, TypeOK
<1>1. ASSUME NEW d \in Clients, Accept(d)
      PROVE  /\ stage[d] = "queued" /\ stage' = [stage EXCEPT ![d] = "accepted"]
             /\ c # d => fd_'[c] = fd_[c]
  BY <1>t, <1>1 DEF Accept, SocketAccept
<1>2. ASSUME NEW d \in Clients, Connect(d)
      PROVE  /\ stage[d] = "away" /\ stage' = [stage EXCEPT ![d] = "queued"] /\ fd_' = fd_
  BY <1>2 DEF Connect
<1>3. ASSUME EnableRead \/ SetCallBacks
      PROVE  fd_' = fd_ /\ (stage' = stage \/ \E x \in {"added", "callbacks"} :
                                                stage' = [stage EXCEPT ![cur] = x])
  BY <1>3 DEF EnableRead, SetCallBacks, Throw
<1>4. ASSUME ~crashed, Insert
      PROVE  fd_' = fd_ /\ stage'[c] \in {stage[c], "published", "destroyed"}
  <2>1. fd_' = fd_
    BY <1>4 DEF Insert
  <2>2. PICK f \in Fds, old \in Clients \cup {None} :
           /\ stage'[cur] = "published"
           /\ \A d \in Clients : d \notin {cur, old} => stage'[d] = stage[d]
           /\ old # None => stage'[old] \in {stage[old], "destroyed"}
    BY <1>4, InsertEffect
  <2>3. c = old => old # None
    BY ServerAssumption
  <2>4. stage'[c] \in {stage[c], "published", "destroyed"}
    BY <2>2, <2>3
  <2>5. QED
    BY <2>1, <2>4
<1>5. ASSUME ~crashed, NEW th \in Threads, NEW d \in Clients, NEW close \in BOOLEAN,
             Returns(th, d, close)
      PROVE  fd_' = fd_ /\ stage'[c] \in {stage[c], "destroyed"}
  BY <1>5, ReturnStages
<1>6. CASE \E d \in Clients : Accept(d)
  BY <1>1, <1>6, <1>t
<1>7. CASE \E d \in Clients : Connect(d)
  BY <1>2, <1>7, <1>t
<1>8. CASE EnableRead \/ SetCallBacks
  BY <1>3, <1>8, <1>t
<1>9. CASE ~crashed /\ Insert
  BY <1>4, <1>9
<1>10. CASE ~crashed /\ \E th \in Threads, d \in Clients, close \in BOOLEAN : Returns(th, d, close)
  BY <1>5, <1>10
<1>11. CASE UNCHANGED <<stage, fd_>>
  BY <1>11
<1>12. QED
  BY <1>6, <1>7, <1>8, <1>9, <1>10, <1>11, StageSteps

(* The server starts in the invariant.                                     *)
LEMMA InitServerInv == Init => ServerInv
<1> SUFFICES ASSUME Init PROVE ServerInv
  OBVIOUS
<1> USE ServerAssumption
<1>1. /\ stage = [c \in Clients |-> "away"] /\ sends = [c \in Clients |-> 0]
      /\ unread = [c \in Clients |-> FALSE] /\ reset = {} /\ fdt = [f \in Fds |-> None]
      /\ epoll = [f \in Fds |-> NotRegistered] /\ fd_ = [c \in Clients |-> None]
      /\ connections = [f \in Fds |-> None] /\ main = "loop" /\ cur = None
      /\ pc = [r \in Reactors |-> "loop"] /\ todo = [r \in Reactors |-> {}]
      /\ hcur = [r \in Reactors |-> None] /\ closing = [th \in Threads |-> <<>>]
      /\ stops = 0 /\ crashed = FALSE
  BY DEF Init
<1>2. TypeOK
  <2>1. closing \in [Threads -> Seq(Fds)]
    BY <1>1, EmptySeq
  <2>2. epoll \in [Fds -> [ch : Clients \cup {None}, et : BOOLEAN, armed : BOOLEAN]]
    BY <1>1 DEF NotRegistered
  <2>3. Types
    <3>1. stops \in 0..MaxStops /\ sends \in [Clients -> 0..MaxSends]
      BY <1>1
    <3>2. unread \in [Clients -> BOOLEAN] /\ crashed \in BOOLEAN
      BY <1>1
    <3>3. /\ stage \in [Clients -> Stages] /\ pc \in [Reactors -> {"loop", "read", "callback", "return", "dead"}]
          /\ main \in {"loop", "socket", "add", "et", "callbacks", "insert", "announce", "onconnect"}
      BY <1>1 DEF Stages
    <3>4. /\ fdt \in [Fds -> Clients \cup {None, Spare}] /\ fd_ \in [Clients -> Fds \cup {None}]
          /\ connections \in [Fds -> Clients \cup {None}] /\ cur \in Clients \cup {None}
          /\ todo \in [Reactors -> SUBSET Clients] /\ hcur \in [Reactors -> Clients \cup {None}]
          /\ reset \in SUBSET Clients
      BY <1>1
    <3>5. QED
      BY <2>1, <2>2, <3>1, <3>2, <3>3, <3>4 DEF Types
  <2>4. OneIsBuilt
    BY <1>1 DEF OneIsBuilt
  <2>5. QED
    BY <2>3, <2>4, TypeOKSplit
<1>3. StageFollowsMain
  BY <1>1 DEF StageFollowsMain
<1>4. FdsAssigned
  BY <1>1 DEF FdsAssigned
<1>5. HandlerInCharge
  BY <1>1 DEF HandlerInCharge, NotRegistered
<1>6. ClosingInPlace
  BY <1>1, MainIsNoReactor DEF ClosingInPlace
<1>7. HeldAlive
  BY <1>1 DEF HeldAlive, Held, Holders
<1>8. NoOrphanStream
  BY <1>1 DEF NoOrphanStream
<1>9. QED
  BY <1>2, <1>3, <1>4, <1>5, <1>6, <1>7, <1>8 DEF ServerInv

(* Accept is the only step that gives a Connection a descriptor; what the  *)
(* other steps do to the descriptor table.                                 *)
LEMMA TableSteps ==
  ASSUME ServerInv, [Next]_vars
  PROVE  \/ \E c \in Clients : Accept(c) /\ stage[c] = "queued" /\ crashed = FALSE
         \/ /\ fd_' = fd_
            /\ \A c \in Clients : stage'[c] \notin {"away", "queued"} =>
                                    stage[c] \notin {"away", "queued"}
            /\ \A f \in Fds : fdt'[f] \in Clients => fdt'[f] = fdt[f]
            /\ crashed' = FALSE => crashed = FALSE
<1> USE ServerAssumption
<1>t. /\ stage \in [Clients -> Stages] /\ crashed \in BOOLEAN /\ closing \in [Threads -> Seq(Fds)]
      /\ fdt \in [Fds -> Clients \cup {None, Spare}]
  BY DEF ServerInv, TypeOK
<1> DEFINE Goal == /\ fd_' = fd_
                   /\ \A c \in Clients : stage'[c] \notin {"away", "queued"} =>
                                           stage[c] \notin {"away", "queued"}
                   /\ \A f \in Fds : fdt'[f] \in Clients => fdt'[f] = fdt[f]
                   /\ crashed' = FALSE => crashed = FALSE
<1>1. CASE UNCHANGED vars
  BY <1>1 DEF vars
<1>2. ASSUME ~crashed PROVE crashed' = FALSE => crashed = FALSE
  BY <1>t, <1>2
<1>3. ASSUME ~crashed, UNCHANGED <<stage, fd_, fdt>> PROVE Goal
  BY <1>2, <1>3
<1>4. ASSUME ~crashed, NEW c \in Clients, Connect(c) PROVE Goal
  <2>1. stage' = [stage EXCEPT ![c] = "queued"] /\ UNCHANGED <<fd_, fdt>>
    BY <1>4 DEF Connect, kvars
  <2>2. QED
    BY <1>2, <1>4, <1>t, <2>1
<1>5. ASSUME ~crashed, EnableRead \/ SetCallBacks PROVE Goal
  <2>1. /\ UNCHANGED <<fd_, fdt>>
        /\ \/ stage' = stage
           \/ \E x \in {"added", "callbacks"} : stage' = [stage EXCEPT ![cur] = x]
    BY <1>5 DEF EnableRead, SetCallBacks, Throw, kvars
  <2>2. cur \in Clients /\ stage[cur] \in {"accepted", "added"}
    BY <1>5, CurFacts DEF ServerInv, EnableRead, SetCallBacks
  <2>3. QED
    BY <1>2, <1>5, <1>t, <2>1, <2>2
<1>6. ASSUME ~crashed, Insert PROVE Goal
  <2>1. UNCHANGED <<fd_, fdt>>
    BY <1>6 DEF Insert, kvars
  <2>2. stage[cur] = "callbacks" /\ cur \in Clients
    BY <1>6, CurFacts DEF ServerInv, Insert
  <2>3. PICK f \in Fds, old \in Clients \cup {None} :
           /\ old # None => stage[old] = "published"
           /\ \A d \in Clients : d \notin {cur, old} => stage'[d] = stage[d]
    BY <1>6, InsertEffect
  <2>4. QED
    BY <1>2, <1>6, <2>1, <2>2, <2>3
<1>7. ASSUME ~crashed, NEW r \in Reactors, ReactorStep(r) PROVE Goal
  BY <1>2, <1>7, ReactorStage
<1>8. ASSUME ~crashed, NewSocket PROVE Goal
  <2>1. CASE FreeFds # {}
    <3>1. fdt' = [fdt EXCEPT ![LowestFree] = Spare] /\ UNCHANGED <<stage, fd_>>
      BY <1>8, <2>1 DEF NewSocket, SocketOpened
    <3>2. QED
      BY <1>2, <1>8, <1>t, <3>1
  <2>2. CASE FreeFds = {}
    BY <1>3, <1>8, <2>2 DEF NewSocket, Throw, kvars
  <2>3. QED
    BY <2>1, <2>2
<1>9. ASSUME ~crashed, NEW th \in Threads, CloseFd(th) PROVE Goal
  <2>1. fdt' = [fdt EXCEPT ![Head(closing[th])] = None] /\ UNCHANGED <<stage, fd_>>
    BY <1>9 DEF CloseFd
  <2>2. QED
    BY <1>2, <1>9, <1>t, <2>1
<1>10. ASSUME ~crashed, NEW c \in Clients, Accept(c)
       PROVE Accept(c) /\ stage[c] = "queued" /\ crashed = FALSE
  BY <1>10, <1>t DEF Accept
<1>11. ASSUME ~crashed, NEW close \in BOOLEAN, OnConnection(close) PROVE Goal
  <2>1. CASE cur = None
    BY <1>3, <1>11, <2>1 DEF OnConnection, Throw, kvars
  <2>2. CASE cur # None
    BY <1>2, <1>11, <2>2, OnConnectionReturns, ReturnStages
  <2>3. QED
    BY <2>1, <2>2
<1>12. QED
  BY <1>1, <1>3, <1>4, <1>5, <1>6, <1>7, <1>8, <1>9, <1>10, <1>11
     DEF Next, MainStep, UseET, Announce, Throw, Send, Reset, SigPipe, StopAndContinue, kvars

(* What accept() does when a descriptor is free.                           *)
LEMMA AcceptEffect ==
  ASSUME ServerInv, NEW c \in Clients, Accept(c)
  PROVE  /\ stage' = [stage EXCEPT ![c] = "accepted"] /\ stage[c] = "queued"
         /\ connections' = connections /\ epoll' = epoll
         /\ \/ /\ FreeFds # {} /\ LowestFree \in Fds /\ fdt[LowestFree] = None
               /\ fdt' = [fdt EXCEPT ![LowestFree] = c]
               /\ fd_' = [fd_ EXCEPT ![c] = LowestFree]
            \/ /\ FreeFds = {} /\ crashed'
               /\ fdt' = fdt /\ fd_' = fd_
<1>1. CASE FreeFds # {}
  BY <1>1, LowestIsFree DEF Accept, SocketAccept
<1>2. CASE FreeFds = {}
  BY <1>2 DEF Accept, SocketAccept
<1>3. QED
  BY <1>1, <1>2

(* Descriptors are assigned once, and connections_ has only published      *)
(* Connections under their own descriptors.                                *)
LEMMA NextFdsAssigned ==
  ASSUME ServerInv, [Next]_vars
  PROVE  FdsAssigned'
<1> USE ServerAssumption
<1>t. /\ stage \in [Clients -> Stages] /\ fdt \in [Fds -> Clients \cup {None, Spare}]
      /\ fd_ \in [Clients -> Fds \cup {None}] /\ connections \in [Fds -> Clients \cup {None}]
      /\ crashed \in BOOLEAN /\ crashed' \in BOOLEAN
  BY NextTypes DEF ServerInv, TypeOK, Types
<1>a. /\ ~crashed => \A c \in Clients : stage[c] \notin {"away", "queued"} => fd_[c] \in Fds
      /\ \A f \in Fds : fdt[f] \in Clients =>
            fd_[fdt[f]] = f /\ stage[fdt[f]] \notin {"away", "queued"}
      /\ \A f \in Fds : connections[f] \in Clients =>
            fd_[connections[f]] = f /\ stage[connections[f]] = "published"
  BY DEF ServerInv, FdsAssigned
<1>g. \A c \in Clients : stage[c] \notin {"away", "queued"} =>
         stage'[c] \notin {"away", "queued"} /\ fd_'[c] = fd_[c]
  BY StagesGrow
<1>1. /\ ~crashed' => \A c \in Clients : stage'[c] \notin {"away", "queued"} => fd_'[c] \in Fds
      /\ \A f \in Fds : fdt'[f] \in Clients =>
            fd_'[fdt'[f]] = f /\ stage'[fdt'[f]] \notin {"away", "queued"}
  <2>1. ASSUME NEW c \in Clients, Accept(c), stage[c] = "queued", crashed = FALSE
        PROVE  /\ ~crashed' => \A d \in Clients : stage'[d] \notin {"away", "queued"} => fd_'[d] \in Fds
               /\ \A f \in Fds : fdt'[f] \in Clients =>
                     fd_'[fdt'[f]] = f /\ stage'[fdt'[f]] \notin {"away", "queued"}
    <3>1. \A d \in Clients : d # c => stage'[d] = stage[d]
      BY <1>t, <2>1, AcceptEffect
    <3>2. CASE FreeFds # {}
      <4>1. /\ LowestFree \in Fds /\ fdt' = [fdt EXCEPT ![LowestFree] = c]
            /\ fd_'[c] = LowestFree /\ stage'[c] = "accepted"
        BY <1>t, <2>1, <3>2, AcceptEffect
      <4>2. \A d \in Clients : stage'[d] \notin {"away", "queued"} => fd_'[d] \in Fds
        <5>1. \A d \in Clients : d # c /\ stage'[d] \notin {"away", "queued"} => fd_'[d] \in Fds
          BY <1>a, <1>g, <2>1, <3>1
        <5>2. QED
          BY <4>1, <5>1
      <4>3. ASSUME NEW f \in Fds, fdt'[f] \in Clients
            PROVE  fd_'[fdt'[f]] = f /\ stage'[fdt'[f]] \notin {"away", "queued"}
        <5>1. CASE f = LowestFree
          BY <1>t, <4>1, <5>1
        <5>2. CASE f # LowestFree
          <6>1. fdt'[f] = fdt[f]
            BY <1>t, <4>1, <5>2
          <6>2. QED
            BY <1>a, <1>g, <4>3, <6>1
        <5>3. QED
          BY <5>1, <5>2
      <4>4. QED
        BY <4>2, <4>3
    <3>3. CASE FreeFds = {}
      <4>1. crashed' /\ fdt' = fdt
        BY <2>1, <3>3, AcceptEffect
      <4>2. QED
        BY <1>a, <1>g, <4>1
    <3>4. QED
      BY <3>2, <3>3
  <2>2. ASSUME fd_' = fd_, \A c \in Clients : stage'[c] \notin {"away", "queued"} =>
                                                stage[c] \notin {"away", "queued"},
               \A f \in Fds : fdt'[f] \in Clients => fdt'[f] = fdt[f],
               crashed' = FALSE => crashed = FALSE
        PROVE  /\ ~crashed' => \A d \in Clients : stage'[d] \notin {"away", "queued"} => fd_'[d] \in Fds
               /\ \A f \in Fds : fdt'[f] \in Clients =>
                     fd_'[fdt'[f]] = f /\ stage'[fdt'[f]] \notin {"away", "queued"}
    <3>1. ~crashed' => ~crashed
      BY <1>t, <2>2
    <3>2. QED
      BY <1>a, <1>g, <2>2, <3>1
  <2>3. QED
    BY <2>1, <2>2, TableSteps
<1>2. ASSUME NEW f \in Fds, connections'[f] \in Clients
      PROVE  fd_'[connections'[f]] = f /\ stage'[connections'[f]] = "published"
  <2>1. ASSUME connections' = connections,
               \A d \in Clients : stage[d] = "published" => stage'[d] = "published"
        PROVE  fd_'[connections'[f]] = f /\ stage'[connections'[f]] = "published"
    BY <1>2, <1>a, <1>g, <2>1
  <2>2. ASSUME NEW c \in Clients, Connect(c) \/ Accept(c)
        PROVE  /\ connections' = connections
               /\ \A d \in Clients : stage[d] = "published" => stage'[d] = "published"
    <3>1. CASE Connect(c)
      BY <1>t, <3>1 DEF Connect
    <3>2. CASE Accept(c)
      BY <1>t, <3>2 DEF Accept
    <3>3. QED
      BY <2>2, <3>1, <3>2
  <2>3. ASSUME ~crashed, EnableRead \/ SetCallBacks
        PROVE  /\ connections' = connections
               /\ \A d \in Clients : stage[d] = "published" => stage'[d] = "published"
    <3>1. cur \in Clients /\ stage[cur] \in {"accepted", "added"}
      BY <2>3, CurFacts DEF ServerInv, EnableRead, SetCallBacks
    <3>2. /\ connections' = connections
          /\ \/ stage' = stage
             \/ \E x \in {"added", "callbacks"} : stage' = [stage EXCEPT ![cur] = x]
      BY <2>3 DEF EnableRead, SetCallBacks, Throw
    <3>3. QED
      BY <1>t, <3>1, <3>2
  <2>4. ASSUME ~crashed, Insert
        PROVE  fd_'[connections'[f]] = f /\ stage'[connections'[f]] = "published"
    <3>1. fd_' = fd_
      BY <2>4 DEF Insert
    <3>2. PICK g \in Fds, old \in Clients \cup {None} :
             /\ g = fd_[cur] /\ old = connections[g] /\ cur \in Clients
             /\ connections' = [connections EXCEPT ![g] = cur]
             /\ stage'[cur] = "published"
             /\ \A d \in Clients : d \notin {cur, old} => stage'[d] = stage[d]
      BY <2>4, InsertEffect
    <3>3. CASE f = g
      BY <1>t, <3>1, <3>2, <3>3
    <3>4. CASE f # g
      <4>1. connections'[f] = connections[f]
        BY <1>t, <3>2, <3>4
      <4>2. fd_[connections[f]] = f /\ stage[connections[f]] = "published"
        BY <1>2, <1>a, <4>1
      <4>3. connections[f] # old
        BY <1>2, <1>a, <3>2, <3>4, <4>1, <4>2
      <4>4. QED
        BY <1>2, <3>1, <3>2, <4>1, <4>2, <4>3
    <3>5. QED
      BY <3>3, <3>4
  <2>5. ASSUME ~crashed, NEW th \in Threads, NEW c \in Clients, NEW close \in BOOLEAN,
               Returns(th, c, close)
        PROVE  fd_'[connections'[f]] = f /\ stage'[connections'[f]] = "published"
    <3>1. /\ fd_' = fd_
          /\ \A d \in Clients : stage'[d] = stage[d] \/ \A g \in Fds : connections'[g] # d
          /\ connections'[f] # None => connections'[f] = connections[f]
      BY <2>5, ReturnStages
    <3>2. connections'[f] = connections[f]
      BY <1>2, <3>1
    <3>3. stage'[connections[f]] = stage[connections[f]]
      BY <1>2, <3>1, <3>2
    <3>4. QED
      BY <1>2, <1>a, <3>1, <3>2, <3>3
  <2>6. CASE UNCHANGED <<connections, stage>>
    BY <2>1, <2>6
  <2>7. QED
    BY <2>1, <2>2, <2>3, <2>4, <2>5, <2>6, StageSteps
<1>3. QED
  BY <1>1, <1>2 DEF FdsAssigned

(* Once its callbacks are set, a Connection stays published or dies.       *)
LEMMA CallbacksStay ==
  ASSUME ServerInv, [Next]_vars, NEW c \in Clients,
         stage[c] \in {"callbacks", "published", "destroyed"}
  PROVE  stage'[c] \in {"callbacks", "published", "destroyed"}
<1>t. stage \in [Clients -> Stages]
  BY DEF ServerInv, TypeOK
<1>1. ASSUME NEW d \in Clients, Accept(d) \/ Connect(d)
      PROVE  stage'[c] = stage[c]
  <2>1. CASE Accept(d)
    BY <1>t, <2>1 DEF Accept
  <2>2. CASE Connect(d)
    BY <1>t, <2>2 DEF Connect
  <2>3. QED
    BY <1>1, <2>1, <2>2
<1>2. ASSUME ~crashed, EnableRead \/ SetCallBacks
      PROVE  stage'[c] = stage[c]
  <2>1. cur \in Clients /\ stage[cur] \in {"accepted", "added"}
    BY <1>2, CurFacts DEF ServerInv, EnableRead, SetCallBacks
  <2>2. \/ stage' = stage
        \/ \E x \in {"added", "callbacks"} : stage' = [stage EXCEPT ![cur] = x]
    BY <1>2 DEF EnableRead, SetCallBacks, Throw
  <2>3. QED
    BY <1>t, <2>1, <2>2
<1>3. ASSUME ~crashed, Insert
      PROVE  stage'[c] \in {stage[c], "published", "destroyed"}
  <2>1. PICK f \in Fds, old \in Clients \cup {None} :
           /\ stage'[cur] = "published"
           /\ \A d \in Clients : d \notin {cur, old} => stage'[d] = stage[d]
           /\ old # None => stage'[old] \in {stage[old], "destroyed"}
    BY <1>3, InsertEffect
  <2>2. c = old => old # None
    BY ServerAssumption
  <2>3. QED
    BY <2>1, <2>2
<1>4. ASSUME ~crashed, NEW th \in Threads, NEW d \in Clients, NEW close \in BOOLEAN,
             Returns(th, d, close)
      PROVE  stage'[c] \in {stage[c], "destroyed"}
  BY <1>4, ReturnStages
<1>5. CASE UNCHANGED stage
  BY <1>5
<1>6. QED
  BY <1>1, <1>2, <1>3, <1>4, <1>5, StageSteps

(* Where registrations come from.                                          *)
LEMMA RegistrationSteps ==
  ASSUME ServerInv, [Next]_vars, NEW f \in Fds, epoll'[f].ch # None
  PROVE  \/ epoll'[f].ch = epoll[f].ch
         \/ epoll'[f].ch = cur /\ cur \in Clients /\ stage'[cur] = "added"
<1> USE ServerAssumption
<1>t. /\ epoll \in [Fds -> [ch : Clients \cup {None}, et : BOOLEAN, armed : BOOLEAN]]
      /\ stage \in [Clients -> Stages]
  BY DEF ServerInv, TypeOK
<1>e. epoll[f] \in [ch : Clients \cup {None}, et : BOOLEAN, armed : BOOLEAN]
  BY <1>t
<1>1. ASSUME epoll'[f] \in {epoll[f], [epoll[f] EXCEPT !.armed = TRUE], [epoll[f] EXCEPT !.armed = FALSE]}
      PROVE  epoll'[f].ch = epoll[f].ch
  BY <1>1, <1>e, ArmedType
<1>2. ASSUME NEW c \in Clients, Send(c) \/ Reset(c) PROVE epoll'[f].ch = epoll[f].ch
  <2>1. epoll' = [g \in Fds |-> IF fdt[g] = c THEN [epoll[g] EXCEPT !.armed = TRUE] ELSE epoll[g]]
    BY <1>2 DEF Send, Reset, InputArrives
  <2>2. QED
    BY <1>1, <2>1
<1>3. ASSUME NEW r \in Reactors, Poll(r) PROVE epoll'[f].ch = epoll[f].ch
  <2>1. PICK S : epoll' = [g \in Fds |-> IF g \in S THEN [epoll[g] EXCEPT !.armed = FALSE] ELSE epoll[g]]
    BY <1>3 DEF Poll
  <2>2. QED
    BY <1>1, <2>1
<1>4. ASSUME ~crashed, NEW et \in BOOLEAN, cur \in Clients, stage'[cur] = "added",
             epoll' = [epoll EXCEPT ![fd_[cur]] = Registration(et)]
      PROVE  \/ epoll'[f].ch = epoll[f].ch
             \/ epoll'[f].ch = cur /\ cur \in Clients /\ stage'[cur] = "added"
  BY <1>4, <1>t DEF Registration
<1>5. ASSUME ~crashed, EnableRead
      PROVE  \/ epoll'[f].ch = epoll[f].ch
             \/ epoll'[f].ch = cur /\ cur \in Clients /\ stage'[cur] = "added"
  <2>1. cur \in Clients
    BY <1>5, CurFacts DEF ServerInv, EnableRead
  <2>2. CASE fdt[fd_[cur]] # None
    <3>1. /\ epoll' = [epoll EXCEPT ![fd_[cur]] = Registration(FALSE)]
          /\ stage' = [stage EXCEPT ![cur] = "added"]
      BY <1>5, <2>2 DEF EnableRead
    <3>2. QED
      BY <1>4, <1>5, <1>t, <2>1, <3>1
  <2>3. CASE fdt[fd_[cur]] = None
    BY <1>5, <2>3 DEF EnableRead, Throw, kvars
  <2>4. QED
    BY <2>2, <2>3
<1>6. ASSUME ~crashed, UseET
      PROVE  \/ epoll'[f].ch = epoll[f].ch
             \/ epoll'[f].ch = cur /\ cur \in Clients /\ stage'[cur] = "added"
  <2>1. cur \in Clients /\ stage[cur] = "added"
    BY <1>6, CurFacts DEF ServerInv, UseET
  <2>2. CASE epoll[fd_[cur]].ch # None
    <3>1. epoll' = [epoll EXCEPT ![fd_[cur]] = Registration(TRUE)] /\ stage' = stage
      BY <1>6, <2>2 DEF UseET
    <3>2. QED
      BY <1>4, <1>6, <2>1, <3>1
  <2>3. CASE epoll[fd_[cur]].ch = None
    BY <1>6, <2>3 DEF UseET, Throw, kvars
  <2>4. QED
    BY <2>2, <2>3
<1>7. ASSUME NEW th \in Threads, CloseFd(th) PROVE epoll'[f].ch = epoll[f].ch
  <2>1. epoll' = [epoll EXCEPT ![Head(closing[th])] = NotRegistered]
    BY <1>7 DEF CloseFd
  <2>2. QED
    BY <1>t, <2>1 DEF NotRegistered
<1>8. CASE UNCHANGED epoll
  BY <1>8
<1>9. QED
  BY <1>2, <1>3, <1>5, <1>6, <1>7, <1>8
     DEF Next, MainStep, ReactorStep, Connect, Accept, NewSocket, SetCallBacks, Insert, Announce,
         OnConnection, Throw, SigPipe, StopAndContinue, UseAfterFree, HandleEvent, BusinessLogic,
         OnMessage, HandlerReturns, kvars, vars

(* What a sub reactor has to handle comes from epoll_wait, and what it     *)
(* handles from its batch.                                                 *)
LEMMA HandlerSteps ==
  ASSUME ServerInv, [Next]_vars, NEW r \in Reactors
  PROVE  /\ \A c \in todo'[r] :
               c \in todo[r] \/ \E f \in Fds : epoll[f].ch = c /\ c # None /\ LoopOf(c) = r
         /\ pc'[r] \in {"read", "callback", "return"} =>
               \/ pc[r] \in {"read", "callback", "return"} /\ hcur'[r] = hcur[r]
               \/ pc'[r] = "read" /\ hcur'[r] \in todo[r] /\ HasCallback(hcur'[r])
<1> USE ServerAssumption
<1>t. /\ todo \in [Reactors -> SUBSET Clients] /\ hcur \in [Reactors -> Clients \cup {None}]
      /\ pc \in [Reactors -> {"loop", "read", "callback", "return", "dead"}]
  BY DEF ServerInv, TypeOK
<1> DEFINE G1 == \A c \in todo'[r] :
               c \in todo[r] \/ \E f \in Fds : epoll[f].ch = c /\ c # None /\ LoopOf(c) = r
           G2 == pc'[r] \in {"read", "callback", "return"} =>
               \/ pc[r] \in {"read", "callback", "return"} /\ hcur'[r] = hcur[r]
               \/ pc'[r] = "read" /\ hcur'[r] \in todo[r] /\ HasCallback(hcur'[r])
<1>1. CASE UNCHANGED <<pc, todo, hcur>>
  BY <1>1
<1>2. ASSUME NEW q \in Reactors, Poll(q) PROVE G1 /\ G2
  <2>1. UNCHANGED <<pc, hcur>>
    BY <1>2 DEF Poll
  <2> DEFINE ready == {f \in Fds : Reported(f) /\ LoopOf(epoll[f].ch) = q}
  <2>2. todo' = [todo EXCEPT ![q] = {epoll[f].ch : f \in ready}]
    BY <1>2 DEF Poll
  <2>3. G1
    BY <1>t, <2>2 DEF Reported
  <2>4. QED
    BY <2>1, <2>3
<1>3. ASSUME NEW q \in Reactors, LoopGoesOn(q) PROVE G1 /\ G2
  <2>1. PICK x \in {"loop", "dead"}, S \in SUBSET todo[q] :
           /\ pc' = [pc EXCEPT ![q] = x] /\ todo' = [todo EXCEPT ![q] = S]
           /\ hcur' = [hcur EXCEPT ![q] = None]
    BY <1>3 DEF LoopGoesOn
  <2>2. QED
    BY <1>t, <2>1
<1>4. ASSUME NEW q \in Reactors, NEW c \in Clients, HandleEvent(q, c) PROVE G1 /\ G2
  <2>1. \/ /\ pc' = [pc EXCEPT ![q] = "read"] /\ todo' = [todo EXCEPT ![q] = todo[q] \ {c}]
           /\ hcur' = [hcur EXCEPT ![q] = c] /\ c \in todo[q] /\ HasCallback(c)
        \/ /\ pc' = [pc EXCEPT ![q] = "dead"] /\ todo' = [todo EXCEPT ![q] = {}]
           /\ hcur' = [hcur EXCEPT ![q] = None]
    BY <1>4 DEF HandleEvent, RestOfBatch, EndLoop
  <2>2. QED
    BY <1>t, <2>1
<1>5. ASSUME NEW q \in Reactors, BusinessLogic(q) PROVE G1 /\ G2
  <2>1. /\ pc[q] = "read"
        /\ \/ pc' = [pc EXCEPT ![q] = "callback"] /\ UNCHANGED <<todo, hcur>>
           \/ /\ pc' = [pc EXCEPT ![q] = "dead"] /\ todo' = [todo EXCEPT ![q] = {}]
              /\ hcur' = [hcur EXCEPT ![q] = None]
    BY <1>5 DEF BusinessLogic, EndLoop
  <2>2. QED
    BY <1>t, <2>1
<1>6. ASSUME NEW q \in Reactors, NEW close \in BOOLEAN, OnMessage(q, close) PROVE G1 /\ G2
  <2>1. pc[q] = "callback" /\ pc' = [pc EXCEPT ![q] = "return"] /\ UNCHANGED <<todo, hcur>>
    BY <1>6 DEF OnMessage
  <2>2. QED
    BY <1>t, <2>1
<1>7. ASSUME NEW q \in Reactors, HandlerReturns(q) \/ \E c \in Clients : UseAfterFree(q, c)
      PROVE  G1 /\ G2
  <2>1. LoopGoesOn(q)
    BY <1>7, ReturnStep, FreedStep DEF ServerInv
  <2>2. QED
    BY <1>3, <2>1
<1>8. ASSUME StopAndContinue PROVE G1 /\ G2
  <2>1. PICK D : pc' = [q \in Reactors |-> IF q \in D THEN "dead" ELSE pc[q]]
    BY <1>8 DEF StopAndContinue
  <2>2. UNCHANGED <<todo, hcur>>
    BY <1>8 DEF StopAndContinue
  <2>3. QED
    BY <1>t, <2>1, <2>2
<1>9. QED
  BY <1>1, <1>2, <1>4, <1>5, <1>6, <1>7, <1>8
     DEF Next, MainStep, ReactorStep, Connect, Send, Reset, SigPipe, Accept, NewSocket, EnableRead,
         UseET, SetCallBacks, Insert, Announce, OnConnection, Throw, CloseFd, rvars, vars

(* The sub reactor in charge of a Connection does not change.              *)
LEMMA NextHandlerInCharge ==
  ASSUME ServerInv, [Next]_vars
  PROVE  HandlerInCharge'
<1> USE ServerAssumption
<1>t. /\ epoll \in [Fds -> [ch : Clients \cup {None}, et : BOOLEAN, armed : BOOLEAN]]
      /\ epoll' \in [Fds -> [ch : Clients \cup {None}, et : BOOLEAN, armed : BOOLEAN]]
      /\ todo \in [Reactors -> SUBSET Clients]
      /\ todo' \in [Reactors -> SUBSET Clients]
  BY NextTypes DEF ServerInv, TypeOK, Types
<1>h. /\ \A f \in Fds : epoll[f].ch # None => stage[epoll[f].ch] \notin {"away", "queued", "accepted"}
      /\ \A r \in Reactors : \A c \in todo[r] :
            LoopOf(c) = r /\ stage[c] \notin {"away", "queued", "accepted"}
      /\ \A r \in Reactors : pc[r] \in {"read", "callback", "return"} =>
            /\ hcur[r] \in Clients /\ LoopOf(hcur[r]) = r
            /\ stage[hcur[r]] \in {"callbacks", "published", "destroyed"}
  BY DEF ServerInv, HandlerInCharge
<1>g. \A c \in Clients : stage[c] \notin {"away", "queued", "accepted"} =>
         stage'[c] \notin {"away", "queued", "accepted"} /\ LoopOf(c)' = LoopOf(c)
  BY StagesGrow DEF LoopOf
<1>1. ASSUME NEW f \in Fds, epoll'[f].ch # None
      PROVE  stage'[epoll'[f].ch] \notin {"away", "queued", "accepted"}
  <2>1. epoll'[f].ch \in Clients
    BY <1>1, <1>t
  <2>2. QED
    BY <1>1, <1>g, <1>h, <2>1, RegistrationSteps
<1>2. ASSUME NEW r \in Reactors, NEW c \in todo'[r]
      PROVE  LoopOf(c)' = r /\ stage'[c] \notin {"away", "queued", "accepted"}
  <2>1. c \in Clients
    BY <1>2, <1>t
  <2>2. c \in todo[r] \/ \E f \in Fds : epoll[f].ch = c /\ c # None /\ LoopOf(c) = r
    BY <1>2, HandlerSteps
  <2>3. LoopOf(c) = r /\ stage[c] \notin {"away", "queued", "accepted"}
    BY <1>h, <2>2
  <2>4. QED
    BY <1>g, <2>1, <2>3
<1>3. ASSUME NEW r \in Reactors, pc'[r] \in {"read", "callback", "return"}
      PROVE  /\ hcur'[r] \in Clients /\ LoopOf(hcur[r])' = r
             /\ stage'[hcur'[r]] \in {"callbacks", "published", "destroyed"}
  <2>1. \/ pc[r] \in {"read", "callback", "return"} /\ hcur'[r] = hcur[r]
        \/ hcur'[r] \in todo[r] /\ HasCallback(hcur'[r])
    BY <1>3, HandlerSteps
  <2>2. PICK c \in Clients : c = hcur'[r]
    BY <1>h, <1>t, <2>1
  <2>3. LoopOf(c) = r /\ stage[c] \in {"callbacks", "published", "destroyed"}
    BY <1>h, <2>1, <2>2 DEF HasCallback
  <2>4. QED
    BY <1>g, <2>2, <2>3, CallbacksStay DEF LoopOf
<1>4. QED
  BY <1>1, <1>2, <1>3 DEF HandlerInCharge, LoopOf

(* A destructor runs to its end before its thread goes on.                 *)
LEMMA NextClosingInPlace ==
  ASSUME ServerInv, [Next]_vars
  PROVE  ClosingInPlace'
<1> USE ServerAssumption
<1>t. /\ closing \in [Threads -> Seq(Fds)]
      /\ pc \in [Reactors -> {"loop", "read", "callback", "return", "dead"}]
  BY DEF ServerInv, TypeOK
<1>i. /\ closing[Main] # <<>> => main \in {"announce", "loop"}
      /\ \A r \in Reactors : closing[r] # <<>> => pc[r] = "return"
  BY DEF ServerInv, ClosingInPlace
<1>1. ASSUME \A th \in Threads : closing'[th] # <<>> => closing[th] # <<>>,
             closing[Main] # <<>> => main' = main,
             \A r \in Reactors : pc[r] = "return" /\ closing[r] # <<>> => pc'[r] = pc[r]
      PROVE  ClosingInPlace'
  BY <1>1, <1>i, MainIsNoReactor DEF ClosingInPlace
<1>2. CASE Insert
  <2>1. main' = "announce" /\ UNCHANGED pc
    BY <1>2 DEF Insert, rvars
  <2>2. PICK s : closing' = [closing EXCEPT ![Main] = s]
    BY <1>2 DEF Insert
  <2>3. \A r \in Reactors : closing'[r] = closing[r]
    BY <1>t, <2>2, MainIsNoReactor
  <2>4. QED
    BY <1>i, <2>1, <2>3 DEF ClosingInPlace
<1>3. ASSUME NEW th \in Threads, NEW c \in Clients, NEW close \in BOOLEAN, ~crashed, Returns(th, c, close)
      PROVE  ClosingInPlace'
  <2>0. CallbackEnds(th, c, close)
    BY <1>3, ReturnSteps
  <2>1. PICK s : closing' = [closing EXCEPT ![th] = s]
    BY <2>0 DEF CallbackEnds
  <2>2. \A x \in Threads : x # th => closing'[x] = closing[x]
    BY <1>t, <2>1
  <2>3. \/ th \in Reactors /\ pc' = [pc EXCEPT ![th] = "return"] /\ UNCHANGED main
        \/ th = Main /\ main' = "loop" /\ UNCHANGED pc
    BY <1>3, ReturnSteps
  <2>4. CASE th \in Reactors /\ pc' = [pc EXCEPT ![th] = "return"] /\ UNCHANGED main
    BY <1>i, <1>t, <2>2, <2>4, MainIsNoReactor DEF ClosingInPlace
  <2>5. CASE th = Main /\ main' = "loop" /\ UNCHANGED pc
    BY <1>i, <2>2, <2>5, MainIsNoReactor DEF ClosingInPlace
  <2>6. QED
    BY <2>3, <2>4, <2>5
<1>4. ASSUME NEW th \in Threads, CloseFd(th) PROVE ClosingInPlace'
  <2>1. /\ closing[th] # <<>> /\ closing' = [closing EXCEPT ![th] = Tail(@)] /\ UNCHANGED <<main, pc>>
    BY <1>4 DEF CloseFd, mvars, rvars
  <2>2. \A x \in Threads : closing'[x] # <<>> => closing[x] # <<>>
    BY <1>t, <2>1
  <2>3. QED
    BY <1>1, <2>1, <2>2
<1>5. CASE UNCHANGED <<closing, pc>> /\ (main \in {"announce", "loop"} /\ closing[Main] # <<>> => main' = main)
  BY <1>1, <1>5, <1>i
<1>6. ASSUME NEW r \in Reactors, pc[r] = "return" /\ closing[r] # <<>> => pc' = pc,
             pc' = pc \/ \E x : pc' = [pc EXCEPT ![r] = x], UNCHANGED <<closing, main>>
      PROVE  ClosingInPlace'
  <2>1. \A q \in Reactors : q # r => pc'[q] = pc[q]
    BY <1>6, <1>t
  <2>2. QED
    BY <1>1, <1>6, <2>1
<1>7. CASE StopAndContinue
  <2>1. PICK D \in SUBSET {r \in Reactors : pc[r] = "loop" /\ todo[r] = {}} :
           pc' = [r \in Reactors |-> IF r \in D THEN "dead" ELSE pc[r]]
    BY <1>7 DEF StopAndContinue
  <2>2. UNCHANGED <<closing, main>>
    BY <1>7 DEF StopAndContinue, mvars
  <2>3. \A r \in Reactors : pc[r] = "return" => pc'[r] = pc[r]
    BY <1>t, <2>1
  <2>4. QED
    BY <1>1, <2>2, <2>3
<1>8. ASSUME \/ NewSocket \/ EnableRead \/ UseET \/ SetCallBacks \/ Announce
             \/ \E c \in Clients : Accept(c)
      PROVE  /\ UNCHANGED <<closing, pc>>
             /\ main \in {"announce", "loop"} /\ closing[Main] # <<>> => main' = main
  BY <1>8 DEF Accept, MainIdle, NewSocket, EnableRead, UseET, SetCallBacks, Announce, Throw, mvars, rvars
<1>9. CASE UNCHANGED <<closing, pc, main>>
  BY <1>5, <1>9
<1>10. ASSUME ~crashed, NEW close \in BOOLEAN, OnConnection(close) PROVE ClosingInPlace'
  <2>1. CASE cur = None
    BY <1>9, <1>10, <2>1 DEF OnConnection, Throw, mvars, rvars
  <2>2. CASE cur # None
    BY <1>3, <1>10, <2>2, OnConnectionReturns, MainIsNoReactor
  <2>3. QED
    BY <2>1, <2>2
<1>11. ASSUME ~crashed, NEW r \in Reactors, NEW close \in BOOLEAN, OnMessage(r, close)
       PROVE  ClosingInPlace'
  <2>1. r \in Threads
    BY MainIsNoReactor
  <2>2. QED
    BY <1>3, <1>11, <2>1, OnMessageReturns
<1>12. ASSUME NEW r \in Reactors, \/ Poll(r) \/ BusinessLogic(r) \/ HandlerReturns(r)
                                  \/ \E c \in Clients : HandleEvent(r, c) \/ UseAfterFree(r, c)
       PROVE  ClosingInPlace'
  <2>1. UNCHANGED <<closing, main>>
    BY <1>12 DEF Poll, UseAfterFree, HandleEvent, BusinessLogic, HandlerReturns, mvars
  <2>2. pc[r] = "return" /\ closing[r] # <<>> => pc' = pc
    BY <1>12 DEF Poll, UseAfterFree, HandleEvent, BusinessLogic, HandlerReturns
  <2>3. pc' = pc \/ \E x : pc' = [pc EXCEPT ![r] = x]
    BY <1>12 DEF Poll, UseAfterFree, FreedUsed, EndLoop, HandleEvent, BusinessLogic, HandlerReturns
  <2>4. QED
    BY <1>6, <2>1, <2>2, <2>3
<1>13. ASSUME UNCHANGED vars \/ \E c \in Clients : Connect(c) \/ Send(c) \/ Reset(c) \/ SigPipe(c)
       PROVE  UNCHANGED <<closing, pc, main>>
  BY <1>13 DEF Connect, Send, Reset, SigPipe, Throw, mvars, rvars, vars
<1>14. QED
  BY <1>2, <1>4, <1>5, <1>7, <1>8, <1>9, <1>10, <1>11, <1>12, <1>13 DEF Next, MainStep, ReactorStep

(* A callback is given a Connection that is published, and runs on for the *)
(* same one until it returns.                                              *)
LEMMA HolderSteps ==
  ASSUME ServerInv, [Next]_vars, NEW c \in Clients, NEW th \in Threads
  PROVE  /\ th \in Holders(c)' => th \in Holders(c) \/ (stage[c] = "published" /\ stage' = stage)
         /\ th \in Holders(c) =>
               \/ th \in Holders(c)'
               \/ ~crashed /\ \E close \in BOOLEAN : Returns(th, c, close)
<1> USE ServerAssumption
<1>t. /\ hcur \in [Reactors -> Clients \cup {None}]
      /\ pc \in [Reactors -> {"loop", "read", "callback", "return", "dead"}]
      /\ connections \in [Fds -> Clients \cup {None}]
  BY DEF ServerInv, TypeOK
<1>m. Main \notin Reactors /\ (th \in Reactors \/ th = Main)
  BY MainIsNoReactor DEF Threads
<1> DEFINE G == /\ th \in Holders(c)' => th \in Holders(c) \/ (stage[c] = "published" /\ stage' = stage)
                /\ th \in Holders(c) =>
                     \/ th \in Holders(c)'
                     \/ ~crashed /\ \E close \in BOOLEAN : Returns(th, c, close)
<1>1. CASE UNCHANGED <<pc, hcur, main, cur>>
  <2>1. th \in Holders(c)' <=> th \in Holders(c)
    BY <1>1 DEF Holders
  <2>2. QED
    BY <2>1
<1>2. ASSUME NEW q \in Reactors, pc[q] # "callback", NEW x \in {"loop", "read", "return", "dead"},
             pc' = [pc EXCEPT ![q] = x], hcur' = hcur \/ \E y : hcur' = [hcur EXCEPT ![q] = y],
             UNCHANGED <<main, cur>>
      PROVE  G
  <2>1. \A r \in Reactors : \/ pc'[r] = pc[r] /\ hcur'[r] = hcur[r]
                            \/ pc[r] # "callback" /\ pc'[r] # "callback"
    BY <1>2, <1>t
  <2>2. th \in Holders(c)' <=> th \in Holders(c)
    BY <1>2, <2>1 DEF Holders
  <2>3. QED
    BY <2>2
<1>3. ASSUME NEW q \in Reactors, \/ HandlerReturns(q)
                                 \/ \E d \in Clients : HandleEvent(q, d) \/ UseAfterFree(q, d)
      PROVE  G
  <2>t. TypeOK
    BY DEF ServerInv
  <2>0. UNCHANGED <<main, cur>>
    BY <1>3 DEF HandlerReturns, HandleEvent, UseAfterFree, mvars
  <2>1. ASSUME NEW d \in Clients, UseAfterFree(q, d) PROVE G
    <3>1. LoopGoesOn(q) /\ pc[q] # "callback"
      BY <2>1, <2>t, FreedStep
    <3>2. QED
      BY <1>2, <2>0, <3>1 DEF LoopGoesOn
  <2>2. CASE HandlerReturns(q)
    <3>1. LoopGoesOn(q) /\ pc[q] # "callback"
      BY <2>2, <2>t, ReturnStep
    <3>2. QED
      BY <1>2, <2>0, <3>1 DEF LoopGoesOn
  <2>3. ASSUME NEW d \in Clients, HandleEvent(q, d) PROVE G
    <3>1. /\ pc[q] = "loop"
          /\ \/ pc' = [pc EXCEPT ![q] = "read"] /\ hcur' = [hcur EXCEPT ![q] = d]
             \/ pc' = [pc EXCEPT ![q] = "dead"] /\ hcur' = [hcur EXCEPT ![q] = None]
      BY <2>3 DEF HandleEvent, EndLoop
    <3>2. QED
      BY <1>2, <2>0, <3>1
  <2>4. QED
    BY <1>3, <2>1, <2>2, <2>3
<1>4. ASSUME NEW q \in Reactors, BusinessLogic(q) PROVE G
  <2>1. pc[q] = "read" /\ stage' = stage /\ UNCHANGED <<main, cur>>
    BY <1>4 DEF BusinessLogic, mvars
  <2>2. CASE Shared(hcur[q])
    <3>1. pc' = [pc EXCEPT ![q] = "callback"] /\ hcur' = hcur
      BY <1>4, <2>2 DEF BusinessLogic
    <3>2. /\ pc'[q] = "callback" /\ \A r \in Reactors : r # q => pc'[r] = pc[r]
      BY <1>t, <3>1
    <3>3. CASE th = q
      BY <1>m, <2>1, <2>2, <3>1, <3>2, <3>3 DEF Holders, Shared
    <3>4. CASE th # q
      <4>1. th \in Holders(c)' <=> th \in Holders(c)
        BY <1>m, <2>1, <3>1, <3>2, <3>4 DEF Holders
      <4>2. QED
        BY <4>1
    <3>5. QED
      BY <3>3, <3>4
  <2>3. CASE ~Shared(hcur[q])
    <3>1. pc' = [pc EXCEPT ![q] = "dead"] /\ hcur' = [hcur EXCEPT ![q] = None]
      BY <1>4, <2>3 DEF BusinessLogic, EndLoop
    <3>2. QED
      BY <1>2, <2>1, <3>1
  <2>4. QED
    BY <2>2, <2>3
<1>5. ASSUME ~crashed, NEW x \in Threads, NEW d \in Clients, NEW close \in BOOLEAN, Returns(x, d, close)
      PROVE  G
  <2>1. Holders(c)' = Holders(c) \ {x}
    BY <1>5, ReturnReleases
  <2>2. CASE x = th
    <3>1. th \in Holders(c) => c = d
      BY <1>5, <2>2, HeldFacts DEF Returns
    <3>2. QED
      BY <1>5, <2>1, <2>2, <3>1
  <2>3. CASE x # th
    BY <2>1, <2>3
  <2>4. QED
    BY <2>2, <2>3
<1>6. ASSUME StopAndContinue PROVE G
  <2>1. PICK D \in SUBSET {q \in Reactors : pc[q] = "loop" /\ todo[q] = {}} :
           pc' = [q \in Reactors |-> IF q \in D THEN "dead" ELSE pc[q]]
    BY <1>6 DEF StopAndContinue
  <2>2. UNCHANGED <<hcur, main, cur>>
    BY <1>6 DEF StopAndContinue, mvars
  <2>3. \A r \in Reactors : pc'[r] = "callback" <=> pc[r] = "callback"
    BY <1>t, <2>1
  <2>4. th \in Holders(c)' <=> th \in Holders(c)
    BY <2>2, <2>3 DEF Holders
  <2>5. QED
    BY <2>4
<1>7. ASSUME main # "onconnect", main' # "onconnect", UNCHANGED <<pc, hcur>> PROVE G
  <2>1. th \in Holders(c)' <=> th \in Holders(c)
    BY <1>7 DEF Holders
  <2>2. QED
    BY <2>1
<1>8. ASSUME ~crashed, Announce PROVE G
  <2>1. /\ main = "announce" /\ UNCHANGED <<stage, pc, hcur>>
        /\ \/ main' = "onconnect" /\ cur' = connections[fd_[cur]]
           \/ main' = "loop"
    BY <1>8 DEF Announce, rvars
  <2>2. CASE main' = "loop"
    BY <1>7, <2>1, <2>2
  <2>3. CASE main' = "onconnect" /\ cur' = connections[fd_[cur]]
    <3>1. fd_[cur] \in Fds
      BY <1>8, <2>1, CurFacts DEF ServerInv
    <3>2. cur' = c => stage[c] = "published"
      BY <2>3, <3>1 DEF ServerInv, FdsAssigned
    <3>3. QED
      BY <1>m, <2>1, <2>3, <3>2 DEF Holders
  <2>4. QED
    BY <2>1, <2>2, <2>3
<1>9. ASSUME \/ NewSocket \/ EnableRead \/ UseET \/ SetCallBacks \/ Insert
             \/ \E d \in Clients : Accept(d)
      PROVE  G
  <2>1. main # "onconnect" /\ main' # "onconnect" /\ UNCHANGED <<pc, hcur>>
    BY <1>9 DEF NewSocket, EnableRead, UseET, SetCallBacks, Insert, Accept, MainIdle, Throw, mvars, rvars
  <2>2. QED
    BY <1>7, <2>1
<1>10. ASSUME ~crashed, NEW close \in BOOLEAN, OnConnection(close) PROVE G
  <2>1. CASE cur = None
    BY <1>1, <1>10, <2>1 DEF OnConnection, Throw, mvars, rvars
  <2>2. CASE cur # None
    BY <1>5, <1>10, <2>2, OnConnectionReturns, MainIsNoReactor
  <2>3. QED
    BY <2>1, <2>2
<1>11. ASSUME ~crashed, NEW r \in Reactors, NEW close \in BOOLEAN, OnMessage(r, close) PROVE G
  <2>1. r \in Threads
    BY MainIsNoReactor
  <2>2. QED
    BY <1>5, <1>11, <2>1, OnMessageReturns
<1>12. ASSUME \/ UNCHANGED vars
              \/ \E d \in Clients : Connect(d) \/ Send(d) \/ Reset(d) \/ SigPipe(d)
              \/ \E x \in Threads : CloseFd(x)
              \/ \E r \in Reactors : Poll(r)
       PROVE  G
  <2>1. UNCHANGED <<pc, hcur, main, cur>>
    BY <1>12 DEF Connect, Send, Reset, SigPipe, Throw, CloseFd, Poll, mvars, rvars, vars
  <2>2. QED
    BY <1>1, <2>1
<1> HIDE DEF G
<1>13. G
  BY <1>3, <1>4, <1>6, <1>8, <1>9, <1>10, <1>11, <1>12 DEF Next, MainStep, ReactorStep
<1>14. QED
  BY <1>13 DEF G

(* Only NewConnection's insert and the return of a callback destroy a      *)
(* published Connection, and only one that no other callback holds.        *)
LEMMA PublishedDies ==
  ASSUME ServerInv, [Next]_vars, NEW c \in Clients, stage[c] = "published", stage'[c] # "published"
  PROVE  \/ ~crashed /\ Insert /\ ~Held(c)
         \/ ~crashed /\ \E th \in Threads, d \in Clients, close \in BOOLEAN :
               Returns(th, d, close) /\ Holders(c) \subseteq {th}
<1> USE ServerAssumption
<1>t. stage \in [Clients -> Stages]
  BY DEF ServerInv, TypeOK
<1>1. ASSUME NEW d \in Clients, Connect(d) \/ Accept(d) PROVE FALSE
  <2>1. CASE Connect(d)
    BY <1>t, <2>1 DEF Connect
  <2>2. CASE Accept(d)
    BY <1>t, <2>2 DEF Accept
  <2>3. QED
    BY <1>1, <2>1, <2>2
<1>2. ASSUME ~crashed, EnableRead \/ SetCallBacks PROVE FALSE
  <2>1. cur \in Clients /\ stage[cur] \in {"accepted", "added"}
    BY <1>2, CurFacts DEF ServerInv, EnableRead, SetCallBacks
  <2>2. \/ stage' = stage
        \/ \E x \in {"added", "callbacks"} : stage' = [stage EXCEPT ![cur] = x]
    BY <1>2 DEF EnableRead, SetCallBacks, Throw
  <2>3. QED
    BY <1>t, <2>1, <2>2
<1>3. ASSUME ~crashed, Insert PROVE ~Held(c)
  <2>1. PICK f \in Fds, old \in Clients \cup {None} :
           /\ stage'[cur] = "published"
           /\ \A d \in Clients : d \notin {cur, old} => stage'[d] = stage[d]
           /\ \/ /\ old = None \/ Held(old)
                 /\ old # None => stage'[old] = stage[old]
              \/ old # None /\ ~Held(old)
    BY <1>3, InsertEffect
  <2>2. c = old
    BY <2>1
  <2>3. QED
    BY <2>1, <2>2
<1>4. ASSUME ~crashed, NEW th \in Threads, NEW d \in Clients, NEW close \in BOOLEAN, Returns(th, d, close)
      PROVE  Holders(c) \subseteq {th}
  BY <1>4, ReturnEffect
<1>5. QED
  BY <1>1, <1>2, <1>3, <1>4, StageSteps

(* No step destroys a Connection under a callback that holds it.           *)
LEMMA NextCallbackOwns ==
  ASSUME ServerInv, [Next]_vars
  PROVE  HeldAlive'
<1> SUFFICES ASSUME NEW c \in Clients, Held(c)'
             PROVE  stage'[c] = "published"
  BY DEF HeldAlive
<1>1. PICK th \in Threads : th \in Holders(c)'
  <2>1. Holders(c)' \subseteq Threads
    BY MainIsNoReactor DEF Holders
  <2>2. Holders(c)' # {}
    BY DEF Held
  <2>3. QED
    BY <2>1, <2>2
<1>2. CASE stage[c] = "published" /\ stage' = stage
  BY <1>2
<1>3. CASE th \in Holders(c)
  <2>1. stage[c] = "published" /\ Held(c)
    BY <1>3 DEF ServerInv, HeldAlive, Held
  <2>2. SUFFICES ASSUME stage'[c] # "published" PROVE FALSE
    OBVIOUS
  <2>3. PICK x \in Threads, d \in Clients, close \in BOOLEAN :
           ~crashed /\ Returns(x, d, close) /\ Holders(c) \subseteq {x}
    BY <2>1, <2>2, PublishedDies
  <2>4. x = th
    BY <1>3, <2>3
  <2>5. Holders(c)' = Holders(c) \ {x}
    BY <2>3, ReturnReleases
  <2>6. QED
    BY <1>1, <2>4, <2>5
<1>4. QED
  BY <1>1, <1>2, <1>3, HolderSteps

(* Who answers for an open descriptor: the disjuncts of NoOrphanStream.    *)
Owned(c) ==
    \/ stage[c] \in Building
    \/ stage[c] = "published" /\ (InMap(connections, c) \/ Held(c))

AboutToClose(f) == \E th \in Threads : \E i \in 1..Len(closing[th]) : closing[th][i] = f

(* NoOrphanStream in these terms.                                          *)
LEMMA OrphanSplit ==
  NoOrphanStream <=> \A f \in Fds : fdt[f] \in Clients => Owned(fdt[f]) \/ AboutToClose(f)
BY DEF NoOrphanStream, Owned, AboutToClose, Building

(* A pending close() stays pending until it is made.                       *)
LEMMA CloseStaysPending ==
  ASSUME ServerInv, [Next]_vars, NEW f \in Fds, AboutToClose(f)
  PROVE  AboutToClose(f)' \/ fdt'[f] = None
<1> USE ServerAssumption
<1>t. /\ closing \in [Threads -> Seq(Fds)] /\ fdt \in [Fds -> Clients \cup {None, Spare}]
      /\ pc \in [Reactors -> {"loop", "read", "callback", "return", "dead"}]
  BY DEF ServerInv, TypeOK
<1>i. /\ closing[Main] # <<>> => main \in {"announce", "loop"}
      /\ \A r \in Reactors : closing[r] # <<>> => pc[r] = "return"
  BY DEF ServerInv, ClosingInPlace
<1>1. PICK th \in Threads : \E i \in 1..Len(closing[th]) : closing[th][i] = f
  BY DEF AboutToClose
<1>2. PICK i \in 1..Len(closing[th]) : closing[th][i] = f
  BY <1>1
<1>n. closing[th] # <<>> /\ closing[th] \in Seq(Fds)
  BY <1>2, <1>t
<1>3. ASSUME closing'[th] = closing[th] PROVE AboutToClose(f)'
  BY <1>2, <1>3 DEF AboutToClose
<1>4. CASE Insert
  <2>1. main = "insert"
    BY <1>4 DEF Insert
  <2>2. th # Main
    BY <1>i, <1>n, <2>1
  <2>3. PICK s : closing' = [closing EXCEPT ![Main] = s]
    BY <1>4 DEF Insert
  <2>4. QED
    BY <1>3, <1>t, <2>2, <2>3
<1>5. ASSUME ~crashed, NEW x \in Threads, NEW c \in Clients, NEW close \in BOOLEAN, Returns(x, c, close)
      PROVE  AboutToClose(f)'
  <2>1. x \in Holders(c) /\ CallbackEnds(x, c, close)
    BY <1>5, ReturnSteps DEF Returns
  <2>2. /\ x \in Reactors => pc[x] = "callback"
        /\ x \notin Reactors => x = Main /\ main = "onconnect"
    BY <1>5, <2>1, HeldFacts
  <2>3. th # x
    BY <1>i, <1>n, <2>2
  <2>4. PICK q : closing' = [closing EXCEPT ![x] = q]
    BY <2>1 DEF CallbackEnds
  <2>5. QED
    BY <1>3, <1>t, <2>3, <2>4
<1>6. ASSUME NEW x \in Threads, CloseFd(x) PROVE AboutToClose(f)' \/ fdt'[f] = None
  <2>1. /\ closing' = [closing EXCEPT ![x] = Tail(@)]
        /\ fdt' = [fdt EXCEPT ![Head(closing[x])] = None]
    BY <1>6 DEF CloseFd
  <2>2. CASE x # th
    BY <1>3, <1>t, <2>1, <2>2
  <2>3. CASE x = th /\ i = 1
    <3>1. Head(closing[th]) = f
      BY <1>2, <1>n, <2>3
    <3>2. QED
      BY <1>t, <2>1, <2>3, <3>1
  <2>4. CASE x = th /\ i # 1
    <3>1. closing'[th] = Tail(closing[th])
      BY <1>t, <2>1, <2>4
    <3>2. Len(Tail(closing[th])) = Len(closing[th]) - 1 /\ Len(closing[th]) \in Nat
      BY <1>n, HeadTailProperties
    <3>3. i - 1 \in 1..Len(Tail(closing[th]))
      BY <1>2, <2>4, <3>2
    <3>4. Tail(closing[th])[i - 1] = closing[th][(i - 1) + 1]
      BY <1>n, <3>3, HeadTailProperties
    <3>5. (i - 1) + 1 = i
      BY <1>2, <3>2
    <3>6. closing'[th][i - 1] = f
      BY <1>2, <3>1, <3>4, <3>5
    <3>7. i - 1 \in 1..Len(closing'[th])
      BY <3>1, <3>3
    <3>8. QED
      BY <3>6, <3>7 DEF AboutToClose
  <2>5. QED
    BY <2>2, <2>3, <2>4
<1>7. CASE UNCHANGED closing
  BY <1>3, <1>7
<1>8. ASSUME ~crashed, NEW r \in Reactors, NEW close \in BOOLEAN, OnMessage(r, close)
      PROVE  AboutToClose(f)'
  <2>1. r \in Threads
    BY MainIsNoReactor
  <2>2. QED
    BY <1>5, <1>8, <2>1, OnMessageReturns
<1>9. ASSUME ~crashed, NEW close \in BOOLEAN, OnConnection(close) PROVE AboutToClose(f)'
  <2>1. CASE cur = None
    BY <1>3, <1>9, <2>1 DEF OnConnection, Throw
  <2>2. CASE cur # None
    BY <1>5, <1>9, <2>2, OnConnectionReturns, MainIsNoReactor
  <2>3. QED
    BY <2>1, <2>2
<1>10. ASSUME \/ UNCHANGED vars \/ StopAndContinue
              \/ \E c \in Clients : Connect(c) \/ Send(c) \/ Reset(c) \/ SigPipe(c) \/ Accept(c)
              \/ NewSocket \/ EnableRead \/ UseET \/ SetCallBacks \/ Announce
       PROVE  UNCHANGED closing
  BY <1>10 DEF Connect, Send, Reset, SigPipe, Accept, NewSocket, EnableRead, UseET, SetCallBacks,
               Announce, Throw, StopAndContinue, vars
<1>11. ASSUME NEW r \in Reactors, \/ Poll(r) \/ BusinessLogic(r) \/ HandlerReturns(r)
                                  \/ \E c \in Clients : HandleEvent(r, c) \/ UseAfterFree(r, c)
       PROVE  UNCHANGED closing
  BY <1>11 DEF Poll, UseAfterFree, HandleEvent, BusinessLogic, HandlerReturns
<1>12. QED
  BY <1>4, <1>6, <1>7, <1>8, <1>9, <1>10, <1>11 DEF Next, MainStep, ReactorStep

(* connections_[fd] = conn orphans nothing.                                *)
LEMMA InsertOwns ==
  ASSUME ServerInv, ~crashed, Insert, NEW f \in Fds, NEW c \in Clients, fd_[c] = f, Owned(c)
  PROVE  Owned(c)' \/ AboutToClose(f)'
<1> USE ServerAssumption
<1>t. /\ closing \in [Threads -> Seq(Fds)] /\ connections \in [Fds -> Clients \cup {None}]
      /\ TypeOK
  BY DEF ServerInv, TypeOK
<1>1. PICK g \in Fds, old \in Clients \cup {None} :
         /\ g = fd_[cur] /\ old = connections[g] /\ old # cur /\ cur \in Clients
         /\ connections' = [connections EXCEPT ![g] = cur]
         /\ stage'[cur] = "published"
         /\ \A d \in Clients : d \notin {cur, old} => stage'[d] = stage[d]
         /\ \/ /\ old = None \/ Held(old)
               /\ old # None => stage'[old] = stage[old]
            \/ /\ old # None /\ ~Held(old)
               /\ closing' = [closing EXCEPT ![Main] = DestructorCloses(old)]
  BY InsertEffect
<1>2. UNCHANGED <<fd_, pc, hcur>> /\ main # "onconnect" /\ main' # "onconnect"
  BY DEF Insert, rvars
<1>3. f # None
  BY DEF Fds
<1>4. CASE c = cur
  <2>1. connections'[f] = c /\ stage'[c] = "published"
    BY <1>1, <1>4, <1>t
  <2>2. InMap(connections, c)'
    BY <1>2, <1>3, <2>1 DEF InMap
  <2>3. QED
    BY <2>1, <2>2 DEF Owned
<1>5. CASE c # cur
  <2>1. stage[c] = "published" /\ (InMap(connections, c) \/ Held(c))
    <3>1. stage[c] \notin Building
      BY <1>5, <1>t, TypeOKSplit DEF OneIsBuilt, Building
    <3>2. QED
      BY <3>1 DEF Owned
  <2>2. CASE c = old /\ ~Held(old)
    <3>1. closing' = [closing EXCEPT ![Main] = DestructorCloses(old)]
      BY <1>1, <2>2
    <3>2. closing'[Main] = DestructorCloses(c)
      BY <1>t, <2>2, <3>1, MainIsNoReactor
    <3>3. Len(DestructorCloses(c)) = 2 /\ DestructorCloses(c)[1] = f
      BY DestructorType
    <3>4. 1 \in 1..Len(closing'[Main]) /\ closing'[Main][1] = f
      BY <3>2, <3>3
    <3>5. QED
      BY <3>4, MainIsNoReactor DEF AboutToClose
  <2>3. CASE Held(c)
    <3>1. stage'[c] = "published"
      BY <1>1, <1>5, <2>1, <2>3
    <3>2. Held(c)'
      BY <1>2, <2>3 DEF Held, Holders
    <3>3. QED
      BY <3>1, <3>2 DEF Owned
  <2>4. CASE c # old /\ ~Held(c)
    <3>1. connections[f] = c
      BY <2>1, <2>4 DEF InMap
    <3>2. f # g
      BY <1>1, <2>4, <3>1
    <3>3. connections'[f] = c /\ stage'[c] = "published"
      BY <1>1, <1>5, <1>t, <2>1, <2>4, <3>1, <3>2
    <3>4. InMap(connections, c)'
      BY <1>2, <1>3, <3>3 DEF InMap
    <3>5. QED
      BY <3>3, <3>4 DEF Owned
  <2>5. QED
    BY <2>2, <2>3, <2>4
<1>6. QED
  BY <1>4, <1>5

(* Nor does the return of a callback.                                      *)
LEMMA ReturnOwns ==
  ASSUME ServerInv, ~crashed, NEW th \in Threads, NEW d \in Clients, NEW close \in BOOLEAN,
         Returns(th, d, close), NEW f \in Fds, NEW c \in Clients, fd_[c] = f, Owned(c)
  PROVE  Owned(c)' \/ AboutToClose(f)'
<1> USE ServerAssumption
<1>t. closing \in [Threads -> Seq(Fds)] /\ connections \in [Fds -> Clients \cup {None}]
  BY DEF ServerInv, TypeOK
<1>1. UNCHANGED fd_ /\ CallbackEnds(th, d, close) /\ th \in Holders(d)
  BY ReturnSteps DEF Returns
<1>2. f # None
  BY DEF Fds
<1>3. CASE stage'[c] # stage[c]
  <2>1. PICK q \in Seq(Fds) : /\ closing' = [closing EXCEPT ![th] = q]
                              /\ \E i \in 1..Len(q) : q[i] = fd_[c]
    BY <1>1, <1>3, CallbackCloses
  <2>2. closing'[th] = q
    BY <1>t, <2>1
  <2>3. QED
    BY <2>1, <2>2 DEF AboutToClose
<1>4. CASE stage'[c] = stage[c]
  <2>1. CASE stage[c] \in Building
    BY <1>4, <2>1 DEF Owned
  <2>2. CASE stage[c] \notin Building
    <3>1. stage'[c] = "published" /\ (InMap(connections, c) \/ Held(c))
      BY <1>4, <2>2 DEF Owned
    <3>2. ASSUME NEW x \in Holders(c), x # th PROVE Held(c)'
      <4>1. Holders(c)' = Holders(c) \ {th}
        BY ReturnReleases
      <4>2. Holders(c)' # {}
        BY <3>2, <4>1
      <4>3. QED
        BY <4>2 DEF Held
    <3>3. ASSUME connections'[f] = c PROVE InMap(connections, c)'
      BY <1>1, <1>2, <3>3 DEF InMap
    <3>4. \/ \E x \in Holders(c) : x # th
          \/ c # d /\ \A g \in Fds : connections[g] = c => connections'[g] = c
          \/ \E g \in Fds : fd_[c] = g /\ connections'[g] = c
      BY <1>4, ReturnSpares
    <3>5. InMap(connections, c) => connections[f] = c
      BY DEF InMap
    <3>6. c # d /\ Held(c) => \E x \in Holders(c) : x # th
      BY <1>1, HeldFacts DEF Held
    <3>7. Held(c)' \/ InMap(connections, c)'
      BY <3>1, <3>2, <3>3, <3>4, <3>5, <3>6
    <3>8. QED
      BY <3>1, <3>7 DEF Owned
  <2>3. QED
    BY <2>1, <2>2
<1>5. QED
  BY <1>3, <1>4

(* The other steps leave the owner of a stream what it is, or take a       *)
(* Connection under construction one stage further.                        *)
LEMMA OthersOwn ==
  ASSUME ServerInv, [Next]_vars, NEW f \in Fds, NEW c \in Clients, fd_[c] = f, Owned(c),
         connections' = connections, ~Insert,
         ~\E th \in Threads, d \in Clients, close \in BOOLEAN : Returns(th, d, close)
  PROVE  Owned(c)'
<1> USE ServerAssumption
<1>t. stage \in [Clients -> Stages]
  BY DEF ServerInv, TypeOK
<1>1. stage[c] \notin {"away", "queued"}
  BY DEF Owned, Building
<1>2. fd_'[c] = fd_[c]
  BY <1>1, StagesGrow
<1>3. CASE stage[c] = "published"
  <2>1. stage'[c] = "published"
    BY <1>3, PublishedDies
  <2>2. InMap(connections, c) => InMap(connections, c)'
    BY <1>2 DEF InMap
  <2>3. ASSUME Held(c) PROVE Held(c)'
    <3>1. PICK th \in Threads : th \in Holders(c)
      BY <2>3, MainIsNoReactor DEF Held, Holders
    <3>2. th \in Holders(c)'
      BY <3>1, HolderSteps
    <3>3. QED
      BY <3>2 DEF Held
  <2>4. QED
    BY <1>3, <2>1, <2>2, <2>3 DEF Owned, Building
<1>4. CASE stage[c] \in Building
  <2>1. ASSUME NEW d \in Clients, Connect(d) \/ Accept(d) PROVE stage'[c] \in Building
    <3>1. CASE Connect(d)
      BY <1>4, <1>t, <3>1 DEF Connect, Building
    <3>2. CASE Accept(d)
      BY <1>4, <1>t, <3>2 DEF Accept, Building
    <3>3. QED
      BY <2>1, <3>1, <3>2
  <2>2. ASSUME EnableRead \/ SetCallBacks PROVE stage'[c] \in Building
    <3>1. \/ stage' = stage
          \/ \E x \in {"added", "callbacks"} : stage' = [stage EXCEPT ![cur] = x]
      BY <2>2 DEF EnableRead, SetCallBacks, Throw
    <3>2. QED
      BY <1>4, <1>t, <3>1 DEF Building
  <2>3. ASSUME UNCHANGED stage PROVE stage'[c] \in Building
    BY <1>4, <2>3
  <2>4. stage'[c] \in Building
    BY <2>1, <2>2, <2>3, StageSteps
  <2>5. QED
    BY <2>4 DEF Owned
<1>5. QED
  BY <1>3, <1>4 DEF Owned

(* No step orphans a stream.                                               *)
LEMMA NextNoOrphan ==
  ASSUME ServerInv, [Next]_vars
  PROVE  NoOrphanStream'
<1> USE ServerAssumption
<1>t. /\ stage \in [Clients -> Stages] /\ fdt \in [Fds -> Clients \cup {None, Spare}]
  BY DEF ServerInv, TypeOK
<1> SUFFICES ASSUME NEW f \in Fds, fdt'[f] \in Clients
             PROVE  Owned(fdt[f])' \/ AboutToClose(f)'
  BY DEF NoOrphanStream, Owned, AboutToClose, Building
<1>1. ASSUME fdt'[f] = fdt[f] PROVE Owned(fdt[f])' \/ AboutToClose(f)'
  <2>1. PICK c \in Clients : c = fdt[f] /\ c = fdt'[f]
    BY <1>1
  <2>2. fd_[c] = f
    BY <2>1 DEF ServerInv, FdsAssigned
  <2>3. Owned(c) \/ AboutToClose(f)
    BY <2>1, OrphanSplit DEF ServerInv
  <2>4. CASE AboutToClose(f)
    <3>1. fdt'[f] # None
      BY <2>1
    <3>2. QED
      BY <2>4, <3>1, CloseStaysPending
  <2>5. CASE Owned(c)
    <3>1. Owned(c)' \/ AboutToClose(f)'
      <4>1. CASE ~crashed /\ Insert
        BY <2>2, <2>5, <4>1, InsertOwns
      <4>2. CASE ~crashed /\ \E th \in Threads, d \in Clients, close \in BOOLEAN : Returns(th, d, close)
        BY <2>2, <2>5, <4>2, ReturnOwns
      <4>3. CASE /\ connections' = connections /\ ~Insert
                 /\ ~\E th \in Threads, d \in Clients, close \in BOOLEAN : Returns(th, d, close)
        BY <2>2, <2>5, <4>3, OthersOwn
      <4>4. CASE UNCHANGED vars
        <5>1. UNCHANGED <<stage, connections, fd_, pc, hcur, main, cur>>
          BY <4>4 DEF vars
        <5>2. QED
          BY <2>5, <5>1 DEF Owned, InMap, Held, Holders
      <4>5. ~UNCHANGED vars => ~crashed
        BY DEF Next
      <4>6. \/ ~crashed /\ Insert
            \/ ~crashed /\ \E th \in Threads, d \in Clients, close \in BOOLEAN : Returns(th, d, close)
            \/ connections' = connections
        BY StageSteps DEF Connect, Accept, EnableRead, SetCallBacks, Throw
      <4>7. QED
        BY <4>1, <4>2, <4>3, <4>4, <4>5, <4>6
    <3>2. Owned(c)' <=> Owned(fdt[f])'
      BY <2>1 DEF Owned, InMap, Held, Holders
    <3>3. QED
      BY <3>1, <3>2
  <2>6. QED
    BY <2>3, <2>4, <2>5
<1>2. ASSUME NEW c \in Clients, Accept(c) PROVE Owned(fdt[f])' \/ AboutToClose(f)'
  <2>1. CASE FreeFds # {} /\ f = LowestFree
    <3>1. fdt'[f] = c /\ stage'[c] = "accepted"
      BY <1>2, <1>t, <2>1, AcceptEffect
    <3>2. QED
      BY <3>1 DEF Owned, Building
  <2>2. CASE ~(FreeFds # {} /\ f = LowestFree)
    <3>1. fdt'[f] = fdt[f]
      BY <1>2, <1>t, <2>2, AcceptEffect
    <3>2. QED
      BY <1>1, <3>1
  <2>3. QED
    BY <2>1, <2>2
<1>3. QED
  BY <1>1, <1>2, TableSteps

-----------------------------------------------------------------------------
(* The theorems.                                                           *)

(* Every step preserves the inductive invariant.                           *)
LEMMA NextServerInv ==
  ASSUME ServerInv, [Next]_vars
  PROVE  ServerInv'
<1>1. Types' /\ OneIsBuilt' /\ StageFollowsMain'
  BY NextTypes, NextStages
<1>2. TypeOK'
  BY <1>1 DEF TypeOK, Types, OneIsBuilt
<1>3. QED
  BY <1>1, <1>2, NextFdsAssigned, NextHandlerInCharge, NextClosingInPlace, NextCallbackOwns,
     NextNoOrphan DEF ServerInv

(* The inductive invariant: NewConnection's progress and the stage of the  *)
(* one Connection that it builds agree, descriptors are assigned once, the *)
(* reactor that handles a Connection is the one in charge of it, and a     *)
(* destructor runs to its end.                                             *)
THEOREM ServerInvariant == Spec => []ServerInv
<1>1. ServerInv /\ [Next]_vars => ServerInv'
  BY NextServerInv
<1>2. QED
  BY InitServerInv, <1>1, PTL DEF Spec

(* The types, and: at most one Connection is between accept and            *)
(* publication, at the stage that NewConnection has reached.               *)
THEOREM ServerTypeCorrect == Spec => []TypeOK
<1>1. ServerInv => TypeOK
  BY DEF ServerInv
<1>2. QED
  BY ServerInvariant, <1>1, PTL

(* Whatever the callbacks erase and NewConnection replaces, no Connection  *)
(* is destroyed under a callback, of either kind, that was given it.       *)
THEOREM CallbackKeepsConnection == Spec => []CallbackOwnsConnection
<1>1. ServerInv => CallbackOwnsConnection
  <2> SUFFICES ASSUME ServerInv PROVE CallbackOwnsConnection
    OBVIOUS
  <2>1. ASSUME NEW r \in Reactors, pc[r] = "callback" PROVE stage[hcur[r]] = "published"
    <3>1. hcur[r] \in Clients
      BY <2>1 DEF ServerInv, HandlerInCharge
    <3>2. Held(hcur[r])
      BY <2>1 DEF Held, Holders
    <3>3. QED
      BY <3>1, <3>2 DEF ServerInv, HeldAlive
  <2>2. ASSUME main = "onconnect", cur # None PROVE stage[cur] = "published"
    <3>1. cur \in Clients
      BY <2>2 DEF ServerInv, TypeOK
    <3>2. Held(cur)
      BY <2>2 DEF Held, Holders
    <3>3. QED
      BY <3>1, <3>2 DEF ServerInv, HeldAlive
  <2>3. QED
    BY <2>1, <2>2 DEF CallbackOwnsConnection
<1>2. QED
  BY ServerInvariant, <1>1, PTL

(* Every open descriptor of a client has an owner that will close it: the  *)
(* repository's ownership by connections_, by shared_from_this and by the  *)
(* copy that the on-connection callback is given leaks no stream, even     *)
(* where it closes another Connection's descriptor.                        *)
THEOREM StreamsNotOrphaned == Spec => []NoOrphanStream
<1>1. ServerInv => NoOrphanStream
  BY DEF ServerInv
<1>2. QED
  BY ServerInvariant, <1>1, PTL

(* A step that ends a sub reactor's loop, unless it is a signal, handles   *)
(* an event of the Connection under construction or of a destroyed one.    *)
LEMMA DeathStep ==
  ASSUME ServerInv, [Next]_vars, NEW r \in Reactors, pc[r] # "dead", pc'[r] = "dead"
  PROVE  \/ stops' # stops
         \/ main \in {"et", "callbacks", "insert"} /\ cur \in todo[r] \cup {hcur[r]}
         \/ \E c \in Clients \cap (todo[r] \cup {hcur[r]}) : stage[c] = "destroyed"
<1> USE ServerAssumption
<1>t. /\ pc \in [Reactors -> {"loop", "read", "callback", "return", "dead"}]
      /\ todo \in [Reactors -> SUBSET Clients] /\ stage \in [Clients -> Stages]
      /\ stops \in 0..MaxStops /\ TypeOK
  BY DEF ServerInv, TypeOK
<1>b. \A c \in Clients : /\ stage[c] = "added" => c = cur /\ main \in {"et", "callbacks"}
                         /\ stage[c] = "callbacks" => c = cur /\ main = "insert"
  BY TypeOKSplit DEF ServerInv, OneIsBuilt
<1>1. ASSUME NEW q \in Reactors, NEW c \in Clients, HandleEvent(q, c)
      PROVE  main \in {"et", "callbacks", "insert"} /\ cur \in todo[r] \cup {hcur[r]}
  <2>1. c \in todo[q] /\ stage[c] # "destroyed"
    BY <1>1 DEF HandleEvent
  <2>2. CASE HasCallback(c)
    <3>1. pc' = [pc EXCEPT ![q] = "read"]
      BY <1>1, <2>2 DEF HandleEvent
    <3>2. QED
      BY <1>t, <3>1
  <2>3. CASE ~HasCallback(c)
    <3>1. pc' = [pc EXCEPT ![q] = "dead"]
      BY <1>1, <2>3 DEF HandleEvent, EndLoop
    <3>2. q = r
      BY <1>t, <3>1
    <3>3. stage[c] = "added"
      BY <1>t, <2>1, <2>3 DEF HasCallback, ServerInv, HandlerInCharge, Stages
    <3>4. QED
      BY <1>b, <2>1, <3>2, <3>3
  <2>4. QED
    BY <2>2, <2>3
<1>2. ASSUME ~crashed, NEW q \in Reactors, BusinessLogic(q)
      PROVE  main \in {"et", "callbacks", "insert"} /\ cur \in todo[r] \cup {hcur[r]}
  <2>1. pc[q] = "read" /\ stage[hcur[q]] # "destroyed"
    BY <1>2 DEF BusinessLogic
  <2>2. hcur[q] \in Clients /\ stage[hcur[q]] \in {"callbacks", "published", "destroyed"}
    BY <2>1 DEF ServerInv, HandlerInCharge
  <2>3. CASE Shared(hcur[q])
    <3>1. pc' = [pc EXCEPT ![q] = "callback"]
      BY <1>2, <2>3 DEF BusinessLogic
    <3>2. QED
      BY <1>t, <3>1
  <2>4. CASE ~Shared(hcur[q])
    <3>1. pc' = [pc EXCEPT ![q] = "dead"]
      BY <1>2, <2>4 DEF BusinessLogic, EndLoop
    <3>2. q = r
      BY <1>t, <3>1
    <3>3. stage[hcur[q]] = "callbacks"
      BY <2>1, <2>2, <2>4 DEF Shared
    <3>4. QED
      BY <1>b, <2>2, <3>2, <3>3
  <2>5. QED
    BY <2>3, <2>4
<1>3. CASE StopAndContinue
  BY <1>3, <1>t DEF StopAndContinue
<1>4. ASSUME NEW q \in Reactors, NEW c \in Clients, UseAfterFree(q, c)
      PROVE  \E d \in Clients \cap (todo[r] \cup {hcur[r]}) : stage[d] = "destroyed"
  <2>1. LoopGoesOn(q) /\ stage[c] = "destroyed" /\ c \in todo[q] \cup {hcur[q]}
    BY <1>4, <1>t, FreedStep
  <2>2. PICK x : pc' = [pc EXCEPT ![q] = x]
    BY <2>1 DEF LoopGoesOn
  <2>3. q = r
    BY <1>t, <2>2
  <2>4. QED
    BY <2>1, <2>3
<1>5. ASSUME ~crashed, NEW q \in Reactors, HandlerReturns(q)
      PROVE  \E d \in Clients \cap (todo[r] \cup {hcur[r]}) : stage[d] = "destroyed"
  <2>1. /\ LoopGoesOn(q) /\ pc[q] = "return"
        /\ stage[hcur[q]] # "destroyed" => pc' = [pc EXCEPT ![q] = "loop"]
    BY <1>5, <1>t, ReturnStep
  <2>2. PICK x : pc' = [pc EXCEPT ![q] = x]
    BY <2>1 DEF LoopGoesOn
  <2>3. q = r
    BY <1>t, <2>2
  <2>4. stage[hcur[q]] = "destroyed"
    BY <1>t, <2>1, <2>3
  <2>5. hcur[q] \in Clients
    BY <1>5, <2>1, HandledHasFd DEF ServerInv
  <2>6. QED
    BY <2>3, <2>4, <2>5
<1>6. ASSUME NEW q \in Reactors, NEW close \in BOOLEAN, OnMessage(q, close) PROVE FALSE
  <2>1. pc' = [pc EXCEPT ![q] = "return"]
    BY <1>6 DEF OnMessage
  <2>2. QED
    BY <1>t, <2>1
<1>7. ASSUME \/ UNCHANGED vars
             \/ \E c \in Clients : Connect(c) \/ Send(c) \/ Reset(c) \/ SigPipe(c) \/ Accept(c)
             \/ NewSocket \/ EnableRead \/ UseET \/ SetCallBacks \/ Insert \/ Announce
             \/ \E close \in BOOLEAN : OnConnection(close)
             \/ \E th \in Threads : CloseFd(th)
             \/ \E q \in Reactors : Poll(q)
      PROVE  FALSE
  <2>1. UNCHANGED pc
    BY <1>7 DEF Connect, Send, Reset, SigPipe, Accept, NewSocket, EnableRead, UseET, SetCallBacks, Insert,
                Announce, OnConnection, Throw, CloseFd, Poll, rvars, vars
  <2>2. QED
    BY <2>1
<1>8. QED
  BY <1>1, <1>2, <1>3, <1>4, <1>5, <1>6, <1>7 DEF Next, MainStep, ReactorStep

(* Unless epoll_wait is interrupted, a sub reactor dies only of an event   *)
(* of the Connection that NewConnection has added to epoll and not yet put *)
(* in connections_, or of the use of a Connection that was destroyed since *)
(* its event was reported.                                                 *)
THEOREM OnlyUnfinishedOrFreedThrow == Spec => LiveConnectionsNeverThrow
<1> DEFINE A == \A r \in Reactors : pc[r] # "dead" /\ pc'[r] = "dead" =>
                  \/ stops' # stops
                  \/ /\ main \in {"et", "callbacks", "insert"}
                     /\ cur \in todo[r] \cup {hcur[r]}
                  \/ \E c \in Clients \cap (todo[r] \cup {hcur[r]}) : stage[c] = "destroyed"
<1>1. ServerInv /\ [Next]_vars => [A]_vars
  BY DeathStep
<1>2. QED
  BY ServerInvariant, <1>1, PTL DEF Spec, LiveConnectionsNeverThrow

-----------------------------------------------------------------------------
(* With callbacks that never call Close: two descriptors for each          *)
(* Connection, none of them given back.                                    *)

(* Descriptors in use: two for each accepted connection, of which the      *)
(* second one is opened by the Connection's constructor.                   *)
Used == 2 * Cardinality(Accepted) - (IF main = "socket" THEN 1 ELSE 0)

(* Nothing is ever destroyed, and whatever is published stays in           *)
(* connections_.                                                           *)
NothingDestroyed ==
    /\ \A c \in Clients : stage[c] # "destroyed"
    /\ \A th \in Threads : closing[th] = <<>>
    /\ \A c \in Clients : stage[c] = "published" => InMap(connections, c)
    /\ main = "et" => epoll[fd_[cur]].ch # None
    /\ main = "onconnect" => cur # None

(* The descriptor of a Connection is even and names its own stream.        *)
DescriptorsEven ==
    \A c \in Clients : fd_[c] # None => fdt[fd_[c]] = c /\ fd_[c] % 2 = 0

(* The descriptors in use are the first ones.                              *)
UsedFromBelow ==
    /\ IsFiniteSet(Accepted)
    /\ ~crashed => Used \in 0..MaxFd /\ \A f \in Fds : fdt[f] # None <=> f < Used

(* What the process falls of is the last descriptor.                       *)
FallsUsedUp ==
    crashed /\ stops = 0 /\ reset = {} =>
        MaxFd \in {2 * Cardinality(Accepted) - 2, 2 * Cardinality(Accepted) - 1}

CapacityInv == NothingDestroyed /\ DescriptorsEven /\ UsedFromBelow /\ FallsUsedUp

-----------------------------------------------------------------------------
(* The parity of a number is that of its remainder modulo an even one.     *)
LEMMA ParityOfRemainder ==
  ASSUME NEW n \in Nat, NEW m \in Nat \ {0}, m % 2 = 0
  PROVE  (n % m) % 2 = n % 2
<1>1. PICK j \in Int : m = 2 * j
  OBVIOUS
<1>2. PICK q \in Int : q = n \div m
  OBVIOUS
<1>3. n % m \in Nat /\ n % m = n - m * q
  BY <1>2
<1>4. PICK p \in Int : p = j * q
  BY <1>1, <1>2
<1>5. m * q = 2 * p
  BY <1>1, <1>2, <1>4
<1>6. PICK r \in Nat : r = n % m /\ n = 2 * p + r
  BY <1>3, <1>4, <1>5
<1>7. n % 2 = r % 2
  BY <1>4, <1>6
<1>8. QED
  BY <1>6, <1>7

(* No Connection at all at the start.                                      *)
LEMMA InitCapacityInv == Init => CapacityInv
<1> SUFFICES ASSUME Init PROVE CapacityInv
  OBVIOUS
<1> USE ServerAssumption
<1>1. Accepted = {}
  BY DEF Init, Accepted
<1>2. IsFiniteSet(Accepted) /\ Cardinality(Accepted) = 0
  BY <1>1, FS_EmptySet
<1>3. Used = 0
  BY <1>2 DEF Init, Used
<1>4. UsedFromBelow
  <2>1. \A f \in Fds : fdt[f] = None /\ ~(f < 0)
    BY DEF Init, Fds
  <2>2. QED
    BY <1>2, <1>3, <2>1 DEF UsedFromBelow
<1>5. NothingDestroyed /\ DescriptorsEven /\ FallsUsedUp
  BY DEF Init, NothingDestroyed, DescriptorsEven, FallsUsedUp
<1>6. QED
  BY <1>4, <1>5 DEF CapacityInv

(* accept() and socket() return the number of descriptors in use.          *)
LEMMA LowestIsUsed ==
  ASSUME UsedFromBelow, ~crashed, FreeFds # {}
  PROVE  LowestFree = Used /\ Used < MaxFd
<1> USE ServerAssumption
<1>1. LowestFree \in FreeFds /\ \A g \in FreeFds : LowestFree <= g
  <2>1. FreeFds \subseteq Nat
    BY DEF FreeFds, Fds
  <2>2. \E f \in FreeFds : \A g \in FreeFds : f <= g
    BY <2>1, LeastNatural
  <2>3. QED
    BY <2>2 DEF LowestFree
<1>2. PICK u \in 0..MaxFd : u = Used
  BY DEF UsedFromBelow
<1>3. \A f \in Fds : f \in FreeFds <=> ~(f < u)
  BY <1>2 DEF UsedFromBelow, FreeFds
<1>4. LowestFree \in 0..(MaxFd - 1) /\ ~(LowestFree < u)
  BY <1>1, <1>3 DEF FreeFds, Fds
<1>5. u \in Fds
  BY <1>2, <1>4 DEF Fds
<1>6. u \in FreeFds
  BY <1>3, <1>5, <1>2
<1>7. LowestFree <= u
  BY <1>1, <1>6
<1>8. QED
  BY <1>2, <1>4, <1>7

(* Where none is left, all are in use.                                     *)
LEMMA AllAreUsed ==
  ASSUME UsedFromBelow, ~crashed, FreeFds = {}
  PROVE  Used = MaxFd
<1> USE ServerAssumption
<1>1. PICK u \in 0..MaxFd : u = Used
  BY DEF UsedFromBelow
<1>2. \A f \in Fds : f < u
  BY <1>1 DEF UsedFromBelow, FreeFds
<1>3. MaxFd - 1 \in Fds
  BY DEF Fds
<1>4. QED
  BY <1>1, <1>2, <1>3

(* accept() counts one Connection more.                                    *)
LEMMA AcceptCounts ==
  ASSUME ServerInv, UsedFromBelow, NEW c \in Clients, Accept(c)
  PROVE  /\ IsFiniteSet(Accepted)' /\ Cardinality(Accepted) \in Nat
         /\ Cardinality(Accepted)' = Cardinality(Accepted) + 1
<1>1. stage' = [stage EXCEPT ![c] = "accepted"] /\ stage[c] = "queued"
  BY AcceptEffect
<1>2. stage \in [Clients -> Stages]
  BY DEF ServerInv, TypeOK
<1>3. Accepted' = Accepted \cup {c} /\ c \notin Accepted
  BY <1>1, <1>2 DEF Accepted
<1>4. QED
  BY <1>3, FS_AddElement, FS_CardinalityType DEF UsedFromBelow

(* What the steps other than accept() and socket() leave as it is, when no *)
(* callback calls Close.                                                   *)
Quiet ==
    /\ UNCHANGED <<fdt, fd_>>
    /\ main' = "socket" <=> main = "socket"
    /\ crashed' => stops' # 0 \/ reset' # {}
    /\ \A c \in Clients : stage'[c] \in {"away", "queued"} <=> stage[c] \in {"away", "queued"}

(* A quiet step preserves the counts.                                      *)
LEMMA QuietCounts ==
  ASSUME ServerInv, CapacityInv, [Next]_vars, ~crashed, Quiet
  PROVE  DescriptorsEven' /\ UsedFromBelow' /\ FallsUsedUp'
<1>1. Accepted' = Accepted
  BY DEF Quiet, Accepted
<1>2. Cardinality(Accepted)' = Cardinality(Accepted) /\ Used' = Used
  BY <1>1 DEF Used, Quiet
<1>3. DescriptorsEven'
  BY DEF Quiet, CapacityInv, DescriptorsEven
<1>4. UsedFromBelow'
  BY <1>1, <1>2 DEF Quiet, CapacityInv, UsedFromBelow
<1>5. FallsUsedUp'
  BY DEF Quiet, FallsUsedUp
<1>6. QED
  BY <1>3, <1>4, <1>5

(* accept() and the constructor's socket() take the next descriptor, or    *)
(* end the process when half as many Connections as there are descriptors  *)
(* have been accepted.                                                     *)
LEMMA AcceptCapacity ==
  ASSUME ServerInv, CapacityInv, ~crashed, NEW c \in Clients, Accept(c)
  PROVE  DescriptorsEven' /\ UsedFromBelow' /\ FallsUsedUp'
<1> USE ServerAssumption
<1>t. /\ fdt \in [Fds -> Clients \cup {None, Spare}] /\ fd_ \in [Clients -> Fds \cup {None}]
      /\ crashed = FALSE
  BY DEF ServerInv, TypeOK
<1>i. DescriptorsEven /\ UsedFromBelow
  BY DEF CapacityInv
<1>n. PICK n \in Nat : /\ n = Cardinality(Accepted) /\ Cardinality(Accepted)' = n + 1
                       /\ IsFiniteSet(Accepted)'
  BY <1>i, AcceptCounts
<1>m. main = "loop" /\ main' = "socket"
  BY DEF Accept, MainIdle
<1>u. Used = 2 * n /\ Used' = 2 * n + 1
  BY <1>n, <1>m DEF Used
<1>1. CASE FreeFds # {}
  <2>1. /\ LowestFree \in Fds /\ fdt[LowestFree] = None
        /\ fdt' = [fdt EXCEPT ![LowestFree] = c]
        /\ fd_' = [fd_ EXCEPT ![c] = LowestFree]
    BY <1>1, AcceptEffect
  <2>2. LowestFree = 2 * n /\ 2 * n < MaxFd
    BY <1>1, <1>i, <1>u, LowestIsUsed
  <2>3. crashed' = crashed
    BY <1>1 DEF Accept, SocketAccept
  <2>4. DescriptorsEven'
    <3>1. SUFFICES ASSUME NEW d \in Clients, fd_'[d] # None
                   PROVE  fdt'[fd_'[d]] = d /\ fd_'[d] % 2 = 0
      BY DEF DescriptorsEven
    <3>2. CASE d = c
      <4>1. fd_'[d] = LowestFree /\ fdt'[LowestFree] = c
        BY <1>t, <2>1, <3>2
      <4>2. (2 * n) % 2 = 0
        BY <1>n
      <4>3. QED
        BY <2>2, <3>2, <4>1, <4>2
    <3>3. CASE d # c
      <4>1. fd_'[d] = fd_[d]
        BY <1>t, <2>1, <3>3
      <4>2. fdt[fd_[d]] = d /\ fd_[d] % 2 = 0 /\ fd_[d] \in Fds
        BY <1>i, <1>t, <3>1, <4>1 DEF DescriptorsEven
      <4>3. fd_[d] # LowestFree
        BY <2>1, <4>2
      <4>4. QED
        BY <1>t, <2>1, <4>1, <4>2, <4>3
    <3>4. QED
      BY <3>2, <3>3
  <2>5. UsedFromBelow'
    <3>1. Used' \in 0..MaxFd
      BY <1>n, <1>u, <2>2
    <3>2. ASSUME NEW f \in Fds PROVE fdt'[f] # None <=> f < Used'
      <4>1. fdt[f] # None <=> f < 2 * n
        BY <1>i, <1>u DEF UsedFromBelow
      <4>2. fdt'[f] # None <=> f = 2 * n \/ f < 2 * n
        BY <1>t, <2>1, <2>2, <4>1
      <4>3. f = 2 * n \/ f < 2 * n <=> f < 2 * n + 1
        BY <1>n DEF Fds
      <4>4. QED
        BY <1>u, <4>2, <4>3
    <3>3. QED
      BY <1>n, <3>1, <3>2 DEF UsedFromBelow
  <2>6. FallsUsedUp'
    BY <1>t, <2>3 DEF FallsUsedUp
  <2>7. QED
    BY <2>4, <2>5, <2>6
<1>2. CASE FreeFds = {}
  <2>1. crashed' /\ UNCHANGED <<fdt, fd_>>
    BY <1>2, AcceptEffect
  <2>2. 2 * n = MaxFd
    BY <1>2, <1>i, <1>u, AllAreUsed
  <2>3. MaxFd = 2 * (n + 1) - 2
    BY <1>n, <2>2
  <2>4. FallsUsedUp'
    BY <1>n, <2>3 DEF FallsUsedUp
  <2>5. QED
    BY <1>i, <1>n, <2>1, <2>4 DEF DescriptorsEven, UsedFromBelow
<1>3. QED
  BY <1>1, <1>2

(* The same for the socket that the constructor opens.                     *)
LEMMA NewSocketCapacity ==
  ASSUME ServerInv, CapacityInv, ~crashed, NewSocket
  PROVE  DescriptorsEven' /\ UsedFromBelow' /\ FallsUsedUp'
<1> USE ServerAssumption
<1>t. /\ fdt \in [Fds -> Clients \cup {None, Spare}] /\ fd_ \in [Clients -> Fds \cup {None}]
      /\ crashed = FALSE
  BY DEF ServerInv, TypeOK
<1>i. DescriptorsEven /\ UsedFromBelow
  BY DEF CapacityInv
<1>m. main = "socket" /\ UNCHANGED <<stage, fd_>>
  BY DEF NewSocket, Throw
<1>a. Accepted' = Accepted
  BY <1>m DEF Accepted
<1>n. PICK n \in Nat : n = Cardinality(Accepted)
  BY <1>i, FS_CardinalityType DEF UsedFromBelow
<1>u. Used = 2 * n - 1
  BY <1>n, <1>m DEF Used
<1>1. CASE FreeFds # {}
  <2>1. /\ LowestFree \in Fds /\ fdt[LowestFree] = None
        /\ fdt' = [fdt EXCEPT ![LowestFree] = Spare] /\ main' = "add" /\ UNCHANGED crashed
    BY <1>1, LowestIsFree DEF NewSocket, SocketOpened
  <2>2. LowestFree = 2 * n - 1 /\ 2 * n - 1 < MaxFd
    BY <1>1, <1>i, <1>u, LowestIsUsed
  <2>3. Used' = 2 * n
    BY <1>a, <1>n, <2>1 DEF Used
  <2>4. DescriptorsEven'
    <3>1. SUFFICES ASSUME NEW d \in Clients, fd_[d] # None
                   PROVE  fdt'[fd_[d]] = d /\ fd_[d] % 2 = 0
      BY <1>m DEF DescriptorsEven
    <3>2. fdt[fd_[d]] = d /\ fd_[d] % 2 = 0 /\ fd_[d] \in Fds
      BY <1>i, <1>t, <3>1 DEF DescriptorsEven
    <3>3. fd_[d] # LowestFree
      BY <2>1, <3>2
    <3>4. QED
      BY <1>t, <2>1, <3>2, <3>3
  <2>5. UsedFromBelow'
    <3>1. Used' \in 0..MaxFd
      BY <1>n, <2>2, <2>3
    <3>2. ASSUME NEW f \in Fds PROVE fdt'[f] # None <=> f < Used'
      <4>1. fdt[f] # None <=> f < 2 * n - 1
        BY <1>i, <1>u, <1>t DEF UsedFromBelow
      <4>2. fdt'[f] # None <=> f = 2 * n - 1 \/ f < 2 * n - 1
        BY <1>t, <2>1, <2>2, <4>1
      <4>3. f = 2 * n - 1 \/ f < 2 * n - 1 <=> f < 2 * n
        BY <1>n DEF Fds
      <4>4. QED
        BY <2>3, <4>2, <4>3
    <3>3. IsFiniteSet(Accepted)'
      BY <1>a, <1>i DEF UsedFromBelow
    <3>4. QED
      BY <3>1, <3>2, <3>3 DEF UsedFromBelow
  <2>6. FallsUsedUp'
    BY <1>t, <2>1 DEF FallsUsedUp
  <2>7. QED
    BY <2>4, <2>5, <2>6
<1>2. CASE FreeFds = {}
  <2>1. crashed' /\ UNCHANGED <<fdt, fd_>>
    BY <1>2 DEF NewSocket, Throw, kvars
  <2>2. 2 * n - 1 = MaxFd
    BY <1>2, <1>i, <1>u, AllAreUsed
  <2>4. FallsUsedUp'
    BY <1>a, <1>n, <2>2 DEF FallsUsedUp
  <2>5. QED
    BY <1>a, <1>i, <2>1, <2>4 DEF DescriptorsEven, UsedFromBelow
<1>3. QED
  BY <1>1, <1>2

(* NewConnection replaces nothing: the descriptor it got was not in use.   *)
LEMMA InsertReplacesNothing ==
  ASSUME ServerInv, CapacityInv, ~crashed, Insert
  PROVE  NothingDestroyed' /\ Quiet
<1> USE ServerAssumption
<1>t. /\ closing \in [Threads -> Seq(Fds)] /\ connections \in [Fds -> Clients \cup {None}]
      /\ crashed = FALSE
  BY DEF ServerInv, TypeOK
<1>i. NothingDestroyed /\ DescriptorsEven
  BY DEF CapacityInv
<1>1. PICK f \in Fds, old \in Clients \cup {None} :
         /\ f = fd_[cur] /\ old = connections[f] /\ old # cur /\ cur \in Clients
         /\ old # None => fd_[old] = f
         /\ connections' = [connections EXCEPT ![f] = cur]
         /\ stage'[cur] = "published"
         /\ \A d \in Clients : d \notin {cur, old} => stage'[d] = stage[d]
         /\ old = None => closing' = [closing EXCEPT ![Main] = <<>>]
  BY InsertEffect
<1>2. f # None
  BY DEF Fds
<1>3. old = None
  <2>1. fdt[f] = cur
    BY <1>1, <1>2, <1>i DEF DescriptorsEven
  <2>2. old # None => fdt[f] = old
    BY <1>1, <1>2, <1>i DEF DescriptorsEven
  <2>3. QED
    BY <1>1, <2>1, <2>2
<1>4. /\ main = "insert" /\ main' = "announce" /\ UNCHANGED <<fdt, fd_, epoll, cur, crashed>>
  BY DEF Insert, kvars
<1>5. stage[cur] = "callbacks"
  BY <1>4, CurFacts DEF ServerInv
<1>6. \A d \in Clients : d # cur => stage'[d] = stage[d]
  BY <1>1, <1>3
<1>7. ASSUME NEW d \in Clients, stage'[d] = "published" PROVE InMap(connections, d)'
  <2>1. CASE d = cur
    BY <1>1, <1>2, <1>4, <1>t, <2>1 DEF InMap
  <2>2. CASE d # cur
    <3>1. InMap(connections, d)
      BY <1>6, <1>7, <1>i, <2>2 DEF NothingDestroyed
    <3>2. fd_[d] # f
      BY <1>1, <1>3, <3>1 DEF InMap
    <3>3. connections'[fd_[d]] = connections[fd_[d]]
      BY <1>1, <1>t, <3>2
    <3>4. QED
      BY <1>4, <3>1, <3>3 DEF InMap
  <2>3. QED
    BY <2>1, <2>2
<1>8. \A th \in Threads : closing'[th] = <<>>
  BY <1>1, <1>3, <1>i, <1>t DEF NothingDestroyed
<1>9. NothingDestroyed'
  BY <1>1, <1>4, <1>6, <1>7, <1>8, <1>i DEF NothingDestroyed
<1>10. Quiet
  BY <1>1, <1>4, <1>5, <1>6, <1>t DEF Quiet
<1>11. QED
  BY <1>9, <1>10

(* A callback that does not call Close returns and destroys nothing.       *)
LEMMA ReturnDestroysNothing ==
  ASSUME ServerInv, CapacityInv, ~AppCloses, ~crashed,
         NEW th \in Threads, NEW c \in Clients, NEW close \in BOOLEAN, Returns(th, c, close)
  PROVE  NothingDestroyed' /\ Quiet
<1> USE ServerAssumption
<1>t. closing \in [Threads -> Seq(Fds)] /\ stage \in [Clients -> Stages] /\ crashed = FALSE
  BY DEF ServerInv, TypeOK
<1>i. NothingDestroyed
  BY DEF CapacityInv
<1>0. /\ CallbackEnds(th, c, close) /\ th \in Holders(c)
      /\ UNCHANGED <<fd_, fdt, epoll, crashed>>
      /\ UNCHANGED <<main, cur>> \/ (main = "onconnect" /\ main' = "loop")
  BY ReturnSteps DEF Returns
<1>1. ~close
  BY <1>0 DEF CallbackEnds
<1>2. InMap(connections, c)
  BY <1>0, <1>i, HeldFacts DEF NothingDestroyed
<1>3. /\ connections' = connections
      /\ \A d \in Clients : stage'[d] = stage[d]
      /\ closing' = [closing EXCEPT ![th] = <<>> \o <<>>]
  <2> DEFINE others == {d \in {None} \ {c, None} : ~Held(d)}
             D == others \cup {d \in {c} : ~InMap(connections, d) /\ Holders(d) \subseteq {th}}
  <2>1. others = {} /\ D = {}
    BY <1>2
  <2>2. /\ connections' = connections
        /\ stage' = [d \in Clients |-> IF d \in D THEN "destroyed" ELSE stage[d]]
        /\ closing' = [closing EXCEPT ![th] =
              (IF others # {} THEN DestructorCloses(None) ELSE <<>>)
              \o (IF c \in D THEN DestructorCloses(c) ELSE <<>>)]
    BY <1>0, <1>1 DEF CallbackEnds
  <2> HIDE DEF others, D
  <2>3. QED
    BY <2>1, <2>2
<1>4. <<>> \o <<>> = <<>>
  <2>1. <<>> \in Seq(Fds)
    BY EmptySeq
  <2>2. QED
    BY <2>1, ConcatEmptySeq
<1>5. \A x \in Threads : closing'[x] = <<>>
  BY <1>3, <1>4, <1>i, <1>t DEF NothingDestroyed
<1>6. NothingDestroyed'
  BY <1>0, <1>3, <1>5, <1>i DEF NothingDestroyed, InMap
<1>7. Quiet
  BY <1>0, <1>3, <1>t DEF Quiet
<1>8. QED
  BY <1>6, <1>7

(* With all descriptors open and registered, nothing throws.               *)
LEMMA MainCapacity ==
  ASSUME ServerInv, CapacityInv, ~crashed, EnableRead \/ UseET \/ SetCallBacks \/ Announce
  PROVE  NothingDestroyed' /\ Quiet
<1> USE ServerAssumption
<1>t. /\ epoll \in [Fds -> [ch : Clients \cup {None}, et : BOOLEAN, armed : BOOLEAN]]
      /\ stage \in [Clients -> Stages] /\ crashed = FALSE
  BY DEF ServerInv, TypeOK
<1>i. NothingDestroyed /\ DescriptorsEven
  BY DEF CapacityInv
<1>1. cur \in Clients /\ fd_[cur] \in Fds /\ fd_[cur] # None
  <2>1. main \notin {"loop", "onconnect"}
    BY DEF EnableRead, UseET, SetCallBacks, Announce
  <2>2. cur \in Clients /\ fd_[cur] \in Fds
    BY <2>1, CurFacts DEF ServerInv
  <2>3. QED
    BY <2>2 DEF Fds
<1>2. fdt[fd_[cur]] = cur /\ cur # None
  BY <1>1, <1>i DEF DescriptorsEven
<1>3. CASE EnableRead
  <2>1. /\ epoll' = [epoll EXCEPT ![fd_[cur]] = Registration(FALSE)]
        /\ stage' = [stage EXCEPT ![cur] = "added"] /\ main = "add" /\ main' = "et"
        /\ UNCHANGED <<fdt, fd_, cur, connections, closing, crashed>>
    BY <1>2, <1>3 DEF EnableRead
  <2>2. stage[cur] = "accepted"
    BY <1>1, <2>1, CurFacts DEF ServerInv
  <2>3. epoll'[fd_[cur]].ch = cur
    BY <1>1, <1>t, <2>1 DEF Registration
  <2>4. NothingDestroyed'
    BY <1>2, <1>i, <1>t, <2>1, <2>3 DEF NothingDestroyed, InMap
  <2>5. Quiet
    BY <1>1, <1>t, <2>1, <2>2 DEF Quiet
  <2>6. QED
    BY <2>4, <2>5
<1>4. CASE UseET
  <2>1. epoll[fd_[cur]].ch # None
    BY <1>4, <1>i DEF UseET, NothingDestroyed
  <2>2. /\ main = "et" /\ main' = "callbacks"
        /\ UNCHANGED <<stage, fdt, fd_, cur, connections, closing, crashed>>
    BY <1>4, <2>1 DEF UseET
  <2>3. QED
    BY <1>i, <1>t, <2>2 DEF NothingDestroyed, InMap, Quiet
<1>5. CASE SetCallBacks
  <2>1. /\ stage' = [stage EXCEPT ![cur] = "callbacks"] /\ main = "callbacks" /\ main' = "insert"
        /\ UNCHANGED <<fdt, fd_, cur, connections, closing, crashed>>
    BY <1>5 DEF SetCallBacks, kvars
  <2>2. stage[cur] = "added"
    BY <1>1, <2>1, CurFacts DEF ServerInv
  <2>3. NothingDestroyed'
    BY <1>i, <1>t, <2>1 DEF NothingDestroyed, InMap
  <2>4. Quiet
    BY <1>1, <1>t, <2>1, <2>2 DEF Quiet
  <2>5. QED
    BY <2>3, <2>4
<1>6. CASE Announce
  <2>1. main = "announce"
    BY <1>6 DEF Announce
  <2>2. stage[cur] \in {"published", "destroyed"}
    BY <1>1, <2>1, CurFacts DEF ServerInv
  <2>3. connections[fd_[cur]] # None
    BY <1>1, <1>2, <1>i, <2>2 DEF NothingDestroyed, InMap
  <2>4. /\ UNCHANGED <<stage, fdt, fd_, connections, closing, crashed>>
        /\ main' = "loop" \/ (main' = "onconnect" /\ cur' # None)
    BY <1>6, <2>3 DEF Announce, kvars
  <2>5. QED
    BY <1>i, <1>t, <2>1, <2>4 DEF NothingDestroyed, InMap, Quiet
<1>7. QED
  BY <1>3, <1>4, <1>5, <1>6

(* The registration of the Connection under construction stays.            *)
LEMMA RestCapacity ==
  ASSUME ServerInv, CapacityInv, [Next]_vars, ~crashed,
         UNCHANGED <<fdt, fd_, main, cur, connections, closing>>,
         \A c \in Clients : \/ stage'[c] = stage[c]
                            \/ stage[c] = "away" /\ stage'[c] = "queued",
         \A f \in Fds : epoll'[f].ch = epoll[f].ch,
         crashed' => stops' # 0 \/ reset' # {}
  PROVE  NothingDestroyed' /\ Quiet
<1>i. NothingDestroyed
  BY DEF CapacityInv
<1>1. main = "et" => fd_[cur] \in Fds
  BY CurFacts DEF ServerInv
<1>2. NothingDestroyed'
  BY <1>i, <1>1 DEF NothingDestroyed, InMap
<1>3. Quiet
  BY DEF Quiet
<1>4. QED
  BY <1>2, <1>3

(* accept() and socket() destroy nothing.                                  *)
LEMMA OpeningDestroysNothing ==
  ASSUME ServerInv, CapacityInv, ~crashed, NewSocket \/ \E c \in Clients : Accept(c)
  PROVE  NothingDestroyed'
<1> USE ServerAssumption
<1>t. stage \in [Clients -> Stages] /\ fd_ \in [Clients -> Fds \cup {None}]
  BY DEF ServerInv, TypeOK
<1>i. NothingDestroyed
  BY DEF CapacityInv
<1>1. CASE NewSocket
  <2>1. /\ main' \in {"socket", "add"}
        /\ UNCHANGED <<stage, fd_, connections, closing>>
    BY <1>1 DEF NewSocket, Throw, mvars
  <2>2. QED
    BY <1>i, <2>1 DEF NothingDestroyed, InMap
<1>2. ASSUME NEW c \in Clients, Accept(c) PROVE NothingDestroyed'
  <2>1. /\ stage' = [stage EXCEPT ![c] = "accepted"] /\ main' = "socket"
        /\ UNCHANGED <<connections, closing>>
        /\ fd_' = fd_ \/ \E x : fd_' = [fd_ EXCEPT ![c] = x]
    BY <1>2 DEF Accept, SocketAccept
  <2>2. \A d \in Clients : d # c => stage'[d] = stage[d] /\ fd_'[d] = fd_[d]
    BY <1>t, <2>1
  <2>3. stage'[c] = "accepted"
    BY <1>t, <2>1
  <2>4. QED
    BY <1>i, <2>1, <2>2, <2>3 DEF NothingDestroyed, InMap
<1>3. QED
  BY <1>1, <1>2

(* Every step preserves the counts.                                        *)
LEMMA NextCapacityInv ==
  ASSUME ServerInv, CapacityInv, ~AppCloses, [Next]_vars
  PROVE  CapacityInv'
<1> USE ServerAssumption
<1>t. /\ stage \in [Clients -> Stages] /\ crashed \in BOOLEAN /\ stops \in 0..MaxStops
      /\ epoll \in [Fds -> [ch : Clients \cup {None}, et : BOOLEAN, armed : BOOLEAN]]
      /\ todo \in [Reactors -> SUBSET Clients]
  BY DEF ServerInv, TypeOK
<1>i. NothingDestroyed
  BY DEF CapacityInv
<1>1. CASE UNCHANGED vars
  <2>1. Accepted' = Accepted /\ Used' = Used
    BY <1>1 DEF Accepted, Used, vars
  <2>2. NothingDestroyed' /\ DescriptorsEven'
    BY <1>1 DEF CapacityInv, NothingDestroyed, DescriptorsEven, InMap, vars
  <2>3. UsedFromBelow'
    BY <1>1, <2>1 DEF CapacityInv, UsedFromBelow, vars
  <2>4. FallsUsedUp'
    BY <1>1, <2>1 DEF CapacityInv, FallsUsedUp, vars
  <2>5. QED
    BY <2>2, <2>3, <2>4 DEF CapacityInv
<1>2. ASSUME ~crashed, NewSocket \/ \E c \in Clients : Accept(c) PROVE CapacityInv'
  BY <1>2, AcceptCapacity, NewSocketCapacity, OpeningDestroysNothing DEF CapacityInv
<1>3. ASSUME ~crashed, NothingDestroyed', Quiet PROVE CapacityInv'
  BY <1>3, QuietCounts DEF CapacityInv
<1>4. ASSUME ~crashed, Insert \/ EnableRead \/ UseET \/ SetCallBacks \/ Announce PROVE CapacityInv'
  BY <1>3, <1>4, InsertReplacesNothing, MainCapacity
<1>5. ASSUME ~crashed, UNCHANGED <<fdt, fd_, main, cur, connections, closing>>,
             \A c \in Clients : \/ stage'[c] = stage[c]
                                \/ stage[c] = "away" /\ stage'[c] = "queued",
             \A f \in Fds : epoll'[f].ch = epoll[f].ch,
             crashed' => stops' # 0 \/ reset' # {}
      PROVE  CapacityInv'
  BY <1>3, <1>5, RestCapacity
<1>6. ASSUME ~crashed, NEW c \in Clients, Connect(c) PROVE CapacityInv'
  <2>1. /\ stage[c] = "away" /\ stage' = [stage EXCEPT ![c] = "queued"]
        /\ UNCHANGED <<fdt, fd_, main, cur, connections, closing, epoll, crashed>>
    BY <1>6 DEF Connect, kvars, mvars
  <2>2. \A d \in Clients : stage'[d] = stage[d] \/ (stage[d] = "away" /\ stage'[d] = "queued")
    BY <1>t, <2>1
  <2>3. QED
    BY <1>5, <1>6, <2>1, <2>2
<1>e. \A f \in Fds : /\ epoll[f] \in [ch : Clients \cup {None}, et : BOOLEAN, armed : BOOLEAN]
                     /\ [epoll[f] EXCEPT !.armed = TRUE].ch = epoll[f].ch
                     /\ [epoll[f] EXCEPT !.armed = FALSE].ch = epoll[f].ch
  BY <1>t, ArmedType
<1>7. ASSUME ~crashed, NEW c \in Clients, Send(c) \/ Reset(c) PROVE CapacityInv'
  <2>1. UNCHANGED <<stage, fdt, fd_, main, cur, connections, closing, crashed>>
    BY <1>7 DEF Send, Reset, mvars
  <2>2. epoll' = [g \in Fds |-> IF fdt[g] = c THEN [epoll[g] EXCEPT !.armed = TRUE] ELSE epoll[g]]
    BY <1>7 DEF Send, Reset, InputArrives
  <2>3. \A f \in Fds : epoll'[f].ch = epoll[f].ch
    BY <1>e, <2>2
  <2>4. QED
    BY <1>5, <1>7, <2>1, <2>3
<1>8. ASSUME ~crashed, NEW r \in Reactors, Poll(r) PROVE CapacityInv'
  <2>1. UNCHANGED <<stage, fdt, fd_, main, cur, connections, closing, crashed>>
    BY <1>8 DEF Poll, mvars
  <2>2. PICK S : epoll' = [g \in Fds |-> IF g \in S THEN [epoll[g] EXCEPT !.armed = FALSE] ELSE epoll[g]]
    BY <1>8 DEF Poll
  <2>3. \A f \in Fds : epoll'[f].ch = epoll[f].ch
    BY <1>e, <2>2
  <2>4. QED
    BY <1>5, <1>8, <2>1, <2>3
<1>9. ASSUME NEW r \in Reactors, NEW c \in Clients, UseAfterFree(r, c) PROVE FALSE
  BY <1>9, <1>i DEF UseAfterFree, NothingDestroyed
<1>10. ASSUME ~crashed, NEW r \in Reactors, HandlerReturns(r) PROVE CapacityInv'
  <2>1. pc[r] = "return"
    BY <1>10 DEF HandlerReturns
  <2>2. stage[hcur[r]] # "destroyed"
    BY <1>10, <1>i, <2>1, HandledHasFd DEF NothingDestroyed, ServerInv
  <2>3. UNCHANGED <<stage, fdt, fd_, main, cur, connections, closing, epoll, crashed>>
    BY <1>10, <2>2 DEF HandlerReturns, kvars, mvars
  <2>4. QED
    BY <1>5, <1>10, <2>3
<1>11. ASSUME ~crashed, NEW r \in Reactors, BusinessLogic(r) \/ \E c \in Clients : HandleEvent(r, c)
       PROVE  CapacityInv'
  <2>1. UNCHANGED <<stage, fdt, fd_, main, cur, connections, closing, epoll, crashed>>
    BY <1>11 DEF BusinessLogic, HandleEvent, kvars, mvars
  <2>2. QED
    BY <1>5, <1>11, <2>1
<1>12. ASSUME NEW th \in Threads, CloseFd(th) PROVE FALSE
  BY <1>12, <1>i DEF CloseFd, NothingDestroyed
<1>13. ASSUME ~crashed, StopAndContinue PROVE CapacityInv'
  <2>1. UNCHANGED <<stage, fdt, fd_, main, cur, connections, closing, epoll>> /\ stops' = stops + 1
    BY <1>13 DEF StopAndContinue, mvars
  <2>2. stops' # 0
    BY <1>t, <2>1
  <2>3. QED
    BY <1>5, <1>13, <2>1, <2>2
<1>14. ASSUME ~crashed, NEW c \in Clients, SigPipe(c) PROVE CapacityInv'
  <2>1. UNCHANGED <<stage, fdt, fd_, main, cur, connections, closing, epoll, reset>> /\ c \in reset
    BY <1>14 DEF SigPipe, Throw, kvars, mvars
  <2>2. reset' # {}
    BY <2>1
  <2>3. QED
    BY <1>5, <1>14, <2>1, <2>2
<1>15. ASSUME ~crashed, NEW r \in Reactors, NEW close \in BOOLEAN, OnMessage(r, close) PROVE CapacityInv'
  <2>1. r \in Threads
    BY MainIsNoReactor
  <2>2. QED
    BY <1>3, <1>15, <2>1, OnMessageReturns, ReturnDestroysNothing
<1>16. ASSUME ~crashed, NEW close \in BOOLEAN, OnConnection(close) PROVE CapacityInv'
  <2>1. cur # None
    BY <1>16, <1>i DEF OnConnection, NothingDestroyed
  <2>2. QED
    BY <1>3, <1>16, <2>1, MainIsNoReactor, OnConnectionReturns, ReturnDestroysNothing
<1>17. QED
  BY <1>1, <1>2, <1>4, <1>6, <1>7, <1>8, <1>9, <1>10, <1>11, <1>12, <1>13, <1>14, <1>15, <1>16
     DEF Next, MainStep, ReactorStep

(* The descriptors below Used are as many as it says, which makes the      *)
(* count of the descriptors in use exact.                                  *)
LEMMA HalvedFromBelow ==
  ASSUME UsedFromBelow, FallsUsedUp
  PROVE  CapacityIsHalved
<1> USE ServerAssumption
<1> DEFINE InUse == {f \in Fds : fdt[f] # None}
<1>1. ASSUME ~crashed PROVE Cardinality(InUse) = Used
  <2>1. PICK u \in 0..MaxFd : u = Used
    BY <1>1 DEF UsedFromBelow
  <2>2. \A f \in Fds : fdt[f] # None <=> f < u
    BY <1>1, <2>1 DEF UsedFromBelow
  <2>3. InUse = 0..(u - 1)
    BY <2>1, <2>2 DEF Fds
  <2>4. u - 1 \in Int /\ 0 \in Int
    BY <2>1
  <2>5. Cardinality(0..(u - 1)) = IF 0 > u - 1 THEN 0 ELSE (u - 1) - 0 + 1
    BY <2>4, FS_Interval
  <2>6. Cardinality(0..(u - 1)) = u
    BY <2>1, <2>5
  <2>7. QED
    BY <2>1, <2>3, <2>6
<1>2. Cardinality(Accepted) \in Nat
  BY FS_CardinalityType DEF UsedFromBelow
<1>3. Used = IF main = "socket" THEN 2 * Cardinality(Accepted) - 1 ELSE 2 * Cardinality(Accepted)
  BY <1>2 DEF Used
<1> HIDE DEF InUse
<1>4. ~crashed => Cardinality(InUse) = IF main = "socket" THEN 2 * Cardinality(Accepted) - 1
                                                          ELSE 2 * Cardinality(Accepted)
  BY <1>1, <1>3
<1>5. QED
  BY <1>4 DEF CapacityIsHalved, FallsUsedUp, InUse

-----------------------------------------------------------------------------
(* The theorems.                                                           *)

(* With callbacks that never call Close, nothing is destroyed, the         *)
(* descriptors in use are the first ones, and those of Connections even.   *)
THEOREM CapacityInvariant ==
  ASSUME ~AppCloses
  PROVE  Spec => []CapacityInv
<1>1. ServerInv /\ CapacityInv /\ [Next]_vars => CapacityInv'
  BY NextCapacityInv
<1>2. QED
  BY InitCapacityInv, <1>1, ServerInvariant, PTL DEF Spec

(* With callbacks that never call Close, n accepted connections hold       *)
(* exactly 2n descriptors, 2n - 1 before the constructor's socket(); and   *)
(* unless it is stopped or a client resets its stream, the process falls   *)
(* at the connection for which none or a single one is left.               *)
THEOREM HalfTheLimitIsTheCapacity ==
  ASSUME ~AppCloses
  PROVE  Spec => []CapacityIsHalved
<1>1. CapacityInv => CapacityIsHalved
  BY HalvedFromBelow DEF CapacityInv
<1>2. QED
  BY CapacityInvariant, <1>1, PTL

(* Every Connection has been given to a sub reactor of one parity.         *)
EveryOtherReactorIdle ==
    NReactors % 2 = 0 =>
        \A c, d \in Clients :
            fd_[c] # None /\ fd_[d] # None => LoopOf(c) % 2 = LoopOf(d) % 2

(* With callbacks that never call Close and an even number of sub          *)
(* reactors, fd % sub_reactors_.size() gives every Connection to a reactor *)
(* of the same parity: half of the reactors stay idle.                     *)
THEOREM HalfOfTheReactorsIdle ==
  ASSUME ~AppCloses
  PROVE  Spec => []EveryOtherReactorIdle
<1>1. ServerInv /\ CapacityInv => EveryOtherReactorIdle
  <2> USE ServerAssumption
  <2> SUFFICES ASSUME ServerInv, CapacityInv, NReactors % 2 = 0, NEW c \in Clients, NEW d \in Clients,
                      fd_[c] # None, fd_[d] # None
               PROVE  LoopOf(c) % 2 = LoopOf(d) % 2
    BY DEF EveryOtherReactorIdle
  <2>1. fd_[c] \in Nat /\ fd_[d] \in Nat
    BY DEF ServerInv, TypeOK, Fds
  <2>2. fd_[c] % 2 = 0 /\ fd_[d] % 2 = 0
    BY DEF CapacityInv, DescriptorsEven
  <2>3. LoopOf(c) % 2 = 0 /\ LoopOf(d) % 2 = 0
    BY <2>1, <2>2, ParityOfRemainder DEF LoopOf
  <2>4. QED
    BY <2>3
<1>2. QED
  BY CapacityInvariant, ServerInvariant, <1>1, PTL
=============================================================================
