-------------------------- MODULE FormatterProofs ---------------------------
(***************************************************************************)
(* Proofs about Formatter, for every alphabet and patterns of any length.  *)
(***************************************************************************)
EXTENDS Formatter, SequenceLemmas, TLAPS

-----------------------------------------------------------------------------
(* What FlattenSeq computes.                                               *)

(* The recursion of FlattenSeq: f holds what the first k sequences of s    *)
(* make together.                                                          *)
Flattens(s, n, f) ==
    f = [k \in 1..n |-> IF k = 1 THEN s[k] ELSE f[k - 1] \o s[k]]

(* There is such a function for every n.                                   *)
LEMMA FlattensExists ==
  ASSUME NEW s, NEW n \in Nat
  PROVE  \E f : Flattens(s, n, f)
<1> DEFINE S == {m \in Nat : \E f : Flattens(s, m, f)}
<1>1. 0 \in S
  <2> DEFINE e == [k \in 1..0 |-> s]
  <2>1. Flattens(s, 0, e)
    BY DEF Flattens
  <2> HIDE DEF e
  <2>2. QED
    BY <2>1
<1>2. ASSUME NEW m \in Nat, m \in S PROVE m + 1 \in S
  <2>1. PICK g : Flattens(s, m, g)
    BY <1>2
  <2> DEFINE f == [k \in 1..(m + 1) |-> IF k = 1 THEN s[k] ELSE g[k - 1] \o s[k]]
  <2>2. \A k \in 1..m : f[k] = g[k]
    <3>1. \A k \in 1..m : k \in 1..(m + 1)
      OBVIOUS
    <3>2. \A k \in 1..m : g[k] = IF k = 1 THEN s[k] ELSE g[k - 1] \o s[k]
      BY <2>1 DEF Flattens
    <3>3. QED
      BY <3>1, <3>2
  <2>3. \A k \in 1..(m + 1) : k # 1 => k - 1 \in 1..m
    OBVIOUS
  <2>4. \A k \in 1..(m + 1) : f[k] = IF k = 1 THEN s[k] ELSE f[k - 1] \o s[k]
    BY <2>2, <2>3
  <2>5. Flattens(s, m + 1, f)
    <3>1. f = [k \in 1..(m + 1) |-> f[k]]
      OBVIOUS
    <3> HIDE DEF f
    <3>2. f = [k \in 1..(m + 1) |-> IF k = 1 THEN s[k] ELSE f[k - 1] \o s[k]]
      BY <2>4, <3>1
    <3>3. QED
      BY <3>2 DEF Flattens
  <2> HIDE DEF f
  <2>6. QED
    BY <2>5
<1> HIDE DEF S
<1>3. Nat \subseteq S
  BY <1>1, <1>2, SetInduction
<1>4. QED
  BY <1>3 DEF S

(* FlattenSeq is the last value of such a function.                        *)
LEMMA FlattenIsLast ==
  ASSUME NEW s, Len(s) \in Nat \ {0}
  PROVE  \E f : Flattens(s, Len(s), f) /\ FlattenSeq(s) = f[Len(s)]
<1> DEFINE f == CHOOSE g : Flattens(s, Len(s), g)
<1>1. Flattens(s, Len(s), f)
  BY FlattensExists
<1>2. FlattenSeq(s) = f[Len(s)]
  BY DEF FlattenSeq, Flattens
<1>3. QED
  BY <1>1, <1>2

(* The values of two such functions agree where the sequences do.          *)
LEMMA FlattensUnique ==
  ASSUME NEW s, NEW u, NEW n \in Nat \ {0}, NEW m \in Nat, n <= m, NEW f, NEW g,
         \A k \in 1..n : s[k] = u[k],
         Flattens(s, n, f), Flattens(u, m, g)
  PROVE  f[n] = g[n]
<1> DEFINE K == {k \in Nat : k \in 1..n => f[k] = g[k]}
<1>1. 0 \in K
  OBVIOUS
<1>2. ASSUME NEW k \in Nat, k \in K PROVE k + 1 \in K
  <2> SUFFICES ASSUME k + 1 \in 1..n PROVE f[k + 1] = g[k + 1]
    OBVIOUS
  <2>1. /\ k + 1 \in 1..m /\ s[k + 1] = u[k + 1] /\ (k + 1) - 1 = k
        /\ k + 1 # 1 => k \in 1..n
    OBVIOUS
  <2>2. f[k + 1] = IF k + 1 = 1 THEN s[k + 1] ELSE f[(k + 1) - 1] \o s[k + 1]
    BY DEF Flattens
  <2>3. g[k + 1] = IF k + 1 = 1 THEN u[k + 1] ELSE g[(k + 1) - 1] \o u[k + 1]
    BY <2>1 DEF Flattens
  <2>4. k + 1 # 1 => f[k] = g[k]
    BY <1>2, <2>1
  <2>5. QED
    BY <2>1, <2>2, <2>3, <2>4
<1> HIDE DEF K
<1>3. Nat \subseteq K
  BY <1>1, <1>2, SetInduction
<1>4. n \in 1..n
  OBVIOUS
<1>5. QED
  BY <1>3, <1>4 DEF K

(* Flattening sequences over S makes one over S.                           *)
LEMMA FlattenType ==
  ASSUME NEW S, NEW n \in Nat, NEW s \in [1..n -> Seq(S)]
  PROVE  s \in Seq(Seq(S)) /\ Len(s) = n /\ FlattenSeq(s) \in Seq(S)
<1>1. s \in Seq(Seq(S))
  BY SeqDef
<1>2. Len(s) = n
  BY <1>1, LenProperties
<1>3. CASE n = 0
  <2>1. s = <<>>
    BY <1>1, <1>2, <1>3, EmptySeq
  <2>2. FlattenSeq(s) = s
    BY <1>2, <1>3 DEF FlattenSeq
  <2>3. QED
    BY <1>1, <1>2, <2>1, <2>2, EmptySeq
<1>4. CASE n # 0
  <2>1. PICK f : Flattens(s, n, f) /\ FlattenSeq(s) = f[n]
    BY <1>2, <1>4, FlattenIsLast
  <2> DEFINE K == {k \in Nat : k \in 1..n => f[k] \in Seq(S)}
  <2>2. 0 \in K
    OBVIOUS
  <2>3. ASSUME NEW k \in Nat, k \in K PROVE k + 1 \in K
    <3> SUFFICES ASSUME k + 1 \in 1..n PROVE f[k + 1] \in Seq(S)
      OBVIOUS
    <3>1. s[k + 1] \in Seq(S) /\ (k + 1) - 1 = k /\ (k + 1 # 1 => f[k] \in Seq(S))
      BY <2>3
    <3>2. f[k + 1] = IF k + 1 = 1 THEN s[k + 1] ELSE f[(k + 1) - 1] \o s[k + 1]
      BY <2>1 DEF Flattens
    <3>3. k + 1 # 1 => f[k] \o s[k + 1] \in Seq(S)
      BY <3>1, ConcatProperties
    <3>4. QED
      BY <3>1, <3>2, <3>3
  <2> HIDE DEF K
  <2>4. Nat \subseteq K
    BY <2>2, <2>3, SetInduction
  <2>5. f[n] \in Seq(S)
    BY <1>4, <2>4 DEF K
  <2>6. QED
    BY <1>1, <1>2, <2>1, <2>5
<1>5. QED
  BY <1>3, <1>4

(* One sequence more adds its elements at the end.                         *)
LEMMA FlattenGrows ==
  ASSUME NEW s, NEW u, NEW n \in Nat \ {0}, Len(s) = n, Len(u) = n + 1,
         \A k \in 1..n : s[k] = u[k]
  PROVE  FlattenSeq(u) = FlattenSeq(s) \o u[n + 1]
<1>1. PICK m \in Nat \ {0} : m = n + 1 /\ n <= m /\ m # 1 /\ m - 1 = n /\ m \in 1..m
  OBVIOUS
<1>2. PICK f : Flattens(s, n, f) /\ FlattenSeq(s) = f[n]
  BY FlattenIsLast
<1>3. PICK g : Flattens(u, m, g) /\ FlattenSeq(u) = g[m]
  BY <1>1, FlattenIsLast
<1>4. f[n] = g[n]
  BY <1>1, <1>2, <1>3, FlattensUnique
<1>5. g[m] = IF m = 1 THEN u[m] ELSE g[m - 1] \o u[m]
  BY <1>1, <1>3 DEF Flattens
<1>6. QED
  BY <1>1, <1>2, <1>3, <1>4, <1>5

(* The same for sequences over S, the empty one included.                  *)
LEMMA FlattenStep ==
  ASSUME NEW S, NEW n \in Nat, NEW s \in [1..n -> Seq(S)], NEW u \in [1..(n + 1) -> Seq(S)],
         \A k \in 1..n : s[k] = u[k]
  PROVE  FlattenSeq(u) = FlattenSeq(s) \o u[n + 1]
<1>1. n + 1 \in Nat
  OBVIOUS
<1>2. Len(s) = n /\ s \in Seq(Seq(S)) /\ Len(u) = n + 1
  BY <1>1, FlattenType
<1>3. CASE n # 0
  BY <1>2, <1>3, FlattenGrows
<1>4. CASE n = 0
  <2>1. s = <<>> /\ FlattenSeq(s) = s
    BY <1>2, <1>4, EmptySeq DEF FlattenSeq
  <2>2. u[n + 1] \in Seq(S) /\ n + 1 = 1
    BY <1>4
  <2>3. <<>> \o u[n + 1] = u[n + 1]
    BY <2>2, ConcatEmptySeq
  <2>4. PICK g : Flattens(u, 1, g) /\ FlattenSeq(u) = g[1]
    BY <1>2, <2>2, FlattenIsLast
  <2>5. g[1] = u[1]
    BY <2>4 DEF Flattens
  <2>6. FlattenSeq(u) = u[n + 1]
    BY <2>2, <2>4, <2>5
  <2>7. QED
    BY <2>1, <2>3, <2>6
<1>5. QED
  BY <1>3, <1>4

-----------------------------------------------------------------------------
(* Runs of '%'.                                                            *)

(* A '%' opens a directive unless it stands behind one that does.          *)
LEMMA OpensAlternates ==
  ASSUME NEW k \in Nat \ {0}
  PROVE  /\ pattern_[k] # "%" => ~Opens(k)
         /\ pattern_[k] = "%" => (Opens(k) <=> ~Opens(k - 1))
<1> DEFINE R(m) == {j \in 1..m : \A h \in j..m : pattern_[h] = "%"}
<1>1. ASSUME pattern_[k] # "%" PROVE ~Opens(k)
  <2>1. R(k) = {}
    BY <1>1
  <2>2. Cardinality(R(k)) = 0
    BY <2>1, FS_EmptySet
  <2>3. RunOfPercents(k) = 0
    BY <2>2 DEF RunOfPercents
  <2>4. QED
    BY <2>3 DEF Opens
<1>2. ASSUME pattern_[k] = "%" PROVE Opens(k) <=> ~Opens(k - 1)
  <2>1. R(k) = R(k - 1) \cup {k} /\ k \notin R(k - 1)
    <3>1. \A j \in 1..k : j \in 1..(k - 1) \/ j = k
      OBVIOUS
    <3>2. ASSUME NEW j \in 1..(k - 1) PROVE j \in R(k) <=> j \in R(k - 1)
      <4>1. \A h : h \in j..k <=> h \in j..(k - 1) \/ h = k
        BY <3>2
      <4>2. QED
        BY <1>2, <3>2, <4>1
    <3>3. k \in R(k)
      BY <1>2
    <3>4. R(k - 1) \subseteq 1..(k - 1) /\ k \notin 1..(k - 1)
      OBVIOUS
    <3> HIDE DEF R
    <3>5. R(k) \subseteq 1..k
      BY DEF R
    <3>6. QED
      BY <3>1, <3>2, <3>3, <3>4, <3>5
  <2>2. IsFiniteSet(R(k - 1)) /\ Cardinality(R(k - 1)) \in Nat
    <3>1. IsFiniteSet(1..(k - 1)) /\ R(k - 1) \subseteq 1..(k - 1)
      BY FS_Interval
    <3> HIDE DEF R
    <3>2. QED
      BY <3>1, FS_Subset, FS_CardinalityType
  <2>3. Cardinality(R(k)) = Cardinality(R(k - 1)) + 1
    <3> HIDE DEF R
    <3>1. QED
      BY <2>1, <2>2, FS_AddElement
  <2>4. PICK n \in Nat : n = RunOfPercents(k - 1) /\ RunOfPercents(k) = n + 1
    BY <2>2, <2>3 DEF RunOfPercents
  <2>5. (n + 1) % 2 = 1 <=> ~(n % 2 = 1)
    BY <2>4
  <2>6. CASE k = 1
    <3>1. R(0) = {}
      OBVIOUS
    <3>2. n = 0
      BY <2>4, <2>6, <3>1, FS_EmptySet DEF RunOfPercents
    <3>3. QED
      BY <2>4, <2>6, <3>2 DEF Opens
  <2>7. CASE k # 1
    BY <2>4, <2>5, <2>7 DEF Opens
  <2>8. QED
    BY <2>6, <2>7
<1>3. QED
  BY <1>1, <1>2

-----------------------------------------------------------------------------
(* What items print.                                                       *)

Kinds == {"Message", "Level", "MsElapse", "FileName", "ThreadId", "NewLine", "Time", "LineNum"}

Tokens ==
    Alphabet \cup
    {"<wrong format>", "INFO", "DEBUG", "WARN", "ERROR", "FATAL", "UNKNOWN", "ms", "id",
     "event.ms_elapse_", "event.thread_id_", "event.msg_", "event.line_num_",
     "event.file_name_", "event.time_", "endl"}

Items == [kind : {"String"} \cup Kinds, str : Seq(Tokens)]

(* The letters' items are of the kinds named.                              *)
LEMMA LettersHaveKinds ==
  /\ \A x \in DOMAIN format_item_maps_ : format_item_maps_[x] \in Kinds
  /\ Kinds \subseteq Range(format_item_maps_) /\ "String" \notin Kinds
  /\ "%" \notin DOMAIN format_item_maps_
<1>1. DOMAIN format_item_maps_ = {"m", "p", "r", "c", "t", "n", "d", "f", "l"}
  BY DEF format_item_maps_
<1>2. /\ format_item_maps_["m"] = "Message" /\ format_item_maps_["p"] = "Level"
      /\ format_item_maps_["r"] = "MsElapse" /\ format_item_maps_["c"] = "FileName"
      /\ format_item_maps_["t"] = "ThreadId" /\ format_item_maps_["n"] = "NewLine"
      /\ format_item_maps_["d"] = "Time" /\ format_item_maps_["f"] = "FileName"
      /\ format_item_maps_["l"] = "LineNum"
  BY DEF format_item_maps_
<1>3. \A x \in DOMAIN format_item_maps_ : format_item_maps_[x] \in Kinds
  BY <1>1, <1>2 DEF Kinds
<1>4. Kinds \subseteq Range(format_item_maps_)
  BY <1>1, <1>2 DEF Kinds, Range
<1>5. QED
  BY <1>1, <1>3, <1>4 DEF Kinds

(* Every item prints tokens; one for text prints its text.                 *)
LEMMA ItemFormatType ==
  ASSUME NEW item \in Items, NEW level \in 1..6
  PROVE  /\ ItemFormat(item, level) \in Seq(Tokens)
         /\ item.kind = "String" => ItemFormat(item, level) = item.str
<1>0. item.kind \in {"String"} \cup Kinds /\ item.str \in Seq(Tokens)
  BY DEF Items
<1>1. item.kind = "String" => ItemFormat(item, level) = item.str
  BY DEF ItemFormat
<1>2. LevelToString(level) \in Tokens
  <2>1. level = 1 \/ level = 2 \/ level = 3 \/ level = 4 \/ level = 5 \/ level = 6
    OBVIOUS
  <2>2. LevelToString(level) \in {"INFO", "DEBUG", "WARN", "ERROR", "FATAL", "UNKNOWN"}
    BY <2>1 DEF LevelToString
  <2>3. QED
    BY <2>2 DEF Tokens
<1>3. CASE item.kind \in Kinds
  <2>1. /\ <<LevelToString(level)>> \in Seq(Tokens)
        /\ <<"ms", "event.ms_elapse_">> \in Seq(Tokens)
        /\ <<"id", "event.thread_id_">> \in Seq(Tokens)
        /\ <<"event.msg_">> \in Seq(Tokens) /\ <<"event.line_num_">> \in Seq(Tokens)
        /\ <<"event.file_name_">> \in Seq(Tokens) /\ <<"event.time_">> \in Seq(Tokens)
        /\ <<"endl">> \in Seq(Tokens)
    <3>1. \A x, y \in Tokens : <<x>> \in Seq(Tokens) /\ <<x, y>> \in Seq(Tokens)
      OBVIOUS
    <3>2. /\ "ms" \in Tokens /\ "event.ms_elapse_" \in Tokens /\ "id" \in Tokens
          /\ "event.thread_id_" \in Tokens /\ "event.msg_" \in Tokens /\ "endl" \in Tokens
          /\ "event.line_num_" \in Tokens /\ "event.file_name_" \in Tokens
          /\ "event.time_" \in Tokens
      BY DEF Tokens
    <3>3. QED
      BY <1>2, <3>1, <3>2
  <2>2. QED
    BY <1>3, <2>1 DEF ItemFormat, Kinds
<1>4. QED
  BY <1>0, <1>1, <1>3

(* An item more prints what it prints behind the others.                   *)
LEMMA FormatAppend ==
  ASSUME NEW items \in Seq(Items), NEW item \in Items, NEW level \in 1..6
  PROVE  /\ Format(items, level) \in Seq(Tokens)
         /\ Format(Append(items, item), level) = Format(items, level) \o ItemFormat(item, level)
<1> DEFINE s == [k \in 1..Len(items) |-> ItemFormat(items[k], level)]
           a == Append(items, item)
           u == [k \in 1..Len(a) |-> ItemFormat(a[k], level)]
           n == Len(items)
<1>1. /\ n \in Nat /\ Len(a) = n + 1 /\ a[n + 1] = item
      /\ \A k \in 1..n : a[k] = items[k] /\ items[k] \in Items
  BY LenProperties, AppendProperties, ElementOfSeq
<1>2. \A k \in 1..n : ItemFormat(items[k], level) \in Seq(Tokens)
  BY <1>1, ItemFormatType
<1>3. s \in [1..n -> Seq(Tokens)]
  BY <1>2
<1>4. ItemFormat(item, level) \in Seq(Tokens)
  BY ItemFormatType
<1>5. \A k \in 1..(n + 1) : k \in 1..n \/ k = n + 1
  BY <1>1
<1> HIDE DEF a
<1>6. \A k \in 1..(n + 1) : ItemFormat(a[k], level) \in Seq(Tokens)
  <2>1. \A k \in 1..n : ItemFormat(a[k], level) \in Seq(Tokens)
    BY <1>1, <1>2
  <2>2. ItemFormat(a[n + 1], level) \in Seq(Tokens)
    BY <1>1, <1>4
  <2>3. QED
    BY <1>5, <2>1, <2>2
<1>7. u \in [1..(n + 1) -> Seq(Tokens)]
  BY <1>1, <1>6
<1>8. \A k \in 1..n : s[k] = u[k]
  <2>1. \A k \in 1..n : k \in 1..Len(a)
    BY <1>1
  <2>2. QED
    BY <1>1, <2>1
<1>9. u[n + 1] = ItemFormat(item, level)
  <2>1. n + 1 \in 1..Len(a)
    BY <1>1
  <2>2. QED
    BY <1>1, <2>1
<1>10. Format(items, level) = FlattenSeq(s) /\ Format(a, level) = FlattenSeq(u)
  BY DEF Format
<1> HIDE DEF s, u, n
<1>11. FlattenSeq(s) \in Seq(Tokens) /\ FlattenSeq(u) = FlattenSeq(s) \o u[n + 1]
  <2>1. n \in Nat
    BY <1>1
  <2>2. FlattenSeq(s) \in Seq(Tokens)
    BY <1>3, <2>1, FlattenType
  <2>3. FlattenSeq(u) = FlattenSeq(s) \o u[n + 1]
    BY <1>3, <1>7, <1>8, <2>1, FlattenStep
  <2>4. QED
    BY <2>2, <2>3
<1>12. FlattenSeq(u) = FlattenSeq(s) \o ItemFormat(item, level)
  BY <1>9, <1>11
<1>13. Format(a, level) = Format(items, level) \o ItemFormat(item, level)
  BY <1>10, <1>12
<1>14. Format(items, level) \in Seq(Tokens)
  BY <1>10, <1>11
<1>15. QED
  BY <1>13, <1>14 DEF a

-----------------------------------------------------------------------------
(* The invariant.                                                          *)

(* What the first k characters of the pattern stand for.                   *)
Partial(k, level) == FlattenSeq([j \in 1..k |-> Contribution(j, level)])

UnknownAt(k) == Opens(k - 1) /\ pattern_[k] \notin DOMAIN format_item_maps_ \cup {"%"}

AtTheEnd == i > Len(pattern_) \/ (i = Len(pattern_) /\ pattern_[i] = "%")

(* An item has text if and only if it is for text.                         *)
ProperItems == {item \in Items : item.kind = "String" <=> item.str # <<>>}

ParseTypes ==
    /\ pattern_ \in Seq(Alphabet)
    /\ i \in 1..(Len(pattern_) + 1)
    /\ nstr \in Seq(Alphabet)
    /\ format_items_ \in Seq(ProperItems)
    /\ error_ \in BOOLEAN
    /\ pc \in {"parse", "flush", "done"}

(* Parse stands between two characters, the second of which is not the     *)
(* letter of a directive; the items made so far and the text since the     *)
(* last one print what the characters passed stand for, and error_ tells   *)
(* whether one of them was an unknown letter.                              *)
ParseInv ==
    /\ ParseTypes
    /\ ~Opens(i - 1)
    /\ pc # "parse" => AtTheEnd
    /\ pc # "done" =>
          \A level \in 1..6 : Format(format_items_, level) \o nstr = Partial(i - 1, level)
    /\ error_ <=> \E k \in 2..(i - 1) : UnknownAt(k)
    /\ FormatExpandsPattern

(* What a character stands for is a sequence of tokens.                    *)
LEMMA ContributionType ==
  ASSUME pattern_ \in Seq(Alphabet), NEW k \in 1..Len(pattern_), NEW level \in 1..6
  PROVE  /\ Contribution(k, level) \in Seq(Tokens)
         /\ pattern_[k] = "%" /\ Opens(k) => Contribution(k, level) = <<>>
         /\ pattern_[k] = "%" /\ ~Opens(k) => Contribution(k, level) = <<"%">>
         /\ pattern_[k] # "%" /\ ~Opens(k - 1) => Contribution(k, level) = <<pattern_[k]>>
         /\ pattern_[k] # "%" /\ Opens(k - 1) /\ pattern_[k] \in DOMAIN format_item_maps_ =>
               Contribution(k, level) = ItemFormat(FieldItem(format_item_maps_[pattern_[k]]), level)
         /\ pattern_[k] # "%" /\ Opens(k - 1) /\ pattern_[k] \notin DOMAIN format_item_maps_ =>
               Contribution(k, level) = WrongFormat
<1>1. pattern_[k] \in Tokens /\ "%" \in Tokens /\ "<wrong format>" \in Tokens
  BY FormatterAssumption, ElementOfSeq DEF Tokens
<1>2. \A x \in Tokens : <<x>> \in Seq(Tokens)
  OBVIOUS
<1>3. <<>> \in Seq(Tokens)
  BY EmptySeq
<1>4. WrongFormat \in Seq(Tokens)
  BY <1>1, <1>2 DEF WrongFormat
<1>5. \A x \in DOMAIN format_item_maps_ : ItemFormat(FieldItem(format_item_maps_[x]), level) \in Seq(Tokens)
  <2>1. \A x \in DOMAIN format_item_maps_ : FieldItem(format_item_maps_[x]) \in Items
    BY <1>3, LettersHaveKinds DEF FieldItem, Items
  <2>2. QED
    BY <2>1, ItemFormatType
<1>6. CASE pattern_[k] = "%" /\ Opens(k)
  BY <1>3, <1>6 DEF Contribution
<1>7. CASE pattern_[k] = "%" /\ ~Opens(k)
  BY <1>1, <1>2, <1>7 DEF Contribution
<1>8. CASE pattern_[k] # "%" /\ ~Opens(k - 1)
  BY <1>1, <1>2, <1>8 DEF Contribution
<1>9. CASE pattern_[k] # "%" /\ Opens(k - 1)
  <2>1. Contribution(k, level) =
           IF pattern_[k] \in DOMAIN format_item_maps_
           THEN ItemFormat(FieldItem(format_item_maps_[pattern_[k]]), level)
           ELSE WrongFormat
    BY <1>9 DEF Contribution
  <2>2. QED
    BY <1>4, <1>5, <1>9, <2>1
<1>10. QED
  BY <1>6, <1>7, <1>8, <1>9

(* What k characters stand for, and what one more adds.                    *)
LEMMA PartialStep ==
  ASSUME pattern_ \in Seq(Alphabet), NEW level \in 1..6, NEW k \in 0..Len(pattern_)
  PROVE  /\ Partial(k, level) \in Seq(Tokens)
         /\ k < Len(pattern_) =>
               Partial(k + 1, level) = Partial(k, level) \o Contribution(k + 1, level)
<1>1. Len(pattern_) \in Nat /\ k \in Nat
  BY LenProperties
<1> DEFINE F(n) == [j \in 1..n |-> Contribution(j, level)]
<1>2. ASSUME NEW n \in 0..Len(pattern_) PROVE F(n) \in [1..n -> Seq(Tokens)]
  <2>1. \A j \in 1..n : j \in 1..Len(pattern_)
    BY <1>1
  <2>2. \A j \in 1..n : Contribution(j, level) \in Seq(Tokens)
    BY <2>1, ContributionType
  <2>3. QED
    BY <2>2
<1>3. Partial(k, level) = FlattenSeq(F(k)) /\ Partial(k + 1, level) = FlattenSeq(F(k + 1))
  BY DEF Partial
<1>4. Partial(k, level) \in Seq(Tokens)
  <2>1. F(k) \in [1..k -> Seq(Tokens)]
    BY <1>2
  <2> HIDE DEF F
  <2>2. k \in Nat
    BY <1>1
  <2>3. FlattenSeq(F(k)) \in Seq(Tokens)
    BY <2>1, <2>2, FlattenType
  <2>4. QED
    BY <1>3, <2>3
<1>5. ASSUME k < Len(pattern_)
      PROVE  Partial(k + 1, level) = Partial(k, level) \o Contribution(k + 1, level)
  <2>1. k + 1 \in 0..Len(pattern_)
    BY <1>1, <1>5
  <2>2. F(k) \in [1..k -> Seq(Tokens)] /\ F(k + 1) \in [1..(k + 1) -> Seq(Tokens)]
    BY <1>2, <2>1
  <2>3. \A j \in 1..k : F(k)[j] = F(k + 1)[j]
    <3>1. \A j \in 1..k : j \in 1..(k + 1)
      BY <1>1
    <3>2. QED
      BY <3>1
  <2>4. F(k + 1)[k + 1] = Contribution(k + 1, level)
    BY <1>1
  <2> HIDE DEF F
  <2>5. FlattenSeq(F(k + 1)) = FlattenSeq(F(k)) \o F(k + 1)[k + 1]
    BY <1>1, <2>2, <2>3, FlattenStep
  <2>6. QED
    BY <1>3, <2>4, <2>5
<1>6. QED
  BY <1>4, <1>5

(* Nothing stands for nothing, and all characters for the expansion.       *)
LEMMA PartialEnds ==
  ASSUME pattern_ \in Seq(Alphabet), NEW level \in 1..6
  PROVE  /\ Partial(0, level) = <<>>
         /\ Partial(Len(pattern_), level) = Expansion(level)
<1> DEFINE e == [j \in 1..0 |-> Contribution(j, level)]
<1>1. e \in [1..0 -> Seq(Tokens)]
  OBVIOUS
<1> HIDE DEF e
<1>2. e \in Seq(Seq(Tokens)) /\ Len(e) = 0
  BY <1>1, FlattenType
<1>3. e = <<>> /\ FlattenSeq(e) = e
  BY <1>2, EmptySeq DEF FlattenSeq
<1>4. Partial(0, level) = FlattenSeq(e)
  BY DEF Partial, e
<1>5. Partial(Len(pattern_), level) = Expansion(level)
  BY DEF Partial, Expansion
<1>6. QED
  BY <1>3, <1>4, <1>5

(* The character that Parse looks at adds what it stands for.              *)
LEMMA NextPartial ==
  ASSUME pattern_ \in Seq(Alphabet), NEW level \in 1..6, NEW k \in 1..Len(pattern_)
  PROVE  /\ Partial(k - 1, level) \in Seq(Tokens)
         /\ Partial(k, level) = Partial(k - 1, level) \o Contribution(k, level)
<1>1. Len(pattern_) \in Nat
  BY LenProperties
<1>2. PICK n \in 0..Len(pattern_) : n = k - 1 /\ n + 1 = k /\ n < Len(pattern_)
  BY <1>1
<1>3. Partial(n, level) \in Seq(Tokens) /\ Partial(n + 1, level) = Partial(n, level) \o Contribution(n + 1, level)
  BY <1>2, PartialStep
<1>4. QED
  BY <1>2, <1>3

(* Items and the text gathered print tokens.                               *)
LEMMA PrintsTokens ==
  ASSUME nstr \in Seq(Alphabet), format_items_ \in Seq(ProperItems), NEW level \in 1..6
  PROVE  /\ Format(format_items_, level) \in Seq(Tokens)
         /\ nstr \in Seq(Tokens) /\ format_items_ \in Seq(Items)
         /\ Alphabet \subseteq Tokens
<1>1. Alphabet \subseteq Tokens /\ ProperItems \subseteq Items
  BY DEF Tokens, ProperItems
<1>2. nstr \in Seq(Tokens) /\ format_items_ \in Seq(Items)
  BY <1>1, SeqOfSubset
<1>3. [kind |-> "String", str |-> nstr] \in Items
  BY <1>2 DEF Items
<1>4. QED
  BY <1>1, <1>2, <1>3, FormatAppend

(* The text gathered, made an item unless it is empty, prints itself.      *)
LEMMA FlushPrints ==
  ASSUME nstr \in Seq(Alphabet), format_items_ \in Seq(ProperItems)
  PROVE  /\ format_items_ \o Flushed \in Seq(ProperItems)
         /\ \A level \in 1..6 :
               /\ Format(format_items_, level) \in Seq(Tokens)
               /\ Format(format_items_ \o Flushed, level) = Format(format_items_, level) \o nstr
<1>1. nstr \in Seq(Tokens) /\ format_items_ \in Seq(Items)
  <2>1. Alphabet \subseteq Tokens /\ ProperItems \subseteq Items
    BY DEF Tokens, ProperItems
  <2>2. QED
    BY <2>1, SeqOfSubset
<1>2. PICK it \in Items : it = StringFormatItem(nstr)
  BY <1>1 DEF StringFormatItem, Items
<1>3. it.kind = "String" /\ it.str = nstr
  BY <1>2 DEF StringFormatItem
<1>4. \A level \in 1..6 :
         /\ Format(format_items_, level) \in Seq(Tokens)
         /\ Format(Append(format_items_, it), level) = Format(format_items_, level) \o ItemFormat(it, level)
         /\ ItemFormat(it, level) = nstr
  BY <1>1, <1>3, FormatAppend, ItemFormatType
<1>5. CASE nstr = <<>>
  <2>1. Flushed = <<>>
    BY <1>5 DEF Flushed
  <2>2. format_items_ \o <<>> = format_items_
    BY <1>1, ConcatEmptySeq
  <2>3. \A level \in 1..6 : Format(format_items_, level) \o <<>> = Format(format_items_, level)
    BY <1>4, ConcatEmptySeq
  <2>4. QED
    BY <1>4, <1>5, <2>1, <2>2, <2>3
<1>6. CASE nstr # <<>>
  <2>1. Flushed = <<it>>
    BY <1>2, <1>6 DEF Flushed
  <2>2. it \in ProperItems
    BY <1>3, <1>6 DEF ProperItems
  <2>3. /\ format_items_ \o <<it>> = Append(format_items_, it)
        /\ Append(format_items_, it) \in Seq(ProperItems)
    BY <2>2, AppendProperties, AppendIsConcat
  <2>4. QED
    BY <1>4, <2>1, <2>3
<1>7. QED
  BY <1>5, <1>6

-----------------------------------------------------------------------------
(* The invariant holds at first, and every step preserves it.              *)

(* The invariant after a step, told with the reference before it.          *)
LEMMA ParseInvNext ==
  ASSUME pattern_' = pattern_,
         ParseTypes',
         ~Opens(i' - 1),
         pc' # "parse" => i' > Len(pattern_) \/ (i' = Len(pattern_) /\ pattern_[i'] = "%"),
         pc' # "done" =>
            \A level \in 1..6 : Format(format_items_', level) \o nstr' = Partial(i' - 1, level),
         error_' <=> \E k \in 2..(i' - 1) : UnknownAt(k),
         pc' = "done" => \A level \in 1..6 : Format(format_items_', level) = Expansion(level)
  PROVE  ParseInv'
<1>1. (~Opens(i - 1))'
  <2>1. Opens(i - 1)' <=> Opens(i' - 1)
    BY DEF Opens, RunOfPercents
  <2>2. QED
    BY <2>1
<1>2. (pc # "parse" => AtTheEnd)'
  BY DEF AtTheEnd
<1>3. (pc # "done" =>
          \A level \in 1..6 : Format(format_items_, level) \o nstr = Partial(i - 1, level))'
  <2>1. ASSUME NEW level \in 1..6 PROVE Partial(i - 1, level)' = Partial(i' - 1, level)
    BY ZenonT(60) DEF Partial, Contribution, Opens, RunOfPercents
  <2>2. ASSUME NEW level \in 1..6 PROVE Format(format_items_, level)' = Format(format_items_', level)
    BY DEF Format
  <2>3. QED
    BY <2>1, <2>2
<1>4. (error_ <=> \E k \in 2..(i - 1) : UnknownAt(k))'
  <2>1. ASSUME NEW k PROVE UnknownAt(k)' <=> UnknownAt(k)
    BY DEF UnknownAt, Opens, RunOfPercents
  <2>2. QED
    BY <2>1
<1>5. FormatExpandsPattern'
  <2>1. ASSUME NEW level \in 1..6 PROVE Expansion(level)' = Expansion(level)
    BY ZenonT(60) DEF Expansion, Contribution, Opens, RunOfPercents
  <2>2. ASSUME NEW level \in 1..6 PROVE Format(format_items_, level)' = Format(format_items_', level)
    BY DEF Format
  <2>3. QED
    BY <2>1, <2>2 DEF FormatExpandsPattern
<1>6. QED
  BY <1>1, <1>2, <1>3, <1>4, <1>5 DEF ParseInv

(* The constructor starts Parse at the first character with nothing made.  *)
LEMMA InitParseInv == Init => ParseInv
<1> SUFFICES ASSUME Init PROVE ParseInv
  OBVIOUS
<1>0. /\ i = 1 /\ nstr = <<>> /\ format_items_ = <<>> /\ error_ = FALSE /\ pc = "parse"
      /\ pattern_ \in BoundedSeq(Alphabet, MaxLen)
  BY DEF Init
<1>1. pattern_ \in Seq(Alphabet)
  <2>1. PICK n \in 0..MaxLen : pattern_ \in [1..n -> Alphabet]
    BY <1>0 DEF BoundedSeq, SeqOf
  <2>2. n \in Nat
    BY FormatterAssumption
  <2>3. QED
    BY <2>1, <2>2, SeqDef
<1>2. ParseTypes
  <2>1. i \in 1..(Len(pattern_) + 1)
    BY <1>0, <1>1, LenProperties
  <2>2. nstr \in Seq(Alphabet) /\ format_items_ \in Seq(ProperItems)
    BY <1>0, EmptySeq
  <2>3. QED
    BY <1>0, <1>1, <2>1, <2>2 DEF ParseTypes
<1>3. ~Opens(i - 1)
  BY <1>0 DEF Opens
<1>4. ASSUME NEW level \in 1..6
      PROVE  Format(format_items_, level) \o nstr = Partial(i - 1, level)
  <2> DEFINE e == [k \in 1..0 |-> ItemFormat(format_items_[k], level)]
  <2>1. e \in [1..0 -> Seq(Tokens)]
    OBVIOUS
  <2>2. Format(format_items_, level) = FlattenSeq(e)
    BY <1>0, EmptySeq DEF Format
  <2> HIDE DEF e
  <2>3. e \in Seq(Seq(Tokens)) /\ Len(e) = 0
    BY <2>1, FlattenType
  <2>4. e = <<>> /\ FlattenSeq(e) = e
    BY <2>3, EmptySeq DEF FlattenSeq
  <2>5. Partial(0, level) = <<>>
    BY <1>1, PartialEnds
  <2>6. i - 1 = 0
    BY <1>0
  <2>7. QED
    BY <1>0, <2>2, <2>4, <2>5, <2>6, ConcatEmptySeq, EmptySeq
<1>5. error_ <=> \E k \in 2..(i - 1) : UnknownAt(k)
  BY <1>0
<1>6. QED
  BY <1>0, <1>2, <1>3, <1>4, <1>5 DEF ParseInv, FormatExpandsPattern

(* A character of literal text joins the text gathered.                    *)
LEMMA LiteralParseInv ==
  ASSUME ParseInv, Literal
  PROVE  ParseInv'
<1>0. /\ pc = "parse" /\ i <= Len(pattern_) /\ pattern_[i] # "%"
      /\ nstr' = Append(nstr, pattern_[i]) /\ i' = i + 1
      /\ pattern_' = pattern_ /\ format_items_' = format_items_ /\ error_' = error_ /\ pc' = pc
  BY DEF Literal
<1>1. /\ pattern_ \in Seq(Alphabet) /\ nstr \in Seq(Alphabet)
      /\ format_items_ \in Seq(ProperItems) /\ error_ \in BOOLEAN
  BY DEF ParseInv, ParseTypes
<1>2. /\ Len(pattern_) \in Nat /\ i \in Nat \ {0} /\ i \in 1..Len(pattern_)
      /\ i' - 1 = i /\ i' \in 1..(Len(pattern_) + 1)
  BY <1>0, <1>1, LenProperties DEF ParseInv, ParseTypes
<1>3. pattern_[i] \in Alphabet
  BY <1>1, <1>2, ElementOfSeq
<1>4. ParseTypes'
  BY <1>0, <1>1, <1>2, <1>3, AppendProperties DEF ParseTypes
<1>5. ~Opens(i - 1) /\ ~Opens(i)
  BY <1>0, <1>2, OpensAlternates DEF ParseInv
<1>6. ASSUME NEW level \in 1..6
      PROVE  Format(format_items_', level) \o nstr' = Partial(i' - 1, level)
  <2>1. Contribution(i, level) = <<pattern_[i]>>
    BY <1>0, <1>1, <1>2, <1>5, ContributionType
  <2>2. Partial(i, level) = Partial(i - 1, level) \o <<pattern_[i]>> /\ Partial(i - 1, level) \in Seq(Tokens)
    BY <1>1, <1>2, <2>1, NextPartial
  <2>3. Format(format_items_, level) \in Seq(Tokens) /\ nstr \in Seq(Tokens) /\ pattern_[i] \in Tokens
    BY <1>1, <1>3, PrintsTokens
  <2>4. Format(format_items_, level) \o Append(nstr, pattern_[i])
           = Append(Format(format_items_, level) \o nstr, pattern_[i])
    BY <2>3, AppendToSecond
  <2>5. Format(format_items_, level) \o nstr = Partial(i - 1, level)
    BY <1>0 DEF ParseInv
  <2>6. Append(Partial(i - 1, level), pattern_[i]) = Partial(i - 1, level) \o <<pattern_[i]>>
    BY <2>2, <2>3, AppendIsConcat
  <2>7. QED
    BY <1>0, <1>2, <2>2, <2>4, <2>5, <2>6
<1>7. error_' <=> \E k \in 2..(i' - 1) : UnknownAt(k)
  <2>1. \A k \in 2..i : k \in 2..(i - 1) \/ k = i
    BY <1>2
  <2>2. \A k \in 2..(i - 1) : k \in 2..i
    BY <1>2
  <2>3. ~UnknownAt(i)
    BY <1>5 DEF UnknownAt
  <2>4. error_ <=> \E k \in 2..(i - 1) : UnknownAt(k)
    BY DEF ParseInv
  <2>5. QED
    BY <1>0, <1>2, <2>1, <2>2, <2>3, <2>4
<1>8. QED
  BY <1>0, <1>2, <1>4, <1>5, <1>6, <1>7, ParseInvNext

(* Of "%%" the first half stands for nothing, the second for a '%'.        *)
LEMMA EscapeParseInv ==
  ASSUME ParseInv, Escape
  PROVE  ParseInv'
<1>0. /\ pc = "parse" /\ i < Len(pattern_) /\ pattern_[i] = "%" /\ pattern_[i + 1] = "%"
      /\ nstr' = Append(nstr, "%") /\ i' = i + 2
      /\ pattern_' = pattern_ /\ format_items_' = format_items_ /\ error_' = error_ /\ pc' = pc
  BY DEF Escape, BehindEscape
<1>1. /\ pattern_ \in Seq(Alphabet) /\ nstr \in Seq(Alphabet)
      /\ format_items_ \in Seq(ProperItems) /\ error_ \in BOOLEAN
  BY DEF ParseInv, ParseTypes
<1>2. /\ Len(pattern_) \in Nat /\ i \in Nat \ {0} /\ i \in 1..Len(pattern_)
      /\ i + 1 \in Nat \ {0} /\ i + 1 \in 1..Len(pattern_) /\ (i + 1) - 1 = i
      /\ i' - 1 = i + 1 /\ i' \in 1..(Len(pattern_) + 1)
  <2>1. Len(pattern_) \in Nat /\ i \in 1..(Len(pattern_) + 1)
    BY <1>1, LenProperties DEF ParseInv, ParseTypes
  <2>2. QED
    BY <1>0, <2>1
<1>4. ParseTypes'
  BY <1>0, <1>1, <1>2, FormatterAssumption, AppendProperties DEF ParseTypes
<1>5. ~Opens(i - 1) /\ Opens(i) /\ ~Opens(i + 1)
  <2>1. ~Opens(i - 1)
    BY DEF ParseInv
  <2>2. Opens(i)
    BY <1>0, <1>2, <2>1, OpensAlternates
  <2>3. ~Opens(i + 1)
    BY <1>0, <1>2, <2>2, OpensAlternates
  <2>4. QED
    BY <2>1, <2>2, <2>3
<1>6. ASSUME NEW level \in 1..6
      PROVE  Format(format_items_', level) \o nstr' = Partial(i' - 1, level)
  <2>1. Contribution(i, level) = <<>> /\ Contribution(i + 1, level) = <<"%">>
    BY <1>0, <1>1, <1>2, <1>5, ContributionType
  <2>2. Partial(i, level) = Partial(i - 1, level) \o <<>> /\ Partial(i - 1, level) \in Seq(Tokens)
    BY <1>1, <1>2, <2>1, NextPartial
  <2>3. Partial(i, level) = Partial(i - 1, level)
    BY <2>2, ConcatEmptySeq
  <2>4. Partial(i + 1, level) = Partial(i, level) \o <<"%">>
    BY <1>1, <1>2, <2>1, NextPartial
  <2>5. Format(format_items_, level) \in Seq(Tokens) /\ nstr \in Seq(Tokens) /\ "%" \in Tokens
    BY <1>1, FormatterAssumption, PrintsTokens
  <2>6. Format(format_items_, level) \o Append(nstr, "%")
           = Append(Format(format_items_, level) \o nstr, "%")
    BY <2>5, AppendToSecond
  <2>7. Format(format_items_, level) \o nstr = Partial(i - 1, level)
    BY <1>0 DEF ParseInv
  <2>8. Append(Partial(i - 1, level), "%") = Partial(i - 1, level) \o <<"%">>
    BY <2>2, <2>5, AppendIsConcat
  <2>9. QED
    BY <1>0, <1>2, <2>3, <2>4, <2>6, <2>7, <2>8
<1>7. error_' <=> \E k \in 2..(i' - 1) : UnknownAt(k)
  <2>1. \A k \in 2..(i + 1) : k \in 2..(i - 1) \/ k = i \/ k = i + 1
    BY <1>2
  <2>2. \A k \in 2..(i - 1) : k \in 2..(i + 1)
    BY <1>2
  <2>3. ~UnknownAt(i) /\ ~UnknownAt(i + 1)
    BY <1>0 DEF UnknownAt
  <2>4. error_ <=> \E k \in 2..(i - 1) : UnknownAt(k)
    BY DEF ParseInv
  <2>5. QED
    BY <1>0, <1>2, <2>1, <2>2, <2>3, <2>4
<1>8. QED
  BY <1>0, <1>2, <1>4, <1>5, <1>6, <1>7, ParseInvNext

(* The item of a directive, for a known letter and for an unknown one,     *)
(* prints what the letter stands for.                                      *)
LEMMA DirectivePrints ==
  ASSUME pattern_ \in Seq(Alphabet), NEW k \in 1..Len(pattern_), Opens(k - 1), pattern_[k] # "%",
         NEW item,
         item = IF pattern_[k] \in DOMAIN format_item_maps_
                THEN FieldItem(format_item_maps_[pattern_[k]]) ELSE StringFormatItem(WrongFormat)
  PROVE  /\ item \in ProperItems
         /\ \A level \in 1..6 :
               /\ Contribution(k, level) = ItemFormat(item, level)
               /\ ItemFormat(item, level) \in Seq(Tokens)
<1>0. <<>> \in Seq(Tokens)
  BY EmptySeq
<1>1. WrongFormat \in Seq(Tokens) /\ WrongFormat # <<>>
  <2>1. \A x \in Tokens : <<x>> \in Seq(Tokens) /\ <<x>> # <<>>
    OBVIOUS
  <2>2. "<wrong format>" \in Tokens
    BY DEF Tokens
  <2>3. QED
    BY <2>1, <2>2 DEF WrongFormat
<1>2. CASE pattern_[k] \in DOMAIN format_item_maps_
  <2>1. /\ item.kind \in Kinds /\ item.kind # "String" /\ item.str = <<>>
        /\ item = [kind |-> format_item_maps_[pattern_[k]], str |-> <<>>]
    BY <1>2, LettersHaveKinds DEF FieldItem
  <2>2. item \in ProperItems
    BY <1>0, <1>2, <2>1, LettersHaveKinds DEF ProperItems, Items
  <2>3. \A level \in 1..6 : Contribution(k, level) = ItemFormat(item, level)
    BY <1>2, ContributionType
  <2>4. \A level \in 1..6 : ItemFormat(item, level) \in Seq(Tokens)
    BY <2>2, ItemFormatType DEF ProperItems
  <2>5. QED
    BY <2>2, <2>3, <2>4
<1>3. CASE pattern_[k] \notin DOMAIN format_item_maps_
  <2>1. /\ item.kind = "String" /\ item.str = WrongFormat
        /\ item = [kind |-> "String", str |-> WrongFormat]
    BY <1>3 DEF StringFormatItem
  <2>2. item \in ProperItems
    BY <1>1, <2>1 DEF ProperItems, Items
  <2>3. \A level \in 1..6 : Contribution(k, level) = WrongFormat
    BY <1>3, ContributionType
  <2>4. \A level \in 1..6 : ItemFormat(item, level) \in Seq(Tokens) /\ ItemFormat(item, level) = WrongFormat
    BY <2>1, <2>2, ItemFormatType DEF ProperItems
  <2>5. QED
    BY <2>2, <2>3, <2>4
<1>4. QED
  BY <1>2, <1>3

(* A directive closes the text before it and adds an item of its own.      *)
LEMMA DirectiveParseInv ==
  ASSUME ParseInv, Directive
  PROVE  ParseInv'
<1> DEFINE known == pattern_[i + 1] \in DOMAIN format_item_maps_
<1>a. PICK x : x = IF known THEN FieldItem(format_item_maps_[pattern_[i + 1]])
                            ELSE StringFormatItem(WrongFormat)
  OBVIOUS
<1>0. /\ pc = "parse" /\ i < Len(pattern_) /\ pattern_[i] = "%" /\ pattern_[i + 1] # "%"
      /\ nstr' = <<>> /\ i' = i + 2 /\ error_' = (error_ \/ ~known)
      /\ format_items_' = format_items_ \o Flushed \o <<x>>
      /\ pattern_' = pattern_ /\ pc' = pc
  BY <1>a DEF Directive, ErrorSoFar
<1>1. /\ pattern_ \in Seq(Alphabet) /\ nstr \in Seq(Alphabet)
      /\ format_items_ \in Seq(ProperItems) /\ error_ \in BOOLEAN
  BY DEF ParseInv, ParseTypes
<1>2. /\ Len(pattern_) \in Nat /\ i \in Nat \ {0} /\ i \in 1..Len(pattern_)
      /\ i + 1 \in Nat \ {0} /\ i + 1 \in 1..Len(pattern_) /\ (i + 1) - 1 = i
      /\ i' - 1 = i + 1 /\ i' \in 1..(Len(pattern_) + 1)
  <2>1. Len(pattern_) \in Nat /\ i \in 1..(Len(pattern_) + 1)
    BY <1>1, LenProperties DEF ParseInv, ParseTypes
  <2>2. QED
    BY <1>0, <2>1
<1>3. ~Opens(i - 1) /\ Opens(i) /\ ~Opens(i + 1)
  <2>1. ~Opens(i - 1)
    BY DEF ParseInv
  <2>2. Opens(i)
    BY <1>0, <1>2, <2>1, OpensAlternates
  <2>3. ~Opens(i + 1)
    BY <1>0, <1>2, OpensAlternates
  <2>4. QED
    BY <2>1, <2>2, <2>3
<1>4. /\ x \in ProperItems /\ x \in Items
      /\ \A level \in 1..6 :
            Contribution(i + 1, level) = ItemFormat(x, level) /\ ItemFormat(x, level) \in Seq(Tokens)
  <2>1. PICK k \in 1..Len(pattern_) : k = i + 1 /\ k - 1 = i
    BY <1>2
  <2>2. x \in ProperItems /\ \A level \in 1..6 :
            Contribution(k, level) = ItemFormat(x, level) /\ ItemFormat(x, level) \in Seq(Tokens)
    BY <1>a, <1>0, <1>1, <1>3, <2>1, DirectivePrints
  <2>3. QED
    BY <2>1, <2>2 DEF ProperItems
<1>5. PICK fl \in Seq(ProperItems) : fl = format_items_ \o Flushed
  BY <1>1, FlushPrints
<1>6. format_items_' = Append(fl, x) /\ format_items_' \in Seq(ProperItems)
  <2>1. fl \o <<x>> = Append(fl, x) /\ Append(fl, x) \in Seq(ProperItems)
    BY <1>4, AppendIsConcat, AppendProperties
  <2>2. QED
    BY <1>0, <1>5, <2>1
<1>7. ParseTypes'
  <2>1. error_' \in BOOLEAN
    BY <1>0
  <2>2. nstr' \in Seq(Alphabet)
    BY <1>0, EmptySeq
  <2>3. QED
    BY <1>0, <1>1, <1>2, <1>6, <2>1, <2>2 DEF ParseTypes
<1>8. ASSUME NEW level \in 1..6
      PROVE  Format(format_items_', level) \o nstr' = Partial(i' - 1, level)
  <2>1. Contribution(i, level) = <<>>
    BY <1>0, <1>1, <1>2, <1>3, ContributionType
  <2>2. Partial(i, level) = Partial(i - 1, level) \o <<>> /\ Partial(i - 1, level) \in Seq(Tokens)
    BY <1>1, <1>2, <2>1, NextPartial
  <2>3. Partial(i, level) = Partial(i - 1, level)
    BY <2>2, ConcatEmptySeq
  <2>4. Partial(i + 1, level) = Partial(i, level) \o ItemFormat(x, level)
    BY <1>1, <1>2, <1>4, NextPartial
  <2>5. Format(format_items_, level) \o nstr = Partial(i - 1, level)
    BY <1>0 DEF ParseInv
  <2>6. Format(fl, level) = Format(format_items_, level) \o nstr
    BY <1>1, <1>5, FlushPrints
  <2>7. fl \in Seq(Items)
    <3>1. ProperItems \subseteq Items
      BY DEF ProperItems
    <3>2. QED
      BY <3>1, SeqOfSubset
  <2>8. Format(Append(fl, x), level) = Format(fl, level) \o ItemFormat(x, level)
    BY <1>4, <2>7, FormatAppend
  <2>9. Format(format_items_', level) = Partial(i + 1, level)
    BY <1>6, <2>3, <2>4, <2>5, <2>6, <2>8
  <2>10. Partial(i + 1, level) \in Seq(Tokens)
    <3>1. PICK k \in 0..Len(pattern_) : k = i + 1
      BY <1>2
    <3>2. Partial(k, level) \in Seq(Tokens)
      BY <1>1, PartialStep
    <3>3. QED
      BY <3>1, <3>2
  <2>11. Partial(i + 1, level) \o <<>> = Partial(i + 1, level)
    BY <2>10, ConcatEmptySeq
  <2>12. QED
    BY <1>0, <1>2, <2>9, <2>11
<1>9. error_' <=> \E k \in 2..(i' - 1) : UnknownAt(k)
  <2>1. \A k \in 2..(i + 1) : k \in 2..(i - 1) \/ k = i \/ k = i + 1
    BY <1>2
  <2>2. (\A k \in 2..(i - 1) : k \in 2..(i + 1)) /\ i + 1 \in 2..(i + 1)
    BY <1>2
  <2>3. ~UnknownAt(i) /\ (UnknownAt(i + 1) <=> ~known)
    BY <1>0, <1>2, <1>3 DEF UnknownAt
  <2>4. error_ <=> \E k \in 2..(i - 1) : UnknownAt(k)
    BY DEF ParseInv
  <2> HIDE DEF known
  <2>5. (\E k \in 2..(i + 1) : UnknownAt(k)) <=> (error_ \/ ~known)
    BY <2>1, <2>2, <2>3, <2>4, Zenon
  <2>6. 2..(i' - 1) = 2..(i + 1)
    BY <1>2
  <2>7. error_' = (error_ \/ ~known)
    BY <1>0
  <2>8. QED
    BY <2>5, <2>6, <2>7, Zenon
<1>10. QED
  BY <1>0, <1>2, <1>3, <1>7, <1>8, <1>9, ParseInvNext

(* The loop is left at the end, or in front of a '%' that is the last.     *)
LEMMA LeaveLoopParseInv ==
  ASSUME ParseInv, LeaveLoop
  PROVE  ParseInv'
<1>1. /\ pc = "parse" /\ AtTheEnd /\ pc' = "flush" /\ pattern_' = pattern_ /\ i' = i
      /\ nstr' = nstr /\ format_items_' = format_items_ /\ error_' = error_
  BY DEF LeaveLoop, AtTheEnd
<1>2. ParseTypes'
  BY <1>1 DEF ParseInv, ParseTypes
<1>3. pc' # "parse" => i' > Len(pattern_) \/ (i' = Len(pattern_) /\ pattern_[i'] = "%")
  BY <1>1 DEF AtTheEnd
<1>4. QED
  BY <1>1, <1>2, <1>3, ParseInvNext DEF ParseInv

(* The text behind the last directive becomes the last item.               *)
LEMMA LastTextParseInv ==
  ASSUME ParseInv, LastText
  PROVE  ParseInv'
<1>0. /\ pc = "flush" /\ format_items_' = format_items_ \o Flushed /\ pc' = "done"
      /\ pattern_' = pattern_ /\ i' = i /\ nstr' = nstr /\ error_' = error_
  BY DEF LastText
<1>1. /\ pattern_ \in Seq(Alphabet) /\ nstr \in Seq(Alphabet)
      /\ format_items_ \in Seq(ProperItems) /\ error_ \in BOOLEAN
      /\ i \in 1..(Len(pattern_) + 1)
  BY DEF ParseInv, ParseTypes
<1>2. ParseTypes'
  <2>1. format_items_' \in Seq(ProperItems)
    BY <1>0, <1>1, FlushPrints
  <2>2. QED
    BY <1>0, <1>1, <2>1 DEF ParseTypes
<1>3. AtTheEnd
  BY <1>0 DEF ParseInv
<1>4. Len(pattern_) \in Nat
  BY <1>1, LenProperties
<1>5. ASSUME NEW level \in 1..6 PROVE Partial(i - 1, level) = Expansion(level)
  <2>1. Partial(Len(pattern_), level) = Expansion(level)
    BY <1>1, PartialEnds
  <2>2. CASE i > Len(pattern_)
    <3>1. i - 1 = Len(pattern_)
      BY <1>1, <1>4, <2>2
    <3>2. QED
      BY <2>1, <3>1
  <2>3. CASE i = Len(pattern_) /\ pattern_[i] = "%"
    <3>1. i \in Nat \ {0} /\ i \in 1..Len(pattern_)
      BY <1>1, <1>4, <2>3
    <3>2. ~Opens(i - 1)
      BY DEF ParseInv
    <3>3. Opens(i)
      BY <2>3, <3>1, <3>2, OpensAlternates
    <3>4. Contribution(i, level) = <<>>
      BY <1>1, <2>3, <3>1, <3>3, ContributionType
    <3>5. Partial(i, level) = Partial(i - 1, level) \o <<>> /\ Partial(i - 1, level) \in Seq(Tokens)
      BY <1>1, <3>1, <3>4, NextPartial
    <3>6. Partial(i, level) = Partial(i - 1, level)
      BY <3>5, ConcatEmptySeq
    <3>7. QED
      BY <2>1, <2>3, <3>6
  <2>4. QED
    BY <1>3, <2>2, <2>3 DEF AtTheEnd
<1>6. ASSUME NEW level \in 1..6 PROVE Format(format_items_', level) = Expansion(level)
  <2>1. Format(format_items_ \o Flushed, level) = Format(format_items_, level) \o nstr
    BY <1>1, FlushPrints
  <2>2. Format(format_items_, level) \o nstr = Partial(i - 1, level)
    BY <1>0 DEF ParseInv
  <2>3. QED
    BY <1>0, <1>5, <2>1, <2>2
<1>7. ~Opens(i - 1) /\ (error_ <=> \E k \in 2..(i - 1) : UnknownAt(k))
  BY DEF ParseInv
<1>8. pc' # "parse" => i' > Len(pattern_) \/ (i' = Len(pattern_) /\ pattern_[i'] = "%")
  BY <1>0, <1>3 DEF AtTheEnd
<1>9. QED
  BY <1>0, <1>2, <1>6, <1>7, <1>8, ParseInvNext

-----------------------------------------------------------------------------
(* The theorems.                                                           *)

(* While Parse runs, the items made so far and the text since the last one *)
(* print what the characters passed stand for, and error_ tells of them.   *)
THEOREM ParseInvariant == Spec => []ParseInv
<1>1. Init => ParseInv
  BY InitParseInv
<1>2. ParseInv /\ [Next]_vars => ParseInv'
  <2> SUFFICES ASSUME ParseInv, [Next]_vars PROVE ParseInv'
    OBVIOUS
  <2>1. CASE Literal
    BY <2>1, LiteralParseInv
  <2>2. CASE Escape
    BY <2>2, EscapeParseInv
  <2>3. CASE Directive
    BY <2>3, DirectiveParseInv
  <2>4. CASE LeaveLoop
    BY <2>4, LeaveLoopParseInv
  <2>5. CASE LastText
    BY <2>5, LastTextParseInv
  <2>6. CASE UNCHANGED vars
    <3>1. /\ pattern_' = pattern_ /\ i' = i /\ nstr' = nstr /\ format_items_' = format_items_
          /\ error_' = error_ /\ pc' = pc
      BY <2>6 DEF vars
    <3>2. ParseTypes'
      BY <3>1 DEF ParseInv, ParseTypes
    <3>3. QED
      BY <3>1, <3>2, ParseInvNext DEF ParseInv, AtTheEnd, FormatExpandsPattern
  <2>7. QED
    BY <2>1, <2>2, <2>3, <2>4, <2>5, <2>6 DEF Next
<1>3. QED
  BY <1>1, <1>2, PTL DEF Spec

(* Parse never runs past the end of the pattern and makes no item for      *)
(* empty text, and every item is of a kind that format knows.              *)
THEOREM FormatterTypeCorrect == Spec => []TypeOK
<1>1. ParseInv => TypeOK
  <2> SUFFICES ASSUME ParseInv PROVE TypeOK
    OBVIOUS
  <2>1. ParseTypes
    BY DEF ParseInv
  <2>2. \A k \in 1..Len(nstr) : nstr[k] \in Alphabet
    BY <2>1, ElementOfSeq DEF ParseTypes
  <2>3. \A k \in 1..Len(format_items_) : format_items_[k] \in ProperItems
    BY <2>1, ElementOfSeq DEF ParseTypes
  <2>4. \A item \in ProperItems :
           /\ item.kind \in {"String"} \cup Range(format_item_maps_)
           /\ item.kind = "String" <=> item.str # <<>>
    BY LettersHaveKinds DEF ProperItems, Items
  <2>5. QED
    BY <2>1, <2>2, <2>3, <2>4 DEF ParseTypes, TypeOK
<1>2. QED
  BY <1>1, ParseInvariant, PTL

(* Formatting with the items that Parse made is expanding the pattern      *)
(* character by character, for every pattern over every alphabet.          *)
THEOREM ParsedFormatExpandsPattern == Spec => []FormatExpandsPattern
<1>1. ParseInv => FormatExpandsPattern
  BY DEF ParseInv
<1>2. QED
  BY <1>1, ParseInvariant, PTL

(* error_ is raised for exactly the patterns that have an unknown letter   *)
(* behind an unpaired '%'.                                                 *)
THEOREM ErrorMeansUnknownLetter == Spec => []ErrorIsUnknownLetter
<1>1. ParseInv => ErrorIsUnknownLetter
  <2> SUFFICES ASSUME ParseInv, pc = "done"
               PROVE  error_ <=> \E k \in 2..Len(pattern_) : UnknownAt(k)
    BY DEF ErrorIsUnknownLetter, UnknownAt
  <2>1. AtTheEnd /\ (error_ <=> \E k \in 2..(i - 1) : UnknownAt(k))
    BY DEF ParseInv
  <2>2. Len(pattern_) \in Nat /\ i \in 1..(Len(pattern_) + 1)
    BY LenProperties DEF ParseInv, ParseTypes
  <2>3. CASE i > Len(pattern_)
    <3>1. i - 1 = Len(pattern_)
      BY <2>2, <2>3
    <3>2. QED
      BY <2>1, <3>1
  <2>4. CASE i = Len(pattern_) /\ pattern_[i] = "%"
    <3>1. /\ \A k \in 2..Len(pattern_) : k \in 2..(i - 1) \/ k = i
          /\ \A k \in 2..(i - 1) : k \in 2..Len(pattern_)
      BY <2>2, <2>4
    <3>2. ~UnknownAt(i)
      BY <2>4 DEF UnknownAt
    <3>3. QED
      BY <2>1, <3>1, <3>2
  <2>5. QED
    BY <2>1, <2>3, <2>4 DEF AtTheEnd
<1>2. QED
  BY <1>1, ParseInvariant, PTL
=============================================================================
