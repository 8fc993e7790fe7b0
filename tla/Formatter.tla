----------------------------- MODULE Formatter ------------------------------
(***************************************************************************)
(* cppserver_logger::Formatter: Parse turns a pattern such as              *)
(* "%d [%p] %m%n" into a vector of FormatItems, and format runs the items  *)
(* over an event.  A pattern is a sequence of characters; what an item     *)
(* prints is a sequence of tokens, one for each character of literal text  *)
(* and one for each field of the event.                                    *)
(***************************************************************************)
EXTENDS Naturals, Sequences, FiniteSets, SequencesExt

CONSTANTS Alphabet,   \* characters that patterns are made of
          MaxLen      \* bound: the longest pattern

ASSUME FormatterAssumption == "%" \in Alphabet /\ MaxLen \in Nat

VARIABLES pattern_,       \* the constructor's argument
          i,              \* Parse: the next character, counted from 1
          nstr,           \* Parse: literal text since the last item
          format_items_,
          error_,
          pc              \* "parse", "flush" or "done"

vars == <<pattern_, i, nstr, format_items_, error_, pc>>

-----------------------------------------------------------------------------
(* The items that the nine known letters stand for: 'c' and 'f' are the    *)
(* same.                                                                   *)
format_item_maps_ ==
    [ m |-> "Message", p |-> "Level", r |-> "MsElapse", c |-> "FileName",
      t |-> "ThreadId", n |-> "NewLine", d |-> "Time", f |-> "FileName",
      l |-> "LineNum" ]

StringFormatItem(str) == [kind |-> "String", str |-> str]
FieldItem(kind) == [kind |-> kind, str |-> <<>>]

WrongFormat == <<"<wrong format>">>

(* LogLevel::ToString; OTHER = 6 takes the default.                        *)
LevelToString(level) ==
    IF level \in 1..5 THEN <<"INFO", "DEBUG", "WARN", "ERROR", "FATAL">>[level]
                      ELSE "UNKNOWN"

(* What the format member of each kind of item puts on the stream.         *)
ItemFormat(item, level) ==
    CASE item.kind = "String" -> item.str
      [] item.kind = "Level" -> <<LevelToString(level)>>
      [] item.kind = "MsElapse" -> <<"ms", "event.ms_elapse_">>
      [] item.kind = "ThreadId" -> <<"id", "event.thread_id_">>
      [] item.kind = "Message" -> <<"event.msg_">>
      [] item.kind = "LineNum" -> <<"event.line_num_">>
      [] item.kind = "FileName" -> <<"event.file_name_">>
      [] item.kind = "Time" -> <<"event.time_">>
      [] item.kind = "NewLine" -> <<"endl">>

(* Formatter::format.                                                      *)
Format(items, level) ==
    FlattenSeq([k \in 1..Len(items) |-> ItemFormat(items[k], level)])

-----------------------------------------------------------------------------
Init ==
    /\ pattern_ \in BoundedSeq(Alphabet, MaxLen)
    /\ i = 1 /\ nstr = <<>>
    /\ format_items_ = <<>> /\ error_ = FALSE
    /\ pc = "parse"

(* Mutant: the test for empty text is left out.                            *)
FlushedAlways == <<StringFormatItem(nstr)>>

(* The text gathered so far as an item of its own, unless there is none.   *)
Flushed == IF nstr = <<>> THEN <<>> ELSE <<StringFormatItem(nstr)>>

Literal ==
    /\ pc = "parse" /\ i <= Len(pattern_)
    /\ pattern_[i] # "%"
    /\ nstr' = Append(nstr, pattern_[i])
    /\ i' = i + 1
    /\ UNCHANGED <<pattern_, format_items_, error_, pc>>

(* Mutant: the escape's second character is looked at again.               *)
BehindOne == i + 1

BehindEscape == i + 2

Escape ==
    /\ pc = "parse" /\ i < Len(pattern_)
    /\ pattern_[i] = "%" /\ pattern_[i + 1] = "%"
    /\ nstr' = Append(nstr, "%")
    /\ i' = BehindEscape
    /\ UNCHANGED <<pattern_, format_items_, error_, pc>>

(* Mutant: error_ tells of the last letter only.                           *)
LastError(known) == ~known

ErrorSoFar(known) == error_ \/ ~known

(* '%' and a letter: an item for it, or the text "<wrong format>".         *)
Directive ==
    /\ pc = "parse" /\ i < Len(pattern_)
    /\ pattern_[i] = "%" /\ pattern_[i + 1] # "%"
    /\ nstr' = <<>>
    /\ LET known == pattern_[i + 1] \in DOMAIN format_item_maps_ IN
       /\ format_items_' = format_items_ \o Flushed
             \o << IF known THEN FieldItem(format_item_maps_[pattern_[i + 1]])
                            ELSE StringFormatItem(WrongFormat) >>
       /\ error_' = ErrorSoFar(known)
    /\ i' = i + 2
    /\ UNCHANGED <<pattern_, pc>>

(* A '%' that ends the pattern breaks the loop; so does its end.           *)
LeaveLoop ==
    /\ pc = "parse"
    /\ \/ i > Len(pattern_)
       \/ i = Len(pattern_) /\ pattern_[i] = "%"
    /\ pc' = "flush"
    /\ UNCHANGED <<pattern_, i, nstr, format_items_, error_>>

LastText ==
    /\ pc = "flush"
    /\ format_items_' = format_items_ \o Flushed
    /\ pc' = "done"
    /\ UNCHANGED <<pattern_, i, nstr, error_>>

Next == Literal \/ Escape \/ Directive \/ LeaveLoop \/ LastText

Spec == Init /\ [][Next]_vars

-----------------------------------------------------------------------------
(* Reference: what each character of a pattern contributes, told from its  *)
(* neighbours alone.                                                       *)

(* The number of '%' in a row that end at position k.                      *)
RunOfPercents(k) ==
    Cardinality({j \in 1..k : \A h \in j..k : pattern_[h] = "%"})

(* Position k holds a '%' that is not the second half of a "%%".           *)
Opens(k) == k >= 1 /\ RunOfPercents(k) % 2 = 1

Contribution(k, level) ==
    CASE pattern_[k] = "%" /\ Opens(k) -> <<>>
      [] pattern_[k] = "%" /\ ~Opens(k) -> <<"%">>
      [] pattern_[k] # "%" /\ ~Opens(k - 1) -> <<pattern_[k]>>
      [] pattern_[k] # "%" /\ Opens(k - 1) ->
            IF pattern_[k] \in DOMAIN format_item_maps_
            THEN ItemFormat(FieldItem(format_item_maps_[pattern_[k]]), level)
            ELSE WrongFormat

Expansion(level) ==
    FlattenSeq([k \in 1..Len(pattern_) |-> Contribution(k, level)])

(* Properties.                                                             *)

(* Types; Parse makes no item for empty text and never runs past the end.  *)
TypeOK ==
    /\ i \in 1..(Len(pattern_) + 1)
    /\ \A k \in 1..Len(nstr) : nstr[k] \in Alphabet
    /\ \A k \in 1..Len(format_items_) :
          LET item == format_items_[k] IN
          /\ item.kind \in {"String"} \cup Range(format_item_maps_)
          /\ item.kind = "String" <=> item.str # <<>>
    /\ error_ \in BOOLEAN
    /\ pc \in {"parse", "flush", "done"}

(* Formatting with the parsed items is expanding the pattern character by  *)
(* character: "%%" is a '%', however many stand in a row, a letter behind  *)
(* an unpaired '%' is its field at any level, an unpaired '%' at the end   *)
(* prints nothing, and no text is lost, doubled or moved.                  *)
FormatExpandsPattern ==
    pc = "done" => \A level \in 1..6 : Format(format_items_, level) = Expansion(level)

(* error_ is raised for exactly the patterns with an unknown letter behind *)
(* an unpaired '%'; one that ends in such a '%' is not an error.           *)
ErrorIsUnknownLetter ==
    pc = "done" =>
        (error_ <=> \E k \in 2..Len(pattern_) :
                       /\ Opens(k - 1)
                       /\ pattern_[k] \notin DOMAIN format_item_maps_ \cup {"%"})

=============================================================================
