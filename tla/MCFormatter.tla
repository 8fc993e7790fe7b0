---------------------------- MODULE MCFormatter -----------------------------
(* A known letter with a field, the level, a letter that is not known, and *)
(* the escape character, in every pattern of up to MaxLen.                 *)
EXTENDS Formatter
MCAlphabet == {"%", "m", "p", "x"}
=============================================================================
