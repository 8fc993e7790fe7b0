--------------------------- MODULE MCFileAppender ---------------------------
(* Instances of FileAppender for TLC.                                      *)
EXTENDS FileAppender, TLC

CONSTANTS r1, r2, r3

(* LogLevel::Level: INFO, WARN and DEBUG; the logger passes INFO on.       *)
MCLevelOf == r1 :> 1 @@ r2 :> 3 @@ r3 :> 2
=============================================================================
