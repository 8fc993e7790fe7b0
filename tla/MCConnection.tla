---------------------------- MODULE MCConnection ----------------------------
(* Instances of Connection for TLC.                                        *)
EXTENDS Connection

(* Four bytes; with a NUL that ends its chunk, and with one that does not. *)
MCPayloads == {<<1, 2, 3, 4>>, <<1, NUL, 2, 3>>, <<1, 2, 3, NUL>>}
=============================================================================
