---------------------------- MODULE MCEchoClient ----------------------------
(* The instance of EchoClient for TLC.                                     *)
EXTENDS EchoClient

(* Text without NUL, in lines of any length.                               *)
MCPayloads == {<<1, 2, 3>>, <<1, 2, 3, 4>>}
=============================================================================
