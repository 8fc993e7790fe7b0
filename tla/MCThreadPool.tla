---------------------------- MODULE MCThreadPool ----------------------------
(* The instance of ThreadPool for TLC.  No symmetry: it is unsound for the *)
(* liveness properties.                                                    *)
EXTENDS ThreadPool
=============================================================================
