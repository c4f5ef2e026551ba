--------------------------- MODULE MCThreadManager ---------------------------
(* ThreadManager for TLC.                                                   *)
EXTENDS ThreadManager
=============================================================================
