---------------------------- MODULE MCOsInStream ----------------------------
(* OsInStream for TLC.                                                       *)
EXTENDS OsInStream

CONSTANTS t1, t2, s1, s2

=============================================================================
