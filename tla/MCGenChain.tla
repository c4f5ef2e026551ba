----------------------------- MODULE MCGenChain -----------------------------
(* GenChain for TLC.                                                         *)
EXTENDS GenChain

MCAddrs == 1 .. 12

MCArguments == {<<3, 0>>, <<3, 1>>, <<3, 2>>, <<3, 3>>, <<2, 4>>}

=============================================================================
