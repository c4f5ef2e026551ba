----------------------------- MODULE MCBlockHash -----------------------------
(* BlockHash for TLC: see MCBlockHash.cfg for the size of the file.         *)
EXTENDS BlockHash
=============================================================================
