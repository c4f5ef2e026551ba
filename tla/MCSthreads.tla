----------------------------- MODULE MCSthreads -----------------------------
(* Sthreads for TLC.                                                        *)
EXTENDS Sthreads, TLC

Symmetric == Permutations(Clients) \cup Permutations(Keys) \cup Permutations(Objects)

=============================================================================
