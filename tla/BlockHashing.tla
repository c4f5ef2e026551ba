---------------------------- MODULE BlockHashing ----------------------------
(***************************************************************************)
(* What the block hasher of day3/practice-exercises promises: the file is  *)
(* cut into blocks of BlockSize bytes, every block gets the hash of its    *)
(* own bytes, once, and the table is printed when it is complete.  Nothing *)
(* is said of threads, locks or shared cursors.                            *)
(***************************************************************************)
EXTENDS HashedFile

VARIABLES
    hashes,      \* the table, one entry per block
    printed      \* whether the table has been printed

hashVars == <<hashes, printed>>

-----------------------------------------------------------------------------

Init ==
    /\ hashes = [b \in Blocks |-> Unhashed]
    /\ printed = FALSE

Hash(b) ==
    /\ ~printed
    /\ hashes[b] = Unhashed
    /\ hashes' = [hashes EXCEPT ![b] = BlockHashOf(b)]
    /\ UNCHANGED printed

PrintTable ==
    /\ \A b \in Blocks : hashes[b] = BlockHashOf(b)
    /\ printed' = TRUE
    /\ UNCHANGED hashes

Next == PrintTable \/ \E b \in Blocks : Hash(b)

Spec == Init /\ [][Next]_hashVars

=============================================================================
