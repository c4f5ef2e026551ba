----------------------------- MODULE MCPrograms -----------------------------
(* Programs for TLC.                                                        *)
EXTENDS Programs

MCDeposits == {2, 3}
MCWithdrawals == {0, 1}

=============================================================================
