--------------------------- MODULE MCReadIndexed ---------------------------
(* ReadIndexed for TLC, with the files of SampleFiles. *)
EXTENDS ReadIndexed, IndexedFile

CONSTANTS a, b, c

Samples == INSTANCE SampleFiles

MCFiles == Samples!SampleFiles

=============================================================================
