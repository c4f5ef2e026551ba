---------------------------- MODULE MCOldReaders ----------------------------
(* OldReaders for TLC, with the files of SampleFiles. *)
EXTENDS OldReaders, IndexedFile

CONSTANTS a, b, c

Samples == INSTANCE SampleFiles

MCFiles == Samples!SampleFiles

=============================================================================
