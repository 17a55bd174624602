------------------------------ MODULE MCFiles -------------------------------
(* Short files, a buffer of two bytes, and a device that fills up.         *)
EXTENDS Files

MCInitial == {<< >>, <<Lead, Trail, Newline>>}
MCChunks  == {<<Letter>>, <<Newline, Lead, Trail>>}
MCCounts  == {-1, 0, 1, 3}
MCOffsets == {-1, 0, 3}
=============================================================================
