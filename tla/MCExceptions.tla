---------------------------- MODULE MCExceptions ----------------------------
(* Instances of Exceptions for TLC.                                         *)
EXTENDS Exceptions, TLC

Symmetric == Permutations(Exceptions) \cup Permutations(Lines)
=============================================================================
