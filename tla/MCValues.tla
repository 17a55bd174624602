------------------------------ MODULE MCValues ------------------------------
(***************************************************************************)
(* Values with a few characters of each kind: a letter in both cases, a    *)
(* digit, a sign, blanks, ends of lines, what literals escape, the sign of *)
(* a conversion, characters of one, two and four bytes.                    *)
(***************************************************************************)
EXTENDS Values

MCPoints == {97, 65, 32, 9, 10, 13, 45, 37, 39, 92, 233, 256, 70000}
MCOctets == {97, 98, 32, 9, 10, 39, 92, 1, 49, 233}
MCNeedles == {<< >>, <<97>>, <<32>>, <<256>>, <<97, 97>>, <<97, 98>>, <<97, 32, 97>>}
=============================================================================
