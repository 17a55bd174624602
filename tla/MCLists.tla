------------------------------ MODULE MCLists -------------------------------
(* An instance of Lists: every list of up to MaxLen items, and every slice *)
(* of it, with indices up to one past both ends.                           *)
EXTENDS Lists, TLC

CONSTANTS a, t

Indices == -(MaxLen + 1)..MaxLen + 1

Lent == {<< >>, <<a>>, <<t, a>>, <<a, t, t>>}

Steps == {-2, -1, 1, 2}
=============================================================================
