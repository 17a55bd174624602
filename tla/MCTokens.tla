------------------------------ MODULE MCTokens ------------------------------
(***************************************************************************)
(* Inputs put together of a few characters each: quotes and backslashes,   *)
(* f-strings, numbers and comments, and statements on one line and on      *)
(* several, with numbers that are out of range among them.                 *)
(***************************************************************************)
EXTENDS Tokens

Strung(pieces, n) == {FlattenSeq(p) : p \in UNION {[1..k -> pieces] : k \in 1..n}}

Semi == <<59>>
Name == <<97>>
Nl == <<10>>
TooGreat == <<49, 54>>

MCTexts ==
  Strung({<<34>>, <<92>>, Name, <<114, 34>>, Semi}, 4)
    \cup {<<102, 34>> \o t : t \in Strung({<<34>>, <<123>>, <<125>>, <<58>>, Name}, 4)}
    \cup Strung({<<48>>, <<56>>, <<46>>, <<120>>, <<98, 34>>, <<34>>, <<106>>, <<101>>}, 3)
    \cup {n \o Semi : n \in Strung({<<56, 101, 56>>, <<46, 48>>, <<56>>, <<106>>}, 3)}
    \cup Strung({Name, <<47>>, <<42>>, <<35>>, Nl, Semi}, 4)
    \cup Strung({Name, Semi, Nl, Semi \o Name, TooGreat}, 5)

MCDelimiters == {<<59>>, <<58>>, <<46>>, <<47>>, <<42>>, <<42, 42>>, <<123>>, <<125>>}
MCKeywords == {<<97, 97>>}
=============================================================================
