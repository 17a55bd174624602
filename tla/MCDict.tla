------------------------------- MODULE MCDict -------------------------------
(* An instance of Dict: twins are keys that collide in a table of any      *)
(* size, cousins in small ones only, until perturb tells them apart.       *)
EXTENDS Dict, TLC

CONSTANTS Twins, Cousins, Others

KeyNames == Twins \cup Cousins \cup Others

HashOf == [k \in KeyNames |-> IF k \in Twins THEN 1 ELSE IF k \in Cousins THEN 33 ELSE 2]

(* What an operation returned has no part in what the next ones do.        *)
State == <<d, len, clears, iter>>

Symmetric == Permutations(Twins) \cup Permutations(Vals)
=============================================================================
