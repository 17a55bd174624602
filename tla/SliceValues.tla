---------------------------- MODULE SliceValues -----------------------------
(***************************************************************************)
(* What indices and slices of a sequence mean, without clamping, loops or  *)
(* storage: the positions a slice selects are a set, and reading, deleting *)
(* and assigning it are described by that set.  Lists is checked against   *)
(* this.  Indices count from 0 as scripts do; a sequence s of TLA+ holds   *)
(* the item of index p at s[p + 1].                                        *)
(***************************************************************************)
EXTENDS Integers, Sequences, SequencesExt

CONSTANT Null      \* a stop that was left out

(* An index of a script: [-1] is the last item.                            *)
FromEnd(n, i) == IF i < 0 THEN i + n ELSE i

Clamp(x, lo, hi) == IF x < lo THEN lo ELSE IF x > hi THEN hi ELSE x

(* The positions of x[i:j:k].  A slice that runs down cannot reach the     *)
(* first item when its stop is left out: Null is the length.               *)
Selected(n, i, j, k) ==
  LET stop == IF j = Null THEN n ELSE FromEnd(n, j)
      first == IF k > 0 THEN Clamp(FromEnd(n, i), 0, n) ELSE Clamp(FromEnd(n, i), -1, n - 1)
  IN {p \in 0..n - 1 : IF k > 0 THEN p >= first /\ p < stop /\ (p - first) % k = 0
                                ELSE p <= first /\ p > stop /\ (first - p) % (-k) = 0}

(* Those positions in the order the slice visits them.                     *)
Visited(n, i, j, k) ==
  IF k > 0 THEN SetToSortSeq(Selected(n, i, j, k), <) ELSE SetToSortSeq(Selected(n, i, j, k), >)

Slice(s, i, j, k) ==
  LET at == Visited(Len(s), i, j, k) IN [q \in DOMAIN at |-> s[at[q] + 1]]

Without(s, P) ==
  LET kept == SetToSortSeq({p \in 0..Len(s) - 1 : p \notin P}, <) IN [q \in DOMAIN kept |-> s[kept[q] + 1]]

SliceDeleted(s, i, j, k) == Without(s, Selected(Len(s), i, j, k))

(* w put in the place of the n items from position at on.                  *)
Spliced(s, at, n, w) == SubSeq(s, 1, at) \o w \o SubSeq(s, at + n + 1, Len(s))

(* Where an empty slice of step 1 or -1 lies: before its stop going up,    *)
(* and past it going down.                                                 *)
Gap(n, j, k) == LET stop == IF j = Null THEN n ELSE FromEnd(n, j)
                IN IF k > 0 THEN Clamp(stop, 0, n) ELSE Clamp(stop, -1, n - 1) + 1

(* x[i:j:k] = w.  A slice of step 1 or -1 is a region that w replaces,     *)
(* whatever its length, and w is stored upwards even when the step is -1;  *)
(* room is FALSE when the list may not grow, and then what does not fit is *)
(* dropped.  The items of any other slice are replaced one by one in the   *)
(* order it visits them, if there are as many, and if it does not run down *)
(* past the first item to a stop that is given.                            *)
SliceAssigned(s, i, j, k, w, room) ==
  LET n == Len(s)
      P == Selected(n, i, j, k)
      at == Visited(n, i, j, k)
      low == IF P = {} THEN Gap(n, j, k) ELSE Head(SetToSortSeq(P, <))
      fit == IF room \/ Len(w) <= Len(at) THEN w ELSE SubSeq(w, 1, Len(at))
      given == j # Null /\ FromEnd(n, j) < 0
  IN IF k \in {1, -1} THEN Spliced(s, low, Len(at), fit)
     ELSE IF Len(w) # Len(at) \/ (k < 0 /\ given) THEN s
     ELSE [p \in DOMAIN s |-> IF p - 1 \in P THEN w[CHOOSE q \in DOMAIN at : at[q] = p - 1] ELSE s[p]]
=============================================================================
