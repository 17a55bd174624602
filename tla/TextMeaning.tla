---------------------------- MODULE TextMeaning -----------------------------
(***************************************************************************)
(* What the methods that strings and bytes have in common mean, on plain   *)
(* sequences of characters: occurrences are a set of positions, without    *)
(* loops, widths or buffers.  Text and Bytes are checked against this.     *)
(* Positions count from 0; the character at position p of s is s[p + 1].   *)
(***************************************************************************)
EXTENDS Integers, Sequences, SequencesExt, FiniteSetsExt

Tab == 9
Newline == 10
Return == 13
Space == 32
Plus == 43
Minus == 45
Zero == 48

Blanks == {9, 10, 11, 12, 13, 32}

Part(s, from, to) == SubSeq(s, from + 1, to)

(* Where n occurs in s, overlapping ones included.                         *)
Occurrences(s, n) == {p \in 0..Len(s) - Len(n) : Part(s, p, p + Len(n)) = n}

First(s, n) == IF Occurrences(s, n) = {} THEN -1 ELSE Min(Occurrences(s, n))
Last_(s, n) == IF Occurrences(s, n) = {} THEN -1 ELSE Max(Occurrences(s, n))

(* The occurrences met from the left when each begins behind the one       *)
(* before.                                                                 *)
Disjoint(s, n) ==
  LET At == Occurrences(s, n)
      taken[p \in 0..Len(s)] == /\ p \in At
                                /\ \A q \in 0..p - 1 : p < q + Len(n) => ~taken[q]
  IN {p \in At : taken[p]}

(* What lies before, between and behind the disjoint occurrences of n.     *)
Around(s, at, k) ==
  LET from(i) == IF i = 0 THEN 0 ELSE at[i] + k
      to(i) == IF i = Len(at) THEN Len(s) ELSE at[i + 1]
  IN [i \in 1..Len(at) + 1 |-> Part(s, from(i - 1), to(i - 1))]

Fields(s, n) == Around(s, SetToSortSeq(Disjoint(s, n), <), Len(n))

Joined(parts, glue) ==
  LET upto[i \in 0..Len(parts)] ==
        CASE i = 0 -> << >> [] i = 1 -> parts[1] [] OTHER -> upto[i - 1] \o glue \o parts[i]
  IN upto[Len(parts)]

Replaced(s, n, r) == Joined(Fields(s, n), r)

(* The part that is left when characters of S are taken from either end.   *)
StrippedLeft(s, S) ==
  LET kept == {p \in DOMAIN s : s[p] \notin S}
  IN IF kept = {} THEN << >> ELSE SubSeq(s, Min(kept), Len(s))
StrippedRight(s, S) ==
  LET kept == {p \in DOMAIN s : s[p] \notin S}
  IN IF kept = {} THEN << >> ELSE SubSeq(s, 1, Max(kept))

Of(c, n) == [i \in 1..Max({0, n}) |-> c]

(* Padded to n characters, with half of the blanks on the left.            *)
Centered(s, n) ==
  LET pad == n - Len(s) IN IF pad <= 0 THEN s ELSE Of(Space, pad \div 2) \o s \o Of(Space, pad - pad \div 2)

(* Zeros between the sign and the digits.                                  *)
ZeroFilled(s, n) ==
  LET sign == IF s # << >> /\ Head(s) \in {Plus, Minus} THEN 1 ELSE 0
  IN SubSeq(s, 1, sign) \o Of(Zero, Max({0, n - Len(s)})) \o SubSeq(s, sign + 1, Len(s))

(* A line ends at \n, \r or \r\n; a text that ends so has no line behind.  *)
Lines(s, keep) ==
  LET brk == {p \in DOMAIN s : \/ s[p] = Newline
                               \/ s[p] = Return /\ ~(p < Len(s) /\ s[p + 1] = Newline)}
      at == SetToSortSeq(brk, <)
      body(p) == IF s[p] = Newline /\ p > 1 /\ s[p - 1] = Return THEN p - 2 ELSE p - 1
      line(i) == SubSeq(s, IF i = 1 THEN 1 ELSE at[i - 1] + 1, IF keep THEN at[i] ELSE body(at[i]))
      rest == SubSeq(s, IF at = << >> THEN 1 ELSE Last(at) + 1, Len(s))
  IN [i \in DOMAIN at |-> line(i)] \o (IF rest = << >> THEN << >> ELSE <<rest>>)

(* Every tab goes on to the next column that is a multiple of stop.        *)
Expanded(s, stop) ==
  LET step(acc, c) ==
        CASE c = Newline -> [col |-> 0, out |-> Append(acc.out, c)]
          [] c = Tab -> LET pad == IF stop = 0 THEN 0 ELSE stop - (acc.col % stop)
                        IN [col |-> acc.col + pad, out |-> acc.out \o Of(Space, pad)]
          [] OTHER -> [col |-> acc.col + 1, out |-> Append(acc.out, c)]
  IN FoldLeft(step, [col |-> 0, out |-> << >>], s).out

(* Before, at and behind the separator, or the whole and nothing.          *)
Parted(s, n, p) ==
  IF p < 0 THEN <<s, << >>, << >>>> ELSE <<Part(s, 0, p), n, Part(s, p + Len(n), Len(s))>>

(* Fields without the empty one at either end.                             *)
WithoutFront(f) == IF Head(f) = << >> THEN Tail(f) ELSE f
WithoutBack(f) == IF f # << >> /\ Last(f) = << >> THEN SubSeq(f, 1, Len(f) - 1) ELSE f
TrimmedFields(s, n) == WithoutBack(WithoutFront(Fields(s, n)))

Filled(fields) == SelectSeq(fields, LAMBDA f : f # << >>)
=============================================================================
