-------------------------------- MODULE Bytes -------------------------------
(***************************************************************************)
(* types/bytes.c, with memmem(), memrmem() and memcount() of helpers.c:    *)
(* the methods of bytes, immutable sequences of numbers from 0 to 255.     *)
(* Each is an operator from sequences to the result of the method;         *)
(* positions count from 0 as in the code.                                  *)
(***************************************************************************)
EXTENDS TextMeaning

Missing == -1
Here(h, n, p) == Part(h, p, p + Len(n)) = n

(* The one that is built where the C library has none.  The loop ends      *)
(* while a needle as long as the rest might still be there.                *)
memmem(h, n) ==
  LET at == {p \in 0..Len(h) - Len(n) - 1 : Here(h, n, p)}
  IN IF n = << >> \/ at = {} THEN Missing ELSE Min(at)

(* Seeded fault: the first place is not looked at.                         *)
memrmem_NotFirst(h, n) ==
  LET at == {p \in 1..Len(h) - Len(n) : Here(h, n, p)}
  IN IF n = << >> \/ at = {} THEN Missing ELSE Max(at)

memrmem(h, n) ==
  LET at == {p \in 0..Len(h) - Len(n) : Here(h, n, p)}
  IN IF n = << >> \/ at = {} THEN Missing ELSE Max(at)

(* Only single bytes are ever counted: for longer needles the condition to *)
(* look at all is the wrong way round.                                     *)
memcount(h, n) ==
  IF Len(n) = 1 THEN Cardinality({i \in DOMAIN h : h[i] = n[1]}) ELSE 0

bytes_hasitem(b, n) == memmem(b, n) # Missing

bytes_removelr(b, n, right) ==
  LET idx == IF right THEN Len(b) - Len(n) ELSE 0
  IN IF Len(n) > Len(b) \/ ~Here(b, n, idx) THEN b
     ELSE IF right THEN Part(b, 0, idx) ELSE Part(b, Len(n), Len(b))

bytes_starts_or_ends_with(b, n, right) ==
  Len(n) <= Len(b) /\ Here(b, n, IF right THEN Len(b) - Len(n) ELSE 0)

do_bytes_join(b, parts) ==
  FlattenSeq([i \in DOMAIN parts |-> IF i > 1 THEN b \o parts[i] ELSE parts[i]])

bytes_lrpartition(b, sep, right) ==
  LET idx == IF right THEN memrmem(b, sep) ELSE memmem(b, sep)
  IN IF idx < 0 THEN <<b, << >>, << >>>>
     ELSE <<Part(b, 0, idx), sep, Part(b, idx + Len(sep), Len(b))>>

RECURSIVE do_bytes_replace(_, _, _)
do_bytes_replace(b, old, new) ==
  LET next == memmem(b, old)
  IN IF b = << >> THEN << >>
     ELSE IF next < 0 THEN b
     ELSE Part(b, 0, next) \o new \o do_bytes_replace(Part(b, next + Len(old), Len(b)), old, new)

(* newlen is unsigned: a width below 0 would be a huge one.                *)
do_bytes_lrjust(b, width, flag) ==
  LET newlen == Max({width, Len(b)})
      pad == newlen - Len(b)
      front == CASE flag = "right" -> pad [] flag = "center" -> pad \div 2 [] OTHER -> 0
  IN Of(Space, front) \o b \o Of(Space, newlen - front - Len(b))

(* What follows a separator in a row, up to the last one, is skipped when  *)
(* none was given.                                                         *)
SkipSeparators(b, sep) ==
  LET k == Len(sep)
      from[p \in 0..Len(b)] == IF Len(b) - p > k /\ Here(b, sep, p) THEN from[p + k] ELSE p
  IN Part(b, from[0], Len(b))

RECURSIVE bytes_split(_, _, _, _)
bytes_split(b, sep, max, combine) ==
  LET at == memmem(b, sep)
      behind == Part(b, at + Len(sep), Len(b))
  IN IF b = << >> THEN << >>
     ELSE IF max = 0 \/ at < 0 THEN <<b>>
     ELSE <<Part(b, 0, at)>> \o bytes_split(IF combine THEN SkipSeparators(behind, sep) ELSE behind,
                                            sep, max - 1, combine)

RECURSIVE bytes_rsplit(_, _, _, _)
bytes_rsplit(b, sep, max, combine) ==
  LET k == Len(sep)
      at == memrmem(b, sep)
      back[p \in 0..Len(b)] == IF combine /\ p >= k /\ Here(b, sep, p - k) THEN back[p - k] ELSE p
  IN IF b = << >> THEN << >>
     ELSE IF max = 0 \/ at < 0 THEN <<b>>
     ELSE bytes_rsplit(Part(b, 0, back[at]), sep, max - 1, combine) \o <<Part(b, at + k, Len(b))>>

bytes_lrsplit(b, seps, right, max) ==
  LET combine == seps = << >>
      sep == IF combine THEN <<Space>> ELSE seps[1]
  IN IF right THEN bytes_rsplit(b, sep, max, combine) ELSE bytes_split(b, sep, max, combine)

(* From the right the first byte of what is left always stays.             *)
bytes_lrstrip(b, chars, flag) ==
  LET skip == ToSet(chars)
      left == IF flag = "right" THEN b ELSE StrippedLeft(b, skip)
      kept == {i \in DOMAIN left : left[i] \notin skip}
  IN IF flag = "left" \/ left = << >> THEN left ELSE SubSeq(left, 1, Max(kept \cup {1}))

do_bytes_expandtabs(b, size) ==
  LET tab == Max({size, 0})
      step(acc, c) ==
        LET stop == IF acc.col = acc.stop THEN acc.stop + tab ELSE acc.stop
            pad == IF stop > acc.col THEN stop - acc.col ELSE 0
        IN CASE c = Newline -> [col |-> 0, stop |-> tab, out |-> Append(acc.out, c)]
             [] c = Tab -> [col |-> acc.col + pad, stop |-> stop + tab, out |-> acc.out \o Of(Space, pad)]
             [] OTHER -> [col |-> acc.col + 1, stop |-> stop, out |-> Append(acc.out, c)]
  IN FoldLeft(step, [col |-> 0, stop |-> tab, out |-> << >>], b).out

(* Here it is \r\r that ends a line as one.                                *)
RECURSIVE do_bytes_splitlines(_, _)
do_bytes_splitlines(b, keep) ==
  LET brk == {p \in DOMAIN b : b[p] \in {Newline, Return}}
      i == Min(brk)
      next == IF b[i] = Return /\ i < Len(b) /\ b[i + 1] = Return THEN i + 1 ELSE i
  IN IF b = << >> THEN << >>
     ELSE IF brk = {} THEN <<b>>
     ELSE <<SubSeq(b, 1, IF keep THEN next ELSE i - 1)>> \o do_bytes_splitlines(SubSeq(b, next + 1, Len(b)), keep)

do_bytes_zfill(b, nz) ==
  LET sign == IF b # << >> /\ b[1] \in {Plus, Minus} THEN 1 ELSE 0
  IN SubSeq(b, 1, sign) \o Of(Zero, Max({0, nz - Len(b)})) \o SubSeq(b, sign + 1, Len(b))

bytes_getslice(b, start, stop, step) ==
  LET n == CASE start = stop -> 0
             [] start < stop -> (stop - start + step - 1) \div step
             [] start > stop -> (start - stop - step - 1) \div (-step)
  IN [i \in 1..n |-> b[start + (i - 1) * step + 1]]

bytes_cat(a, b) == a \o b

(* The bytes both have, then the length.                                   *)
bytes_cmp(a, b) ==
  LET m == Min({Len(a), Len(b)})
      differ == {i \in 1..m : a[i] # b[i]}
  IN IF differ = {} THEN (IF Len(a) = Len(b) THEN 0 ELSE IF Len(a) > Len(b) THEN 1 ELSE -1)
     ELSE IF a[Min(differ)] > b[Min(differ)] THEN 1 ELSE -1

bytes_cmpeq(a, b) == Len(a) = Len(b) /\ a = b

Shouted(c) == IF c \in 97..122 THEN c - 32 ELSE c
Whispered(c) == IF c \in 65..90 THEN c + 32 ELSE c

bytes_convert_case(b, Convert(_)) == [i \in DOMAIN b |-> Convert(b[i])]

do_bytes_capitalize(b) == [i \in DOMAIN b |-> IF i = 1 THEN Shouted(b[i]) ELSE Whispered(b[i])]

IsLetter(c) == c \in 65..90 \cup 97..122

do_bytes_title(b) ==
  [i \in DOMAIN b |-> IF i = 1 \/ ~IsLetter(b[i - 1]) THEN Shouted(b[i]) ELSE Whispered(b[i])]

do_bytes_istitle(b) ==
  b # << >> /\ \A i \in DOMAIN b : (i = 1 \/ ~IsLetter(b[i - 1])) => b[i] \notin 97..122

bytes_is(b, Test(_)) == b # << >> /\ \A i \in DOMAIN b : Test(b[i])

(* A string as bytes, one per point: what is too great for the codec       *)
(* makes an error.                                                         *)
bytes_from_string_arg_1wide(pts, max) == IF \A i \in DOMAIN pts : pts[i] <= max THEN <<pts>> ELSE << >>
=============================================================================
