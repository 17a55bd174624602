-------------------------------- MODULE Text --------------------------------
(***************************************************************************)
(* types/string.c, string_include.c.h and string_writer.c: strings as      *)
(* arrays of Unicode points of 1, 2 or 4 bytes each.  A string is a record *)
(* of the width of its array and its points.  An all-ASCII string has no   *)
(* array of its own: its points are read from the bytes of the C string,   *)
(* at whatever width the string says.                                      *)
(*                                                                         *)
(* A method is an operator from strings to the result of the method;       *)
(* positions count from 0 as in the code.                                  *)
(***************************************************************************)
EXTENDS TextMeaning

(* What find and its relatives answer when there is nothing to find.       *)
NotFound == -1

IsAscii(pts) == \A i \in DOMAIN pts : pts[i] < 128

maxchr_to_width(c) == IF c > 65535 THEN 4 ELSE IF c > 255 THEN 2 ELSE 1

Fitting(pts) == IF pts = << >> THEN 1 ELSE maxchr_to_width(Max(ToSet(pts)))

Empty == [w |-> 1, pts |-> << >>]
Literal(pts) == [w |-> Fitting(pts), pts |-> pts]

(* The array is wider than its widest point needs.  If the points are all  *)
(* ASCII it is not even there.                                             *)
FormFitting(s) == s.w = Fitting(s.pts)
Broken(s) == s.w > 1 /\ IsAscii(s.pts)

stringvar_from_points(pts, w) == IF pts = << >> THEN Empty ELSE [w |-> w, pts |-> pts]

(* string_writer: an array that begins at width w and is widened when a    *)
(* point does not fit.                                                     *)
Written(w, pts) == stringvar_from_points(pts, Max({w, Fitting(pts)}))

Wider(a, b) == Max({a, b})

(* An array of width w read in units of width v, low half first.           *)
Units(pts, w, v) ==
  IF w = v THEN pts
  ELSE LET k == w \div v
       IN [i \in 1..Len(pts) * k |->
             (pts[(i - 1) \div k + 1] \div 256 ^ (v * ((i - 1) % k))) % 256 ^ v]

-----------------------------------------------------------------------------
(* Searching *)

(* Seeded fault: a needle of one character is looked for one place less.   *)
lfind_from_Short(h, n, i, stop) ==
  LET k == Len(n)
      hit(p) == h[p + 1] = n[1] /\ \A j \in 3..k : h[p + j] = n[j]
      at == {p \in i..stop - k - 1 : hit(p)}
  IN IF at = {} THEN NotFound ELSE Min(at)

(* The second character of the needle is not compared: the first one is,   *)
(* and match_here skips the first of what it is given.                     *)
lfind_from(h, n, i, stop) ==
  LET k == Len(n)
      hit(p) == h[p + 1] = n[1] /\ \A j \in 3..k : h[p + j] = n[j]
      at == {p \in i..stop - k : hit(p)}
  IN IF at = {} THEN NotFound ELSE Min(at)

(* With SF_COUNT the search goes on behind each hit.                       *)
lfind_count(h, n, start, stop) ==
  LET from[i \in start..stop + Len(n)] ==
        LET p == lfind_from(h, n, i, stop) IN IF p < 0 THEN 0 ELSE 1 + from[p + Len(n)]
  IN from[start]

rfind_idx(h, n, start, stop) ==
  LET k == Len(n)
      at == {p \in start..stop - k : h[p + 1] = n[1] /\ \A j \in 3..k : h[p + j] = n[j]}
  IN IF at = {} THEN NotFound ELSE Max(at)

(* The _32 helpers are made for 16-bit units, too.                         *)
UnitWidth(w) == IF w = 1 THEN 1 ELSE 2

find_or_count_by_width(h, n, start, stop, flag, w, v) ==
  LET hu == Units(h, w, UnitWidth(v))
      nu == SubSeq(Units(n, w, UnitWidth(v)), 1, Len(n))
  IN CASE flag = "right" -> rfind_idx(hu, nu, start, stop)
       [] flag = "count" -> lfind_count(hu, nu, start, stop)
       [] OTHER -> lfind_from(hu, nu, start, stop)

(* The needle must not be empty.                                           *)
find_or_count_within(hay, needle, flag, start, end) ==
  IF hay.w < needle.w \/ end - start < Len(needle.pts) THEN (IF flag = "count" THEN 0 ELSE NotFound)
  ELSE find_or_count_by_width(hay.pts, needle.pts, start, end, flag, hay.w, hay.w)

find_or_count(hay, needle, flag) == find_or_count_within(hay, needle, flag, 0, Len(hay.pts))

string_hasitem(s, sub) == find_or_count(s, sub, "left") >= 0

starts_or_ends_with(s, arg, right) ==
  LET n == Len(arg.pts)
      start == IF right THEN Len(s.pts) - n ELSE 0
  IN n <= Len(s.pts) /\ \A i \in 1..n : s.pts[start + i] = arg.pts[i]

match_here_anywidth(s, sep, at) == \A i \in DOMAIN sep.pts : at + i <= Len(s.pts) /\ s.pts[at + i] = sep.pts[i]

-----------------------------------------------------------------------------
(* Parts of strings *)

(* The step and the way from start to stop agree.                          *)
string_getslice(s, start, stop, step) ==
  LET n == CASE start = stop -> 0
             [] start < stop -> (stop - start + step - 1) \div step
             [] start > stop -> (start - stop - step - 1) \div (-step)
  IN Written(1, [i \in 1..n |-> s.pts[start + (i - 1) * step + 1]])

string_getitem(s, i) == Literal(<<s.pts[i + 1]>>)

(* find_max_width is given the array from start on, and looks at it from   *)
(* start on again: beyond its end there may be anything, and wide says     *)
(* whether that looks like a wide point.                                   *)
stringvar_from_substr(s, start, stop, wide) ==
  LET seen == {s.pts[i] : i \in {j \in 2 * start + 1..start + stop : j <= Len(s.pts)}}
      beyond == wide /\ start + stop > Len(s.pts) /\ ~IsAscii(s.pts)
      most == IF s.w = 1 \/ beyond THEN s.w ELSE maxchr_to_width(Max(seen \cup {0}))
  IN IF start = stop THEN Empty
     ELSE IF most < s.w THEN string_getslice(s, start, stop, 1)
     ELSE stringvar_from_points(Part(s.pts, start, stop), s.w)

(* Both arrays are brought to the wider width; the positions found in      *)
(* units of the helper are taken as positions of points.  What is left     *)
(* keeps the width.                                                        *)
string_lrstrip(s, chars, flag) ==
  LET w == Wider(s.w, chars.w)
      skip == ToSet(SubSeq(Units(chars.pts, w, UnitWidth(w)), 1, Len(chars.pts)))
      src == SubSeq(Units(s.pts, w, UnitWidth(w)), 1, Len(s.pts))
      kept == {p \in DOMAIN src : src[p] \notin skip}
      start == IF flag = "right" THEN 0 ELSE Min({p - 1 : p \in kept} \cup {Len(src)})
      end == IF flag = "left" \/ start = Len(src) THEN Len(src) ELSE Max(kept \cup {0})
  IN IF start = end THEN Empty ELSE stringvar_from_points(Part(s.pts, start, end), s.w)

(* The three parts; those before and behind keep the width.                *)
string_lrpartition(s, sep, flag) ==
  LET idx == find_or_count(s, sep, flag)
      piece(from, to) == stringvar_from_points(Part(s.pts, from, to), s.w)
  IN IF idx < 0 THEN <<s, Empty, Empty>>
     ELSE <<piece(0, idx), sep, piece(idx + Len(sep.pts), Len(s.pts))>>

string_removelr(s, arg, flag, wide) ==
  LET n == Len(s.pts)  k == Len(arg.pts)
      pos == IF flag = "right" THEN n - k ELSE 0
  IN IF k > n \/ find_or_count(s, arg, flag) # pos THEN s
     ELSE IF flag = "right" THEN stringvar_from_substr(s, 0, pos, wide)
     ELSE IF k = n THEN Empty ELSE stringvar_from_substr(s, k, n, wide)

-----------------------------------------------------------------------------
(* Splitting *)

split_combine_right(s, sep, idx) ==
  LET k == Len(sep.pts)
      down[i \in 0..idx] ==
        IF i >= k /\ match_here_anywidth(s, sep, i - k) THEN [idx |-> down[i - k].idx, n |-> down[i - k].n + 1]
        ELSE [idx |-> i, n |-> 0]
  IN down[idx]

split_combine_left(s, sep, idx, end) ==
  LET k == Len(sep.pts)
      up[i \in idx..end] ==
        IF i + k < end /\ match_here_anywidth(s, sep, i + k) THEN [idx |-> up[i + k].idx, n |-> up[i + k].n + 1]
        ELSE [idx |-> i, n |-> 0]
  IN up[idx]

(* A field between separators is dropped when it is empty; of separators   *)
(* in a row each but the first gives an empty field, unless none was       *)
(* given, and all of them count as one split.                              *)
SplitAt(max, s, sep, right, start, end) ==
  IF max = 0 THEN NotFound ELSE find_or_count_within(s, sep, IF right THEN "right" ELSE "left", start, end)

Run(s, sep, right, combine, idx, end) ==
  CASE combine \/ idx < 0 -> [idx |-> idx, n |-> 0]
    [] ~combine /\ idx >= 0 /\ right -> split_combine_right(s, sep, idx)
    [] OTHER -> split_combine_left(s, sep, idx, end)

RECURSIVE splits(_, _, _, _, _, _, _, _)
splits(s, sep, right, max, combine, start, end, wide) ==
  LET k == Len(sep.pts)
      piece(from, to) == IF from = to THEN << >> ELSE <<stringvar_from_substr(s, from, to, wide)>>
      both(near, run, from, to) ==
        near \o [i \in 1..run.n |-> Empty] \o splits(s, sep, right, max - 1, combine, from, to, wide)
      around(idx, run) ==
        IF right THEN both(piece(idx + k, end), run, start, run.idx) ELSE both(piece(start, idx), run, run.idx + k, end)
      split(idx) == IF idx < 0 THEN piece(start, end) ELSE around(idx, Run(s, sep, right, combine, idx, end))
  IN split(SplitAt(max, s, sep, right, start, end))

(* The separator is a blank if none is given; max is -1 for no limit.      *)
string_lrsplit(s, seps, right, max, wide) ==
  LET turned(found) == IF right THEN Reverse(found) ELSE found
  IN turned(splits(s, IF seps = << >> THEN Literal(<<Space>>) ELSE seps[1], right, max, seps = << >>,
                   0, Len(s.pts), wide))

(* A \r that ends the text is followed by the terminating nullchar.        *)
string_splitlines(s, keep, wide) ==
  LET n == Len(s.pts)
      At(i) == IF i < n THEN s.pts[i + 1] ELSE 0
      RECURSIVE from(_, _)
      from(j, i) ==
        IF i >= n THEN (IF i > j THEN <<stringvar_from_substr(s, j, i, wide)>> ELSE << >>)
        ELSE IF At(i) \notin {Newline, Return} THEN from(j, i + 1)
        ELSE LET next == IF At(i) = Return /\ At(i + 1) = Newline THEN i + 2 ELSE i + 1
                 eol == IF keep THEN next ELSE i
             IN <<IF eol = j THEN Empty ELSE stringvar_from_substr(s, j, eol, wide)>> \o from(next, next)
  IN from(0, 0)

-----------------------------------------------------------------------------
(* Building *)

string_cat(a, b) == Written(Wider(a.w, b.w), a.pts \o b.pts)

(* The array is searched in units of the writer's first width, which is    *)
(* that of the replacement if it is the narrower.                          *)
string_replace(hay, needle, repl) ==
  LET k == Len(needle.pts)  n == Len(hay.pts)  w == Min({repl.w, hay.w})
      RECURSIVE from(_)
      from(start) ==
        LET idx == IF start + k > n THEN NotFound
                   ELSE find_or_count_by_width(hay.pts, needle.pts, start, n, "left", hay.w, w)
        IN IF idx < 0 THEN Part(hay.pts, start, n) ELSE Part(hay.pts, start, idx) \o repl.pts \o from(idx + k)
  IN IF n < k \/ hay.w < needle.w \/ k = 0 THEN hay ELSE Written(w, from(0))

string_lrjust(s, width, flag) ==
  LET n == Len(s.pts)
      pad == IF width < n THEN 0 ELSE width - n
      front == CASE flag = "right" -> pad [] flag = "center" -> pad \div 2 [] OTHER -> 0
  IN IF pad = 0 THEN s ELSE Written(s.w, Of(Space, front) \o s.pts \o Of(Space, pad - front))

(* Joining the characters of a string.  The width is that of the widest    *)
(* string that is written.                                                 *)
string_join_string(s, other) ==
  LET n == Len(other.pts)
      chars == [i \in 1..n |-> <<other.pts[i]>>]
  IN IF n = 0 THEN Empty
     ELSE IF n = 1 \/ s.pts = << >> THEN other
     ELSE Written(Wider(other.w, IF n > 2 THEN s.w ELSE 1), Joined(chars, s.pts))

(* The writer begins with the width of the glue, needed or not.            *)
string_join_iterable(s, strs) == Written(s.w, Joined([i \in DOMAIN strs |-> strs[i].pts], s.pts))

string_expandtabs(s, size) ==
  LET tab == Max({size, 0})
      step(acc, c) ==
        LET stop == IF acc.col = acc.stop THEN acc.stop + tab ELSE acc.stop
            pad == IF stop > acc.col THEN stop - acc.col ELSE 0
        IN CASE c = Newline -> [col |-> 0, stop |-> tab, out |-> Append(acc.out, c)]
             [] c = Tab -> [col |-> acc.col + pad, stop |-> stop + tab, out |-> acc.out \o Of(Space, pad)]
             [] OTHER -> [col |-> acc.col + 1, stop |-> stop, out |-> Append(acc.out, c)]
  IN Written(s.w, FoldLeft(step, [col |-> 0, stop |-> tab, out |-> << >>], s.pts).out)

(* The sign is written first, and then again with what follows it, as      *)
(* often as there are characters behind it.                                *)
string_zfill(s, width) ==
  LET n == Len(s.pts)
      sign == IF n > 0 /\ s.pts[1] \in {Plus, Minus} THEN 1 ELSE 0
  IN Written(1, SubSeq(s.pts, 1, sign) \o Of(Zero, Max({0, width - n})) \o SubSeq(s.pts, 1, n - sign))

-----------------------------------------------------------------------------
(* Letters *)

evc_isupper(c) == c \in 65..90
evc_islower(c) == c \in 97..122
evc_toupper(c) == IF evc_islower(c) THEN c - 32 ELSE c
evc_tolower(c) == IF evc_isupper(c) THEN c + 32 ELSE c

string_to(s, Case(_)) == Written(s.w, [i \in DOMAIN s.pts |-> Case(s.pts[i])])
to_swap(c) == IF evc_isupper(c) THEN evc_tolower(c) ELSE evc_toupper(c)

string_capitalize(s) ==
  IF s.pts = << >> THEN s
  ELSE Written(s.w, [i \in DOMAIN s.pts |-> IF i = 1 THEN evc_toupper(s.pts[i]) ELSE evc_tolower(s.pts[i])])

(* A letter behind anything but a letter begins a word.                    *)
Begins(s, i) == i = 1 \/ ~(evc_isupper(s.pts[i - 1]) \/ evc_islower(s.pts[i - 1]))
string_title(s) ==
  Written(s.w, [i \in DOMAIN s.pts |-> IF Begins(s, i) THEN evc_toupper(s.pts[i]) ELSE evc_tolower(s.pts[i])])
is_title(s) == s.pts # << >> /\ \A i \in DOMAIN s.pts : Begins(s, i) => ~evc_islower(s.pts[i])
string_isupper(s) == s.pts # << >> /\ \A i \in DOMAIN s.pts : evc_isupper(s.pts[i])

-----------------------------------------------------------------------------
(* Comparing: by width and array for equality, by C string for order *)

string_eq(a, b) == Len(a.pts) = Len(b.pts) /\ a.w = b.w /\ a.pts = b.pts

(* The points 0x7ff and 0xffff are given a byte too many.                  *)
string_encode_point(p) ==
  LET low(k) == 128 + ((p \div 64 ^ k) % 64)
  IN CASE p < 128 -> <<p>>
       [] p >= 128 /\ p < 2047 -> <<192 + (p \div 64), low(0)>>
       [] p >= 2047 /\ p < 65535 -> <<224 + (p \div 4096), low(1), low(0)>>
       [] OTHER -> <<240 + (p \div 262144), low(2), low(1), low(0)>>

string_encode_points_utf8(s) == FlattenSeq([i \in DOMAIN s.pts |-> string_encode_point(s.pts[i])])

(* Less, equal or greater as -1, 0 and 1: the first byte that differs, or  *)
(* the shorter one.                                                        *)
memcmp(a, b) ==
  LET differ == {i \in 1..Min({Len(a), Len(b)}) : a[i] # b[i]}
      i == Min(differ)
  IN CASE differ # {} -> (IF a[i] > b[i] THEN 1 ELSE -1)
       [] Len(a) > Len(b) -> 1
       [] Len(a) < Len(b) -> -1
       [] OTHER -> 0

string_cmp(a, b) == memcmp(string_encode_points_utf8(a), string_encode_points_utf8(b))

is_continuation(c) == c >= 128 /\ c < 192

(* What bytes say as UTF-8, or that they do not: how many bytes the first  *)
(* one calls for, surrogates and points that are too great.  An overlong   *)
(* form is taken.                                                          *)
Malformed == <<-1>>

RECURSIVE string_writer_decode_utf8(_)
string_writer_decode_utf8(u8) ==
  LET c == u8[1]
      k == CASE c < 128 -> 1 [] c >= 192 /\ c < 224 -> 2 [] c >= 224 /\ c < 240 -> 3
             [] c >= 240 /\ c < 248 -> 4 [] OTHER -> 0
      lead == CASE k = 1 -> c [] k = 2 -> c % 32 [] k = 3 -> c % 16 [] OTHER -> c % 8
      point == FoldLeft(LAMBDA acc, x : acc * 64 + (x % 64), lead, SubSeq(u8, 2, k))
      rest == string_writer_decode_utf8(SubSeq(u8, k + 1, Len(u8)))
  IN IF u8 = << >> THEN << >>
     ELSE IF \/ k = 0 \/ k > Len(u8)
             \/ \E i \in 2..k : ~is_continuation(u8[i])
             \/ point > 1114111
             \/ (k = 3 /\ point \in 55296..57343)
          THEN Malformed
     ELSE IF rest = Malformed THEN Malformed ELSE <<point>> \o rest
=============================================================================
