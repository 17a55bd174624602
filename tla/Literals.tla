------------------------------ MODULE Literals ------------------------------
(***************************************************************************)
(* How values are written and read: string_str(), string_parse(),          *)
(* bytes_str(), bytesvar_from_source(), and the reading of numbers of      *)
(* strto.c.  Source text is a sequence of characters.                      *)
(***************************************************************************)
EXTENDS Text

SQ == 39
DQ == 34
BKSL == 92
Letter_b == 98
Letter_x == 120
Letter_u == 117
Letter_U == 85

Unreadable == <<-1>>

IsDigit(c) == c \in 48..57
isodigit(c) == c \in 48..55
isxdigit(c) == IsDigit(c) \/ c \in 65..70 \/ c \in 97..102
x2bin(c) == IF IsDigit(c) THEN c - 48 ELSE evc_toupper(c) - 55

HexDigit(d) == IF d < 10 THEN 48 + d ELSE 87 + d
Digits(n, base, k) == [i \in 1..k |-> HexDigit((n \div base ^ (k - i)) % base)]

(* How many digits n has, which is not negative.                           *)
DigitCount(n, base) ==
  LET count[m \in 0..n] == IF m < base THEN 1 ELSE 1 + count[m \div base] IN count[n]

(* The number that digits of a base stand for.                             *)
Number(digits, base) == FoldLeft(LAMBDA acc, c : acc * base + x2bin(c), 0, digits)

(* How many of the first characters pass a test, but for most at most.     *)
Span(t, Test(_), most) ==
  LET k == Min({most, Len(t)}) IN Min({i - 1 : i \in {j \in 1..k : ~Test(t[j])}} \cup {k})

utf8_valid_unicode(p) == p <= 1114111 /\ ~(p \in 55296..57343)

-----------------------------------------------------------------------------
(* Writing *)

(* The letters of the escapes both kinds of literal know.                  *)
Escapes == [c \in {7, 8, 27, 12, 10, 13, 9, 11} |->
              CASE c = 7 -> 97 [] c = 8 -> 98 [] c = 27 -> 101 [] c = 12 -> 102
                [] c = 10 -> 110 [] c = 13 -> 114 [] c = 9 -> 116 [] OTHER -> 118]

Graphic(c) == c \in 33..126

(* Seeded fault: the backslash is written as it is.                        *)
string_str_BareBackslash(pts) ==
  LET one(c) ==
        CASE c = SQ -> <<BKSL, SQ>>
          [] c = 0 -> <<BKSL, 48>>
          [] c \in Blanks \ {Space} -> <<BKSL, Escapes[c]>>
          [] c = Space \/ Graphic(c) \/ c = BKSL -> <<c>>
          [] c > 65535 -> <<BKSL, Letter_U>> \o Digits(c, 16, 8)
          [] c > 255 /\ c <= 65535 -> <<BKSL, Letter_u>> \o Digits(c, 16, 4)
          [] OTHER -> <<BKSL>> \o Digits(c, 8, 3)
  IN <<SQ>> \o FlattenSeq([i \in DOMAIN pts |-> one(pts[i])]) \o <<SQ>>

string_str(pts) ==
  LET one(c) ==
        CASE c \in {SQ, BKSL} -> <<BKSL, c>>
          [] c = 0 -> <<BKSL, 48>>
          [] c \in Blanks \ {Space} -> <<BKSL, Escapes[c]>>
          [] (c = Space \/ Graphic(c)) /\ c \notin {SQ, BKSL} -> <<c>>
          [] c > 65535 -> <<BKSL, Letter_U>> \o Digits(c, 16, 8)
          [] c > 255 /\ c <= 65535 -> <<BKSL, Letter_u>> \o Digits(c, 16, 4)
          [] OTHER -> <<BKSL>> \o Digits(c, 8, 3)
  IN <<SQ>> \o FlattenSeq([i \in DOMAIN pts |-> one(pts[i])]) \o <<SQ>>

bytes_str(b) ==
  LET one(c) ==
        CASE c \in {SQ, BKSL} -> <<BKSL, c>>
          [] c \in Blanks \ {Space} -> <<BKSL, Escapes[c]>>
          [] (c = Space \/ Graphic(c)) /\ c \notin {SQ, BKSL} -> <<c>>
          [] OTHER -> <<BKSL>> \o Digits(c, 8, 3)
  IN <<Letter_b, SQ>> \o FlattenSeq([i \in DOMAIN b |-> one(b[i])]) \o <<SQ>>

-----------------------------------------------------------------------------
(* Reading.  What follows a backslash gives a point and says how many      *)
(* characters it took, or none if it is no escape.                         *)

NoEscape == [point |-> 0, took |-> 0]
Taken(p, k) == [point |-> p, took |-> k]

octal(t) ==
  LET k == Span(t, isodigit, 3)
      v == Number(SubSeq(t, 1, k), 8)
  IN IF v > 255 THEN NoEscape ELSE Taken(v, k)

hex(t, k) ==
  IF Span(Tail(t), isxdigit, k) < k THEN NoEscape ELSE Taken(Number(SubSeq(t, 2, k + 1), 16), k + 1)

enumerated(c) == {p \in DOMAIN Escapes : Escapes[p] = c}

(* In a string the digit 0 is the nullchar, whatever follows it.           *)
string_escape(t, q) ==
  LET c == Head(t)
      k == IF c = Letter_u THEN 4 ELSE 8
      point == hex(t, k)
  IN CASE c = q \/ c = BKSL -> Taken(c, 1)
       [] c = Zero -> Taken(0, 1)
       [] enumerated(c) # {} -> Taken(Min(enumerated(c)), 1)
       [] isodigit(c) /\ c # Zero -> octal(t)
       [] c \in {Letter_x, Letter_x - 32} -> hex(t, 2)
       [] c \in {Letter_u, Letter_U} -> (IF utf8_valid_unicode(point.point) THEN point ELSE NoEscape)
       [] OTHER -> NoEscape

bytes_escape(t, q) ==
  LET c == Head(t)
  IN CASE c = q \/ c = BKSL -> Taken(c, 1)
       [] enumerated(c) # {} -> Taken(Min(enumerated(c)), 1)
       [] isodigit(c) -> octal(t)
       [] c \in {Letter_x, Letter_x - 32} -> hex(t, 2)
       [] OTHER -> NoEscape

(* The characters up to the quote q; adjacent literals follow, each with   *)
(* its own opening, which is prefix characters long.  The tokenizer must   *)
(* have seen to it that every quote is there: both functions assert it.    *)
Trapped == <<-2>>

RECURSIVE unquoted(_, _, _)
unquoted(t, q, prefix) ==
  LET e == IF prefix = 1 THEN string_escape(Tail(t), q) ELSE bytes_escape(Tail(t), q)
      more(k) == unquoted(SubSeq(t, k + 1, Len(t)), q, prefix)
      Behind(p, rest) == IF rest \in {Unreadable, Trapped} THEN rest ELSE <<p>> \o rest
  IN IF t = << >> THEN Trapped
     ELSE IF Head(t) = q
          THEN IF Len(t) = 1 THEN << >>
               ELSE IF Len(t) <= prefix \/ t[prefix + 1] \notin {SQ, DQ} THEN Trapped
               ELSE unquoted(SubSeq(t, prefix + 2, Len(t)), t[prefix + 1], prefix)
     ELSE IF Head(t) # BKSL THEN Behind(Head(t), more(1))
     ELSE IF Len(t) = 1 THEN Trapped
     ELSE IF e.took = 0 THEN Unreadable
     ELSE Behind(e.point, more(e.took + 1))

string_parse(src) == unquoted(Tail(src), Head(src), 1)
bytesvar_from_source(src) == unquoted(SubSeq(src, 3, Len(src)), src[2], 2)

-----------------------------------------------------------------------------
(* Numbers, in a machine whose words are Bits wide *)

CONSTANT Bits
ASSUME BitsAssumption == Bits \in Nat /\ Bits >= 4 /\ Bits % 2 = 0

Signed(n) == LET m == n % 2 ^ Bits IN IF m >= 2 ^ (Bits - 1) THEN m - 2 ^ Bits ELSE m

(* Decimal digits of n, as "%lld" writes them.                             *)
int_str(n) ==
  LET abs == IF n < 0 THEN -n ELSE n
  IN (IF n < 0 THEN <<Minus>> ELSE << >>) \o Digits(abs, 10, DigitCount(abs, 10))

isinbase(c, base) ==
  \/ IsDigit(c) /\ (base <= 10 => c - 48 < base)
  \/ base > 10 /\ evc_isupper(evc_toupper(c)) /\ evc_toupper(c) - 55 < base

HeaderLetter(base) == CASE base = 2 -> 66 [] base = 8 -> 79 [] base = 16 -> 88 [] OTHER -> 0
HasHeader(t, base) ==
  HeaderLetter(base) # 0 /\ Len(t) > 1 /\ t[1] = Zero /\ t[2] \in {HeaderLetter(base), HeaderLetter(base) + 32}

Skipped(t, k) == SubSeq(t, k + 1, Len(t))

(* strtoull() takes as many digits as there are after a plus sign; with    *)
(* none, or with a number that does not fit, there is no result.  A header *)
(* without base sets the base, and a leading 0 makes it 8.                 *)
NoNumber == [val |-> 0, end |-> 0]
Header(t, at, base) == IF HasHeader(Skipped(t, at), base) THEN 2 ELSE 0
PlusAt(t, at) == IF at < Len(t) /\ t[at + 1] = Plus THEN 1 ELSE 0
BehindPlus(t, at, base) == at + PlusAt(t, at) + (IF base = 16 THEN Header(t, at + PlusAt(t, at), 16) ELSE 0)
DigitsEnd(t, at, base) == at + Span(Skipped(t, at), LAMBDA c : isinbase(c, base), Len(t))

OwnBase(t) ==
  LET bases == {b \in {16, 2, 8} : HasHeader(t, b)}
  IN IF bases # {} THEN Min(bases) ELSE IF t # << >> /\ t[1] = Zero THEN 8 ELSE 10

Worth(negative, val, end) ==
  IF val >= 2 ^ Bits THEN NoNumber ELSE [val |-> Signed(IF negative THEN -val ELSE val), end |-> end]

NumberBetween(s, minus, from, to, base) ==
  IF from = to THEN NoNumber ELSE Worth(minus = 1, Number(Part(s, from, to), base), to)

NumberFrom(s, minus, from, base) == NumberBetween(s, minus, from, DigitsEnd(s, from, base), base)

NumberInBase(s, minus, base) == NumberFrom(s, minus, BehindPlus(s, minus + Header(s, minus, base), base), base)

evc_strtol(s, base) ==
  LET minus == IF s # << >> /\ Head(s) = Minus THEN 1 ELSE 0
  IN NumberInBase(s, minus, IF base # 0 THEN base ELSE OwnBase(Skipped(s, minus)))

(* The whole string as an integer, blanks at both ends aside: one sign,    *)
(* the header of the base, digits of the base; base 0 is 10.  What was     *)
(* found is read again by evc_strtol().                                    *)
WholeNumber(found, len) == IF found.end < len THEN NoNumber ELSE found
NumberUpTo(t, sign, len, base) == IF len = sign THEN NoNumber ELSE WholeNumber(evc_strtol(Part(t, 0, len), base), len)

string_toll(t, base) ==
  LET sign == IF t # << >> /\ Head(t) \in {Plus, Minus} THEN 1 ELSE 0
      b == IF base = 0 THEN 10 ELSE base
  IN NumberUpTo(t, sign, DigitsEnd(t, sign + Header(t, sign, b), b), b)

OnlyNumber(body, found) ==
  IF found.end = 0 \/ StrippedLeft(Skipped(body, found.end), Blanks) # << >> THEN << >> ELSE <<found.val>>

int_create(t, base) ==
  LET body == StrippedLeft(t, Blanks) IN OnlyNumber(body, string_toll(body, base))

(* How many characters of a floating-point number there are, and whether   *)
(* it may be an integer: digits, a point and digits, an exponent.          *)
SpanDigits(t, at) == Span(Skipped(t, at), IsDigit, Len(t))

Exponent(t, m, sign) ==
  IF SpanDigits(t, m + 1 + sign) = 0 THEN [len |-> 0, int |-> FALSE]
  ELSE [len |-> m + 1 + sign + SpanDigits(t, m + 1 + sign), int |-> FALSE]

Mantissa(t, d1, point, d2) ==
  LET m == d1 + point + d2
      exp == m < Len(t) /\ t[m + 1] \in {69, 101}
  IN IF d1 + d2 = 0 THEN [len |-> 0, int |-> FALSE]
     ELSE IF exp THEN Exponent(t, m, IF m + 1 < Len(t) /\ t[m + 2] \in {Plus, Minus} THEN 1 ELSE 0)
     ELSE [len |-> m, int |-> point = 0]

WithPoint(t, d1) ==
  IF d1 < Len(t) /\ t[d1 + 1] = 46 THEN Mantissa(t, d1, 1, SpanDigits(t, d1 + 1)) ELSE Mantissa(t, d1, 0, 0)

string_span_float(t) == WithPoint(t, SpanDigits(t, 0))
=============================================================================
