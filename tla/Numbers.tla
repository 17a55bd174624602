------------------------------- MODULE Numbers ------------------------------
(***************************************************************************)
(* types/integer.c: integers are words of Bits bits with a sign; what does *)
(* not fit wraps round, as the build does it.  And the integer and string  *)
(* conversions of printf-like formatting in types/string.c.                *)
(***************************************************************************)
EXTENDS Literals

Smallest == -2 ^ (Bits - 1)
Words == Smallest..2 ^ (Bits - 1) - 1
Magnitude(n) == IF n < 0 THEN -n ELSE n

(* An operation gives no value if it raises NumberError, and stops the     *)
(* program if the processor cannot represent the result of a division.     *)
Raises == << >>
Stops == <<"SIGFPE">>

-----------------------------------------------------------------------------
(* Powers by repeated squaring.  The limit of a base that may be squared   *)
(* is unsigned, so a negative one is over it.                              *)

LL_SQUARE_LIMIT == 2 ^ (Bits \div 2)

RECURSIVE squaring(_, _, _)
squaring(x, y, a) ==
  LET b == IF y % 2 = 1 THEN Signed(x * a) ELSE a
  IN IF y <= 1 THEN (IF Signed(x * a) < x THEN Raises ELSE <<Signed(x * a)>>)
     ELSE IF x \notin 0..LL_SQUARE_LIMIT - 1 THEN Raises
     ELSE squaring(Signed(x * x), y \div 2, b)

(* Seeded fault: the sign of an odd power is that of an even one.          *)
ipow_EvenSign(x, y) ==
  LET found == squaring(Signed(Magnitude(x)), y, 1)
  IN CASE y <= 0 -> <<IF y = 0 THEN 1 ELSE 0>>
       [] y > 0 /\ x \in {0, 1} -> <<x>>
       [] OTHER -> found

ipow(x, y) ==
  LET found == squaring(Signed(Magnitude(x)), y, 1)
      sign == IF x < 0 /\ y % 2 = 1 THEN -1 ELSE 1
  IN CASE y <= 0 -> <<IF y = 0 THEN 1 ELSE 0>>
       [] y > 0 /\ x \in {0, 1} -> <<x>>
       [] OTHER -> IF found = Raises THEN Raises ELSE <<Signed(found[1] * sign)>>

int_mul(a, b) == <<Signed(a * b)>>
int_add(a, b) == <<Signed(a + b)>>
int_sub(a, b) == <<Signed(a - b)>>

(* C divides towards zero.                                                 *)
Quotient(a, b) ==
  LET q == Magnitude(a) \div Magnitude(b) IN IF (a < 0) = (b < 0) THEN q ELSE -q
int_div(a, b) ==
  CASE b = 0 -> Raises
    [] b # 0 /\ a = Smallest /\ b = -1 -> Stops
    [] OTHER -> <<Quotient(a, b)>>
int_mod(a, b) ==
  CASE b = 0 -> Raises
    [] b # 0 /\ a = Smallest /\ b = -1 -> Stops
    [] OTHER -> <<a - Quotient(a, b) * b>>

(* By less than Bits places; C leaves every other count undefined.         *)
int_lshift(a, n) == <<Signed(a * 2 ^ n)>>
int_rshift(a, n) == <<a \div 2 ^ n>>

bit(a, i) == ((a % 2 ^ Bits) \div 2 ^ i) % 2
bitwise(a, b, Op(_, _)) ==
  <<Signed(FoldLeft(LAMBDA acc, i : acc + 2 ^ i * Op(bit(a, i), bit(b, i)), 0, [i \in 1..Bits |-> i - 1]))>>
int_bit_and(a, b) == bitwise(a, b, LAMBDA x, y : x * y)
int_bit_or(a, b) == bitwise(a, b, LAMBDA x, y : x + y - x * y)
int_xor(a, b) == bitwise(a, b, LAMBDA x, y : (x + y) % 2)

int_bit_not(a) == -a - 1
int_negate(a) == Signed(-a)
int_abs(a) == IF a < 0 THEN Signed(-a) ELSE a

int_bit_length(a) == Min({k \in 0..Bits : a % 2 ^ Bits < 2 ^ k})
int_bit_count(a) == Cardinality({i \in 0..Bits - 1 : bit(a, i) = 1})
int_cmp(a, b) == CASE a < b -> -1 [] a > b -> 1 [] OTHER -> 0

-----------------------------------------------------------------------------
(* Formats.  A value is an integer or a string as a record of its kind and *)
(* its number or points; floats are not modelled.                          *)

PAD_MAX == 6
Percent == 37
Brace == 123
CloseBrace == 125
Paren == 40
Colon == 58
Conv_d == 100
Conv_u == 117
Conv_x == 120
Conv_X == 88
Conv_s == 115
None == 0

Default == [conv |-> None, rjust |-> TRUE, padc |-> Space, padlen |-> 0, pos |-> 0, ok |-> TRUE]

(* Flags, a width, a conversion and, in braces, the closing brace, from    *)
(* place pos of fmt on, which counts from 0.  Where the code asks whether  *)
(* the format ends behind the conversion it compares the conversion's own  *)
(* character with the length; what it then reads is no brace.              *)
FailedArgs == [Default EXCEPT !.ok = FALSE]
Conversions == {Conv_d, Conv_u, Conv_x, Conv_X, Conv_s}

WithConversion(fmt, conv, endchr) ==
  IF endchr = None THEN conv
  ELSE IF conv.conv # Len(fmt) /\ conv.pos < Len(fmt) /\ fmt[conv.pos + 1] = endchr
       THEN [conv EXCEPT !.pos = @ + 1]
  ELSE FailedArgs

Conversion(fmt, args, q, endchr) ==
  CASE q = Len(fmt) -> (IF endchr = None THEN args ELSE FailedArgs)
    [] q < Len(fmt) /\ fmt[q + 1] \in Conversions ->
         WithConversion(fmt, [args EXCEPT !.conv = fmt[q + 1], !.pos = q + 1], endchr)
    [] OTHER -> IF endchr = None THEN args
                ELSE IF fmt[q + 1] = endchr THEN [args EXCEPT !.pos = q + 1] ELSE FailedArgs

Width(fmt, flags, p, q, endchr) ==
  Conversion(fmt, [Default EXCEPT !.rjust = Minus \notin flags,
                                  !.padc = IF Zero \in flags THEN Zero ELSE Space,
                                  !.padlen = Min({PAD_MAX, Number(Part(fmt, p, q), 10)}),
                                  !.pos = q], q, endchr)

FlagsUpTo(fmt, pos, p, endchr) == Width(fmt, ToSet(Part(fmt, pos, p)), p, p + Span(Skipped(fmt, p), IsDigit, Len(fmt)), endchr)

parse_fmt_args(fmt, pos, endchr) ==
  FlagsUpTo(fmt, pos, pos + Span(Skipped(fmt, pos), LAMBDA c : c \in {Minus, Zero}, Len(fmt)), endchr)

(* The padding is written behind and then exchanged, place by place.       *)
swap_pad(out, count, padlen) ==
  LET n == Len(out)
      swap(acc, i) == [acc EXCEPT ![n - i] = acc[n - i - padlen], ![n - i - padlen] = acc[n - i]]
  IN FoldLeft(swap, out, [i \in 1..count |-> i - 1])

Justified(out, count, fa, padc) ==
  LET pad == Max({0, fa.padlen - count})
      padded == out \o Of(padc, pad)
  IN IF pad > 0 /\ fa.rjust THEN swap_pad(padded, count, pad) ELSE padded

(* Digits of n, which is not negative.                                     *)
Shown(n, base, conv) ==
  LET lower == Digits(n, base, DigitCount(n, base))
  IN IF conv = Conv_X THEN [i \in DOMAIN lower |-> evc_toupper(lower[i])] ELSE lower

format2_i(out, n, fa) ==
  LET base == IF fa.conv \in {Conv_d, Conv_u} THEN 10 ELSE 16
      text == IF fa.conv = Conv_d THEN int_str(n) ELSE Shown(n % 2 ^ Bits, base, fa.conv)
  IN Justified(out \o text, Len(text), fa, IF fa.rjust THEN fa.padc ELSE Space)

format2_s(out, pts, fa) == Justified(out \o pts, Len(pts), fa, fa.padc)

format2_output(out, arg, fa) ==
  LET conv == IF fa.conv # None THEN fa.conv ELSE IF arg.kind = "integer" THEN Conv_d ELSE Conv_s
  IN IF conv = Conv_s
     THEN format2_s(out, IF arg.kind = "integer" THEN int_str(arg.pts[1]) ELSE arg.pts, fa)
     ELSE IF arg.kind # "integer" THEN out ELSE format2_i(out, arg.pts[1], [fa EXCEPT !.conv = conv])

(* string % tuple.  A format with no argument left for it is copied, but   *)
(* for the percent sign; a name has no argument in a tuple.                *)
string_printf(fmt, args) ==
  LET n == Len(fmt)
      RECURSIVE from(_, _, _)
      from(i, argi, out) ==
        LET arg(fa) == from(fa.pos, argi + 1, format2_output(out, args[argi], fa))
        IN IF i >= n THEN out
           ELSE IF fmt[i + 1] # Percent THEN from(i + 1, argi, Append(out, fmt[i + 1]))
           ELSE IF i + 1 = n THEN out
           ELSE IF fmt[i + 2] = Percent THEN from(i + 2, argi, Append(out, Percent))
           ELSE IF fmt[i + 2] = Paren THEN from(i + 2, argi, out)
           ELSE IF argi > Len(args) THEN from(i + 1, argi + 1, out)
           ELSE arg(parse_fmt_args(fmt, i + 1, None))
  IN from(0, 1, << >>)

(* str.format(): the fields in braces; none is a mistake of the format.    *)
(* A number before the closing brace chooses the argument, and is then     *)
(* itself taken for a mistake, for the character looked at is still the    *)
(* first digit.                                                            *)
string_format(fmt, args) ==
  LET n == Len(fmt)
      At(i) == IF i < n THEN fmt[i + 1] ELSE None
      RECURSIVE from(_, _, _)
      from(i, argi, out) ==
        LET twice == At(i + 1) = At(i)
            arg(fa) == IF ~fa.ok \/ argi > Len(args) THEN Raises
                       ELSE from(fa.pos, argi + 1, format2_output(out, args[argi], fa))
            field == CASE At(i + 1) = CloseBrace -> [Default EXCEPT !.pos = i + 2]
                       [] At(i + 1) = Colon /\ i + 2 < n -> parse_fmt_args(fmt, i + 2, CloseBrace)
                       [] OTHER -> FailedArgs
        IN CASE i >= n -> <<out>>
             [] i < n /\ At(i) = Brace /\ i + 1 < n /\ ~twice -> arg(field)
             [] i < n /\ At(i) = CloseBrace /\ ~twice -> Raises
             [] i < n /\ At(i) \in {Brace, CloseBrace} /\ i + 1 < n /\ twice -> from(i + 2, argi, Append(out, At(i)))
             [] OTHER -> from(i + 1, argi, Append(out, At(i)))
  IN from(0, 1, << >>)
=============================================================================
