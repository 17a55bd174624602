------------------------------- MODULE Values -------------------------------
(***************************************************************************)
(* A value that goes from one method to the next: strings, bytes and       *)
(* integers, with the conversions between them.  Every value that calls    *)
(* can make of the literals is tried with every method and small argument, *)
(* and each answer compared with what the method means (TextMeaning).      *)
(*                                                                         *)
(* What reads beyond the end of an array depends on what is there (wide).  *)
(* A string whose array is not even there (Broken) is not used further.    *)
(***************************************************************************)
EXTENDS Numbers, Bytes

CONSTANTS
  Points,     \* the characters of string literals
  Octets,     \* the bytes of bytes literals
  Needles,    \* the strings that are looked for, stripped, joined...
  MaxLen      \* of a value

VARIABLE value
vars == <<value>>

(* A string carries its width; bytes and integers have none.               *)
AsString(s) == [kind |-> "string", w |-> s.w, pts |-> s.pts]
AsBytes(b) == [kind |-> "bytes", w |-> 1, pts |-> b]
AsInteger(n) == [kind |-> "integer", w |-> 1, pts |-> <<n>>]

TextsOf(chars, n) == UNION {[1..k -> chars] : k \in 0..n}

Becomes(v) == Len(v.pts) <= MaxLen /\ value' = v
BecomesOneOf(strings) == \E i \in DOMAIN strings : Becomes(AsString(strings[i]))

IsString == value.kind = "string" /\ ~Broken(value)
IsBytes == value.kind = "bytes"
IsInteger == value.kind = "integer"

Init == value \in {AsString(Literal(t)) : t \in TextsOf(Points, 2)}
                    \cup {AsBytes(b) : b \in TextsOf(Octets, 2)}
                    \cup {AsInteger(n) : n \in Words}

-----------------------------------------------------------------------------
(* Methods of strings *)

Args == {Literal(t) : t \in Needles}
Flags == {"left", "right", "both"}

(* The search asserts that there is something to look for.                 *)
Sought == Args \ {Empty}

Strip == IsString /\ \E a \in Args, f \in Flags : Becomes(AsString(string_lrstrip(value, a, f)))
Partition == IsString /\ \E a \in Sought, f \in {"left", "right"} : BecomesOneOf(string_lrpartition(value, a, f))
RemoveAffix == IsString /\ \E a \in Sought, f \in {"left", "right"}, wide \in BOOLEAN :
                             Becomes(AsString(string_removelr(value, a, f, wide)))
Split == IsString /\ \E a \in Sought, right, wide \in BOOLEAN, max \in {-1, 1} :
                       \/ BecomesOneOf(string_lrsplit(value, <<a>>, right, max, wide))
                       \/ BecomesOneOf(string_lrsplit(value, << >>, right, max, wide))
SplitLines == IsString /\ \E keep, wide \in BOOLEAN : BecomesOneOf(string_splitlines(value, keep, wide))
Slice == IsString /\ \E i \in 0..Len(value.pts), step \in {1, 2} :
                       Becomes(AsString(string_getslice(value, i, Len(value.pts), step)))
Concat == IsString /\ \E a \in Args : Becomes(AsString(string_cat(value, a)))
Replace == IsString /\ \E a, b \in Args : Becomes(AsString(string_replace(value, a, b)))
Justify == IsString /\ \E n \in 0..MaxLen, f \in {"left", "right", "center"} :
                         Becomes(AsString(string_lrjust(value, n, f)))
Join == IsString /\ \E a \in Args : \/ Becomes(AsString(string_join_string(value, a)))
                                    \/ Becomes(AsString(string_join_iterable(value, <<a, a>>)))
ExpandTabs == IsString /\ \E n \in 0..2 : Becomes(AsString(string_expandtabs(value, n)))
ZeroFill == IsString /\ \E n \in 0..MaxLen : Becomes(AsString(string_zfill(value, n)))
ChangeCase ==
  IsString /\ \/ Becomes(AsString(string_to(value, evc_toupper)))
              \/ Becomes(AsString(string_to(value, to_swap)))
              \/ Becomes(AsString(string_capitalize(value)))
              \/ Becomes(AsString(string_title(value)))

(* Conversions *)

Encode == IsString /\ \/ Becomes(AsBytes(string_encode_points_utf8(value)))
                      \/ \E e \in {127, 255} :
                           \E b \in ToSet(bytes_from_string_arg_1wide(value.pts, e)) : Becomes(AsBytes(b))
Decode == IsBytes /\ \/ /\ string_writer_decode_utf8(value.pts) # Malformed
                        /\ Becomes(AsString(Written(1, string_writer_decode_utf8(value.pts))))
                     \/ Becomes(AsString(Written(1, value.pts)))
ToInteger == IsString /\ \E base \in {0, 2, 8, 16} :
                           \E n \in ToSet(int_create(value.pts, base)) : Becomes(AsInteger(n))
Represent == \/ IsString /\ Becomes(AsString(Literal(string_str(value.pts))))
             \/ IsBytes /\ Becomes(AsString(Literal(bytes_str(value.pts))))
             \/ IsInteger /\ Becomes(AsString(Literal(int_str(value.pts[1]))))
Format == IsString /\ \E n \in {-1, 1} : Becomes(AsString(Literal(string_printf(value.pts, <<AsInteger(n)>>))))

(* Methods of bytes *)

ShortBytes == {n \in Needles \ {<< >>} : \A i \in DOMAIN n : n[i] < 256}

Cut == IsBytes /\ \E n \in ShortBytes, right \in BOOLEAN :
         \/ Becomes(AsBytes(bytes_removelr(value.pts, n, right)))
         \/ Becomes(AsBytes(bytes_lrstrip(value.pts, n, IF right THEN "right" ELSE "left")))
         \/ \E b \in ToSet(bytes_lrpartition(value.pts, n, right)) : Becomes(AsBytes(b))
Edit == IsBytes /\ \/ \E a, b \in ShortBytes : Becomes(AsBytes(do_bytes_replace(value.pts, a, b)))
                   \/ \E a \in ShortBytes : Becomes(AsBytes(bytes_cat(value.pts, a)))
                   \/ Becomes(AsBytes(bytes_convert_case(value.pts, Shouted)))
                   \/ Becomes(AsBytes(do_bytes_capitalize(value.pts)))
                   \/ \E n \in 0..MaxLen : Becomes(AsBytes(do_bytes_lrjust(value.pts, n, "center")))

Next ==
  \/ Strip \/ Partition \/ RemoveAffix \/ Split \/ SplitLines \/ Slice \/ Concat \/ Replace
  \/ Justify \/ Join \/ ExpandTabs \/ ZeroFill \/ ChangeCase
  \/ Encode \/ Decode \/ ToInteger \/ Represent \/ Format \/ Cut \/ Edit

Spec == Init /\ [][Next]_vars

-----------------------------------------------------------------------------
(* Every point of a string fits its width, every byte and integer its word.*)
TypeOK ==
  /\ Len(value.pts) <= MaxLen
  /\ value.w \in {1, 2, 4}
  /\ value.kind \in {"string", "bytes"} => \A i \in DOMAIN value.pts :
       value.pts[i] \in 0..1114111 /\ maxchr_to_width(value.pts[i]) <= value.w
  /\ value.kind = "integer" => value.pts[1] \in Words

-----------------------------------------------------------------------------
(* Strings.  Where the code is known to differ from the meaning, a name    *)
(* says so: the second character of what is searched for is not compared   *)
(* (NearMiss), and arrays of four bytes are searched two bytes at a time.  *)

NearMiss(s, n) ==
  Len(n) > 1 /\ \E p \in 0..Len(s) - Len(n) :
                  LET there == Part(s, p, p + Len(n)) IN there # n /\ [there EXCEPT ![2] = n[2]] = n
Searchable(s, n) == s.w < 4 /\ n # << >> /\ ~NearMiss(s.pts, n)

Texts(strings) == [i \in DOMAIN strings |-> strings[i].pts]
Mirrored(fields) == Reverse([i \in DOMAIN fields |-> Reverse(fields[i])])

SearchesAgree(s) ==
  \A n \in Needles : Searchable(s, n) =>
    LET a == Literal(n) IN
    /\ find_or_count(s, a, "left") = First(s.pts, n)
    /\ find_or_count(s, a, "right") = Last_(s.pts, n)
    /\ string_hasitem(s, a) = (Occurrences(s.pts, n) # {})
    /\ find_or_count(s, a, "count") = Cardinality(Disjoint(s.pts, n))
    /\ Texts(string_lrpartition(s, a, "left")) = Parted(s.pts, n, First(s.pts, n))
    /\ Texts(string_lrpartition(s, a, "right")) = Parted(s.pts, n, Last_(s.pts, n))
    /\ starts_or_ends_with(s, a, FALSE) = (0 \in Occurrences(s.pts, n))
    /\ starts_or_ends_with(s, a, TRUE) = (Len(s.pts) - Len(n) \in Occurrences(s.pts, n))

SplitsAgree(s) ==
  \A n \in Needles, wide \in BOOLEAN : Searchable(s, n) =>
    LET a == Literal(n) IN
    /\ Texts(string_lrsplit(s, <<a>>, FALSE, -1, wide)) = TrimmedFields(s.pts, n)
    /\ Texts(string_lrsplit(s, <<a>>, TRUE, -1, wide)) = Mirrored(TrimmedFields(Reverse(s.pts), Reverse(n)))
    /\ \A right \in BOOLEAN :
         Texts(string_lrsplit(s, << >>, right, -1, wide)) = Filled(Fields(s.pts, <<Space>>))
    /\ \A keep \in BOOLEAN : Texts(string_splitlines(s, keep, wide)) = Lines(s.pts, keep)
    /\ string_removelr(s, a, "left", wide).pts =
         IF starts_or_ends_with(s, a, FALSE) THEN Part(s.pts, Len(n), Len(s.pts)) ELSE s.pts
    /\ string_removelr(s, a, "right", wide).pts =
         IF starts_or_ends_with(s, a, TRUE) THEN Part(s.pts, 0, Len(s.pts) - Len(n)) ELSE s.pts

(* The sign of what is filled with zeros is written twice; a replacement   *)
(* that is narrower than the text is put where nothing was found.          *)
EditsAgree(s) ==
  /\ \A a, b \in Args : Searchable(s, a.pts) /\ b.w >= s.w =>
       string_replace(s, a, b).pts = Replaced(s.pts, a.pts, b.pts)
  /\ \A a \in Args : s.w < 4 /\ a.w < 4 =>
       /\ string_lrstrip(s, a, "left").pts = StrippedLeft(s.pts, ToSet(a.pts))
       /\ string_lrstrip(s, a, "right").pts = StrippedRight(s.pts, ToSet(a.pts))
       /\ string_lrstrip(s, a, "both").pts = StrippedLeft(StrippedRight(s.pts, ToSet(a.pts)), ToSet(a.pts))
  /\ \A a \in Args : string_join_string(a, s).pts = Joined([i \in DOMAIN s.pts |-> <<s.pts[i]>>], a.pts)
  /\ \A n \in 0..MaxLen + 2 :
       /\ string_lrjust(s, n, "center").pts = Centered(s.pts, n)
       /\ string_lrjust(s, n, "left").pts = s.pts \o Of(Space, n - Len(s.pts))
       /\ string_expandtabs(s, n).pts = Expanded(s.pts, n)
       /\ (s.pts = << >> \/ Head(s.pts) \notin {Plus, Minus}) => string_zfill(s, n).pts = ZeroFilled(s.pts, n)
  /\ string_getslice(s, Len(s.pts) - 1, -1, -1).pts = Reverse(s.pts)
  /\ \A i \in DOMAIN s.pts : string_getitem(s, i - 1).pts = Part(s.pts, i - 1, i)
  /\ s.pts # << >> => is_title(string_title(s))
  /\ string_isupper(s) => string_to(s, evc_toupper).pts = s.pts
  /\ string_to(string_to(s, to_swap), to_swap).pts = s.pts

(* Order is that of the points, through UTF-8; and what is written as      *)
(* UTF-8 is read as it was.                                                *)
ComparesAgree(s) ==
  /\ \A a \in Args :
       /\ string_cmp(s, a) = memcmp(s.pts, a.pts)
       /\ FormFitting(s) => (string_eq(s, a) = (s.pts = a.pts))
  /\ string_writer_decode_utf8(string_encode_points_utf8(s)) = s.pts

(* Methods of strings do what they mean: for every string that methods     *)
(* make and every small argument.                                          *)
TextAgrees ==
  /\ TypeOK
  /\ IsString => /\ SearchesAgree(value)
                 /\ SplitsAgree(value)
                 /\ EditsAgree(value)
                 /\ ComparesAgree(value)

-----------------------------------------------------------------------------
(* Bytes.  What is searched for is not found at the very end, and longer   *)
(* ones are not counted; stripping from the right leaves one byte; \r\n is  *)
(* two ends of lines; and to fill up to less than the length is no legal   *)
(* call.                                                                   *)

AtEnd(b, n) == Len(b) - Len(n) \in Occurrences(b, n)

BytesSearchesAgree(b, n) ==
  /\ (First(b, n) # Len(b) - Len(n) \/ First(b, n) = -1) =>
       /\ memmem(b, n) = First(b, n)
       /\ bytes_hasitem(b, n) = (Occurrences(b, n) # {})
       /\ bytes_lrpartition(b, n, FALSE) = Parted(b, n, First(b, n))
  /\ memrmem(b, n) = Last_(b, n)
  /\ bytes_lrpartition(b, n, TRUE) = Parted(b, n, Last_(b, n))
  /\ Len(n) = 1 => memcount(b, n) = Cardinality(Disjoint(b, n))
  /\ bytes_starts_or_ends_with(b, n, FALSE) = (0 \in Occurrences(b, n))
  /\ bytes_removelr(b, n, TRUE) = IF AtEnd(b, n) THEN Part(b, 0, Len(b) - Len(n)) ELSE b
  /\ ~AtEnd(b, n) => /\ b # << >> => bytes_lrsplit(b, <<n>>, FALSE, -1) = Fields(b, n)
                     /\ \A r \in Needles : do_bytes_replace(b, n, r) = Replaced(b, n, r)

BytesEditsAgree(b) ==
  /\ \A n \in Needles :
       /\ bytes_lrstrip(b, n, "left") = StrippedLeft(b, ToSet(n))
       /\ StrippedRight(b, ToSet(n)) # << >> => bytes_lrstrip(b, n, "right") = StrippedRight(b, ToSet(n))
       /\ do_bytes_join(n, <<b, b, n>>) = Joined(<<b, b, n>>, n)
       /\ bytes_cmp(b, n) = memcmp(b, n)
       /\ bytes_cmpeq(b, n) = (bytes_cmp(b, n) = 0)
  /\ \A n \in 0..MaxLen + 2 :
       /\ do_bytes_lrjust(b, n, "center") = Centered(b, n)
       /\ do_bytes_expandtabs(b, n) = Expanded(b, n)
       /\ n >= Len(b) => do_bytes_zfill(b, n) = ZeroFilled(b, n)
  /\ Return \notin ToSet(b) => \A keep \in BOOLEAN : do_bytes_splitlines(b, keep) = Lines(b, keep)
  /\ b # << >> => /\ do_bytes_istitle(do_bytes_title(b))
                  /\ bytes_is(bytes_convert_case(b, Shouted), LAMBDA c : c = Shouted(c))
  /\ bytes_getslice(b, Len(b) - 1, -1, -1) = Reverse(b)

(* Methods of bytes do what they mean.                                     *)
BytesAgree == IsBytes => /\ BytesEditsAgree(value.pts)
                         /\ \A n \in Needles \ {<< >>} : BytesSearchesAgree(value.pts, n)

-----------------------------------------------------------------------------
(* Integers *)

(* "Integers are limited to values that can be stored in a signed 64-bit   *)
(* value.  Operations which take an integer out of those boundaries will   *)
(* result in an exception" (getting_started.rst:398).  Refuted: only       *)
(* powers are ever refused, and not all of those that should be: 7 ** 3 is *)
(* 23 in six bits.  All else wraps round.                                  *)
Power(a, b) == IF b = 0 THEN 1 ELSE a ^ b
Bounded(n) == IF n \in Words THEN <<n>> ELSE Raises

IntegersBounded ==
  IsInteger => LET a == value.pts[1] IN
    /\ \A b \in Words : /\ int_add(a, b) = Bounded(a + b)
                        /\ int_sub(a, b) = Bounded(a - b)
                        /\ int_mul(a, b) = Bounded(a * b)
    /\ \A b \in 0..Bits - 1 : ipow(a, b) = Bounded(Power(a, b)) /\ int_lshift(a, b) = Bounded(a * 2 ^ b)
    /\ <<int_negate(a)>> = Bounded(-a)

(* "Division between integers is floored" (getting_started.rst:384).       *)
(* Refuted: C divides towards zero, so that -3 / 2 is -1.                  *)
Floored(a, b) == IF b < 0 THEN (-a) \div (-b) ELSE a \div b

DivisionFloored ==
  IsInteger => LET a == value.pts[1] IN
    \A b \in Words \ {0} : int_div(a, b) = Bounded(Floored(a, b))

(* Where the code does as it is documented: within the boundaries, but for *)
(* a power that is the smallest word, which is taken for an error; and in  *)
(* divisions that go out even or whose sides have one sign.                *)
SignsDiffer(a, b) == (a < 0) # (b < 0) /\ Floored(a, b) * b # a
OutOfBounds(r) == r \notin Words

PowerAgrees(a, b) == ~OutOfBounds(Power(a, b)) /\ Power(a, b) # Smallest => ipow(a, b) = <<Power(a, b)>>

QuotientAgrees(a, b) ==
  b # 0 /\ ~OutOfBounds(Floored(a, b)) =>
    LET q == int_div(a, b)[1]  r == int_mod(a, b)[1]
    IN /\ ~SignsDiffer(a, b) => q = Floored(a, b)
       /\ a = q * b + r /\ Magnitude(r) < Magnitude(b)

ArithmeticAgrees(a, b) ==
  /\ ~OutOfBounds(a + b) => int_add(a, b) = <<a + b>>
  /\ ~OutOfBounds(a - b) => int_sub(a, b) = <<a - b>>
  /\ ~OutOfBounds(a * b) => int_mul(a, b) = <<a * b>>
  /\ b \in 0..Bits - 1 => /\ PowerAgrees(a, b)
                          /\ ~OutOfBounds(a * 2 ^ b) => int_rshift(int_lshift(a, b)[1], b) = <<a>>

(* Integers compute what they mean: no result is wrong that is within the  *)
(* boundaries, quotient and remainder belong together, and bits are those  *)
(* of the number.  (types/integer.c)                                       *)
NumbersAgree ==
  IsInteger => LET a == value.pts[1] IN
    /\ \A b \in Words :
         /\ ArithmeticAgrees(a, b)
         /\ QuotientAgrees(a, b)
         /\ int_bit_and(a, b)[1] + int_bit_or(a, b)[1] = a + b
         /\ int_xor(a, b)[1] = int_bit_or(a, b)[1] - int_bit_and(a, b)[1]
         /\ int_cmp(a, b) = -int_cmp(b, a)
    /\ int_add(a, int_bit_not(a)) = <<-1>>
    /\ int_bit_count(a) + int_bit_count(int_bit_not(a)) = Bits
    /\ ~OutOfBounds(-a) => /\ int_negate(a) = -a
                           /\ int_bit_length(int_abs(a)) = Cardinality({k \in 0..Bits : 2 ^ k <= Magnitude(a)})

-----------------------------------------------------------------------------
(* Writing and reading *)

(* Written with a leading octal zero, which is read as a nullchar.         *)
LowControls == 1..31 \ Blanks

(* What str() writes of a value is read as that value: by the literals of  *)
(* the language and, for integers, by integer() in each base.              *)
ReadBack ==
  /\ value.kind = "string" /\ ToSet(value.pts) \cap LowControls = {} =>
       string_parse(string_str(value.pts)) = value.pts
  /\ IsBytes => bytesvar_from_source(bytes_str(value.pts)) = value.pts
  /\ IsInteger => LET n == value.pts[1]  digits(base) == Shown(Magnitude(n), base, None) IN
       /\ int_create(int_str(n), 0) = <<n>>
       /\ evc_strtol(int_str(n), 10).val = n
       /\ \A base \in {2, 8, 16}, header \in BOOLEAN :
            int_create((IF header THEN <<Zero, HeaderLetter(base)>> ELSE << >>) \o digits(base), base)
              = <<Signed(Magnitude(n))>>

Specs == [left : BOOLEAN, zero : BOOLEAN, width : {0, 4}, conv : {None, Conv_d, Conv_u, Conv_x, Conv_s}]
SpecText(sp) == (IF sp.left THEN <<Minus>> ELSE << >>) \o (IF sp.zero THEN <<Zero>> ELSE << >>)
                  \o (IF sp.width = 0 THEN << >> ELSE <<48 + sp.width>>)
                  \o (IF sp.conv = None THEN << >> ELSE <<sp.conv>>)

(* What a conversion means: the digits or the text, at the left or at the  *)
(* right of its field; zeros between a sign and its digits, and at either  *)
(* side of text.                                                           *)
Field(v, sp) ==
  LET n == v.pts[1]
      text == CASE v.kind = "string" -> v.pts
                [] v.kind = "integer" /\ sp.conv = Conv_u -> int_str(n % 2 ^ Bits)
                [] v.kind = "integer" /\ sp.conv = Conv_x -> Shown(n % 2 ^ Bits, 16, None)
                [] OTHER -> int_str(n)
      number == v.kind = "integer" /\ sp.conv # Conv_s
      pad == Of(IF sp.zero /\ ~(number /\ sp.left) THEN Zero ELSE Space, sp.width - Len(text))
  IN IF v.kind = "string" /\ sp.conv \notin {None, Conv_s} THEN << >>
     ELSE IF number /\ sp.zero /\ ~sp.left THEN ZeroFilled(text, sp.width)
     ELSE IF sp.left THEN text \o pad ELSE pad \o text

(* The code puts the zeros before the sign.                                *)
MinusBehindZeros(v, sp) ==
  v.kind = "integer" /\ v.pts[1] < 0 /\ sp.zero /\ ~sp.left /\ sp.width > 0 /\ sp.conv \in {None, Conv_d}

(* Both ways to format give the field, between what stands around it; each *)
(* argument is used once, in order.                                        *)
FormatsAgree ==
  value.kind \in {"string", "integer"} =>
    \A sp \in Specs :
      LET around == <<97, Percent, Percent>>
          args == <<value, AsInteger(5)>>
          expect == <<97, Percent>> \o Field(value, sp) \o <<53, 33>>
      IN ~MinusBehindZeros(value, sp) =>
         /\ SpecText(sp) # << >> =>
              string_printf(around \o <<Percent>> \o SpecText(sp) \o <<Percent, Conv_d, 33>>, args)
                = expect
         /\ string_format(<<97, Percent, Brace, Colon>> \o SpecText(sp) \o <<CloseBrace, Brace, CloseBrace, 33>>, args)
               = <<expect>>

(* Values survive being written: as literals and through formats.          *)
WritingAgrees == ReadBack /\ FormatsAgree
=============================================================================
