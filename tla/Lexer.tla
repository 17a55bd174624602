-------------------------------- MODULE Lexer -------------------------------
(***************************************************************************)
(* token.c: from characters to one token.  t is what is left of the input, *)
(* from state->s on, through the end of the line and the lines to come:    *)
(* the code reads the next line wherever a token crosses a line.           *)
(***************************************************************************)
EXTENDS Numbers

CONSTANTS
  Delimiters, Keywords,     \* of tools/tokens, as far as the inputs have them
  MaxExponent               \* of a double, to ten: 308
ASSUME ExponentAssumption == MaxExponent \in Nat

LetterR == {114, 82}
LetterF == {102, 70}
LetterB == {98, 66}
LetterJ == {106, 74}
Hash == 35
Slash == 47
Star == 42

(* The nullchar that ends the input is as good as any.                     *)
CharAt(t, i) == IF i \in DOMAIN t THEN t[i] ELSE 0
IsQuote(c) == c \in {SQ, DQ}

tokc_isident1(c) == c = 95 \/ evc_isupper(c) \/ evc_islower(c)
tokc_isident(c) == tokc_isident1(c) \/ IsDigit(c)

-----------------------------------------------------------------------------
(* Quoted text up to the first character of charset that no backslash      *)
(* escapes: what goes into the token, how many characters were taken and   *)
(* where it stopped.  In raw strings a backslash is written twice.  last   *)
(* is the character before, which stays a backslash after an escaped one.  *)
Unterminated == -1
EmptyField == -2

(* Seeded fault: an escaped quote ends the string.                         *)
RECURSIVE str_slide_Unescaped(_, _, _, _)
str_slide_Unescaped(t, charset, raw, last) ==
  LET c == CharAt(t, 1)
      Behind(out, k, next) ==
        LET rest == str_slide_Unescaped(Skipped(t, k), charset, raw, next)
        IN [rest EXCEPT !.out = out \o @, !.took = k + @]
  IN IF t = << >> THEN [out |-> << >>, took |-> 0, stop |-> Unterminated]
     ELSE IF c \in charset THEN [out |-> <<c>>, took |-> 1, stop |-> c]
     ELSE Behind(IF raw /\ c = BKSL THEN <<c, c>> ELSE <<c>>, 1, c)

RECURSIVE str_slide(_, _, _, _)
str_slide(t, charset, raw, last) ==
  LET c == CharAt(t, 1)
      d == CharAt(t, 2)
      escapes == c = BKSL /\ last # BKSL /\ d \in charset
      Behind(out, k, next) ==
        LET rest == str_slide(Skipped(t, k), charset, raw, next)
        IN [rest EXCEPT !.out = out \o @, !.took = k + @]
      Stop(why) == [out |-> <<c>>, took |-> 1, stop |-> why]
  IN IF t = << >> THEN [out |-> << >>, took |-> 0, stop |-> Unterminated]
     ELSE CASE c \in charset /\ c # Brace -> Stop(c)
            [] c \in charset /\ c = Brace /\ d = Brace -> Behind(<<c, c>>, 2, last)
            [] c \in charset /\ c = Brace /\ d # Brace -> Stop(IF d = CloseBrace THEN EmptyField ELSE c)
            [] c \notin charset /\ escapes -> Behind(<<c, d>>, 2, d)
            [] OTHER -> Behind(IF raw /\ c = BKSL THEN <<c, c>> ELSE <<c>>, 1, c)

(* What was found: its type, the text of the token, where it begins and    *)
(* ends, and the f-string that is open behind it, if one is: its quote and *)
(* what there is of its format.                                            *)
NoFstring == [quote |-> 0, tok |-> << >>]
Found(type, tok, k, fs) == [t |-> type, tok |-> tok, at |-> 0, to |-> k, fs |-> fs]
Nothing == Found("nothing", << >>, 0, NoFstring)
Fails(k) == Found("error", << >>, k, NoFstring)
Longer(found, k) == [found EXCEPT !.to = @ + k]
Moved(found, k) == [found EXCEPT !.at = @ + k, !.to = @ + k]

Quoted(t, prefix, opening, raw, type) ==
  LET r == str_slide(Skipped(t, prefix), {CharAt(t, prefix)}, raw, 0)
  IN IF r.stop = Unterminated THEN Fails(Len(t)) ELSE Found(type, opening \o r.out, prefix + r.took, NoFstring)

get_tok_string(t) ==
  CASE IsQuote(CharAt(t, 1)) -> Quoted(t, 1, <<t[1]>>, FALSE, "string")
    [] CharAt(t, 1) \in LetterR /\ IsQuote(CharAt(t, 2)) -> Quoted(t, 2, <<t[2]>>, TRUE, "string")
    [] OTHER -> Nothing

get_tok_bytes(t) ==
  IF CharAt(t, 1) \in LetterB /\ IsQuote(CharAt(t, 2)) THEN Quoted(t, 2, <<t[1], t[2]>>, FALSE, "bytes")
  ELSE Nothing

(* Inside an f-string, from behind a field on: first the conversion, which *)
(* is looked for in the rest of the line and beyond.                       *)
Overrun == Found("overrun", << >>, 0, NoFstring)

fstring_continue(t, fs, inner) ==
  LET line == Span(t, LAMBDA c : c # Newline, Len(t))
      conv == IF CharAt(t, 1) = Colon THEN Span(t, LAMBDA c : c # CloseBrace, Len(t)) ELSE 0
      r == str_slide(Skipped(t, conv), {fs.quote, Brace}, FALSE, 0)
      open == [fs EXCEPT !.tok = @ \o SubSeq(t, 1, conv) \o r.out]
  IN CASE CharAt(t, 1) = Colon /\ conv >= line -> Overrun
       [] r.stop = Unterminated -> Fails(Len(t))
       [] r.stop = EmptyField -> Fails(conv + r.took)
       [] r.stop = fs.quote -> Found("fstring_end", open.tok, conv + r.took, NoFstring)
       [] OTHER -> Found(inner, << >>, conv + r.took, open)

(* Without fields it is a string, in which braces come in pairs.           *)
Unpaired == <<-1>>
RECURSIVE Unbraced(_)
Unbraced(t) ==
  LET brace == CharAt(t, 1) \in {Brace, CloseBrace}
      k == IF brace THEN 2 ELSE 1
      rest == Unbraced(Skipped(t, k))
  IN IF t = << >> THEN << >>
     ELSE IF (brace /\ CharAt(t, 2) # t[1]) \/ rest = Unpaired THEN Unpaired
     ELSE <<t[1]>> \o rest

OnlyText(found, plain) == IF plain = Unpaired THEN Fails(found.to) ELSE [found EXCEPT !.t = "string", !.tok = plain]
IfNoFields(found) == IF found.t = "fstring_end" THEN OnlyText(found, Unbraced(found.tok)) ELSE found

get_tok_fstring(t, fs) ==
  IF fs # NoFstring \/ CharAt(t, 1) \notin LetterF \/ ~IsQuote(CharAt(t, 2)) THEN Nothing
  ELSE IfNoFields(Longer(fstring_continue(Skipped(t, 2), [quote |-> t[2], tok |-> <<t[2]>>], "fstring_start"), 2))

-----------------------------------------------------------------------------
(* Blanks and comments: how many characters, or that a comment has no end. *)

Endless == -1

skip_comment(t) ==
  LET line == Span(t, LAMBDA c : c # Newline, Len(t))
      ends == {p \in 3..Len(t) - 1 : t[p] = Star /\ t[p + 1] = Slash}
      block == CharAt(t, 1) = Slash /\ CharAt(t, 2) = Star
  IN IF CharAt(t, 1) = Hash \/ (CharAt(t, 1) = Slash /\ CharAt(t, 2) = Slash) THEN line
     ELSE IF ~block THEN 0
     ELSE IF ends = {} THEN Endless ELSE Min(ends) + 1

RECURSIVE skip_whitespace(_)
skip_whitespace(t) ==
  LET blank == Span(t, LAMBDA c : c \in Blanks, Len(t))
      comment == skip_comment(Skipped(t, blank))
      rest == skip_whitespace(Skipped(t, blank + comment))
  IN IF blank = Len(t) \/ comment = 0 THEN blank
     ELSE IF comment = Endless \/ rest = Endless THEN Endless
     ELSE blank + comment + rest

-----------------------------------------------------------------------------
(* Numbers, names and delimiters *)

get_tok_identifier(t) ==
  LET k == Span(t, tokc_isident, Len(t))
      name == SubSeq(t, 1, k)
  IN IF ~tokc_isident1(CharAt(t, 1)) THEN Nothing
     ELSE Found(IF name \in Keywords THEN "keyword" ELSE "identifier", name, k, NoFstring)

MostDigits(base) == CASE base = 16 -> 16 [] base = 8 -> 22 [] OTHER -> 64

DigitsBehind(t, base, end) ==
  IF end = 2 \/ end > 2 + MostDigits(base) THEN Fails(0) ELSE Found("integer", SubSeq(t, 1, end), end, NoFstring)

get_tok_int_hdr(t) ==
  LET bases == {b \in {2, 8, 16} : HasHeader(t, b)}
      base == Min(bases)
  IN IF bases = {} THEN Nothing ELSE DigitsBehind(t, base, DigitsEnd(t, 2, base))

Numeral(t, k, type) ==
  IF type # "integer" /\ tokc_isident(CharAt(t, k + 1)) THEN Fails(0)
  ELSE Found(type, SubSeq(t, 1, k), k, NoFstring)

Spanned(t, span) ==
  IF span.len = 0 THEN Nothing
  ELSE IF CharAt(t, span.len + 1) \in LetterJ THEN Numeral(t, span.len + 1, "complex")
  ELSE Numeral(t, span.len, IF span.int THEN "integer" ELSE "float")

(* The first of two kinds of token that fits.                              *)
Either(found, other) == IF found # Nothing THEN found ELSE other

get_tok_number(t) ==
  IF CharAt(t, 1) \in {Plus, Minus} THEN Nothing
  ELSE Either(get_tok_int_hdr(t), Spanned(t, string_span_float(t)))

(* The longest one.                                                        *)
get_tok_delim(t) ==
  LET lens == {k \in 1..Min({3, Len(t)}) : SubSeq(t, 1, k) \in Delimiters}
  IN IF lens = {} THEN Nothing ELSE Found("delimiter", SubSeq(t, 1, Max(lens)), Max(lens), NoFstring)

(* Adjacent literals are one token; what is between them is skipped, and   *)
(* what is behind the last one, too.                                       *)
Literal_(t, type) == IF type = "string" THEN get_tok_string(t) ELSE get_tok_bytes(t)

RECURSIVE Adjacent(_, _)
Adjacent(t, got) ==
  LET Behind(gap, next) ==
        IF next = Nothing THEN [got EXCEPT !.to = @ + gap]
        ELSE IF next.t = "error" THEN Fails(Len(t))
        ELSE Adjacent(t, [got EXCEPT !.tok = @ \o next.tok, !.to = @ + gap + next.to])
      Skip(gap) == IF gap = Endless THEN Fails(Len(t)) ELSE Behind(gap, Literal_(Skipped(t, got.to + gap), got.t))
  IN IF got.t \notin {"string", "bytes"} THEN got ELSE Skip(skip_whitespace(Skipped(t, got.to)))

(* The first kind of token that fits, in the order of the code.  Only an   *)
(* f-string begins one; the others leave open what is open.                *)
Within(found, fs) == IF found.t \in {"nothing", "error"} THEN found ELSE [found EXCEPT !.fs = fs]

Regular(t, fs) ==
  Either(Within(get_tok_number(t), fs),
  Either(Within(get_tok_delim(t), fs),
  Either(get_tok_fstring(t, fs),
  Either(Within(Adjacent(t, Either(get_tok_string(t), get_tok_bytes(t))), fs),
  Either(Within(get_tok_identifier(t), fs), Fails(0))))))

Helped(u, fs) ==
  LET escaped == fs # NoFstring /\ CharAt(u, 1) = BKSL
      k == IF escaped THEN 1 ELSE 0
  IN IF escaped /\ CharAt(u, 2) \notin {Colon, Brace, CloseBrace} THEN Fails(0)
     ELSE IF fs # NoFstring /\ CharAt(u, 1) \in {Colon, CloseBrace} THEN fstring_continue(u, fs, "fstring_continue")
     ELSE Longer(Regular(Skipped(u, k), fs), k)

Behind_(t, gap, fs) ==
  IF gap = Endless THEN Fails(Len(t))
  ELSE IF gap = Len(t) THEN Found("EOF", << >>, Len(t), fs)
  ELSE Moved(Helped(Skipped(t, gap), fs), gap)

tokenize_helper(t, fs) == Behind_(t, skip_whitespace(t), fs)

(* Whether a double can hold the number: it is 0, or its first digit other *)
(* than 0 is worth neither too much nor too little.                        *)
evc_strtod(t) ==
  LET whole == SpanDigits(t, 0)
      point == CharAt(t, whole + 1) = 46
      m == IF point THEN whole + 1 + SpanDigits(t, whole + 1) ELSE whole
      firsts == {i \in 1..m : t[i] \in 49..57}
      sign == IF CharAt(t, m + 2) \in {Plus, Minus} THEN 1 ELSE 0
      power == Number(Part(t, m + 1 + sign, m + 1 + sign + SpanDigits(t, m + 1 + sign)), 10)
      exponent == IF CharAt(t, m + 1) \notin {69, 101} THEN 0
                  ELSE IF CharAt(t, m + 2) = Minus THEN -power ELSE power
      place == LET i == Min(firsts) IN IF i <= whole THEN whole - i ELSE whole + 1 - i
  IN firsts = {} \/ Magnitude(place + exponent) <= MaxExponent

(* Literals that mean nothing are an error, too.                           *)
Numeric == {"integer", "float", "complex"}
Valued(found) ==
  CASE found.t = "bytes" -> bytesvar_from_source(found.tok) # Unreadable
    [] found.t \in {"string", "fstring_end"} -> string_parse(found.tok) # Unreadable
    [] found.t = "integer" -> evc_strtol(found.tok, 0).end # 0
    [] found.t \in {"float", "complex"} -> evc_strtod(found.tok)
    [] OTHER -> TRUE
=============================================================================
