-------------------------------- MODULE Tokens ------------------------------
(***************************************************************************)
(* token.c: the tokens of an input, read by the assembler one statement at *)
(* a time.  A file has one state machine from its beginning to its end; at *)
(* the terminal each statement has its own, and what its line or the look  *)
(* ahead of it left over waits in iatok for the next one.  A position is a *)
(* number of characters of the input, which is read line by line.          *)
(*                                                                         *)
(* The assembler is an actor: it reads tokens up to a semicolon, may go    *)
(* back, may refuse what it reads, may look one token ahead of the end of  *)
(* a statement as it does for else, and what it assembled may fail.        *)
(***************************************************************************)
EXTENDS Lexer

CONSTANT Texts        \* the inputs

VARIABLES
  text, tty,    \* the input, and whether it is typed
  fed,          \* how much of it was read as lines
  st,           \* the token_state_t
  iatok,        \* what is saved between two of them
  phase,        \* of the assembler
  given         \* the tokens of complete statements, and where lines were flushed
vars == <<text, tty, fed, st, iatok, phase, given>>

Saved == [line |-> FALSE, s |-> 0, pgm |-> << >>]
NoState == [line |-> FALSE, s |-> 0, pgm |-> << >>, nexttok |-> 0, eof |-> FALSE, fs |-> NoFstring, backs |-> 0]
Busy == phase \in {"first", "peeked", "reading", "ended", "ahead", "closing", "refused", "null"}

LineEnd(p) == Min({e \in p + 1..Len(text) : text[e] = Newline} \cup {Len(text)})
OnlyBlanks(from, to) == \A i \in from + 1..to : text[i] \in Blanks

Init ==
  /\ text \in Texts /\ tty \in BOOLEAN
  /\ fed = 0 /\ st = NoState /\ iatok = Saved /\ phase = "idle" /\ given = << >>

-----------------------------------------------------------------------------
(* token_state_new *)

(* With tokens saved no line is read, even if none was.                    *)
token_state_new ==
  LET took == [NoState EXCEPT !.line = iatok.line, !.s = iatok.s, !.pgm = iatok.pgm]
  IN /\ phase = "idle"
     /\ IF iatok = Saved
        THEN /\ st' = [took EXCEPT !.line = fed < Len(text), !.s = fed]
             /\ fed' = LineEnd(fed)
             /\ phase' = IF fed < Len(text) THEN "first" ELSE "done"
        ELSE st' = took /\ phase' = "first" /\ UNCHANGED fed
     /\ iatok' = Saved
     /\ UNCHANGED <<text, tty, given>>

-----------------------------------------------------------------------------
(* get_tok and unget_tok *)

(* v is where the token's pointer to a value leads: to what it should, if  *)
(* to anything at all ("own"), nowhere, or, when nothing was stored there, *)
(* wherever what the memory held before leads.                             *)
Token(found, v) == [t |-> found.t, tok |-> found.tok, at |-> found.at, to |-> found.to, v |-> v]
Strays(tokens) == \E i \in DOMAIN tokens : tokens[i].v = "stray"

Next_ == Moved(tokenize_helper(Skipped(text, st.s), st.fs), st.s)
TokenNow == IF st.line THEN Next_ ELSE Found("EOF", << >>, 0, NoFstring)

Current == st.pgm[st.nexttok]
AtEof == st.pgm # << >> /\ Last(st.pgm).t = "EOF"

(* The string or bytes object is made by asserting what the lexer found.   *)
Trapped_(found) ==
  \/ found.t = "overrun"
  \/ found.t \in {"string", "fstring_end"} /\ string_parse(found.tok) = Trapped
  \/ found.t = "bytes" /\ bytesvar_from_source(found.tok) = Trapped

IsSemi(token) == token.t = "delimiter" /\ token.tok = <<59>>
Begins_ == st.nexttok = 0 \/ IsSemi(Current)

(* Where the assembler is with the token it asked for.  A file may end     *)
(* where a statement may begin.                                            *)
Given(token) ==
  CASE phase = "first" -> "peeked"
    [] phase = "ended" -> "ahead"
    [] phase = "reading" /\ IsSemi(token) /\ st.fs = NoFstring -> "ended"
    [] phase = "reading" /\ token.t = "EOF" -> IF ~tty /\ Begins_ THEN "closing" ELSE "refused"
    [] OTHER -> "reading"

(* Read again, at the end of the input, or new.                            *)
Reread ==
  /\ st.nexttok < Len(st.pgm)
  /\ st' = [st EXCEPT !.nexttok = @ + 1]
  /\ phase' = Given(st.pgm[st.nexttok + 1])
  /\ UNCHANGED fed

EofAgain ==
  /\ st.nexttok >= Len(st.pgm) /\ AtEof
  /\ phase' = Given(Last(st.pgm))
  /\ UNCHANGED <<st, fed>>

Put(token, found) ==
  [st EXCEPT !.pgm = Append(@, token), !.s = found.to, !.fs = found.fs, !.eof = found.t = "EOF"]

(* Done with the token: it is the assembler's.                             *)
Takes(token, found) == phase' = Given(token) /\ st' = [Put(token, found) EXCEPT !.nexttok = @ + 1]

(* An error all the same, but the token is stored.                         *)
Keeps(found, v) == phase' = "refused" /\ st' = Put(Token(found, v), found)

Dies == phase' = "dead" /\ UNCHANGED st

(* Of a string or bytes that mean nothing the pointer is cleared.  That of *)
(* a number out of range was never set: the memory may have held nothing   *)
(* or, in looking whether it is a string that can be shared, it is         *)
(* followed, and what is there is no object or some other one.             *)
Settle(found) ==
  /\ fed' = IF st.line THEN Max({fed, LineEnd(found.to)}) ELSE fed
  /\ CASE Trapped_(found) -> Dies
       [] ~Trapped_(found) /\ found.t = "error" -> phase' = "refused" /\ st' = [st EXCEPT !.s = found.to]
       [] ~Trapped_(found) /\ found.t # "error" /\ Valued(found) -> Takes(Token(found, "own"), found)
       [] OTHER -> Keeps(found, "none") \/ (found.t \in Numeric /\ (Keeps(found, "stray") \/ Dies))

Tokenize == st.nexttok >= Len(st.pgm) /\ ~AtEof /\ Settle(TokenNow)

get_tok ==
  /\ Reread \/ EofAgain \/ Tokenize
  /\ UNCHANGED <<text, tty, iatok, given>>

(* Seeded fault: the token is forgotten, not only stepped back from.       *)
unget_tok_Forgets(next) ==
  /\ st.nexttok > 0
  /\ st' = [st EXCEPT !.nexttok = @ - 1, !.pgm = SubSeq(@, 1, st.nexttok - 1)]
  /\ phase' = next
  /\ UNCHANGED <<text, tty, fed, iatok, given>>

unget_tok(next) ==
  /\ st.nexttok > 0
  /\ st' = [st EXCEPT !.nexttok = @ - 1]
  /\ phase' = next
  /\ UNCHANGED <<text, tty, fed, iatok, given>>

-----------------------------------------------------------------------------
(* The assembler *)

(* The first token of a statement, those that follow and, behind the end,  *)
(* the one looked at.                                                      *)
Read == phase \in {"first", "reading", "ended"} /\ get_tok

UnreadFirst == phase = "peeked" /\ unget_tok(IF Current.t = "EOF" THEN "null" ELSE "reading")

(* To a token of this statement, once.                                     *)
token_swap_pos ==
  /\ phase = "reading" /\ st.backs = 0
  /\ \E pos \in 1..st.nexttok - 1 :
       /\ \A i \in pos..st.nexttok : ~IsSemi(st.pgm[i])
       /\ st' = [st EXCEPT !.nexttok = pos, !.backs = 1]
  /\ UNCHANGED <<text, tty, fed, iatok, phase, given>>

Refuse ==
  /\ phase = "reading" /\ st.nexttok > 0
  /\ phase' = "refused"
  /\ UNCHANGED <<text, tty, fed, st, iatok, given>>

LookBack == phase = "ahead" /\ unget_tok(IF tty THEN "closing" ELSE "reading")
Finish ==
  /\ phase = "ended"
  /\ phase' = IF tty THEN "closing" ELSE "reading"
  /\ UNCHANGED <<text, tty, fed, st, iatok, given>>

-----------------------------------------------------------------------------
(* Freeing a token gives up a reference to its value: with a stray pointer *)
(* something else is counted down, or nothing that can be.                 *)
free_one_token(tokens) == Strays(tokens) /\ phase' = "dead" /\ UNCHANGED <<text, tty, fed, st, iatok, given>>

(* token_state_free: of a line typed at the terminal the rest is saved, if *)
(* there is more than blanks, and so are the tokens not given out.         *)
NotGiven == IF tty THEN SubSeq(st.pgm, st.nexttok + 1, Len(st.pgm)) ELSE << >>

token_state_free ==
  LET rest == tty /\ st.line /\ ~OnlyBlanks(st.s, fed)
  IN /\ phase \in {"closing", "refused", "null"}
     /\ iatok' = [line |-> rest, s |-> IF rest THEN st.s ELSE 0, pgm |-> NotGiven]
     /\ st' = NoState
     /\ given' = given \o (IF phase = "closing" THEN SubSeq(st.pgm, 1, st.nexttok) ELSE << >>)
     /\ phase' = CASE phase = "null" \/ ~tty -> "done"
                   [] phase = "closing" /\ tty -> "run"
                   [] OTHER -> "failed"
     /\ UNCHANGED <<text, tty, fed>>

FreesStray == phase \in {"closing", "refused", "null"} /\ NotGiven = << >> /\ free_one_token(st.pgm)

Runs == phase = "run" /\ phase' \in {"idle", "failed"} /\ UNCHANGED <<text, tty, fed, st, iatok, given>>

(* Where the input goes on after an error, among the tokens.               *)
Flush == [t |-> "flush", tok |-> << >>, at |-> fed, to |-> fed, v |-> "own"]

(* Seeded fault: the saved line is flushed, the saved tokens are not.      *)
token_flush_tty_KeepsTokens ==
  /\ phase = "failed"
  /\ iatok' = [iatok EXCEPT !.line = FALSE]
  /\ given' = Append(given, Flush)
  /\ phase' = "idle"
  /\ UNCHANGED <<text, tty, fed, st>>

token_flush_tty ==
  /\ phase = "failed"
  /\ iatok' = Saved
  /\ given' = Append(given, Flush)
  /\ phase' = "idle"
  /\ UNCHANGED <<text, tty, fed, st>>

FlushesStray == phase = "failed" /\ free_one_token(iatok.pgm)

(* The end of the program, or its abort.                                   *)
Over == phase \in {"done", "dead"} /\ UNCHANGED vars

Next ==
  \/ token_state_new \/ Read \/ UnreadFirst \/ token_swap_pos \/ Refuse
  \/ LookBack \/ Finish \/ token_state_free \/ FreesStray \/ Runs \/ token_flush_tty \/ FlushesStray \/ Over

Spec == Init /\ [][Next]_vars

-----------------------------------------------------------------------------
(* Everything the assembler has of the input, in the order it got it.      *)
Consumed == given \o SubSeq(st.pgm, 1, st.nexttok)

(* What the code asserts of its indices and of what is saved.              *)
TypeOK ==
  /\ phase \in {"idle", "first", "peeked", "reading", "ended", "ahead", "closing", "refused", "null",
                "run", "failed", "done", "dead"}
  /\ fed \in 0..Len(text)
  /\ st.nexttok \in 0..Len(st.pgm) /\ st.s \in 0..fed
  /\ Busy => iatok = Saved
  /\ iatok.line => iatok.s \in 0..fed - 1

(* The end of the input is where only blanks and comments are left; but a  *)
(* token that was saved without its line, of which it was the last, is     *)
(* taken for the last of the input.                                        *)
Stranded(token) == ~st.line /\ OnlyBlanks(token.to, fed)
EofIsEnd ==
  Consumed # << >> /\ Last(Consumed).t = "EOF" =>
    LET n == Len(Consumed)
        from == IF n = 1 THEN 0 ELSE Consumed[n - 1].to
    IN \/ skip_whitespace(Skipped(text, from)) = Len(text) - from
       \/ n > 1 /\ Stranded(Consumed[n - 1])

(* Between two tokens the assembler gets there is nothing but blanks and   *)
(* comments: whatever was looked at ahead, gone back to or saved for the   *)
(* next statement, no token is lost, repeated or out of order.  After an   *)
(* error it is the lines already read that are passed over, all of them    *)
(* and no more.                                                            *)
OnceInOrder ==
  /\ TypeOK
  /\ EofIsEnd
  /\ \A i \in DOMAIN Consumed :
       LET from == IF i = 1 THEN 0 ELSE Consumed[i - 1].to
           gap == SubSeq(text, from + 1, Consumed[i].at)
       IN Consumed[i].t \notin {"EOF", "flush"} =>
            from <= Consumed[i].at /\ skip_whitespace(gap) = Len(gap)

(* A literal that means nothing is stored among the tokens all the same: a *)
(* string without a value, a number with whatever pointer was there (see   *)
(* NoStrayValue).  The assembler never gets it, not even as what was saved *)
(* of the line before.                                                     *)
RefusedNeverGiven == \A i \in DOMAIN Consumed : Consumed[i].v = "own"

-----------------------------------------------------------------------------
(* What literals mean: a quote is escaped behind an odd number of          *)
(* backslashes; a raw string keeps every backslash but those before quotes.*)

BackslashesBefore(t, i) == LET run[j \in 0..i] == IF j > 0 /\ t[j] = BKSL THEN 1 + run[j - 1] ELSE 0 IN run[i - 1]
Closing(t, from) ==
  Min({i \in from..Len(t) : t[i] = t[from - 1] /\ BackslashesBefore(SubSeq(t, from, i), i - from + 1) % 2 = 0})

(* Backslashes before quotes left out.                                     *)
Unescaped(body, q) ==
  LET kept == {i \in DOMAIN body : ~(body[i] = BKSL /\ CharAt(body, i + 1) = q)}
  IN FlattenSeq([i \in DOMAIN body |-> IF i \in kept THEN <<body[i]>> ELSE << >>])

RECURSIVE Meaning(_)
Meaning(source) ==
  LET t == Skipped(source, skip_whitespace(source))
      prefix == IF IsQuote(t[1]) THEN 1 ELSE 2
      end == Closing(t, prefix + 1)
      body == SubSeq(t, prefix + 1, end - 1)
      one == CASE t[1] \in LetterR -> Unescaped(body, t[2])
               [] t[1] \in LetterB -> bytesvar_from_source(SubSeq(t, 1, end))
               [] OTHER -> string_parse(SubSeq(t, 1, end))
  IN IF t = << >> THEN << >>
     ELSE IF one = Unreadable THEN Unreadable
     ELSE one \o Meaning(Skipped(t, end))

(* The code loses count of backslashes at the third in a row.              *)
ThreeBackslashes(t) == \E i \in 1..Len(t) - 3 : \A j \in i..i + 2 : t[j] = BKSL

SourceOf(token) == SubSeq(text, token.at + 1, token.to)
Plain == {"identifier", "keyword", "integer", "float", "complex", "delimiter"}
IsLiteral(token) == token.t \in {"string", "bytes"} /\ token.v = "own" /\ CharAt(SourceOf(token), 1) \notin LetterF

(* The format an f-string ends with asks for as many arguments as the      *)
(* f-string has fields.                                                    *)
FieldsAgree ==
  \A i \in DOMAIN st.pgm : st.pgm[i].t = "fstring_end" /\ st.pgm[i].v = "own" =>
    LET start == Max({j \in 1..i : st.pgm[j].t = "fstring_start"})
        n == Cardinality({j \in start..i : st.pgm[j].t \in {"fstring_start", "fstring_continue"}})
        args(k) == [j \in 1..k |-> [kind |-> "integer", pts |-> <<j>>]]
        format == string_parse(st.pgm[i].tok)
    IN string_format(format, args(n + 1)) # Raises =>
         string_format(format, args(n)) # Raises /\ string_format(format, args(n - 1)) = Raises

(* What an integer is by its digits, each at its place, in the base of its *)
(* header; from half the range on it is "the two's-complement value of its *)
(* final bitfield" (strto.c:46).                                           *)
HeaderBase(c) == CASE c \in {120, 88} -> 16 [] c \in {111, 79} -> 8 [] c \in {98, 66} -> 2 [] OTHER -> 10
DigitsOf(t) == IF HeaderBase(CharAt(t, 2)) # 10 THEN Skipped(t, 2) ELSE t
Places(t, base) == LET n == Len(t) IN MapThenSumSet(LAMBDA i : x2bin(t[i]) * base ^ (n - i), DOMAIN t)
Amount(t) == Places(DigitsOf(t), HeaderBase(CharAt(t, 2)))
InWord(n) == IF n < 2 ^ (Bits - 1) THEN n ELSE n - 2 ^ Bits

(* A number that begins with 0 without a header is read in base 8, as far  *)
(* as its digits are of that base: 08 is 0.                                *)
LeadingZero(t) == CharAt(t, 1) = Zero /\ IsDigit(CharAt(t, 2))

IntegersAgree(token) ==
  LET n == Amount(token.tok)
  IN token.t = "integer" /\ ~LeadingZero(token.tok) =>
       /\ token.v = "own" <=> n < 2 ^ Bits
       /\ token.v = "own" => evc_strtol(token.tok, 0).val = InWord(n)

(* What the interpreter dies of: what the code asserts of a string fails,  *)
(* or a number was refused and the pointer in its token is used.           *)
StrayMet ==
  \/ TokenNow.t \in Numeric /\ ~Valued(TokenNow)
  \/ Strays(st.pgm) \/ Strays(iatok.pgm)

(* "not all tokens have this" (token.c:1035): no pointer is used as one to *)
(* a value that was not set to one.  Refuted: that of a number out of      *)
(* range is looked at and counted down (token.c:811, 1036).                *)
NoStrayValue == phase = "dead" => ~StrayMet

(* A token is what the input says: a name, or a number without its value,  *)
(* is the characters themselves; an integer has the value of its digits,   *)
(* and is refused if and only if a word has not room for it; a literal has *)
(* the value of its characters, adjacent ones together.  Of what the lexer *)
(* lets through only strings with three backslashes, unclosed fields of    *)
(* f-strings and numbers out of range kill the interpreter.                *)
TokensMeanText ==
  /\ FieldsAgree
  /\ \A i \in DOMAIN st.pgm : IntegersAgree(st.pgm[i])
  /\ \A i \in DOMAIN st.pgm : LET token == st.pgm[i] IN
       /\ token.t \in Plain => token.tok = SourceOf(token)
       /\ IsLiteral(token) /\ ~ThreeBackslashes(SourceOf(token)) =>
            Meaning(SourceOf(token)) = IF token.t = "bytes" THEN bytesvar_from_source(token.tok) ELSE string_parse(token.tok)
  /\ phase = "dead" => ThreeBackslashes(text) \/ TokenNow.t = "overrun" \/ StrayMet

=============================================================================
