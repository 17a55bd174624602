----------------------------- MODULE Statements -----------------------------
(***************************************************************************)
(* The statements and conditions of the language as abstract syntax, and   *)
(* what they mean.  The meaning is a judge of traces: a run of a compiled  *)
(* program leaves a trace of visible events (a call made and whether it    *)
(* threw, a condition tested and its outcome, an item fetched), and        *)
(* Meaning(p, trace) walks the source of p along that trace.               *)
(*                                                                         *)
(* The grammar is the one assemble_stmt_simple() and its helpers parse     *)
(* (src/src/assembler.c); the meaning is that of the language tutorial     *)
(* (src/Documentation/tutorial/program_flow.rst), independent of any       *)
(* instruction.  `finally' is the exception: no document defines it, so    *)
(* it means what assemble_try() makes of it, a block run when the try      *)
(* block or its handler ends normally.                                     *)
(***************************************************************************)
EXTENDS Naturals, Sequences

------------------------------------------------------------------------------
(* Conditions.  A leaf x is a call whose truth value is not known.         *)

Test(x)       == [k |-> "test", id |-> x]
Const(b)      == [k |-> "const", v |-> b]
Not(c)        == [k |-> "not", c |-> c]
And(c, d)     == [k |-> "and", c |-> c, d |-> d]
Or(c, d)      == [k |-> "or", c |-> c, d |-> d]
Cond(c, d, e) == [k |-> "ternary", c |-> c, d |-> d, e |-> e]

(* Statements.  Call(x) is an expression statement that may throw.         *)

Skip            == [k |-> "skip"]
Call(x)         == [k |-> "call", id |-> x]
Block(ss)       == [k |-> "block", ss |-> ss]
If(c, s, t)     == [k |-> "if", c |-> c, s |-> s, t |-> t]
While(c, s)     == [k |-> "while", c |-> c, s |-> s]
Do(s, c)        == [k |-> "do", c |-> c, s |-> s]
For(x, s, n)    == [k |-> "for", id |-> x, s |-> s, n |-> n]   \* n: nobreak
Try(s, h, f)    == [k |-> "try", s |-> s, h |-> h, f |-> f]    \* f: finally
Break           == [k |-> "break"]
Continue        == [k |-> "continue"]
Throw(x)        == [k |-> "throw", id |-> x]
Return(x)       == [k |-> "return", id |-> x]
ReturnNull      == [k |-> "returnnull"]

------------------------------------------------------------------------------
(* Outcomes of a statement: "norm", "brk", "cnt", "exc", "val" (returned a *)
(* value), "nul" (returned null), "more" (the trace ends inside the        *)
(* statement) and "bad" (the trace is not one of this statement).          *)

Res(o, t) == [o |-> o, t |-> t]

(* The next event is one of x's, and decides how x ends.                   *)
Expect(x, t, OutcomeOf(_)) ==
    IF t = << >> THEN Res("more", t)
    ELSE IF t[1][1] # x THEN Res("bad", t)
    ELSE Res(OutcomeOf(t[1][2]), Tail(t))

CallOutcome(r)  == CASE r = "ok" -> "norm" [] r = "throw" -> "exc" [] OTHER -> "bad"
TestOutcome(r)  == CASE r = "true" -> "yes" [] r = "false" -> "no" [] OTHER -> "bad"
IterOutcome(r)  == CASE r = "item" -> "yes" [] r = "last" -> "no"
                     [] r = "throw" -> "exc" [] OTHER -> "bad"

(* A condition's outcome is "yes", "no", "more" or "bad".                  *)
RECURSIVE Holds(_, _)
Holds(c, t) ==
    CASE c.k = "const" -> Res(IF c.v THEN "yes" ELSE "no", t)
      [] c.k = "test"  -> Expect(c.id, t, TestOutcome)
      [] c.k = "not"   -> LET r == Holds(c.c, t)
                          IN  CASE r.o = "yes" -> Res("no", r.t)
                                [] r.o = "no"  -> Res("yes", r.t)
                                [] OTHER       -> r
      [] c.k = "and"   -> LET r == Holds(c.c, t)
                          IN  IF r.o = "yes" THEN Holds(c.d, r.t) ELSE r
      [] c.k = "or"    -> LET r == Holds(c.c, t)
                          IN  IF r.o = "no" THEN Holds(c.d, r.t) ELSE r
      [] c.k = "ternary" ->
            LET r == Holds(c.c, t)
            IN  CASE r.o = "yes" -> Holds(c.d, r.t)
                  [] r.o = "no"  -> Holds(c.e, r.t)
                  [] OTHER       -> r

Quits(o)  == IF o = "brk" THEN "norm" ELSE o      \* a loop ended by o

RECURSIVE Exec(_, _), ExecAll(_, _), Looping(_, _, _, _)
Exec(s, t) ==
    CASE s.k = "skip"   -> Res("norm", t)
      [] s.k = "call"   -> Expect(s.id, t, CallOutcome)
      [] s.k = "block"  -> ExecAll(s.ss, t)
      [] s.k = "if"     -> LET r == Holds(s.c, t)
                           IN  CASE r.o = "yes" -> Exec(s.s, r.t)
                                 [] r.o = "no"  -> Exec(s.t, r.t)
                                 [] OTHER       -> r
      [] s.k = "while"  -> Looping(s, t, "test", Len(t) + 1)
      [] s.k = "do"     -> Looping(s, t, "body", Len(t) + 1)
      [] s.k = "for"    -> LET r == Expect(s.id, t, CallOutcome)   \* the sequence
                           IN  IF r.o = "norm" THEN Looping(s, r.t, "setup", Len(t))
                               ELSE r
      [] s.k = "try"    -> LET r == Exec(s.s, t)
                               h == IF r.o = "exc" THEN Exec(s.h, r.t) ELSE r
                           IN  IF h.o = "norm" THEN Exec(s.f, h.t) ELSE h
      [] s.k = "break"      -> Res("brk", t)
      [] s.k = "continue"   -> Res("cnt", t)
      [] s.k = "throw"      -> LET r == Expect(s.id, t, CallOutcome)
                               IN  IF r.o = "norm" THEN Res("exc", r.t) ELSE r
      [] s.k = "return"     -> LET r == Expect(s.id, t, CallOutcome)
                               IN  IF r.o = "norm" THEN Res("val", r.t) ELSE r
      [] s.k = "returnnull" -> Res("nul", t)

ExecAll(ss, t) ==
    IF ss = << >> THEN Res("norm", t)
    ELSE LET r == Exec(ss[1], t)
         IN  IF r.o = "norm" THEN ExecAll(Tail(ss), r.t) ELSE r

(* One loop from the point `at': its test, its body, or a `for' setup.  An *)
(* iteration without any event would go on for ever: n is the length of    *)
(* what was left of the trace at the previous test.                        *)
Looping(s, t, at, n) ==
    CASE at = "body"  -> LET r == Exec(s.s, t)
                         IN  IF r.o \in {"norm", "cnt"} THEN Looping(s, r.t, "test", n)
                             ELSE Res(Quits(r.o), r.t)
      [] at = "setup" -> LET r == Expect(s.id, t, CallOutcome)
                         IN  IF r.o = "norm" THEN Looping(s, r.t, "test", n) ELSE r
      [] at = "test"  -> LET r == IF s.k = "for" THEN Expect(s.id, t, IterOutcome)
                                  ELSE Holds(s.c, t)
                         IN  CASE r.o = "yes" -> IF Len(t) = n THEN Res("more", t)
                                                 ELSE Looping(s, r.t, "body", Len(t))
                               [] r.o = "no"  -> IF s.k = "for" THEN Exec(s.n, r.t)
                                                 ELSE Res("norm", r.t)
                               [] OTHER       -> r

(***************************************************************************)
(* What the source of p says of a trace: "bad" when p cannot produce it,   *)
(* "more" when p would go on, otherwise how the function call ends: with a *)
(* value, with null or with an exception.  A complete trace has no events  *)
(* left over.                                                              *)
(***************************************************************************)
Meaning(p, trace) ==
    LET r == Exec(p, trace)
    IN  CASE r.o \in {"more", "bad"} -> r.o
          [] r.t # << >>             -> "bad"
          [] r.o \in {"norm", "nul"} -> "null"
          [] r.o = "val"             -> "value"
          [] r.o = "exc"             -> "exception"
          [] OTHER                   -> "bad"      \* break outside of a loop
=============================================================================
