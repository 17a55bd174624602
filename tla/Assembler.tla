----------------------------- MODULE Assembler ------------------------------
(***************************************************************************)
(* Code generation for statements and conditions: the recursive descent of *)
(* src/src/assembler.c, over the abstract syntax of Statements instead of  *)
(* tokens.                                                                 *)
(*                                                                         *)
(* An assembly frame (struct as_frame_t) is the record                     *)
(*     code  the instructions so far (af_instr)                            *)
(*     lab   the labels: lab[l] is the index l stands for (af_labels), 0   *)
(*           while it is not set                                           *)
(*     nest  the number of open scopes (nest)                              *)
(*     ok    no SyntaxError so far                                         *)
(* Indexes are TLA+'s, from 1.  A label is an index of lab.                *)
(*                                                                         *)
(* An instruction is [op, a1, a2] as in instruction_t.  Three opcodes      *)
(* stand for the instructions of an expression that ends with one value on *)
(* the stack: CALL (an expression that may throw), TEST (one used for its  *)
(* truth value only); both name the expression in a1, which is what the    *)
(* trace shows.                                                            *)
(***************************************************************************)
EXTENDS Statements, SequencesExt

CONSTANT FRAME_NEST_MAX          \* blocks and scopes of one frame, enums.h

Ins(op, a1, a2) == [op |-> op, a1 |-> a1, a2 |-> a2]

NewFrame == [code |-> << >>, lab |-> << >>, nest |-> 0, ok |-> TRUE]

add_instr(st, op, a1, a2) == [st EXCEPT !.code = Append(@, Ins(op, a1, a2))]

(* as_next_label() and as_set_label().  as_next_label's callers take n     *)
(* labels at a time here: the new ones are Len(st.lab)+1 .. Len(st.lab)+n. *)
as_next_label(st, n) == [st EXCEPT !.lab = @ \o [i \in 1..n |-> 0]]
as_set_label(st, l)  == [st EXCEPT !.lab[l] = Len(st.code) + 1]

(* A scope opens; only those that are not mere scopes cost an instruction. *)
ainstr_push_block(st, kind, label) ==
    IF st.nest >= FRAME_NEST_MAX THEN [st EXCEPT !.ok = FALSE]
    ELSE LET up == [st EXCEPT !.nest = @ + 1]
         IN  IF kind = "BLOCK" THEN up ELSE add_instr(up, "PUSH_BLOCK", kind, label)

ainstr_pop_block(st, kind) ==
    LET down == [st EXCEPT !.nest = @ - 1]
    IN  IF kind = "BLOCK" THEN down ELSE add_instr(down, "POP_BLOCK", kind, 0)

------------------------------------------------------------------------------
(* Conditions.  A conditional jump's a1 is the truth value it jumps on     *)
(* (IARG_COND_COND); B_IF_SAVEF is B_IF with IARG_COND_SAVEF, which leaves *)
(* the value on the stack when it jumps.                                   *)

(* The operands of what is joined by the same operator without             *)
(* parentheses, from the left: they share a label.                         *)
RECURSIVE Joined(_, _)
Joined(c, k) == IF c.k = k THEN Append(Joined(c.c, k), c.d) ELSE <<c>>

RECURSIVE assemble_cond(_, _)
assemble_cond(c, st) ==
    CASE c.k = "const" -> add_instr(st, "LOAD_CONST", IF c.v THEN "true" ELSE "false", 0)
      [] c.k = "test"  -> add_instr(st, "TEST", c.id, 0)
      [] c.k = "not"   -> add_instr(assemble_cond(c.c, st), "LOGICAL_NOT", "-", 0)
      [] c.k \in {"and", "or"} ->
            LET all == Joined(c, c.k)
                s1  == assemble_cond(all[1], st)
                l   == Len(s1.lab) + 1
                jump(acc) == add_instr(acc, "B_IF_SAVEF", IF c.k = "or" THEN "true" ELSE "false", l)
                each(acc, d) == assemble_cond(d, jump(acc))
            IN  as_set_label(FoldLeft(each, as_next_label(s1, 1), Tail(all)), l)
      [] c.k = "ternary" ->
            LET s1       == assemble_cond(c.c, st)
                end      == Len(s1.lab) + 1
                if_false == Len(s1.lab) + 2
                s2 == add_instr(as_next_label(s1, 2), "B_IF", "false", if_false)
                s3 == add_instr(assemble_cond(c.d, s2), "B", "-", end)
            IN  as_set_label(assemble_cond(c.e, as_set_label(s3, if_false)), end)

------------------------------------------------------------------------------
(* assemble_stmt(s, st, ct): ct is the label `continue' goes to when s is  *)
(* the body of a loop, 0 otherwise (FE_CONTINUE and continueto).           *)
RECURSIVE assemble_stmt(_, _, _)

(* Only a body in braces gets the CONTINUE block.                          *)
assemble_block_stmt(ss, st, ct) ==
    LET kind  == IF ct = 0 THEN "BLOCK" ELSE "CONTINUE"
        st1   == ainstr_push_block(st, kind, ct)
        each(acc, s) == assemble_stmt(s, acc, 0)
    IN  ainstr_pop_block(FoldLeft(each, st1, ss), kind)

assemble_if(s, st) ==
    LET end  == Len(st.lab) + 1
        else == Len(st.lab) + 2
        s1 == add_instr(assemble_cond(s.c, as_next_label(st, 3)),
                        "B_IF", "false", else)
        s2 == add_instr(assemble_stmt(s.s, s1, 0), "B", "-", end)
        s3 == as_set_label(s2, else)
    IN  as_set_label(as_set_label(assemble_stmt(s.t, s3, 0), else + 1), end)

assemble_while(s, st) ==
    LET start   == Len(st.lab) + 1
        breakto == Len(st.lab) + 2
        s1 == as_set_label(ainstr_push_block(as_next_label(st, 2), "LOOP", breakto), start)
        s2 == add_instr(assemble_cond(s.c, s1), "B_IF", "false", breakto)
        s3 == add_instr(assemble_stmt(s.s, s2, start), "B", "-", start)
    IN  as_set_label(ainstr_pop_block(s3, "LOOP"), breakto)

assemble_do(s, st) ==
    LET start   == Len(st.lab) + 1
        breakto == Len(st.lab) + 2
        s1 == as_set_label(ainstr_push_block(as_next_label(st, 2), "LOOP", breakto), start)
        s2 == assemble_cond(s.c, assemble_stmt(s.s, s1, start))
        s3 == add_instr(s2, "B_IF", "true", start)
    IN  as_set_label(ainstr_pop_block(s3, "LOOP"), breakto)

(* assemble_foreach(), assemble_foreach1() and assemble_foreach2() with    *)
(* one needle.                                                             *)
assemble_foreach(s, st) ==
    LET breakto == Len(st.lab) + 1
        forelse == Len(st.lab) + 2
        iter    == Len(st.lab) + 3
        next    == Len(st.lab) + 4          \* iternext
        s1 == ainstr_push_block(as_next_label(st, 4), "LOOP", breakto)
        s2 == add_instr(add_instr(s1, "CALL", s.id, 0), "FOREACH_SETUP", s.id, 0)
        s3 == add_instr(as_set_label(s2, iter), "FOREACH_ITER", s.id, forelse)
        s4 == add_instr(ainstr_push_block(s3, "BLOCK", 0), "ASSIGN_LOCAL", "-", 0)
        s5 == as_set_label(assemble_stmt(s.s, s4, next), next)
        s6 == add_instr(ainstr_pop_block(s5, "BLOCK"), "B", "-", iter)
        s7 == assemble_stmt(s.n, as_set_label(s6, forelse), 0)
    IN  as_set_label(ainstr_pop_block(s7, "LOOP"), breakto)

assemble_try(s, st) ==
    LET finally == Len(st.lab) + 1
        catch   == Len(st.lab) + 2
        s1 == ainstr_push_block(as_next_label(st, 2), "TRY", catch)
        s2 == ainstr_pop_block(assemble_stmt(s.s, s1, 0), "TRY")
        s3 == as_set_label(add_instr(s2, "B", "-", finally), catch)
        s4 == add_instr(ainstr_push_block(s3, "BLOCK", 0), "ASSIGN_LOCAL", "-", 0)
        s5 == ainstr_pop_block(assemble_stmt(s.h, s4, 0), "BLOCK")
    IN  assemble_stmt(s.f, as_set_label(s5, finally), 0)

assemble_stmt(s, st, ct) ==
    CASE s.k = "skip"       -> st
      [] s.k = "call"       -> add_instr(add_instr(st, "CALL", s.id, 0), "POP", "-", 0)
      [] s.k = "block"      -> assemble_block_stmt(s.ss, st, ct)
      [] s.k = "if"         -> assemble_if(s, st)
      [] s.k = "while"      -> assemble_while(s, st)
      [] s.k = "do"         -> assemble_do(s, st)
      [] s.k = "for"        -> assemble_foreach(s, st)
      [] s.k = "try"        -> assemble_try(s, st)
      [] s.k = "break"      -> add_instr(st, "BREAK", "-", 0)
      [] s.k = "continue"   -> add_instr(st, "CONTINUE", "-", 0)
      [] s.k = "throw"      -> add_instr(add_instr(st, "CALL", s.id, 0), "THROW", "-", 0)
      [] s.k = "return"     -> add_instr(add_instr(st, "CALL", s.id, 0), "RETURN_VALUE", "-", 0)
      [] s.k = "returnnull" -> add_instr(st, "END", "-", 0)

(* The frame of a function whose body is p.                                *)
assemble_function_body(p) == add_instr(assemble_stmt(p, NewFrame, 0), "END", "-", 0)
=============================================================================
