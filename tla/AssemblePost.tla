---------------------------- MODULE AssemblePost ----------------------------
(***************************************************************************)
(* What happens to a function's instructions after the parse               *)
(* (src/src/assemble_post.c): the optimisation passes, repeated until none *)
(* of them changes anything, then the labels become jump offsets.          *)
(*                                                                         *)
(* A pass takes a frame [code, lab] to [code, lab, red]; red says whether  *)
(* it reduced anything.  Every scan of the code stops at the first END, as *)
(* the loops of the passes do.  simplify_tuples and the garbage collection *)
(* of .rodata are not modelled: constants are in the instructions here.    *)
(***************************************************************************)
EXTENDS Naturals, Integers, Sequences, FiniteSets, SequencesExt, Assembler

instr_uses_jump(i) == i.op \in {"B", "B_IF", "B_IF_SAVEF", "FOREACH_ITER", "PUSH_BLOCK"}

NOP == Ins("NOP", "-", 0)

(* Nearest instruction after (before) i that is not a NOP; 0 for none.     *)
next_instr(code, i) ==
    CHOOSE j \in (i + 1)..Len(code) :
        /\ code[j].op # "NOP"
        /\ \A m \in (i + 1)..(j - 1) : code[m].op = "NOP"

jump_targets(fr) ==
    {fr.lab[fr.code[i].a2] : i \in {j \in DOMAIN fr.code : instr_uses_jump(fr.code[j])}}

(* Can control enter (low, high] other than at low?                        *)
region_has_inner_entry(targets, low, high) == \E t \in targets : low < t /\ t <= high

------------------------------------------------------------------------------
(* remove_save_flags: a B_IF that keeps the value it tested jumps to a     *)
(* B_IF that tests the value again; jump to where that one would go.       *)
RECURSIVE remove_save_flags(_, _, _)
remove_save_flags(fr, i, red) ==
    LET code == fr.code
        ip2  == fr.lab[code[i].a2]
        same(j) == code[j].op = "B_IF_SAVEF" /\ code[j].a2 = code[i].a2
        retarget(l) == [j \in DOMAIN code |->
            IF i <= j /\ j < ip2 /\ same(j)
            THEN Ins("B_IF", code[j].a1, l) ELSE code[j]]
    IN  CASE code[i].op = "END" -> [code |-> code, lab |-> fr.lab, red |-> red]
          [] code[i].op # "END" /\ (code[i].op # "B_IF_SAVEF" \/ code[ip2].op # "B_IF") ->
                remove_save_flags(fr, next_instr(code, i), red)
          [] OTHER ->
                LET differ == code[i].a1 # code[ip2].a1
                    lab2   == IF differ THEN Append(fr.lab, next_instr(code, ip2)) ELSE fr.lab
                    code2  == retarget(IF differ THEN Len(lab2) ELSE code[ip2].a2)
                IN  remove_save_flags([fr EXCEPT !.code = code2, !.lab = lab2],
                                      next_instr(code2, ip2), TRUE)

(* simplify_const_operands: a constant and the operator applied to it      *)
(* become one constant, unless a jump enters between them.                 *)
RECURSIVE simplify_const_operands(_, _, _, _)
simplify_const_operands(fr, targets, i, red) ==
    LET code == fr.code
        ip2  == next_instr(code, i)
        done == [code |-> code, lab |-> fr.lab, red |-> red]
        go(j) == simplify_const_operands(fr, targets, j, red)
    IN  IF code[i].op = "END" THEN done
        ELSE IF code[i].op # "LOAD_CONST" THEN go(ip2)
        ELSE IF code[ip2].op = "END" THEN done
        ELSE IF code[ip2].op = "LOAD_CONST" THEN     \* no binary operators here
            LET ip3 == next_instr(code, ip2)
            IN  IF code[ip3].op = "END" THEN done ELSE go(ip3)
        ELSE IF region_has_inner_entry(targets, i, ip2) \/ code[ip2].op # "LOGICAL_NOT" THEN go(ip2)
        ELSE LET code2 == [code EXCEPT ![i].a1 = IF @ = "true" THEN "false" ELSE "true", ![ip2] = NOP]
             IN  simplify_const_operands([fr EXCEPT !.code = code2], targets,
                                         next_instr(code2, ip2), TRUE)

(* simplify_conditional_jumps: a constant tested by the next instruction   *)
(* is a jump always taken or never taken.                                  *)
RECURSIVE simplify_conditional_jumps(_, _, _)
simplify_conditional_jumps(fr, i, red) ==
    LET code  == fr.code
        ip2   == next_instr(code, i)
        jumps == code[i].a1 = code[ip2].a1
        code2 == [code EXCEPT ![i] = NOP,
                              ![ip2] = IF jumps THEN Ins("B", "-", @.a2) ELSE NOP]
        done  == [code |-> code, lab |-> fr.lab, red |-> red]
    IN  IF code[i].op = "END" THEN done
        ELSE IF code[ip2].op = "END" THEN done
        ELSE IF code[i].op # "LOAD_CONST" \/ code[ip2].op # "B_IF"
        THEN simplify_conditional_jumps(fr, ip2, red)
        ELSE simplify_conditional_jumps([fr EXCEPT !.code = code2], next_instr(code2, ip2), TRUE)

(* remove_trivial_jumps: a jump to the instruction that follows it.  A     *)
(* conditional one goes only with the load (at `last') it would pop.       *)
RECURSIVE remove_trivial_jumps(_, _, _, _)
remove_trivial_jumps(fr, i, last, red) ==
    LET code    == fr.code
        trivial == /\ code[i].op \in {"B", "B_IF", "B_IF_SAVEF"}
                   /\ next_instr(code, i) = fr.lab[code[i].a2]
                   /\ code[i].op # "B" => code[last].op = "LOAD_CONST"
        code2   == IF ~trivial THEN code
                   ELSE IF code[i].op = "B" THEN [code EXCEPT ![i] = NOP]
                   ELSE [code EXCEPT ![i] = NOP, ![last] = NOP]
    IN  IF code[i].op = "END" THEN [code |-> code, lab |-> fr.lab, red |-> red]
        ELSE remove_trivial_jumps([fr EXCEPT !.code = code2], next_instr(code2, i), i,
                                  red \/ trivial)

(* traverse_code: the instructions reached from i, which END is never one  *)
(* of: the walk stops in front of it.                                      *)
RECURSIVE traverse_code(_, _, _)
traverse_code(fr, hits, i) ==
    IF fr.code[i].op = "END" \/ i \in hits THEN hits
    ELSE LET ii    == fr.code[i]
             there == IF instr_uses_jump(ii)
                      THEN traverse_code(fr, hits \cup {i}, fr.lab[ii.a2])
                      ELSE hits \cup {i}
         IN  IF ii.op = "B" THEN there ELSE traverse_code(fr, there, i + 1)

(* Everything not reached becomes a NOP, the last END excepted.            *)
remove_unreachable_code(fr) ==
    LET hits == traverse_code(fr, {}, 1)
        dead == {i \in 1..(Len(fr.code) - 1) : i \notin hits}
    IN  [code |-> [i \in DOMAIN fr.code |-> IF i \in dead THEN NOP ELSE fr.code[i]],
         lab  |-> fr.lab,
         red  |-> \E i \in dead : fr.code[i].op # "NOP"]

(* remove_nop_instructions: a label into a run of NOPs moves to what       *)
(* follows the run.                                                        *)
remove_nop_instructions(fr) ==
    LET kept(i) == Cardinality({j \in 1..i : fr.code[j].op # "NOP"})
        is(ii)  == ii.op # "NOP"
    IN  [code |-> SelectSeq(fr.code, is), lab |-> [l \in DOMAIN fr.lab |-> kept(fr.lab[l] - 1) + 1]]

------------------------------------------------------------------------------
RECURSIVE NoSaveFlags(_), Reduce(_)
NoSaveFlags(fr) ==
    LET r == remove_save_flags(fr, 1, FALSE) IN IF r.red THEN NoSaveFlags(r) ELSE r

(* One round is all the passes in turn; rounds repeat while they reduce.   *)
Reduce(fr) ==
    LET r1 == simplify_const_operands(fr, jump_targets(fr), 1, FALSE)
        r2 == simplify_conditional_jumps(r1, 1, FALSE)
        r3 == remove_trivial_jumps(r2, 1, 0, FALSE)
        r4 == remove_unreachable_code(r3)
    IN  IF r1.red \/ r2.red \/ r3.red \/ r4.red THEN Reduce(r4) ELSE r4

optimize_instructions_in_frame(fr) ==
    remove_nop_instructions(Reduce(NoSaveFlags(fr)))

(* resolve_jump_labels: a2 becomes the distance from the next instruction. *)
resolve_jump_labels(fr) ==
    [i \in DOMAIN fr.code |->
        IF instr_uses_jump(fr.code[i])
        THEN [fr.code[i] EXCEPT !.a2 = fr.lab[@] - i - 1] ELSE fr.code[i]]

(* The executable code of a function with body p, optimised or not.        *)
assemble_post(p, optimise) ==
    LET fr == assemble_function_body(p)
    IN  resolve_jump_labels(IF optimise THEN optimize_instructions_in_frame(fr) ELSE fr)
=============================================================================
