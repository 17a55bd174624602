------------------------------- MODULE MCFlow -------------------------------
(***************************************************************************)
(* Compiled programs under execute_loop(), judged by their source: the     *)
(* code generation of Assembler and the passes of AssemblePost composed    *)
(* with the VM of ExecuteLoop.  A cfg gives Executables the compiled form  *)
(* of some of the programs of FlowPrograms, each with the optimisation     *)
(* passes and without.                                                     *)
(*                                                                         *)
(* The shape of the code is inferred by following its edges from the       *)
(* entry; that every other path agrees with it is FrameShape's assumption, *)
(* which TLC evaluates.                                                    *)
(***************************************************************************)
EXTENDS FrameShape, TLC

P == INSTANCE FlowPrograms

Compiled(programs, optimise) ==
    {[src |-> p, instr |-> P!assemble_post(p, o)] : p \in programs, o \in optimise}

(* Follow the edges in todo; the first to reach an instruction shapes it.  *)
RECURSIVE Infer(_, _, _)
Infer(instr, todo, shape) ==
    IF todo = {} THEN shape
    ELSE LET e == CHOOSE e \in todo : TRUE
         IN  IF e[1] \in DOMAIN shape THEN Infer(instr, todo \ {e}, shape)
             ELSE Infer(instr, (todo \ {e}) \cup Edges(instr[e[1]], e[1], e[2], e[3]),
                        (e[1] :> [kinds |-> e[2], blocks |-> e[3]]) @@ shape)

WithShape(x) == [src   |-> x.src,
                 instr |-> x.instr,
                 shape |-> Infer(x.instr, {<<1, << >>, << >>>>}, << >>)]

WithShapes(executables) == {WithShape(x) : x \in executables}

ShapedExecutables == WithShapes(Compiled(P!LoopPrograms \cup P!CondPrograms, BOOLEAN)
                            \cup Compiled(P!EndlessPrograms, {TRUE}))

\* Programs that are not compiled rightly.
WhileExecutables      == WithShapes(Compiled(P!WhilePrograms, BOOLEAN))
DoExecutables         == WithShapes(Compiled(P!DoPrograms, BOOLEAN))
ReturnNullExecutables == WithShapes(Compiled(P!ReturnNullPrograms, BOOLEAN))
TernaryExecutables    == WithShapes(Compiled(P!TernaryPrograms, BOOLEAN))

------------------------------------------------------------------------------
(* Whatever a run has shown so far, the source of the program can show,    *)
(* and a run that is over has ended the way its source ends.  (The code    *)
(* generation of assembler.c, the passes of assemble_post.c and the block  *)
(* stack of vm.c together keep the meaning of break, continue, nobreak,    *)
(* try, throw, return and the boolean operators.)                          *)
TraceMatchesSource ==
    LET m == P!Meaning(ex.src, trace)
    IN  /\ m # "bad"
        /\ retval # "none" => m = retval

(* A program ends or keeps showing events: no jump of execute_loop() leads *)
(* round and round without running any expression of the program.          *)
Terminates == <>(retval # "none" \/ Len(trace) = MaxTrace)
=============================================================================
