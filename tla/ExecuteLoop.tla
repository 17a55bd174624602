---------------------------- MODULE ExecuteLoop -----------------------------
(***************************************************************************)
(* One frame under execute_loop() (src/src/vm.c): the program counter, the *)
(* operand stack, the block stack, and the search for an exception         *)
(* handler.  One action per instruction or group of instructions that      *)
(* move the frame alike.                                                   *)
(*                                                                         *)
(* An executable (XptrType) is a record whose field instr is a sequence of *)
(* instructions with offsets for jumps.  An expression is one instruction  *)
(* (CALL, TEST) whose result is open.                                      *)
(*                                                                         *)
(* Of a value on the stack only what an instruction looks at is kept: a    *)
(* truth value for B_IF, "it" for an iterator, "exc" for an exception that *)
(* a handler finds, "val" for anything else.                               *)
(***************************************************************************)
EXTENDS Integers, Sequences, FiniteSets

CONSTANTS Executables,       \* what may run
          FRAME_NEST_MAX,    \* blocks of one frame, enums.h
          MaxTrace           \* bound: visible events of a run

Instruction == [op : STRING, a1 : STRING, a2 : Int]
BlockKind   == {"LOOP", "CONTINUE", "TRY"}

ASSUME NestAssumption  == FRAME_NEST_MAX \in Nat \ {0}
ASSUME BoundAssumption == MaxTrace \in Nat
ASSUME CodeAssumption  == \A x \in Executables : x.instr \in Seq(Instruction)

VARIABLES
    ex,       \* the executable that runs (fr->ex)
    ppii,     \* index of the next instruction (fr->ppii)
    stack,    \* operands above the locals (fr->stack .. fr->stackptr)
    blocks,   \* open blocks (fr->blocks, fr->n_blocks)
    retval,   \* "none" while it runs, then how the loop ended
    trace     \* the visible events so far

vars == <<ex, ppii, stack, blocks, retval, trace>>

ii   == ex.instr[ppii]
Value == {"true", "false", "it", "exc", "val"}
Truth(v) == CASE v = "true" -> {"true"} [] v = "false" -> {"false"} [] OTHER -> {"true", "false"}
Negate(b) == IF b = "true" THEN "false" ELSE "true"

Top        == stack[Len(stack)]
Front(s)   == SubSeq(s, 1, Len(s) - 1)
CutTo(s, n) == IF n < Len(s) THEN SubSeq(s, 1, n) ELSE s      \* vmframe_unwind_block

(* Fetch: the loop runs an instruction and the pc has moved past it.       *)
At(ops) == /\ retval = "none"
           /\ ii.op \in ops

Goto(i, stk)   == /\ ppii' = i
                  /\ stack' = stk
                  /\ UNCHANGED <<blocks, retval>>
Next1(stk)     == Goto(ppii + 1, stk)
Jump(stk)      == Goto(ppii + 1 + ii.a2, stk)

(* A visible event, as long as the bound allows one.                       *)
Visible(e) == /\ Len(trace) < MaxTrace
              /\ trace' = Append(trace, <<ii.a1, e>>)
Silent     == trace' = trace

(* Innermost block of a kind among bs, 0 if there is none.                 *)
IsInnermost(bs, kind, b) ==
    /\ bs[b].type = kind
    /\ \A c \in DOMAIN bs : c > b => bs[c].type # kind

Innermost(bs, kind) ==
    IF \E b \in DOMAIN bs : IsInnermost(bs, kind, b)
    THEN CHOOSE b \in DOMAIN bs : IsInnermost(bs, kind, b)
    ELSE 0

(* Seeded faults: the TRY block stays open; operands are not cut back.     *)
Raise_KeepsBlock(bs, stk) ==
    LET b == Innermost(bs, "TRY")
    IN  IF b # 0 THEN /\ blocks' = SubSeq(bs, 1, b)
                      /\ stack'  = Append(CutTo(stk, bs[b].level), "exc")
                      /\ ppii'   = bs[b].jmpto
                      /\ UNCHANGED retval
        ELSE blocks' = << >> /\ retval' = "exception" /\ ppii' = ppii + 1 /\ stack' = stk

Raise_KeepsOperands(bs, stk) ==
    LET b == Innermost(bs, "TRY")
    IN  IF b # 0 THEN /\ blocks' = SubSeq(bs, 1, b - 1)
                      /\ stack'  = Append(stk, "exc")
                      /\ ppii'   = bs[b].jmpto
                      /\ UNCHANGED retval
        ELSE blocks' = << >> /\ retval' = "exception" /\ ppii' = ppii + 1 /\ stack' = stk

(***************************************************************************)
(* RES_ERROR and RES_EXCEPTION: blocks are popped up to the innermost TRY. *)
(* Its handler runs on the stack of the time the block was pushed, with    *)
(* the exception on top; without one the loop ends with ErrorVar.          *)
(***************************************************************************)
Raise(bs, stk) ==
    LET b == Innermost(bs, "TRY")
    IN  IF b # 0
        THEN /\ blocks' = SubSeq(bs, 1, b - 1)
             /\ stack'  = Append(CutTo(stk, bs[b].level), "exc")
             /\ ppii'   = bs[b].jmpto
             /\ UNCHANGED retval
        ELSE /\ blocks' = << >>
             /\ retval' = "exception"
             /\ ppii'   = ppii + 1
             /\ stack'  = stk

Finish(how, stk) ==
    /\ retval' = how
    /\ stack'  = stk
    /\ ppii'   = ppii + 1
    /\ UNCHANGED blocks

------------------------------------------------------------------------------
Init == /\ ex \in Executables
        /\ ppii = 1
        /\ stack = << >>
        /\ blocks = << >>
        /\ retval = "none"
        /\ trace = << >>

(* A call that returns or throws (do_call_func and what precedes it).      *)
Call == /\ At({"CALL"})
        /\ \/ Visible("ok") /\ Next1(Append(stack, "val"))
           \/ Visible("throw") /\ Raise(blocks, stack)

TestValue == /\ At({"TEST"})
             /\ \E b \in {"true", "false"} : Visible(b) /\ Next1(Append(stack, b))

(* do_load_const, do_pop, do_assign_local, do_logical_not.                 *)
LoadConst == /\ At({"LOAD_CONST"})
             /\ Silent
             /\ Next1(Append(stack, ii.a1))

Pop == /\ At({"POP", "ASSIGN_LOCAL"})
       /\ Silent
       /\ Next1(Front(stack))

LogicalNot == /\ At({"LOGICAL_NOT"})
              /\ Silent
              /\ \E b \in Truth(Top) : Next1(Append(Front(stack), Negate(b)))

(* do_b, do_b_if: SAVEF leaves the value when the jump is taken.           *)
(* Seeded fault: a backward jump does not leave the instruction.           *)
Branch_Stays == /\ At({"B"})
                /\ Silent
                /\ IF ii.a2 < 0 THEN Goto(ppii, stack) ELSE Jump(stack)

Branch == /\ At({"B"})
          /\ Silent
          /\ Jump(stack)

BranchIf == /\ At({"B_IF", "B_IF_SAVEF"})
            /\ Silent
            /\ \E b \in Truth(Top) :
                  IF b = ii.a1 THEN Jump(IF ii.op = "B_IF" THEN Front(stack) ELSE stack)
                  ELSE Next1(Front(stack))

(* Seeded fault: the level is that of the topmost operand.                 *)
PushBlock_LevelBelow ==
    /\ At({"PUSH_BLOCK"})
    /\ Silent
    /\ blocks' = Append(blocks, [type |-> ii.a1, level |-> Len(stack) - 1,
                                 jmpto |-> ppii + 1 + ii.a2])
    /\ ppii' = ppii + 1
    /\ UNCHANGED <<stack, retval>>

(* vmframe_push_block: RecursionError when the frame has no room.          *)
PushBlock ==
    /\ At({"PUSH_BLOCK"})
    /\ Silent
    /\ IF Len(blocks) >= FRAME_NEST_MAX THEN Raise(blocks, stack)
       ELSE /\ blocks' = Append(blocks, [type  |-> ii.a1,
                                         level |-> Len(stack),
                                         jmpto |-> ppii + 1 + ii.a2])
            /\ ppii' = ppii + 1
            /\ UNCHANGED <<stack, retval>>

(* do_pop_block; vmframe_pop_block() ends the program if there is none.    *)
PopBlock ==
    /\ At({"POP_BLOCK"})
    /\ Silent
    /\ IF blocks = << >> THEN Finish("underflow", stack)
       ELSE /\ blocks' = Front(blocks)
            /\ stack'  = CutTo(stack, blocks[Len(blocks)].level)
            /\ ppii'   = ppii + 1
            /\ UNCHANGED retval

(* Seeded fault: the block around the loop goes as well.                   *)
BreakOrContinue_PopsMore ==
    /\ At({"BREAK", "CONTINUE"})
    /\ Silent
    /\ LET b == Innermost(blocks, IF ii.op = "BREAK" THEN "LOOP" ELSE "CONTINUE")
       IN  IF b = 0 THEN Raise(<< >>, stack)
           ELSE /\ blocks' = SubSeq(blocks, 1, b - 2)
                /\ stack'  = CutTo(stack, blocks[b].level)
                /\ ppii'   = blocks[b].jmpto
                /\ UNCHANGED retval

(* break_or_continue: blocks are popped up to the innermost one of the     *)
(* kind; if there is none, all are gone when the error is raised.          *)
BreakOrContinue ==
    /\ At({"BREAK", "CONTINUE"})
    /\ Silent
    /\ LET b == Innermost(blocks, IF ii.op = "BREAK" THEN "LOOP" ELSE "CONTINUE")
       IN  IF b = 0 THEN Raise(<< >>, stack)
           ELSE /\ blocks' = SubSeq(blocks, 1, b - 1)
                /\ stack'  = CutTo(stack, blocks[b].level)
                /\ ppii'   = blocks[b].jmpto
                /\ UNCHANGED retval

(* do_foreach_setup: the sequence on top gives way to its iterator.        *)
ForeachSetup ==
    /\ At({"FOREACH_SETUP"})
    /\ \/ Visible("ok") /\ Next1(Append(Front(stack), "it"))
       \/ Visible("throw") /\ Raise(blocks, Front(stack))

(* do_foreach_iter: an error takes the iterator off the stack.             *)
ForeachIter ==
    /\ At({"FOREACH_ITER"})
    /\ \/ Visible("item") /\ Next1(Append(stack, "val"))
       \/ Visible("last") /\ Jump(stack)
       \/ Visible("throw") /\ Raise(blocks, Front(stack))

ThrowValue == /\ At({"THROW"})
              /\ Silent
              /\ Raise(blocks, Front(stack))

ReturnValue == /\ At({"RETURN_VALUE"})
               /\ Silent
               /\ Finish("value", Front(stack))

EndOfCode == /\ At({"END"})
             /\ Silent
             /\ Finish("null", stack)

(* The bound on the trace is no behaviour of the VM: the run is over.      *)
Bounded == retval = "none" /\ Len(trace) = MaxTrace
Over    == /\ retval # "none" \/ Bounded
           /\ UNCHANGED vars

Next == \/ /\ \/ Call \/ TestValue \/ LoadConst \/ Pop \/ LogicalNot
              \/ Branch \/ BranchIf
              \/ PushBlock \/ PopBlock \/ BreakOrContinue
              \/ ForeachSetup \/ ForeachIter
              \/ ThrowValue \/ ReturnValue \/ EndOfCode
           /\ UNCHANGED ex
        \/ Over

(* The loop does not stop between two instructions.                        *)
Spec == Init /\ [][Next]_vars /\ WF_vars(Next)
=============================================================================
