----------------------------- MODULE FrameShape -----------------------------
(***************************************************************************)
(* execute_loop() trusts its code: in a release build nothing checks that  *)
(* a POP finds an operand, that POP_BLOCK finds a block, or that what      *)
(* FOREACH_ITER takes for an iterator is one (push() and pop() test the    *)
(* stack with bug_on() in debug builds only).  This module says which code *)
(* deserves the trust.                                                     *)
(*                                                                         *)
(* A shape gives each instruction that can be reached the one operand      *)
(* stack and the one block stack it is run on, whatever path leads to it:  *)
(* x.shape[i] = [kinds, blocks].  An executable is shaped when every       *)
(* instruction leaves what its successors, handlers and loop ends expect.  *)
(***************************************************************************)
EXTENDS ExecuteLoop

Kind(v) == IF v = "it" THEN "it" ELSE "v"       \* of a value on the stack
Kinds   == {"it", "v"}
Block   == [type : BlockKind, level : Nat, jmpto : Nat]
Shape   == [kinds : Seq(Kinds), blocks : Seq(Block)]

HasKinds(stk, ks) == /\ Len(stk) = Len(ks)
                     /\ \A j \in 1..Len(ks) : Kind(stk[j]) = ks[j]

(* An edge <<j, ks, bs>>: control goes to j on the stack ks with blocks bs.*)
(* Leaving for a block takes the stack and the blocks back to it.          *)
To(bs, ks, b) == <<bs[b].jmpto, SubSeq(ks, 1, bs[b].level), SubSeq(bs, 1, b - 1)>>

Caught(ks, bs) ==            \* an exception raised under bs
    LET b == Innermost(bs, "TRY")
    IN  IF b = 0 THEN {} ELSE {<<To(bs, ks, b)[1], Append(To(bs, ks, b)[2], "v"), To(bs, ks, b)[3]>>}

Left(ks, bs, kind) ==        \* break, continue
    LET b == Innermost(bs, kind) IN IF b = 0 THEN {} ELSE {To(bs, ks, b)}

Edges(ins, i, ks, bs) ==
    LET rest == SubSeq(ks, 1, Len(ks) - 1)
        next == i + 1
        to   == i + 1 + ins.a2
        blk  == [type |-> ins.a1, level |-> Len(ks), jmpto |-> to]
        op   == ins.op
    IN  CASE op = "CALL"                 -> {<<next, Append(ks, "v"), bs>>} \cup Caught(ks, bs)
          [] op \in {"TEST", "LOAD_CONST"} -> {<<next, Append(ks, "v"), bs>>}
          [] op \in {"POP", "ASSIGN_LOCAL"} -> {<<next, rest, bs>>}
          [] op = "LOGICAL_NOT"          -> {<<next, Append(rest, "v"), bs>>}
          [] op = "B"                    -> {<<to, ks, bs>>}
          [] op = "B_IF"                 -> {<<to, rest, bs>>, <<next, rest, bs>>}
          [] op = "B_IF_SAVEF"           -> {<<to, ks, bs>>, <<next, rest, bs>>}
          [] op = "PUSH_BLOCK"           -> {<<next, ks, Append(bs, blk)>>}
          [] op = "POP_BLOCK"            -> IF bs = << >> THEN {}
                                            ELSE {<<next, To(bs, ks, Len(bs))[2], To(bs, ks, Len(bs))[3]>>}
          [] op = "BREAK"                -> Left(ks, bs, "LOOP")
          [] op = "CONTINUE"             -> Left(ks, bs, "CONTINUE")
          [] op = "FOREACH_SETUP"        -> {<<next, Append(rest, "it"), bs>>} \cup Caught(rest, bs)
          [] op = "FOREACH_ITER"         -> {<<next, Append(ks, "v"), bs>>, <<to, ks, bs>>} \cup Caught(rest, bs)
          [] op = "THROW"                -> Caught(rest, bs)
          [] OTHER                       -> {}

Popping == {"POP", "ASSIGN_LOCAL", "LOGICAL_NOT", "B_IF", "B_IF_SAVEF", "FOREACH_SETUP",
            "FOREACH_ITER", "THROW", "RETURN_VALUE"}

(* What an instruction may ask of its shape.                               *)
Needs(ins, ks, bs) ==
    /\ ins.op \in Popping => /\ ks # << >>
                              /\ \A b \in DOMAIN bs : bs[b].level < Len(ks)
    /\ ins.op = "FOREACH_ITER" => ks[Len(ks)] = "it"
    /\ ins.op = "LOAD_CONST" => ins.a1 \in {"true", "false"}
    /\ ins.op = "PUSH_BLOCK" => Len(bs) < FRAME_NEST_MAX
    /\ ins.op = "POP_BLOCK" => bs # << >>
    /\ ins.op = "BREAK" => Innermost(bs, "LOOP") # 0
    /\ ins.op = "CONTINUE" => Innermost(bs, "CONTINUE") # 0

Fits(x, i) ==
    LET ks == x.shape[i].kinds
        bs == x.shape[i].blocks
    IN  /\ Needs(x.instr[i], ks, bs)
        /\ \A b \in DOMAIN bs : bs[b].level <= Len(ks)
        /\ \A e \in Edges(x.instr[i], i, ks, bs) :
              /\ e[1] \in DOMAIN x.shape
              /\ x.shape[e[1]] = [kinds |-> e[2], blocks |-> e[3]]

Shaped(x) ==
    /\ DOMAIN x.shape \subseteq DOMAIN x.instr
    /\ \A i \in DOMAIN x.shape : x.shape[i] \in Shape
    /\ 1 \in DOMAIN x.shape
    /\ x.shape[1] = [kinds |-> << >>, blocks |-> << >>]
    /\ \A i \in DOMAIN x.shape : Fits(x, i)

ASSUME ShapeAssumption == \A x \in Executables : Shaped(x)

------------------------------------------------------------------------------
TypeOK == /\ ppii \in Nat
          /\ stack \in Seq(Value)
          /\ blocks \in Seq(Block)
          /\ retval \in {"none", "null", "value", "exception"}

(***************************************************************************)
(* A running frame has the shape of the instruction it is about to run:    *)
(* the operands there are those the compiler counted on, an iterator where *)
(* a `for' loop keeps its iterator, and exactly the blocks that enclose    *)
(* the instruction are open (execute_loop, vmframe_unwind_block).          *)
(***************************************************************************)
FrameHasShape ==
    retval = "none" =>
        /\ ppii \in DOMAIN ex.shape
        /\ blocks = ex.shape[ppii].blocks
        /\ HasKinds(stack, ex.shape[ppii].kinds)

(***************************************************************************)
(* What pop(), FOREACH_ITER, vmframe_push_block() and vmframe_pop_block()  *)
(* rely on: an instruction that pops finds an operand, and one that was    *)
(* pushed since the innermost block was; FOREACH_ITER pops an iterator;    *)
(* there is room for a block; and no POP_BLOCK finds the block stack empty.*)
(***************************************************************************)
NothingUnderflows ==
    /\ retval # "underflow"
    /\ retval = "none" =>
          /\ ii.op \in Popping => /\ stack # << >>
                                 /\ \A b \in DOMAIN blocks : blocks[b].level < Len(stack)
          /\ ii.op = "FOREACH_ITER" => Top = "it"
          /\ ii.op = "PUSH_BLOCK" => Len(blocks) < FRAME_NEST_MAX
=============================================================================
