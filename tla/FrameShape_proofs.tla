------------------------- MODULE FrameShape_proofs --------------------------
(***************************************************************************)
(* Shaped code keeps its shape, whatever the code: proofs about FrameShape.*)
(*                                                                         *)
(* FrameHasShape is inductive once the types are known.  Every action that *)
(* leaves the frame running follows one edge of its instruction, so the    *)
(* frame gets the shape at the other end of the edge (lemma Arrives).      *)
(***************************************************************************)
EXTENDS FrameShape, TLAPS

(* The inductive invariant.                                                *)
Inv == /\ ex \in Executables
       /\ TypeOK
       /\ FrameHasShape

ks == ex.shape[ppii].kinds      \* what the instruction counts on
------------------------------------------------------------------------------
(* Operand stacks and their kinds.                                         *)

(* A value pushed (push() of vm.c) adds its kind to those of the stack.    *)
LEMMA KindsAppend ==
    ASSUME NEW s \in Seq(Value), NEW k \in Seq(Kinds), HasKinds(s, k), NEW v \in Value
    PROVE  /\ Append(s, v) \in Seq(Value)
           /\ HasKinds(Append(s, v), Append(k, Kind(v)))
<1>1. Len(Append(s, v)) = Len(s) + 1 /\ Len(Append(k, Kind(v))) = Len(k) + 1
  OBVIOUS
<1>2. ASSUME NEW j \in 1..Len(Append(k, Kind(v)))
      PROVE  Kind(Append(s, v)[j]) = Append(k, Kind(v))[j]
  BY <1>1 DEF HasKinds
<1> QED
  BY <1>1, <1>2 DEF HasKinds

(* The lower part of a stack has the lower part of the kinds.              *)
LEMMA KindsPrefix ==
    ASSUME NEW s \in Seq(Value), NEW k \in Seq(Kinds), HasKinds(s, k), NEW n \in 0..Len(k)
    PROVE  /\ SubSeq(s, 1, n) \in Seq(Value)
           /\ HasKinds(SubSeq(s, 1, n), SubSeq(k, 1, n))
<1>1. Len(SubSeq(s, 1, n)) = n /\ Len(SubSeq(k, 1, n)) = n
  BY DEF HasKinds
<1>2. \A j \in 1..n : SubSeq(s, 1, n)[j] = s[j] /\ SubSeq(k, 1, n)[j] = k[j]
  BY DEF HasKinds
<1> QED
  BY <1>1, <1>2 DEF HasKinds

(* A value popped (pop() of vm.c) takes its kind with it, and is of that   *)
(* kind.                                                                   *)
LEMMA KindsFront ==
    ASSUME NEW s \in Seq(Value), NEW k \in Seq(Kinds), HasKinds(s, k), k # << >>
    PROVE  /\ Front(s) \in Seq(Value)
           /\ HasKinds(Front(s), SubSeq(k, 1, Len(k) - 1))
           /\ SubSeq(k, 1, Len(k) - 1) \in Seq(Kinds)
           /\ Len(SubSeq(k, 1, Len(k) - 1)) = Len(k) - 1
           /\ s[Len(s)] \in Value
           /\ Kind(s[Len(s)]) = k[Len(k)]
<1>1. Len(s) = Len(k) /\ Len(k) - 1 \in 0..Len(k)
  BY DEF HasKinds
<1>2. SubSeq(s, 1, Len(s) - 1) \in Seq(Value) /\ HasKinds(SubSeq(s, 1, Len(s) - 1), SubSeq(k, 1, Len(k) - 1))
  BY <1>1, KindsPrefix
<1> QED
  BY <1>1, <1>2 DEF HasKinds, Front

(* vmframe_unwind_block() to a level leaves the kinds up to that level.    *)
LEMMA KindsCut ==
    ASSUME NEW s \in Seq(Value), NEW k \in Seq(Kinds), HasKinds(s, k), NEW n \in 0..Len(k)
    PROVE  /\ CutTo(s, n) \in Seq(Value)
           /\ HasKinds(CutTo(s, n), SubSeq(k, 1, n))
<1>1. CASE n < Len(s)
  BY <1>1, KindsPrefix DEF CutTo
<1>2. CASE ~(n < Len(s))
  <2>1. n = Len(k)
    BY <1>2 DEF HasKinds
  <2>2. SubSeq(k, 1, n) = k
    BY <2>1
  <2> QED
    BY <1>2, <2>2 DEF CutTo
<1> QED
  BY <1>1, <1>2

(* A search for a block that finds one finds an open one.                  *)
LEMMA InnermostIsBlock ==
    ASSUME NEW bs, NEW kind, Innermost(bs, kind) # 0
    PROVE  Innermost(bs, kind) \in DOMAIN bs
BY DEF Innermost

------------------------------------------------------------------------------
(* What the assumption on shapes gives for the instruction that runs.      *)
LEMMA Standing ==
    ASSUME Inv, retval = "none"
    PROVE  /\ ppii \in DOMAIN ex.instr
           /\ ex.instr \in Seq(Instruction)
           /\ ii \in Instruction
           /\ ex.shape[ppii] \in Shape
           /\ ks \in Seq(Kinds)
           /\ blocks = ex.shape[ppii].blocks
           /\ blocks \in Seq(Block)
           /\ HasKinds(stack, ks)
           /\ Needs(ii, ks, blocks)
           /\ \A b \in DOMAIN blocks : blocks[b].level \in 0..Len(ks)
<1>1. Shaped(ex) /\ ex.instr \in Seq(Instruction)
  BY ShapeAssumption, CodeAssumption DEF Inv
<1>2. ppii \in DOMAIN ex.shape /\ blocks = ex.shape[ppii].blocks /\ HasKinds(stack, ks)
  BY DEF Inv, FrameHasShape, ks
<1>3. ex.shape[ppii] \in Shape /\ ppii \in DOMAIN ex.instr /\ Fits(ex, ppii)
  BY <1>1, <1>2 DEF Shaped
<1>4. ii \in Instruction
  BY <1>1, <1>3 DEF ii
<1>5. Needs(ii, ks, blocks) /\ \A b \in DOMAIN blocks : blocks[b].level <= Len(ks)
  BY <1>2, <1>3 DEF Fits, ks, ii
<1>6. blocks \in Seq(Block) /\ ks \in Seq(Kinds)
  BY <1>2, <1>3 DEF Shape, ks
<1>7. \A b \in DOMAIN blocks : blocks[b].level \in Nat
  <2>1. \A b \in DOMAIN blocks : blocks[b] \in Block
    BY <1>6
  <2> QED
    BY <2>1 DEF Block
<1>8. Len(ks) \in Nat
  BY <1>6
<1> QED
  BY <1>1, <1>2, <1>3, <1>4, <1>5, <1>6, <1>7, <1>8

(* A step along an edge restores the invariant.                            *)
LEMMA Arrives ==
    ASSUME Inv, retval = "none", ex' = ex, retval' = retval, stack' \in Seq(Value),
           NEW k, HasKinds(stack', k), <<ppii', k, blocks'>> \in Edges(ii, ppii, ks, blocks)
    PROVE  Inv'
<1> DEFINE e == <<ppii', k, blocks'>>
<1>1. Shaped(ex)
  BY ShapeAssumption DEF Inv
<1>2. Fits(ex, ppii) /\ blocks = ex.shape[ppii].blocks
  BY <1>1 DEF Inv, FrameHasShape, Shaped
<1>3. e[1] \in DOMAIN ex.shape /\ ex.shape[e[1]] = [kinds |-> e[2], blocks |-> e[3]]
  BY <1>2 DEF Fits, ks, ii
<1>4. ppii' \in DOMAIN ex.shape /\ ex.shape[ppii'].kinds = k /\ ex.shape[ppii'].blocks = blocks'
  BY <1>3
<1>5. ppii' \in Nat /\ blocks' \in Seq(Block)
  <2>1. ex.instr \in Seq(Instruction)
    BY CodeAssumption DEF Inv
  <2>2. DOMAIN ex.instr \subseteq Nat
    BY <2>1
  <2> QED
    BY <1>1, <1>4, <2>2 DEF Shaped, Shape
<1> QED
  BY <1>4, <1>5 DEF Inv, TypeOK, FrameHasShape

(* A step that ends the loop has no shape to keep.                         *)
LEMMA Ends ==
    ASSUME Inv, ex' = ex, retval' \in {"null", "value", "exception"},
           stack' \in Seq(Value), blocks' \in Seq(Block), ppii' = ppii + 1
    PROVE  Inv'
BY DEF Inv, TypeOK, FrameHasShape

(* Raising an exception on the stack s, whose kinds are k.                 *)
LEMMA Raises ==
    ASSUME Inv, retval = "none", ex' = ex,
           NEW s \in Seq(Value), NEW k \in Seq(Kinds), HasKinds(s, k),
           \A b \in DOMAIN blocks : blocks[b].level \in 0..Len(k),
           Caught(k, blocks) \subseteq Edges(ii, ppii, ks, blocks),
           Raise(blocks, s)
    PROVE  Inv'
<1> DEFINE b == Innermost(blocks, "TRY")
<1>1. CASE b # 0
  <2>1. b \in DOMAIN blocks
    BY <1>1, InnermostIsBlock
  <2> DEFINE n == blocks[b].level
             k2 == Append(SubSeq(k, 1, n), "v")
  <2>2. n \in 0..Len(k)
    BY <2>1
  <2>3. /\ blocks' = SubSeq(blocks, 1, b - 1)
        /\ stack' = Append(CutTo(s, n), "exc")
        /\ ppii' = blocks[b].jmpto
        /\ retval' = retval
    BY <1>1 DEF Raise
  <2>4. CutTo(s, n) \in Seq(Value) /\ HasKinds(CutTo(s, n), SubSeq(k, 1, n))
    BY <2>2, KindsCut
  <2>5. SubSeq(k, 1, n) \in Seq(Kinds) /\ "exc" \in Value /\ Kind("exc") = "v"
    BY <2>2 DEF Value, Kind
  <2>6. stack' \in Seq(Value) /\ HasKinds(stack', k2)
    BY <2>3, <2>4, <2>5, KindsAppend
  <2>7. <<ppii', k2, blocks'>> \in Caught(k, blocks)
    BY <1>1, <2>3 DEF Caught, To
  <2> QED
    BY <2>3, <2>6, <2>7, Arrives
<1>2. CASE b = 0
  <2>1. /\ blocks' = << >>
        /\ retval' = "exception"
        /\ ppii' = ppii + 1
        /\ stack' = s
    BY <1>2 DEF Raise
  <2> QED
    BY <2>1, Ends
<1> QED
  BY <1>1, <1>2

------------------------------------------------------------------------------
(* One lemma for the instructions that move the frame alike.               *)

(* An instruction that pushes a value and goes on to the next.             *)
LEMMA PushKeeps ==
    ASSUME Inv, retval = "none", ex' = ex, NEW v \in Value, Next1(Append(stack, v)),
           <<ppii + 1, Append(ks, Kind(v)), blocks>> \in Edges(ii, ppii, ks, blocks)
    PROVE  Inv'
<1>1. ks \in Seq(Kinds) /\ HasKinds(stack, ks) /\ stack \in Seq(Value)
  BY Standing DEF Inv, TypeOK
<1>2. stack' = Append(stack, v) /\ ppii' = ppii + 1 /\ blocks' = blocks /\ retval' = retval
  BY DEF Next1, Goto
<1>3. stack' \in Seq(Value) /\ HasKinds(stack', Append(ks, Kind(v)))
  BY <1>1, <1>2, KindsAppend
<1> QED
  BY <1>2, <1>3, Arrives

(* The frame without its topmost operand is one an instruction that pops   *)
(* may leave, and every open block still lies below what is left.          *)
LEMMA FrontFits ==
    ASSUME Inv, retval = "none", ii.op \in Popping
    PROVE  LET rest == SubSeq(ks, 1, Len(ks) - 1)
           IN  /\ Front(stack) \in Seq(Value)
               /\ rest \in Seq(Kinds)
               /\ HasKinds(Front(stack), rest)
               /\ \A b \in DOMAIN blocks : blocks[b].level \in 0..Len(rest)
               /\ Top \in Value
               /\ Kind(Top) = ks[Len(ks)]
<1>1. /\ ks \in Seq(Kinds) /\ HasKinds(stack, ks) /\ stack \in Seq(Value)
      /\ Needs(ii, ks, blocks)
      /\ \A b \in DOMAIN blocks : blocks[b].level \in 0..Len(ks)
  BY Standing DEF Inv, TypeOK
<1>2. ks # << >> /\ \A b \in DOMAIN blocks : blocks[b].level < Len(ks)
  BY <1>1 DEF Needs
<1>3. Len(SubSeq(ks, 1, Len(ks) - 1)) = Len(ks) - 1
  BY <1>1, <1>2, KindsFront
<1>4. \A b \in DOMAIN blocks : blocks[b].level \in 0..(Len(ks) - 1)
  BY <1>1, <1>2
<1> QED
  BY <1>1, <1>2, <1>3, <1>4, KindsFront DEF Top

(* An instruction that pops a value and goes on at instruction i.          *)
LEMMA PopKeeps ==
    ASSUME Inv, retval = "none", ex' = ex, ii.op \in Popping, NEW i, Goto(i, Front(stack)),
           <<i, SubSeq(ks, 1, Len(ks) - 1), blocks>> \in Edges(ii, ppii, ks, blocks)
    PROVE  Inv'
<1>1. stack' = Front(stack) /\ ppii' = i /\ blocks' = blocks /\ retval' = retval
  BY DEF Goto
<1>2. Front(stack) \in Seq(Value) /\ HasKinds(Front(stack), SubSeq(ks, 1, Len(ks) - 1))
  BY FrontFits
<1> QED
  BY <1>1, <1>2, Arrives

(* An instruction that leaves the stack alone and goes on at instruction i.*)
LEMMA StayKeeps ==
    ASSUME Inv, retval = "none", ex' = ex, NEW i, Goto(i, stack),
           <<i, ks, blocks>> \in Edges(ii, ppii, ks, blocks)
    PROVE  Inv'
<1>1. stack' = stack /\ ppii' = i /\ blocks' = blocks /\ retval' = retval
  BY DEF Goto
<1>2. stack \in Seq(Value) /\ HasKinds(stack, ks)
  BY Standing DEF Inv, TypeOK
<1> QED
  BY <1>1, <1>2, Arrives

(* An instruction that replaces the topmost value and goes on to the next. *)
LEMMA ReplaceKeeps ==
    ASSUME Inv, retval = "none", ex' = ex, ii.op \in Popping, NEW v \in Value,
           Next1(Append(Front(stack), v)),
           <<ppii + 1, Append(SubSeq(ks, 1, Len(ks) - 1), Kind(v)), blocks>>
               \in Edges(ii, ppii, ks, blocks)
    PROVE  Inv'
<1> DEFINE rest == SubSeq(ks, 1, Len(ks) - 1)
<1>1. /\ stack' = Append(Front(stack), v)
      /\ ppii' = ppii + 1 /\ blocks' = blocks /\ retval' = retval
  BY DEF Next1, Goto
<1>2. Front(stack) \in Seq(Value) /\ rest \in Seq(Kinds) /\ HasKinds(Front(stack), rest)
  BY FrontFits
<1>3. stack' \in Seq(Value) /\ HasKinds(stack', Append(rest, Kind(v)))
  BY <1>1, <1>2, KindsAppend
<1> QED
  BY <1>1, <1>3, Arrives

(* POP_BLOCK, BREAK, CONTINUE: back to what block b was pushed on.         *)
LEMMA LeaveKeeps ==
    ASSUME Inv, retval = "none", ex' = ex, retval' = retval, NEW b \in DOMAIN blocks,
           stack' = CutTo(stack, blocks[b].level), blocks' = SubSeq(blocks, 1, b - 1),
           <<ppii', SubSeq(ks, 1, blocks[b].level), SubSeq(blocks, 1, b - 1)>>
               \in Edges(ii, ppii, ks, blocks)
    PROVE  Inv'
<1>1. /\ ks \in Seq(Kinds) /\ HasKinds(stack, ks) /\ stack \in Seq(Value)
      /\ blocks[b].level \in 0..Len(ks)
  BY Standing DEF Inv, TypeOK
<1>2. stack' \in Seq(Value) /\ HasKinds(stack', SubSeq(ks, 1, blocks[b].level))
  BY <1>1, KindsCut
<1> QED
  BY <1>2, Arrives

------------------------------------------------------------------------------
(* The block stack and the operand stack start empty, as shape 1 says.     *)
LEMMA InitHolds == Init => Inv
<1> SUFFICES ASSUME Init PROVE Inv
  OBVIOUS
<1>1. Shaped(ex)
  BY ShapeAssumption DEF Init
<1>2. FrameHasShape
  BY <1>1 DEF Init, FrameHasShape, Shaped, HasKinds
<1> QED
  BY <1>2 DEF Init, Inv, TypeOK

(* Every instruction keeps the invariant.                                  *)
LEMMA StepHolds == Inv /\ [Next]_vars => Inv'
<1> SUFFICES ASSUME Inv, [Next]_vars PROVE Inv'
  OBVIOUS
<1> DEFINE rest == SubSeq(ks, 1, Len(ks) - 1)
           E    == Edges(ii, ppii, ks, blocks)
<1> USE DEF At
<1>0. CASE UNCHANGED vars
  BY <1>0 DEF vars, Inv, TypeOK, FrameHasShape
<1>1. CASE Call /\ ex' = ex
  <2>1. retval = "none" /\ ii.op = "CALL"
    BY <1>1 DEF Call
  <2>2. E = {<<ppii + 1, Append(ks, "v"), blocks>>} \cup Caught(ks, blocks)
    BY <2>1 DEF Edges
  <2>3. CASE Next1(Append(stack, "val"))
    BY <1>1, <2>1, <2>2, <2>3, PushKeeps DEF Value, Kind
  <2>4. CASE Raise(blocks, stack)
    <3>1. ks \in Seq(Kinds) /\ HasKinds(stack, ks) /\ stack \in Seq(Value)
          /\ \A b \in DOMAIN blocks : blocks[b].level \in 0..Len(ks)
      BY <2>1, Standing DEF Inv, TypeOK
    <3> QED
      BY <1>1, <2>1, <2>2, <2>4, <3>1, Raises
  <2> QED
    BY <1>1, <2>3, <2>4 DEF Call
<1>2. CASE TestValue /\ ex' = ex
  <2>1. retval = "none" /\ ii.op = "TEST"
    BY <1>2 DEF TestValue
  <2>2. <<ppii + 1, Append(ks, "v"), blocks>> \in E
    BY <2>1 DEF Edges
  <2>3. PICK b \in {"true", "false"} : Next1(Append(stack, b))
    BY <1>2 DEF TestValue
  <2>4. b \in Value /\ Kind(b) = "v"
    BY DEF Value, Kind
  <2> QED
    BY <1>2, <2>1, <2>2, <2>3, <2>4, PushKeeps
<1>3. CASE LoadConst /\ ex' = ex
  <2>1. retval = "none" /\ ii.op = "LOAD_CONST" /\ Next1(Append(stack, ii.a1))
    BY <1>3 DEF LoadConst
  <2>2. <<ppii + 1, Append(ks, "v"), blocks>> \in E
    BY <2>1 DEF Edges
  <2>3. ii.a1 \in {"true", "false"}
    BY <2>1, Standing DEF Needs
  <2>4. ii.a1 \in Value /\ Kind(ii.a1) = "v"
    BY <2>3 DEF Value, Kind
  <2> QED
    BY <1>3, <2>1, <2>2, <2>4, PushKeeps
<1>4. CASE Pop /\ ex' = ex
  <2>1. /\ retval = "none" /\ ii.op \in Popping /\ Goto(ppii + 1, Front(stack))
        /\ ii.op \in {"POP", "ASSIGN_LOCAL"}
    BY <1>4 DEF Pop, Popping, Next1
  <2>2. <<ppii + 1, rest, blocks>> \in E
    BY <2>1 DEF Edges
  <2> QED
    BY <1>4, <2>1, <2>2, PopKeeps
<1>5. CASE LogicalNot /\ ex' = ex
  <2>1. retval = "none" /\ ii.op = "LOGICAL_NOT" /\ ii.op \in Popping
    BY <1>5 DEF LogicalNot, Popping
  <2>2. <<ppii + 1, Append(rest, "v"), blocks>> \in E
    BY <2>1 DEF Edges
  <2>3. PICK b \in Truth(Top) : Next1(Append(Front(stack), Negate(b)))
    BY <1>5 DEF LogicalNot
  <2>4. Negate(b) \in Value /\ Kind(Negate(b)) = "v"
    BY DEF Negate, Value, Kind
  <2> QED
    BY <1>5, <2>1, <2>2, <2>3, <2>4, ReplaceKeeps
<1>6. CASE Branch /\ ex' = ex
  <2>1. retval = "none" /\ ii.op = "B" /\ Goto(ppii + 1 + ii.a2, stack)
    BY <1>6 DEF Branch, Jump
  <2>2. <<ppii + 1 + ii.a2, ks, blocks>> \in E
    BY <2>1 DEF Edges
  <2> QED
    BY <1>6, <2>1, <2>2, StayKeeps
<1>7. CASE BranchIf /\ ex' = ex
  <2>1. retval = "none" /\ ii.op \in {"B_IF", "B_IF_SAVEF"} /\ ii.op \in Popping
    BY <1>7 DEF BranchIf, Popping
  <2>2. /\ <<ppii + 1, rest, blocks>> \in E
        /\ ii.op = "B_IF" => <<ppii + 1 + ii.a2, rest, blocks>> \in E
        /\ ii.op = "B_IF_SAVEF" => <<ppii + 1 + ii.a2, ks, blocks>> \in E
    BY <2>1 DEF Edges
  <2>3. \/ Goto(ppii + 1, Front(stack))
        \/ ii.op = "B_IF" /\ Goto(ppii + 1 + ii.a2, Front(stack))
        \/ ii.op = "B_IF_SAVEF" /\ Goto(ppii + 1 + ii.a2, stack)
    BY <1>7, <2>1 DEF BranchIf, Jump, Next1
  <2>4. CASE Goto(ppii + 1, Front(stack))
    BY <1>7, <2>1, <2>2, <2>4, PopKeeps
  <2>5. CASE ii.op = "B_IF" /\ Goto(ppii + 1 + ii.a2, Front(stack))
    BY <1>7, <2>1, <2>2, <2>5, PopKeeps
  <2>6. CASE ii.op = "B_IF_SAVEF" /\ Goto(ppii + 1 + ii.a2, stack)
    BY <1>7, <2>1, <2>2, <2>6, StayKeeps
  <2> QED
    BY <2>3, <2>4, <2>5, <2>6
<1>8. CASE PushBlock /\ ex' = ex
  <2>1. retval = "none" /\ ii.op = "PUSH_BLOCK"
    BY <1>8 DEF PushBlock
  <2>2. Len(blocks) < FRAME_NEST_MAX /\ HasKinds(stack, ks) /\ blocks \in Seq(Block)
    BY <2>1, Standing DEF Needs
  <2>3. ~(Len(blocks) >= FRAME_NEST_MAX)
    BY <2>2, NestAssumption
  <2>4. /\ blocks' = Append(blocks, [type |-> ii.a1, level |-> Len(ks), jmpto |-> ppii + 1 + ii.a2])
        /\ ppii' = ppii + 1
        /\ stack' = stack /\ retval' = retval
    BY <1>8, <2>2, <2>3 DEF PushBlock, HasKinds
  <2>5. <<ppii', ks, blocks'>> \in E
    BY <2>1, <2>4 DEF Edges
  <2>6. stack' \in Seq(Value) /\ HasKinds(stack', ks)
    BY <2>2, <2>4 DEF Inv, TypeOK
  <2> QED
    BY <1>8, <2>1, <2>4, <2>5, <2>6, Arrives
<1>9. CASE PopBlock /\ ex' = ex
  <2>1. retval = "none" /\ ii.op = "POP_BLOCK"
    BY <1>9 DEF PopBlock
  <2>2. blocks # << >> /\ blocks \in Seq(Block)
    BY <2>1, Standing DEF Needs
  <2>3. Len(blocks) \in DOMAIN blocks
    BY <2>2
  <2>4. /\ blocks' = SubSeq(blocks, 1, Len(blocks) - 1)
        /\ stack' = CutTo(stack, blocks[Len(blocks)].level)
        /\ ppii' = ppii + 1 /\ retval' = retval
    BY <1>9, <2>2 DEF PopBlock, Front
  <2>5. <<ppii', SubSeq(ks, 1, blocks[Len(blocks)].level), SubSeq(blocks, 1, Len(blocks) - 1)>> \in E
    BY <2>1, <2>2, <2>4 DEF Edges, To
  <2> QED
    BY <1>9, <2>1, <2>3, <2>4, <2>5, LeaveKeeps
<1>10. CASE BreakOrContinue /\ ex' = ex
  <2> DEFINE kind == IF ii.op = "BREAK" THEN "LOOP" ELSE "CONTINUE"
             b    == Innermost(blocks, kind)
  <2>1. retval = "none" /\ ii.op \in {"BREAK", "CONTINUE"}
    BY <1>10 DEF BreakOrContinue
  <2>2. b # 0
    BY <2>1, Standing DEF Needs
  <2>3. b \in DOMAIN blocks
    BY <2>2, InnermostIsBlock
  <2>4. /\ blocks' = SubSeq(blocks, 1, b - 1)
        /\ stack' = CutTo(stack, blocks[b].level)
        /\ ppii' = blocks[b].jmpto /\ retval' = retval
    BY <1>10, <2>2 DEF BreakOrContinue
  <2>5. To(blocks, ks, b) \in Left(ks, blocks, kind)
    BY <2>2 DEF Left
  <2>6. E = Left(ks, blocks, kind)
    BY <2>1 DEF Edges
  <2>7. <<ppii', SubSeq(ks, 1, blocks[b].level), SubSeq(blocks, 1, b - 1)>> \in E
    BY <2>4, <2>5, <2>6 DEF To
  <2> QED
    BY <1>10, <2>1, <2>3, <2>4, <2>7, LeaveKeeps
<1>11. CASE ForeachSetup /\ ex' = ex
  <2>1. retval = "none" /\ ii.op = "FOREACH_SETUP" /\ ii.op \in Popping
    BY <1>11 DEF ForeachSetup, Popping
  <2>2. E = {<<ppii + 1, Append(rest, "it"), blocks>>} \cup Caught(rest, blocks)
    BY <2>1 DEF Edges
  <2>3. CASE Next1(Append(Front(stack), "it"))
    BY <1>11, <2>1, <2>2, <2>3, ReplaceKeeps DEF Value, Kind
  <2>4. CASE Raise(blocks, Front(stack))
    BY <1>11, <2>1, <2>2, <2>4, FrontFits, Raises
  <2> QED
    BY <1>11, <2>3, <2>4 DEF ForeachSetup
<1>12. CASE ForeachIter /\ ex' = ex
  <2>1. retval = "none" /\ ii.op = "FOREACH_ITER" /\ ii.op \in Popping
    BY <1>12 DEF ForeachIter, Popping
  <2>2. E = {<<ppii + 1, Append(ks, "v"), blocks>>, <<ppii + 1 + ii.a2, ks, blocks>>}
            \cup Caught(rest, blocks)
    BY <2>1 DEF Edges
  <2>3. CASE Next1(Append(stack, "val"))
    BY <1>12, <2>1, <2>2, <2>3, PushKeeps DEF Value, Kind
  <2>4. CASE Jump(stack)
    BY <1>12, <2>1, <2>2, <2>4, StayKeeps DEF Jump
  <2>5. CASE Raise(blocks, Front(stack))
    BY <1>12, <2>1, <2>2, <2>5, FrontFits, Raises
  <2> QED
    BY <1>12, <2>3, <2>4, <2>5 DEF ForeachIter
<1>13. CASE ThrowValue /\ ex' = ex
  <2>1. retval = "none" /\ ii.op = "THROW" /\ ii.op \in Popping /\ Raise(blocks, Front(stack))
    BY <1>13 DEF ThrowValue, Popping
  <2>2. E = Caught(rest, blocks)
    BY <2>1 DEF Edges
  <2> QED
    BY <1>13, <2>1, <2>2, FrontFits, Raises
<1>14. CASE ReturnValue /\ ex' = ex
  <2>1. retval = "none" /\ ii.op \in Popping
    BY <1>14 DEF ReturnValue, Popping
  <2>2. /\ retval' = "value" /\ stack' = Front(stack)
        /\ ppii' = ppii + 1 /\ blocks' = blocks
    BY <1>14 DEF ReturnValue, Finish
  <2>3. Front(stack) \in Seq(Value)
    BY <2>1, FrontFits
  <2> QED
    BY <1>14, <2>2, <2>3, Ends DEF Inv, TypeOK
<1>15. CASE EndOfCode /\ ex' = ex
  <2>1. /\ retval' = "null" /\ stack' = stack
        /\ ppii' = ppii + 1 /\ blocks' = blocks
    BY <1>15 DEF EndOfCode, Finish
  <2> QED
    BY <1>15, <2>1, Ends DEF Inv, TypeOK
<1>16. CASE Over
  BY <1>0, <1>16 DEF Over
<1> QED
  BY <1>0, <1>1, <1>2, <1>3, <1>4, <1>5, <1>6, <1>7, <1>8, <1>9, <1>10, <1>11, <1>12,
     <1>13, <1>14, <1>15, <1>16 DEF Next

(***************************************************************************)
(* The frame of shaped code always has the types execute_loop() expects.   *)
(***************************************************************************)
THEOREM TypeCorrect == Spec => []TypeOK
<1>1. Inv => TypeOK
  BY DEF Inv
<1> QED
  BY <1>1, InitHolds, StepHolds, PTL DEF Spec

(***************************************************************************)
(* For every shaped program, every value of FRAME_NEST_MAX and any outcome *)
(* of its calls and tests: whatever jumps, exceptions, breaks and returns  *)
(* lead to an instruction, the frame has the one stack and the one block   *)
(* stack the compiler counted on (execute_loop in vm.c).                   *)
(***************************************************************************)
THEOREM ShapeKept == Spec => []FrameHasShape
<1>1. Inv => FrameHasShape
  BY DEF Inv
<1> QED
  BY <1>1, InitHolds, StepHolds, PTL DEF Spec

(***************************************************************************)
(* So the checks that vm.c makes in debug builds only (bug_on in push, pop *)
(* and vmframe_pop_block) never fail for such a program.                   *)
(***************************************************************************)
THEOREM StacksSuffice == Spec => []NothingUnderflows
<1>1. Inv => NothingUnderflows
  <2> SUFFICES ASSUME Inv PROVE NothingUnderflows
    OBVIOUS
  <2>1. retval # "underflow"
    BY DEF Inv, TypeOK
  <2>2. CASE retval = "none"
    <3>1. /\ ks \in Seq(Kinds) /\ HasKinds(stack, ks) /\ stack \in Seq(Value)
          /\ blocks \in Seq(Block)
          /\ Needs(ii, ks, blocks)
      BY <2>2, Standing DEF Inv, TypeOK
    <3>2. Len(stack) = Len(ks)
      BY <3>1 DEF HasKinds
    <3>3. ii.op \in Popping => stack # << >> /\ \A b \in DOMAIN blocks : blocks[b].level < Len(stack)
      BY <3>1, <3>2 DEF Needs
    <3>4. ASSUME ii.op = "FOREACH_ITER" PROVE Top = "it"
      <4>1. Kind(Top) = ks[Len(ks)]
        BY <2>2, <3>4, FrontFits DEF Popping
      <4>2. Kind(Top) = "it"
        BY <3>1, <3>4, <4>1 DEF Needs
      <4> QED
        BY <4>2 DEF Kind
    <3>5. ii.op = "PUSH_BLOCK" => Len(blocks) < FRAME_NEST_MAX
      BY <3>1 DEF Needs
    <3> QED
      BY <2>1, <3>3, <3>4, <3>5 DEF NothingUnderflows
  <2> QED
    BY <2>1, <2>2 DEF NothingUnderflows
<1> QED
  BY <1>1, InitHolds, StepHolds, PTL DEF Spec
=============================================================================
