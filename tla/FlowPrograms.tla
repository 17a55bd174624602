---------------------------- MODULE FlowPrograms ----------------------------
(***************************************************************************)
(* The programs the compiler and the VM are checked on.  Call(x) may throw *)
(* and Test(x) may be true or false whenever it is evaluated.              *)
(***************************************************************************)
EXTENDS AssemblePost

(* Loops around every way to leave a block, one or two deep, inside a try. *)
(* No `do' body continues: see DoPrograms.                                 *)
Quiet  == {Call("a"), Throw("a"), Return("a")}
Jumps  == {Break, Continue}
Doing(x) == Block(<<Call(x)>>)

Step(l)        == Block(<<If(Test("c"), l, Skip), Call("b")>>)
Trying(l, h, f) == Block(<<Try(Step(l), Block(<<h>>), f), Call("d")>>)

Bodies(leaves) == {Step(l) : l \in leaves}
                  \cup {Trying(l, h, f) : l, h \in leaves, f \in {Skip, Doing("f")}}

Loops == {For("x", b, n) : b \in Bodies(Quiet \cup Jumps), n \in {Skip, Doing("n")}}
         \cup {Do(b, Test("w")) : b \in Bodies(Quiet \cup {Break})}

Nested == {For("x", Block(<<For("y", Step(l), Doing("n")), Call("d"), m>>), Skip) :
               l \in Quiet \cup Jumps, m \in Jumps}

Whole(s) == Block(<<Try(s, Doing("h"), Skip), Call("e")>>)

LoopPrograms    == {Whole(s) : s \in Loops \cup Nested}

(* The optimised code of these has no jump out of the loop but break's.    *)
EndlessPrograms == {Whole(While(Const(TRUE), b)) : b \in Bodies(Quiet \cup Jumps)}

(* Conditions of depth two over two unknowns and the constants.            *)
Atoms  == {Test("p"), Test("q"), Const(TRUE), Const(FALSE)}
Conds1 == Atoms \cup {Not(c) : c \in Atoms}
          \cup {And(c, d) : c, d \in Atoms} \cup {Or(c, d) : c, d \in Atoms}
Conds2 == Conds1 \cup {Not(c) : c \in Conds1}
          \cup {And(c, d) : c \in Conds1, d \in Atoms}
          \cup {Or(c, d) : c \in Atoms, d \in Conds1}
          \cup {Or(Or(c, d), e) : c, d, e \in Atoms}
Ternaries == {Cond(c, d, e) : c \in Conds1, d, e \in Atoms}

Tested(c) == {Block(<<If(c, Call("a"), Call("b")), Call("e")>>),
              Block(<<Do(Doing("a"), c), Call("e")>>)}

CondPrograms    == UNION {Tested(c) : c \in Conds2}
TernaryPrograms == UNION {Tested(c) : c \in Ternaries}

(* A `while' loop that ends by its test, inside a loop and inside a try.   *)
WhilePrograms ==
    {For("x", Block(<<While(Test("c"), Doing("a")), Call("b"), m>>), Skip) : m \in Jumps}

(* A `do' body that continues.                                             *)
DoPrograms == {Block(<<Do(Step(Continue), c), Call("e")>>) : c \in {Test("w"), Const(FALSE)}}

(* A return without an expression, before the end of the code.             *)
ReturnNullPrograms == {Block(<<If(Test("c"), Block(<<ReturnNull>>), Skip), Call("e")>>),
                       Block(<<For("x", Step(ReturnNull), Skip), Call("e")>>)}
=============================================================================
