------------------------------ MODULE Classes ------------------------------
(***************************************************************************)
(* types/class.c: classes, the order in which their bases are searched,    *)
(* private attributes, instances, the object an instance delegates to, and *)
(* super().  A class never changes once it is defined; which attribute a   *)
(* script gets depends on the "this" of its frame, so the frames of vm.c   *)
(* are here as far as they say whose method is running.                    *)
(*                                                                         *)
(* Values are not told apart: an attribute is where it was found, and the  *)
(* instance it was bound to.  Every attribute is a function.               *)
(***************************************************************************)
EXTENDS Naturals, Sequences, FiniteSets, SequencesExt

CONSTANTS Inst,       \* memory for instances
          Name,       \* attribute names
          init,       \* the name __init__
          Own,        \* found in inst_attr
          Nothing,    \* NULL: no attribute, no class, no instance
          MaxClass,   \* classes a script defines
          MaxSize,    \* these, their attributes and delegates together
          MaxUsed,    \* classes and instances together, if there are instances
          MaxBases,   \* bases of one class
          MaxDepth    \* nested calls

ASSUME NameAssumption == /\ init \in Name
                         /\ Nothing \notin Inst
                         /\ {Own, Nothing} \cap Nat = {}
                         /\ Own # Nothing
ASSUME BoundAssumption == {MaxClass, MaxSize, MaxUsed, MaxBases, MaxDepth} \subseteq Nat

VARIABLES class,   \* the classes in order of definition
          inst,    \* instance -> its class, names in inst_attr, its delegate
          stack    \* frames above the script, the running one last

vars == <<class, inst, stack>>

Defined == 1..Len(class)
Live == {x \in Inst : inst[x].of # Nothing}

(* The running frame's "this"; the script itself has the global object.    *)
This == IF stack = <<>> THEN Nothing ELSE Last(stack).this

-----------------------------------------------------------------------------
(* The order of the bases *)

Heads(seqs) == {i \in DOMAIN seqs : seqs[i] # <<>>}

InTail(c, seqs) == \E i \in Heads(seqs) : c \in ToSet(Tail(seqs[i]))

Pop(c, seqs) ==
  [i \in DOMAIN seqs |-> IF seqs[i] # <<>> /\ Head(seqs[i]) = c THEN Tail(seqs[i]) ELSE seqs[i]]

(* Seeded fault: only the first sequence's head is a candidate.            *)
Round_FirstOnly(m) ==
  LET first == CHOOSE i \in Heads(m.seqs) : \A j \in Heads(m.seqs) : i <= j
      c == Head(m.seqs[first])
  IN IF Heads(m.seqs) = {} \/ m.refused THEN m
     ELSE IF InTail(c, m.seqs) THEN [m EXCEPT !.refused = TRUE]
     ELSE [m EXCEPT !.out = Append(@, c), !.seqs = Pop(c, @)]

(* One round of mro_merge(): the first head that is in no tail is next.    *)
Round(m) ==
  LET free == {i \in Heads(m.seqs) : ~InTail(Head(m.seqs[i]), m.seqs)}
      first == CHOOSE i \in free : \A j \in free : i <= j
      c == Head(m.seqs[first])
  IN IF Heads(m.seqs) = {} \/ m.refused THEN m
     ELSE IF free = {} THEN [m EXCEPT !.refused = TRUE]
     ELSE [m EXCEPT !.out = Append(@, c), !.seqs = Pop(c, @)]

mro_merge(seqs) ==
  FoldLeft(LAMBDA m, i : Round(m), [out |-> <<>>, seqs |-> seqs, refused |-> FALSE],
           [i \in 1..Len(class) + 1 |-> i])

(* What each base hands on: its stored mro, which lacks the base itself,   *)
(* or just itself if it has none; and the order of the bases.              *)
Handed(bases) ==
  [i \in DOMAIN bases |-> LET mro == class[bases[i]].mro
                          IN IF mro = <<>> THEN <<bases[i]>> ELSE mro]
    \o <<bases>>

compute_mro(bases) == [mro_merge(Handed(bases)) EXCEPT !.out = <<Len(class) + 1>> \o @]

(* "compute_mro by necessity leaves self at front": it is taken off.       *)
type_init_mro(bases) == [compute_mro(bases) EXCEPT !.out = Tail(@)]

type_issubclass(c, b) == c = b \/ b \in ToSet(class[c].mro)

-----------------------------------------------------------------------------
(* Private names *)

(* tp->all_priv: names whose nearest definition is private.                *)
type_init_private(priv, methods, mro) ==
  FoldLeft(LAMBDA p, b : [seen |-> p.seen \cup class[b].methods,
                          all |-> p.all \cup (class[b].priv \ p.seen)],
           [seen |-> methods, all |-> priv], mro).all

(* Does a frame with this "this" run a method of an instance of c?         *)
Inside(this, c) == this # Nothing /\ inst[this].of = c

item_access_permitted(this, c, n) == n \in class[c].priv => Inside(this, c)

(* Seeded faults: "this" is not looked at; names private in a base are     *)
(* not looked at.                                                          *)
item_write_AnyThis(this, c, n) == n \in class[c].all_priv => n \in class[c].priv
item_write_OwnOnly(this, c, n) == item_access_permitted(this, c, n)

item_write_access_permitted(this, c, n) ==
  n \in class[c].all_priv => n \in class[c].priv /\ Inside(this, c)

-----------------------------------------------------------------------------
(* Getting an attribute *)

(* The class whose definition is found: c itself with the frame's rights,  *)
(* its bases as one who has none.                                          *)
type_getitem(this, c, n) ==
  LET found == {i \in DOMAIN class[c].mro : LET b == class[c].mro[i]
                                           IN n \in class[b].methods \ class[b].priv}
  IN IF n \in class[c].methods /\ item_access_permitted(this, c, n) THEN c
     ELSE IF found = {} THEN Nothing
     ELSE class[c].mro[CHOOSE i \in found : \A j \in found : i <= j]

NotFound == [from |-> Nothing, self |-> Nothing]

(* Seeded fault: a delegate does not delegate in turn.                     *)
instance_getattr_Once(this, x, n) ==
  LET Here(y) == LET c == inst[y].of
                     from == IF n \in inst[y].attr THEN Own ELSE type_getitem(this, c, n)
                 IN IF ~item_access_permitted(this, c, n) \/ from = Nothing
                    THEN NotFound ELSE [from |-> from, self |-> y]
  IN IF Here(x) # NotFound \/ ~class[inst[x].of].by \/ inst[x].by = Nothing
        \/ ~item_access_permitted(this, inst[x].of, n)
     THEN Here(x) ELSE Here(inst[x].by)

(* What a frame gets for x.n: where from, and whose method it becomes.  An *)
(* instance being asked is locked (INST_FLAG_GETATTR_LOCK), so delegates   *)
(* in a circle end the search.                                             *)
instance_getattr(this, x, n) ==
  LET getattr[q \in Inst \X SUBSET Inst] ==
        LET y == q[1]
            locked == q[2]
            c == inst[y].of
            from == IF n \in inst[y].attr THEN Own ELSE type_getitem(this, c, n)
        IN IF y \in locked \/ ~item_access_permitted(this, c, n) THEN NotFound
           ELSE IF from # Nothing THEN [from |-> from, self |-> y]
           ELSE IF class[c].by /\ inst[y].by \notin {Nothing, y}
           THEN getattr[<<inst[y].by, locked \cup {y}>>]
           ELSE NotFound
  IN getattr[<<x, {}>>]

(* instance_super_getattr(): the bases of the class of "this" in turn.     *)
instance_super_getattr(this, n) ==
  LET bases == class[inst[this].of].bases
      found == {i \in DOMAIN bases : type_getitem(Nothing, bases[i], n) # Nothing}
  IN IF found = {} THEN Nothing
     ELSE type_getitem(Nothing, bases[CHOOSE i \in found : \A j \in found : i <= j], n)

(* do_getattr_super(): this frame or one below it, all with the same       *)
(* "this", has it as its first argument.                                   *)
can_super ==
  /\ This # Nothing
  /\ \E k \in DOMAIN stack : /\ stack[k].bound
                             /\ \A j \in k..Len(stack) : stack[j].this = This

-----------------------------------------------------------------------------
(* What scripts do *)

Init == /\ class = <<>>
        /\ inst = [x \in Inst |-> [of |-> Nothing, attr |-> {}, by |-> Nothing]]
        /\ stack = <<>>

Frame(code, this, bound) == [code |-> code, this |-> this, bound |-> bound]

(* The function found runs as a method; one from inst_attr is nobody's.    *)
Enter(got) ==
  /\ Len(stack) < MaxDepth
  /\ stack' = Append(stack, Frame(IF got.from = Own THEN Nothing ELSE got.from, got.self, TRUE))

(* How much there is in a sequence of classes, for MaxSize.                *)
Size(classes) ==
  FoldLeft(LAMBDA n, c : n + 1 + Cardinality(c.methods) + (IF c.by THEN 1 ELSE 0), 0, classes)

(* INSTR_DEFCLASS; nothing is left of a class whose bases have no order.   *)
DefClass(bases, methods, priv, by) ==
  LET merged == type_init_mro(bases)
      mro == merged.out
  IN /\ stack = <<>> /\ Live = {}
     /\ Len(class) < MaxClass
     /\ ~merged.refused
     /\ class' = Append(class, [bases |-> bases, mro |-> mro, methods |-> methods,
                                priv |-> priv, by |-> by,
                                all_priv |-> type_init_private(priv, methods, mro)])
     /\ Size(class') <= MaxSize
     /\ UNCHANGED <<inst, stack>>

(* instancevar_new(): __init__ is looked up as one who has no rights.      *)
New(x, c) ==
  LET from == type_getitem(Nothing, c, init)
      found == from # Nothing /\ item_access_permitted(Nothing, c, init)
  IN /\ x \notin Live /\ Len(class) + Cardinality(Live) < MaxUsed
     /\ inst' = [inst EXCEPT ![x].of = c]
     /\ IF found THEN Enter([from |-> from, self |-> x]) ELSE UNCHANGED stack
     /\ UNCHANGED class

(* x.n(), from any frame.                                                  *)
Call(x, n) ==
  /\ instance_getattr(This, x, n) # NotFound
  /\ Enter(instance_getattr(This, x, n))
  /\ UNCHANGED <<class, inst>>

(* super().n()                                                             *)
CallSuper(n) ==
  /\ can_super
  /\ instance_super_getattr(This, n) # Nothing
  /\ Enter([from |-> instance_super_getattr(This, n), self |-> This])
  /\ UNCHANGED <<class, inst>>

(* A plain function is called: it has the "this" of its caller, which it   *)
(* may or may not also be handed as its first argument.                    *)
CallFunction(bound) ==
  /\ Len(stack) < MaxDepth
  /\ bound => This # Nothing
  /\ stack' = Append(stack, Frame(Nothing, This, bound))
  /\ UNCHANGED <<class, inst>>

Return == /\ stack # <<>>
          /\ stack' = Front(stack)
          /\ UNCHANGED <<class, inst>>

(* instance_setattr(): x.n = function, delete x.n, x.delegate = y          *)
SetAttr(x, n) ==
  /\ item_write_access_permitted(This, inst[x].of, n)
  /\ inst' = [inst EXCEPT ![x].attr = @ \cup {n}]
  /\ UNCHANGED <<class, stack>>

DelAttr(x, n) ==
  /\ item_write_access_permitted(This, inst[x].of, n)
  /\ inst' = [inst EXCEPT ![x].attr = @ \ {n}]
  /\ UNCHANGED <<class, stack>>

SetDelegate(x, y) == /\ class[inst[x].of].by
                     /\ inst' = [inst EXCEPT ![x].by = y]
                     /\ UNCHANGED <<class, stack>>

BaseLists == UNION {[1..k -> Defined] : k \in 0..MaxBases}

Next ==
  \/ \E bases \in BaseLists, methods \in SUBSET Name, by \in BOOLEAN :
       \E priv \in SUBSET methods : DefClass(bases, methods, priv, by)
  \/ \E x \in Inst, c \in Defined : New(x, c)
  \/ \E x \in Live, n \in Name : Call(x, n) \/ SetAttr(x, n) \/ DelAttr(x, n)
  \/ \E x \in Live, y \in Live : SetDelegate(x, y)
  \/ \E n \in Name : CallSuper(n)
  \/ \E bound \in BOOLEAN : CallFunction(bound)
  \/ Return

Spec == Init /\ [][Next]_vars

-----------------------------------------------------------------------------
(* Properties *)

(* Classes only refer to older ones, only live instances run methods, and  *)
(* only classes that delegate have instances with a delegate.              *)
TypeOK ==
  /\ \A c \in Defined :
       /\ class[c].bases \in Seq(1..c - 1) /\ class[c].mro \in Seq(1..c - 1)
       /\ class[c].priv \subseteq class[c].methods /\ class[c].methods \subseteq Name
       /\ class[c].by \in BOOLEAN
       /\ class[c].priv \subseteq class[c].all_priv /\ class[c].all_priv \subseteq Name
  /\ inst \in [Inst -> [of : Defined \cup {Nothing}, attr : SUBSET Name,
                        by : Live \cup {Nothing}]]
  /\ \A x \in Live : inst[x].by # Nothing => class[inst[x].of].by
  /\ stack \in Seq([code : Defined \cup {Nothing}, this : Live \cup {Nothing}, bound : BOOLEAN])
  /\ \A k \in DOMAIN stack : stack[k].bound => stack[k].this # Nothing

(* All classes a class inherits from, directly or not.                     *)
Ancestors(c) ==
  LET above[d \in Defined] == LET bases == ToSet(class[d].bases)
                              IN bases \cup UNION {above[b] : b \in bases}
  IN above[c]

InOrder(part, whole) ==
  \A i, j \in DOMAIN part : i < j =>
    \E p, q \in DOMAIN whole : p < q /\ whole[p] = part[i] /\ whole[q] = part[j]

(* The stored order names every class inherited from, once, so that        *)
(* instanceof knows them all; it keeps the order of the bases and the      *)
(* orders that the bases have themselves (compute_mro, type_issubclass).   *)
(* "inconsistent hierarchy (no valid MRO)" is said exactly if no order,    *)
(* however clever, keeps all those orders: some of the classes would each  *)
(* have to come after another one of them (mro_merge).                     *)
OrderIfAny ==
  /\ TypeOK
  /\ \A c \in Defined :
       /\ IsInjective(class[c].mro)
       /\ \A b \in Defined : type_issubclass(c, b) <=> b \in {c} \cup Ancestors(c)
       /\ InOrder(class[c].bases, class[c].mro)
       /\ \A b \in ToSet(class[c].bases) : InOrder(class[b].mro, class[c].mro)
  /\ Live = {} /\ stack = <<>> =>
       \A bases \in BaseLists :
         LET seqs == Handed(bases)
         IN type_init_mro(bases).refused <=>
              \E S \in SUBSET Defined \ {{}} : \A c \in S :
                \E i \in DOMAIN seqs : \E p, q \in DOMAIN seqs[i] :
                  p < q /\ seqs[i][p] \in S /\ seqs[i][q] = c

(* A name counts as private in a class exactly if the nearest class that   *)
(* defines it, in the order of the search, made it private                 *)
(* (type_init_private).                                                    *)
NearestDecides ==
  \A c \in Defined, n \in Name :
    LET line == <<c>> \o class[c].mro
        definers == {i \in DOMAIN line : n \in class[line[i]].methods}
    IN n \in class[c].all_priv <=>
         \E i \in definers : n \in class[line[i]].priv /\ \A j \in definers : i <= j

(* Whatever was written and by whom, code that does not run for an         *)
(* instance of the same class never gets an attribute that is private:     *)
(* not from the instance, not from a base, not through a delegate.         *)
OutsidersSeePublic ==
  /\ NearestDecides
  /\ \A x \in Live, n \in Name, this \in {This, Nothing} :
       LET got == instance_getattr(this, x, n)
       IN got # NotFound /\ ~Inside(this, inst[got.self].of) =>
         n \notin IF got.from = Own THEN class[inst[got.self].of].all_priv
                  ELSE class[got.from].priv

(* Who may write an attribute gets it back by reading, from the instance   *)
(* it was written to (instance_setattr against instance_getattr).          *)
ReadYourWrites ==
  [][\A x \in Live : \A n \in Name : n \in inst'[x].attr \ inst[x].attr =>
       instance_getattr(This, x, n)' = [from |-> Own, self |-> x]]_vars

(* An instance that has nothing to say about a name answers like its       *)
(* delegate, also when delegates form chains and circles.                  *)
DelegateAnswers ==
  \A x \in {y \in Live : inst[y].by \notin {Nothing, y}}, n \in Name, this \in {This, Nothing} :
    LET c == inst[x].of
    IN /\ n \notin inst[x].attr
       /\ item_access_permitted(this, c, n)
       /\ type_getitem(this, c, n) = Nothing
       => instance_getattr(this, x, n) = instance_getattr(this, inst[x].by, n)

(* Refuted: a definition that overrides another is found first             *)
(* (type_init_mro() does not know that a class comes before its own bases).*)
OverridesWin ==
  \A c \in Defined, n \in Name :
    LET found == type_getitem(Nothing, c, n)
    IN found # Nothing =>
         \A e \in {c} \cup Ancestors(c) :
           n \in class[e].methods \ class[e].priv => found \notin Ancestors(e)

(* Refuted: super() in a method of class c finds a definition above c      *)
(* (instance_super_getattr() starts from the instance's class).            *)
SuperGoesUp ==
  can_super /\ Last(stack).code # Nothing =>
    \A n \in Name : instance_super_getattr(This, n) # Last(stack).code

(* Refuted: a private attribute is only read by methods of the class that  *)
(* has it (this may be an instance of a class that inherits the method).   *)
PrivateStaysInMethods ==
  \A x \in Live, n \in Name :
    LET got == instance_getattr(This, x, n)
        c == inst[got.self].of
    IN got.from = Own /\ n \in class[c].priv => Last(stack).code = c


\* Instances are interchangeable.
Symmetry == Permutations(Inst)
=============================================================================
