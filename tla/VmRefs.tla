------------------------------- MODULE VmRefs -------------------------------
(***************************************************************************)
(* Who owns the objects that instructions move about: the handlers of      *)
(* vm.c, with the references that each takes (VAR_INCR_REF) and gives up   *)
(* (VAR_DECR_REF) on its normal path and on its error paths, and the calls *)
(* of functions with what vm_exec_func(), function_call() and              *)
(* vmframe_unpack_args() hold meanwhile.                                   *)
(*                                                                         *)
(* `count' is what the code counts; References(o) is what there is.  The   *)
(* program is any sequence of instructions whose operands have the kinds   *)
(* that the assembler provides, from the midst of a run: a heap and a      *)
(* stack of Scenarios, with every reference counted.  An immutable value   *)
(* without parts is the object Name, which serves as a symbol, a key, an   *)
(* index and a result.                                                     *)
(***************************************************************************)
EXTENDS Integers, FiniteSets, SequencesExt, FiniteSetsExt

CONSTANTS
  Objects,      \* addresses of objects with parts
  Null, Name, Error,  \* NullVar, any immutable value, any exception of err_setstr()
  Signatures,   \* of functions: nargs, optind and kwind (-1 for none)
  MaxItems,     \* parts of an object, and items of one instruction
  MaxFrames,    \* nested calls
  Scenarios     \* what a run begins with, and how many instructions it has

\* Objects that live as long as the program.
Fixed == {Null, Name, Error}
AllObjects == Objects \cup Fixed

ASSUME ConstantsAssumption ==
  /\ Cardinality(Fixed) = 3 /\ Objects \cap Fixed = {} /\ IsFiniteSet(Objects)
  /\ MaxItems \in Nat /\ MaxFrames \in Nat
  /\ \A s \in Signatures : s.nargs \in Nat /\ {s.optind, s.kwind} \subseteq -1 .. s.nargs - 1

VARIABLES
  kind,      \* type of the object at an address, or "free"
  parts,     \* what it refers to
  sig,       \* signature of a function
  count,     \* v_refcnt
  frames,    \* the active frames, the running one last
  globals,   \* value of the one global symbol, if it exists
  exception, \* the pending exception, if there is one
  phase,     \* "run", "failed" (RES_ERROR), "returned" (vm_exec_func() is done)
  left       \* instructions left in this run

vars == <<kind, parts, sig, count, frames, globals, exception, phase, left>>
heap == <<kind, parts, sig>>
-----------------------------------------------------------------------------
Kinds == {"free", "list", "tuple", "dict", "cell", "iterator", "function", "method", "instance"}

\* What the handlers rely on when they look into an object of kind k: a cell
\* has one value, a method its function and its owner, a dictionary here the
\* key Name at most; and an iterator runs over lists and tuples.
PartsFit(k, p) ==
  /\ k = "free" => p = <<>>
  /\ k = "cell" => Len(p) = 1
  /\ k = "method" => Len(p) = 2
  /\ k = "dict" => p = <<>> \/ (Len(p) = 2 /\ p[1] = Name)
  /\ k = "iterator" => Range(p) \subseteq Objects

NoSignature == [nargs |-> 0, optind |-> -1, kwind |-> -1]

\* Frame: its stack, how many of it are locals, the open blocks, fr->func and
\* fr->owner, and what do_call_func() holds while the frame calls.
NewFrame(func, owner) ==
  [stack |-> <<>>, n_locals |-> 0, blocks |-> <<>>, func |-> func, owner |-> owner,
   held |-> <<>>]

Places(s, o) == {i \in DOMAIN s : s[i] = o}
Occurrences(s, o) == Cardinality(Places(s, o))

\* fr->func and fr->owner are counted twice, by vm_exec_func() and the frame;
\* the first frame's function is held elsewhere and not counted here.
HeldBy(f) ==
  IF f = 1 THEN frames[f].stack \o frames[f].held
           ELSE frames[f].stack \o frames[f].held
                \o <<frames[f].func, frames[f].owner, frames[f].func, frames[f].owner>>

\* References to o from frames, objects, the global symbol, the pending
\* exception and, for what lives for ever, the program itself.
References(o) ==
  Cardinality(UNION {{f} \X Places(HeldBy(f), o) : f \in DOMAIN frames})
  + Cardinality(UNION {{p} \X Places(parts[p], o) : p \in Objects})
  + Occurrences(globals \o exception, o)
  + (IF o \in Fixed THEN 1 ELSE 0)

Excess == [o \in AllObjects |-> count[o] - References(o)]
-----------------------------------------------------------------------------
Fr == frames[Len(frames)]
Base == IF Fr.blocks = <<>> THEN Fr.n_locals ELSE Last(Fr.blocks).level
Has(n) == Len(Fr.stack) - Base >= n

\* The n-th operand from the top, and the stack without the upper n.
Top(n) == Fr.stack[Len(Fr.stack) - n + 1]
Below(n) == SubSeq(Fr.stack, 1, Len(Fr.stack) - n)
Upper(n) == SubSeq(Fr.stack, Len(Fr.stack) - n + 1, Len(Fr.stack))

IsKind(o, ks) == o \in Objects /\ kind[o] \in ks
\* The address that the next object gets; which one makes no difference.
Free == {o \in Objects : kind[o] = "free" /\ o = CHOOSE p \in Objects : kind[p] = "free"}
Garbage == {o \in Objects : kind[o] # "free" /\ count[o] <= 0}

\* The references that a step takes and gives up, one entry for each.
Account(taken, given) ==
  count' = [o \in AllObjects |-> count[o] + Occurrences(taken, o) - Occurrences(given, o)]

SetStack(s) == frames' = [frames EXCEPT ![Len(frames)].stack = s]

\* var_new(): the reference it returns is among those that the caller takes.
Create(o, k, items) ==
  /\ o \in Free /\ Len(items) <= MaxItems
  /\ kind' = [kind EXCEPT ![o] = k] /\ parts' = [parts EXCEPT ![o] = items]

SetParts(o, items) == Len(items) <= MaxItems /\ parts' = [parts EXCEPT ![o] = items]

Quiet == UNCHANGED <<globals, exception, phase>>

\* The instruction returns RES_OK with this stack.
Succeeds(stack, taken, given) ==
  /\ SetStack(stack) /\ Account(taken, given) /\ Quiet

\* It returns RES_ERROR after err_setstr().
Fails(stack, taken, given) ==
  /\ SetStack(stack) /\ Account(Append(taken, Error), given)
  /\ exception' = <<Error>> /\ phase' = "failed" /\ UNCHANGED globals

\* Objects without references are deleted before anything else happens.
Running ==
  phase = "run" /\ frames # <<>> /\ Garbage = {} /\ left > 0

Hashable(o) == o = Name
Iterable(o) == IsKind(o, {"list", "tuple"})
-----------------------------------------------------------------------------
\* do_load_const(), do_push_local()
LoadConst == \E c \in {Null, Name} :
  Succeeds(Append(Fr.stack, c), <<c>>, <<>>) /\ UNCHANGED heap

\* Local variables (IARG_PTR_FP), and the cells of the function (IARG_PTR_CP).
Named == [i \in 1 .. Fr.n_locals |-> Fr.stack[i]]
Closures == IF Len(frames) = 1 THEN <<>> ELSE parts[Fr.func]

do_load_local == \E p \in Range(Named \o Closures) :
  LET v == IF IsKind(p, {"cell"}) THEN parts[p][1] ELSE p IN
  Succeeds(Append(Fr.stack, v), <<v>>, <<>>) /\ UNCHANGED heap

\* Seeded fault: the cell keeps the value without a reference of its own.
AssignCell_NoReference(c) ==
  /\ Succeeds(Below(1), <<>>, <<parts[c][1], Top(1)>>)
  /\ SetParts(c, <<Top(1)>>) /\ UNCHANGED <<kind, sig>>

\* do_assign_local(), assign_complete(), cell_replace_value()
AssignCell(c) ==
  /\ Succeeds(Below(1), <<Top(1)>>, <<parts[c][1], Top(1)>>)
  /\ SetParts(c, <<Top(1)>>) /\ UNCHANGED <<kind, sig>>

do_assign_local ==
  /\ Has(1)
  /\ \/ \E c \in Range(Named \o Closures) : IsKind(c, {"cell"}) /\ AssignCell(c)
     \/ \E i \in DOMAIN Named :
          /\ ~IsKind(Named[i], {"cell"})
          /\ Succeeds([Below(1) EXCEPT ![i] = Top(1)], <<>>, <<Named[i]>>)
          /\ UNCHANGED heap

do_load_global == UNCHANGED heap /\
  IF globals = <<>> THEN Fails(Fr.stack, <<>>, <<>>)
  ELSE Succeeds(Append(Fr.stack, globals[1]), globals, <<>>)

\* do_assign_global() and symbol_put()
do_assign_global == Has(1) /\ UNCHANGED heap /\
  IF globals = <<>> THEN Fails(Below(1), <<>>, <<Top(1)>>)
  ELSE /\ SetStack(Below(1)) /\ Account(<<Top(1)>>, <<globals[1], Top(1)>>)
       /\ globals' = <<Top(1)>> /\ UNCHANGED <<exception, phase>>

do_new_global == UNCHANGED heap /\
  IF globals # <<>> THEN Fails(Fr.stack, <<>>, <<>>)
  ELSE /\ SetStack(Fr.stack) /\ Account(<<Null>>, <<>>)
       /\ globals' = <<Null>> /\ UNCHANGED <<exception, phase>>

do_pop == \E n \in 1 .. MaxItems :
  Has(n) /\ Succeeds(Below(n), <<>>, Upper(n)) /\ UNCHANGED heap

do_copy == \E n \in 1 .. MaxItems :
  Has(n) /\ Succeeds(Append(Fr.stack, Top(n)), <<Top(n)>>, <<>>) /\ UNCHANGED heap

\* With IARG_COND_SAVEF the value is pushed again where the branch is taken.
do_b_if == Has(1) /\ UNCHANGED heap /\
  \/ Succeeds(Below(1), <<>>, <<Top(1)>>)
  \/ Succeeds(Append(Below(1), Top(1)), <<Top(1)>>, <<Top(1)>>)

\* When the operator fails the operand is not given up.
unary_op_common == Has(1) /\ UNCHANGED heap /\
  \/ Succeeds(Append(Below(1), Name), <<Name>>, <<Top(1)>>)
  \/ Fails(Below(1), <<>>, <<>>)

\* binary_op_common(), do_cmp(), do_format()
binary_op_common == Has(2) /\ UNCHANGED heap /\
  \/ Succeeds(Append(Below(2), Name), <<Name>>, Upper(2))
  \/ Fails(Below(2), <<>>, Upper(2))

\* do_deftuple(), do_deflist(): the new object takes over the references.
do_deftuple == \E n \in 0 .. MaxItems, o \in Objects, k \in {"tuple", "list"} :
  /\ Has(n) /\ Create(o, k, Upper(n)) /\ UNCHANGED sig
  /\ Succeeds(Append(Below(n), o), <<o>>, <<>>)

\* do_list_append(), do_list_extend(): the list is being built, so that the
\* item is another object.
ListGrows(items) ==
  LET list == Top(2) item == Top(1) IN
  /\ SetParts(list, parts[list] \o items) /\ UNCHANGED <<kind, sig>>
  /\ Succeeds(Append(Below(2), list), items, <<item>>)

do_list_append == Has(2) /\ IsKind(Top(2), {"list"}) /\ Top(1) # Top(2) /\ ListGrows(<<Top(1)>>)

do_list_extend == Has(2) /\ IsKind(Top(2), {"list"}) /\ Top(1) # Top(2) /\
  \/ Iterable(Top(1)) /\ ListGrows(parts[Top(1)])
  \/ ~Iterable(Top(1)) /\ Fails(Below(2), <<>>, Upper(2)) /\ UNCHANGED heap

do_cast_tuple == \E o \in Objects :
  /\ Has(1) /\ IsKind(Top(1), {"list"})
  /\ Create(o, "tuple", parts[Top(1)]) /\ UNCHANGED sig
  /\ Succeeds(Append(Below(1), o), Append(parts[Top(1)], o), <<Top(1)>>)
-----------------------------------------------------------------------------
\* A dictionary with one value for each key, the last one that was given.
Entries(n, arr) ==
  IF n = 0 THEN <<>> ELSE <<arr[2 * n - 1], arr[2 * n]>>

\* dict_setitem() takes references to a new key and to each value, and gives
\* up the value that is replaced; then the handler gives up the operands.  At
\* a key that cannot be hashed it gives up those from there to the n-th of
\* the 2 n, and the dictionary with what it holds.
do_defdict == \E n \in 0 .. MaxItems \div 2 + 1, d \in Objects :
  LET arr == Upper(2 * n)
      bad == {p \in 0 .. n - 1 : ~Hashable(arr[2 * p + 1])}
      done == IF bad = {} THEN n ELSE Min(bad)
      rest == SubSeq(arr, 2 * done + 1, n)
  IN
  /\ Has(2 * n) /\ Create(d, "dict", Entries(done, arr)) /\ UNCHANGED sig
  /\ IF bad = {}
       THEN Succeeds(Append(Below(2 * n), d), Append(Entries(n, arr), d), arr)
       ELSE Fails(Below(2 * n), Entries(done, arr), SubSeq(arr, 1, 2 * done) \o rest)

\* The keys are in a constant tuple, here all alike: the second is refused.
do_defdict_k == \E n \in 0 .. 2, d \in Objects :
  /\ Has(n + 1) /\ Top(1) = Name
  /\ LET vals == SubSeq(Upper(n + 1), 1, n)
         kept == IF n = 0 THEN <<>> ELSE <<Name, vals[1]>>
     IN
     /\ Create(d, "dict", kept) /\ UNCHANGED sig
     /\ IF n < 2
          THEN Succeeds(Append(Below(n + 1), d), Append(kept, d), Upper(n + 1))
          ELSE Fails(Below(n + 1), kept, Upper(n + 1))

\* do_setitem() on obj[key] = val: a list replaces any item, a dictionary the
\* value or adds an entry.
do_setitem == Has(3) /\
  LET obj == Top(3) key == Top(2) val == Top(1) IN
  \/ /\ IsKind(obj, {"list"}) /\ Hashable(key) /\ UNCHANGED <<kind, sig>>
     /\ \E i \in DOMAIN parts[obj] :
          /\ SetParts(obj, [parts[obj] EXCEPT ![i] = val])
          /\ Succeeds(Below(3), <<val>>, Append(Upper(3), parts[obj][i]))
  \/ /\ IsKind(obj, {"dict"}) /\ Hashable(key) /\ UNCHANGED <<kind, sig>>
     /\ SetParts(obj, <<Name, val>>)
     /\ IF parts[obj] = <<>>
          THEN Succeeds(Below(3), <<Name, val>>, Upper(3))
          ELSE Succeeds(Below(3), <<val>>, Append(Upper(3), parts[obj][2]))
  \/ Fails(Below(3), <<>>, Upper(3)) /\ UNCHANGED heap

do_getitem == Has(2) /\ UNCHANGED heap /\
  LET obj == Top(2) IN
  \/ /\ IsKind(obj, {"list", "tuple", "dict"}) /\ Hashable(Top(1))
     /\ \E i \in DOMAIN parts[obj] :
          Succeeds(Append(Below(2), parts[obj][i]), <<parts[obj][i]>>, Upper(2))
  \/ Fails(Below(2), <<>>, Upper(2))

\* do_delitem() and, for an instance, do_delattr()
do_delitem == Has(2) /\
  LET obj == Top(2) IN
  \/ /\ IsKind(obj, {"list"}) /\ UNCHANGED <<kind, sig>>
     /\ \E i \in DOMAIN parts[obj] :
          /\ SetParts(obj, RemoveAt(parts[obj], i))
          /\ Succeeds(Below(2), <<>>, Append(Upper(2), parts[obj][i]))
  \/ /\ IsKind(obj, {"dict", "instance"}) /\ parts[obj] # <<>> /\ UNCHANGED <<kind, sig>>
     /\ SetParts(obj, <<>>) /\ Succeeds(Below(2), <<>>, Upper(2) \o parts[obj])
  \/ Fails(Below(2), <<>>, Upper(2)) /\ UNCHANGED heap

\* An instance with one attribute.  A function is found as a method of it.
do_getattr == Has(2) /\
  LET obj == Top(2) IN
  \/ /\ IsKind(obj, {"instance"}) /\ parts[obj] # <<>>
     /\ LET attr == parts[obj][1] IN
        IF IsKind(attr, {"function"})
          THEN \E m \in Objects :
                 /\ Create(m, "method", <<attr, obj>>) /\ UNCHANGED sig
                 /\ Succeeds(Append(Below(2), m), <<m, attr, obj>>, Upper(2))
          ELSE Succeeds(Append(Below(2), attr), <<attr>>, Upper(2)) /\ UNCHANGED heap
  \/ Fails(Below(2), <<>>, Upper(2)) /\ UNCHANGED heap

\* A method of the object itself is stored as its function: methodvar_tofunc()
\* takes references to both parts, of which the owner's is given up at once.
do_setattr == Has(3) /\
  LET obj == Top(3)
      own == IsKind(Top(1), {"method"}) /\ parts[Top(1)][2] = obj
      val == IF own THEN parts[Top(1)][1] ELSE Top(1)
      taken == IF own THEN <<val, obj>> ELSE <<>>
      given == IF own THEN <<obj, Top(1), Top(2), val, obj>> ELSE Upper(3)
  IN
  \/ /\ IsKind(obj, {"instance"}) /\ UNCHANGED <<kind, sig>>
     /\ SetParts(obj, <<val>>)
     /\ Succeeds(Below(3), Append(taken, val), given \o parts[obj])
  \/ Fails(Below(3), taken, given) /\ UNCHANGED heap
-----------------------------------------------------------------------------
\* iterator_get(): a new iterator refers to what it runs over.
do_foreach_setup == Has(1) /\
  \/ /\ Iterable(Top(1))
     /\ \E it \in Objects :
          /\ Create(it, "iterator", <<Top(1)>>) /\ UNCHANGED sig
          /\ Succeeds(Append(Below(1), it), <<it, Top(1)>>, <<Top(1)>>)
  \/ ~Iterable(Top(1)) /\ Fails(Below(1), <<>>, <<Top(1)>>) /\ UNCHANGED heap

\* The iterator yields any item, or is exhausted and lets its target go; those
\* that run code may also fail.
do_foreach_iter == Has(1) /\ IsKind(Top(1), {"iterator"}) /\
  LET it == Top(1) IN
  \/ \E x \in UNION {Range(parts[t]) : t \in Range(parts[it])} :
       Succeeds(Append(Fr.stack, x), <<x>>, <<>>) /\ UNCHANGED heap
  \/ /\ SetParts(it, <<>>) /\ UNCHANGED <<kind, sig>>
     /\ Succeeds(Fr.stack, <<>>, parts[it])
  \/ Fails(Below(1), <<>>, <<it>>) /\ UNCHANGED heap

\* The iterator that do_unpack() makes and gives up is left out.
do_unpack == \E n \in 1 .. MaxItems : Has(1) /\ UNCHANGED heap /\
  IF Iterable(Top(1)) /\ Len(parts[Top(1)]) = n
    THEN Succeeds(Below(1) \o parts[Top(1)], parts[Top(1)], <<Top(1)>>)
    ELSE Fails(Below(1), <<>>, <<Top(1)>>)

\* The star-th of n targets takes what the others leave.  Iterators of lists
\* and tuples do not fail, so that the error paths behind that, which would
\* give up sq twice, are not taken.
do_unpack_special == \E n \in 1 .. MaxItems + 1, star \in 1 .. MaxItems + 1 :
  /\ Has(1) /\ star <= n
  /\ IF Iterable(Top(1)) /\ Len(parts[Top(1)]) >= n - 1
       THEN LET sq == parts[Top(1)]
                stop == Len(sq) - (n - star)
            IN \E o \in Objects :
                 /\ Create(o, "list", SubSeq(sq, star, stop)) /\ UNCHANGED sig
                 /\ Succeeds(Below(1) \o SubSeq(sq, 1, star - 1) \o <<o>>
                               \o SubSeq(sq, stop + 1, Len(sq)),
                             Append(sq, o), <<Top(1)>>)
       ELSE Fails(Below(1), <<>>, <<Top(1)>>) /\ UNCHANGED heap

\* do_deffunc() on an executable and an argument specification
do_deffunc == \E o \in Objects, s \in Signatures :
  /\ Has(2) /\ Upper(2) = <<Name, Name>>
  /\ Create(o, "function", <<>>) /\ sig' = [sig EXCEPT ![o] = s]
  /\ Succeeds(Append(Below(2), o), <<o>>, Upper(2))

\* The variable becomes a cell, unless it is one; the function shares it.
do_add_closure == Has(1) /\ IsKind(Top(1), {"function"}) /\
  LET func == Top(1) IN
  \/ \E c \in Range(Named \o Closures) :
       /\ IsKind(c, {"cell"})
       /\ SetParts(func, Append(parts[func], c)) /\ UNCHANGED <<kind, sig>>
       /\ Succeeds(Fr.stack, <<c>>, <<>>)
  \/ \E i \in DOMAIN Named, c \in Free :
       /\ ~IsKind(Named[i], {"cell"}) /\ Len(parts[func]) < MaxItems
       /\ kind' = [kind EXCEPT ![c] = "cell"] /\ UNCHANGED sig
       /\ parts' = [parts EXCEPT ![c] = <<Named[i]>>, ![func] = Append(@, c)]
       /\ Succeeds([Fr.stack EXCEPT ![i] = c], <<c, Named[i], c>>, <<Named[i]>>)
-----------------------------------------------------------------------------
\* vmframe_push_block(), and what do_pop_block(), do_break() and do_continue()
\* unwind; a jump out of a try block leaves it with the loop around.
do_push_block == \E t \in {"try", "loop"} :
  /\ Len(Fr.blocks) < 2
  /\ frames' = [frames EXCEPT
       ![Len(frames)].blocks = Append(@, [type |-> t, level |-> Len(Fr.stack)])]
  /\ UNCHANGED <<count, heap>> /\ Quiet

LeaveBlock(b) ==
  /\ frames' = [frames EXCEPT ![Len(frames)].blocks = SubSeq(@, 1, b - 1),
                              ![Len(frames)].stack = SubSeq(@, 1, Fr.blocks[b].level)]
  /\ Account(<<>>, SubSeq(Fr.stack, Fr.blocks[b].level + 1, Len(Fr.stack)))
  /\ UNCHANGED heap /\ Quiet

do_pop_block == Fr.blocks # <<>> /\ LeaveBlock(Len(Fr.blocks))

do_break == \E b \in DOMAIN Fr.blocks :
  /\ Fr.blocks[b].type = "loop"
  /\ \A c \in b + 1 .. Len(Fr.blocks) : Fr.blocks[c].type # "loop"
  /\ LeaveBlock(b)

\* err_set_from_user(): only instances are exceptions.
do_throw == Has(1) /\ UNCHANGED heap /\
  LET exc == Top(1) IN
  \/ /\ IsKind(exc, {"instance"}) /\ SetStack(Below(1))
     /\ Account(<<exc>>, <<exc>>)
     /\ exception' = <<exc>> /\ phase' = "failed" /\ UNCHANGED globals
  \/ ~IsKind(exc, {"instance"}) /\ Fails(Below(1), <<>>, <<exc>>)
-----------------------------------------------------------------------------
\* vmframe_unpack_args() and vmframe_finish_stack_setup() for the function f
\* with the list args, the dictionary kw (<<>> for none) and the owner, which
\* is the first argument where the call is bound.  The outcome says what is on
\* the new stack, which references that takes, what is left in args and gives
\* up, and whether the call fails.
Unpacked(f, args, kw, owner, bound) ==
  LET s == sig[f]
      first == IF bound THEN <<owner>> ELSE <<>>
      prefix == s.optind - Len(first)
      refused == [stack |-> <<>>, rest |-> parts[args], given |-> <<>>, ok |-> FALSE]
      arguments ==
        IF s.optind >= 0
          THEN first \o SubSeq(parts[args], 1, prefix) \o <<args>> \o kw
          ELSE first \o parts[args] \o kw
  IN
  IF s.optind >= 0 /\ (prefix < 0 \/ prefix > Len(parts[args]))
    THEN refused
    ELSE [stack |-> arguments,
          rest |-> IF s.optind >= 0 THEN SubSeq(parts[args], prefix + 1, Len(parts[args]))
                                    ELSE parts[args],
          given |-> IF s.optind >= 0 THEN SubSeq(parts[args], 1, prefix) ELSE <<>>,
          ok |-> Len(arguments) = s.nargs]

\* function_call() and execute_loop() begin: the arguments and n other
\* variables are on the stack of the new frame.  `extra' are the references
\* that vm_exec_func() and do_call_func() have taken and given up so far.
Enter(func, owner, held, args, kw, bound, taken, given) ==
  LET u == Unpacked(func, args, kw, owner, bound) IN
  \E n \in 0 .. 1 :
    LET locals == IF u.ok THEN u.stack \o [i \in 1 .. n |-> Null] ELSE u.stack
        new == [NewFrame(func, owner) EXCEPT !.stack = locals, !.n_locals = Len(locals)]
    IN
    /\ frames' = Append([frames EXCEPT ![Len(frames)].stack = Below(3),
                                       ![Len(frames)].held = held], new)
    /\ parts' = [parts EXCEPT ![args] = u.rest]
    /\ Account(taken \o <<func, owner, func, owner>> \o locals
                 \o (IF u.ok THEN <<>> ELSE <<Error>>), given \o u.given)
    /\ exception' = IF u.ok THEN exception ELSE <<Error>>
    /\ phase' = IF u.ok THEN "run" ELSE "failed"
    /\ UNCHANGED globals

\* do_call_func() on a function, a method or what cannot be called.  Keyword
\* arguments that the function does not take are refused; when it takes them
\* and there are none, function_call() makes a dictionary.
do_call_func ==
  LET operand == Top(3) args == Top(2)
      kwargs == IF Top(1) = Null THEN <<>> ELSE <<Top(1)>>
      held == <<args, operand>> \o kwargs
      given == IF Top(1) = Null THEN <<Null>> ELSE <<>>
      bound == IsKind(operand, {"method"})
      func == IF bound THEN parts[operand][1] ELSE operand
      owner == IF bound THEN parts[operand][2] ELSE Fr.owner
      callable == IsKind(func, {"function"})
      takes == callable /\ sig[func].kwind >= 0
  IN
  /\ Has(3) /\ Len(frames) < MaxFrames /\ operand # Name
  /\ IsKind(args, {"list"}) /\ Top(1) \in {Null} \cup {d \in Objects : kind[d] = "dict"}
  /\ \/ /\ callable /\ kwargs = <<>> /\ takes /\ UNCHANGED sig
        /\ \E d \in Free :
             /\ kind' = [kind EXCEPT ![d] = "dict"]
             /\ Enter(func, owner, held, args, <<d>>, bound, <<>>, given)
     \/ /\ callable /\ (kwargs = <<>> <=> ~takes) /\ UNCHANGED <<kind, sig>>
        /\ Enter(func, owner, held, args, kwargs, bound, <<>>, given)
     \/ /\ ~callable \/ (kwargs # <<>> /\ ~takes)
        /\ Fails(Below(3), <<>>, held \o given) /\ UNCHANGED heap

\* A class is called: type_instantiate_object() makes an instance.
do_call_class == \E o \in Objects :
  /\ Has(3) /\ Top(3) = Name /\ IsKind(Top(2), {"list"}) /\ Top(1) = Null
  /\ Create(o, "instance", <<>>) /\ UNCHANGED sig
  /\ Succeeds(Append(Below(3), o), <<o>>, Upper(3))

\* Seeded fault: vm_exec_func() does not give up the owner.
Leave_KeepsOwner(value, taken, given, next) ==
  /\ frames' = [SubSeq(frames, 1, Len(frames) - 1) EXCEPT ![Len(frames) - 1].stack = @ \o value]
  /\ Account(taken, given \o <<Fr.func, Fr.owner, Fr.func>>)
  /\ phase' = next /\ UNCHANGED <<heap, globals, exception>>

\* vmframe_free() and the end of vm_exec_func(): the stack, fr->func, fr->owner,
\* func and owner are given up.  The value goes to the caller's do_call_func().
Leave(value, taken, given, next) ==
  /\ frames' = [SubSeq(frames, 1, Len(frames) - 1) EXCEPT ![Len(frames) - 1].stack = @ \o value]
  /\ Account(taken, given \o <<Fr.func, Fr.owner, Fr.func, Fr.owner>>)
  /\ phase' = next /\ UNCHANGED <<heap, globals, exception>>

\* do_return_value() with a value, and INSTR_END
do_return_value == Has(1) /\ Len(frames) > 1 /\ Leave(<<Top(1)>>, <<>>, Below(1), "returned")
INSTR_END ==
  \/ Len(frames) > 1 /\ Leave(<<Null>>, <<Null>>, Fr.stack, "returned")
  \/ /\ Len(frames) = 1 /\ frames' = <<>> /\ Account(<<>>, Fr.stack)
     /\ UNCHANGED heap /\ Quiet

\* Back in do_call_func(): it gives up what it has popped and pushes the value.
CallReturns ==
  /\ phase = "returned" /\ Garbage = {}
  /\ frames' = [frames EXCEPT ![Len(frames)].held = <<>>]
  /\ Account(<<>>, Fr.held)
  /\ phase' = IF exception = <<>> THEN "run" ELSE "failed"
  /\ UNCHANGED <<heap, globals, exception>>

\* execute_loop() after an instruction failed: to the handler, which finds the
\* exception on its stack, or out of the frame, or out of the program.
Handlers == {b \in DOMAIN Fr.blocks : Fr.blocks[b].type = "try"}

Handle ==
  /\ phase = "failed" /\ Garbage = {} /\ Handlers # {}
  /\ LET b == Max(Handlers) level == Fr.blocks[b].level IN
     /\ frames' = [frames EXCEPT ![Len(frames)].blocks = SubSeq(@, 1, b - 1),
                                 ![Len(frames)].stack = SubSeq(@, 1, level) \o exception]
     /\ Account(exception, SubSeq(Fr.stack, level + 1, Len(Fr.stack)) \o exception)
  /\ exception' = <<>> /\ phase' = "run" /\ UNCHANGED <<heap, globals>>

Propagate ==
  /\ phase = "failed" /\ Garbage = {} /\ Handlers = {}
  /\ \/ Len(frames) > 1 /\ Leave(<<>>, <<>>, Fr.stack, "returned")
     \/ /\ Len(frames) = 1 /\ frames' = <<>> /\ Account(<<>>, Fr.stack \o exception)
        /\ exception' = <<>> /\ phase' = "run" /\ UNCHANGED <<heap, globals>>

\* var_delete__(): an object without references gives up what it refers to.
Delete == \E o \in Garbage :
  /\ kind' = [kind EXCEPT ![o] = "free"] /\ parts' = [parts EXCEPT ![o] = <<>>]
  /\ sig' = [sig EXCEPT ![o] = NoSignature] /\ Account(<<>>, parts[o])
  /\ UNCHANGED <<frames, globals, exception, phase>>
-----------------------------------------------------------------------------
Instruction ==
  \/ LoadConst \/ do_load_local \/ do_assign_local
  \/ do_load_global \/ do_assign_global \/ do_new_global
  \/ do_pop \/ do_copy \/ do_b_if \/ unary_op_common \/ binary_op_common
  \/ do_deftuple \/ do_list_append \/ do_list_extend \/ do_cast_tuple
  \/ do_defdict \/ do_defdict_k
  \/ do_setitem \/ do_getitem \/ do_delitem \/ do_getattr \/ do_setattr
  \/ do_foreach_setup \/ do_foreach_iter \/ do_unpack \/ do_unpack_special
  \/ do_deffunc \/ do_add_closure
  \/ do_push_block \/ do_pop_block \/ do_break \/ do_throw
  \/ do_call_func \/ do_call_class \/ do_return_value \/ INSTR_END

\* A run begins with a heap that handlers could have left, in which whatever
\* is referred to exists.
ASSUME ScenariosAssumption == \A s \in Scenarios :
  LET there == Fixed \cup {o \in Objects : s.kind[o] # "free"} IN
  /\ s.kind \in [Objects -> Kinds] /\ s.sig \in [Objects -> Signatures \cup {NoSignature}]
  /\ s.parts \in [Objects -> Seq(there)]
  /\ \A o \in Objects : PartsFit(s.kind[o], s.parts[o])
  /\ s.stack \in Seq(there) /\ s.n_locals \in 0 .. Len(s.stack)
  /\ s.globals \in Seq(there) /\ Len(s.globals) <= 1 /\ s.budget \in Nat

Init == \E s \in Scenarios :
  /\ kind = s.kind /\ parts = s.parts /\ sig = s.sig /\ left = s.budget
  /\ frames = <<[NewFrame(Name, Name) EXCEPT !.stack = s.stack, !.n_locals = s.n_locals]>>
  /\ globals = s.globals /\ exception = <<>> /\ phase = "run"
  /\ count = [o \in AllObjects |-> References(o)]

Next ==
  \/ Running /\ Instruction /\ left' = left - 1
  \/ (CallReturns \/ Handle \/ Propagate \/ Delete) /\ UNCHANGED left

Spec == Init /\ [][Next]_vars
-----------------------------------------------------------------------------
\* The variables have their types; only objects that exist have parts.
TypeOK ==
  /\ kind \in [Objects -> Kinds] /\ sig \in [Objects -> Signatures \cup {NoSignature}]
  /\ parts \in [Objects -> Seq(AllObjects)]
  /\ \A o \in Objects : kind[o] = "free" => parts[o] = <<>>
  /\ count \in [AllObjects -> Int] /\ globals \in Seq(AllObjects)
  /\ exception \in Seq(AllObjects) /\ phase \in {"run", "failed", "returned"}
  /\ left \in Nat
  /\ \A f \in DOMAIN frames :
       /\ frames[f].stack \in Seq(AllObjects) /\ frames[f].held \in Seq(AllObjects)
       /\ frames[f].n_locals <= Len(frames[f].stack)

\* Whatever a stack, an object, a call in progress or the VM refers to is there
\* and counted: no instruction, error path or return gives up what another
\* owner still uses.
NothingDangles ==
  /\ TypeOK
  /\ \A o \in AllObjects : Excess[o] >= 0 /\ (References(o) > 0 => (o \in Fixed \/ kind[o] # "free"))

\* A step neither loses a reference nor makes one up, with two exceptions:
\* failing operators keep their operand (unary_op_common()), and failing
\* dictionary displays keep some of theirs (do_defdict()).
BalancedSteps ==
  [][Excess' = Excess \/ (phase' = "failed" /\ (unary_op_common \/ do_defdict))]_vars

\* "unwind the rest and fail": when a key of a display cannot be hashed, all
\* that is left of the operands is given up.
RestUnwound == [][do_defdict => Excess' = Excess]_vars

\* "@kwargs's reference will be consumed, if it exists": once vm_exec_func() is
\* done, the reference that do_call_func() came with is no longer counted.
KwargsConsumed ==
  phase = "returned" /\ Len(Fr.held) = 3 => Excess[Fr.held[3]] = -1
=============================================================================
