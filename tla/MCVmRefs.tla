------------------------------ MODULE MCVmRefs ------------------------------
(* VmRefs from heaps in which every kind of object occurs, with any three   *)
(* values as operands, from displays of four operands, and from calls of    *)
(* functions of one argument, of one and any others, and of any others and  *)
(* keywords, with lists of up to two arguments.                             *)
EXTENDS VmRefs, TLC

CONSTANTS o1, o2, o3, o4, o5, o6, o7, Steps, CallSteps

One == [nargs |-> 1, optind |-> -1, kwind |-> -1]
Rest == [nargs |-> 2, optind |-> 1, kwind |-> -1]
Keywords == [nargs |-> 2, optind |-> 0, kwind |-> 1]
MCSignatures == {One, Rest, Keywords}

\* The objects at the addresses where there are any: <<type, parts>>.
Containers == (o1 :> <<"list", <<Name, o2>>>>) @@ (o2 :> <<"tuple", <<Null, Name>>>>)
              @@ (o3 :> <<"dict", <<Name, o2>>>>)
Class(args) == (o1 :> <<"instance", <<o2>>>>) @@ (o2 :> <<"function", <<o4>>>>)
               @@ (o3 :> <<"method", <<o2, o1>>>>) @@ (o4 :> <<"cell", <<Name>>>>)
               @@ (o5 :> <<"list", args>>)
Loop == (o1 :> <<"iterator", <<o2>>>>) @@ (o2 :> <<"list", <<o3>>>>)
        @@ (o3 :> <<"instance", <<Null>>>>)
Call(args) == Class(args) @@ (o6 :> <<"dict", <<Name, Null>>>>)

Begin(objects, s, stack, globs, budget) ==
  LET at(o, i, none) == IF o \in DOMAIN objects THEN objects[o][i] ELSE none IN
  [kind |-> [o \in Objects |-> at(o, 1, "free")],
   parts |-> [o \in Objects |-> at(o, 2, <<>>)],
   sig |-> [o \in Objects |-> IF at(o, 1, "free") = "function" THEN s ELSE NoSignature],
   stack |-> stack, n_locals |-> 1, globals |-> globs, budget |-> budget]

Values(objects) == DOMAIN objects \cup {Name, Null}

Anywhere ==
  UNION {{Begin(h, One, <<l, a, b, c>>, <<>>, Steps) :
            l \in {Null} \cup (DOMAIN h \cap {o4}),
            a \in Values(h), b \in Values(h), c \in Values(h)} :
         h \in {Containers, Class(<<>>), Loop}}

Displays ==
  {Begin(Containers, One, <<Null, a, b, c, d>>, <<o3>>, 1) :
     a \in {Name, o1}, b \in {Name, o2}, c \in {Name, o1}, d \in {Null, o2}}

Calls ==
  {Begin(Call(args), s, <<l, f, o5, kw>>, <<o3>>, CallSteps) :
     args \in {<<>>, <<Name>>, <<o1>>, <<o1, Null>>}, s \in MCSignatures,
     l \in {Null, o4}, f \in {o2, o3}, kw \in {Null, o6}}

MCScenarios == Anywhere \cup Displays \cup Calls
=============================================================================
