----------------------------- MODULE ObjectHeap -----------------------------
(***************************************************************************)
(* What the rest of the interpreter takes object storage for: objects that *)
(* refer to each other and stay what they are as long as anything refers   *)
(* to them.  No counts, no lists, no order of deletion.  VarPool           *)
(* implements this.                                                        *)
(***************************************************************************)
EXTENDS Naturals, Sequences

CONSTANTS Addr, Other     \* the objects; the class of one whose class is no object

VARIABLES alive,     \* the objects
          class,     \* of an object: its class, an object, or Other
          items,     \* of an object: what it refers to
          roots      \* references from outside

vars == <<alive, class, items, roots>>

(* v is needed if anything is known to refer to it.                        *)
Needed(v) == \/ roots[v] > 0
             \/ \E w \in alive : class[w] = v \/ \E i \in DOMAIN items[w] : items[w][i] = v

Init == /\ alive = {}
        /\ class = [v \in alive |-> Other]
        /\ items = [v \in alive |-> << >>]
        /\ roots = [v \in Addr |-> 0]

(* Storage is given out only while no object is in it.                     *)
Create(v, c) ==
    /\ v \notin alive
    /\ c \in Addr => c \in alive
    /\ alive' = alive \cup {v}
    /\ class' = [w \in alive' |-> IF w = v THEN c ELSE class[w]]
    /\ items' = [w \in alive' |-> IF w = v THEN << >> ELSE items[w]]
    /\ roots' = [roots EXCEPT ![v] = 1]

Refer(v) ==
    /\ v \in alive /\ Needed(v)
    /\ roots' = [roots EXCEPT ![v] = @ + 1]
    /\ UNCHANGED <<alive, class, items>>

Put(v, w) ==
    /\ {v, w} \subseteq alive /\ roots[v] > 0 /\ roots[w] > 0
    /\ items' = [items EXCEPT ![v] = Append(@, w)]
    /\ roots' = [roots EXCEPT ![w] = @ - 1]
    /\ UNCHANGED <<alive, class>>

(* Objects nobody needs may vanish, at once or later.                      *)
Vanish(gone) ==
    /\ alive' = alive \ gone
    /\ class' = [w \in alive' |-> class[w]]

Take(v) ==
    \E gone \in SUBSET alive :
        /\ v \in alive /\ roots[v] > 0 /\ items[v] # << >>
        /\ Vanish(gone)
        /\ items' = [w \in alive' |-> IF w = v THEN Tail(items[v]) ELSE items[w]]
        /\ UNCHANGED roots
        /\ \A w \in gone : ~Needed(w)'

Unrefer(v) ==
    \E gone \in SUBSET alive :
        /\ v \in alive /\ roots[v] > 0
        /\ roots' = [roots EXCEPT ![v] = @ - 1]
        /\ Vanish(gone)
        /\ items' = [w \in alive' |-> items[w]]
        /\ \A w \in gone : ~Needed(w)'

Collect ==
    \E gone \in SUBSET alive :
        /\ Vanish(gone)
        /\ items' = [w \in alive' |-> items[w]]
        /\ UNCHANGED roots
        /\ \A w \in gone : ~Needed(w)'

Next == \/ \E v \in Addr : Refer(v) \/ Take(v) \/ Unrefer(v)
        \/ \E v, w \in Addr : Put(v, w)
        \/ \E v \in Addr, c \in Addr \cup {Other} : Create(v, c)
        \/ Collect

Spec == Init /\ [][Next]_vars
=============================================================================
