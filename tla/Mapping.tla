------------------------------ MODULE Mapping -------------------------------
(***************************************************************************)
(* What a dictionary promises its callers: a finite map that remembers the *)
(* order in which its keys came, with the result of each operation.  Dict  *)
(* implements this.                                                        *)
(***************************************************************************)
EXTENDS Integers, Sequences

CONSTANTS Keys, Vals, NoVal

VARIABLES map,    \* key -> value, NoVal when the key is absent
          order,  \* the keys present, oldest first
          res     \* what the last operation returned

vars == <<map, order, res>>

Absent(k) == map[k] = NoVal

Init == map = [k \in Keys |-> NoVal] /\ order = << >> /\ res = "ok"

Refuse == res' = "error" /\ UNCHANGED <<map, order>>

Add(k, v)     == /\ res' = "ok"
                 /\ Absent(k)
                 /\ map' = [map EXCEPT ![k] = v]
                 /\ order' = Append(order, k)
Replace(k, v) == /\ res' = "ok"
                 /\ ~Absent(k)
                 /\ map' = [map EXCEPT ![k] = v]
                 /\ UNCHANGED order
Remove(k)     == /\ res' = "ok"
                 /\ ~Absent(k)
                 /\ map' = [map EXCEPT ![k] = NoVal]
                 /\ \E i \in DOMAIN order :
                      /\ order[i] = k
                      /\ order' = SubSeq(order, 1, i - 1) \o SubSeq(order, i + 1, Len(order))
Get(k)        == res' = map[k] /\ UNCHANGED <<map, order>>
Clear         == /\ res' = "ok"
                 /\ map' = [k \in Keys |-> NoVal]
                 /\ order' = << >>

(* An insertion may ask for a key that is absent (exclusive) or present    *)
(* (replace); removing asks for one that is present.                       *)
Next == \/ Refuse
        \/ \E k \in Keys, v \in Vals : Add(k, v) \/ Replace(k, v)
        \/ \E k \in Keys : Remove(k) \/ Get(k)
        \/ Clear

Spec == Init /\ [][Next]_vars
=============================================================================
