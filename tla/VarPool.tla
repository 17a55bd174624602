------------------------------ MODULE VarPool -------------------------------
(***************************************************************************)
(* Storage of objects (src/src/var.c): reference counts, deletion, which   *)
(* reaches through the objects an object refers to, deletion put off while *)
(* var_lock() holds, and the free list of each type.                       *)
(*                                                                         *)
(* An object is its address.  Its items are the references it holds (array *)
(* items, dict entries, attributes); roots are those that C code and       *)
(* operand stacks hold.  An instance of a user class has the class for its *)
(* type, which is an object itself; other types are static.                *)
(*                                                                         *)
(* work is the C stack while something is deleted: calls of var_delete__() *)
(* within each other, at the bottom perhaps the loop of var_unlock().  The *)
(* program goes on when it is empty.                                       *)
(***************************************************************************)
EXTENDS Integers, Sequences, FiniteSets, SequencesExt

CONSTANTS Addr,                \* where objects can be (a bound)
          Static, TypeType,    \* types that are not objects
          MAX_FREELIST_SIZE,
          MaxRoots, MaxItems   \* bounds: roots of an object, its items

ASSUME PoolAssumption == /\ IsFiniteSet(Addr) /\ MAX_FREELIST_SIZE \in Nat
                         /\ MaxRoots \in Nat /\ MaxItems \in Nat
                         /\ Static \notin Addr /\ TypeType \notin Addr
                         /\ Static # TypeType

VARIABLES
    use,        \* of an address: "heap" (malloc's), "list" (on a free list), "object"
    type,       \* v_type
    refcnt,     \* v_refcnt
    items,      \* references the object holds
    roots,      \* references to it from outside
    freelist,   \* type -> the addresses on its free list, newest first
    pending,    \* var_pending_free, newest first
    locked,     \* var_locked
    work        \* C stack, innermost last

vars == <<use, type, refcnt, items, roots, freelist, pending, locked, work>>

Types == Addr \cup {Static, TypeType}
Task  == [do : {"delete"}, v : Addr] \cup {[do |-> "unlock"]}

IsObject(v) == use[v] = "object"
IsClass(v)  == IsObject(v) /\ type[v] = TypeType
Deleting(v) == \E i \in DOMAIN work : work[i].do = "delete" /\ work[i].v = v

------------------------------------------------------------------------------
(* var_alloc: the newest address on the type's free list, or any from the  *)
(* heap.  The type of an instance gets a reference more (instancevar_new). *)
CanAlloc(t, v) == IF freelist[t] # << >> THEN v = Head(freelist[t]) ELSE use[v] = "heap"

var_new(t, v) ==
    /\ CanAlloc(t, v)
    /\ use' = [use EXCEPT ![v] = "object"]
    /\ freelist' = [freelist EXCEPT ![t] = IF @ = << >> THEN @ ELSE Tail(@)]
    /\ type' = [type EXCEPT ![v] = t]
    /\ refcnt' = [w \in Addr |-> IF w = v THEN 1 ELSE refcnt[w] + (IF w = t THEN 1 ELSE 0)]
    /\ items' = [items EXCEPT ![v] = << >>]
    /\ roots' = [roots EXCEPT ![v] = 1]

(* Seeded fault: deletion starts while one reference is left.              *)
VAR_DECR_REF_Early(v, rc, c) ==
    IF rc[v] > 2 THEN refcnt' = [rc EXCEPT ![v] = @ - 1] /\ work' = c /\ UNCHANGED pending
    ELSE IF locked > 0
    THEN refcnt' = [rc EXCEPT ![v] = 0] /\ pending' = <<v>> \o pending /\ work' = c
    ELSE /\ refcnt' = [rc EXCEPT ![v] = 1]
         /\ work' = Append(c, [do |-> "delete", v |-> v])
         /\ UNCHANGED pending

(***************************************************************************)
(* VAR_DECR_REF(v) with the C stack c below it: the last reference makes   *)
(* v pending or starts its deletion.  rc is the count before, which        *)
(* var_delete__() nudges to 1 for the time of the reset.                   *)
(***************************************************************************)
VAR_DECR_REF(v, rc, c) ==
    IF rc[v] > 1
    THEN /\ refcnt' = [rc EXCEPT ![v] = @ - 1]
         /\ work' = c
         /\ UNCHANGED pending
    ELSE IF locked > 0
    THEN /\ refcnt' = [rc EXCEPT ![v] = 0]
         /\ pending' = <<v>> \o pending
         /\ work' = c
    ELSE /\ refcnt' = [rc EXCEPT ![v] = 1]
         /\ work' = Append(c, [do |-> "delete", v |-> v])
         /\ UNCHANGED pending

(* var_free: to the type's free list, or back to the heap.                 *)
var_free(v) ==
    LET t    == type[v]
        full == Len(freelist[t]) >= MAX_FREELIST_SIZE
    IN  /\ use' = [use EXCEPT ![v] = IF full THEN "heap" ELSE "list"]
        /\ freelist' = [freelist EXCEPT ![t] = IF full THEN @ ELSE <<v>> \o @]

(* Seeded fault: the storage goes, the list still leads to it.             *)
var_type_clear_KeepsList(t) ==
    /\ use' = [w \in Addr |-> IF w \in ToSet(freelist[t]) THEN "heap" ELSE use[w]]
    /\ UNCHANGED freelist

(* type_reset of a class that goes: its free list goes to the heap.        *)
var_type_clear_freelist(t) ==
    /\ use' = [w \in Addr |-> IF w \in ToSet(freelist[t]) THEN "heap" ELSE use[w]]
    /\ freelist' = [freelist EXCEPT ![t] = << >>]

------------------------------------------------------------------------------
Init == /\ use = [v \in Addr |-> "heap"]
        /\ type = [v \in Addr |-> Static]
        /\ refcnt = [v \in Addr |-> 0]
        /\ items = [v \in Addr |-> << >>]
        /\ roots = [v \in Addr |-> 0]
        /\ freelist = [t \in Types |-> << >>]
        /\ pending = << >>
        /\ locked = 0
        /\ work = << >>

Program  == work = << >> /\ locked = 0        \* ordinary code runs
Rooted(v) == IsObject(v) /\ roots[v] > 0

New == /\ Program
       /\ \E v \in Addr, t \in Types :
             /\ t \in Addr => Rooted(t) /\ IsClass(t)
             /\ var_new(t, v)
       /\ UNCHANGED <<pending, locked, work>>

(* VAR_NEW_REF of an object at hand, or of an item of one.                 *)
NewRef == /\ Program
          /\ \E v \in Addr :
                /\ Rooted(v) \/ \E w \in Addr : Rooted(w) /\ v \in ToSet(items[w])
                /\ roots[v] < MaxRoots
                /\ refcnt' = [refcnt EXCEPT ![v] = @ + 1]
                /\ roots' = [roots EXCEPT ![v] = @ + 1]
          /\ UNCHANGED <<use, type, items, freelist, pending, locked, work>>

(* A reference moves into an object (array_append, dict_setitem, ...).     *)
Store == /\ Program
         /\ \E v, w \in Addr :
               /\ Rooted(v) /\ Rooted(w)
               /\ Len(items[v]) < MaxItems
               /\ items' = [items EXCEPT ![v] = Append(@, w)]
               /\ roots' = [roots EXCEPT ![w] = @ - 1]
         /\ UNCHANGED <<use, type, refcnt, freelist, pending, locked, work>>

(* An item is taken out and its reference consumed (array_delete_chunk,    *)
(* dict_clear, a replaced value).                                          *)
TakeOut == /\ Program
           /\ \E v \in Addr :
                 /\ Rooted(v)
                 /\ items[v] # << >>
                 /\ items' = [items EXCEPT ![v] = Tail(@)]
                 /\ VAR_DECR_REF(Head(items[v]), refcnt, work)
           /\ UNCHANGED <<use, type, roots, freelist, locked>>

(* A reference held outside is consumed; under the lock this is            *)
(* vmframe_free() emptying a frame's stack.                                *)
Drop == /\ work = << >>
        /\ \E v \in Addr :
              /\ Rooted(v)
              /\ roots' = [roots EXCEPT ![v] = @ - 1]
              /\ VAR_DECR_REF(v, refcnt, work)
        /\ UNCHANGED <<use, type, items, freelist, locked>>

(* vmframe_free() locks; vm_clear_frames_for_exit() locks around it.       *)
Lock == /\ work = << >>
        /\ locked < 2
        /\ locked' = locked + 1
        /\ UNCHANGED <<use, type, refcnt, items, roots, freelist, pending, work>>

(* Seeded fault: what waited for the unlock is not freed.                 *)
Unlock_FreesNothing ==
    /\ work = << >>
    /\ locked > 0
    /\ locked' = locked - 1
    /\ UNCHANGED <<use, type, refcnt, items, roots, freelist, pending, work>>

Unlock == /\ work = << >>
          /\ locked > 0
          /\ locked' = locked - 1
          /\ work' = IF locked = 1 THEN <<[do |-> "unlock"]>> ELSE work
          /\ UNCHANGED <<use, type, refcnt, items, roots, freelist, pending>>

------------------------------------------------------------------------------
(* The C stack.                                                            *)
Task1   == work[Len(work)]
Below   == Front(work)

(* The loop of var_unlock: the object is off the list before it is deleted.*)
UnlockNext ==
    /\ work # << >> /\ Task1.do = "unlock"
    /\ IF pending = << >>
       THEN /\ work' = Below
            /\ UNCHANGED <<refcnt, pending>>
       ELSE /\ pending' = Tail(pending)
            /\ refcnt' = [refcnt EXCEPT ![Head(pending)] = 1]
            /\ work' = Append(work, [do |-> "delete", v |-> Head(pending)])
    /\ UNCHANGED <<use, type, items, roots, freelist, locked>>

(* reset() of a class clears its free list, then it is like any other:     *)
(* every item loses the reference the object held.                         *)
ResetClass ==
    /\ work # << >> /\ Task1.do = "delete"
    /\ LET v == Task1.v
       IN  /\ type[v] = TypeType /\ freelist[v] # << >>
           /\ var_type_clear_freelist(v)
    /\ UNCHANGED <<type, refcnt, items, roots, pending, locked, work>>

ResetItem ==
    /\ work # << >> /\ Task1.do = "delete"
    /\ LET v == Task1.v
       IN  /\ type[v] = TypeType => freelist[v] = << >>
           /\ items[v] # << >>
           /\ items' = [items EXCEPT ![v] = Tail(@)]
           /\ VAR_DECR_REF(Head(items[v]), refcnt, work)
    /\ UNCHANGED <<use, type, roots, freelist, locked>>

(* After the reset: the storage first, for the free list is in the type;   *)
(* then the instance's reference to its class.                             *)
Free ==
    /\ work # << >> /\ Task1.do = "delete"
    /\ LET v == Task1.v
           zero == [refcnt EXCEPT ![v] = 0]
       IN  /\ type[v] = TypeType => freelist[v] = << >>
           /\ items[v] = << >>
           /\ var_free(v)
           /\ IF type[v] \in Addr THEN VAR_DECR_REF(type[v], zero, Below)
              ELSE /\ refcnt' = zero
                   /\ work' = Below
                   /\ UNCHANGED pending
    /\ UNCHANGED <<type, items, roots, locked>>

Delete == UnlockNext \/ ResetClass \/ ResetItem \/ Free

Next == New \/ NewRef \/ Store \/ TakeOut \/ Drop \/ Lock \/ Unlock \/ Delete

(* A deletion is carried through.  The outer lock is released in the end:  *)
(* vmframe_free() empties one stack and vm_clear_frames_for_exit(), which  *)
(* locks around it, frees each active frame once.                          *)
Spec == Init /\ [][Next]_vars /\ WF_vars(Delete)
        /\ WF_vars(Unlock) /\ SF_vars(locked = 1 /\ Unlock)
------------------------------------------------------------------------------
TypeOK == /\ use \in [Addr -> {"heap", "list", "object"}]
          /\ type \in [Addr -> Types]
          /\ refcnt \in [Addr -> Nat]
          /\ items \in [Addr -> Seq(Addr)]
          /\ roots \in [Addr -> Nat]
          /\ freelist \in [Types -> Seq(Addr)]
          /\ pending \in Seq(Addr)
          /\ locked \in Nat
          /\ work \in Seq(Task)

(* An object's count is the number of references to it: from outside, from *)
(* other objects, from its instances, and the one var_delete__() adds for  *)
(* the time of a reset.                                                    *)
Holders(v) ==
    {h \in Addr \X (1..MaxItems) :
        IsObject(h[1]) /\ h[2] <= Len(items[h[1]]) /\ items[h[1]][h[2]] = v}
Instances(v) == {w \in Addr : IsObject(w) /\ type[w] = v}
RefcountsExact ==
    \A v \in Addr : IsObject(v) =>
        refcnt[v] = roots[v] + Cardinality(Holders(v)) + Cardinality(Instances(v))
                    + (IF Deleting(v) THEN 1 ELSE 0)

(* Whatever can still be reached is an object, not storage that var_free() *)
(* has given away; and it is not already being deleted.                    *)
NothingDangles ==
    \A v \in Addr :
        /\ roots[v] > 0 => IsObject(v) /\ v \notin ToSet(pending) /\ ~Deleting(v)
        /\ IsObject(v) => /\ \A w \in ToSet(items[v]) : IsObject(w) /\ ~Deleting(w)
                          /\ type[v] \in Addr => IsClass(type[v]) /\ ~Deleting(type[v])

(* An address is in one place: one free list, pending, or one level of the *)
(* C stack; a free list is never longer than it may be, and only a type    *)
(* that still exists has one.  What var_unlock() promises: nothing is pending *)
(* when no lock is held and no deletion is under way.                      *)
ListsDisjoint ==
    /\ IsInjective(pending)
    /\ \A v \in ToSet(pending) : IsObject(v) /\ refcnt[v] = 0 /\ ~Deleting(v)
    /\ \A i, j \in DOMAIN work : work[i] = work[j] => i = j
    /\ \A t \in Types :
          /\ IsInjective(freelist[t])
          /\ Len(freelist[t]) <= MAX_FREELIST_SIZE
          /\ \A v \in ToSet(freelist[t]) : use[v] = "list" /\ type[v] = t
          /\ freelist[t] # << >> => t \notin Addr \/ IsClass(t)
    /\ pending # << >> => locked > 0 \/ work # << >>

(* In any order of deletions, locks and resets, counts are exact, what can *)
(* be reached is there, and free storage is in one place.                  *)
StorageSound == TypeOK /\ RefcountsExact /\ NothingDangles /\ ListsDisjoint

(* The storage as the rest of the interpreter sees it: an object is gone   *)
(* from the moment it is pending or being deleted.                         *)
Alive == {v \in Addr : IsObject(v) /\ v \notin ToSet(pending) /\ ~Deleting(v)}
Heap == INSTANCE ObjectHeap WITH
            alive <- Alive,
            Other <- Static,
            class <- [v \in Alive |-> IF type[v] \in Addr THEN type[v] ELSE Static],
            items <- [v \in Alive |-> items[v]]

(* Objects keep their class and items as long as anything refers to them,  *)
(* and no storage is given out twice.                                      *)
ImplementsHeap == Heap!Spec

(* An object nobody refers to any more gives its storage back.             *)
Reclaimed == \A v \in Addr : (IsObject(v) /\ refcnt[v] = 0) ~> ~IsObject(v)
=============================================================================
