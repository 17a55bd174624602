------------------------------- MODULE Lists --------------------------------
(***************************************************************************)
(* types/array.c: one list object, its block of memory and what scripts do *)
(* to it - by index, by slice, by method, through an iterator - also while *)
(* it is being printed, because printing an item may run a script.  Other  *)
(* lists and tuples only lend their items and are constant sequences; the  *)
(* list itself may also be the source of an assignment.                    *)
(*                                                                         *)
(* An operation is a function on the memory of the list, a record m.       *)
(***************************************************************************)
EXTENDS Integers, Sequences, FiniteSets, SequencesExt

CONSTANTS Item,     \* objects a list may hold
          Shared,   \* those somebody else refers to as well
          Talker,   \* instances whose __str__ is a script
          Given,    \* sequences of items that scripts assign and append
          Index,    \* index arguments
          Step,     \* steps of slices, not 0
          MaxLen,   \* longest list
          Self,     \* the list itself as the source of an assignment
          Null,     \* a stop that was left out
          Junk,     \* a slot beyond the items
          Nobody    \* no item, no iterator

ASSUME ItemAssumption == /\ Shared \subseteq Item
                         /\ Talker \subseteq Item
                         /\ Given \subseteq Seq(Item)
                         /\ Junk \notin Item
                         /\ Nobody \notin Item
                         /\ Self \notin Given
ASSUME BoundAssumption == MaxLen \in Nat /\ Step \subseteq Int \ {0} /\ Null \notin Index

VARIABLES slots,     \* the block of items, as long as alloc_size says
          size,      \* seqvar_size
          refs,      \* item -> references held by the list, and by others
          lock,      \* array_str is at work
          printing,  \* array_str: its n, its i, and whether item i is talking
          iter,      \* a list iterator: its i, Nobody when used up; the last item
          stale      \* what was read outside memory or references that are owned

vars == <<slots, size, refs, lock, printing, iter, stale>>

Memory == [slots |-> slots, size |-> size, refs |-> refs, stale |-> "none"]

Items(m) == SubSeq(m.slots, 1, m.size)

Contents == Items(Memory)

-----------------------------------------------------------------------------
(* Memory *)

Powers == {2 ^ e : e \in 0..8}

Least(S) == CHOOSE x \in S : \A y \in S : x <= y
Greatest(S) == CHOOSE x \in S : \A y \in S : x >= y
Abs(a) == IF a < 0 THEN -a ELSE a

(* The slots array_resize() wants for n items in a block that has old: it  *)
(* doubles until n is under three quarters, or else quarters the block     *)
(* until it is at most four times n.                                       *)
alloc_for(old, n) ==
  LET from == IF old = 0 THEN 1 ELSE old
      grown == Least({p \in Powers : p >= from /\ 3 * p > 4 * n})
      shrunk == Greatest({p \in {from \div 4 ^ e : e \in 0..4} : p <= 4 * n})
  IN IF n = 0 THEN 1 ELSE IF grown # old THEN grown ELSE shrunk

array_resize(m, n) ==
  [m EXCEPT !.slots = [p \in 1..alloc_for(Len(@), n) |-> IF p <= Len(@) THEN @[p] ELSE Junk]]

(* A reference to c is taken out of a source; one in the list itself may   *)
(* have been the last.                                                     *)
INCR(m, c, v) == [m EXCEPT !.refs[c] = @ + 1,
                           !.stale = IF v = Self /\ m.refs[c] = 0 THEN "self" ELSE @]
DECR(m, c) == [m EXCEPT !.refs[c] = @ - 1]

(* Item p, from 1, of a source; a source is read as it is at that moment.  *)
Source(m, v, p) == IF v = Self THEN m.slots[p] ELSE v[p]
SourceSize(m, v) == IF v = Self THEN m.size ELSE Len(v)

(* Seeded fault: the item that is overwritten is not given up.             *)
Replace_KeepsOld(m, p, c, v) == INCR([m EXCEPT !.slots[p] = c], c, v)

(* Slot p gives up its item and takes c.                                   *)
Replace(m, p, c, v) == INCR([DECR(m, m.slots[p]) EXCEPT !.slots[p] = c], c, v)

Upto(n) == [q \in 1..n |-> q]

(* array_insert_chunk() reads its source after realloc() has moved the     *)
(* items, and one by one while it writes.                                  *)
insert_chunk(m, at, v, from, n) ==
  LET resized == array_resize(m, m.size + n)
      opened == [resized EXCEPT !.slots = [p \in DOMAIN @ |->
                   IF p > at + n /\ p <= m.size + n THEN @[p - n] ELSE @[p]]]
      Put(x, q) == LET c == Source(x, v, from + q)
                   IN INCR([x EXCEPT !.slots[at + q] = c], c, v)
  IN IF v = Self /\ n > 0 /\ Len(resized.slots) # Len(m.slots)
     THEN [m EXCEPT !.stale = "self"]
     ELSE [FoldLeft(Put, opened, Upto(n)) EXCEPT !.size = @ + n]
array_insert_chunk(m, at, v, from, n) == IF lock THEN m ELSE insert_chunk(m, at, v, from, n)

(* array_delete_chunk() does not look at the lock.                         *)
array_delete_chunk(m, at, n) ==
  LET k == IF m.size - at < n THEN m.size - at ELSE n
      gone(c) == Cardinality({p \in at + 1..at + k : m.slots[p] = c})
      closed == [m EXCEPT !.refs = [c \in Item |-> @[c] - gone(c)],
                          !.slots = [p \in DOMAIN @ |-> IF p > m.size - k THEN Junk
                                                        ELSE IF p > at THEN @[p + k] ELSE @[p]],
                          !.size = @ - k]
  IN IF at >= m.size THEN m ELSE array_resize(closed, m.size - k)

-----------------------------------------------------------------------------
(* Indices and slices (var.c) *)

(* A division of C rounds towards zero.                                    *)
CDiv(a, b) == IF (a < 0) = (b < 0) THEN Abs(a) \div Abs(b) ELSE -(Abs(a) \div Abs(b))

var_slice_size(start, stop, step) ==
  LET res == CDiv(stop - start + step + (IF step > 0 THEN -1 ELSE 1), step)
  IN IF res < 0 THEN 0 ELSE res

(* -1 stands for an index out of range.                                    *)
var_realindex(n, i) == LET p == IF i < 0 THEN i + n ELSE i IN IF p \in 0..n - 1 THEN p ELSE -1

tup2slice(n, i, j, k) ==
  LET Bound(x) == IF x < 0 THEN IF x + n < 0 THEN IF k < 0 THEN -1 ELSE 0 ELSE x + n
                  ELSE IF x >= n THEN IF k < 0 THEN n - 1 ELSE n ELSE x
      start == Bound(i)
      stop == Bound(IF j = Null THEN n ELSE j)
  IN [start |-> IF (start < stop /\ k < 0) \/ (start > stop /\ k > 0) THEN stop ELSE start,
      stop |-> stop, step |-> k]

(* The number of rounds of a loop that adds step to x until Stop(x).       *)
Rounds(x, step, Stop(_)) == Least({q \in 0..MaxLen + 1 : Stop(x + q * step)})

(* array_getslice() appends the items it visits to a new list.             *)
array_getslice(m, s) ==
  LET Done(x) == IF s.start < s.stop THEN x >= s.stop ELSE x <= s.stop
  IN [q \in 1..Rounds(s.start, s.step, Done) |-> m.slots[s.start + (q - 1) * s.step + 1]]

(* array_setslice_1step(): what fits replaces the items in place, the rest *)
(* is inserted or deleted; that an insertion was refused is not looked at. *)
array_setslice_1step(m, s, v) ==
  LET start == IF s.step < 0 THEN s.stop + 1 ELSE s.start
      stop == IF s.step < 0 THEN s.start + 1 ELSE s.stop
      nslc == IF stop < start THEN 0 ELSE stop - start
      nsrc == SourceSize(m, v)
      k == IF nsrc >= nslc THEN nslc ELSE nsrc
      Put(x, q) == Replace(x, start + q, Source(x, v, q), v)
      put == FoldLeft(Put, m, Upto(k))
  IN IF nsrc > nslc THEN array_insert_chunk(put, start + k, v, k, nsrc - nslc)
     ELSE IF nsrc < nslc THEN array_delete_chunk(put, start + k, nslc - nsrc) ELSE put

(* The other steps: nothing happens unless there are as many items as the  *)
(* slice has.  A stop of -1, compared unsigned, is past the end.           *)
array_setslice_steps(m, s, v) ==
  LET Past(x) == x < 0 \/ x >= m.size
      stop == IF Past(s.stop) THEN m.size ELSE s.stop
      slclen == var_slice_size(s.start, stop, s.step)
      Put(x, q) == Replace(x, s.start + (q - 1) * s.step + 1, Source(x, v, q), v)
  IN IF Past(s.start) \/ slclen # SourceSize(m, v) THEN m ELSE FoldLeft(Put, m, Upto(slclen))

array_setslice(m, s, v) == IF s.step \in {1, -1} THEN array_setslice_1step(m, s, v)
                           ELSE array_setslice_steps(m, s, v)

(* Seeded fault: the loop forgets that the list has closed up behind it.   *)
array_delslice_Ahead(m, s) ==
  LET low == IF s.step > 0 THEN s.start
             ELSE s.start + s.step * (var_slice_size(s.start, s.stop, s.step) - 1)
      stop == IF s.step > 0 THEN s.stop ELSE s.start + 1
      Done(x) == x >= stop
      Drop(x, q) == array_delete_chunk(x, low + (q - 1) * Abs(s.step), 1)
  IN FoldLeft(Drop, m, Upto(Rounds(low, Abs(s.step), Done)))

(* delete x[i:j:k]: downward slices are turned round first.  The loop      *)
(* deletes at start, start + step - 1, ... as the list closes up behind it.*)
array_delslice(m, s) ==
  LET slclen == var_slice_size(s.start, s.stop, s.step)
      up == s.step > 0
      start == IF up THEN s.start ELSE IF s.step = -1 THEN s.stop + 1
               ELSE s.start + s.step * (slclen - 1)
      stop == IF up THEN s.stop ELSE s.start + 1
      step == Abs(s.step)
      Done(x) == x >= stop
      Drop(x, q) == array_delete_chunk(x, start + (q - 1) * (step - 1), 1)
  IN IF step = 1 THEN array_delete_chunk(m, start, stop - start)
     ELSE FoldLeft(Drop, m, Upto(Rounds(start, step, Done)))

array_setitem(m, p, c) == Replace(m, p + 1, c, << >>)

(* array_indexof_(): the first match from start up to stop, or -1.         *)
array_indexof(m, c, start, stop) ==
  LET hits == {p \in 0..m.size - 1 : p >= start /\ p < stop /\ m.slots[p + 1] = c}
  IN IF m.size = 0 \/ start >= m.size \/ hits = {} THEN -1 ELSE Least(hits)

(* array_reverse() swaps from both ends until low meets high.              *)
array_reverse(m) ==
  LET Swap(x, q) == [x EXCEPT !.slots[q] = x.slots[m.size + 1 - q],
                              !.slots[m.size + 1 - q] = x.slots[q]]
  IN FoldLeft(Swap, m, Upto(m.size \div 2))

-----------------------------------------------------------------------------
(* What a script does *)

(* A script runs, and it is not the end of a program that read memory it   *)
(* does not own.                                                           *)
Runs == /\ stale = "none"
        /\ printing # Nobody => printing.talks

Becomes(m) == /\ Runs
              /\ m.size <= MaxLen
              /\ stale' = m.stale
              /\ IF m.stale = "none" THEN slots' = m.slots /\ size' = m.size /\ refs' = m.refs
                                     ELSE UNCHANGED <<slots, size, refs>>
              /\ UNCHANGED <<lock, printing, iter>>

InsertAt0(at) == IF at < 0 \/ at > size THEN size ELSE at

(* do_array_insert(): an index below zero, compared unsigned, is past the  *)
(* end.  append() inserts at the end; extend() by a list inserts a chunk.  *)
Insert(at, c) == Becomes(array_insert_chunk(Memory, InsertAt0(at), <<c>>, 0, 1))
AppendItem(c) == Becomes(array_insert_chunk(Memory, size, <<c>>, 0, 1))
(* Seeded fault: the fast way of extend() goes round the lock.             *)
Extend_Unlocked(v) == Becomes(insert_chunk(Memory, size, v, 0, SourceSize(Memory, v)))
Extend(v) == Becomes(array_insert_chunk(Memory, size, v, 0, SourceSize(Memory, v)))

(* extend() by anything else traverses it and appends.                     *)
ExtendEach(v) ==
  LET One(x, q) == array_insert_chunk(x, x.size, v, q - 1, 1)
  IN v # Self /\ Becomes(FoldLeft(One, Memory, Upto(Len(v))))

(* delete x[i] comes to the same.                                         *)
Pop(i) == LET p == var_realindex(size, i)
          IN p >= 0 /\ Becomes(array_delete_chunk(Memory, p, 1))
RemoveItem(c) == LET p == array_indexof(Memory, c, 0, size)
                 IN p >= 0 /\ Becomes(array_delete_chunk(Memory, p, 1))
Clear == Becomes(array_delete_chunk(Memory, 0, size))
ReverseItems == Becomes(array_reverse(Memory))

SetItem(i, c) == LET p == var_realindex(size, i)
                 IN p >= 0 /\ Becomes(array_setitem(Memory, p, c))
SetSlice(i, j, k, v) == Becomes(array_setslice(Memory, tup2slice(size, i, j, k), v))
DelSlice(i, j, k) == Becomes(array_delslice(Memory, tup2slice(size, i, j, k)))

(* The list is dropped and the script makes a new one of the items of v.   *)
Renew(v) ==
  /\ Runs /\ ~lock /\ iter.i = Nobody
  /\ LET n == Len(v)
         bare == array_resize([Memory EXCEPT !.slots = << >>], n)
     IN /\ slots' = [p \in DOMAIN bare.slots |-> IF p <= n THEN v[p] ELSE Junk]
        /\ size' = n
        /\ refs' = [c \in Item |-> refs[c] - Cardinality({p \in 1..size : slots[p] = c})
                                            + Cardinality({p \in 1..n : v[p] = c})]
  /\ UNCHANGED <<lock, printing, iter, stale>>

-----------------------------------------------------------------------------
(* Iterators and printing *)

GetIter == /\ Runs /\ iter.i = Nobody
           /\ iter' = [i |-> 0, got |-> Nobody]
           /\ UNCHANGED <<slots, size, refs, lock, printing, stale>>

IterNext ==
  /\ Runs /\ iter.i # Nobody
  /\ iter' = IF iter.i < size THEN [i |-> iter.i + 1, got |-> slots[iter.i + 1]]
                              ELSE [i |-> Nobody, got |-> Nobody]
  /\ UNCHANGED <<slots, size, refs, lock, printing, stale>>

(* array_str() takes the size once.  Printing a list that is locked only   *)
(* says so.                                                                *)
PrintBegins == /\ Runs /\ ~lock
               /\ lock' = TRUE
               /\ printing' = [n |-> size, i |-> 0, talks |-> FALSE]
               /\ UNCHANGED <<slots, size, refs, iter, stale>>

PrintItem ==
  /\ stale = "none" /\ printing # Nobody /\ ~printing.talks /\ printing.i < printing.n
  /\ LET p == printing.i + 1
         there == p \in DOMAIN slots /\ slots[p] # Junk
     IN /\ stale' = IF there THEN "none" ELSE "print"
        /\ printing' = IF there /\ slots[p] \in Talker THEN [printing EXCEPT !.talks = TRUE]
                                                        ELSE [printing EXCEPT !.i = p]
  /\ UNCHANGED <<slots, size, refs, lock, iter>>

ItemPrinted ==
  /\ stale = "none" /\ printing # Nobody /\ printing.talks
  /\ printing' = [printing EXCEPT !.i = @ + 1, !.talks = FALSE]
  /\ UNCHANGED <<slots, size, refs, lock, iter, stale>>

PrintEnds ==
  /\ stale = "none" /\ printing # Nobody /\ ~printing.talks /\ printing.i >= printing.n
  /\ lock' = FALSE /\ printing' = Nobody
  /\ UNCHANGED <<slots, size, refs, iter, stale>>

Init == /\ slots = <<Junk>> /\ size = 0
        /\ refs = [c \in Item |-> IF c \in Shared THEN 1 ELSE 0]
        /\ lock = FALSE /\ printing = Nobody
        /\ iter = [i |-> Nobody, got |-> Nobody]
        /\ stale = "none"

Next == \/ \E c \in Item : AppendItem(c) \/ RemoveItem(c) \/ (\E i \in Index : Insert(i, c) \/ SetItem(i, c))
        \/ \E v \in Given \cup {Self} : Extend(v) \/ ExtendEach(v)
        \/ \E i \in Index : Pop(i)
        \/ Clear \/ ReverseItems \/ \E v \in Given : Renew(v)
        \/ \E i \in Index, j \in Index \cup {Null}, k \in Step :
             DelSlice(i, j, k) \/ \E v \in Given \cup {Self} : SetSlice(i, j, k, v)
        \/ GetIter \/ IterNext
        \/ PrintBegins \/ PrintItem \/ ItemPrinted \/ PrintEnds

Spec == Init /\ [][Next]_vars

-----------------------------------------------------------------------------
(* Properties *)

Values == INSTANCE SliceValues

Slot == Item \cup {Junk}

(* The list has the parts the code gives it; the block has room for the    *)
(* items, what lies beyond them is no item, and it is at most four times   *)
(* what they need (array_resize).                                          *)
TypeOK ==
  /\ slots \in Seq(Slot) /\ size \in 0..MaxLen /\ refs \in [Item -> Nat] /\ lock \in BOOLEAN
  /\ printing # Nobody => printing \in [n : 0..MaxLen, i : 0..MaxLen, talks : BOOLEAN]
  /\ iter \in [i : 0..MaxLen \cup {Nobody}, got : Item \cup {Nobody}]
  /\ stale \in {"none", "self", "print"}
  /\ \A p \in DOMAIN slots : slots[p] = Junk <=> p > size
  /\ size <= Len(slots)
  /\ Len(slots) <= 4 * size \/ Len(slots) = 1

(* The list holds one reference for each place an item has in it, however  *)
(* slices have overwritten, moved and closed up the items.                 *)
ReferencesExact ==
  /\ TypeOK
  /\ \A c \in Item : refs[c] = Cardinality({p \in 1..size : slots[p] = c})
                                + (IF c \in Shared THEN 1 ELSE 0)

Sane(m) == m.stale = "none"

(* The loops and clamps of a slice read, delete and assign what the slice  *)
(* selects (array_getslice, array_setslice, var_slice_size): for all       *)
(* starts, stops and steps, forwards, backwards, out of range and empty.   *)
SlicesAgree ==
  \A i \in Index, j \in Index \cup {Null}, k \in Step :
    LET s == tup2slice(size, i, j, k)
    IN /\ var_slice_size(s.start, s.stop, k) = Cardinality(Values!Selected(size, i, j, k))
       /\ array_getslice(Memory, s) = Values!Slice(Contents, i, j, k)
       /\ Items(array_delslice(Memory, s)) = Values!SliceDeleted(Contents, i, j, k)
       /\ \A v \in Given :
            Items(array_setslice(Memory, s, v)) = Values!SliceAssigned(Contents, i, j, k, v, ~lock)

(* Inserting, extending - by itself too, as long as the block can stay     *)
(* where it is -, reversing and searching do what they do to a sequence.   *)
MethodsAgree ==
  /\ \A v \in Given \cup {Self}, at \in 0..size :
       LET w == IF v = Self THEN Contents ELSE v
           m == array_insert_chunk(Memory, at, v, 0, Len(w))
       IN ~lock /\ Sane(m) /\ (v = Self => at = size) => Items(m) = Values!Spliced(Contents, at, 0, w)
  /\ Items(array_reverse(Memory)) = Reverse(Contents)
  /\ \A c \in Item, start, stop \in 0..size :
       LET p == array_indexof(Memory, c, start, stop)
           hits == SelectInSubSeq(Contents, start + 1, stop, LAMBDA d : d = c)
       IN p = hits - 1

(* All of them: what every operation does to any list, see SliceValues.    *)
OperationsAgree == SlicesAgree /\ MethodsAgree

(* While it is printed the list does not grow, so that its items stay where*)
(* they are in memory, and of the slots printing reads only those are no   *)
(* items that were deleted meanwhile.                                      *)
OverrunOnlyShrunk == stale = "print" => size < printing.n /\ Len(slots) >= size
LockedNeverGrows == [][(lock /\ lock' => size' <= size) /\ OverrunOnlyShrunk']_vars

(* A list that is locked is left alone: "Operation not permitted while     *)
(* object is locked" (err_locked).  The code keeps only insertions away.   *)
PrintReadsItems == stale # "print"

(* A list may be assigned to a part of itself, or extended by itself.      *)
SelfSourceSound == stale # "self"
=============================================================================
