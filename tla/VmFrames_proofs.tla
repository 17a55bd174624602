--------------------------- MODULE VmFrames_proofs ---------------------------
(***************************************************************************)
(* Proofs about VmFrames, for any number of frames and generators and any  *)
(* limits, and whatever a program does: a generator may be asked for an    *)
(* item from within itself.                                                *)
(*                                                                         *)
(* What the functions of the frame allocator keep is Sound, said of their  *)
(* argument and of the frames that are `held`, in nobody's list: those of  *)
(* generators, and those that are on their way from one place to another.  *)
(* What calls and returns keep is Nested; Runs says which generators they  *)
(* are at work for, and what becomes of those that are asked for an item   *)
(* while they are; Counted keeps the recursion counter, from which exit()  *)
(* does not take the loops that it cuts off.                               *)
(***************************************************************************)
EXTENDS VmFrames, SequenceTheorems, FiniteSetTheorems, TLAPS

-----------------------------------------------------------------------------
(* Sequences that stand for lists and stacks.                              *)

(* What is listed in a sequence is what is at one of its indices.          *)
LEMMA ListedIn ==
    ASSUME NEW S, NEW s \in Seq(S)
    PROVE  /\ Len(s) \in Nat /\ DOMAIN s = 1..Len(s) /\ ToSet(s) \subseteq S
           /\ \A i \in 1..Len(s) : s[i] \in ToSet(s)
           /\ \A x \in ToSet(s) : \E i \in 1..Len(s) : s[i] = x
<1>1. Len(s) \in Nat /\ DOMAIN s = 1..Len(s) /\ \A i \in 1..Len(s) : s[i] \in S
  BY LenProperties, ElementOfSeq
<1> QED
  BY <1>1 DEF ToSet

(* An item more at the end (list_add_tail) or at the front (list_add_front). *)
LEMMA ListedLast ==
    ASSUME NEW S, NEW s \in Seq(S), NEW x \in S
    PROVE  /\ Append(s, x) \in Seq(S) /\ Len(Append(s, x)) = Len(s) + 1
           /\ \A i \in 1..Len(s) : Append(s, x)[i] = s[i]
           /\ Append(s, x)[Len(s) + 1] = x
           /\ ToSet(Append(s, x)) = ToSet(s) \cup {x}
           /\ IsInjective(s) /\ x \notin ToSet(s) => IsInjective(Append(s, x))
<1> DEFINE t == Append(s, x)
           n == Len(s)
<1>1. /\ t \in Seq(S) /\ Len(t) = n + 1 /\ t[n + 1] = x
      /\ \A i \in 1..n : t[i] = s[i]
  BY AppendProperties
<1>2. n \in Nat /\ DOMAIN s = 1..n /\ DOMAIN t = 1..(n + 1) /\ 1..(n + 1) = 1..n \cup {n + 1}
  BY <1>1, LenProperties
<1> HIDE DEF t, n
<1>3. ToSet(t) = ToSet(s) \cup {x}
  BY <1>1, <1>2 DEF ToSet
<1>4. IsInjective(s) /\ x \notin ToSet(s) => IsInjective(t)
  BY <1>1, <1>2 DEF ToSet, IsInjective
<1> QED
  BY <1>1, <1>3, <1>4 DEF t, n

(* The first item taken off.                                               *)
LEMMA ListedFirst ==
    ASSUME NEW S, NEW s \in Seq(S), s # << >>
    PROVE  /\ Head(s) \in S /\ Head(s) \in ToSet(s)
           /\ Tail(s) \in Seq(S) /\ Len(Tail(s)) = Len(s) - 1
           /\ IsInjective(s) => /\ ToSet(Tail(s)) = ToSet(s) \ {Head(s)}
                                /\ IsInjective(Tail(s))
<1> DEFINE t == Tail(s)
           n == Len(s)
<1>1. /\ n \in Nat /\ n >= 1 /\ DOMAIN s = 1..n /\ Head(s) = s[1] /\ s[1] \in S
  BY EmptySeq, LenProperties, ElementOfSeq, HeadTailProperties
<1>2. /\ t \in Seq(S) /\ Len(t) = n - 1 /\ \A i \in 1..(n - 1) : t[i] = s[i + 1]
  BY HeadTailProperties
<1>3. DOMAIN t = 1..(n - 1)
  BY <1>2, LenProperties
<1> HIDE DEF t, n
<1>4. /\ \A i \in 1..(n - 1) : i + 1 \in 1..n /\ i + 1 # 1
      /\ \A i \in 1..n : i # 1 => i - 1 \in 1..(n - 1) /\ i - 1 + 1 = i
      /\ \A i, j \in 1..(n - 1) : i + 1 = j + 1 => i = j
  BY <1>1
<1>5. ASSUME IsInjective(s) PROVE ToSet(t) = ToSet(s) \ {s[1]} /\ IsInjective(t)
  <2>1. ASSUME NEW i \in 1..(n - 1) PROVE t[i] \in ToSet(s) \ {s[1]}
    <3>1. i + 1 \in DOMAIN s /\ 1 \in DOMAIN s /\ i + 1 # 1 /\ t[i] = s[i + 1]
      BY <1>1, <1>2, <1>4
    <3>2. s[i + 1] # s[1]
      BY <1>5, <3>1 DEF IsInjective
    <3> QED
      BY <3>1, <3>2 DEF ToSet
  <2>2. ASSUME NEW i \in 1..n, s[i] # s[1] PROVE s[i] \in ToSet(t)
    <3>1. i - 1 \in DOMAIN t /\ t[i - 1] = s[i]
      BY <1>1, <1>2, <1>3, <1>4, <2>2
    <3> QED
      BY <3>1 DEF ToSet
  <2>3. IsInjective(t)
    <3> SUFFICES ASSUME NEW i \in 1..(n - 1), NEW j \in 1..(n - 1), t[i] = t[j] PROVE i = j
      BY <1>3 DEF IsInjective
    <3>1. s[i + 1] = s[j + 1] /\ i + 1 \in DOMAIN s /\ j + 1 \in DOMAIN s
      BY <1>1, <1>2, <1>4
    <3> QED
      BY <1>4, <1>5, <3>1 DEF IsInjective
  <2> QED
    BY <1>1, <1>3, <2>1, <2>2, <2>3 DEF ToSet
<1> QED
  BY <1>1, <1>2, <1>5 DEF t, n, ToSet

(* A sequence that is not empty is what is before its last item and that.  *)
LEMMA FrontAndLast ==
    ASSUME NEW S, NEW s \in Seq(S), s # << >>
    PROVE  /\ Front(s) \in Seq(S) /\ s[Len(s)] \in S /\ s = Append(Front(s), s[Len(s)])
           /\ Len(s) \in Nat /\ Len(s) >= 1 /\ Len(Front(s)) = Len(s) - 1
<1>1. PICK t \in Seq(S), x \in S : s = Append(t, x)
  BY SequenceEmptyOrAppend
<1>2. /\ Len(t) \in Nat /\ Len(s) = Len(t) + 1 /\ s[Len(t) + 1] = x
      /\ \A i \in 1..Len(t) : s[i] = t[i]
  BY <1>1, AppendProperties, LenProperties
<1>3. Front(s) = t
  <2>1. Front(s) = SubSeq(s, 1, Len(t))
    BY <1>2 DEF Front
  <2>2. 1 \in Int /\ Len(t) \in Int /\ (\A i \in 1..Len(t) : s[i] \in S)
    BY <1>2, ElementOfSeq
  <2>3. /\ SubSeq(s, 1, Len(t)) \in Seq(S)
        /\ Len(SubSeq(s, 1, Len(t))) = IF 1 <= Len(t) THEN Len(t) - 1 + 1 ELSE 0
        /\ \A i \in 1..(Len(t) - 1 + 1) : SubSeq(s, 1, Len(t))[i] = s[1 + i - 1]
    BY <2>2, SubSeqProperties
  <2>4. Len(SubSeq(s, 1, Len(t))) = Len(t) /\ \A i \in 1..Len(t) : SubSeq(s, 1, Len(t))[i] = t[i]
    <3>1. Len(t) - 1 + 1 = Len(t) /\ \A i \in 1..Len(t) : 1 + i - 1 = i
      BY <1>2
    <3> QED
      BY <1>2, <2>3, <3>1
  <2> QED
    BY <2>1, <2>3, <2>4, SeqEqual
<1> QED
  BY <1>1, <1>2, <1>3

-----------------------------------------------------------------------------
(* Ranks: of the calls whose frames are active, how many there are up to one. *)

Indices(S, n) == \A j \in S : j \in Int /\ 1 <= j /\ j <= n

(* The indices of a sequence up to n that matter are finitely many.        *)
LEMMA RankType ==
    ASSUME NEW n \in Nat, NEW S, Indices(S, n), NEW i \in Int
    PROVE  /\ IsFiniteSet(S) /\ Cardinality(S) \in Nat
           /\ IsFiniteSet(UpTo(S, i))
           /\ Rank(S, i) \in Nat /\ Rank(S, i) <= Cardinality(S)
<1>1. IsFiniteSet(1..n)
  BY FS_Interval
<1>2. IsFiniteSet(S)
  <2>1. S \in SUBSET (1..n)
    BY DEF Indices
  <2> QED
    BY <1>1, <2>1, FS_Subset
<1>3. UpTo(S, i) \in SUBSET S
  BY DEF UpTo
<1> QED
  BY <1>2, <1>3, FS_Subset, FS_CardinalityType DEF Rank

(* From an index to the next the rank goes up by one where S has a member. *)
LEMMA RankStep ==
    ASSUME NEW n \in Nat, NEW S, Indices(S, n), NEW i \in Int
    PROVE  /\ i \in S => Rank(S, i) = Rank(S, i - 1) + 1
           /\ i \notin S => Rank(S, i) = Rank(S, i - 1)
           /\ i <= 0 => Rank(S, i) = 0
           /\ i >= n => Rank(S, i) = Cardinality(S)
<1>1. i - 1 \in Int
  OBVIOUS
<1>2. IsFiniteSet(UpTo(S, i - 1))
  BY <1>1, RankType
<1>3. i <= 0 => Rank(S, i) = 0
  <2>1. i <= 0 => UpTo(S, i) = {}
    BY DEF UpTo, Indices
  <2> QED
    BY <2>1, FS_EmptySet DEF Rank
<1>4. i >= n => Rank(S, i) = Cardinality(S)
  <2>1. i >= n => UpTo(S, i) = S
    BY DEF UpTo, Indices
  <2> QED
    BY <2>1 DEF Rank
<1>5. i \in S => Rank(S, i) = Rank(S, i - 1) + 1
  <2> SUFFICES ASSUME i \in S PROVE Rank(S, i) = Rank(S, i - 1) + 1
    OBVIOUS
  <2>1. UpTo(S, i) = UpTo(S, i - 1) \cup {i}
    <3>1. \A j \in S : j \in Int
      BY DEF Indices
    <3>2. \A j \in S : j <= i <=> j <= i - 1 \/ j = i
      BY <3>1
    <3> QED
      BY <3>2 DEF UpTo
  <2>2. i \notin UpTo(S, i - 1)
    BY DEF UpTo
  <2> QED
    BY <1>2, <2>1, <2>2, FS_AddElement DEF Rank
<1>6. i \notin S => Rank(S, i) = Rank(S, i - 1)
  <2> SUFFICES ASSUME i \notin S PROVE Rank(S, i) = Rank(S, i - 1)
    OBVIOUS
  <2>1. UpTo(S, i) = UpTo(S, i - 1)
    BY DEF UpTo, Indices
  <2> QED
    BY <2>1 DEF Rank
<1> QED
  BY <1>3, <1>4, <1>5, <1>6

(* A rank goes up at every member.                                         *)
LEMMA RankGrows ==
    ASSUME NEW n \in Nat, NEW S, Indices(S, n), NEW i \in Int, NEW j \in Int, i <= j
    PROVE  /\ Rank(S, i) <= Rank(S, j)
           /\ i < j /\ j \in S => Rank(S, i) < Rank(S, j)
<1>1. \A k \in S : k <= i => k <= j
  BY DEF Indices
<1>2. UpTo(S, i) \in SUBSET UpTo(S, j) /\ IsFiniteSet(UpTo(S, j))
  <2>1. IsFiniteSet(UpTo(S, j))
    BY RankType
  <2> QED
    BY <1>1, <2>1 DEF UpTo
<1>3. i < j /\ j \in S => UpTo(S, i) # UpTo(S, j)
  BY DEF UpTo
<1>4. Rank(S, i) <= Rank(S, j)
  BY <1>2, FS_Subset DEF Rank
<1>5. Rank(S, i) = Rank(S, j) => UpTo(S, i) = UpTo(S, j)
  BY <1>2, FS_Subset DEF Rank
<1> QED
  BY <1>3, <1>4, <1>5, RankType

(* So a member has its own rank, from 1 to the size of S.                  *)
LEMMA RankDistinct ==
    ASSUME NEW n \in Nat, NEW S, Indices(S, n)
    PROVE  /\ \A i \in S : Rank(S, i) \in 1..Cardinality(S)
           /\ \A i, j \in S : Rank(S, i) = Rank(S, j) => i = j
<1>1. \A i \in S : i \in Int /\ i - 1 \in Int
  BY DEF Indices
<1>2. \A i \in S : Rank(S, i) \in 1..Cardinality(S)
  <2> TAKE i \in S
  <2>1. /\ Rank(S, i) \in Nat /\ Rank(S, i) <= Cardinality(S)
        /\ Rank(S, i - 1) \in Nat /\ Cardinality(S) \in Nat
    BY <1>1, RankType
  <2>2. Rank(S, i) = Rank(S, i - 1) + 1
    BY <1>1, RankStep
  <2> QED
    BY <2>1, <2>2
<1>3. \A i, j \in S : Rank(S, i) = Rank(S, j) => i = j
  <2> TAKE i, j \in S
  <2>1. i < j => Rank(S, i) < Rank(S, j)
    BY <1>1, RankGrows
  <2>2. j < i => Rank(S, j) < Rank(S, i)
    BY <1>1, RankGrows
  <2>3. Rank(S, i) \in Nat /\ Rank(S, j) \in Nat
    BY <1>1, RankType
  <2> QED
    BY <1>1, <2>1, <2>2, <2>3
<1> QED
  BY <1>2, <1>3

(* Every number up to the size of S is the rank of one member.             *)
LEMMA RankOnto ==
    ASSUME NEW n \in Nat, NEW S, Indices(S, n), NEW k \in 1..Cardinality(S)
    PROVE  \E i \in S : Rank(S, i) = k
<1>1. IsFiniteSet(S) /\ Cardinality(S) \in Nat
  <2>1. 0 \in Int
    OBVIOUS
  <2> QED
    BY <2>1, RankType
<1>2. /\ IsFiniteSet(1..Cardinality(S))
      /\ Cardinality(1..Cardinality(S)) = Cardinality(S)
  BY <1>1, FS_Interval
<1> DEFINE f == [i \in S |-> Rank(S, i)]
<1>3. f \in [S -> 1..Cardinality(S)]
  BY RankDistinct
<1>4. \A i, j \in S : f[i] = f[j] => i = j
  BY RankDistinct
<1>5. f \in Injection(S, 1..Cardinality(S))
  BY <1>3, <1>4 DEF Injection, IsInjective
<1> HIDE DEF f
<1>6. f \in Surjection(S, 1..Cardinality(S))
  BY <1>1, <1>2, <1>5, FS_Injection
<1>7. \E i \in S : f[i] = k
  BY <1>6 DEF Surjection
<1> QED
  BY <1>7 DEF f
-----------------------------------------------------------------------------

Sound(l, held) ==
    /\ DOMAIN l = {"active", "free", "nr", "heap"}
    /\ l.active \in Seq(Frames) /\ l.free \in Seq(Frames) /\ held \subseteq Frames
    /\ IsInjective(l.active) /\ IsInjective(l.free)
    /\ ToSet(l.active) \cap ToSet(l.free) = {}
    /\ held \cap ToSet(l.active) = {} /\ held \cap ToSet(l.free) = {}
    /\ l.heap = held \cup ToSet(l.active) \cup ToSet(l.free)
    /\ l.nr = Len(l.free) /\ l.nr <= MAX_FREE_FRAMES

Nested(cs, frames, loops) ==
    /\ cs \in Seq(Activation) /\ frames \in Seq(Frames)
    /\ loops = Cardinality(Loops(cs))
    /\ Len(frames) = Cardinality(Normal(cs))
    /\ \A i \in Normal(cs) : frames[Rank(Normal(cs), i)] = cs[i].fr
    /\ \A i, j \in Normal(cs) : i < j => cs[i].sp <= cs[j].base
    /\ \A i \in DOMAIN cs : cs[i].base <= cs[i].sp

(* A loop of a generator is on the frame that this owns, unless the        *)
(* generator is one of those in `re`, asked from within themselves, and    *)
(* another loop of it has ended.  One that is not has one loop at most.    *)
Serves(a, gs, re) ==
    /\ a.gen \in Generators
    /\ \/ gs[a.gen] = [state |-> "STOPPED", frame |-> a.fr]
       \/ a.gen \in re /\ gs[a.gen].state \in {"DONE", "ERROR"}

Runs(cs, gs, re) ==
    /\ \A i \in Normal(cs) : cs[i].gen = None
    /\ \A i \in DOMAIN cs \ Normal(cs) : Serves(cs[i], gs, re)
    /\ \A i, j \in DOMAIN cs \ Normal(cs) : cs[i].gen = cs[j].gen => i = j \/ cs[i].gen \in re

(* How many of the loops that are counted are still in progress.           *)
Depth == recursion_counter - abandoned
Counted == recursion_counter \in Nat /\ abandoned \in Nat /\ recursion_counter <= RECURSION_MAX

Held == Owned \cup lost
GeneratorStates == [state : States, frame : Frames \cup {None}]
OwnersDiffer ==
    \A g, h \in Generators :
        g # h /\ gens[g].state = "STOPPED" /\ gens[h].state = "STOPPED" => gens[g].frame # gens[h].frame

Inv == /\ gens \in [Generators -> GeneratorStates]
       /\ Sound(Lists, Held) /\ lost \cap Owned = {} /\ OwnersDiffer
       /\ Nested(calls, active, Depth) /\ Counted
       /\ Runs(calls, gens, reentered) /\ reentered \subseteq Generators
------------------------------------------------------------------------------
(* Sequences as lists of frames. *)

(* list_remove() of something that is on no list, or is the last of one.   *)
LEMMA RemoveAbsent ==
    ASSUME NEW S, NEW s \in Seq(S), NEW x, x \notin ToSet(s)
    PROVE  RemoveFirst(s, x) = s
BY ListedIn DEF RemoveFirst

LEMMA RemoveLast ==
    ASSUME NEW S, NEW s \in Seq(S), NEW x \in S, x \notin ToSet(s)
    PROVE  RemoveFirst(Append(s, x), x) = s
<1> DEFINE t == Append(s, x)
           n == Len(s) + 1
<1>1. /\ t \in Seq(S) /\ Len(t) = n /\ t[n] = x /\ n \in Nat /\ n \in 1..n
      /\ \A i \in 1..(n - 1) : t[i] = s[i] /\ s[i] # x
  BY AppendProperties, ListedIn
<1> HIDE DEF t, n
<1>2. {i \in 1..Len(t) : t[i] = x} = {n}
  <2>1. \A i \in 1..n : i \in 1..(n - 1) \/ i = n
    BY <1>1
  <2> QED
    BY <1>1, <2>1
<1>3. Min({n}) = n
  BY <1>1 DEF Min
<1>4. RemoveFirst(t, x) = RemoveAt(t, n)
  BY <1>1, <1>2, <1>3 DEF RemoveFirst, SelectInSeq
<1>5. SubSeq(t, 1, n - 1) = s
  <2>1. n - 1 = Len(s) /\ n - 1 \in Nat
    BY <1>1, LenProperties DEF n
  <2>2. /\ SubSeq(t, 1, n - 1) \in Seq(S) /\ Len(SubSeq(t, 1, n - 1)) = n - 1
        /\ \A i \in 1..(n - 1) : SubSeq(t, 1, n - 1)[i] = t[i]
    BY <1>1, <2>1, SubSeqProperties
  <2> QED
    BY <1>1, <2>1, <2>2, SeqEqual
<1>6. SubSeq(t, n + 1, Len(t)) = << >>
  BY <1>1, SubSeqEmpty
<1> QED
  BY <1>4, <1>5, <1>6, ConcatEmptySeq DEF RemoveAt, t
------------------------------------------------------------------------------
(* The allocator. *)

(* A frame from the free list or the heap is nobody else's.                *)
LEMMA GetSound ==
    ASSUME NEW l, NEW held, Sound(l, held), NEW f \in Frames, CanGet(l, f)
    PROVE  LET m == vmframe_get_or_alloc(l, f)
           IN  /\ f \notin held /\ f \notin ToSet(l.active)
               /\ Sound(m, held \cup {f}) /\ m.active = l.active
<1> DEFINE m == vmframe_get_or_alloc(l, f)
<1>1. CASE l.free # << >>
  <2>1. /\ f = Head(l.free) /\ m.active = l.active /\ m.heap = l.heap
        /\ m.free = Tail(l.free) /\ m.nr = l.nr - 1 /\ DOMAIN m = DOMAIN l
    BY <1>1 DEF CanGet, vmframe_get_or_alloc, Sound
  <2>2. l.free \in Seq(Frames) /\ IsInjective(l.free)
    BY DEF Sound
  <2> HIDE DEF m
  <2>3. /\ f \in ToSet(l.free) /\ ToSet(m.free) = ToSet(l.free) \ {f} /\ IsInjective(m.free)
        /\ m.free \in Seq(Frames) /\ Len(m.free) = Len(l.free) - 1
    BY <1>1, <2>1, <2>2, ListedFirst
  <2>4. Len(l.free) \in Nat
    BY LenProperties DEF Sound
  <2> QED
    BY <2>1, <2>4, <2>3, LimitsAssumption DEF Sound, m
<1>2. CASE l.free = << >>
  <2>1. /\ f \notin l.heap /\ m.active = l.active /\ m.free = l.free /\ m.nr = l.nr
        /\ m.heap = l.heap \cup {f} /\ DOMAIN m = DOMAIN l
    BY <1>2 DEF CanGet, vmframe_get_or_alloc, Sound
  <2> QED
    BY <2>1 DEF Sound
<1> QED
  BY <1>1, <1>2

LEMMA AllocSound ==
    ASSUME NEW l, NEW held, Sound(l, held), NEW f \in Frames, CanGet(l, f)
    PROVE  LET m == vmframe_alloc(l, f)
           IN  /\ Sound(m, held) /\ m.active = Append(l.active, f)
               /\ f \notin ToSet(l.active) /\ f \notin held
<1> DEFINE g == vmframe_get_or_alloc(l, f)
           m == vmframe_alloc(l, f)
<1>1. f \notin held /\ f \notin ToSet(l.active) /\ Sound(g, held \cup {f}) /\ g.active = l.active
  BY GetSound
<1> HIDE DEF g
<1>2. /\ m.active = Append(l.active, f) /\ m.free = g.free /\ m.nr = g.nr /\ m.heap = g.heap
      /\ DOMAIN m = DOMAIN g
  BY <1>1 DEF vmframe_alloc, Sound, g
<1>3. /\ m.active \in Seq(Frames) /\ ToSet(m.active) = ToSet(l.active) \cup {f}
      /\ IsInjective(m.active)
  BY <1>1, <1>2, ListedLast DEF Sound
<1> QED
  BY <1>1, <1>2, <1>3 DEF Sound

LEMMA PutSound ==
    ASSUME NEW l, NEW held, NEW f, f \notin held, Sound(l, held \cup {f})
    PROVE  LET m == vmframe_free__(l, f)
           IN  Sound(m, held) /\ m.active = l.active
<1> DEFINE m == vmframe_free__(l, f)
<1>1. f \in Frames /\ f \notin ToSet(l.active) /\ f \notin ToSet(l.free) /\ Len(l.free) \in Nat
  BY LenProperties DEF Sound
<1>2. CASE l.nr >= MAX_FREE_FRAMES
  <2>1. /\ m.active = l.active /\ m.free = l.free /\ m.nr = l.nr /\ m.heap = l.heap \ {f}
        /\ DOMAIN m = DOMAIN l
    BY <1>2 DEF vmframe_free__, Sound
  <2> QED
    BY <1>1, <2>1 DEF Sound
<1>3. CASE ~(l.nr >= MAX_FREE_FRAMES)
  <2>1. /\ m.active = l.active /\ m.free = Append(l.free, f) /\ m.nr = l.nr + 1 /\ m.heap = l.heap
        /\ DOMAIN m = DOMAIN l
    BY <1>3 DEF vmframe_free__, Sound
  <2>2. /\ m.free \in Seq(Frames) /\ Len(m.free) = Len(l.free) + 1
        /\ ToSet(m.free) = ToSet(l.free) \cup {f} /\ IsInjective(m.free)
    BY <1>1, <2>1, ListedLast DEF Sound
  <2>3. m.nr <= MAX_FREE_FRAMES
    BY <1>1, <1>3, <2>1, LimitsAssumption DEF Sound
  <2> QED
    BY <1>1, <2>1, <2>2, <2>3 DEF Sound
<1> QED
  BY <1>2, <1>3

(* Freeing the frame that was activated last, or one that is a generator's. *)
LEMMA FreeLastSound ==
    ASSUME NEW l, NEW held, Sound(l, held), NEW s \in Seq(Frames), NEW f \in Frames,
           l.active = Append(s, f)
    PROVE  LET m == vmframe_free(l, f)
           IN  Sound(m, held) /\ m.active = s
<1> DEFINE u == Unlinked(l, f)
<1>1. f \notin ToSet(s)
  <2>1. /\ Len(l.active) = Len(s) + 1 /\ l.active[Len(s) + 1] = f
        /\ \A i \in 1..Len(s) : l.active[i] = s[i]
    BY ListedLast
  <2>2. /\ Len(s) \in Nat /\ DOMAIN l.active = 1..(Len(s) + 1)
        /\ Len(s) + 1 \in 1..(Len(s) + 1)
        /\ \A i \in 1..Len(s) : i \in 1..(Len(s) + 1) /\ i # Len(s) + 1
    BY <2>1, LenProperties DEF Sound
  <2>3. \A i \in 1..Len(s) : s[i] # f
    BY <2>1, <2>2 DEF IsInjective, Sound
  <2> QED
    BY <2>3, ListedIn
<1>2. ToSet(l.active) = ToSet(s) \cup {f} /\ f \notin ToSet(l.free) /\ f \notin held
  BY ListedLast DEF Sound
<1>3. RemoveFirst(l.active, f) = s /\ RemoveFirst(l.free, f) = l.free
  BY <1>1, <1>2, RemoveLast, RemoveAbsent DEF Sound
<1>4. /\ u.active = s /\ u.free = l.free /\ u.nr = l.nr /\ u.heap = l.heap /\ DOMAIN u = DOMAIN l
  BY <1>3 DEF Unlinked, Sound
<1>5. IsInjective(s)
  <2>1. /\ Len(s) \in Nat /\ DOMAIN s = 1..Len(s) /\ DOMAIN l.active = 1..(Len(s) + 1)
        /\ \A i \in 1..Len(s) : l.active[i] = s[i] /\ i \in 1..(Len(s) + 1)
    BY ListedLast, LenProperties DEF Sound
  <2> QED
    BY <2>1 DEF IsInjective, Sound
<1> HIDE DEF u
<1>6. Sound(u, held \cup {f})
  BY <1>1, <1>2, <1>4, <1>5 DEF Sound
<1>7. Sound(vmframe_free__(u, f), held) /\ vmframe_free__(u, f).active = u.active
  BY <1>2, <1>6, PutSound
<1> QED
  BY <1>4, <1>7 DEF vmframe_free, u

LEMMA FreeHeldSound ==
    ASSUME NEW l, NEW held, NEW f, f \notin held, Sound(l, held \cup {f})
    PROVE  LET m == vmframe_free(l, f)
           IN  Sound(m, held) /\ m.active = l.active
<1> DEFINE u == Unlinked(l, f)
<1>1. RemoveFirst(l.active, f) = l.active /\ RemoveFirst(l.free, f) = l.free
  BY RemoveAbsent DEF Sound
<1>2. /\ u.active = l.active /\ u.free = l.free /\ u.nr = l.nr /\ u.heap = l.heap
      /\ DOMAIN u = DOMAIN l
  BY <1>1 DEF Unlinked, Sound
<1> HIDE DEF u
<1>3. Sound(u, held \cup {f})
  BY <1>2 DEF Sound
<1>4. Sound(vmframe_free__(u, f), held) /\ vmframe_free__(u, f).active = u.active
  BY <1>3, PutSound
<1> QED
  BY <1>2, <1>4 DEF vmframe_free, u

(* Two lists one after the other.                                          *)
LEMMA ListedBoth ==
    ASSUME NEW S, NEW s \in Seq(S), NEW t \in Seq(S), IsInjective(s), IsInjective(t),
           ToSet(s) \cap ToSet(t) = {}
    PROVE  /\ s \o t \in Seq(S) /\ Len(s \o t) = Len(s) + Len(t)
           /\ ToSet(s \o t) = ToSet(s) \cup ToSet(t) /\ IsInjective(s \o t)
<1> DEFINE u == s \o t
           m == Len(s)
           n == Len(t)
<1>1. /\ m \in Nat /\ n \in Nat /\ DOMAIN s = 1..m /\ DOMAIN t = 1..n
      /\ u \in Seq(S) /\ Len(u) = m + n /\ DOMAIN u = 1..(m + n)
      /\ \A i \in 1..(m + n) : u[i] = IF i <= m THEN s[i] ELSE t[i - m]
  BY ConcatProperties, LenProperties
<1> HIDE DEF u, m, n
<1>2. \A i \in 1..(m + n) : i <= m => i \in 1..m /\ u[i] = s[i] /\ u[i] \in ToSet(s)
  <2> SUFFICES ASSUME NEW i \in 1..(m + n), i <= m
               PROVE  i \in 1..m /\ u[i] = s[i] /\ u[i] \in ToSet(s)
    OBVIOUS
  <2>1. i \in 1..m /\ u[i] = s[i]
    BY <1>1
  <2> QED
    BY <1>1, <2>1 DEF ToSet
<1>3. \A i \in 1..(m + n) : ~(i <= m) => i - m \in 1..n /\ u[i] = t[i - m] /\ u[i] \in ToSet(t)
  <2> SUFFICES ASSUME NEW i \in 1..(m + n), ~(i <= m)
               PROVE  i - m \in 1..n /\ u[i] = t[i - m] /\ u[i] \in ToSet(t)
    OBVIOUS
  <2>1. i - m \in 1..n /\ u[i] = t[i - m]
    BY <1>1
  <2> QED
    BY <1>1, <2>1 DEF ToSet
<1>4. ASSUME NEW x \in ToSet(s) PROVE x \in ToSet(u)
  <2>1. PICK i \in 1..m : s[i] = x
    BY <1>1 DEF ToSet
  <2>2. i \in 1..(m + n) /\ i <= m
    BY <1>1
  <2> QED
    BY <1>1, <2>1, <2>2 DEF ToSet
<1>5. ASSUME NEW x \in ToSet(t) PROVE x \in ToSet(u)
  <2>1. PICK i \in 1..n : t[i] = x
    BY <1>1 DEF ToSet
  <2>2. i + m \in 1..(m + n) /\ ~(i + m <= m) /\ i + m - m = i
    BY <1>1
  <2>3. i + m \in DOMAIN u /\ u[i + m] = x
    BY <1>1, <2>1, <2>2
  <2> QED
    BY <2>3 DEF ToSet
<1>6. ToSet(u) = ToSet(s) \cup ToSet(t)
  <2>1. \A i \in 1..(m + n) : u[i] \in ToSet(s) \cup ToSet(t)
    BY <1>2, <1>3
  <2>2. ToSet(u) \subseteq ToSet(s) \cup ToSet(t)
    BY <1>1, <2>1 DEF ToSet
  <2> QED
    BY <1>4, <1>5, <2>2
<1>7. IsInjective(u)
  <2> SUFFICES ASSUME NEW i \in 1..(m + n), NEW j \in 1..(m + n), u[i] = u[j] PROVE i = j
    BY <1>1 DEF IsInjective
  <2>1. CASE i <= m
    <3>1. j <= m
      BY <1>2, <1>3, <2>1
    <3> QED
      BY <1>1, <1>2, <2>1, <3>1 DEF IsInjective
  <2>2. CASE ~(i <= m)
    <3>1. ~(j <= m)
      BY <1>2, <1>3, <2>2
    <3>2. i - m = j - m
      BY <1>1, <1>3, <2>2, <3>1 DEF IsInjective
    <3> QED
      BY <1>1, <3>2
  <2> QED
    BY <2>1, <2>2
<1> QED
  BY <1>1, <1>6, <1>7 DEF u, m, n

(* The last k items, last first.                                           *)
LEMMA ListedBack ==
    ASSUME NEW S, NEW s \in Seq(S), IsInjective(s), NEW k \in Nat, k <= Len(s)
    PROVE  LET t == SubSeq(Reverse(s), 1, k)
               rest == {s[i] : i \in 1..(Len(s) - k)}
           IN  /\ t \in Seq(S) /\ Len(t) = k /\ IsInjective(t)
               /\ ToSet(s) = ToSet(t) \cup rest /\ ToSet(t) \cap rest = {}
<1> DEFINE n == Len(s)
           t == SubSeq(Reverse(s), 1, k)
           rest == {s[i] : i \in 1..(n - k)}
<1>1. n \in Nat /\ DOMAIN s = 1..n /\ \A i \in 1..n : s[i] \in S
  BY LenProperties, ElementOfSeq
<1>2. \A i \in 1..k : i \in 1..n /\ n - i + 1 \in 1..n
  BY <1>1
<1>3. \A i \in 1..n : Reverse(s)[i] = s[n - i + 1]
  BY DEF Reverse
<1>4. /\ t \in Seq(S) /\ Len(t) = k
      /\ \A i \in 1..k : t[i] = s[n - i + 1]
  <2>1. \A i \in 1..k : Reverse(s)[i] \in S
    BY <1>1, <1>2, <1>3
  <2>2. 1 \in Int /\ k \in Int /\ k - 1 + 1 = k /\ (1 <= k \/ k = 0)
        /\ \A i \in 1..k : 1 + i - 1 = i
    OBVIOUS
  <2>3. /\ t \in Seq(S) /\ Len(t) = IF 1 <= k THEN k - 1 + 1 ELSE 0
        /\ \A i \in 1..(k - 1 + 1) : t[i] = Reverse(s)[1 + i - 1]
    BY <2>1, <2>2, SubSeqProperties
  <2> QED
    BY <1>2, <1>3, <2>2, <2>3
<1>5. DOMAIN t = 1..k
  BY <1>4, LenProperties
<1> HIDE DEF t, n
<1>6. IsInjective(t)
  <2> SUFFICES ASSUME NEW i \in 1..k, NEW j \in 1..k, t[i] = t[j] PROVE i = j
    BY <1>5 DEF IsInjective
  <2>1. n - i + 1 = n - j + 1
    BY <1>1, <1>2, <1>4 DEF IsInjective
  <2> QED
    BY <1>1, <2>1
<1>7. ASSUME NEW x \in ToSet(t) PROVE x \in ToSet(s) /\ x \notin rest
  <2>1. PICK i \in 1..k : x = s[n - i + 1]
    BY <1>4, <1>5, <1>7 DEF ToSet
  <2>2. \A j \in 1..(n - k) : j \in 1..n /\ j # n - i + 1
    BY <1>1
  <2> QED
    BY <1>1, <1>2, <2>1, <2>2 DEF ToSet, IsInjective
<1>8. ASSUME NEW x \in ToSet(s), x \notin rest PROVE x \in ToSet(t)
  <2>1. PICK j \in 1..n : x = s[j]
    BY <1>1 DEF ToSet
  <2>2. j \notin 1..(n - k)
    BY <1>8, <2>1
  <2>3. n - j + 1 \in 1..k /\ n - (n - j + 1) + 1 = j
    BY <1>1, <2>2
  <2>4. n - j + 1 \in DOMAIN t /\ t[n - j + 1] = x
    BY <1>4, <1>5, <2>1, <2>3
  <2> QED
    BY <2>4 DEF ToSet
<1>9. rest \subseteq ToSet(s)
  <2>1. 1..(n - k) \subseteq 1..n
    BY <1>1
  <2> QED
    BY <1>1, <2>1 DEF ToSet
<1> QED
  BY <1>4, <1>6, <1>7, <1>8, <1>9 DEF t, n

LEMMA ExitSound ==
    ASSUME NEW l, NEW held, Sound(l, held)
    PROVE  LET m == vm_clear_frames_for_exit(l)
           IN  Sound(m, held) /\ m.active = << >>
<1> DEFINE n == Len(l.active)
           room == MAX_FREE_FRAMES - l.nr
           kept == Min({n, room})
           back == SubSeq(Reverse(l.active), 1, kept)
           rest == {l.active[i] : i \in 1..(n - kept)}
           m == vm_clear_frames_for_exit(l)
<1>1. n \in Nat /\ Len(l.free) \in Nat /\ l.nr = Len(l.free) /\ room \in Nat
  BY LenProperties, LimitsAssumption DEF Sound
<1>2. kept \in Nat /\ kept <= n /\ kept <= room
  <2> HIDE DEF n, room
  <2>1. \E x \in {n, room} : \A y \in {n, room} : x <= y
    BY <1>1
  <2>2. kept \in {n, room} /\ \A y \in {n, room} : kept <= y
    BY <2>1 DEF Min
  <2> QED
    BY <1>1, <2>2
<1>3. /\ m.active = << >> /\ m.free = l.free \o back /\ m.nr = l.nr + kept
      /\ m.heap = l.heap \ rest /\ DOMAIN m = {"active", "free", "nr", "heap"}
  BY DEF vm_clear_frames_for_exit
<1> HIDE DEF m, kept
<1>4. /\ back \in Seq(Frames) /\ Len(back) = kept /\ IsInjective(back)
      /\ ToSet(l.active) = ToSet(back) \cup rest /\ ToSet(back) \cap rest = {}
  BY <1>2, ListedBack DEF Sound
<1> HIDE DEF back, rest, n
<1>5. /\ m.free \in Seq(Frames) /\ Len(m.free) = l.nr + kept
      /\ ToSet(m.free) = ToSet(l.free) \cup ToSet(back) /\ IsInjective(m.free)
  BY <1>1, <1>3, <1>4, ListedBoth DEF Sound
<1>6. /\ << >> \in Seq(Frames) /\ ToSet(<< >>) = {} /\ IsInjective(<< >>)
  BY DEF ToSet, IsInjective
<1>7. l.nr + kept <= MAX_FREE_FRAMES
  BY <1>1, <1>2, LimitsAssumption DEF room
<1> QED
  BY <1>3, <1>4, <1>5, <1>6, <1>7 DEF Sound, m
------------------------------------------------------------------------------
(* Calls. *)

LEMMA CallIndices ==
    ASSUME NEW cs \in Seq(Activation)
    PROVE  /\ Len(cs) \in Nat /\ DOMAIN cs = 1..Len(cs)
           /\ Indices(Normal(cs), Len(cs)) /\ Indices(Loops(cs), Len(cs))
           /\ IsFiniteSet(Normal(cs)) /\ Cardinality(Normal(cs)) \in Nat
           /\ IsFiniteSet(Loops(cs)) /\ Cardinality(Loops(cs)) \in Nat
<1>1. Len(cs) \in Nat /\ DOMAIN cs = 1..Len(cs)
  BY LenProperties
<1>2. Indices(Normal(cs), Len(cs)) /\ Indices(Loops(cs), Len(cs))
  BY <1>1 DEF Indices, Normal, Loops
<1>3. 0 \in Int
  OBVIOUS
<1> QED
  BY <1>1, <1>2, <1>3, RankType

(* What one call more, a, does to the counts.                              *)
Deeper(cs, ds, a, n) ==
    /\ cs \in Seq(Activation) /\ Len(cs) = n /\ cs[n] = a /\ n \in 1..n
    /\ DOMAIN cs = 1..n /\ DOMAIN ds = 1..(n - 1) /\ n - 1 \in Nat
    /\ \A i \in 1..(n - 1) : cs[i] = ds[i] /\ i # n /\ i \in 1..n
    /\ \A i \in 1..n : i # n => i \in 1..(n - 1)
    /\ Cardinality(Loops(cs)) = IF a.kind # "builtin" THEN Cardinality(Loops(ds)) + 1
                                ELSE Cardinality(Loops(ds))
    /\ IF a.kind # "generator"
       THEN /\ Cardinality(Normal(cs)) = Cardinality(Normal(ds)) + 1
            /\ Normal(cs) = Normal(ds) \cup {n}
            /\ Rank(Normal(cs), n) = Cardinality(Normal(cs))
       ELSE Normal(cs) = Normal(ds)
    /\ \A i \in Normal(ds) : i \in 1..(n - 1) /\ Rank(Normal(cs), i) = Rank(Normal(ds), i)

LEMMA OneDeeper ==
    ASSUME NEW ds \in Seq(Activation), NEW a \in Activation
    PROVE  Deeper(Append(ds, a), ds, a, Len(ds) + 1)
<1> DEFINE cs == Append(ds, a)
           n == Len(ds) + 1
<1>1. /\ cs \in Seq(Activation) /\ Len(cs) = n /\ cs[n] = a
      /\ \A i \in 1..Len(ds) : cs[i] = ds[i]
  BY AppendProperties, LenProperties
<1>2. /\ DOMAIN cs = 1..n /\ DOMAIN ds = 1..(n - 1) /\ n - 1 \in Nat /\ Len(ds) = n - 1
      /\ n \in 1..n /\ n \in Int /\ n >= n /\ n \in Nat
      /\ \A i \in 1..(n - 1) : i # n /\ i \in 1..n
      /\ \A i \in 1..n : i # n => i \in 1..(n - 1)
  BY <1>1, LenProperties
<1> HIDE DEF cs, n
<1>3. /\ Loops(cs) = IF a.kind # "builtin" THEN Loops(ds) \cup {n} ELSE Loops(ds)
      /\ Normal(cs) = IF a.kind # "generator" THEN Normal(ds) \cup {n} ELSE Normal(ds)
      /\ n \notin Loops(ds) /\ n \notin Normal(ds)
  BY <1>1, <1>2 DEF Loops, Normal
<1>4. a.kind # "builtin" => Cardinality(Loops(cs)) = Cardinality(Loops(ds)) + 1
  BY <1>3, CallIndices, FS_AddElement
<1>5. a.kind # "generator" => Cardinality(Normal(cs)) = Cardinality(Normal(ds)) + 1
  BY <1>3, CallIndices, FS_AddElement
<1>6. Rank(Normal(cs), n) = Cardinality(Normal(cs))
  BY <1>1, <1>2, CallIndices, RankStep
<1>7. ASSUME NEW i \in Normal(ds) PROVE i \in 1..(n - 1) /\ Rank(Normal(cs), i) = Rank(Normal(ds), i)
  <2>1. i \in 1..(n - 1) /\ i <= n - 1 /\ i \in Int /\ \A j \in Normal(ds) : j \in Int
    BY <1>2 DEF Normal
  <2>2. UpTo(Normal(cs), i) = UpTo(Normal(ds), i)
    BY <1>2, <1>3, <2>1 DEF UpTo
  <2> QED
    BY <2>1, <2>2 DEF Rank
<1> QED
  BY <1>1, <1>2, <1>3, <1>4, <1>5, <1>6, <1>7 DEF Deeper, cs, n

LEMMA PushNested ==
    ASSUME NEW ds, NEW frames, NEW loops, Nested(ds, frames, loops),
           NEW a \in Activation, a.base <= a.sp,
           a.kind # "generator" => \A i \in Normal(ds) : ds[i].sp <= a.base
    PROVE  Nested(Append(ds, a),
                  IF a.kind # "generator" THEN Append(frames, a.fr) ELSE frames,
                  IF a.kind # "builtin" THEN loops + 1 ELSE loops)
<1> DEFINE cs == Append(ds, a)
           n == Len(ds) + 1
           now == IF a.kind # "generator" THEN Append(frames, a.fr) ELSE frames
<1>1. ds \in Seq(Activation) /\ frames \in Seq(Frames) /\ a.fr \in Frames
  BY DEF Nested, Activation
<1>2. Deeper(cs, ds, a, n)
  BY <1>1, OneDeeper
<1> HIDE DEF cs, n
<1> USE DEF Deeper
<1>3. \A i \in Normal(ds) : /\ i \in 1..(n - 1)
                            /\ Rank(Normal(ds), i) \in 1..Len(frames)
  BY <1>1, <1>2, CallIndices, RankDistinct DEF Nested, Normal
<1>4. /\ Len(frames) \in Nat
      /\ Append(frames, a.fr) \in Seq(Frames) /\ Len(Append(frames, a.fr)) = Len(frames) + 1
      /\ Append(frames, a.fr)[Len(frames) + 1] = a.fr
      /\ \A i \in 1..Len(frames) : Append(frames, a.fr)[i] = frames[i]
  BY <1>1, AppendProperties, LenProperties
<1>5. /\ now \in Seq(Frames) /\ Len(now) = Cardinality(Normal(cs))
      /\ \A i \in 1..Len(frames) : now[i] = frames[i]
      /\ a.kind # "generator" => now[Cardinality(Normal(cs))] = a.fr
  BY <1>1, <1>2, <1>4 DEF Nested
<1> HIDE DEF now
<1>6. ASSUME NEW i \in Normal(cs) PROVE now[Rank(Normal(cs), i)] = cs[i].fr
  <2>1. CASE i \in Normal(ds)
    BY <1>2, <1>3, <1>5, <2>1 DEF Nested
  <2>2. CASE i \notin Normal(ds)
    BY <1>2, <1>5, <2>2
  <2> QED
    BY <2>1, <2>2
<1>7. ASSUME NEW i \in Normal(cs), NEW j \in Normal(cs), i < j PROVE cs[i].sp <= cs[j].base
  <2>1. CASE j \in Normal(ds)
    <3>1. i \in Normal(ds)
      BY <1>2, <1>3, <1>7, <2>1
    <3> QED
      BY <1>2, <1>3, <1>7, <2>1, <3>1 DEF Nested
  <2>2. CASE j \notin Normal(ds)
    <3>1. j = n /\ a.kind # "generator" /\ i \in Normal(ds)
      BY <1>2, <1>7, <2>2
    <3> QED
      BY <1>2, <1>3, <3>1
  <2> QED
    BY <2>1, <2>2
<1>8. \A i \in DOMAIN cs : cs[i].base <= cs[i].sp
  BY <1>2 DEF Nested
<1>9. Cardinality(Loops(cs)) = IF a.kind # "builtin" THEN loops + 1 ELSE loops
  BY <1>2 DEF Nested
<1>10. Nested(cs, now, Cardinality(Loops(cs)))
  BY <1>2, <1>5, <1>6, <1>7, <1>8 DEF Nested
<1> QED
  BY <1>9, <1>10 DEF cs, now

LEMMA PopNested ==
    ASSUME NEW cs, NEW frames, NEW loops, Nested(cs, frames, loops), cs # << >>,
           NEW a, a = cs[Len(cs)]
    PROVE  /\ a \in Activation
           /\ a.kind # "generator" => /\ Front(frames) \in Seq(Frames)
                                      /\ frames = Append(Front(frames), a.fr)
           /\ Nested(Front(cs), IF a.kind # "generator" THEN Front(frames) ELSE frames,
                     IF a.kind # "builtin" THEN loops - 1 ELSE loops)
<1> DEFINE ds == Front(cs)
           n == Len(ds) + 1
           now == IF a.kind # "generator" THEN Front(frames) ELSE frames
<1>1. /\ cs \in Seq(Activation) /\ ds \in Seq(Activation) /\ a \in Activation
      /\ cs = Append(ds, a) /\ frames \in Seq(Frames)
  BY FrontAndLast DEF Nested
<1>2. Deeper(cs, ds, a, n)
  BY <1>1, OneDeeper
<1> HIDE DEF ds, n
<1> USE DEF Deeper
<1>3. /\ Cardinality(Normal(ds)) \in Nat /\ Cardinality(Loops(ds)) \in Nat
      /\ \A i \in Normal(ds) : Rank(Normal(ds), i) \in 1..Cardinality(Normal(ds))
  BY <1>1, CallIndices, RankDistinct
<1>4. ASSUME a.kind # "generator"
      PROVE  /\ Front(frames) \in Seq(Frames) /\ frames = Append(Front(frames), a.fr)
             /\ Len(Front(frames)) = Cardinality(Normal(ds))
             /\ \A i \in 1..Len(Front(frames)) : Front(frames)[i] = frames[i]
  <2>1. Len(frames) = Cardinality(Normal(ds)) + 1 /\ frames[Len(frames)] = a.fr
    BY <1>2, <1>4 DEF Nested
  <2>2. frames # << >>
    BY <1>3, <2>1, EmptySeq
  <2> DEFINE before == Front(frames)
  <2>3. /\ before \in Seq(Frames) /\ frames = Append(before, a.fr)
        /\ Len(before) = Len(frames) - 1 /\ a.fr \in Frames
    BY <1>1, <2>1, <2>2, FrontAndLast
  <2> HIDE DEF before
  <2>4. Len(before) = Cardinality(Normal(ds)) /\ \A i \in 1..Len(before) : before[i] = frames[i]
    BY <1>3, <2>1, <2>3, AppendProperties
  <2> QED
    BY <2>3, <2>4 DEF before
<1>5. /\ now \in Seq(Frames) /\ Len(now) = Cardinality(Normal(ds))
      /\ \A i \in 1..Len(now) : now[i] = frames[i]
  BY <1>1, <1>2, <1>4 DEF Nested
<1> HIDE DEF now
<1>6. Normal(ds) \subseteq Normal(cs)
  BY <1>2
<1>7. \A i \in Normal(ds) : now[Rank(Normal(ds), i)] = ds[i].fr
  <2> TAKE i \in Normal(ds)
  <2>1. frames[Rank(Normal(cs), i)] = cs[i].fr
    BY <1>6 DEF Nested
  <2> QED
    BY <1>2, <1>3, <1>5, <2>1
<1>8. /\ \A i, j \in Normal(ds) : i < j => ds[i].sp <= ds[j].base
      /\ \A i \in DOMAIN ds : ds[i].base <= ds[i].sp
  BY <1>2, <1>6 DEF Nested
<1>9. Cardinality(Loops(ds)) = IF a.kind # "builtin" THEN loops - 1 ELSE loops
  BY <1>2, <1>3 DEF Nested
<1>10. Nested(ds, now, Cardinality(Loops(ds)))
  BY <1>1, <1>5, <1>7, <1>8 DEF Nested
<1> QED
  BY <1>1, <1>4, <1>9, <1>10 DEF ds, now

(* The caller's operands.                                                  *)
LEMMA SuspendNested ==
    ASSUME NEW frames, NEW loops, Nested(calls, frames, loops), NEW grow \in 1..2
    PROVE  LET s == Suspended(grow)
           IN  /\ Nested(s, frames, loops) /\ Len(s) = Len(calls) /\ Normal(s) = Normal(calls)
               /\ DOMAIN s = DOMAIN calls
               /\ \A i \in DOMAIN calls : /\ s[i].gen = calls[i].gen /\ s[i].fr = calls[i].fr
                                          /\ s[i].kind = calls[i].kind
<1> DEFINE s == Suspended(grow)
           n == Len(calls)
<1>1. CASE calls = << >>
  BY <1>1 DEF Suspended
<1>2. CASE calls # << >>
  <2> DEFINE a == [calls[n] EXCEPT !.sp = calls[n].base + grow]
  <2>1. /\ n \in Nat /\ n \in 1..n /\ DOMAIN calls = 1..n /\ calls \in Seq(Activation)
        /\ calls[n] \in Activation
    BY <1>2, FrontAndLast, LenProperties DEF Nested
  <2>2. /\ a \in Activation /\ a.kind = calls[n].kind /\ a.fr = calls[n].fr
        /\ a.gen = calls[n].gen /\ a.base = calls[n].base /\ a.base <= a.sp
    <3>1. calls[n].base \in Nat
      BY <2>1 DEF Activation
    <3>2. calls[n].base + grow \in Nat /\ calls[n].base <= calls[n].base + grow
      BY <3>1
    <3> QED
      BY <2>1, <3>2 DEF Activation
  <2> HIDE DEF a
  <2>3. s = [calls EXCEPT ![n] = a]
    BY <1>2 DEF Suspended, a
  <2>4. /\ s \in Seq(Activation) /\ Len(s) = n /\ DOMAIN s = 1..n /\ s[n] = a
        /\ \A i \in 1..n : i # n => s[i] = calls[i]
    BY <2>1, <2>2, <2>3, ExceptSeq, LenProperties
  <2> HIDE DEF s
  <2>5. \A i \in 1..n : /\ s[i].kind = calls[i].kind /\ s[i].fr = calls[i].fr
                        /\ s[i].gen = calls[i].gen /\ s[i].base = calls[i].base
                        /\ s[i].base <= s[i].sp
    BY <2>1, <2>2, <2>4 DEF Nested
  <2>6. Normal(s) = Normal(calls) /\ Loops(s) = Loops(calls)
    BY <2>1, <2>4, <2>5 DEF Normal, Loops
  <2>7. ASSUME NEW i \in Normal(s), NEW j \in Normal(s), i < j PROVE s[i].sp <= s[j].base
    <3>1. i \in 1..n /\ j \in 1..n
      BY <2>4 DEF Normal
    <3>2. i # n
      <4>1. \A k \in Nat : \A x, y \in 1..k : x < y => x # k
        OBVIOUS
      <4> QED
        BY <2>1, <2>7, <3>1, <4>1
    <3> QED
      BY <2>4, <2>5, <2>6, <2>7, <3>1, <3>2 DEF Nested
  <2>8. \A i \in Normal(s) : frames[Rank(Normal(s), i)] = s[i].fr
    BY <2>4, <2>5, <2>6 DEF Nested, Normal
  <2>9. Nested(s, frames, loops)
    BY <2>4, <2>5, <2>6, <2>7, <2>8 DEF Nested
  <2> QED
    BY <2>1, <2>4, <2>5, <2>6, <2>9 DEF s
<1> QED
  BY <1>1, <1>2

(* A new frame's stack begins behind those of all the calls before it: in  *)
(* particular the innermost active frame is that of the last call that is  *)
(* on the VM's stack.                                                      *)
LEMMA StackBehind ==
    ASSUME NEW s, NEW loops, Nested(s, active, loops), IsInjective(active)
    PROVE  /\ StackFor(s) \in Nat
           /\ \A i \in Normal(s) : s[i].sp <= StackFor(s)
<1> DEFINE n == Len(s)
           c == Cardinality(Normal(s))
<1>1. /\ s \in Seq(Activation) /\ active \in Seq(Frames) /\ n \in Nat /\ DOMAIN s = 1..n
      /\ Indices(Normal(s), n) /\ c \in Nat /\ Len(active) = c /\ IsFiniteSet(Normal(s))
      /\ DOMAIN active = 1..c
  BY CallIndices, LenProperties DEF Nested
<1>2. \A i \in Normal(s) : i \in 1..n /\ s[i].sp \in Nat /\ s[i].base \in Nat
  <2>1. \A i \in 1..n : s[i] \in Activation
    BY <1>1, ElementOfSeq
  <2>2. \A i \in Normal(s) : i \in 1..n
    BY <1>1 DEF Normal
  <2> QED
    BY <2>1, <2>2 DEF Activation
<1>3. ASSUME NEW m \in Normal(s), \A i \in Normal(s) : i <= m
      PROVE  \A i \in Normal(s) : s[i].sp <= s[m].sp
  <2> TAKE i \in Normal(s)
  <2>1. CASE i = m
    BY <1>2, <2>1
  <2>2. CASE i # m
    <3>1. i < m
      BY <1>2, <1>3, <2>2
    <3>2. s[i].sp <= s[m].base /\ s[m].base <= s[m].sp
      BY <3>1 DEF Nested, Normal
    <3> QED
      BY <1>2, <3>2
  <2> QED
    BY <2>1, <2>2
<1>4. CASE active = << >>
  <2>1. c = 0
    BY <1>1, <1>4
  <2>2. Normal(s) = {}
    BY <1>1, <2>1, FS_EmptySet
  <2> QED
    BY <1>4, <2>2 DEF StackFor
<1>5. CASE active # << >> /\ s[n].kind # "generator"
  <2>1. c # 0
    BY <1>1, <1>5, EmptySeq
  <2>2. n \in Normal(s) /\ \A i \in Normal(s) : i <= n
    <3>1. Normal(s) # {}
      BY <2>1, FS_EmptySet
    <3>2. n \in 1..n
      BY <1>1, <1>2, <3>1
    <3> QED
      BY <1>1, <1>2, <1>5, <3>2 DEF Normal
  <2>3. StackFor(s) = s[n].sp
    BY <1>5 DEF StackFor
  <2> QED
    BY <1>2, <1>3, <2>2, <2>3
<1>6. CASE active # << >> /\ s[n].kind = "generator"
  <2>1. c # 0 /\ c \in 1..c
    BY <1>1, <1>6, EmptySeq
  <2>2. PICK m \in Normal(s) : Rank(Normal(s), m) = c
    BY <1>1, <2>1, RankOnto
  <2>3. vm_current_frame = active[c] /\ s[m].fr = vm_current_frame
    BY <1>1, <2>2 DEF vm_current_frame, Nested
  <2> DEFINE Top(i) == s[i].fr = vm_current_frame /\ s[i].kind # "generator"
             top == CHOOSE i \in DOMAIN s : Top(i)
  <2>4. top \in DOMAIN s /\ Top(top)
    <3>1. \E i \in DOMAIN s : Top(i)
      BY <2>2, <2>3 DEF Normal
    <3> QED
      BY <3>1
  <2>5. StackFor(s) = s[top].sp
    BY <1>6 DEF StackFor
  <2> HIDE DEF top
  <2>6. top \in Normal(s) /\ s[top].fr = active[c]
    BY <2>3, <2>4 DEF Normal
  <2>7. Rank(Normal(s), top) = c
    <3>1. active[Rank(Normal(s), top)] = active[c] /\ Rank(Normal(s), top) \in 1..c
      BY <1>1, <2>6, RankDistinct DEF Nested
    <3> QED
      BY <1>1, <2>1, <3>1 DEF IsInjective
  <2>8. ASSUME NEW i \in Normal(s) PROVE i <= top
    <3>1. i \in Int /\ top \in Int
      BY <1>2, <2>6
    <3>2. ~(top < i)
      <4>1. top < i => Rank(Normal(s), top) < Rank(Normal(s), i)
        BY <1>1, <3>1, RankGrows
      <4>2. Rank(Normal(s), i) \in 1..c
        BY <1>1, RankDistinct
      <4> QED
        BY <1>1, <2>7, <4>1, <4>2
    <3> QED
      BY <3>1, <3>2
  <2> QED
    BY <1>2, <1>3, <2>5, <2>6, <2>8
<1> QED
  BY <1>4, <1>5, <1>6
------------------------------------------------------------------------------
(* Generators and the calls that run them. *)

LEMMA RunsAlike ==
    ASSUME NEW cs, NEW ds, NEW gs, NEW re, Runs(cs, gs, re),
           DOMAIN ds = DOMAIN cs, Normal(ds) = Normal(cs),
           \A i \in DOMAIN cs : ds[i].gen = cs[i].gen /\ ds[i].fr = cs[i].fr
    PROVE  Runs(ds, gs, re)
<1>1. \A i \in Normal(cs) : i \in DOMAIN cs
  BY DEF Normal
<1> QED
  BY <1>1 DEF Runs, Serves

(* A generator is asked from within itself.                                *)
LEMMA RunsAsked ==
    ASSUME NEW cs, NEW gs, NEW re, NEW more, Runs(cs, gs, re), re \subseteq more
    PROVE  Runs(cs, gs, more)
BY DEF Runs, Serves

(* A generator ends, of which the loops in progress are at least two.      *)
LEMMA RunsEnded ==
    ASSUME NEW cs, NEW gs \in [Generators -> GeneratorStates], NEW re, Runs(cs, gs, re),
           NEW g \in Generators, NEW how \in {"DONE", "ERROR"},
           \A i \in DOMAIN cs \ Normal(cs) : cs[i].gen = g => g \in re
    PROVE  Runs(cs, [gs EXCEPT ![g].state = how], re)
<1> DEFINE now == [gs EXCEPT ![g].state = how]
<1>1. now[g].state = how /\ \A h \in Generators : h # g => now[h] = gs[h]
  BY DEF GeneratorStates
<1> HIDE DEF now
<1>2. ASSUME NEW i \in DOMAIN cs \ Normal(cs) PROVE Serves(cs[i], now, re)
  BY <1>1 DEF Runs, Serves
<1> QED
  BY <1>2 DEF Runs, now

LEMMA RunsPush ==
    ASSUME NEW ds \in Seq(Activation), NEW gs, NEW re, Runs(ds, gs, re), NEW a \in Activation,
           IF a.kind # "generator" THEN a.gen = None
           ELSE /\ Serves(a, gs, re)
                /\ \A i \in DOMAIN ds : ds[i].gen = a.gen => a.gen \in re
    PROVE  Runs(Append(ds, a), gs, re)
<1> DEFINE cs == Append(ds, a)
           n == Len(ds) + 1
<1>1. Deeper(cs, ds, a, n)
  BY OneDeeper
<1> HIDE DEF cs, n
<1>2. /\ DOMAIN cs = 1..n /\ DOMAIN ds = 1..(n - 1) /\ cs[n] = a /\ n \in 1..n
      /\ \A i \in 1..n : i # n => i \in 1..(n - 1) /\ cs[i] = ds[i]
      /\ Normal(cs) = IF a.kind # "generator" THEN Normal(ds) \cup {n} ELSE Normal(ds)
      /\ Normal(ds) \subseteq 1..(n - 1) /\ n \notin 1..(n - 1)
  BY <1>1 DEF Deeper
<1>3. \A i \in Normal(cs) : cs[i].gen = None
  BY <1>2 DEF Runs
<1>4. \A i \in DOMAIN cs \ Normal(cs) :
        IF i = n THEN a.kind = "generator" /\ cs[i] = a
        ELSE i \in DOMAIN ds \ Normal(ds) /\ cs[i] = ds[i]
  BY <1>2
<1>5. \A i \in DOMAIN cs \ Normal(cs) : Serves(cs[i], gs, re)
  BY <1>4 DEF Runs
<1>6. ASSUME NEW i \in DOMAIN cs \ Normal(cs), NEW j \in DOMAIN cs \ Normal(cs),
             cs[i].gen = cs[j].gen
      PROVE  i = j \/ cs[i].gen \in re
  BY <1>4, <1>6 DEF Runs
<1> QED
  BY <1>3, <1>5, <1>6 DEF Runs, cs

LEMMA RunsPop ==
    ASSUME NEW cs \in Seq(Activation), NEW gs, NEW re, Runs(cs, gs, re), cs # << >>,
           NEW a, a = cs[Len(cs)]
    PROVE  /\ Runs(Front(cs), gs, re)
           /\ a.kind = "generator" =>
                /\ Serves(a, gs, re)
                /\ \A i \in DOMAIN Front(cs) \ Normal(Front(cs)) :
                      Front(cs)[i].gen = a.gen => a.gen \in re
<1> DEFINE ds == Front(cs)
           n == Len(ds) + 1
<1>1. ds \in Seq(Activation) /\ a \in Activation /\ cs = Append(ds, a)
  BY FrontAndLast
<1>2. Deeper(cs, ds, a, n)
  BY <1>1, OneDeeper
<1> HIDE DEF ds, n
<1>3. /\ DOMAIN cs = 1..n /\ DOMAIN ds = 1..(n - 1) /\ cs[n] = a /\ n \in 1..n
      /\ \A i \in 1..(n - 1) : i # n /\ i \in 1..n /\ cs[i] = ds[i]
      /\ Normal(cs) = IF a.kind # "generator" THEN Normal(ds) \cup {n} ELSE Normal(ds)
      /\ Normal(ds) \subseteq 1..(n - 1)
  BY <1>2 DEF Deeper
<1>4. \A i \in DOMAIN ds \ Normal(ds) : i \in DOMAIN cs \ Normal(cs) /\ cs[i] = ds[i] /\ i # n
  BY <1>3
<1>5. Runs(ds, gs, re)
  BY <1>3, <1>4 DEF Runs
<1>6. a.kind = "generator" => n \in DOMAIN cs \ Normal(cs)
  BY <1>3
<1> QED
  BY <1>3, <1>4, <1>5, <1>6 DEF Runs, ds

LEMMA OwnedLess ==
    ASSUME gens \in [Generators -> GeneratorStates], OwnersDiffer,
           NEW g \in Generators, NEW now \in GeneratorStates, now.state # "STOPPED",
           gens' = [gens EXCEPT ![g] = now]
    PROVE  /\ gens' \in [Generators -> GeneratorStates] /\ OwnersDiffer'
           /\ Owned' = IF gens[g].state = "STOPPED" THEN Owned \ {gens[g].frame} ELSE Owned
<1>1. /\ gens' \in [Generators -> GeneratorStates] /\ gens'[g] = now
      /\ \A h \in Generators : h # g => gens'[h] = gens[h]
  OBVIOUS
<1>2. \A h \in Generators : gens'[h].state = "STOPPED" <=> h # g /\ gens[h].state = "STOPPED"
  BY <1>1
<1>3. OwnersDiffer'
  BY <1>1, <1>2 DEF OwnersDiffer
<1>4. Owned' = {gens[h].frame : h \in {x \in Generators \ {g} : gens[x].state = "STOPPED"}}
  BY <1>1, <1>2 DEF Owned
<1>5. CASE gens[g].state = "STOPPED"
  BY <1>4, <1>5, <1>1, <1>3 DEF Owned, OwnersDiffer
<1>6. CASE gens[g].state # "STOPPED"
  BY <1>4, <1>6, <1>1, <1>3 DEF Owned
<1> QED
  BY <1>5, <1>6

LEMMA OwnedMore ==
    ASSUME gens \in [Generators -> GeneratorStates], OwnersDiffer,
           NEW g \in Generators, gens[g].state = "none", NEW f \in Frames, f \notin Owned,
           gens' = [gens EXCEPT ![g] = [state |-> "STOPPED", frame |-> f]]
    PROVE  /\ gens' \in [Generators -> GeneratorStates] /\ OwnersDiffer'
           /\ Owned' = Owned \cup {f}
<1>1. [state |-> "STOPPED", frame |-> f] \in GeneratorStates
  BY DEF GeneratorStates, States
<1>2. /\ gens' \in [Generators -> GeneratorStates]
      /\ gens'[g] = [state |-> "STOPPED", frame |-> f]
      /\ \A h \in Generators : h # g => gens'[h] = gens[h]
  BY <1>1
<1>3. \A h \in Generators : gens'[h].state = "STOPPED" <=> h = g \/ gens[h].state = "STOPPED"
  BY <1>2
<1>4. \A h \in Generators : gens[h].state = "STOPPED" => gens[h].frame # f
  BY DEF Owned
<1>5. OwnersDiffer'
  BY <1>2, <1>3, <1>4 DEF OwnersDiffer
<1>6. \A x : x \in Owned' <=> x \in Owned \/ x = f
  BY <1>2, <1>3 DEF Owned
<1> QED
  BY <1>2, <1>5, <1>6
------------------------------------------------------------------------------
(* The steps. *)

LEMMA ListsSet ==
    ASSUME NEW m, NEW held, Sound(m, held), SetLists(m)
    PROVE  Sound(Lists', held) /\ active' = m.active
BY DEF Sound, SetLists, Lists

(* A call that fails before its function begins leaves all as it was, but  *)
(* for the free list and the heap.                                         *)
LEMMA Refused ==
    ASSUME Inv, NEW f \in Frames, CanGet(Lists, f), EnterFails(f)
    PROVE  Sound(Lists', Held) /\ active' = active /\ calls' = calls
<1> DEFINE called == vmframe_alloc(Lists, f)
           m == vmframe_free(called, f)
<1>1. Sound(Lists, Held) /\ active \in Seq(Frames) /\ Lists.active = active
  BY DEF Inv, Held, Nested, Lists
<1>2. Sound(called, Held) /\ called.active = Append(active, f)
  BY <1>1, AllocSound
<1> HIDE DEF called
<1>3. Sound(m, Held) /\ m.active = active
  BY <1>1, <1>2, FreeLastSound
<1>4. SetLists(m) /\ calls' = calls
  BY DEF EnterFails, m, called
<1> HIDE DEF m
<1> QED
  BY <1>3, <1>4, ListsSet

LEMMA Entered ==
    ASSUME Inv, NEW f \in Frames, NEW kind \in {"user", "builtin"}, NEW grow \in 1..2,
           CanGet(Lists, f), Enter(kind, f, grow)
    PROVE  /\ Sound(Lists', Held) /\ Runs(calls', gens, reentered)
           /\ Nested(calls', active', IF kind = "user" THEN Depth + 1 ELSE Depth)
<1> DEFINE m == vmframe_alloc(Lists, f)
           s == Suspended(grow)
           a == [kind |-> kind, fr |-> f, gen |-> None, base |-> StackFor(s), sp |-> StackFor(s)]
<1>1. /\ Sound(Lists, Held) /\ Nested(calls, active, Depth) /\ Runs(calls, gens, reentered)
      /\ Lists.active = active /\ IsInjective(active)
  BY DEF Inv, Held, Lists, Sound
<1>2. Sound(m, Held) /\ m.active = Append(active, f)
  BY <1>1, AllocSound
<1>3. SetLists(m) /\ calls' = Append(s, a)
  BY DEF Enter
<1> HIDE DEF m
<1>4. Sound(Lists', Held) /\ active' = Append(active, f)
  BY <1>2, <1>3, ListsSet
<1>5. /\ Nested(s, active, Depth) /\ DOMAIN s = DOMAIN calls
      /\ Normal(s) = Normal(calls)
      /\ \A i \in DOMAIN calls : s[i].gen = calls[i].gen /\ s[i].fr = calls[i].fr
  BY <1>1, SuspendNested
<1> HIDE DEF s
<1>6. StackFor(s) \in Nat /\ \A i \in Normal(s) : s[i].sp <= StackFor(s)
  BY <1>1, <1>5, StackBehind
<1>7. /\ a \in Activation /\ a.base = StackFor(s) /\ a.base <= a.sp /\ a.gen = None
      /\ a.kind = kind /\ a.fr = f
  BY <1>6 DEF Activation, Kinds
<1> HIDE DEF a
<1>8. Nested(Append(s, a), Append(active, f), IF kind = "user" THEN Depth + 1 ELSE Depth)
  <2>1. a.kind # "generator" /\ (a.kind # "builtin" <=> kind = "user")
    BY <1>7
  <2> QED
    BY <1>5, <1>6, <1>7, <2>1, PushNested
<1>9. Runs(s, gens, reentered)
  BY <1>1, <1>5, RunsAlike
<1>10. Runs(Append(s, a), gens, reentered)
  <2>1. s \in Seq(Activation) /\ a.kind # "generator"
    BY <1>5, <1>7 DEF Nested
  <2> QED
    BY <1>7, <1>9, <2>1, RunsPush
<1> QED
  BY <1>3, <1>4, <1>8, <1>10

(* A loop more or less.                                                    *)
LEMMA CountedUp ==
    ASSUME Counted, ~(recursion_counter >= RECURSION_MAX), abandoned' = abandoned,
           recursion_counter' = recursion_counter + 1
    PROVE  Counted' /\ Depth' = Depth + 1
BY LimitsAssumption DEF Counted, Depth

LEMMA CountedDown ==
    ASSUME Counted, abandoned' = abandoned, recursion_counter' = recursion_counter - 1,
           NEW cs, NEW frames, Nested(cs, frames, Depth - 1)
    PROVE  Counted' /\ Depth' = Depth - 1
<1>1. Depth - 1 \in Nat
  BY CallIndices DEF Nested
<1> QED
  BY <1>1, LimitsAssumption DEF Counted, Depth

LEMMA CallStep ==
    ASSUME Inv, CallUser \/ CallBuiltin \/ CallRejected, history' = history
    PROVE  Inv'
<1>1. gens' = gens /\ Owned' = Owned /\ lost' = lost /\ reentered' = reentered /\ abandoned' = abandoned
  BY DEF CallUser, CallBuiltin, CallRejected, Owned, history
<1>2. ASSUME NEW f \in Frames, CanGet(Lists, f), EnterFails(f), recursion_counter' = recursion_counter
      PROVE  Inv'
  BY <1>1, <1>2, Refused DEF Inv, Held, OwnersDiffer, Counted, Depth
<1>3. ASSUME NEW f \in Frames, NEW grow \in 1..2, CanGet(Lists, f),
             \/ /\ Enter("user", f, grow) /\ recursion_counter' = recursion_counter + 1
                /\ ~(recursion_counter >= RECURSION_MAX)
             \/ Enter("builtin", f, grow) /\ recursion_counter' = recursion_counter
      PROVE  Inv'
  <2>1. CASE Enter("user", f, grow) /\ recursion_counter' = recursion_counter + 1
             /\ ~(recursion_counter >= RECURSION_MAX)
    <3>1. Counted' /\ Depth' = Depth + 1
      BY <1>1, <2>1, CountedUp DEF Inv
    <3> QED
      BY <1>1, <1>3, <2>1, <3>1, Entered DEF Inv, Held, OwnersDiffer
  <2>2. CASE Enter("builtin", f, grow) /\ recursion_counter' = recursion_counter
    <3>1. Counted' /\ Depth' = Depth
      BY <1>1, <2>2 DEF Inv, Counted, Depth
    <3> QED
      BY <1>1, <1>3, <2>2, <3>1, Entered DEF Inv, Held, OwnersDiffer
  <2> QED
    BY <1>3, <2>1, <2>2
<1>4. CASE CallUser
  BY <1>2, <1>3, <1>4 DEF CallUser, Calling
<1>5. CASE CallBuiltin
  BY <1>3, <1>5 DEF CallBuiltin, Calling
<1>6. CASE CallRejected
  BY <1>2, <1>6 DEF CallRejected, Calling
<1> QED
  BY <1>4, <1>5, <1>6

LEMMA GeneratorFunctionStep ==
    ASSUME Inv, CallGeneratorFunction, history' = history
    PROVE  Inv'
<1>1. /\ lost' = lost /\ reentered' = reentered /\ recursion_counter' = recursion_counter
      /\ Depth' = Depth /\ Counted'
  BY DEF CallGeneratorFunction, history, Depth, Inv, Counted
<1>2. PICK f \in Frames, copy \in Frames, g \in Generators :
        /\ CanGet(Lists, f) /\ gens[g].state = "none"
        /\ LET called == vmframe_alloc(Lists, f)
           IN  IF recursion_counter >= RECURSION_MAX
               THEN SetLists(vmframe_free(called, f)) /\ UNCHANGED gens
               ELSE /\ CanGet(called, copy)
                    /\ SetLists(vmframe_free(vmframe_get_or_alloc(called, copy), f))
                    /\ gens' = [gens EXCEPT ![g] = [state |-> "STOPPED", frame |-> copy]]
        /\ UNCHANGED <<calls, recursion_counter>>
  BY DEF CallGeneratorFunction, Calling
<1>3. CASE recursion_counter >= RECURSION_MAX
  <2>1. EnterFails(f) /\ gens' = gens
    BY <1>2, <1>3 DEF EnterFails
  <2>2. Owned' = Owned
    BY <2>1 DEF Owned
  <2> QED
    BY <1>2, <1>1, <2>1, <2>2, Refused DEF Inv, Held, OwnersDiffer
<1>4. CASE ~(recursion_counter >= RECURSION_MAX)
  <2> DEFINE called == vmframe_alloc(Lists, f)
             both == vmframe_get_or_alloc(called, copy)
             m == vmframe_free(both, f)
  <2>1. Sound(Lists, Held) /\ active \in Seq(Frames) /\ Lists.active = active
    BY DEF Inv, Held, Nested, Lists
  <2>2. Sound(called, Held) /\ called.active = Append(active, f)
    BY <1>2, <2>1, AllocSound
  <2>3. /\ CanGet(called, copy) /\ SetLists(m)
        /\ gens' = [gens EXCEPT ![g] = [state |-> "STOPPED", frame |-> copy]]
        /\ UNCHANGED <<calls, recursion_counter>> /\ gens[g].state = "none"
    BY <1>2, <1>4
  <2> HIDE DEF called
  <2>4. copy \notin Held /\ Sound(both, Held \cup {copy}) /\ both.active = Append(active, f)
    BY <2>2, <2>3, GetSound
  <2> HIDE DEF both
  <2>5. Sound(m, Held \cup {copy}) /\ m.active = active
    BY <2>1, <2>4, FreeLastSound
  <2> HIDE DEF m
  <2>6. Sound(Lists', Held \cup {copy}) /\ active' = active
    BY <2>3, <2>5, ListsSet
  <2>7. /\ gens' \in [Generators -> GeneratorStates] /\ OwnersDiffer' /\ Owned' = Owned \cup {copy}
    BY <2>3, <2>4, OwnedMore DEF Inv, Held
  <2>8. Runs(calls, gens', reentered)
    <3>1. ASSUME NEW i \in DOMAIN calls \ Normal(calls) PROVE calls[i].gen # g
      <4>1. \/ gens[calls[i].gen] = [state |-> "STOPPED", frame |-> calls[i].fr]
            \/ gens[calls[i].gen].state \in {"DONE", "ERROR"}
        BY DEF Inv, Runs, Serves
      <4>2. gens[calls[i].gen].state # "none"
        BY <4>1
      <4> QED
        BY <2>3, <4>2
    <3>2. \A h \in Generators : h # g => gens'[h] = gens[h]
      BY <2>3 DEF Inv
    <3>3. ASSUME NEW i \in DOMAIN calls \ Normal(calls) PROVE Serves(calls[i], gens', reentered)
      BY <3>1, <3>2 DEF Inv, Runs, Serves
    <3> QED
      BY <3>3 DEF Inv, Runs
  <2>9. Held' = Held \cup {copy} /\ lost' \cap Owned' = {}
    BY <1>1, <2>4, <2>7 DEF Inv, Held
  <2> QED
    BY <1>1, <2>3, <2>6, <2>7, <2>8, <2>9 DEF Inv, Held
<1> QED
  BY <1>3, <1>4

LEMMA ReturnStep ==
    ASSUME Inv, Return, history' = history
    PROVE  Inv'
<1> DEFINE a == calls[Len(calls)]
           m == vmframe_free(Lists, a.fr)
<1>1. lost' = lost /\ reentered' = reentered /\ abandoned' = abandoned
  BY DEF history
<1>2. /\ calls # << >> /\ a.kind \in {"user", "builtin"} /\ SetLists(m)
      /\ calls' = Front(calls) /\ gens' = gens
      /\ recursion_counter' = IF a.kind # "builtin" THEN recursion_counter - 1
                              ELSE recursion_counter
  BY DEF Return, Running, Callers
<1> HIDE DEF a
<1>3. /\ a \in Activation /\ a.kind # "generator"
      /\ Front(active) \in Seq(Frames) /\ active = Append(Front(active), a.fr)
      /\ Nested(Front(calls), Front(active), IF a.kind # "builtin" THEN Depth - 1 ELSE Depth)
  BY <1>2, PopNested DEF Inv, a
<1>4. Sound(Lists, Held) /\ Lists.active = active /\ a.fr \in Frames
  BY <1>3 DEF Inv, Held, Lists, Activation
<1>5. Sound(m, Held) /\ m.active = Front(active)
  BY <1>3, <1>4, FreeLastSound
<1> HIDE DEF m
<1>6. Sound(Lists', Held) /\ active' = Front(active)
  BY <1>2, <1>5, ListsSet
<1>7. Runs(Front(calls), gens, reentered)
  BY <1>2, RunsPop DEF Inv, Nested, a
<1>8. Counted' /\ Depth' = IF a.kind # "builtin" THEN Depth - 1 ELSE Depth
  <2>1. CASE a.kind # "builtin"
    <3>1. Nested(Front(calls), Front(active), Depth - 1) /\ recursion_counter' = recursion_counter - 1
      BY <1>2, <1>3, <2>1
    <3> QED
      BY <1>1, <2>1, <3>1, CountedDown DEF Inv
  <2>2. CASE a.kind = "builtin"
    BY <1>2, <1>1, <2>2 DEF Inv, Counted, Depth
  <2> QED
    BY <2>1, <2>2
<1>9. Owned' = Owned /\ OwnersDiffer'
  BY <1>2 DEF Owned, OwnersDiffer, Inv
<1> QED
  BY <1>2, <1>3, <1>6, <1>7, <1>8, <1>9, <1>1 DEF Inv, Held

(* A generator's frame is given back, as it ends or cannot go on.          *)
LEMMA OwnedFreed ==
    ASSUME Inv, NEW g \in Generators, gens[g].state = "STOPPED",
           NEW how \in {"DONE", "ERROR"}, gens' = [gens EXCEPT ![g].state = how],
           SetLists(vmframe_free(Lists, gens[g].frame)), lost' = lost
    PROVE  /\ Sound(Lists', Held') /\ active' = active /\ lost' \cap Owned' = {}
           /\ OwnersDiffer' /\ gens' \in [Generators -> GeneratorStates]
<1> DEFINE f == gens[g].frame
           m == vmframe_free(Lists, f)
           now == [gens[g] EXCEPT !.state = how]
<1>1. now \in GeneratorStates /\ now.state # "STOPPED" /\ gens' = [gens EXCEPT ![g] = now]
  BY DEF Inv, GeneratorStates, States
<1> HIDE DEF now
<1>2. /\ gens' \in [Generators -> GeneratorStates] /\ OwnersDiffer' /\ Owned' = Owned \ {f}
  BY <1>1, OwnedLess DEF Inv
<1>3. f \in Owned /\ f \notin lost
  BY DEF Owned, Inv
<1>4. Held = Held' \cup {f} /\ f \notin Held'
  BY <1>2, <1>3 DEF Held
<1> HIDE DEF f
<1>5. Sound(m, Held') /\ m.active = Lists.active
  <2>1. Sound(Lists, Held' \cup {f})
    BY <1>4 DEF Inv, Held
  <2> QED
    BY <1>4, <2>1, FreeHeldSound
<1>6. SetLists(m) /\ Lists.active = active
  BY DEF m, f, Lists
<1> HIDE DEF m
<1> QED
  BY <1>2, <1>5, <1>6, ListsSet DEF Inv

LEMMA ResumeStep ==
    ASSUME Inv, Resume, UNCHANGED <<lost, abandoned>>
    PROVE  Inv'
<1>1. PICK g \in Generators, grow \in 1..2 :
        /\ gens[g].state = "STOPPED"
        /\ reentered' = IF Executing(g) THEN reentered \cup {g} ELSE reentered
        /\ IF recursion_counter >= RECURSION_MAX
           THEN /\ SetLists(vmframe_free(Lists, gens[g].frame))
                /\ gens' = [gens EXCEPT ![g].state = "ERROR"]
                /\ UNCHANGED <<calls, recursion_counter>>
           ELSE /\ calls' = Append(Suspended(grow), [kind |-> "generator", fr |-> gens[g].frame,
                                                     gen |-> g, base |-> 0, sp |-> 0])
                /\ recursion_counter' = recursion_counter + 1
                /\ UNCHANGED <<active, free, nr_free_frames, heap, gens>>
  BY DEF Resume
<1>2. /\ reentered \subseteq reentered' /\ reentered' \subseteq Generators
      /\ \A i \in DOMAIN calls : calls[i].gen = g => g \in reentered'
  BY <1>1 DEF Inv, Executing
<1>3. Runs(calls, gens, reentered')
  BY <1>2, RunsAsked DEF Inv
<1>4. CASE recursion_counter >= RECURSION_MAX
  <2>1. /\ SetLists(vmframe_free(Lists, gens[g].frame))
        /\ gens' = [gens EXCEPT ![g].state = "ERROR"]
        /\ UNCHANGED <<calls, recursion_counter>>
    BY <1>1, <1>4
  <2>2. /\ Sound(Lists', Held') /\ active' = active /\ lost' \cap Owned' = {}
        /\ OwnersDiffer' /\ gens' \in [Generators -> GeneratorStates]
    BY <1>1, <2>1, OwnedFreed
  <2>3. Runs(calls, gens', reentered')
    BY <1>2, <1>3, <2>1, RunsEnded DEF Inv
  <2>4. Counted' /\ Depth' = Depth
    BY <2>1 DEF Inv, Counted, Depth
  <2> QED
    BY <1>2, <2>1, <2>2, <2>3, <2>4 DEF Inv, Held
<1>5. CASE ~(recursion_counter >= RECURSION_MAX)
  <2> DEFINE s == Suspended(grow)
             a == [kind |-> "generator", fr |-> gens[g].frame, gen |-> g, base |-> 0, sp |-> 0]
  <2>1. /\ calls' = Append(s, a) /\ recursion_counter' = recursion_counter + 1
        /\ UNCHANGED <<active, free, nr_free_frames, heap, gens>>
    BY <1>1, <1>5
  <2>2. /\ Nested(s, active, Depth) /\ DOMAIN s = DOMAIN calls
        /\ Normal(s) = Normal(calls)
        /\ \A i \in DOMAIN calls : s[i].gen = calls[i].gen /\ s[i].fr = calls[i].fr
    BY SuspendNested DEF Inv
  <2> HIDE DEF s
  <2>3. gens[g].frame \in Frames /\ gens[g] = [state |-> "STOPPED", frame |-> gens[g].frame]
    <3>1. gens[g].frame \in Owned
      BY <1>1 DEF Owned
    <3> QED
      BY <1>1, <3>1 DEF Inv, Held, Sound, GeneratorStates
  <2>4. /\ a \in Activation /\ a.kind = "generator" /\ a.gen = g /\ a.fr = gens[g].frame
        /\ a.base <= a.sp
    BY <2>3 DEF Activation, Kinds
  <2> HIDE DEF a
  <2>5. Nested(Append(s, a), active, Depth + 1)
    BY <2>2, <2>4, PushNested
  <2>6. Runs(Append(s, a), gens, reentered')
    <3>1. Runs(s, gens, reentered') /\ s \in Seq(Activation)
      BY <1>3, <2>2, RunsAlike DEF Nested
    <3>2. \A i \in DOMAIN s : s[i].gen = a.gen => a.gen \in reentered'
      BY <1>2, <2>2, <2>4
    <3>3. Serves(a, gens, reentered')
      BY <2>3, <2>4 DEF Serves
    <3> QED
      BY <2>4, <3>1, <3>2, <3>3, RunsPush
  <2>7. Counted' /\ Depth' = Depth + 1
    BY <1>5, <2>1, CountedUp DEF Inv
  <2>8. Lists' = Lists /\ Owned' = Owned /\ OwnersDiffer'
    BY <2>1 DEF Lists, Owned, Inv, OwnersDiffer
  <2> QED
    BY <1>2, <2>1, <2>5, <2>6, <2>7, <2>8 DEF Inv, Held
<1> QED
  BY <1>4, <1>5

LEMMA YieldStep ==
    ASSUME Inv, Yield, history' = history
    PROVE  Inv'
<1> DEFINE a == calls[Len(calls)]
<1>1. lost' = lost /\ reentered' = reentered /\ abandoned' = abandoned
  BY DEF history
<1>2. /\ calls # << >> /\ a.kind = "generator"
      /\ calls' = Front(calls) /\ recursion_counter' = recursion_counter - 1
      /\ UNCHANGED <<active, free, nr_free_frames, heap, gens>>
  BY DEF Yield, Running, Callers
<1> HIDE DEF a
<1>3. Nested(Front(calls), active, Depth - 1)
  BY <1>2, PopNested DEF Inv, a
<1>4. Runs(Front(calls), gens, reentered)
  BY <1>2, RunsPop DEF Inv, Nested, a
<1>5. Counted' /\ Depth' = Depth - 1
  BY <1>2, <1>3, <1>1, CountedDown DEF Inv
<1>6. Lists' = Lists /\ Owned' = Owned /\ OwnersDiffer'
  BY <1>2 DEF Lists, Owned, Inv, OwnersDiffer
<1> QED
  BY <1>2, <1>3, <1>4, <1>5, <1>6, <1>1 DEF Inv, Held

(* A loop that has its frame ends; other loops of the same generator lose  *)
(* theirs.                                                                 *)
LEMMA GeneratorEndsStep ==
    ASSUME Inv, ~Unframed, GeneratorEnds, history' = history
    PROVE  Inv'
<1> DEFINE a == calls[Len(calls)]
<1>1. lost' = lost /\ reentered' = reentered /\ abandoned' = abandoned
  BY DEF history
<1>2. calls # << >> /\ a.kind = "generator" => gens[a.gen].state = "STOPPED"
  BY DEF Unframed, Running
<1>3. /\ calls # << >> /\ a.kind = "generator" /\ SetLists(vmframe_free(Lists, a.fr))
      /\ calls' = Front(calls) /\ recursion_counter' = recursion_counter - 1
      /\ \E how \in {"DONE", "ERROR"} : gens' = [gens EXCEPT ![a.gen].state = how]
  BY DEF GeneratorEnds, Running, Callers
<1> HIDE DEF a
<1>4. Nested(Front(calls), active, Depth - 1)
  BY <1>3, PopNested DEF Inv, a
<1>5. /\ Runs(Front(calls), gens, reentered) /\ Serves(a, gens, reentered)
      /\ \A i \in DOMAIN Front(calls) \ Normal(Front(calls)) :
            Front(calls)[i].gen = a.gen => a.gen \in reentered
  BY <1>3, RunsPop DEF Inv, Nested, a
<1>6. /\ Sound(Lists', Held') /\ active' = active /\ lost' \cap Owned' = {}
      /\ OwnersDiffer' /\ gens' \in [Generators -> GeneratorStates]
  <2>1. a.gen \in Generators /\ gens[a.gen].state = "STOPPED" /\ gens[a.gen].frame = a.fr
    BY <1>3, <1>5, <1>2 DEF Serves
  <2> QED
    BY <1>3, <1>1, <2>1, OwnedFreed
<1>7. Runs(Front(calls), gens', reentered)
  <2>1. PICK how \in {"DONE", "ERROR"} : gens' = [gens EXCEPT ![a.gen].state = how]
    BY <1>3
  <2>2. a.gen \in Generators /\ gens \in [Generators -> GeneratorStates]
    BY <1>5 DEF Inv, Serves
  <2> QED
    BY <1>5, <2>1, <2>2, RunsEnded
<1>8. Counted' /\ Depth' = Depth - 1
  BY <1>3, <1>4, <1>1, CountedDown DEF Inv
<1> QED
  BY <1>3, <1>4, <1>6, <1>7, <1>8, <1>1 DEF Inv, Held

LEMMA DropStep ==
    ASSUME Inv, Drop, abandoned' = abandoned
    PROVE  Inv'
<1>1. PICK g \in Generators :
        /\ gens[g].state # "none" /\ ~Executing(g)
        /\ gens' = [gens EXCEPT ![g] = NoGenerator]
        /\ lost' = IF gens[g].state = "STOPPED" THEN lost \cup {gens[g].frame} ELSE lost
        /\ reentered' = reentered \ {g}
        /\ UNCHANGED <<active, free, nr_free_frames, heap, calls, recursion_counter>>
  BY DEF Drop
<1>2. NoGenerator \in GeneratorStates /\ NoGenerator.state # "STOPPED"
  BY DEF NoGenerator, GeneratorStates, States
<1>3. /\ gens' \in [Generators -> GeneratorStates] /\ OwnersDiffer'
      /\ Owned' = IF gens[g].state = "STOPPED" THEN Owned \ {gens[g].frame} ELSE Owned
  BY <1>1, <1>2, OwnedLess DEF Inv
<1>4. gens[g].state = "STOPPED" => gens[g].frame \in Owned /\ gens[g].frame \notin lost
  BY DEF Owned, Inv
<1>5. Owned' \cup lost' = Owned \cup lost /\ lost' \cap Owned' = {}
  BY <1>1, <1>3, <1>4 DEF Inv
<1>6. Runs(calls, gens', reentered')
  <2>1. \A i \in DOMAIN calls : calls[i].gen # g
    BY <1>1 DEF Executing
  <2>2. \A h \in Generators : h # g => gens'[h] = gens[h] /\ (h \in reentered => h \in reentered')
    BY <1>1 DEF Inv
  <2>3. ASSUME NEW i \in DOMAIN calls \ Normal(calls)
        PROVE  /\ Serves(calls[i], gens', reentered')
               /\ calls[i].gen \in reentered => calls[i].gen \in reentered'
    BY <2>1, <2>2 DEF Inv, Runs, Serves
  <2> QED
    BY <2>3 DEF Inv, Runs
<1>7. Lists' = Lists /\ reentered' \subseteq Generators /\ Counted' /\ Depth' = Depth
  BY <1>1 DEF Lists, Inv, Counted, Depth
<1> QED
  BY <1>1, <1>3, <1>5, <1>6, <1>7 DEF Inv, Held

LEMMA NoCalls ==
    /\ Nested(<< >>, << >>, 0)
    /\ \A gs, re : Runs(<< >>, gs, re)
<1>1. DOMAIN << >> = {} /\ Len(<< >>) = 0 /\ << >> \in Seq(Activation) /\ << >> \in Seq(Frames)
  OBVIOUS
<1>2. Normal(<< >>) = {} /\ Loops(<< >>) = {} /\ Cardinality({}) = 0
  BY <1>1, FS_EmptySet DEF Normal, Loops
<1> QED
  BY <1>1, <1>2 DEF Nested, Runs

LEMMA ExitStep ==
    ASSUME Inv, Exit, UNCHANGED <<lost, reentered>>
    PROVE  Inv'
<1>1. /\ SetLists(vm_clear_frames_for_exit(Lists)) /\ calls' = << >>
      /\ recursion_counter' = recursion_counter /\ abandoned' = recursion_counter /\ gens' = gens
  BY DEF Exit
<1>2. Sound(Lists', Held) /\ active' = << >>
  BY <1>1, ExitSound, ListsSet DEF Inv, Held
<1>3. Owned' = Owned /\ OwnersDiffer'
  BY <1>1 DEF Owned, OwnersDiffer, Inv
<1>4. Counted' /\ Depth' = 0
  BY <1>1 DEF Inv, Counted, Depth
<1> QED
  BY <1>1, <1>2, <1>3, <1>4, NoCalls DEF Inv, Held

------------------------------------------------------------------------------
(* The theorems. *)

LEMMA InitHolds == Init => Inv
<1> SUFFICES ASSUME Init PROVE Inv
  OBVIOUS
<1>1. gens \in [Generators -> GeneratorStates] /\ Owned = {} /\ OwnersDiffer
  BY DEF Init, NoGenerator, GeneratorStates, States, Owned, OwnersDiffer
<1>2. Sound(Lists, {})
  <2>1. << >> \in Seq(Frames) /\ DOMAIN << >> = {} /\ Len(<< >>) = 0
    OBVIOUS
  <2>2. ToSet(<< >>) = {} /\ IsInjective(<< >>)
    BY <2>1 DEF ToSet, IsInjective
  <2>3. Lists = [active |-> << >>, free |-> << >>, nr |-> 0, heap |-> {}]
    BY DEF Init, Lists
  <2> QED
    BY <2>1, <2>2, <2>3, LimitsAssumption DEF Sound
<1>3. Counted /\ Depth = 0 /\ reentered = {}
  BY LimitsAssumption DEF Init, Counted, Depth
<1> QED
  BY <1>1, <1>2, <1>3, NoCalls DEF Init, Inv, Held

LEMMA StepHolds ==
    ASSUME Inv, [Next]_vars
    PROVE  Inv'
<1>1. CASE UNCHANGED vars
  BY <1>1 DEF vars, history, Inv, Held, Lists, Owned, OwnersDiffer, Counted, Depth
<1>2. CASE Drop /\ abandoned' = abandoned
  BY <1>2, DropStep
<1>3. CASE Exit /\ UNCHANGED <<lost, reentered>>
  BY <1>3, ExitStep
<1>4. CASE Resume /\ UNCHANGED <<lost, abandoned>>
  BY <1>4, ResumeStep
<1>5. CASE /\ ~Unframed /\ history' = history
           /\ \/ CallUser \/ CallBuiltin \/ CallRejected \/ CallGeneratorFunction
              \/ Return \/ Yield \/ GeneratorEnds
  BY <1>5, CallStep, GeneratorFunctionStep, ReturnStep, YieldStep, GeneratorEndsStep
<1> QED
  BY <1>1, <1>2, <1>3, <1>4, <1>5 DEF Next, Goes

LEMMA Invariance == Spec => []Inv
<1>1. Init => Inv
  BY InitHolds
<1>2. Inv /\ [Next]_vars => Inv'
  BY StepHolds
<1> QED
  BY <1>1, <1>2, PTL DEF Spec

(* Wherever calls end, fail or yield, whatever generators are dropped or   *)
(* asked from within themselves: no frame is in two places, and only those *)
(* of dropped generators are lost (vmframe_alloc, vmframe_free,            *)
(* vmframe_new_generator_frame).                                           *)
THEOREM FramesAlwaysAccounted == Spec => []FramesAccounted
<1>1. Inv => FramesAccounted
  <2> SUFFICES ASSUME Inv PROVE FramesAccounted
    OBVIOUS
  <2>1. /\ Sound(Lists, Held) /\ lost \cap Owned = {}
        /\ Nested(calls, active, Depth) /\ Counted
    BY DEF Inv, Held
  <2>2. /\ active \in Seq(Frames) /\ free \in Seq(Frames) /\ Held \subseteq Frames
        /\ IsInjective(active) /\ IsInjective(free) /\ ToSet(active) \cap ToSet(free) = {}
        /\ Held \cap ToSet(active) = {} /\ Held \cap ToSet(free) = {}
        /\ heap = Held \cup ToSet(active) \cup ToSet(free)
        /\ nr_free_frames = Len(free) /\ nr_free_frames <= MAX_FREE_FRAMES
    BY <2>1 DEF Sound, Lists
  <2>3. ToSet(active) \subseteq Frames /\ ToSet(free) \subseteq Frames /\ Len(free) \in Nat
    BY <2>2, ListedIn
  <2>4. TypeOK
    BY <2>1, <2>2, <2>3, CallIndices DEF TypeOK, Inv, Nested, GeneratorStates, Counted
  <2>5. OnePlaceOnly
    BY <2>1, <2>2 DEF OnePlaceOnly, Held, Inv, OwnersDiffer
  <2> QED
    BY <2>2, <2>4, <2>5 DEF FramesAccounted, Held
<1> QED
  BY <1>1, Invariance, PTL

(* Where the frame of a loop or a callback in progress is.                 *)
LEMMA Located ==
    ASSUME Inv, NEW i \in DOMAIN calls
    PROVE  IF i \in Normal(calls)
           THEN /\ Rank(Normal(calls), i) \in DOMAIN active
                /\ calls[i].fr = active[Rank(Normal(calls), i)] /\ calls[i].fr \in ToSet(active)
           ELSE \/ EndedWithin(i)
                \/ /\ calls[i].gen \in Generators /\ gens[calls[i].gen].state = "STOPPED"
                   /\ gens[calls[i].gen].frame = calls[i].fr /\ calls[i].fr \in Owned
<1>1. CASE i \in Normal(calls)
  <2>1. calls[i].fr = active[Rank(Normal(calls), i)] /\ Len(active) = Cardinality(Normal(calls))
        /\ calls \in Seq(Activation) /\ active \in Seq(Frames)
    BY <1>1 DEF Inv, Nested
  <2>2. Rank(Normal(calls), i) \in 1..Len(active)
    BY <1>1, <2>1, CallIndices, RankDistinct
  <2> QED
    BY <1>1, <2>1, <2>2, ListedIn
<1>2. CASE i \notin Normal(calls)
  <2>1. Serves(calls[i], gens, reentered)
    BY <1>2 DEF Inv, Runs
  <2> QED
    BY <1>2, <2>1 DEF Serves, EndedWithin, Owned
<1> QED
  BY <1>1, <1>2

(* What runs, runs on a frame of its own that is not free for the next     *)
(* call, whatever generators are asked from within themselves: only their  *)
(* own loops share a frame, and only these can be left without, when one   *)
(* of them has ended (vm_exec_func, execute_loop, generator_iter_next).    *)
THEOREM RunningFramesAreLive == Spec => []RunningFramesLive
<1>1. Inv => RunningFramesLive
  <2> SUFFICES ASSUME Inv, NEW i \in DOMAIN calls, ~EndedWithin(i)
               PROVE  /\ calls[i].fr \in heap \ ToSet(free)
                      /\ \A j \in DOMAIN calls \ {i} :
                            calls[j].fr = calls[i].fr => EndedWithin(j) \/ SameGenerator(i, j)
    BY DEF RunningFramesLive
  <2>1. /\ ToSet(active) \cap ToSet(free) = {} /\ Owned \cap ToSet(free) = {}
        /\ Owned \cap ToSet(active) = {} /\ IsInjective(active)
        /\ heap = Owned \cup lost \cup ToSet(active) \cup ToSet(free)
    BY DEF Inv, Held, Sound, Lists
  <2>2. calls[i].fr \in heap \ ToSet(free)
    BY <2>1, Located
  <2>3. ASSUME NEW j \in DOMAIN calls \ {i}, calls[j].fr = calls[i].fr, ~EndedWithin(j)
        PROVE  SameGenerator(i, j)
    <3>1. CASE i \in Normal(calls)
      <4>1. j \in Normal(calls)
        BY <2>1, <2>3, <3>1, Located
      <4>2. Rank(Normal(calls), i) = Rank(Normal(calls), j)
        BY <2>1, <2>3, <3>1, <4>1, Located DEF IsInjective
      <4>3. Indices(Normal(calls), Len(calls)) /\ Len(calls) \in Nat
        BY CallIndices DEF Inv, Nested
      <4> QED
        BY <3>1, <4>1, <4>2, <4>3, RankDistinct
    <3>2. CASE i \notin Normal(calls)
      <4>1. j \notin Normal(calls)
        BY <2>1, <2>3, <3>2, Located
      <4>2. calls[i].gen = calls[j].gen
        BY <2>3, <3>2, <4>1, Located DEF Inv, OwnersDiffer
      <4> QED
        BY <2>3, <3>2, <4>1, <4>2 DEF Inv, Runs, SameGenerator
    <3> QED
      BY <3>1, <3>2
  <2> QED
    BY <2>2, <2>3
<1> QED
  BY <1>1, Invariance, PTL

(* Calls nest, generators in between or not, up to the recursion limit,    *)
(* and before and after exit() the recursion counter is the number of the  *)
(* loops in progress and of those that exit() cut off (execute_loop,       *)
(* vm_clear_frames_for_exit).                                              *)
THEOREM CallsAlwaysNest == Spec => []CallsNest
<1>1. Inv => CallsNest
  <2> SUFFICES ASSUME Inv PROVE CallsNest
    OBVIOUS
  <2>1. Nested(calls, active, Depth) /\ Counted
    BY DEF Inv
  <2>2. CounterIsDepth
    <3>1. Depth = Cardinality(Loops(calls)) /\ Cardinality(Loops(calls)) \in Nat
      BY <2>1, CallIndices DEF Nested
    <3> QED
      BY <2>1, <3>1 DEF CounterIsDepth, Counted, Depth
  <2>3. ASSUME NEW i \in DOMAIN calls, i >= 2, calls[i].kind = "builtin",
               calls[i - 1].kind # "generator"
        PROVE  ParentOf(i) = calls[i - 1].fr
    <3>1. /\ DOMAIN calls = 1..Len(calls) /\ Len(calls) \in Nat
          /\ Indices(Normal(calls), Len(calls))
      BY <2>1, CallIndices DEF Nested
    <3>2. i - 1 \in DOMAIN calls /\ i - 1 \in Int /\ i \in Int
      BY <2>3, <3>1
    <3>3. i \in Normal(calls) /\ i - 1 \in Normal(calls)
      BY <2>3, <3>2 DEF Normal
    <3>4. Rank(Normal(calls), i) = Rank(Normal(calls), i - 1) + 1
          /\ Rank(Normal(calls), i - 1) \in Nat
      BY <3>1, <3>2, <3>3, RankStep, RankType
    <3>5. Rank(Normal(calls), i) - 1 = Rank(Normal(calls), i - 1)
      BY <3>4
    <3> QED
      BY <2>1, <3>3, <3>5 DEF ParentOf, Nested
  <2> QED
    BY <2>1, <2>3, <2>2 DEF CallsNest, ActiveAreNormal, StacksFollow, Nested
<1> QED
  BY <1>1, Invariance, PTL
==============================================================================
