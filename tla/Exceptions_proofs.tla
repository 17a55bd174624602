-------------------------- MODULE Exceptions_proofs --------------------------
(***************************************************************************)
(* Proofs about Exceptions, for any code, calls and generators, however    *)
(* deep.                                                                   *)
(*                                                                         *)
(* StackOK is why the stack of locations can be trusted: below every call  *)
(* in progress it is, item by item, where code further out is, and without *)
(* generators it is where all of it is.  It speaks of every call and not   *)
(* of the innermost one only because a return uncovers the call below.     *)
(***************************************************************************)
EXTENDS Exceptions, SequenceTheorems, FiniteSetTheorems, TLAPS

-----------------------------------------------------------------------------
(* Ranks: of the calls that have code, how many there are up to one.       *)

Indices(S, n) == \A j \in S : j \in Int /\ 1 <= j /\ j <= n

(* The indices of a sequence up to n that matter are finitely many.        *)
LEMMA RankType ==
    ASSUME NEW n \in Nat, NEW S, Indices(S, n), NEW i \in Int
    PROVE  /\ IsFiniteSet(S) /\ Cardinality(S) \in Nat
           /\ IsFiniteSet(UpTo(S, i))
           /\ Rank(S, i) \in Nat /\ Rank(S, i) <= Cardinality(S)
<1>1. IsFiniteSet(1..n)
  BY FS_Interval
<1>2. IsFiniteSet(S)
  <2>1. S \in SUBSET (1..n)
    BY DEF Indices
  <2> QED
    BY <1>1, <2>1, FS_Subset
<1>3. UpTo(S, i) \in SUBSET S
  BY DEF UpTo
<1> QED
  BY <1>2, <1>3, FS_Subset, FS_CardinalityType DEF Rank

(* From an index to the next the rank goes up by one where S has a member. *)
LEMMA RankStep ==
    ASSUME NEW n \in Nat, NEW S, Indices(S, n), NEW i \in Int
    PROVE  /\ i \in S => Rank(S, i) = Rank(S, i - 1) + 1
           /\ i \notin S => Rank(S, i) = Rank(S, i - 1)
           /\ i <= 0 => Rank(S, i) = 0
           /\ i >= n => Rank(S, i) = Cardinality(S)
<1>1. i - 1 \in Int
  OBVIOUS
<1>2. IsFiniteSet(UpTo(S, i - 1))
  BY <1>1, RankType
<1>3. i <= 0 => Rank(S, i) = 0
  <2>1. i <= 0 => UpTo(S, i) = {}
    BY DEF UpTo, Indices
  <2> QED
    BY <2>1, FS_EmptySet DEF Rank
<1>4. i >= n => Rank(S, i) = Cardinality(S)
  <2>1. i >= n => UpTo(S, i) = S
    BY DEF UpTo, Indices
  <2> QED
    BY <2>1 DEF Rank
<1>5. i \in S => Rank(S, i) = Rank(S, i - 1) + 1
  <2> SUFFICES ASSUME i \in S PROVE Rank(S, i) = Rank(S, i - 1) + 1
    OBVIOUS
  <2>1. UpTo(S, i) = UpTo(S, i - 1) \cup {i}
    <3>1. \A j \in S : j \in Int
      BY DEF Indices
    <3>2. \A j \in S : j <= i <=> j <= i - 1 \/ j = i
      BY <3>1
    <3> QED
      BY <3>2 DEF UpTo
  <2>2. i \notin UpTo(S, i - 1)
    BY DEF UpTo
  <2> QED
    BY <1>2, <2>1, <2>2, FS_AddElement DEF Rank
<1>6. i \notin S => Rank(S, i) = Rank(S, i - 1)
  <2> SUFFICES ASSUME i \notin S PROVE Rank(S, i) = Rank(S, i - 1)
    OBVIOUS
  <2>1. UpTo(S, i) = UpTo(S, i - 1)
    BY DEF UpTo, Indices
  <2> QED
    BY <2>1 DEF Rank
<1> QED
  BY <1>3, <1>4, <1>5, <1>6

(* A rank goes up at every member.                                         *)
LEMMA RankGrows ==
    ASSUME NEW n \in Nat, NEW S, Indices(S, n), NEW i \in Int, NEW j \in Int, i <= j
    PROVE  /\ Rank(S, i) <= Rank(S, j)
           /\ i < j /\ j \in S => Rank(S, i) < Rank(S, j)
<1>1. \A k \in S : k <= i => k <= j
  BY DEF Indices
<1>2. UpTo(S, i) \in SUBSET UpTo(S, j) /\ IsFiniteSet(UpTo(S, j))
  <2>1. IsFiniteSet(UpTo(S, j))
    BY RankType
  <2> QED
    BY <1>1, <2>1 DEF UpTo
<1>3. i < j /\ j \in S => UpTo(S, i) # UpTo(S, j)
  BY DEF UpTo
<1>4. Rank(S, i) <= Rank(S, j)
  BY <1>2, FS_Subset DEF Rank
<1>5. Rank(S, i) = Rank(S, j) => UpTo(S, i) = UpTo(S, j)
  BY <1>2, FS_Subset DEF Rank
<1> QED
  BY <1>3, <1>4, <1>5, RankType

(* So a member has its own rank, from 1 to the size of S.                  *)
LEMMA RankDistinct ==
    ASSUME NEW n \in Nat, NEW S, Indices(S, n)
    PROVE  /\ \A i \in S : Rank(S, i) \in 1..Cardinality(S)
           /\ \A i, j \in S : Rank(S, i) = Rank(S, j) => i = j
<1>1. \A i \in S : i \in Int /\ i - 1 \in Int
  BY DEF Indices
<1>2. \A i \in S : Rank(S, i) \in 1..Cardinality(S)
  <2> TAKE i \in S
  <2>1. /\ Rank(S, i) \in Nat /\ Rank(S, i) <= Cardinality(S)
        /\ Rank(S, i - 1) \in Nat /\ Cardinality(S) \in Nat
    BY <1>1, RankType
  <2>2. Rank(S, i) = Rank(S, i - 1) + 1
    BY <1>1, RankStep
  <2> QED
    BY <2>1, <2>2
<1>3. \A i, j \in S : Rank(S, i) = Rank(S, j) => i = j
  <2> TAKE i, j \in S
  <2>1. i < j => Rank(S, i) < Rank(S, j)
    BY <1>1, RankGrows
  <2>2. j < i => Rank(S, j) < Rank(S, i)
    BY <1>1, RankGrows
  <2>3. Rank(S, i) \in Nat /\ Rank(S, j) \in Nat
    BY <1>1, RankType
  <2> QED
    BY <1>1, <2>1, <2>2, <2>3
<1> QED
  BY <1>2, <1>3

(* Every number up to the size of S is the rank of one member.             *)
LEMMA RankOnto ==
    ASSUME NEW n \in Nat, NEW S, Indices(S, n), NEW k \in 1..Cardinality(S)
    PROVE  \E i \in S : Rank(S, i) = k
<1>1. IsFiniteSet(S) /\ Cardinality(S) \in Nat
  <2>1. 0 \in Int
    OBVIOUS
  <2> QED
    BY <2>1, RankType
<1>2. /\ IsFiniteSet(1..Cardinality(S))
      /\ Cardinality(1..Cardinality(S)) = Cardinality(S)
  BY <1>1, FS_Interval
<1> DEFINE f == [i \in S |-> Rank(S, i)]
<1>3. f \in [S -> 1..Cardinality(S)]
  BY RankDistinct
<1>4. \A i, j \in S : f[i] = f[j] => i = j
  BY RankDistinct
<1>5. f \in Injection(S, 1..Cardinality(S))
  BY <1>3, <1>4 DEF Injection, IsInjective
<1> HIDE DEF f
<1>6. f \in Surjection(S, 1..Cardinality(S))
  BY <1>1, <1>2, <1>5, FS_Injection
<1>7. \E i \in S : f[i] = k
  BY <1>6 DEF Surjection
<1> QED
  BY <1>7 DEF f

(* Ranked(S) lists S in order.                                             *)
LEMMA RankedInOrder ==
    ASSUME NEW n \in Nat, NEW S, Indices(S, n)
    PROVE  /\ DOMAIN Ranked(S) = 1..Cardinality(S)
           /\ \A k \in 1..Cardinality(S) : Ranked(S)[k] \in S /\ Rank(S, Ranked(S)[k]) = k
           /\ \A i \in S : Rank(S, i) \in 1..Cardinality(S) /\ Ranked(S)[Rank(S, i)] = i
           /\ \A k, m \in 1..Cardinality(S) : k < m => Ranked(S)[k] < Ranked(S)[m]
<1>1. \A k \in 1..Cardinality(S) : Ranked(S)[k] \in S /\ Rank(S, Ranked(S)[k]) = k
  <2> TAKE k \in 1..Cardinality(S)
  <2>1. \E i \in S : Rank(S, i) = k
    BY RankOnto
  <2> QED
    BY <2>1 DEF Ranked
<1>2. \A i \in S : Rank(S, i) \in 1..Cardinality(S) /\ Ranked(S)[Rank(S, i)] = i
  BY <1>1, RankDistinct
<1>3. \A k, m \in 1..Cardinality(S) : k < m => Ranked(S)[k] < Ranked(S)[m]
  <2> SUFFICES ASSUME NEW k \in 1..Cardinality(S), NEW m \in 1..Cardinality(S), k < m
               PROVE  Ranked(S)[k] < Ranked(S)[m]
    OBVIOUS
  <2>1. \A i \in S : i \in Int
    BY DEF Indices
  <2>2. /\ Ranked(S)[k] \in Int /\ Rank(S, Ranked(S)[k]) = k
        /\ Ranked(S)[m] \in Int /\ Rank(S, Ranked(S)[m]) = m
    BY <1>1, <2>1
  <2>3. Ranked(S)[m] <= Ranked(S)[k] => m <= k
    BY <2>2, RankGrows
  <2> QED
    BY <2>2, <2>3
<1> QED
  BY <1>1, <1>2, <1>3 DEF Ranked
-----------------------------------------------------------------------------

Upto(s, n) == SubSeq(s, 1, n)

\* The locations that were there when call i began, its own one included.
LocationsAt(cs, ls, i) == Upto(ls, Rank(Pushed(cs), i))

CallFits(cs, ls, i) ==
    /\ cs[i].pushed => i > 1 /\ cs[i].kind # "generator"
    /\ Within(LocationsAt(cs, ls, i), Positions(Upto(cs, i - 1)))
    /\ NoGenerator(Upto(cs, i)) => LocationsAt(cs, ls, i) = Positions(Upto(cs, i - 1))

StackOK(cs, ls) ==
    /\ Len(ls) = Cardinality(Pushed(cs))
    /\ \A i \in 1..Len(cs) : CallFits(cs, ls, i)
    /\ cs # <<>> => cs[1].kind = "user"

StackInv == StackOK(calls, locations)

\* What the next trace will be compared with.
StoryTold ==
    ~OK /\ ~debug_error =>
        /\ story.lines = Positions(calls)
        /\ story.exact => NoGenerator(calls)

Inv == TypeOK /\ StackInv /\ NoTraceLost /\ StoryTold
------------------------------------------------------------------------------
(* Sequences. *)

LEMMA UptoProperties ==
    ASSUME NEW S, NEW s \in Seq(S), NEW n \in Nat, n <= Len(s)
    PROVE  /\ Upto(s, n) \in Seq(S)
           /\ Len(Upto(s, n)) = n
           /\ \A i \in 1..n : Upto(s, n)[i] = s[i]
<1>1. Len(s) \in Nat /\ \A i \in 1..n : s[i] \in S
  BY ElementOfSeq
<1>2. /\ SubSeq(s, 1, n) \in Seq(S)
      /\ Len(SubSeq(s, 1, n)) = IF 1 <= n THEN n - 1 + 1 ELSE 0
      /\ \A i \in 1..(n - 1 + 1) : SubSeq(s, 1, n)[i] = s[1 + i - 1]
  BY <1>1, SubSeqProperties
<1>3. n - 1 + 1 = n /\ \A i \in 1..n : 1 + i - 1 = i
  OBVIOUS
<1> QED
  BY <1>2, <1>3 DEF Upto

LEMMA UptoAll ==
    ASSUME NEW S, NEW s \in Seq(S)
    PROVE  Upto(s, Len(s)) = s
BY SubSeqFull DEF Upto

LEMMA UptoUpto ==
    ASSUME NEW S, NEW s \in Seq(S), NEW m \in Nat, m <= Len(s), NEW n \in Nat, n <= m
    PROVE  Upto(Upto(s, m), n) = Upto(s, n)
<1>1. Len(s) \in Nat /\ n <= Len(s)
  OBVIOUS
<1>2. Upto(s, m) \in Seq(S) /\ Len(Upto(s, m)) = m /\ \A i \in 1..m : Upto(s, m)[i] = s[i]
  BY UptoProperties
<1>3. /\ Upto(Upto(s, m), n) \in Seq(S) /\ Len(Upto(Upto(s, m), n)) = n
      /\ \A i \in 1..n : Upto(Upto(s, m), n)[i] = Upto(s, m)[i]
  BY <1>2, UptoProperties
<1>4. Upto(s, n) \in Seq(S) /\ Len(Upto(s, n)) = n /\ \A i \in 1..n : Upto(s, n)[i] = s[i]
  BY <1>1, UptoProperties
<1> QED
  BY <1>2, <1>3, <1>4, SeqEqual

LEMMA UptoAppend ==
    ASSUME NEW S, NEW s \in Seq(S), NEW e \in S, NEW n \in Nat, n <= Len(s)
    PROVE  Upto(Append(s, e), n) = Upto(s, n)
<1>1. /\ Append(s, e) \in Seq(S) /\ Len(Append(s, e)) = Len(s) + 1
      /\ \A i \in 1..Len(s) : Append(s, e)[i] = s[i]
  BY AppendProperties
<1>2. n <= Len(Append(s, e)) /\ \A i \in 1..n : i \in 1..Len(s)
  BY <1>1
<1>3. /\ Upto(Append(s, e), n) \in Seq(S) /\ Len(Upto(Append(s, e), n)) = n
      /\ \A i \in 1..n : Upto(Append(s, e), n)[i] = Append(s, e)[i]
  BY <1>1, <1>2, UptoProperties
<1>4. Upto(s, n) \in Seq(S) /\ Len(Upto(s, n)) = n /\ \A i \in 1..n : Upto(s, n)[i] = s[i]
  BY UptoProperties
<1> QED
  BY <1>1, <1>2, <1>3, <1>4, SeqEqual

(* Leaving items out of a sequence (Within). *)

LEMMA WithinAppend ==
    ASSUME NEW S, NEW s \in Seq(S), NEW t \in Seq(S), NEW x \in S, Within(s, t)
    PROVE  Within(Append(s, x), Append(t, x))
<1>1. PICK place \in [DOMAIN s -> DOMAIN t] :
        /\ \A i, j \in DOMAIN s : i < j => place[i] < place[j]
        /\ \A i \in DOMAIN s : s[i] = t[place[i]]
  BY DEF Within
<1>2. DOMAIN s = 1..Len(s) /\ DOMAIN t = 1..Len(t) /\ Len(s) \in Nat /\ Len(t) \in Nat
  BY LenProperties
<1>3. /\ DOMAIN Append(s, x) = 1..(Len(s) + 1) /\ DOMAIN Append(t, x) = 1..(Len(t) + 1)
      /\ \A i \in 1..Len(s) : Append(s, x)[i] = s[i]
      /\ \A i \in 1..Len(t) : Append(t, x)[i] = t[i]
      /\ Append(s, x)[Len(s) + 1] = x /\ Append(t, x)[Len(t) + 1] = x
  BY AppendProperties, LenProperties
<1> DEFINE p == [i \in 1..(Len(s) + 1) |-> IF i <= Len(s) THEN place[i] ELSE Len(t) + 1]
<1>4. \A i \in 1..Len(s) : place[i] \in 1..Len(t)
  BY <1>1, <1>2
<1>5. \A i \in 1..(Len(s) + 1) : IF i <= Len(s) THEN i \in 1..Len(s) /\ p[i] = place[i]
                                 ELSE i = Len(s) + 1 /\ p[i] = Len(t) + 1
  BY <1>2
<1>6. p \in [DOMAIN Append(s, x) -> DOMAIN Append(t, x)]
  BY <1>2, <1>3, <1>4
<1> HIDE DEF p
<1>7. \A i, j \in 1..(Len(s) + 1) : i < j => p[i] < p[j]
  <2> SUFFICES ASSUME NEW i \in 1..(Len(s) + 1), NEW j \in 1..(Len(s) + 1), i < j
               PROVE  p[i] < p[j]
    OBVIOUS
  <2>1. i \in 1..Len(s) /\ p[i] = place[i] /\ place[i] \in 1..Len(t)
    BY <1>2, <1>4, <1>5
  <2>2. CASE j <= Len(s)
    BY <1>1, <1>2, <1>5, <2>1, <2>2
  <2>3. CASE ~(j <= Len(s))
    BY <1>2, <1>5, <2>1, <2>3
  <2> QED
    BY <2>2, <2>3
<1>8. \A i \in 1..(Len(s) + 1) : Append(s, x)[i] = Append(t, x)[p[i]]
  <2> TAKE i \in 1..(Len(s) + 1)
  <2>1. CASE i <= Len(s)
    BY <1>1, <1>2, <1>3, <1>4, <1>5, <2>1
  <2>2. CASE ~(i <= Len(s))
    BY <1>3, <1>5, <2>2
  <2> QED
    BY <2>1, <2>2
<1> QED
  BY <1>3, <1>6, <1>7, <1>8 DEF Within

LEMMA WithinPrefix ==
    ASSUME NEW S, NEW s \in Seq(S), NEW t \in Seq(S), NEW u \in Seq(S), Within(s, t),
           Len(t) <= Len(u), \A i \in 1..Len(t) : t[i] = u[i]
    PROVE  Within(s, u)
<1>1. PICK place \in [DOMAIN s -> DOMAIN t] :
        /\ \A i, j \in DOMAIN s : i < j => place[i] < place[j]
        /\ \A i \in DOMAIN s : s[i] = t[place[i]]
  BY DEF Within
<1>2. DOMAIN t = 1..Len(t) /\ DOMAIN u = 1..Len(u) /\ Len(t) \in Nat /\ Len(u) \in Nat
  BY LenProperties
<1>3. \A i \in 1..Len(t) : i \in 1..Len(u)
  BY <1>2
<1>4. place \in [DOMAIN s -> DOMAIN u]
  BY <1>1, <1>2, <1>3
<1>5. \A i \in DOMAIN s : s[i] = u[place[i]]
  BY <1>1, <1>2
<1> QED
  BY <1>1, <1>4, <1>5 DEF Within

(* The largest of some indices (vm_current_frame()). *)
LEMMA MaxIsLast ==
    ASSUME NEW n \in Nat, NEW S, Indices(S, n), S # {}
    PROVE  Max(S) \in S /\ \A i \in S : i <= Max(S)
<1>1. \A i \in S : i \in Int
  BY DEF Indices
<1>2. Cardinality(S) \in Nat /\ IsFiniteSet(S)
  <2>1. 0 \in Int
    OBVIOUS
  <2> QED
    BY <2>1, RankType
<1>3. Cardinality(S) \in 1..Cardinality(S)
  BY <1>2, FS_EmptySet
<1>4. PICK top \in S : Rank(S, top) = Cardinality(S)
  BY <1>3, RankOnto
<1>5. \A i \in S : top >= i
  <2> SUFFICES ASSUME NEW i \in S, ~(top >= i) PROVE FALSE
    OBVIOUS
  <2>1. top < i /\ top <= i
    BY <1>1
  <2>2. Rank(S, top) < Rank(S, i) /\ Rank(S, i) <= Cardinality(S) /\ Rank(S, i) \in Nat
    BY <1>1, <2>1, RankGrows, RankType
  <2> QED
    BY <1>2, <1>4, <2>2
<1>6. Max(S) \in S /\ \A i \in S : Max(S) >= i
  BY <1>5 DEF Max
<1> QED
  BY <1>1, <1>6

(* Where the code in progress is (Positions). *)

LEMMA CodedIndices ==
    ASSUME NEW cs \in Seq(Activations)
    PROVE  /\ Len(cs) \in Nat /\ DOMAIN cs = 1..Len(cs)
           /\ Indices(Coded(cs), Len(cs)) /\ Indices(Pushed(cs), Len(cs))
           /\ Cardinality(Coded(cs)) \in Nat /\ Cardinality(Pushed(cs)) \in Nat
<1>1. Len(cs) \in Nat /\ DOMAIN cs = 1..Len(cs)
  BY LenProperties
<1>2. Indices(Coded(cs), Len(cs)) /\ Indices(Pushed(cs), Len(cs))
  BY <1>1 DEF Indices, Coded, Pushed
<1>3. 0 \in Int
  OBVIOUS
<1> QED
  BY <1>1, <1>2, <1>3, RankType

LEMMA ActivationParts ==
    ASSUME NEW cs \in Seq(Activations), NEW i \in 1..Len(cs)
    PROVE  /\ cs[i] \in Activations
           /\ cs[i].kind \in {"user", "builtin", "generator"}
           /\ cs[i].line \in Lines
           /\ cs[i].pushed \in BOOLEAN
<1>1. cs[i] \in Activations
  BY ElementOfSeq
<1> QED
  BY <1>1 DEF Activations

LEMMA PositionsType ==
    ASSUME NEW cs \in Seq(Activations)
    PROVE  Positions(cs) \in Seq(Lines) /\ Len(Positions(cs)) = Cardinality(Coded(cs))
<1> DEFINE c == Cardinality(Coded(cs))
<1>1. c \in Nat /\ DOMAIN cs = 1..Len(cs)
  BY CodedIndices
<1>2. \A n \in 1..c : Ranked(Coded(cs))[n] \in 1..Len(cs)
  <2>1. \A n \in 1..c : Ranked(Coded(cs))[n] \in Coded(cs)
    BY CodedIndices, RankedInOrder
  <2> QED
    BY <1>1, <2>1 DEF Coded
<1>3. \A n \in 1..c : cs[Ranked(Coded(cs))[n]].line \in Lines
  BY <1>2, ActivationParts
<1> QED
  BY <1>1, <1>3 DEF Positions

(* Calls that agree up to the length of ds agree on where their code is.   *)
Agree(ds, cs) ==
    /\ Len(ds) <= Len(cs)
    /\ \A i \in 1..Len(ds) : ds[i].kind = cs[i].kind /\ ds[i].line = cs[i].line

LEMMA RankAgree ==
    ASSUME NEW cs \in Seq(Activations), NEW ds \in Seq(Activations), Agree(ds, cs),
           NEW i \in Int, i <= Len(ds)
    PROVE  Rank(Coded(ds), i) = Rank(Coded(cs), i)
<1>1. DOMAIN cs = 1..Len(cs) /\ DOMAIN ds = 1..Len(ds) /\ Len(cs) \in Nat /\ Len(ds) \in Nat
  BY LenProperties
<1>2. \A j \in Int : j <= i => (j \in Coded(ds) <=> j \in Coded(cs))
  <2> SUFFICES ASSUME NEW j \in Int, j <= i PROVE j \in Coded(ds) <=> j \in Coded(cs)
    OBVIOUS
  <2>1. j \in 1..Len(ds) <=> j \in 1..Len(cs)
    BY <1>1 DEF Agree
  <2> QED
    BY <1>1, <2>1 DEF Coded, HasCode, Agree
<1>3. \A j : (j \in Coded(ds) => j \in Int) /\ (j \in Coded(cs) => j \in Int)
  BY <1>1 DEF Coded
<1>4. UpTo(Coded(ds), i) = UpTo(Coded(cs), i)
  BY <1>2, <1>3 DEF UpTo
<1> QED
  BY <1>4 DEF Rank

LEMMA PositionsAgree ==
    ASSUME NEW cs \in Seq(Activations), NEW ds \in Seq(Activations), Agree(ds, cs)
    PROVE  /\ Len(Positions(ds)) = Rank(Coded(cs), Len(ds))
           /\ Len(Positions(ds)) <= Len(Positions(cs))
           /\ \A k \in 1..Len(Positions(ds)) : Positions(ds)[k] = Positions(cs)[k]
<1>1. /\ Len(cs) \in Nat /\ DOMAIN cs = 1..Len(cs) /\ Indices(Coded(cs), Len(cs))
      /\ Len(ds) \in Nat /\ DOMAIN ds = 1..Len(ds) /\ Indices(Coded(ds), Len(ds))
  BY CodedIndices
<1>2. Len(ds) \in Int /\ Len(ds) <= Len(ds)
  BY <1>1
<1>3. Len(Positions(ds)) = Rank(Coded(ds), Len(ds))
  BY <1>1, <1>2, PositionsType, RankStep
<1>4. Len(Positions(ds)) = Rank(Coded(cs), Len(ds))
  BY <1>2, <1>3, RankAgree
<1>5. /\ Len(Positions(ds)) <= Len(Positions(cs))
      /\ Cardinality(Coded(ds)) <= Cardinality(Coded(cs))
      /\ Cardinality(Coded(ds)) \in Nat /\ Cardinality(Coded(cs)) \in Nat
  BY <1>1, <1>2, <1>4, PositionsType, RankType, CodedIndices
<1>6. \A k \in 1..Len(Positions(ds)) : Positions(ds)[k] = Positions(cs)[k]
  <2> SUFFICES ASSUME NEW k \in 1..Cardinality(Coded(ds))
               PROVE  Positions(ds)[k] = Positions(cs)[k]
    BY PositionsType
  <2> DEFINE i == Ranked(Coded(ds))[k]
  <2>1. i \in Coded(ds) /\ Rank(Coded(ds), i) = k
    BY <1>1, RankedInOrder
  <2>2. i \in 1..Len(ds) /\ i \in Int /\ i <= Len(ds) /\ HasCode(ds[i])
    BY <1>1, <2>1 DEF Coded
  <2>3. i \in 1..Len(cs) /\ HasCode(cs[i]) /\ ds[i].line = cs[i].line
    BY <1>1, <2>2 DEF Agree, HasCode
  <2>4. i \in Coded(cs) /\ Rank(Coded(cs), i) = k
    BY <1>1, <2>1, <2>2, <2>3, RankAgree DEF Coded
  <2>5. Ranked(Coded(cs))[k] = i
    BY <1>1, <2>4, RankedInOrder
  <2>6. k \in 1..Cardinality(Coded(cs))
    BY <1>5
  <2>7. Positions(ds)[k] = ds[i].line
    BY DEF Positions
  <2>8. Positions(cs)[k] = cs[i].line
    BY <2>5, <2>6 DEF Positions
  <2> QED
    BY <2>3, <2>7, <2>8
<1> QED
  BY <1>4, <1>5, <1>6

LEMMA PositionsSame ==
    ASSUME NEW cs \in Seq(Activations), NEW ds \in Seq(Activations), Agree(ds, cs),
           Len(ds) = Len(cs)
    PROVE  Positions(ds) = Positions(cs)
<1>1. /\ Len(cs) \in Nat /\ Indices(Coded(cs), Len(cs)) /\ Len(cs) \in Int /\ Len(cs) <= Len(cs)
  BY CodedIndices
<1>2. Len(Positions(ds)) = Len(Positions(cs))
  BY <1>1, PositionsAgree, PositionsType, RankStep
<1> QED
  BY <1>2, PositionsAgree, PositionsType, SeqEqual

(* One call more.                                                          *)
LEMMA PositionsGrow ==
    ASSUME NEW cs \in Seq(Activations), NEW ds \in Seq(Activations), Agree(ds, cs),
           Len(cs) = Len(ds) + 1
    PROVE  Positions(cs) = IF HasCode(cs[Len(cs)]) THEN Append(Positions(ds), cs[Len(cs)].line)
                           ELSE Positions(ds)
<1> DEFINE n == Len(cs)
           C == Coded(cs)
<1>1. /\ n \in Nat /\ DOMAIN cs = 1..n /\ Indices(C, n) /\ n \in Int /\ n - 1 \in Int
      /\ Len(ds) = n - 1 /\ Len(ds) \in Nat /\ n <= n /\ n \in 1..n
  BY CodedIndices
<1>2. /\ n \in C <=> HasCode(cs[n])
  BY <1>1 DEF Coded
<1>3. /\ n \in C => Rank(C, n) = Rank(C, n - 1) + 1
      /\ n \notin C => Rank(C, n) = Rank(C, n - 1)
      /\ Rank(C, n) = Cardinality(C)
  <2> HIDE DEF n, C
  <2> QED
    BY <1>1, RankStep
<1>4. /\ Positions(ds) \in Seq(Lines) /\ Positions(cs) \in Seq(Lines)
      /\ Len(Positions(cs)) = Cardinality(C)
  BY PositionsType
<1>5. /\ Len(Positions(ds)) = Rank(C, n - 1)
      /\ \A k \in 1..Len(Positions(ds)) : Positions(ds)[k] = Positions(cs)[k]
  BY <1>1, PositionsAgree
<1>6. Len(Positions(ds)) \in Nat
  BY <1>4, LenProperties
<1>7. CASE HasCode(cs[n])
  <2>1. cs[n].line \in Lines
    BY <1>1, ActivationParts
  <2>2. Len(Positions(cs)) = Len(Positions(ds)) + 1
    BY <1>2, <1>3, <1>4, <1>5, <1>7
  <2>3. Positions(cs)[Len(Positions(cs))] = cs[n].line
    <3>1. n \in C /\ Rank(C, n) = Cardinality(C) /\ Cardinality(C) \in 1..Cardinality(C)
      BY <1>2, <1>3, <1>4, <1>6, <1>7, <2>2
    <3>2. Ranked(C)[Cardinality(C)] = n
      BY <1>1, <3>1, RankedInOrder
    <3> QED
      BY <1>4, <3>1, <3>2 DEF Positions
  <2>4. /\ Append(Positions(ds), cs[n].line) \in Seq(Lines)
        /\ Len(Append(Positions(ds), cs[n].line)) = Len(Positions(ds)) + 1
        /\ \A k \in 1..Len(Positions(ds)) : Append(Positions(ds), cs[n].line)[k] = Positions(ds)[k]
        /\ Append(Positions(ds), cs[n].line)[Len(Positions(ds)) + 1] = cs[n].line
    BY <1>4, <2>1, AppendProperties
  <2>5. \A k \in 1..Len(Positions(cs)) : Positions(cs)[k] = Append(Positions(ds), cs[n].line)[k]
    <3> TAKE k \in 1..Len(Positions(cs))
    <3>1. k \in 1..Len(Positions(ds)) \/ k = Len(Positions(ds)) + 1
      BY <1>6, <2>2
    <3> QED
      BY <1>5, <2>2, <2>3, <2>4, <3>1
  <2>6. Positions(cs) = Append(Positions(ds), cs[n].line)
    BY <1>4, <2>2, <2>4, <2>5, SeqEqual
  <2> QED
    BY <1>7, <2>6
<1>8. CASE ~HasCode(cs[n])
  <2>1. Len(Positions(cs)) = Len(Positions(ds))
    BY <1>2, <1>3, <1>4, <1>5, <1>8
  <2>2. Positions(cs) = Positions(ds)
    BY <1>4, <1>5, <2>1, SeqEqual
  <2> QED
    BY <1>8, <2>2
<1> QED
  BY <1>7, <1>8

(* The stack of locations below a call, when calls and locations change.   *)

LEMMA RankPushed ==
    ASSUME NEW cs \in Seq(Activations), NEW ds \in Seq(Activations), NEW i \in Int,
           i <= Len(cs), i <= Len(ds), \A j \in 1..i : ds[j].pushed = cs[j].pushed
    PROVE  Rank(Pushed(ds), i) = Rank(Pushed(cs), i)
<1>1. DOMAIN cs = 1..Len(cs) /\ DOMAIN ds = 1..Len(ds) /\ Len(cs) \in Nat /\ Len(ds) \in Nat
  BY LenProperties
<1>2. \A j \in Int : j <= i => (j \in Pushed(ds) <=> j \in Pushed(cs))
  <2> SUFFICES ASSUME NEW j \in Int, j <= i PROVE j \in Pushed(ds) <=> j \in Pushed(cs)
    OBVIOUS
  <2>1. (j \in 1..Len(ds) <=> j \in 1..Len(cs)) /\ (j \in 1..Len(ds) => j \in 1..i)
    BY <1>1
  <2> QED
    BY <1>1, <2>1 DEF Pushed
<1>3. \A j : (j \in Pushed(ds) => j \in Int) /\ (j \in Pushed(cs) => j \in Int)
  BY <1>1 DEF Pushed
<1>4. UpTo(Pushed(ds), i) = UpTo(Pushed(cs), i)
  BY <1>2, <1>3 DEF UpTo
<1> QED
  BY <1>4 DEF Rank

\* How ranks of pushed calls and locations fit.
LEMMA RankFits ==
    ASSUME NEW cs \in Seq(Activations), NEW ls \in Seq(Lines), StackOK(cs, ls), NEW i \in Int
    PROVE  /\ Rank(Pushed(cs), i) \in Nat /\ Rank(Pushed(cs), i) <= Len(ls)
           /\ i >= Len(cs) => Rank(Pushed(cs), i) = Len(ls)
           /\ i \in 1..Len(cs) => Rank(Pushed(cs), i) =
                IF cs[i].pushed THEN Rank(Pushed(cs), i - 1) + 1 ELSE Rank(Pushed(cs), i - 1)
<1>1. /\ Len(cs) \in Nat /\ DOMAIN cs = 1..Len(cs) /\ Indices(Pushed(cs), Len(cs))
      /\ Len(ls) = Cardinality(Pushed(cs))
  BY CodedIndices DEF StackOK
<1>2. i \in 1..Len(cs) => (i \in Pushed(cs) <=> cs[i].pushed)
  BY <1>1 DEF Pushed
<1> QED
  BY <1>1, <1>2, RankType, RankStep

LEMMA LocationsAll ==
    ASSUME NEW cs \in Seq(Activations), NEW ls \in Seq(Lines), StackOK(cs, ls),
           NEW m \in 1..Len(cs), \A j \in (m + 1)..Len(cs) : ~cs[j].pushed
    PROVE  LocationsAt(cs, ls, m) = ls
<1>1. Len(cs) \in Nat /\ DOMAIN cs = 1..Len(cs) /\ m \in Nat
  BY LenProperties
<1>2. \A j \in Pushed(cs) : j \in Int /\ j <= m
  BY <1>1 DEF Pushed
<1>3. UpTo(Pushed(cs), m) = Pushed(cs)
  BY <1>2 DEF UpTo
<1>4. Rank(Pushed(cs), m) = Len(ls)
  BY <1>3 DEF Rank, StackOK
<1> QED
  BY <1>4, UptoAll DEF LocationsAt

\* The code in progress as the innermost call sees it.
LEMMA WithinLocations ==
    ASSUME NEW cs \in Seq(Activations), NEW ls \in Seq(Lines), StackOK(cs, ls), cs # <<>>
    PROVE  Within(ls, Positions(cs))
<1> DEFINE n == Len(cs)
           ds == Upto(cs, n - 1)
<1>1. n \in Nat /\ n \in 1..n /\ n - 1 \in Nat /\ n - 1 <= n
  BY EmptySeq
<1>2. ds \in Seq(Activations) /\ Len(ds) = n - 1 /\ \A i \in 1..(n - 1) : ds[i] = cs[i]
  BY <1>1, UptoProperties
<1>3. LocationsAt(cs, ls, n) = ls
  BY <1>1, LocationsAll
<1>4. Within(ls, Positions(ds))
  BY <1>1, <1>3 DEF StackOK, CallFits
<1>5. Agree(ds, cs)
  BY <1>1, <1>2 DEF Agree
<1> HIDE DEF ds
<1> QED
  BY <1>2, <1>4, <1>5, PositionsAgree, PositionsType, WithinPrefix

AfterPush(cs, ls, m) == IF HasCode(cs[m]) THEN Append(ls, cs[m].line) ELSE ls

(* What debug_push_location() makes of the stack tells where the code in   *)
(* progress is, whether the calling frame m is the innermost call or, for  *)
(* a hidden call, the innermost one below some generators.                 *)
LEMMA PushTells ==
    ASSUME NEW cs \in Seq(Activations), NEW ls \in Seq(Lines), StackOK(cs, ls),
           NEW m \in 1..Len(cs), \A j \in (m + 1)..Len(cs) : cs[j].kind = "generator"
    PROVE  /\ AfterPush(cs, ls, m) \in Seq(Lines)
           /\ Within(AfterPush(cs, ls, m), Positions(cs))
           /\ NoGenerator(cs) => AfterPush(cs, ls, m) = Positions(cs)
<1> DEFINE ms == AfterPush(cs, ls, m)
           ds == Upto(cs, m)
           es == Upto(cs, m - 1)
<1>1. Len(cs) \in Nat /\ DOMAIN cs = 1..Len(cs) /\ m \in Nat /\ m <= Len(cs) /\ m - 1 \in Nat
      /\ m - 1 <= m /\ m - 1 <= Len(cs) /\ m \in 1..m
  BY LenProperties
<1>2. ds \in Seq(Activations) /\ Len(ds) = m /\ \A i \in 1..m : ds[i] = cs[i]
  BY <1>1, UptoProperties
<1>3. es \in Seq(Activations) /\ Len(es) = m - 1 /\ \A i \in 1..(m - 1) : es[i] = cs[i]
  BY <1>1, UptoProperties
<1>4. LocationsAt(cs, ls, m) = ls
  <2>1. \A j \in (m + 1)..Len(cs) : j \in 1..Len(cs)
    BY <1>1
  <2>2. \A j \in (m + 1)..Len(cs) : ~cs[j].pushed
    BY <2>1 DEF StackOK, CallFits
  <2> QED
    BY <2>2, LocationsAll
<1>5. Within(ls, Positions(es)) /\ (NoGenerator(ds) => ls = Positions(es))
  BY <1>4 DEF StackOK, CallFits
<1>6. ms = IF HasCode(cs[m]) THEN Append(ls, cs[m].line) ELSE ls
  BY DEF AfterPush
<1> HIDE DEF ds, es, ms
<1>7. Agree(ds, cs) /\ Agree(es, ds)
  <2>1. \A i \in 1..(m - 1) : i \in 1..m
    BY <1>1
  <2> QED
    BY <1>1, <1>2, <1>3, <2>1 DEF Agree
<1>8. Positions(ds) = IF HasCode(cs[m]) THEN Append(Positions(es), cs[m].line) ELSE Positions(es)
  BY <1>1, <1>2, <1>3, <1>7, PositionsGrow
<1>9. cs[m].line \in Lines /\ Positions(es) \in Seq(Lines) /\ Positions(ds) \in Seq(Lines)
      /\ Positions(cs) \in Seq(Lines)
  BY <1>2, <1>3, ActivationParts, PositionsType
<1>10. ms \in Seq(Lines)
  BY <1>9, <1>6, AppendProperties
<1>11. Within(ms, Positions(ds))
  BY <1>5, <1>8, <1>6, <1>9, WithinAppend
<1>12. Within(ms, Positions(cs))
  BY <1>2, <1>7, <1>9, <1>10, <1>11, PositionsAgree, WithinPrefix
<1>13. ASSUME NoGenerator(cs) PROVE ms = Positions(cs)
  <2>1. ASSUME m + 1 <= Len(cs) PROVE FALSE
    <3>1. Len(cs) \in (m + 1)..Len(cs) /\ Len(cs) \in 1..Len(cs)
      BY <1>1, <2>1
    <3> QED
      BY <1>1, <1>13, <3>1 DEF NoGenerator
  <2>2. \A k, n \in Nat : k <= n /\ ~(k + 1 <= n) => k = n
    OBVIOUS
  <2>3. m = Len(cs)
    BY <1>1, <2>1, <2>2
  <2>4. ds = cs
    BY <2>3, UptoAll DEF ds
  <2> QED
    BY <1>5, <1>8, <1>13, <1>6, <2>4
<1> QED
  BY <1>10, <1>12, <1>13 DEF ms

(* A call begins (vm_exec_func(), or a generator is resumed).              *)
LEMMA StackPush ==
    ASSUME NEW cs \in Seq(Activations), NEW ls \in Seq(Lines), StackOK(cs, ls), cs # <<>>,
           NEW act \in Activations, NEW ms \in Seq(Lines), NEW x \in Lines,
           ms = IF act.pushed THEN Append(ls, x) ELSE ls,
           act.pushed => act.kind # "generator",
           Within(ms, Positions(cs)),
           NoGenerator(Append(cs, act)) => ms = Positions(cs)
    PROVE  StackOK(Append(cs, act), ms)
<1> DEFINE ds == Append(cs, act)
           n  == Len(cs)
<1>1. /\ ds \in Seq(Activations) /\ Len(ds) = n + 1
      /\ \A i \in 1..n : ds[i] = cs[i]
      /\ ds[n + 1] = act
  BY AppendProperties
<1>2. n \in Nat /\ n >= 1 /\ DOMAIN cs = 1..n /\ 1 \in 1..n
  BY EmptySeq, LenProperties
<1> HIDE DEF ds, n
<1>3. \A i \in 1..n : Rank(Pushed(ds), i) = Rank(Pushed(cs), i)
  <2> TAKE i \in 1..n
  <2>1. i \in Int /\ i <= Len(cs) /\ i <= Len(ds) /\ \A j \in 1..i : j \in 1..n
    BY <1>1, <1>2 DEF n
  <2>2. \A j \in 1..i : ds[j].pushed = cs[j].pushed
    BY <1>1, <2>1
  <2> QED
    BY <1>1, <2>1, <2>2, RankPushed
<1>4. Len(ms) = Cardinality(Pushed(ds))
  <2>1. /\ Indices(Pushed(ds), n + 1) /\ DOMAIN ds = 1..(n + 1)
        /\ n + 1 \in Nat /\ n + 1 \in Int /\ n + 1 - 1 = n /\ n \in Int /\ n \in 1..n
    BY <1>1, <1>2, CodedIndices
  <2>2. Cardinality(Pushed(ds)) = Rank(Pushed(ds), n + 1)
    BY <2>1, RankStep
  <2>3. n + 1 \in Pushed(ds) <=> act.pushed
    BY <1>1, <1>2, <2>1 DEF Pushed
  <2>4. Rank(Pushed(ds), n + 1) = IF act.pushed THEN Rank(Pushed(ds), n) + 1
                                  ELSE Rank(Pushed(ds), n)
    BY <2>1, <2>3, RankStep
  <2>5. Rank(Pushed(ds), n) = Len(ls)
    <3>1. n >= Len(cs)
      BY <1>2 DEF n
    <3>2. Rank(Pushed(cs), n) = Len(ls)
      BY <2>1, <3>1, RankFits
    <3> QED
      BY <1>3, <2>1, <3>2
  <2> QED
    BY <2>2, <2>4, <2>5, AppendProperties
<1>5. \A i \in 1..n : CallFits(ds, ms, i)
  <2> TAKE i \in 1..n
  <2> DEFINE r == Rank(Pushed(cs), i)
  <2>1. CallFits(cs, ls, i) /\ ds[i] = cs[i]
    BY <1>1 DEF StackOK, n
  <2>2. i \in Int /\ i \in Nat /\ i - 1 \in Nat /\ i <= n /\ i - 1 <= n
    BY <1>2
  <2>3. r \in Nat /\ r <= Len(ls)
    BY <2>2, RankFits
  <2> HIDE DEF r
  <2>4. Upto(ms, r) = Upto(ls, r)
    BY <2>3, UptoAppend
  <2>5. Upto(ds, i) = Upto(cs, i) /\ Upto(ds, i - 1) = Upto(cs, i - 1)
    BY <2>2, UptoAppend DEF ds, n
  <2>6. LocationsAt(ds, ms, i) = LocationsAt(cs, ls, i)
    BY <1>3, <2>4 DEF LocationsAt, r
  <2> QED
    BY <2>1, <2>5, <2>6 DEF CallFits
<1>6. \A i \in 1..Len(ds) : i = n + 1 => CallFits(ds, ms, i)
  <2> SUFFICES ASSUME NEW i \in 1..Len(ds), i = n + 1 PROVE CallFits(ds, ms, i)
    OBVIOUS
  <2>1. i \in Int /\ i - 1 = n /\ i > 1 /\ i >= n + 1 /\ i = Len(ds)
    BY <1>1, <1>2
  <2>2. LocationsAt(ds, ms, i) = ms
    <3>1. Rank(Pushed(ds), i) = Len(ms)
      BY <1>1, <1>2, <1>4, <2>1, CodedIndices, RankStep
    <3> QED
      BY <3>1, UptoAll DEF LocationsAt
  <2>3. Upto(ds, i) = ds
    BY <1>1, <2>1, UptoAll
  <2>4. Upto(ds, i - 1) = cs
    BY <1>2, <2>1, UptoAppend, UptoAll DEF ds, n
  <2>5. NoGenerator(ds) => ms = Positions(cs)
    BY DEF ds
  <2>6. ds[i].pushed => i > 1 /\ ds[i].kind # "generator"
    BY <1>1, <2>1
  <2> QED
    BY <2>2, <2>3, <2>4, <2>5, <2>6 DEF CallFits
<1>7. \A i \in 1..Len(ds) : CallFits(ds, ms, i)
  <2>1. \A i \in 1..Len(ds) : i \in 1..n \/ i = n + 1
    BY <1>1, <1>2
  <2> QED
    BY <1>5, <1>6, <2>1
<1>8. ds[1].kind = "user"
  BY <1>1, <1>2 DEF StackOK
<1> QED
  BY <1>4, <1>7, <1>8 DEF StackOK, ds

(* The innermost call is over (debug_pop_location()).                      *)
LEMMA StackPop ==
    ASSUME NEW cs \in Seq(Activations), NEW ls \in Seq(Lines), StackOK(cs, ls), cs # <<>>,
           NEW ms, ms = IF cs[Len(cs)].pushed THEN Front(ls) ELSE ls
    PROVE  /\ Front(cs) \in Seq(Activations)
           /\ Len(Front(cs)) = Len(cs) - 1
           /\ ms \in Seq(Lines)
           /\ StackOK(Front(cs), ms)
<1> DEFINE n  == Len(cs)
           ds == Upto(cs, n - 1)
<1>1. Front(cs) = ds /\ Front(ls) = Upto(ls, Len(ls) - 1)
  BY DEF Front, Upto
<1>2. n \in Nat /\ n >= 1 /\ n - 1 \in Nat /\ n - 1 <= n /\ n \in 1..n /\ n \in Int /\ n - 1 \in Int
  BY EmptySeq
<1>3. ds \in Seq(Activations) /\ Len(ds) = n - 1 /\ \A i \in 1..(n - 1) : ds[i] = cs[i]
  BY <1>2, UptoProperties
<1> DEFINE k == Rank(Pushed(cs), n - 1)
<1>4. /\ k \in Nat /\ k <= Len(ls)
      /\ Len(ls) = IF cs[n].pushed THEN k + 1 ELSE k
  <2>1. k \in Nat /\ k <= Len(ls)
    BY <1>2, RankFits
  <2>2. n >= Len(cs) /\ n \in 1..Len(cs)
    BY <1>2
  <2>3. Rank(Pushed(cs), n) = Len(ls)
    BY <1>2, <2>2, RankFits
  <2>4. Rank(Pushed(cs), n) = IF cs[n].pushed THEN Rank(Pushed(cs), n - 1) + 1
                              ELSE Rank(Pushed(cs), n - 1)
    BY <1>2, <2>2, RankFits
  <2> QED
    BY <2>1, <2>3, <2>4
<1>5. cs[n].pushed => Len(ls) - 1 = k
  BY <1>4
<1> HIDE DEF n, ds, k
<1>6. ms = Upto(ls, k)
  BY <1>1, <1>4, <1>5, UptoAll DEF n
<1>7. ms \in Seq(Lines) /\ Len(ms) = k
  BY <1>4, <1>6, UptoProperties
<1>8. \A i \in 1..(n - 1) : Rank(Pushed(ds), i) = Rank(Pushed(cs), i)
  <2> TAKE i \in 1..(n - 1)
  <2>1. i \in Int /\ i <= Len(cs) /\ i <= Len(ds) /\ \A j \in 1..i : j \in 1..(n - 1)
    BY <1>2, <1>3 DEF n
  <2>2. \A j \in 1..i : ds[j].pushed = cs[j].pushed
    BY <1>3, <2>1
  <2> QED
    BY <1>3, <2>1, <2>2, RankPushed
<1>9. Len(ms) = Cardinality(Pushed(ds))
  <2>1. /\ Indices(Pushed(ds), n - 1) /\ n - 1 >= n - 1
        /\ \A j \in 1..(n - 1) : j \in 1..(n - 1) /\ ds[j].pushed = cs[j].pushed
    <3>1. Indices(Pushed(ds), n - 1)
      BY <1>3, CodedIndices
    <3> QED
      BY <1>2, <1>3, <3>1
  <2>2. Cardinality(Pushed(ds)) = Rank(Pushed(ds), n - 1)
    BY <1>2, <2>1, RankStep
  <2>3. n - 1 <= Len(cs) /\ n - 1 <= Len(ds)
    BY <1>2, <1>3 DEF n
  <2>4. Rank(Pushed(ds), n - 1) = k
    BY <1>2, <1>3, <2>1, <2>3, RankPushed DEF k
  <2> QED
    BY <1>7, <2>2, <2>4
<1>10. \A i \in 1..(n - 1) : CallFits(ds, ms, i)
  <2> TAKE i \in 1..(n - 1)
  <2>1. i \in Int /\ i \in Nat /\ i - 1 \in Nat /\ i <= n - 1 /\ i - 1 <= n - 1 /\ i \in 1..n
    BY <1>2
  <2>2. CallFits(cs, ls, i) /\ ds[i] = cs[i]
    BY <1>3, <2>1 DEF StackOK, n
  <2>3. Rank(Pushed(cs), i) \in Nat /\ Rank(Pushed(cs), i) <= k
    BY <1>2, <2>1, RankFits, RankGrows, CodedIndices DEF k
  <2>4. LocationsAt(ds, ms, i) = LocationsAt(cs, ls, i)
    BY <1>4, <1>6, <1>8, <2>3, UptoUpto DEF LocationsAt
  <2>5. Upto(ds, i) = Upto(cs, i) /\ Upto(ds, i - 1) = Upto(cs, i - 1)
    BY <1>2, <2>1, UptoUpto DEF ds, n
  <2> QED
    BY <2>2, <2>4, <2>5 DEF CallFits
<1>11. ds # <<>> => ds[1].kind = "user"
  <2> SUFFICES ASSUME ds # <<>> PROVE ds[1].kind = "user"
    OBVIOUS
  <2>1. 1 \in 1..(n - 1) /\ cs # <<>>
    BY <1>2, <1>3, EmptySeq
  <2> QED
    BY <1>3, <2>1 DEF StackOK
<1> QED
  BY <1>1, <1>3, <1>7, <1>9, <1>10, <1>11 DEF StackOK, n

(* The innermost code goes on to another position.                         *)
LEMMA StackMove ==
    ASSUME NEW cs \in Seq(Activations), NEW ls \in Seq(Lines), StackOK(cs, ls),
           NEW ds \in Seq(Activations), Len(ds) = Len(cs),
           \A i \in 1..Len(cs) : ds[i].kind = cs[i].kind /\ ds[i].pushed = cs[i].pushed,
           \A i \in 1..(Len(cs) - 1) : ds[i].line = cs[i].line
    PROVE  StackOK(ds, ls)
<1> DEFINE n == Len(cs)
<1>1. n \in Nat /\ DOMAIN cs = 1..n /\ DOMAIN ds = 1..n
  BY LenProperties
<1>2. Pushed(ds) = Pushed(cs)
  BY <1>1 DEF Pushed
<1>3. \A i \in 1..n : CallFits(ds, ls, i)
  <2> TAKE i \in 1..n
  <2>1. CallFits(cs, ls, i)
    BY DEF StackOK
  <2>2. i \in Nat /\ i - 1 \in Nat /\ i <= n /\ i - 1 <= n /\ i - 1 <= n - 1
    BY <1>1
  <2>3. /\ Upto(cs, i) \in Seq(Activations) /\ Len(Upto(cs, i)) = i
        /\ Upto(ds, i) \in Seq(Activations) /\ Len(Upto(ds, i)) = i
        /\ \A j \in 1..i : Upto(cs, i)[j] = cs[j]
        /\ \A j \in 1..i : Upto(ds, i)[j] = ds[j]
    BY <2>2, UptoProperties
  <2>4. /\ Upto(cs, i - 1) \in Seq(Activations) /\ Len(Upto(cs, i - 1)) = i - 1
        /\ Upto(ds, i - 1) \in Seq(Activations) /\ Len(Upto(ds, i - 1)) = i - 1
        /\ \A j \in 1..(i - 1) : Upto(cs, i - 1)[j] = cs[j]
        /\ \A j \in 1..(i - 1) : Upto(ds, i - 1)[j] = ds[j]
    BY <2>2, UptoProperties
  <2>5. NoGenerator(Upto(ds, i)) <=> NoGenerator(Upto(cs, i))
    <3>1. DOMAIN Upto(ds, i) = 1..i /\ DOMAIN Upto(cs, i) = 1..i
      BY <2>3, LenProperties
    <3>2. \A j \in 1..i : j \in 1..n
      BY <1>1, <2>2
    <3> QED
      BY <2>3, <3>1, <3>2 DEF NoGenerator
  <2>6. Agree(Upto(ds, i - 1), Upto(cs, i - 1))
    <3>1. \A j \in 1..(i - 1) : j \in 1..n /\ j \in 1..(n - 1)
      BY <1>1, <2>2
    <3> QED
      BY <2>2, <2>4, <3>1 DEF Agree
  <2>7. Positions(Upto(ds, i - 1)) = Positions(Upto(cs, i - 1))
    BY <2>4, <2>6, PositionsSame
  <2> QED
    BY <1>2, <2>1, <2>5, <2>7 DEF CallFits, LocationsAt
<1>4. ds # <<>> => ds[1].kind = "user"
  <2> SUFFICES ASSUME ds # <<>> PROVE ds[1].kind = "user"
    OBVIOUS
  <2>1. Len(ds) >= 1
    BY EmptySeq
  <2>2. 1 \in 1..n /\ cs # <<>>
    BY <1>1, <2>1, EmptySeq
  <2> QED
    BY <2>2 DEF StackOK
<1> QED
  BY <1>2, <1>3, <1>4 DEF StackOK

------------------------------------------------------------------------------
(* What the three ways to change calls do to the stack. *)

\* A trace is neither of the two marks that stand for having none.
LEMMA TraceNames ==
    /\ Unborn # NoTrace
    /\ \A s \in Seq(Lines) : s # Unborn /\ s # NoTrace
<1>1. Unborn # NoTrace
  BY DEF Unborn, NoTrace
<1>2. ASSUME NEW s \in Seq(Lines), s = Unborn \/ s = NoTrace
      PROVE  FALSE
  <2>1. Len(s) = 1 /\ s[1] \in {"unborn", "none"}
    BY <1>2 DEF Unborn, NoTrace
  <2>2. s[1] \in Lines
    BY <2>1, ElementOfSeq
  <2> QED
    BY <2>1, <2>2, NamesApart
<1> QED
  BY <1>1, <1>2

LEMMA InnerParts ==
    ASSUME TypeOK, StackInv, calls # <<>>
    PROVE  /\ Len(calls) \in Nat /\ Len(calls) >= 1 /\ Len(calls) \in 1..Len(calls)
           /\ DOMAIN calls = 1..Len(calls)
           /\ Inner \in Activations
           /\ Inner.kind \in {"user", "builtin", "generator"} /\ Inner.line \in Lines
           /\ Inner.pushed => Inner.kind # "generator"
<1>1. calls \in Seq(Activations)
  BY DEF TypeOK
<1>2. /\ Len(calls) \in Nat /\ Len(calls) >= 1 /\ Len(calls) \in 1..Len(calls)
      /\ DOMAIN calls = 1..Len(calls)
  BY <1>1, EmptySeq, LenProperties
<1>3. Inner \in Activations /\ Inner.kind \in {"user", "builtin", "generator"} /\ Inner.line \in Lines
  BY <1>1, <1>2, ActivationParts DEF Inner
<1>4. Inner.pushed => Inner.kind # "generator"
  BY <1>2 DEF StackInv, StackOK, CallFits, Inner
<1> QED
  BY <1>2, <1>3, <1>4

LEMMA PushedLocation ==
    ASSUME TypeOK, StackInv, calls # <<>>, NEW hidden \in BOOLEAN
    PROVE  LET tfr == CallingFrame(hidden)
           IN  /\ tfr \in 1..Len(calls) /\ calls[tfr].line \in Lines
               /\ HasCode(calls[tfr]) \in BOOLEAN
               /\ debug_push_location(tfr) \in Seq(Lines)
               /\ Within(debug_push_location(tfr), Positions(calls))
               /\ NoGenerator(calls) => debug_push_location(tfr) = Positions(calls)
<1> DEFINE tfr == CallingFrame(hidden)
           active == {i \in DOMAIN calls : calls[i].kind # "generator"}
<1>1. calls \in Seq(Activations) /\ locations \in Seq(Lines) /\ StackOK(calls, locations)
  BY DEF TypeOK, StackInv
<1>2. tfr \in 1..Len(calls) /\ \A j \in (tfr + 1)..Len(calls) : calls[j].kind = "generator"
  <2>1. CASE hidden
    <3>1. Indices(active, Len(calls))
      BY InnerParts DEF Indices
    <3>2. 1 \in active
      BY <1>1, InnerParts DEF StackOK
    <3> HIDE DEF active
    <3>3. Max(active) \in active /\ \A i \in active : i <= Max(active)
      BY <3>1, <3>2, InnerParts, MaxIsLast
    <3>4. tfr = Max(active)
      BY <2>1 DEF CallingFrame, vm_current_frame, active
    <3>5. tfr \in 1..Len(calls)
      BY <3>3, <3>4, InnerParts DEF active
    <3>6. \A j \in (tfr + 1)..Len(calls) : j \in 1..Len(calls) /\ j \notin active
      BY <3>3, <3>4, <3>5, InnerParts
    <3> QED
      BY <3>5, <3>6, InnerParts DEF active
  <2>2. CASE ~hidden
    <3>1. tfr = Len(calls)
      BY <2>2 DEF CallingFrame
    <3> QED
      BY <3>1, InnerParts
  <2> QED
    BY <2>1, <2>2
<1> HIDE DEF tfr
<1>3. calls[tfr].line \in Lines
  BY <1>1, <1>2, ActivationParts
<1>4. /\ debug_push_location(tfr) \in Seq(Lines)
      /\ Within(debug_push_location(tfr), Positions(calls))
      /\ NoGenerator(calls) => debug_push_location(tfr) = Positions(calls)
  <2>1. debug_push_location(tfr) = AfterPush(calls, locations, tfr)
    BY DEF debug_push_location, AfterPush
  <2> QED
    BY <1>1, <1>2, <2>1, PushTells
<1>5. HasCode(calls[tfr]) \in BOOLEAN
  BY DEF HasCode
<1> QED
  BY <1>2, <1>3, <1>4, <1>5 DEF tfr

LEMMA PoppedLocation ==
    ASSUME TypeOK, StackInv, calls # <<>>
    PROVE  /\ Outer \in Seq(Activations) /\ Len(Outer) = Len(calls) - 1
           /\ debug_pop_location(Inner) \in Seq(Lines)
           /\ StackOK(Outer, debug_pop_location(Inner))
           /\ Inner.kind = "generator" => debug_pop_location(Inner) = locations
           /\ NoGenerator(calls) => NoGenerator(Outer)
           /\ ~HasCode(Inner) => Positions(Outer) = Positions(calls)
           /\ Outer = <<>> => Inner.kind = "user"
<1>1. calls \in Seq(Activations) /\ locations \in Seq(Lines) /\ StackOK(calls, locations)
  BY DEF TypeOK, StackInv
<1>2. /\ Outer \in Seq(Activations) /\ Len(Outer) = Len(calls) - 1
      /\ debug_pop_location(Inner) \in Seq(Lines)
      /\ StackOK(Outer, debug_pop_location(Inner))
  BY <1>1, StackPop DEF Outer, Inner, debug_pop_location
<1>3. Inner.kind = "generator" => debug_pop_location(Inner) = locations
  BY InnerParts DEF debug_pop_location
<1>4. \A i \in 1..Len(Outer) : i \in 1..Len(calls) /\ Outer[i] = calls[i]
  <2>1. Len(calls) - 1 \in Nat /\ Len(calls) - 1 <= Len(calls)
    BY InnerParts
  <2>2. \A i \in 1..(Len(calls) - 1) : Outer[i] = calls[i]
    BY <1>1, <2>1, UptoProperties DEF Outer, Front, Upto
  <2> QED
    BY <1>2, <2>1, <2>2
<1>5. NoGenerator(calls) => NoGenerator(Outer)
  <2>1. DOMAIN Outer = 1..Len(Outer) /\ DOMAIN calls = 1..Len(calls)
    BY <1>2, InnerParts, LenProperties
  <2> QED
    BY <1>4, <2>1 DEF NoGenerator
<1>6. ~HasCode(Inner) => Positions(Outer) = Positions(calls)
  <2>1. Agree(Outer, calls) /\ Len(calls) = Len(Outer) + 1
    BY <1>2, <1>4, InnerParts DEF Agree
  <2> QED
    BY <1>1, <1>2, <2>1, PositionsGrow DEF Inner
<1>7. Outer = <<>> => Inner.kind = "user"
  <2> SUFFICES ASSUME Outer = <<>> PROVE Inner.kind = "user"
    OBVIOUS
  <2>1. Len(Outer) = 0
    BY EmptySeq
  <2>2. Len(calls) = 1
    BY <1>2, <2>1, InnerParts
  <2> QED
    BY <1>1, <2>2 DEF Inner, StackOK
<1> QED
  BY <1>2, <1>3, <1>5, <1>6, <1>7

LEMMA MovedLocation ==
    ASSUME TypeOK, StackInv, calls # <<>>, NEW line \in Lines, NEW tries \in BOOLEAN
    PROVE  /\ GoneTo(line, tries) \in Seq(Activations)
           /\ Len(GoneTo(line, tries)) = Len(calls)
           /\ StackOK(GoneTo(line, tries), locations)
<1> DEFINE act == [Inner EXCEPT !.line = line, !.tries = tries]
           ds  == GoneTo(line, tries)
<1>1. calls \in Seq(Activations) /\ locations \in Seq(Lines) /\ StackOK(calls, locations)
  BY DEF TypeOK, StackInv
<1>2. act \in Activations /\ act.kind = Inner.kind /\ act.pushed = Inner.pushed
  BY InnerParts DEF Activations
<1> HIDE DEF act
<1>3. /\ ds \in Seq(Activations) /\ Len(ds) = Len(calls)
      /\ \A i \in 1..Len(calls) : ds[i] = IF i = Len(calls) THEN act ELSE calls[i]
  BY <1>1, <1>2, InnerParts, ExceptSeq DEF GoneTo, act
<1> HIDE DEF ds
<1>4. \A i \in 1..Len(calls) : ds[i].kind = calls[i].kind /\ ds[i].pushed = calls[i].pushed
  BY <1>2, <1>3 DEF Inner
<1>5. \A i \in 1..(Len(calls) - 1) : i \in 1..Len(calls) /\ i # Len(calls)
  <2>1. \A n \in Nat : \A i \in 1..(n - 1) : i \in 1..n /\ i # n
    OBVIOUS
  <2> QED
    BY <2>1, InnerParts
<1>6. \A i \in 1..(Len(calls) - 1) : ds[i].line = calls[i].line
  BY <1>3, <1>5
<1>7. StackOK(ds, locations)
  BY <1>1, <1>3, <1>4, <1>6, StackMove
<1> QED
  BY <1>3, <1>7 DEF ds

------------------------------------------------------------------------------
(* Each part of the invariant is kept. *)

\* The part that is about the two stacks.
CallsOK == /\ calls \in Seq(Activations) /\ Len(calls) <= MaxCalls
           /\ locations \in Seq(Lines)
           /\ StackInv

\* A script starts on an empty stack.
LEMMA StackEmpty == StackOK(<<>>, <<>>)
<1>1. DOMAIN <<>> = {} /\ Len(<<>>) = 0
  OBVIOUS
<1>2. Pushed(<<>>) = {}
  BY <1>1 DEF Pushed
<1> QED
  BY <1>1, <1>2, FS_EmptySet DEF StackOK

LEMMA StackStart ==
    ASSUME NEW act \in Activations, act.kind = "user", act.pushed = FALSE
    PROVE  StackOK(<<act>>, <<>>)
<1> DEFINE cs == <<act>>
<1>1. cs \in Seq(Activations) /\ Len(cs) = 1 /\ cs[1] = act /\ DOMAIN cs = 1..1
  OBVIOUS
<1>2. <<>> \in Seq(Activations) /\ DOMAIN <<>> = {} /\ Len(<<>>) = 0 /\ <<>> \in Seq(Lines)
  OBVIOUS
<1> HIDE DEF cs
<1>3. Pushed(cs) = {} /\ Pushed(<<>>) = {}
  BY <1>1, <1>2 DEF Pushed
<1>4. Cardinality({}) = 0
  BY FS_EmptySet
<1>5. Upto(cs, 0) = <<>> /\ Upto(<<>>, 0) = <<>>
  BY SubSeqEmpty DEF Upto
<1>6. Positions(<<>>) = <<>>
  <2>1. Coded(<<>>) = {}
    BY <1>2 DEF Coded
  <2>2. Len(Positions(<<>>)) = 0 /\ Positions(<<>>) \in Seq(Lines)
    BY <1>2, <1>4, <2>1, PositionsType
  <2> QED
    BY <2>2, EmptySeq
<1>7. Rank(Pushed(cs), 1) = 0
  <2>1. UpTo(Pushed(cs), 1) = {}
    BY <1>3 DEF UpTo
  <2> QED
    BY <1>4, <2>1 DEF Rank
<1>8. LocationsAt(cs, <<>>, 1) = <<>>
  BY <1>5, <1>7 DEF LocationsAt
<1>9. Within(<<>>, <<>>)
  <2>1. [i \in {} |-> 1] \in [DOMAIN <<>> -> DOMAIN <<>>]
    BY <1>2
  <2> QED
    BY <1>2, <2>1 DEF Within
<1>10. CallFits(cs, <<>>, 1)
  <2>1. Upto(cs, 1 - 1) = <<>>
    BY <1>5
  <2> QED
    BY <1>1, <1>6, <1>8, <1>9, <2>1 DEF CallFits
<1>11. \A i \in 1..Len(cs) : i = 1
  BY <1>1
<1>12. StackOK(cs, <<>>)
  BY <1>1, <1>2, <1>3, <1>4, <1>10, <1>11 DEF StackOK
<1> QED
  BY <1>12 DEF cs

LEMMA StartStack ==
    ASSUME Inv, NEW line \in Lines, Start(line)
    PROVE  CallsOK'
<1> DEFINE act == Activation("user", line, None, FALSE, FALSE)
<1>1. act \in Activations /\ act.kind = "user" /\ act.pushed = FALSE
  BY DEF Activation, Activations
<1>2. locations = <<>>
  <2>1. Pushed(calls) = {}
    BY DEF Start, Pushed
  <2>2. Len(locations) = 0 /\ locations \in Seq(Lines)
    BY <2>1, FS_EmptySet DEF Inv, TypeOK, StackInv, StackOK
  <2> QED
    BY <2>2, EmptySeq
<1>3. calls' = <<act>> /\ locations' = <<>>
  BY <1>2 DEF Start
<1> HIDE DEF act
<1>4. <<act>> \in Seq(Activations) /\ Len(<<act>>) = 1 /\ 1 <= MaxCalls /\ <<>> \in Seq(Lines)
  BY <1>1, CallBounds
<1>5. StackOK(<<act>>, <<>>)
  BY <1>1, StackStart
<1> QED
  BY <1>3, <1>4, <1>5 DEF CallsOK, StackInv

LEMMA CallStack ==
    ASSUME Inv, NEW line \in Lines, NEW kind \in {"user", "builtin"}, NEW hidden \in BOOLEAN,
           Call(kind, line, hidden)
    PROVE  CallsOK'
<1> DEFINE tfr == CallingFrame(hidden)
           act == Activation(kind, line, None, HasCode(calls[tfr]), hidden)
<1>1. /\ calls # <<>> /\ Len(calls) < MaxCalls
      /\ calls' = Append(calls, act)
      /\ locations' = debug_push_location(tfr)
      /\ calls \in Seq(Activations) /\ locations \in Seq(Lines) /\ StackOK(calls, locations)
      /\ TypeOK /\ StackInv
  BY DEF Call, Inv, TypeOK, StackInv
<1>2. /\ calls[tfr].line \in Lines
      /\ HasCode(calls[tfr]) \in BOOLEAN
      /\ debug_push_location(tfr) \in Seq(Lines)
      /\ Within(debug_push_location(tfr), Positions(calls))
      /\ NoGenerator(calls) => debug_push_location(tfr) = Positions(calls)
  BY <1>1, PushedLocation
<1> HIDE DEF tfr
<1>3. act \in Activations /\ act.kind # "generator" /\ act.pushed = HasCode(calls[tfr])
  BY <1>2 DEF Activation, Activations
<1> HIDE DEF act
<1>4. debug_push_location(tfr) = IF act.pushed THEN Append(locations, calls[tfr].line) ELSE locations
  BY <1>3 DEF debug_push_location
<1>5. NoGenerator(Append(calls, act)) => NoGenerator(calls)
  BY <1>1, <1>3, AppendProperties, LenProperties DEF NoGenerator
<1>6. StackOK(Append(calls, act), debug_push_location(tfr))
  BY <1>1, <1>2, <1>3, <1>4, <1>5, StackPush
<1>7. Append(calls, act) \in Seq(Activations) /\ Len(Append(calls, act)) = Len(calls) + 1
  BY <1>1, <1>3, AppendProperties
<1>8. Len(calls) + 1 <= MaxCalls
  BY <1>1, CallBounds, LenProperties
<1> QED
  BY <1>1, <1>2, <1>6, <1>7, <1>8 DEF CallsOK, StackInv

LEMMA ResumeStack ==
    ASSUME Inv, NEW g \in Generators, Resume(g)
    PROVE  CallsOK'
<1> DEFINE act == Activation("generator", generators[g].line, g, FALSE, FALSE)
<1>1. /\ calls # <<>> /\ Len(calls) < MaxCalls
      /\ calls' = Append(calls, act)
      /\ locations' = locations
      /\ calls \in Seq(Activations) /\ locations \in Seq(Lines) /\ StackOK(calls, locations)
  BY DEF Resume, Inv, TypeOK, StackInv
<1>2. generators[g].line \in Lines
  BY DEF Resume, Inv, TypeOK
<1>3. act \in Activations /\ act.kind = "generator" /\ act.pushed = FALSE
  BY <1>2 DEF Activation, Activations
<1> HIDE DEF act
<1>4. Within(locations, Positions(calls))
  BY <1>1, WithinLocations
<1>5. ~NoGenerator(Append(calls, act))
  <2>1. Len(calls) + 1 \in DOMAIN Append(calls, act) /\ Append(calls, act)[Len(calls) + 1] = act
    BY <1>1, <1>3, AppendProperties, LenProperties
  <2> QED
    BY <1>3, <2>1 DEF NoGenerator
<1>6. StackOK(Append(calls, act), locations)
  BY <1>1, <1>2, <1>3, <1>4, <1>5, StackPush
<1>7. Append(calls, act) \in Seq(Activations) /\ Len(Append(calls, act)) = Len(calls) + 1
  BY <1>1, <1>3, AppendProperties
<1>8. Len(calls) + 1 <= MaxCalls
  BY <1>1, CallBounds, LenProperties
<1> QED
  BY <1>1, <1>6, <1>7, <1>8 DEF CallsOK, StackInv

LEMMA StackStep ==
    Inv /\ Next => CallsOK'
<1> SUFFICES ASSUME Inv, Next PROVE CallsOK'
  OBVIOUS
<1> USE DEF Inv
<1>1. ASSUME NEW line \in Lines, Start(line) PROVE CallsOK'
  BY <1>1, StartStack
<1>2. ASSUME NEW line \in Lines, NEW tries \in BOOLEAN, Step(line, tries) PROVE CallsOK'
  <2>1. calls # <<>> /\ calls' = GoneTo(line, tries) /\ locations' = locations
    BY <1>2 DEF Step, CodeRuns
  <2> QED
    BY <2>1, MovedLocation DEF TypeOK, CallsOK, StackInv
<1>3. ASSUME NEW line \in Lines, NEW kind \in {"user", "builtin"}, NEW hidden \in BOOLEAN,
             Call(kind, line, hidden)
      PROVE  CallsOK'
  BY <1>3, CallStack
<1>4. ASSUME NEW line \in Lines, Handle(line) PROVE CallsOK'
  <2>1. calls # <<>> /\ calls' = GoneTo(line, FALSE) /\ locations' = locations
    BY <1>4 DEF Handle, CodeRuns
  <2> QED
    BY <2>1, MovedLocation DEF TypeOK, CallsOK, StackInv
<1>5. ASSUME NEW g \in Generators, Resume(g) PROVE CallsOK'
  BY <1>5, ResumeStack
<1>6. ASSUME calls # <<>>, calls' = Outer, locations' = debug_pop_location(Inner)
      PROVE  CallsOK'
  <2>1. Outer \in Seq(Activations) /\ debug_pop_location(Inner) \in Seq(Lines)
        /\ StackOK(Outer, debug_pop_location(Inner))
    BY <1>6, PoppedLocation
  <2>2. Len(Outer) <= MaxCalls
    <3>1. Len(calls) \in Nat /\ Len(Outer) = Len(calls) - 1 /\ Len(calls) <= MaxCalls
      BY <1>6, InnerParts, PoppedLocation DEF TypeOK
    <3> QED
      BY <3>1, CallBounds
  <2> QED
    BY <1>6, <2>1, <2>2 DEF CallsOK, StackInv
<1>7. ASSUME NEW g \in Generators, MakeGenerator(g) PROVE CallsOK'
  BY <1>6, <1>7 DEF MakeGenerator, CodeRuns
<1>8. CASE Return \/ Propagate \/ Leave
  BY <1>6, <1>8 DEF Return, Propagate, Leave, Unwound, CodeRuns, BuiltinRuns
<1>9. CASE Yield
  BY <1>6, <1>9, PoppedLocation DEF Yield, CodeRuns
<1>10. CASE Exit
  <2>1. calls' = <<>> /\ locations' = <<>>
    BY <1>10 DEF Exit
  <2>2. <<>> \in Seq(Activations) /\ <<>> \in Seq(Lines) /\ Len(<<>>) = 0 /\ 0 <= MaxCalls
    BY CallBounds
  <2> QED
    BY <2>1, <2>2, StackEmpty DEF CallsOK, StackInv
<1>11. CASE UNCHANGED <<calls, locations>>
  BY <1>11 DEF TypeOK, CallsOK, StackInv
<1>12. ASSUME NEW e \in Exceptions,
              \/ \E hidden \in BOOLEAN : RefuseCall(e, hidden)
              \/ \E g \in Generators : RefuseResume(g, e)
              \/ RaiseNew(e) \/ err_set_from_user(e) \/ Ghost(e) \/ Unreported(e) \/ DropException(e)
       PROVE  UNCHANGED <<calls, locations>>
  BY <1>12 DEF RefuseCall, RefuseResume, RaiseNew, err_set_from_user, Ghost, Unreported, DropException
<1>13. ASSUME NEW g \in Generators, AskFailed(g) \/ DropGenerator(g)
       PROVE  UNCHANGED <<calls, locations>>
  BY <1>13 DEF AskFailed, DropGenerator
<1>14. ASSUME TakeGhost \/ ClearGhost \/ err_clear \/ err_print_last
       PROVE  UNCHANGED <<calls, locations>>
  BY <1>14 DEF TakeGhost, ClearGhost, err_clear, err_print_last
<1> QED
  BY <1>1, <1>2, <1>3, <1>4, <1>5, <1>7, <1>8, <1>9, <1>10, <1>11, <1>12, <1>13, <1>14 DEF Next

\* The part that is about generators.
GeneratorStates == [state : {"none", "running", "done", "error"}]
                   \cup [state : {"stopped"}, line : Lines]
GeneratorsOK == generators \in [Generators -> GeneratorStates]

LEMMA GeneratorsStep ==
    Inv /\ Next => GeneratorsOK'
<1> SUFFICES ASSUME Inv, Next PROVE GeneratorsOK'
  OBVIOUS
<1> USE DEF Inv
<1>1. GeneratorsOK
  BY DEF TypeOK, GeneratorsOK, GeneratorStates
<1>2. ASSUME NEW g, NEW now \in GeneratorStates, generators' = [generators EXCEPT ![g] = now]
      PROVE  GeneratorsOK'
  BY <1>1, <1>2 DEF GeneratorsOK
<1>3. CASE UNCHANGED generators
  BY <1>1, <1>3 DEF GeneratorsOK
<1>4. /\ \A s \in {"none", "running", "done", "error"} : [state |-> s] \in GeneratorStates
      /\ \A line \in Lines : [state |-> "stopped", line |-> line] \in GeneratorStates
  BY DEF GeneratorStates
<1>5. ASSUME NEW line \in Lines,
             \/ Start(line) \/ Handle(line)
             \/ \E tries \in BOOLEAN : Step(line, tries)
             \/ \E kind \in {"user", "builtin"}, hidden \in BOOLEAN : Call(kind, line, hidden)
      PROVE  UNCHANGED generators
  BY <1>5 DEF Start, Handle, Step, Call
<1>6. ASSUME NEW e \in Exceptions,
             \/ \E hidden \in BOOLEAN : RefuseCall(e, hidden)
             \/ RaiseNew(e) \/ err_set_from_user(e) \/ Ghost(e) \/ Unreported(e) \/ DropException(e)
      PROVE  UNCHANGED generators
  BY <1>6 DEF RefuseCall, RaiseNew, err_set_from_user, Ghost, Unreported, DropException
<1>7. ASSUME NEW e \in Exceptions, NEW g \in Generators, RefuseResume(g, e) PROVE GeneratorsOK'
  BY <1>2, <1>4, <1>7 DEF RefuseResume
<1>8. ASSUME NEW g \in Generators, MakeGenerator(g) PROVE GeneratorsOK'
  <2>1. Inner.line \in Lines
    BY <1>8, InnerParts DEF MakeGenerator, CodeRuns
  <2> QED
    BY <1>2, <1>4, <1>8, <2>1 DEF MakeGenerator
<1>9. ASSUME NEW g \in Generators, Resume(g) \/ DropGenerator(g) PROVE GeneratorsOK'
  BY <1>2, <1>4, <1>9 DEF Resume, DropGenerator
<1>10. ASSUME NEW g \in Generators, AskFailed(g) PROVE UNCHANGED generators
  BY <1>10 DEF AskFailed
<1>11. CASE Yield
  <2>1. Inner.line \in Lines
    BY <1>11, InnerParts DEF Yield, CodeRuns
  <2> QED
    BY <1>2, <1>4, <1>11, <2>1 DEF Yield
<1>12. CASE Return
  BY <1>2, <1>3, <1>4, <1>12 DEF Return
<1>13. CASE Leave
  BY <1>2, <1>3, <1>4, <1>13 DEF Leave
<1>14. CASE Exit
  BY <1>4, <1>14 DEF Exit, GeneratorsOK
<1>15. CASE TakeGhost \/ ClearGhost \/ err_clear \/ Propagate \/ err_print_last
  BY <1>3, <1>15 DEF TakeGhost, ClearGhost, err_clear, Propagate, err_print_last
<1> QED
  BY <1>3, <1>5, <1>6, <1>7, <1>8, <1>9, <1>10, <1>11, <1>12, <1>13, <1>14, <1>15 DEF Next

\* The part that is about the exception under way and its trace.
Traces == {Unborn, NoTrace} \cup Seq(Lines)
HasTrace(trace) == trace \notin {Unborn, NoTrace}

ErrorsTyped == /\ debug_error \in BOOLEAN
               /\ pending \in Exceptions \cup {None}
               /\ traces \in [Exceptions -> Traces]
               /\ pending # None => traces[pending] # Unborn
               /\ failing \in {"no", "own", "called", "hidden"}
               /\ raised \in Exceptions \cup {None}
               /\ story \in [lines : Seq(Lines), exact : BOOLEAN]

\* Taking the trace: the pending exception has one afterwards.
LEMMA MarkedTrace ==
    ASSUME Inv, err_occurred, NEW trace \in Seq(Lines)
    PROVE  /\ Marked(trace) \in [Exceptions -> Traces]
           /\ HasTrace(Marked(trace)[pending])
           /\ \A e \in Exceptions : e # pending => Marked(trace)[e] = traces[e]
           /\ HasTrace(traces[pending]) => Marked(trace) = traces
           /\ Marked(trace)[pending] \in {traces[pending], trace}
<1>1. /\ traces \in [Exceptions -> Traces] /\ pending \in Exceptions
      /\ traces[pending] # Unborn
      /\ debug_error => HasTrace(traces[pending])
  BY DEF Inv, TypeOK, Traces, err_occurred, Fresh, NoTraceLost, HasTrace
<1>2. trace \in Traces /\ HasTrace(trace)
  BY TraceNames DEF Traces, HasTrace
<1>3. CASE ~debug_error /\ traces[pending] = NoTrace
  <2>1. Marked(trace) = [traces EXCEPT ![pending] = trace]
    BY <1>3 DEF Marked
  <2> QED
    BY <1>1, <1>2, <1>3, <2>1 DEF HasTrace
<1>4. CASE ~(~debug_error /\ traces[pending] = NoTrace)
  <2>1. Marked(trace) = traces
    BY <1>4 DEF Marked
  <2>2. HasTrace(traces[pending])
    BY <1>1, <1>4 DEF HasTrace
  <2> QED
    BY <1>1, <2>1, <2>2
<1> QED
  BY <1>3, <1>4

LEMMA StoryType ==
    ASSUME Inv
    PROVE  /\ [lines |-> Positions(calls), exact |-> NoGenerator(calls)]
                \in [lines : Seq(Lines), exact : BOOLEAN]
           /\ NoStory \in [lines : Seq(Lines), exact : BOOLEAN]
<1>1. calls \in Seq(Activations)
  BY DEF Inv, TypeOK
<1>2. Positions(calls) \in Seq(Lines)
  BY <1>1, PositionsType
<1>3. NoGenerator(calls) \in BOOLEAN
  BY DEF NoGenerator
<1>4. <<>> \in Seq(Lines)
  OBVIOUS
<1> QED
  BY <1>2, <1>3, <1>4 DEF NoStory

LEMMA ErrorsStep ==
    Inv /\ Next => ErrorsTyped' /\ NoTraceLost'
<1> SUFFICES ASSUME Inv, Next PROVE ErrorsTyped' /\ NoTraceLost'
  OBVIOUS
<1>1. ErrorsTyped /\ NoTraceLost /\ None \notin Exceptions
  BY NamesApart DEF Inv, TypeOK, ErrorsTyped, Traces, Fresh
<1>2. NoTrace \in Traces /\ Unborn \in Traces /\ NoTrace # Unborn
  BY TraceNames DEF Traces
<1> USE DEF ErrorsTyped, NoTraceLost, OK, err_occurred
<1>3. ASSUME NEW line \in Lines,
             \/ \E tries \in BOOLEAN : Step(line, tries)
             \/ \E kind \in {"user", "builtin"}, hidden \in BOOLEAN : Call(kind, line, hidden)
      PROVE  ErrorsTyped' /\ NoTraceLost'
  BY <1>1, <1>3 DEF Step, Call
<1>4. ASSUME NEW line \in Lines, Start(line) PROVE ErrorsTyped' /\ NoTraceLost'
  BY <1>1, <1>4 DEF Start
<1>5. ASSUME NEW line \in Lines, Handle(line) PROVE ErrorsTyped' /\ NoTraceLost'
  BY <1>1, <1>5, StoryType DEF Handle, Settled
<1>6. ASSUME NEW e \in Exceptions, NEW hidden \in BOOLEAN, RefuseCall(e, hidden)
      PROVE  ErrorsTyped' /\ NoTraceLost'
  <2>1. calls # <<>> /\ TypeOK /\ StackInv
    BY <1>6 DEF RefuseCall, Inv
  <2> DEFINE trace == debug_push_location(CallingFrame(hidden))
  <2>2. trace \in Traces /\ HasTrace(trace)
    <3>1. trace \in Seq(Lines)
      BY <2>1, PushedLocation
    <3> QED
      BY <3>1, TraceNames DEF Traces, HasTrace
  <2>3. ~debug_error
    BY <1>1, <1>6 DEF RefuseCall
  <2> HIDE DEF trace
  <2>4. /\ traces' = [traces EXCEPT ![e] = trace] /\ pending' = e /\ debug_error' = TRUE
        /\ failing' \in {"called", "hidden"} /\ raised' = e /\ calls' = calls
    BY <1>6, <2>3 DEF RefuseCall, Fail, replace_exception, trace
  <2>5. story' \in [lines : Seq(Lines), exact : BOOLEAN]
    BY <1>6, StoryType DEF RefuseCall, Fail
  <2> QED
    BY <1>1, <2>2, <2>4, <2>5 DEF HasTrace
<1>7. ASSUME NEW e \in Exceptions, RaiseNew(e) PROVE ErrorsTyped' /\ NoTraceLost'
  BY <1>1, <1>2, <1>7, StoryType DEF RaiseNew, err_setstr, replace_exception, Fail
<1>8. ASSUME NEW e \in Exceptions, err_set_from_user(e) PROVE ErrorsTyped' /\ NoTraceLost'
  BY <1>1, <1>8, StoryType DEF err_set_from_user, replace_exception, Fail, CodeRuns, Fresh
<1>9. ASSUME NEW e \in Exceptions, Ghost(e) PROVE ErrorsTyped' /\ NoTraceLost'
  BY <1>1, <1>2, <1>9 DEF Ghost, err_setstr, replace_exception
<1>10. ASSUME NEW e \in Exceptions, Unreported(e) PROVE ErrorsTyped' /\ NoTraceLost'
  BY <1>1, <1>2, <1>10 DEF Unreported, err_setstr, replace_exception, CodeRuns
<1>11. ASSUME NEW e \in Exceptions, DropException(e) PROVE ErrorsTyped' /\ NoTraceLost'
  BY <1>1, <1>2, <1>11 DEF DropException
<1>12. ASSUME NEW e \in Exceptions, NEW g \in Generators, RefuseResume(g, e)
       PROVE  ErrorsTyped' /\ NoTraceLost'
  <2>1. calls # <<>> /\ generators[g].line \in Lines /\ locations \in Seq(Lines)
        /\ calls \in Seq(Activations)
    BY <1>12 DEF RefuseResume, Inv, TypeOK
  <2> DEFINE trace == Append(locations, generators[g].line)
  <2>2. trace \in Traces /\ HasTrace(trace)
    <3>1. trace \in Seq(Lines)
      BY <2>1, AppendProperties
    <3> QED
      BY <3>1, TraceNames DEF Traces, HasTrace
  <2>3. ~debug_error
    BY <1>1, <1>12 DEF RefuseResume
  <2> HIDE DEF trace
  <2>4. /\ traces' = [traces EXCEPT ![e] = trace] /\ pending' = e /\ debug_error' = TRUE
        /\ failing' = "called" /\ raised' = e /\ calls' = calls
    BY <1>12, <2>3 DEF RefuseResume, replace_exception, trace
  <2>5. story' \in [lines : Seq(Lines), exact : BOOLEAN]
    <3>1. Append(Positions(calls), generators[g].line) \in Seq(Lines)
      BY <2>1, PositionsType, AppendProperties
    <3> QED
      BY <1>12, <3>1 DEF RefuseResume
  <2> QED
    BY <1>1, <2>2, <2>4, <2>5 DEF HasTrace
<1>13. ASSUME NEW g \in Generators, MakeGenerator(g) \/ Resume(g) \/ DropGenerator(g)
       PROVE  ErrorsTyped' /\ NoTraceLost'
  <2>1. /\ UNCHANGED <<debug_error, pending, traces, failing, raised, story>>
        /\ failing = "no" \/ calls' = calls
    BY <1>13 DEF MakeGenerator, Resume, DropGenerator
  <2> QED
    BY <1>1, <2>1
<1>14. ASSUME NEW g \in Generators, AskFailed(g) PROVE ErrorsTyped' /\ NoTraceLost'
  BY <1>1, <1>14, StoryType DEF AskFailed, Fail
<1>15. CASE Return \/ Yield
  BY <1>1, <1>15 DEF Return, Yield
<1>16. CASE Exit
  BY <1>1, <1>2, <1>16 DEF Exit
<1>17. CASE TakeGhost
  BY <1>1, <1>17, StoryType DEF TakeGhost, Fail
<1>18. CASE ClearGhost
  BY <1>1, <1>18 DEF ClearGhost
<1>19. CASE err_clear
  BY <1>1, <1>19, StoryType DEF err_clear, Settled
<1>20. CASE Propagate
  <2>1. calls # <<>> /\ TypeOK /\ StackInv /\ Inner.kind = "builtin"
    BY <1>20 DEF Propagate, BuiltinRuns, HasCode, Inv
  <2>2. Outer # <<>>
    BY <2>1, PoppedLocation
  <2>3. /\ UNCHANGED <<debug_error, pending, traces, raised, story>>
        /\ failing' \in {"called", "hidden"} /\ failing # "no" /\ calls' = Outer
    BY <1>20 DEF Propagate, Unwound
  <2> QED
    BY <1>1, <2>2, <2>3
<1>21. CASE Leave
  <2>1. calls # <<>> /\ TypeOK /\ StackInv /\ locations \in Seq(Lines)
    BY <1>21 DEF Leave, CodeRuns, Inv, TypeOK
  <2>2. Append(locations, Inner.line) \in Seq(Lines)
    BY <2>1, InnerParts, AppendProperties
  <2>3. /\ traces' \in [Exceptions -> Traces] /\ HasTrace(traces'[pending])
    BY <1>21, <2>2, MarkedTrace DEF Leave
  <2>4. /\ debug_error' = TRUE /\ UNCHANGED <<pending, raised, story>> /\ pending # None
        /\ failing' \in {"called", "hidden"} /\ failing # "no"
    BY <1>21 DEF Leave, Unwound
  <2> QED
    BY <1>1, <2>3, <2>4 DEF HasTrace
<1>22. CASE err_print_last
  BY <1>1, <1>22, StoryType DEF err_print_last, Settled
<1> QED
  BY <1>3, <1>4, <1>5, <1>6, <1>7, <1>8, <1>9, <1>10, <1>11, <1>12, <1>13, <1>14, <1>15,
     <1>16, <1>17, <1>18, <1>19, <1>20, <1>21, <1>22 DEF Next

(* Until a trace is taken, the failing step's account of where all the     *)
(* code is stays right: only calls without code end before that.           *)
LEMMA StoryStep ==
    Inv /\ Next => StoryTold'
<1> SUFFICES ASSUME Inv, Next PROVE StoryTold'
  OBVIOUS
<1> USE DEF StoryTold, OK
<1>1. StoryTold
  BY DEF Inv
<1>2. CASE failing' = "no" \/ debug_error'
  BY <1>2
<1>3. ASSUME NEW e, Fail("own", e, Positions(calls)) \/ Fail("called", e, Positions(calls)),
             UNCHANGED calls
      PROVE  StoryTold'
  BY <1>3 DEF Fail, NoGenerator
<1>4. CASE UNCHANGED <<calls, debug_error, failing, story>>
  BY <1>1, <1>4
<1>5. ASSUME NEW line \in Lines,
             \/ Start(line) \/ Handle(line)
             \/ \E tries \in BOOLEAN : Step(line, tries)
             \/ \E kind \in {"user", "builtin"}, hidden \in BOOLEAN : Call(kind, line, hidden)
      PROVE  StoryTold'
  BY <1>2, <1>5 DEF Start, Handle, Step, Call, Settled
<1>6. ASSUME NEW e \in Exceptions, \E hidden \in BOOLEAN : RefuseCall(e, hidden)
      PROVE  StoryTold'
  BY <1>2, <1>6 DEF RefuseCall
<1>7. ASSUME NEW e \in Exceptions, RaiseNew(e) \/ err_set_from_user(e)
      PROVE  StoryTold'
  BY <1>3, <1>7 DEF RaiseNew, err_set_from_user
<1>8. ASSUME NEW e \in Exceptions, Ghost(e) \/ Unreported(e) \/ DropException(e)
      PROVE  StoryTold'
  BY <1>4, <1>8 DEF Ghost, Unreported, DropException
<1>9. ASSUME NEW e \in Exceptions, NEW g \in Generators, RefuseResume(g, e)
      PROVE  StoryTold'
  BY <1>2, <1>9 DEF RefuseResume
<1>10. ASSUME NEW g \in Generators, MakeGenerator(g) \/ Resume(g) PROVE StoryTold'
  BY <1>2, <1>10 DEF MakeGenerator, Resume
<1>11. ASSUME NEW g \in Generators, DropGenerator(g) PROVE StoryTold'
  BY <1>4, <1>11 DEF DropGenerator
<1>12. ASSUME NEW g \in Generators, AskFailed(g) PROVE StoryTold'
  BY <1>3, <1>12 DEF AskFailed
<1>13. CASE TakeGhost
  BY <1>3, <1>13 DEF TakeGhost
<1>14. CASE Return \/ Yield \/ Exit \/ ClearGhost \/ err_clear \/ err_print_last
  BY <1>2, <1>14 DEF Return, Yield, Exit, ClearGhost, err_clear, err_print_last, Settled
<1>15. CASE Leave
  BY <1>2, <1>15 DEF Leave
<1>16. CASE Propagate
  <2>1. calls # <<>> /\ TypeOK /\ StackInv /\ ~HasCode(Inner)
    BY <1>16 DEF Propagate, BuiltinRuns, Inv
  <2>2. /\ Positions(Outer) = Positions(calls)
        /\ NoGenerator(calls) => NoGenerator(Outer)
    BY <2>1, PoppedLocation
  <2>3. failing # "no" /\ calls' = Outer /\ UNCHANGED <<story, debug_error>>
    BY <1>16 DEF Propagate, Unwound
  <2> QED
    BY <1>1, <2>2, <2>3
<1> QED
  BY <1>5, <1>6, <1>7, <1>8, <1>9, <1>10, <1>11, <1>12, <1>13, <1>14, <1>15, <1>16 DEF Next

LEMMA InitHolds == Init => Inv
<1> SUFFICES ASSUME Init PROVE Inv
  OBVIOUS
<1>1. TypeOK
  <2>1. <<>> \in Seq(Activations) /\ <<>> \in Seq(Lines) /\ Len(<<>>) = 0 /\ 0 <= MaxCalls
    BY CallBounds
  <2> QED
    BY <2>1 DEF Init, TypeOK, NoStory, Unborn
<1>2. StackInv
  BY StackEmpty DEF Init, StackInv
<1>3. NoTraceLost /\ StoryTold
  BY DEF Init, NoTraceLost, StoryTold, OK
<1> QED
  BY <1>1, <1>2, <1>3 DEF Inv

LEMMA StepHolds == Inv /\ [Next]_vars => Inv'
<1> SUFFICES ASSUME Inv, [Next]_vars PROVE Inv'
  OBVIOUS
<1>1. CASE Next
  <2>1. CallsOK' /\ GeneratorsOK' /\ ErrorsTyped' /\ NoTraceLost' /\ StoryTold'
    BY <1>1, StackStep, GeneratorsStep, ErrorsStep, StoryStep
  <2>2. TypeOK'
    BY <2>1 DEF CallsOK, GeneratorsOK, GeneratorStates, ErrorsTyped, Traces, TypeOK, Fresh
  <2> QED
    BY <2>1, <2>2 DEF Inv, CallsOK
<1>2. CASE UNCHANGED vars
  BY <1>2 DEF vars, Inv, TypeOK, Fresh, StackInv, NoTraceLost, StoryTold, OK, err_occurred
<1> QED
  BY <1>1, <1>2

------------------------------------------------------------------------------
(* The results. *)

LEMMA Invariance == Spec => []Inv
<1>1. Init => Inv
  BY InitHolds
<1>2. Inv /\ [Next]_vars => Inv'
  BY StepHolds
<1> QED
  BY <1>1, <1>2, PTL DEF Spec

(* Every exception that has left code has a trace until it is caught,      *)
(* cleared or printed, and what arrives at the end of the script is what   *)
(* was raised (err.c, debug_mark_error(), the end of execute_loop()).      *)
THEOREM NoTraceIsLost == Spec => []NoTraceLost
<1>1. Inv => NoTraceLost
  BY DEF Inv
<1> QED
  BY <1>1, Invariance, PTL

(* The stack of locations is as deep as the calls that pushed one and,     *)
(* without generators, the positions of all the code that waits, however   *)
(* deep the calls and whichever way they end (vm_exec_func(), debug.c).    *)
THEOREM LocationsAlwaysMatch == Spec => []LocationsMatch
<1>1. Inv => LocationsMatch
  <2> SUFFICES ASSUME Inv PROVE LocationsMatch
    OBVIOUS
  <2>1. TypeOK /\ StackOK(calls, locations)
    BY DEF Inv, StackInv
  <2>2. Len(locations) = Cardinality(Pushed(calls))
    BY <2>1 DEF StackOK
  <2>3. ASSUME NoGenerator(calls) PROVE locations = Positions(Outer)
    <3>1. calls \in Seq(Activations) /\ locations \in Seq(Lines)
      BY <2>1 DEF TypeOK
    <3>2. CASE calls = <<>>
      <4>1. Outer = <<>>
        BY <3>2, SubSeqEmpty DEF Outer, Front
      <4>2. Coded(<<>>) = {} /\ Pushed(<<>>) = {}
        BY DEF Coded, Pushed
      <4>3. Len(locations) = 0 /\ Len(Positions(<<>>)) = 0 /\ Positions(<<>>) \in Seq(Lines)
        BY <2>2, <3>1, <3>2, <4>2, FS_EmptySet, PositionsType
      <4> QED
        BY <3>1, <4>1, <4>3, EmptySeq
    <3>3. CASE calls # <<>>
      <4> DEFINE n == Len(calls)
      <4>1. n \in Nat /\ n \in 1..n /\ Upto(calls, n) = calls /\ Outer = Upto(calls, n - 1)
        BY <3>1, <3>3, <2>1, InnerParts, UptoAll DEF Outer, Front, Upto, Inv
      <4>2. LocationsAt(calls, locations, n) = locations
        BY <2>1, <3>1, <4>1, LocationsAll
      <4>3. CallFits(calls, locations, n)
        BY <2>1, <4>1 DEF StackOK
      <4> QED
        BY <2>3, <4>1, <4>2, <4>3 DEF CallFits
    <3> QED
      BY <3>2, <3>3
  <2> QED
    BY <2>1, <2>2, <2>3 DEF LocationsMatch
<1> QED
  BY <1>1, Invariance, PTL

------------------------------------------------------------------------------
(* What TraceTells says of a step and one exception. *)
Kept(e) == HasTrace(traces[e]) => traces'[e] \in {Unborn, traces[e]}
Tells(e) ==
    /\ Within(traces'[e], story'.lines)
    /\ ~OK => Last(traces'[e]) = Last(story'.lines)
    /\ story'.exact => traces'[e] = story'.lines
Told(e) == Kept(e) /\ ((traces[e] # traces'[e] /\ HasTrace(traces'[e])) => Tells(e))

\* Most steps take no trace at all.
LEMMA NoNewTrace ==
    ASSUME Inv, NEW d \in Exceptions, NEW trace, ~HasTrace(traces[d]), ~HasTrace(trace),
           traces' = [traces EXCEPT ![d] = trace]
    PROVE  \A e \in Exceptions : Told(e)
<1>1. traces \in [Exceptions -> Traces]
  BY DEF Inv, TypeOK, Traces
<1> QED
  BY <1>1 DEF Told, Kept

\* The trace of a call that is refused, or that ends: one exception gets it.
LEMMA OneNewTrace ==
    ASSUME Inv, NEW d \in Exceptions, NEW trace, ~HasTrace(traces[d]),
           traces' = [traces EXCEPT ![d] = trace],
           Within(trace, story'.lines),
           ~OK => Last(trace) = Last(story'.lines),
           story'.exact => trace = story'.lines
    PROVE  \A e \in Exceptions : Told(e)
<1>1. traces \in [Exceptions -> Traces]
  BY DEF Inv, TypeOK, Traces
<1>2. traces'[d] = trace /\ \A e \in Exceptions \ {d} : traces'[e] = traces[e]
  BY <1>1
<1> QED
  BY <1>2 DEF Told, Kept, Tells

LEMMA LeaveTells ==
    ASSUME Inv, Leave
    PROVE  \A e \in Exceptions : Told(e)
<1>1. /\ TypeOK /\ StackInv /\ calls # <<>> /\ HasCode(Inner) /\ ~OK /\ err_occurred
      /\ traces' = Marked(Append(locations, Inner.line)) /\ story' = story
  BY DEF Leave, CodeRuns, Unwound, Inv
<1>2. /\ calls \in Seq(Activations) /\ locations \in Seq(Lines) /\ StackOK(calls, locations)
      /\ traces \in [Exceptions -> Traces] /\ pending \in Exceptions
  BY <1>1 DEF TypeOK, StackInv, Traces, err_occurred
<1>3. /\ Len(calls) \in 1..Len(calls) /\ Inner.line \in Lines
      /\ Outer \in Seq(Activations) /\ Len(Outer) = Len(calls) - 1
      /\ Len(calls) \in Nat
  BY <1>1, InnerParts, PoppedLocation
<1>4. CASE debug_error \/ traces[pending] # NoTrace
  <2>1. traces' = traces
    BY <1>1, <1>4 DEF Marked
  <2> QED
    BY <2>1 DEF Told, Kept
<1>5. CASE ~debug_error /\ traces[pending] = NoTrace
  <2> DEFINE trace == Append(locations, Inner.line)
  <2>1. traces' = [traces EXCEPT ![pending] = trace] /\ ~HasTrace(traces[pending])
    BY <1>1, <1>5 DEF Marked, HasTrace
  <2>2. story'.lines = Positions(calls) /\ (story'.exact => NoGenerator(calls))
    BY <1>1, <1>5 DEF Inv, StoryTold
  <2>3. AfterPush(calls, locations, Len(calls)) = trace
    <3>1. \A j \in (Len(calls) + 1)..Len(calls) : ~calls[j].pushed
      BY <1>3
    <3>2. LocationsAt(calls, locations, Len(calls)) = locations
      BY <1>2, <1>3, <3>1, LocationsAll
    <3> QED
      BY <1>1, <3>2 DEF AfterPush, Inner
  <2>4. Within(trace, Positions(calls)) /\ (NoGenerator(calls) => trace = Positions(calls))
    <3>1. \A j \in (Len(calls) + 1)..Len(calls) : calls[j].kind = "generator"
      BY <1>3
    <3> QED
      BY <1>2, <1>3, <2>3, <3>1, PushTells
  <2>5. Last(trace) = Inner.line
    BY <1>2, <1>3, AppendProperties, LenProperties DEF Last
  <2>6. Last(Positions(calls)) = Inner.line
    <3>1. Agree(Outer, calls) /\ Len(calls) = Len(Outer) + 1
      <4>1. Len(calls) \in Nat /\ Outer = Upto(calls, Len(calls) - 1)
            /\ Len(calls) - 1 \in Nat /\ Len(calls) - 1 <= Len(calls)
        BY <1>3 DEF Outer, Front, Upto
      <4>2. \A i \in 1..(Len(calls) - 1) : Outer[i] = calls[i]
        BY <1>2, <4>1, UptoProperties
      <4> QED
        BY <1>3, <4>1, <4>2 DEF Agree
    <3>2. Positions(calls) = Append(Positions(Outer), Inner.line)
      BY <1>1, <1>2, <1>3, <3>1, PositionsGrow DEF Inner
    <3> QED
      BY <1>3, <3>2, PositionsType, AppendProperties, LenProperties DEF Last
  <2> HIDE DEF trace
  <2> QED
    BY <1>2, <2>1, <2>2, <2>4, <2>5, <2>6, OneNewTrace
<1> QED
  BY <1>4, <1>5

LEMMA TellsStep ==
    Inv /\ [Next]_vars => \A e \in Exceptions : Told(e)
<1> SUFFICES ASSUME Inv, [Next]_vars PROVE \A e \in Exceptions : Told(e)
  OBVIOUS
<1>1. ~HasTrace(Unborn) /\ ~HasTrace(NoTrace)
  BY DEF HasTrace
<1>2. TypeOK /\ StackInv /\ traces \in [Exceptions -> Traces]
  BY DEF Inv, TypeOK, Traces
<1>3. CASE UNCHANGED traces
  BY <1>3 DEF Told, Kept
<1>4. ASSUME NEW d \in Exceptions, err_setstr(d) PROVE \A e \in Exceptions : Told(e)
  BY <1>1, <1>4, NoNewTrace DEF err_setstr, Fresh
<1>5. ASSUME NEW d \in Exceptions, DropException(d) PROVE \A e \in Exceptions : Told(e)
  BY <1>1, <1>2, <1>5 DEF DropException, Told, Kept
<1>6. CASE Exit
  BY <1>1, <1>2, <1>6 DEF Exit, Told, Kept
<1>7. ASSUME NEW d \in Exceptions, NEW hidden \in BOOLEAN, RefuseCall(d, hidden)
      PROVE  \A e \in Exceptions : Told(e)
  <2> DEFINE trace == debug_push_location(CallingFrame(hidden))
  <2>1. calls # <<>> /\ OK /\ ~debug_error /\ traces[d] = Unborn
    BY <1>7 DEF RefuseCall, Fresh, Inv, NoTraceLost
  <2>2. traces' = [traces EXCEPT ![d] = trace]
        /\ story'.lines = Positions(calls) /\ story'.exact = NoGenerator(calls)
    BY <1>7, <2>1 DEF RefuseCall, Fail
  <2>3. Within(trace, Positions(calls)) /\ (NoGenerator(calls) => trace = Positions(calls))
    BY <1>2, <2>1, PushedLocation
  <2> HIDE DEF trace
  <2> QED
    BY <1>1, <2>1, <2>2, <2>3, OneNewTrace
<1>8. ASSUME NEW d \in Exceptions, NEW g \in Generators, RefuseResume(g, d)
      PROVE  \A e \in Exceptions : Told(e)
  <2> DEFINE trace == Append(locations, generators[g].line)
  <2>1. calls # <<>> /\ OK /\ ~debug_error /\ traces[d] = Unborn /\ generators[g].line \in Lines
    BY <1>8 DEF RefuseResume, Fresh, Inv, TypeOK, NoTraceLost
  <2>2. /\ traces' = [traces EXCEPT ![d] = trace]
        /\ story' = [lines |-> Append(Positions(calls), generators[g].line), exact |-> FALSE]
    BY <1>8, <2>1 DEF RefuseResume
  <2>3. Within(trace, Append(Positions(calls), generators[g].line))
    BY <1>2, <2>1, WithinLocations, WithinAppend, PositionsType DEF TypeOK, StackInv
  <2> HIDE DEF trace
  <2> QED
    BY <1>1, <2>1, <2>2, <2>3, OneNewTrace
<1>9. CASE Leave
  BY <1>9, LeaveTells
<1>10. CASE Next
  <2>1. ASSUME NEW line \in Lines,
               \/ Start(line) \/ Handle(line)
               \/ \E tries \in BOOLEAN : Step(line, tries)
               \/ \E kind \in {"user", "builtin"}, hidden \in BOOLEAN : Call(kind, line, hidden)
        PROVE  \A e \in Exceptions : Told(e)
    BY <1>3, <2>1 DEF Start, Handle, Step, Call
  <2>2. ASSUME NEW d \in Exceptions, RaiseNew(d) \/ Ghost(d) \/ Unreported(d)
        PROVE  \A e \in Exceptions : Told(e)
    BY <1>4, <2>2 DEF RaiseNew, Ghost, Unreported
  <2>3. ASSUME NEW d \in Exceptions, err_set_from_user(d) PROVE \A e \in Exceptions : Told(e)
    BY <1>3, <2>3 DEF err_set_from_user
  <2>4. ASSUME NEW g \in Generators, MakeGenerator(g) \/ Resume(g) \/ AskFailed(g) \/ DropGenerator(g)
        PROVE  \A e \in Exceptions : Told(e)
    BY <1>3, <2>4 DEF MakeGenerator, Resume, AskFailed, DropGenerator
  <2>5. CASE Return \/ Yield \/ TakeGhost \/ ClearGhost \/ err_clear \/ Propagate \/ err_print_last
    BY <1>3, <2>5 DEF Return, Yield, TakeGhost, ClearGhost, err_clear, Propagate, err_print_last
  <2> QED
    BY <1>5, <1>6, <1>7, <1>8, <1>9, <1>10, <2>1, <2>2, <2>3, <2>4, <2>5 DEF Next
<1>11. CASE UNCHANGED vars
  BY <1>3, <1>11 DEF vars
<1> QED
  BY <1>10, <1>11

(* A trace, once given, is never changed (only forgotten with its          *)
(* exception); and when it is given it tells where the failing step was    *)
(* and, without generators, where all the code in progress was, however    *)
(* far the exception has come by then (debug_mark_error(),                 *)
(* exception_add_trace(), the end of execute_loop()).                      *)
THEOREM TracesAlwaysTell == Spec => TraceTells
<1>1. Inv /\ [Next]_vars =>
        [\A e \in Exceptions :
            /\ (traces[e] \notin {Unborn, NoTrace} => traces'[e] \in {Unborn, traces[e]})
            /\ (traces[e] # traces'[e] /\ traces'[e] \notin {Unborn, NoTrace}) =>
                  /\ Within(traces'[e], story'.lines)
                  /\ ~OK => Last(traces'[e]) = Last(story'.lines)
                  /\ story'.exact => traces'[e] = story'.lines]_vars
  BY TellsStep DEF Told, Kept, Tells, HasTrace
<1> QED
  BY <1>1, Invariance, PTL DEF Spec, TraceTells
==============================================================================
