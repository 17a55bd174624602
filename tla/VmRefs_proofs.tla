---------------------------- MODULE VmRefs_proofs ----------------------------
(***************************************************************************)
(* Proofs about VmRefs, for any heaps, programs, depth of calls and bounds.*)
(*                                                                         *)
(* Every handler takes and gives up references (Account) and moves them    *)
(* between stacks, objects and calls.  The first part says how often an    *)
(* object occurs in the sequences that are moved; the second how that adds *)
(* up over frames and over the heap; Moved is what both come to.  Each     *)
(* action is then an equation between the sequences that it names.         *)
(***************************************************************************)
EXTENDS VmRefs, SequenceTheorems, FiniteSetTheorems, WellFoundedInduction, TLAPS

Values == Seq(AllObjects)

(* How often an object occurs in a sequence. *)

LEMMA OccursType ==
  ASSUME NEW s \in Values, NEW o
  PROVE  /\ IsFiniteSet(Places(s, o)) /\ Occurrences(s, o) \in Nat
         /\ Occurrences(s, o) > 0 <=> o \in Range(s)
<1>1. Len(s) \in Nat /\ DOMAIN s = 1 .. Len(s)
  BY LenProperties DEF Values
<1>2. Places(s, o) \in SUBSET (1 .. Len(s)) /\ IsFiniteSet(1 .. Len(s))
  BY <1>1, FS_Interval DEF Places
<1>3. IsFiniteSet(Places(s, o))
  BY <1>2, FS_Subset
<1>4. Cardinality(Places(s, o)) \in Nat /\ (Cardinality(Places(s, o)) = 0 <=> Places(s, o) = {})
  BY <1>3, FS_CardinalityType, FS_EmptySet
<1>5. Places(s, o) = {} <=> o \notin Range(s)
  BY DEF Places, Range
<1> QED
  BY <1>3, <1>4, <1>5 DEF Occurrences

LEMMA OccursNowhere == ASSUME NEW o PROVE Occurrences(<<>>, o) = 0
<1>1. Places(<<>>, o) = {}
  BY DEF Places
<1> QED
  BY <1>1, FS_EmptySet DEF Occurrences

LEMMA OccursConcat ==
  ASSUME NEW s \in Values, NEW t \in Values, NEW o
  PROVE  /\ s \o t \in Values
         /\ Occurrences(s \o t, o) = Occurrences(s, o) + Occurrences(t, o)
<1> DEFINE n == Len(s)
           A == Places(s, o)
           B == Places(t, o)
           C == {i + n : i \in B}
           f == [i \in B |-> i + n]
<1>1. /\ n \in Nat /\ Len(t) \in Nat /\ DOMAIN s = 1 .. n /\ DOMAIN t = 1 .. Len(t)
      /\ s \o t \in Values /\ Len(s \o t) = n + Len(t) /\ DOMAIN (s \o t) = 1 .. n + Len(t)
      /\ \A i \in 1 .. n + Len(t) : (s \o t)[i] = IF i <= n THEN s[i] ELSE t[i - n]
  BY LenProperties, ConcatProperties DEF Values
<1> HIDE DEF n
<1>2. A \in SUBSET (1 .. n) /\ B \in SUBSET (1 .. Len(t))
  BY <1>1 DEF Places
<1>3. f \in Bijection(B, C)
  <2>1. \A i, j \in B : i + n = j + n => i = j
    BY <1>1, <1>2
  <2> QED
    BY <2>1 DEF Bijection, Injection, Surjection, IsInjective
<1>4. IsFiniteSet(A) /\ IsFiniteSet(B)
  BY OccursType
<1>5. IsFiniteSet(C) /\ Cardinality(C) = Cardinality(B)
  BY <1>3, <1>4, FS_Bijection DEF ExistsBijection
<1>6. A \cap C = {}
  <2>1. \A i \in 1 .. n, j \in 1 .. Len(t) : i # j + n
    BY <1>1
  <2> QED
    BY <1>2, <2>1
<1>7. Places(s \o t, o) = A \cup C
  <2>1. ASSUME NEW k \in Places(s \o t, o) PROVE k \in A \cup C
    <3>1. k \in 1 .. n + Len(t) /\ (s \o t)[k] = o
      BY <1>1, <2>1 DEF Places
    <3>2. CASE k <= n
      BY <1>1, <3>1, <3>2 DEF Places
    <3>3. CASE ~(k <= n)
      <4>1. k - n \in 1 .. Len(t) /\ k = (k - n) + n /\ t[k - n] = o
        BY <1>1, <3>1, <3>3
      <4>2. k - n \in B
        BY <1>1, <4>1 DEF Places
      <4> QED
        BY <4>1, <4>2
    <3> QED
      BY <3>2, <3>3
  <2>2. ASSUME NEW k \in A PROVE k \in Places(s \o t, o)
    <3>1. k \in 1 .. n /\ s[k] = o /\ k \in 1 .. n + Len(t) /\ k <= n
      BY <1>1, <1>2 DEF Places
    <3> QED
      BY <1>1, <3>1 DEF Places
  <2>3. ASSUME NEW i \in B PROVE i + n \in Places(s \o t, o)
    <3>1. i \in 1 .. Len(t) /\ t[i] = o
      BY <1>1 DEF Places
    <3>2. i + n \in 1 .. n + Len(t) /\ ~(i + n <= n) /\ (i + n) - n = i
      BY <1>1, <3>1
    <3> QED
      BY <1>1, <3>1, <3>2 DEF Places
  <2> QED
    BY <2>1, <2>2, <2>3
<1>8. Cardinality(A \cup C) = Cardinality(A) + Cardinality(C)
  <2>1. Cardinality(A \cup C) = Cardinality(A) + Cardinality(C) - Cardinality(A \cap C)
    BY <1>4, <1>5, FS_Union
  <2>2. Cardinality(A \cap C) = 0 /\ Cardinality(A) \in Nat /\ Cardinality(C) \in Nat
    BY <1>4, <1>5, <1>6, FS_EmptySet, FS_CardinalityType
  <2> HIDE DEF A, C
  <2> QED
    BY <2>1, <2>2
<1> QED
  BY <1>1, <1>5, <1>7, <1>8 DEF Occurrences

LEMMA OccursOnce ==
  ASSUME NEW x \in AllObjects, NEW o
  PROVE  <<x>> \in Values /\ Occurrences(<<x>>, o) = IF x = o THEN 1 ELSE 0
<1>1. <<x>> \in Values /\ DOMAIN <<x>> = {1} /\ <<x>>[1] = x
  BY DEF Values
<1>2. Places(<<x>>, o) = IF x = o THEN {1} ELSE {}
  BY <1>1 DEF Places
<1> QED
  BY <1>1, <1>2, FS_EmptySet, FS_Singleton DEF Occurrences

LEMMA OccursAppend ==
  ASSUME NEW s \in Values, NEW x \in AllObjects, NEW o
  PROVE  /\ Append(s, x) \in Values /\ <<x>> \in Values
         /\ Occurrences(Append(s, x), o) = Occurrences(s, o) + Occurrences(<<x>>, o)
<1>1. Append(s, x) = s \o <<x>>
  BY AppendIsConcat DEF Values
<1> QED
  BY <1>1, OccursOnce, OccursConcat

LEMMA OccursPair ==
  ASSUME NEW x \in AllObjects, NEW y \in AllObjects, NEW o
  PROVE  /\ <<x, y>> \in Values
         /\ Occurrences(<<x, y>>, o) = Occurrences(<<x>>, o) + Occurrences(<<y>>, o)
<1>1. <<x, y>> = Append(<<x>>, y)
  OBVIOUS
<1>2. <<x>> \in Values
  BY OccursOnce
<1>3. /\ Append(<<x>>, y) \in Values
      /\ Occurrences(Append(<<x>>, y), o) = Occurrences(<<x>>, o) + Occurrences(<<y>>, o)
  BY ONLY <1>2, y \in AllObjects, OccursAppend
<1> QED
  BY ONLY <1>1, <1>3

LEMMA OccursTriple ==
  ASSUME NEW x \in AllObjects, NEW y \in AllObjects, NEW z \in AllObjects, NEW o
  PROVE  /\ <<x, y, z>> \in Values
         /\ Occurrences(<<x, y, z>>, o) =
              Occurrences(<<x>>, o) + Occurrences(<<y>>, o) + Occurrences(<<z>>, o)
<1>1. <<x, y, z>> = Append(<<x, y>>, z)
  OBVIOUS
<1>2. <<x, y>> \in Values /\ Occurrences(<<x, y>>, o) = Occurrences(<<x>>, o) + Occurrences(<<y>>, o)
  BY OccursPair
<1>3. /\ Append(<<x, y>>, z) \in Values
      /\ Occurrences(Append(<<x, y>>, z), o) = Occurrences(<<x, y>>, o) + Occurrences(<<z>>, o)
  BY ONLY <1>2, z \in AllObjects, OccursAppend
<1> QED
  BY ONLY <1>1, <1>2, <1>3

(* A sequence is cut in two. *)
LEMMA OccursCut ==
  ASSUME NEW s \in Values, NEW n \in 0 .. Len(s), NEW o
  PROVE  /\ SubSeq(s, 1, n) \in Values /\ SubSeq(s, n + 1, Len(s)) \in Values
         /\ Len(SubSeq(s, 1, n)) = n /\ Len(SubSeq(s, n + 1, Len(s))) = Len(s) - n
         /\ Occurrences(s, o) = Occurrences(SubSeq(s, 1, n), o)
                                + Occurrences(SubSeq(s, n + 1, Len(s)), o)
<1>1. /\ Len(s) \in Nat /\ n \in Nat /\ 1 \in 1 .. Len(s) + 1 /\ n \in (1 - 1) .. Len(s)
      /\ Len(s) \in n .. Len(s)
  BY LenProperties DEF Values
<1>2. /\ \A i \in 1 .. n : s[i] \in AllObjects
      /\ \A i \in n + 1 .. Len(s) : s[i] \in AllObjects
  BY <1>1, ElementOfSeq DEF Values
<1>3. SubSeq(s, 1, n) \in Values /\ Len(SubSeq(s, 1, n)) = n
  <2>1. SubSeq(s, 1, n) \in Values /\ Len(SubSeq(s, 1, n)) = IF 1 <= n THEN n - 1 + 1 ELSE 0
    BY <1>1, <1>2, SubSeqProperties DEF Values
  <2> QED
    BY <1>1, <2>1
<1>4. SubSeq(s, n + 1, Len(s)) \in Values /\ Len(SubSeq(s, n + 1, Len(s))) = Len(s) - n
  <2>1. /\ SubSeq(s, n + 1, Len(s)) \in Values
        /\ Len(SubSeq(s, n + 1, Len(s))) = IF n + 1 <= Len(s) THEN Len(s) - (n + 1) + 1 ELSE 0
    BY <1>1, <1>2, SubSeqProperties DEF Values
  <2> QED
    BY <1>1, <2>1
<1>5. SubSeq(s, 1, n) \o SubSeq(s, n + 1, Len(s)) = s
  <2>1. SubSeq(s, 1, n) \o SubSeq(s, n + 1, Len(s)) = SubSeq(s, 1, Len(s))
    BY <1>1, ConcatAdjacentSubSeq DEF Values
  <2> QED
    BY <2>1, SubSeqFull DEF Values
<1>6. Occurrences(SubSeq(s, 1, n) \o SubSeq(s, n + 1, Len(s)), o) =
         Occurrences(SubSeq(s, 1, n), o) + Occurrences(SubSeq(s, n + 1, Len(s)), o)
  BY ONLY <1>3, <1>4, OccursConcat
<1> QED
  BY <1>3, <1>4, <1>5, <1>6

(* A part in the middle of a sequence is among it. *)
LEMMA OccursWithin ==
  ASSUME NEW s \in Values, NEW m \in Nat, NEW n \in Nat, m <= n, n <= Len(s), NEW o
  PROVE  /\ SubSeq(s, m + 1, n) \in Values /\ Len(SubSeq(s, m + 1, n)) = n - m
         /\ Occurrences(SubSeq(s, 1, n), o) =
              Occurrences(SubSeq(s, 1, m), o) + Occurrences(SubSeq(s, m + 1, n), o)
<1>1. /\ Len(s) \in Nat /\ 1 \in 1 .. Len(s) + 1 /\ m \in (1 - 1) .. Len(s)
      /\ n \in m .. Len(s) /\ n \in 0 .. Len(s) /\ m \in 0 .. Len(s)
  BY LenProperties DEF Values
<1>2. \A i \in m + 1 .. n : s[i] \in AllObjects
  BY <1>1, ElementOfSeq DEF Values
<1>3. SubSeq(s, m + 1, n) \in Values /\ Len(SubSeq(s, m + 1, n)) = n - m
  <2>1. /\ SubSeq(s, m + 1, n) \in Values
        /\ Len(SubSeq(s, m + 1, n)) = IF m + 1 <= n THEN n - (m + 1) + 1 ELSE 0
    BY <1>1, <1>2, SubSeqProperties DEF Values
  <2> QED
    BY <1>1, <2>1
<1>4. SubSeq(s, 1, m) \o SubSeq(s, m + 1, n) = SubSeq(s, 1, n)
  BY <1>1, ConcatAdjacentSubSeq DEF Values
<1>5. SubSeq(s, 1, m) \in Values
  BY <1>1, OccursCut
<1>6. Occurrences(SubSeq(s, 1, m) \o SubSeq(s, m + 1, n), o) =
         Occurrences(SubSeq(s, 1, m), o) + Occurrences(SubSeq(s, m + 1, n), o)
  BY ONLY <1>3, <1>5, OccursConcat
<1> QED
  BY <1>3, <1>4, <1>6

LEMMA OccursExcept ==
  ASSUME NEW s \in Values, NEW i \in 1 .. Len(s), NEW x \in AllObjects, NEW o
  PROVE  /\ [s EXCEPT ![i] = x] \in Values /\ Len([s EXCEPT ![i] = x]) = Len(s)
         /\ s[i] \in AllObjects
         /\ Occurrences([s EXCEPT ![i] = x], o) + Occurrences(<<s[i]>>, o) =
              Occurrences(s, o) + Occurrences(<<x>>, o)
<1> DEFINE t == [s EXCEPT ![i] = x]
           A == Places(s, o) \ {i}
<1>1. /\ t \in Values /\ Len(t) = Len(s) /\ s[i] \in AllObjects
      /\ \A j \in 1 .. Len(s) : t[j] = IF j = i THEN x ELSE s[j]
      /\ DOMAIN s = 1 .. Len(s) /\ DOMAIN t = 1 .. Len(s)
  BY ExceptSeq, ElementOfSeq, LenProperties DEF Values
<1> HIDE DEF t
<1>2. /\ Places(s, o) = IF s[i] = o THEN A \cup {i} ELSE A
      /\ Places(t, o) = IF x = o THEN A \cup {i} ELSE A
      /\ i \notin A
  BY <1>1 DEF Places
<1>3. IsFiniteSet(A) /\ Cardinality(A) \in Nat
  BY OccursType, FS_RemoveElement, FS_CardinalityType
<1>4. Cardinality(A \cup {i}) = Cardinality(A) + 1
  BY <1>2, <1>3, FS_AddElement
<1> HIDE DEF A
<1>5. Occurrences(s, o) = Cardinality(A) + (IF s[i] = o THEN 1 ELSE 0)
  BY <1>2, <1>3, <1>4 DEF Occurrences
<1>6. Occurrences(t, o) = Cardinality(A) + (IF x = o THEN 1 ELSE 0)
  BY <1>2, <1>3, <1>4 DEF Occurrences
<1>7. /\ Occurrences(<<x>>, o) = IF x = o THEN 1 ELSE 0
      /\ Occurrences(<<s[i]>>, o) = IF s[i] = o THEN 1 ELSE 0
  BY <1>1, OccursOnce
<1>8. Occurrences(t, o) + Occurrences(<<s[i]>>, o) = Occurrences(s, o) + Occurrences(<<x>>, o)
  BY <1>3, <1>5, <1>6, <1>7
<1> QED
  BY <1>1, <1>8 DEF t

LEMMA OccursRemove ==
  ASSUME NEW s \in Values, NEW i \in 1 .. Len(s), NEW o
  PROVE  /\ RemoveAt(s, i) \in Values /\ s[i] \in AllObjects
         /\ Occurrences(RemoveAt(s, i), o) + Occurrences(<<s[i]>>, o) = Occurrences(s, o)
         /\ Len(RemoveAt(s, i)) = Len(s) - 1
<1>1. /\ Len(s) \in Nat /\ i - 1 \in 0 .. Len(s) /\ i - 1 \in Nat /\ i \in Nat /\ i - 1 <= i
      /\ i <= Len(s) /\ (i - 1) + 1 = i /\ i \in 0 .. Len(s) /\ s[i] \in AllObjects
  BY LenProperties, ElementOfSeq DEF Values
<1> DEFINE a == SubSeq(s, 1, i - 1)
           b == SubSeq(s, i + 1, Len(s))
<1>2. a \in Values /\ Len(a) = i - 1
  BY <1>1, OccursCut
<1>3. b \in Values /\ Len(b) = Len(s) - i /\ Occurrences(s, o) = Occurrences(SubSeq(s, 1, i), o) + Occurrences(b, o)
  BY <1>1, OccursCut
<1>4. SubSeq(s, 1, i) = Append(a, s[i])
  <2>1. SubSeq(s, 1, i) = SubSeq(s, 1, i - 1) \o <<s[i]>>
    BY <1>1, SubSeqRecursiveSecond DEF Values
  <2> QED
    BY <1>1, <1>2, <2>1, AppendIsConcat DEF Values
<1>5. RemoveAt(s, i) = a \o b
  BY DEF RemoveAt
<1> HIDE DEF a, b
<1>6. /\ a \o b \in Values /\ Occurrences(a \o b, o) = Occurrences(a, o) + Occurrences(b, o)
      /\ Occurrences(SubSeq(s, 1, i), o) = Occurrences(a, o) + Occurrences(<<s[i]>>, o)
  <2>1. a \o b \in Values /\ Occurrences(a \o b, o) = Occurrences(a, o) + Occurrences(b, o)
    BY ONLY <1>2, <1>3, OccursConcat
  <2>2. Occurrences(Append(a, s[i]), o) = Occurrences(a, o) + Occurrences(<<s[i]>>, o)
    BY ONLY <1>1, <1>2, OccursAppend
  <2> QED
    BY <1>4, <2>1, <2>2
<1>7. Len(a \o b) = Len(s) - 1
  <2>1. Len(a \o b) = Len(a) + Len(b)
    BY <1>2, <1>3, ConcatProperties DEF Values
  <2> QED
    BY <1>1, <1>2, <1>3, <2>1
<1>8. /\ Occurrences(a, o) \in Nat /\ Occurrences(b, o) \in Nat
      /\ Occurrences(<<s[i]>>, o) \in Nat
  BY <1>1, <1>2, <1>3, OccursOnce, OccursType
<1> QED
  BY <1>1, <1>3, <1>5, <1>6, <1>7, <1>8
------------------------------------------------------------------------------
(* How often it occurs in a family of sequences. *)

Total(S, F, o) == Cardinality(UNION {{q} \X Places(F[q], o) : q \in S})

LEMMA TotalType ==
  ASSUME NEW S, IsFiniteSet(S), NEW F, \A q \in S : F[q] \in Values, NEW o
  PROVE  IsFiniteSet(UNION {{q} \X Places(F[q], o) : q \in S}) /\ Total(S, F, o) \in Nat
<1> DEFINE U == {{q} \X Places(F[q], o) : q \in S}
           f == [q \in S |-> {q} \X Places(F[q], o)]
<1>1. \A T \in U : IsFiniteSet(T)
  <2> SUFFICES ASSUME NEW q \in S PROVE IsFiniteSet({q} \X Places(F[q], o))
    OBVIOUS
  <2>1. IsFiniteSet(Places(F[q], o)) /\ IsFiniteSet({q})
    BY OccursType, FS_Singleton
  <2> QED
    BY <2>1, FS_Product
<1>2. f \in Surjection(S, U)
  BY DEF Surjection
<1>3. IsFiniteSet(U)
  BY <1>2, FS_Surjection
<1>4. IsFiniteSet(UNION U)
  BY <1>1, <1>3, FS_UNION
<1> QED
  BY <1>4, FS_CardinalityType DEF Total

LEMMA TotalSame ==
  ASSUME NEW S, NEW F, NEW G, \A q \in S : F[q] = G[q], NEW o
  PROVE  Total(S, F, o) = Total(S, G, o)
<1>1. {{q} \X Places(F[q], o) : q \in S} = {{q} \X Places(G[q], o) : q \in S}
  OBVIOUS
<1> QED
  BY <1>1 DEF Total

LEMMA TotalNone == ASSUME NEW F, NEW o PROVE Total({}, F, o) = 0
<1>1. UNION {{q} \X Places(F[q], o) : q \in {}} = {}
  OBVIOUS
<1> QED
  BY <1>1, FS_EmptySet DEF Total

(* One sequence is taken out of the family. *)
LEMMA TotalLess ==
  ASSUME NEW S, IsFiniteSet(S), NEW F, \A q \in S : F[q] \in Values, NEW p \in S, NEW o
  PROVE  /\ Total(S, F, o) = Total(S \ {p}, F, o) + Occurrences(F[p], o)
         /\ Total(S \ {p}, F, o) \in Nat /\ Occurrences(F[p], o) \in Nat
         /\ Total(S, F, o) \in Nat
<1> DEFINE A == UNION {{q} \X Places(F[q], o) : q \in S \ {p}}
           B == {p} \X Places(F[p], o)
           f == [i \in Places(F[p], o) |-> <<p, i>>]
<1>1. IsFiniteSet(S \ {p})
  BY FS_RemoveElement
<1>2. IsFiniteSet(A) /\ Cardinality(A) = Total(S \ {p}, F, o) /\ Cardinality(A) \in Nat
  BY <1>1, TotalType DEF Total
<1>3. f \in Bijection(Places(F[p], o), B)
  BY DEF Bijection, Injection, Surjection, IsInjective
<1>4. IsFiniteSet(Places(F[p], o)) /\ Occurrences(F[p], o) \in Nat
  BY OccursType
<1>5. IsFiniteSet(B) /\ Cardinality(B) = Occurrences(F[p], o)
  BY <1>3, <1>4, FS_Bijection DEF ExistsBijection, Occurrences
<1>6. A \cap B = {}
  <2>1. \A x \in A : x[1] # p
    OBVIOUS
  <2>2. \A x \in B : x[1] = p
    OBVIOUS
  <2> QED
    BY <2>1, <2>2
<1>7. UNION {{q} \X Places(F[q], o) : q \in S} = A \cup B
  OBVIOUS
<1> HIDE DEF A, B
<1>8. Cardinality(A \cup B) = Cardinality(A) + Cardinality(B) - Cardinality(A \cap B)
  BY <1>2, <1>5, FS_Union
<1>9. Cardinality(A \cap B) = 0
  BY <1>6, FS_EmptySet
<1>10. Total(S, F, o) = Cardinality(A \cup B)
  BY <1>7 DEF Total
<1> QED
  BY <1>2, <1>4, <1>5, <1>8, <1>9, <1>10

(* One of them becomes another. *)
LEMMA TotalChange ==
  ASSUME NEW S, IsFiniteSet(S), NEW F, \A q \in S : F[q] \in Values,
         NEW G, \A q \in S : G[q] \in Values,
         NEW p \in S, \A q \in S \ {p} : G[q] = F[q], NEW o
  PROVE  /\ Total(S, G, o) + Occurrences(F[p], o) = Total(S, F, o) + Occurrences(G[p], o)
         /\ Total(S, G, o) \in Nat /\ Total(S, F, o) \in Nat
         /\ Occurrences(F[p], o) \in Nat /\ Occurrences(G[p], o) \in Nat
<1>1. Total(S \ {p}, G, o) = Total(S \ {p}, F, o)
  BY TotalSame
<1>2. /\ Total(S, F, o) = Total(S \ {p}, F, o) + Occurrences(F[p], o)
      /\ Total(S \ {p}, F, o) \in Nat /\ Occurrences(F[p], o) \in Nat /\ Total(S, F, o) \in Nat
  BY TotalLess
<1>3. /\ Total(S, G, o) = Total(S \ {p}, G, o) + Occurrences(G[p], o)
      /\ Total(S \ {p}, G, o) \in Nat /\ Occurrences(G[p], o) \in Nat /\ Total(S, G, o) \in Nat
  BY TotalLess
<1> QED
  BY <1>1, <1>2, <1>3
------------------------------------------------------------------------------
(* Frames and heaps as the handlers leave them. *)

Block == [type : {"try", "loop"}, level : Nat]
Frame == [stack : Values, n_locals : Nat, blocks : Seq(Block), func : AllObjects,
          owner : AllObjects, held : Values]

\* Blocks stand upon each other, above the locals and within the stack.
BlocksStand(blocks, low, high) ==
  /\ Len(blocks) <= 2
  /\ \A b \in DOMAIN blocks : low <= blocks[b].level /\ blocks[b].level <= high
  /\ \A b, c \in DOMAIN blocks : b <= c => blocks[b].level <= blocks[c].level

FrameOK(f) ==
  /\ f \in Frame /\ f.n_locals <= Len(f.stack)
  /\ BlocksStand(f.blocks, f.n_locals, Len(f.stack))

\* The first frame belongs to the program, the others to functions.
FramesOK(fs) ==
  /\ fs \in Seq(Frame) /\ \A f \in DOMAIN fs : FrameOK(fs[f])
  /\ \A f \in DOMAIN fs : IF f = 1 THEN fs[f].owner \in Fixed ELSE fs[f].func \in Objects

HeapOK(k, p, s) ==
  /\ k \in [Objects -> Kinds] /\ p \in [Objects -> Values]
  /\ s \in [Objects -> Signatures \cup {NoSignature}]
  /\ \A o \in Objects : PartsFit(k[o], p[o])

\* There is at most one exception and it is being handled; a call holds
\* references only while it runs or has just returned.
CallsOK(fs, gs, ex, ph) ==
  /\ gs \in Values /\ Len(gs) <= 1 /\ ex \in Values /\ Len(ex) <= 1
  /\ ph \in {"run", "failed", "returned"}
  /\ ph = "run" => ex = <<>>
  /\ ph # "run" => fs # <<>>
  /\ fs # <<>> /\ ph # "returned" => fs[Len(fs)].held = <<>>

FrameItems(fs) ==
  [f \in DOMAIN fs |->
     IF f = 1 THEN fs[f].stack \o fs[f].held
     ELSE fs[f].stack \o fs[f].held \o <<fs[f].func, fs[f].owner, fs[f].func, fs[f].owner>>]

FrameRefs(fs, o) == Total(DOMAIN fs, FrameItems(fs), o)
PartRefs(p, o) == Total(Objects, p, o)
Refs(fs, p, gs, ex, o) ==
  FrameRefs(fs, o) + PartRefs(p, o) + Occurrences(gs \o ex, o) + (IF o \in Fixed THEN 1 ELSE 0)

Alive(k, o) == o \in Fixed \/ (o \in Objects /\ k[o] # "free")

Counted(fs, k, p, gs, ex, n) ==
  /\ n \in [AllObjects -> Int]
  /\ \A o \in AllObjects : /\ n[o] >= Refs(fs, p, gs, ex, o)
                           /\ Refs(fs, p, gs, ex, o) > 0 => Alive(k, o)

Inv == /\ HeapOK(kind, parts, sig) /\ FramesOK(frames)
       /\ CallsOK(frames, globals, exception, phase)
       /\ Counted(frames, kind, parts, globals, exception, count)
       /\ left \in Nat
------------------------------------------------------------------------------
(* References from frames. *)

LEMMA FrameParts ==
  ASSUME NEW fs, FramesOK(fs)
  PROVE  /\ Len(fs) \in Nat /\ DOMAIN fs = 1 .. Len(fs) /\ IsFiniteSet(DOMAIN fs)
         /\ \A f \in 1 .. Len(fs) :
              /\ fs[f] \in Frame /\ FrameOK(fs[f]) /\ fs[f].stack \in Values /\ fs[f].held \in Values
              /\ fs[f].func \in AllObjects /\ fs[f].owner \in AllObjects
              /\ fs[f].n_locals \in Nat /\ Len(fs[f].stack) \in Nat
         /\ fs # <<>> => Len(fs) \in 1 .. Len(fs)
<1>1. fs \in Seq(Frame) /\ Len(fs) \in Nat /\ DOMAIN fs = 1 .. Len(fs)
  BY LenProperties DEF FramesOK
<1>2. \A f \in 1 .. Len(fs) : fs[f] \in Frame /\ FrameOK(fs[f])
  BY <1>1 DEF FramesOK, FrameOK
<1>3. \A f \in 1 .. Len(fs) : Len(fs[f].stack) \in Nat
  BY <1>2, LenProperties DEF Frame, Values
<1>4. fs # <<>> => Len(fs) \in 1 .. Len(fs)
  BY <1>1, EmptySeq
<1>5. \A f \in 1 .. Len(fs) :
        /\ fs[f].stack \in Values /\ fs[f].held \in Values /\ fs[f].func \in AllObjects
        /\ fs[f].owner \in AllObjects /\ fs[f].n_locals \in Nat
  BY <1>2 DEF Frame
<1>6. IsFiniteSet(DOMAIN fs)
  BY <1>1, FS_Interval
<1> QED
  BY <1>1, <1>2, <1>3, <1>4, <1>5, <1>6

Owners(f) == <<f.func, f.owner, f.func, f.owner>>
OwnersHeld(f, i, o) == IF i = 1 THEN 0 ELSE Occurrences(Owners(f), o)

LEMMA OwnersOccur ==
  ASSUME NEW f \in Frame, NEW o
  PROVE  /\ Owners(f) \in Values /\ Occurrences(Owners(f), o) \in Nat
         /\ Occurrences(Owners(f), o) =
              Occurrences(<<f.func>>, o) + Occurrences(<<f.owner>>, o)
              + Occurrences(<<f.func>>, o) + Occurrences(<<f.owner>>, o)
<1> DEFINE s == <<f.func, f.owner>>
<1>1. f.func \in AllObjects /\ f.owner \in AllObjects
  BY DEF Frame
<1>2. /\ s \in Values
      /\ Occurrences(s, o) = Occurrences(<<f.func>>, o) + Occurrences(<<f.owner>>, o)
  BY <1>1, OccursPair
<1>3. Owners(f) = s \o s
  BY DEF Owners
<1> HIDE DEF s
<1>4. s \o s \in Values /\ Occurrences(s \o s, o) = Occurrences(s, o) + Occurrences(s, o)
  BY <1>2, OccursConcat
<1>5. Occurrences(s \o s, o) \in Nat
  BY <1>4, OccursType
<1>6. /\ Occurrences(<<f.func>>, o) \in Nat /\ Occurrences(<<f.owner>>, o) \in Nat
  BY <1>1, OccursOnce
<1> QED
  BY <1>2, <1>3, <1>4, <1>5, <1>6

LEMMA ItemsType ==
  ASSUME NEW fs, FramesOK(fs), NEW f \in 1 .. Len(fs), NEW o
  PROVE  /\ FrameItems(fs)[f] \in Values
         /\ Occurrences(FrameItems(fs)[f], o) =
              Occurrences(fs[f].stack, o) + Occurrences(fs[f].held, o)
              + OwnersHeld(fs[f], f, o)
         /\ OwnersHeld(fs[f], f, o) \in Nat /\ Occurrences(fs[f].stack, o) \in Nat /\ Occurrences(fs[f].held, o) \in Nat
         /\ Occurrences(Owners(fs[f]), o) \in Nat
<1> DEFINE s == fs[f].stack
           h == fs[f].held
<1>1. /\ DOMAIN fs = 1 .. Len(fs) /\ fs[f] \in Frame /\ s \in Values /\ h \in Values
  BY FrameParts
<1>2. FrameItems(fs)[f] = IF f = 1 THEN s \o h ELSE (s \o h) \o Owners(fs[f])
  BY <1>1 DEF FrameItems, Owners
<1>3. Owners(fs[f]) \in Values /\ Occurrences(Owners(fs[f]), o) \in Nat
  BY <1>1, OwnersOccur
<1> HIDE DEF s, h
<1>4. s \o h \in Values /\ Occurrences(s \o h, o) = Occurrences(s, o) + Occurrences(h, o)
  BY <1>1, OccursConcat
<1>5. /\ (s \o h) \o Owners(fs[f]) \in Values
      /\ Occurrences((s \o h) \o Owners(fs[f]), o) =
           Occurrences(s \o h, o) + Occurrences(Owners(fs[f]), o)
  BY ONLY <1>3, <1>4, OccursConcat
<1>6. Occurrences(s, o) \in Nat /\ Occurrences(h, o) \in Nat
  BY <1>1, OccursType
<1>7. Occurrences(FrameItems(fs)[f], o) =
         Occurrences(s, o) + Occurrences(h, o) + OwnersHeld(fs[f], f, o)
  <2>1. CASE f = 1
    BY <1>2, <1>4, <1>6, <2>1 DEF OwnersHeld
  <2>2. CASE f # 1
    <3>1. FrameItems(fs)[f] = (s \o h) \o Owners(fs[f])
      BY <1>2, <2>2
    <3>2. OwnersHeld(fs[f], f, o) = Occurrences(Owners(fs[f]), o)
      BY <2>2 DEF OwnersHeld
    <3> QED
      BY <1>3, <1>4, <1>5, <1>6, <3>1, <3>2
  <2> QED
    BY <2>1, <2>2
<1>8. OwnersHeld(fs[f], f, o) \in Nat
  BY <1>3 DEF OwnersHeld
<1> QED
  BY <1>2, <1>3, <1>4, <1>5, <1>6, <1>7, <1>8 DEF s, h

LEMMA FrameRefsType ==
  ASSUME NEW fs, FramesOK(fs), NEW o
  PROVE  /\ IsFiniteSet(DOMAIN fs) /\ \A f \in DOMAIN fs : FrameItems(fs)[f] \in Values
         /\ FrameRefs(fs, o) \in Nat
<1>1. DOMAIN fs = 1 .. Len(fs) /\ IsFiniteSet(DOMAIN fs)
  BY FrameParts
<1>2. \A f \in DOMAIN fs : FrameItems(fs)[f] \in Values
  BY <1>1, ItemsType
<1> QED
  BY <1>1, <1>2, TotalType DEF FrameRefs

\* Frames, or the heap, lose the references in gone and get those in come.
FramesMove(fs, gs, gone, come) ==
  gone \in Values /\ come \in Values /\
  \A o \in AllObjects :
    FrameRefs(gs, o) + Occurrences(gone, o) = FrameRefs(fs, o) + Occurrences(come, o)
PartsMove(p, q, gone, come) ==
  gone \in Values /\ come \in Values /\
  \A o \in AllObjects :
    PartRefs(q, o) + Occurrences(gone, o) = PartRefs(p, o) + Occurrences(come, o)

LEMMA SameOwners ==
  \A f, g, u, v, w, s, t \in Nat : g + (u + v + w) = f + (s + t + w) => g + (u + v) = f + (s + t)
OBVIOUS

(* The running frame gets other values. *)
LEMMA TopChanges ==
  ASSUME NEW fs, FramesOK(fs), fs # <<>>, NEW gs, FramesOK(gs), Len(gs) = Len(fs),
         \A f \in 1 .. Len(fs) - 1 : gs[f] = fs[f],
         gs[Len(fs)].func = fs[Len(fs)].func, gs[Len(fs)].owner = fs[Len(fs)].owner
  PROVE  FramesMove(fs, gs, fs[Len(fs)].stack \o fs[Len(fs)].held,
                            gs[Len(fs)].stack \o gs[Len(fs)].held)
<1> DEFINE n == Len(fs)
           a == fs[n].stack \o fs[n].held
           b == gs[n].stack \o gs[n].held
<1>1. /\ n \in Nat /\ n \in 1 .. n /\ DOMAIN fs = 1 .. n /\ DOMAIN gs = 1 .. n
      /\ fs[n] \in Frame /\ gs[n] \in Frame
      /\ fs[n].stack \in Values /\ fs[n].held \in Values /\ gs[n].stack \in Values /\ gs[n].held \in Values
  BY FrameParts
<1>2. a \in Values /\ b \in Values
  BY <1>1, OccursConcat
<1>3. \A f \in DOMAIN fs \ {n} : FrameItems(gs)[f] = FrameItems(fs)[f]
  <2>1. \A f \in DOMAIN fs \ {n} : f \in 1 .. n - 1 /\ f \in DOMAIN gs
    BY <1>1
  <2> QED
    BY <1>1, <2>1 DEF FrameItems
<1>4. Owners(gs[n]) = Owners(fs[n])
  BY DEF Owners
<1> SUFFICES ASSUME NEW o \in AllObjects
             PROVE  FrameRefs(gs, o) + Occurrences(a, o) = FrameRefs(fs, o) + Occurrences(b, o)
  BY <1>2 DEF FramesMove
<1> DEFINE x == Occurrences(FrameItems(fs)[n], o)
           y == Occurrences(FrameItems(gs)[n], o)
<1>5. /\ FrameRefs(gs, o) + x = FrameRefs(fs, o) + y
      /\ FrameRefs(gs, o) \in Nat /\ FrameRefs(fs, o) \in Nat
  <2>1. IsFiniteSet(DOMAIN fs) /\ \A f \in DOMAIN fs : FrameItems(fs)[f] \in Values
    BY FrameRefsType
  <2>2. \A f \in DOMAIN fs : FrameItems(gs)[f] \in Values
    BY <1>1, FrameRefsType
  <2>3. Total(DOMAIN fs, FrameItems(gs), o) + x = Total(DOMAIN fs, FrameItems(fs), o) + y
    <3>1. n \in DOMAIN fs
      BY <1>1
    <3> QED
      BY ONLY <1>3, <2>1, <2>2, <3>1, TotalChange
  <2> QED
    BY <1>1, <2>3, FrameRefsType DEF FrameRefs
<1>6. /\ x = Occurrences(fs[n].stack, o) + Occurrences(fs[n].held, o) + OwnersHeld(fs[n], n, o)
      /\ OwnersHeld(fs[n], n, o) \in Nat
  BY <1>1, ItemsType
<1>7. y = Occurrences(gs[n].stack, o) + Occurrences(gs[n].held, o) + OwnersHeld(fs[n], n, o)
  <2>1. n \in 1 .. Len(gs)
    BY <1>1
  <2>2. OwnersHeld(gs[n], n, o) = OwnersHeld(fs[n], n, o)
    BY <1>4 DEF OwnersHeld
  <2>3. y = Occurrences(gs[n].stack, o) + Occurrences(gs[n].held, o) + OwnersHeld(gs[n], n, o)
    BY <2>1, ItemsType
  <2> QED
    BY <2>2, <2>3
<1>8. /\ Occurrences(a, o) = Occurrences(fs[n].stack, o) + Occurrences(fs[n].held, o)
      /\ Occurrences(b, o) = Occurrences(gs[n].stack, o) + Occurrences(gs[n].held, o)
  BY <1>1, OccursConcat
<1>9. /\ Occurrences(fs[n].stack, o) \in Nat /\ Occurrences(fs[n].held, o) \in Nat
      /\ Occurrences(gs[n].stack, o) \in Nat /\ Occurrences(gs[n].held, o) \in Nat
  BY <1>1, OccursType
<1> HIDE DEF x, y, a, b, n
<1> QED
  BY ONLY <1>5, <1>6, <1>7, <1>8, <1>9, SameOwners

(* The running frame goes. *)
LEMMA TopGoes ==
  ASSUME NEW fs, FramesOK(fs), Len(fs) > 1
  PROVE  LET gs == SubSeq(fs, 1, Len(fs) - 1)
             f  == fs[Len(fs)]
         IN  /\ FramesOK(gs) /\ Len(gs) = Len(fs) - 1 /\ \A i \in 1 .. Len(fs) - 1 : gs[i] = fs[i]
             /\ FramesMove(fs, gs, (f.stack \o f.held) \o Owners(f), <<>>)
<1> DEFINE n == Len(fs)
           gs == SubSeq(fs, 1, n - 1)
           f == fs[n]
           a == (f.stack \o f.held) \o Owners(f)
<1>1. /\ n \in Nat /\ n \in 1 .. n /\ DOMAIN fs = 1 .. n /\ f \in Frame /\ n # 1
      /\ f.stack \in Values /\ f.held \in Values /\ fs \in Seq(Frame)
  BY FrameParts DEF FramesOK
<1>2. gs \in Seq(Frame) /\ Len(gs) = n - 1 /\ \A i \in 1 .. n - 1 : gs[i] = fs[i]
  <2>1. \A i \in 1 .. n - 1 : fs[i] \in Frame /\ 1 + i - 1 = i
    BY <1>1, ElementOfSeq
  <2>2. /\ gs \in Seq(Frame) /\ Len(gs) = IF 1 <= n - 1 THEN n - 1 - 1 + 1 ELSE 0
        /\ \A i \in 1 .. n - 1 - 1 + 1 : gs[i] = fs[1 + i - 1]
    BY <1>1, <2>1, SubSeqProperties
  <2> QED
    BY <1>1, <2>1, <2>2
<1> HIDE DEF gs, f
<1>3. DOMAIN gs = 1 .. n - 1
  BY <1>2, LenProperties
<1>4. DOMAIN gs = DOMAIN fs \ {n} /\ DOMAIN gs \subseteq DOMAIN fs
  BY <1>1, <1>3
<1>5. FramesOK(gs)
  BY <1>2, <1>3, <1>4 DEF FramesOK
<1>6. \A i \in DOMAIN gs : FrameItems(gs)[i] = FrameItems(fs)[i]
  BY <1>2, <1>3, <1>4 DEF FrameItems
<1>7. a \in Values /\ <<>> \in Values
  <2>1. f.stack \o f.held \in Values
    BY <1>1, OccursConcat
  <2>2. Owners(f) \in Values
    BY <1>1, OwnersOccur
  <2> QED
    BY ONLY <2>1, <2>2, OccursConcat, EmptySeq DEF Values
<1>8. ASSUME NEW o \in AllObjects
      PROVE  FrameRefs(gs, o) + Occurrences(a, o) = FrameRefs(fs, o) + Occurrences(<<>>, o)
  <2> DEFINE x == Occurrences(FrameItems(fs)[n], o)
  <2>1. /\ FrameRefs(fs, o) = Total(DOMAIN fs \ {n}, FrameItems(fs), o) + x
        /\ FrameRefs(fs, o) \in Nat
    <3>1. /\ IsFiniteSet(DOMAIN fs) /\ \A i \in DOMAIN fs : FrameItems(fs)[i] \in Values
          /\ n \in DOMAIN fs /\ FrameRefs(fs, o) \in Nat
      BY <1>1, FrameRefsType
    <3>2. Total(DOMAIN fs, FrameItems(fs), o) = Total(DOMAIN fs \ {n}, FrameItems(fs), o) + x
      BY ONLY <3>1, TotalLess
    <3> QED
      BY <3>1, <3>2 DEF FrameRefs
  <2>2. Total(DOMAIN gs, FrameItems(gs), o) = Total(DOMAIN gs, FrameItems(fs), o)
    BY <1>6, TotalSame
  <2>3. FrameRefs(gs, o) \in Nat /\ FrameRefs(gs, o) = Total(DOMAIN gs, FrameItems(gs), o)
    BY <1>5, FrameRefsType DEF FrameRefs
  <2>4. /\ x = Occurrences(f.stack, o) + Occurrences(f.held, o) + Occurrences(Owners(f), o)
        /\ Occurrences(f.stack, o) \in Nat /\ Occurrences(f.held, o) \in Nat
        /\ Occurrences(Owners(f), o) \in Nat
    <3>1. OwnersHeld(f, n, o) = Occurrences(Owners(f), o)
      BY <1>1 DEF OwnersHeld
    <3> QED
      BY <1>1, <3>1, ItemsType DEF f
  <2>5. Occurrences(a, o) = Occurrences(f.stack, o) + Occurrences(f.held, o) + Occurrences(Owners(f), o)
    <3>1. f.stack \o f.held \in Values
          /\ Occurrences(f.stack \o f.held, o) = Occurrences(f.stack, o) + Occurrences(f.held, o)
      BY <1>1, OccursConcat
    <3>2. Owners(f) \in Values
      BY <1>1, OwnersOccur
    <3>3. Occurrences(a, o) = Occurrences(f.stack \o f.held, o) + Occurrences(Owners(f), o)
      BY ONLY <3>1, <3>2, OccursConcat
    <3> QED
      BY <3>1, <3>3
  <2> HIDE DEF a, x
  <2> QED
    BY <1>4, <2>1, <2>2, <2>3, <2>4, <2>5, OccursNowhere
<1>9. FramesMove(fs, gs, a, <<>>)
  BY <1>7, <1>8 DEF FramesMove
<1> QED
  BY <1>2, <1>5, <1>9 DEF gs, f

(* An object gets other parts. *)
LEMMA PartsType ==
  ASSUME NEW p \in [Objects -> Values], NEW o
  PROVE  IsFiniteSet(Objects) /\ PartRefs(p, o) \in Nat
BY ConstantsAssumption, TotalType DEF PartRefs

LEMMA PartsChange ==
  ASSUME NEW p \in [Objects -> Values], NEW q \in Objects, NEW items \in Values
  PROVE  /\ [p EXCEPT ![q] = items] \in [Objects -> Values]
         /\ PartsMove(p, [p EXCEPT ![q] = items], p[q], items)
<1> DEFINE r == [p EXCEPT ![q] = items]
<1>1. /\ r \in [Objects -> Values] /\ p[q] \in Values /\ r[q] = items
      /\ \A x \in Objects \ {q} : r[x] = p[x]
  OBVIOUS
<1> HIDE DEF r
<1>2. ASSUME NEW o \in AllObjects
      PROVE  PartRefs(r, o) + Occurrences(p[q], o) = PartRefs(p, o) + Occurrences(items, o)
  BY <1>1, ConstantsAssumption, TotalChange DEF PartRefs
<1> QED
  BY <1>1, <1>2 DEF PartsMove, r

LEMMA PartsStay ==
  ASSUME NEW p \in [Objects -> Values]
  PROVE  PartsMove(p, p, <<>>, <<>>)
BY EmptySeq DEF PartsMove, Values
------------------------------------------------------------------------------
(* A step moves references. *)

LEMMA RefsAre ==
  /\ \A o : References(o) = Refs(frames, parts, globals, exception, o)
  /\ \A o : References(o)' = Refs(frames', parts', globals', exception', o)
<1>1. ASSUME NEW o PROVE References(o) = Refs(frames, parts, globals, exception, o)
  <2>1. \A f \in DOMAIN frames : HeldBy(f) = FrameItems(frames)[f]
    BY DEF HeldBy, FrameItems
  <2>2. {{f} \X Places(HeldBy(f), o) : f \in DOMAIN frames} =
          {{f} \X Places(FrameItems(frames)[f], o) : f \in DOMAIN frames}
    BY <2>1
  <2> QED
    BY <2>2 DEF References, Refs, FrameRefs, PartRefs, Total
<1>2. ASSUME NEW o PROVE References(o)' = Refs(frames', parts', globals', exception', o)
  <2>1. \A f \in DOMAIN frames' : HeldBy(f)' = FrameItems(frames')[f]
    BY DEF HeldBy, FrameItems
  <2>2. {{f} \X Places(HeldBy(f)', o) : f \in DOMAIN frames'} =
          {{f} \X Places(FrameItems(frames')[f], o) : f \in DOMAIN frames'}
    BY <2>1
  <2> QED
    BY <2>2 DEF References, Refs, FrameRefs, PartRefs, Total
<1> QED
  BY <1>1, <1>2

\* What is in a sequence exists.
Lives(k, s) == s \in Values /\ \A i \in 1 .. Len(s) : Alive(k, s[i])

LEMMA LivesIf ==
  ASSUME NEW k, NEW s \in Values
  PROVE  Lives(k, s) <=> \A o \in AllObjects : Occurrences(s, o) > 0 => Alive(k, o)
<1>1. Len(s) \in Nat /\ DOMAIN s = 1 .. Len(s) /\ \A i \in 1 .. Len(s) : s[i] \in AllObjects
  BY LenProperties, ElementOfSeq DEF Values
<1>2. \A o \in AllObjects : Occurrences(s, o) > 0 <=> \E i \in 1 .. Len(s) : s[i] = o
  BY <1>1, OccursType DEF Range
<1> QED
  BY <1>1, <1>2 DEF Lives

LEMMA LivesOnce ==
  ASSUME NEW k, NEW x \in AllObjects, Alive(k, x)
  PROVE  Lives(k, <<x>>) /\ <<x>> \in Values /\ Len(<<x>>) = 1
BY DEF Lives, Values

LEMMA LivesNone == ASSUME NEW k PROVE Lives(k, <<>>) /\ <<>> \in Values /\ Len(<<>>) = 0
BY DEF Lives, Values

LEMMA LivesConcat ==
  ASSUME NEW k, NEW s, Lives(k, s), NEW t, Lives(k, t)
  PROVE  Lives(k, s \o t) /\ s \o t \in Values /\ Len(s \o t) = Len(s) + Len(t)
<1>1. s \in Values /\ t \in Values
  BY DEF Lives
<1>2. /\ Len(s) \in Nat /\ Len(t) \in Nat /\ s \o t \in Values /\ Len(s \o t) = Len(s) + Len(t)
      /\ \A i \in 1 .. Len(s) + Len(t) : (s \o t)[i] = IF i <= Len(s) THEN s[i] ELSE t[i - Len(s)]
  BY <1>1, LenProperties, ConcatProperties DEF Values
<1>3. ASSUME NEW i \in 1 .. Len(s) + Len(t) PROVE Alive(k, (s \o t)[i])
  <2>1. CASE i <= Len(s)
    <3>1. i \in 1 .. Len(s)
      BY <1>2, <2>1
    <3> QED
      BY <1>2, <2>1, <3>1 DEF Lives
  <2>2. CASE ~(i <= Len(s))
    <3>1. i - Len(s) \in 1 .. Len(t)
      BY <1>2, <2>2
    <3> QED
      BY <1>2, <2>2, <3>1 DEF Lives
  <2> QED
    BY <2>1, <2>2
<1> QED
  BY <1>2, <1>3 DEF Lives

LEMMA LivesAppend ==
  ASSUME NEW k, NEW s, Lives(k, s), NEW x \in AllObjects, Alive(k, x)
  PROVE  Lives(k, Append(s, x)) /\ Append(s, x) \in Values /\ Len(Append(s, x)) = Len(s) + 1
<1>1. Append(s, x) = s \o <<x>>
  BY AppendIsConcat DEF Lives, Values
<1>2. Lives(k, <<x>>) /\ Len(<<x>>) = 1
  BY LivesOnce
<1> QED
  BY <1>1, <1>2, LivesConcat

LEMMA LivesPart ==
  ASSUME NEW k, NEW s, Lives(k, s), NEW i \in Nat, NEW n \in Nat, 1 <= i, i <= n + 1, n <= Len(s)
  PROVE  Lives(k, SubSeq(s, i, n)) /\ SubSeq(s, i, n) \in Values
         /\ Len(SubSeq(s, i, n)) = n - i + 1
         /\ \A j \in 1 .. n - i + 1 : SubSeq(s, i, n)[j] = s[i + j - 1]
<1>1. s \in Values /\ Len(s) \in Nat /\ i \in 1 .. Len(s) + 1 /\ n \in i - 1 .. Len(s)
  BY LenProperties DEF Lives, Values
<1>2. \A j \in i .. n : s[j] \in AllObjects
  BY <1>1, ElementOfSeq DEF Values
<1>3. /\ SubSeq(s, i, n) \in Values /\ Len(SubSeq(s, i, n)) = IF i <= n THEN n - i + 1 ELSE 0
      /\ \A j \in 1 .. n - i + 1 : SubSeq(s, i, n)[j] = s[i + j - 1]
  BY <1>1, <1>2, SubSeqProperties DEF Values
<1>4. Len(SubSeq(s, i, n)) = n - i + 1
  BY <1>1, <1>3
<1>5. \A j \in 1 .. n - i + 1 : i + j - 1 \in 1 .. Len(s)
  BY <1>1
<1> QED
  BY <1>3, <1>4, <1>5 DEF Lives

LEMMA LivesStill ==
  ASSUME NEW k, NEW l, \A o \in Objects : k[o] # "free" => l[o] # "free"
  PROVE  /\ \A s : Lives(k, s) => Lives(l, s)
         /\ \A o : Alive(k, o) => Alive(l, o)
BY DEF Lives, Alive

LEMMA RefsType ==
  ASSUME NEW fs, FramesOK(fs), NEW p \in [Objects -> Values], NEW gs \in Values, NEW ex \in Values, NEW o
  PROVE  /\ FrameRefs(fs, o) \in Nat /\ PartRefs(p, o) \in Nat /\ gs \o ex \in Values
         /\ Occurrences(gs, o) \in Nat /\ Occurrences(ex, o) \in Nat
         /\ Occurrences(gs \o ex, o) = Occurrences(gs, o) + Occurrences(ex, o)
         /\ Refs(fs, p, gs, ex, o) \in Nat
         /\ Refs(fs, p, gs, ex, o) >= FrameRefs(fs, o)
         /\ Refs(fs, p, gs, ex, o) >= PartRefs(p, o)
         /\ Refs(fs, p, gs, ex, o) >= Occurrences(gs \o ex, o)
<1>1. FrameRefs(fs, o) \in Nat /\ PartRefs(p, o) \in Nat
  BY FrameRefsType, PartsType
<1>2. gs \o ex \in Values /\ Occurrences(gs \o ex, o) = Occurrences(gs, o) + Occurrences(ex, o)
  BY OccursConcat
<1>3. Occurrences(gs, o) \in Nat /\ Occurrences(ex, o) \in Nat /\ Occurrences(gs \o ex, o) \in Nat
  BY <1>2, OccursType
<1>4. Refs(fs, p, gs, ex, o) =
        FrameRefs(fs, o) + PartRefs(p, o) + Occurrences(gs \o ex, o) + (IF o \in Fixed THEN 1 ELSE 0)
  BY DEF Refs
<1>5. (IF o \in Fixed THEN 1 ELSE 0) \in Nat
  OBVIOUS
<1> QED
  BY <1>1, <1>2, <1>3, <1>4, <1>5

(* Whatever is referred to exists. *)
LEMMA WhatIsHeldLives ==
  ASSUME Inv
  PROVE  /\ \A q \in Objects : Lives(kind, parts[q])
         /\ Lives(kind, globals) /\ Lives(kind, exception)
         /\ \A f \in 1 .. Len(frames) :
              /\ Lives(kind, frames[f].stack) /\ Lives(kind, frames[f].held)
              /\ Alive(kind, frames[f].owner)
              /\ f # 1 => Alive(kind, frames[f].func)
<1> DEFINE R(o) == Refs(frames, parts, globals, exception, o)
<1>1. \A o \in AllObjects : R(o) > 0 => Alive(kind, o)
  BY DEF Inv, Counted
<1>2. /\ FramesOK(frames) /\ parts \in [Objects -> Values] /\ globals \in Values /\ exception \in Values
      /\ \A q \in Objects : parts[q] \in Values
  BY DEF Inv, HeapOK, CallsOK
<1>3. ASSUME NEW q \in Objects PROVE Lives(kind, parts[q])
  <2> SUFFICES ASSUME NEW o \in AllObjects, Occurrences(parts[q], o) > 0 PROVE Alive(kind, o)
    BY <1>2, LivesIf
  <2>1. /\ PartRefs(parts, o) = Total(Objects \ {q}, parts, o) + Occurrences(parts[q], o)
        /\ Total(Objects \ {q}, parts, o) \in Nat /\ Occurrences(parts[q], o) \in Nat
    BY <1>2, ConstantsAssumption, TotalLess DEF PartRefs
  <2>2. R(o) >= PartRefs(parts, o) /\ R(o) \in Nat /\ PartRefs(parts, o) \in Nat
    BY <1>2, RefsType
  <2> HIDE DEF R
  <2> QED
    BY <1>1, <2>1, <2>2
<1>4. Lives(kind, globals) /\ Lives(kind, exception)
  <2>1. \A o \in AllObjects : /\ R(o) >= Occurrences(globals \o exception, o) /\ R(o) \in Nat
                              /\ Occurrences(globals \o exception, o) =
                                   Occurrences(globals, o) + Occurrences(exception, o)
                              /\ Occurrences(globals, o) \in Nat /\ Occurrences(exception, o) \in Nat
    BY <1>2, RefsType
  <2> HIDE DEF R
  <2>2. \A o \in AllObjects : Occurrences(globals, o) > 0 \/ Occurrences(exception, o) > 0 => R(o) > 0
    BY <2>1
  <2> QED
    BY <1>1, <1>2, <2>2, LivesIf
<1>5. ASSUME NEW f \in 1 .. Len(frames)
      PROVE  /\ Lives(kind, frames[f].stack) /\ Lives(kind, frames[f].held)
             /\ Alive(kind, frames[f].owner)
             /\ f # 1 => Alive(kind, frames[f].func)
  <2>1. /\ f \in DOMAIN frames /\ frames[f] \in Frame /\ frames[f].stack \in Values /\ frames[f].held \in Values
        /\ frames[f].func \in AllObjects /\ frames[f].owner \in AllObjects
        /\ f = 1 => frames[f].owner \in Fixed
    <3>1. DOMAIN frames = 1 .. Len(frames)
      BY <1>2, FrameParts
    <3> QED
      BY <1>2, <3>1, FrameParts DEF FramesOK
  <2>2. ASSUME NEW o \in AllObjects
        PROVE  /\ R(o) >= Occurrences(FrameItems(frames)[f], o) /\ R(o) \in Nat
               /\ Occurrences(FrameItems(frames)[f], o) =
                    Occurrences(frames[f].stack, o) + Occurrences(frames[f].held, o)
                    + OwnersHeld(frames[f], f, o)
               /\ OwnersHeld(frames[f], f, o) \in Nat
               /\ Occurrences(frames[f].stack, o) \in Nat /\ Occurrences(frames[f].held, o) \in Nat
    <3>1. /\ FrameRefs(frames, o) = Total(DOMAIN frames \ {f}, FrameItems(frames), o)
                                    + Occurrences(FrameItems(frames)[f], o)
          /\ Total(DOMAIN frames \ {f}, FrameItems(frames), o) \in Nat
          /\ Occurrences(FrameItems(frames)[f], o) \in Nat
      <4>1. IsFiniteSet(DOMAIN frames) /\ \A g \in DOMAIN frames : FrameItems(frames)[g] \in Values
        BY <1>2, FrameRefsType
      <4>2. /\ Total(DOMAIN frames, FrameItems(frames), o) =
                 Total(DOMAIN frames \ {f}, FrameItems(frames), o) + Occurrences(FrameItems(frames)[f], o)
            /\ Total(DOMAIN frames \ {f}, FrameItems(frames), o) \in Nat
            /\ Occurrences(FrameItems(frames)[f], o) \in Nat
        BY ONLY <2>1, <4>1, TotalLess
      <4> QED
        BY <4>2 DEF FrameRefs
    <3>2. R(o) >= FrameRefs(frames, o) /\ R(o) \in Nat /\ FrameRefs(frames, o) \in Nat
      BY <1>2, RefsType
    <3> HIDE DEF R
    <3>3. R(o) >= Occurrences(FrameItems(frames)[f], o)
      BY <3>1, <3>2
    <3> QED
      BY <1>2, <3>2, <3>3, ItemsType
  <2> HIDE DEF R
  <2>3. \A o \in AllObjects :
          Occurrences(frames[f].stack, o) > 0 \/ Occurrences(frames[f].held, o) > 0
          \/ OwnersHeld(frames[f], f, o) > 0 => R(o) > 0
    BY <2>2
  <2>4. Lives(kind, frames[f].stack) /\ Lives(kind, frames[f].held)
    BY <1>1, <2>1, <2>3, LivesIf
  <2>5. CASE f = 1
    BY <2>1, <2>4, <2>5 DEF Alive
  <2>6. CASE f # 1
    <3>1. ASSUME NEW o \in {frames[f].func, frames[f].owner} PROVE OwnersHeld(frames[f], f, o) > 0
      <4>1. /\ Occurrences(Owners(frames[f]), o) =
                 Occurrences(<<frames[f].func>>, o) + Occurrences(<<frames[f].owner>>, o)
                 + Occurrences(<<frames[f].func>>, o) + Occurrences(<<frames[f].owner>>, o)
        BY <2>1, OwnersOccur
      <4>2. /\ Occurrences(<<frames[f].func>>, o) = IF frames[f].func = o THEN 1 ELSE 0
            /\ Occurrences(<<frames[f].owner>>, o) = IF frames[f].owner = o THEN 1 ELSE 0
        BY <2>1, OccursOnce
      <4>3. Occurrences(Owners(frames[f]), o) > 0
        BY <4>1, <4>2
      <4> QED
        BY <2>6, <4>3 DEF OwnersHeld
    <3> QED
      BY <1>1, <2>1, <2>3, <2>4, <3>1
  <2> QED
    BY <2>5, <2>6
<1> QED
  BY <1>3, <1>4, <1>5

(* The balance of a step that takes and gives up references: what is kept of *)
(* those that it no longer needs is counted and held by nobody.              *)
LEMMA MovedStep ==
  ASSUME Inv, NEW taken \in Values, NEW given \in Values, NEW kept \in Values,
         Account(taken, given), Lives(kind', taken),
         \A o \in Objects : kind[o] # "free" => kind'[o] # "free",
         HeapOK(kind', parts', sig'), FramesOK(frames'),
         CallsOK(frames', globals', exception', phase'), left' \in Nat,
         \A o \in AllObjects :
           Refs(frames', parts', globals', exception', o) + Occurrences(given, o) + Occurrences(kept, o) =
             Refs(frames, parts, globals, exception, o) + Occurrences(taken, o)
  PROVE  Inv' /\ (kept = <<>> => Excess' = Excess)
<1> DEFINE R(o) == Refs(frames, parts, globals, exception, o)
           N(o) == Refs(frames', parts', globals', exception', o)
<1>1. ASSUME NEW o \in AllObjects
      PROVE  /\ R(o) \in Nat /\ N(o) \in Nat /\ Occurrences(taken, o) \in Nat
             /\ Occurrences(given, o) \in Nat /\ Occurrences(kept, o) \in Nat
             /\ count[o] \in Int /\ count[o] >= R(o)
             /\ R(o) > 0 => Alive(kind, o)
  <2>1. R(o) \in Nat
    BY RefsType DEF Inv, HeapOK, CallsOK
  <2>2. N(o) \in Nat
    BY RefsType DEF HeapOK, CallsOK
  <2> QED
    BY <2>1, <2>2, OccursType DEF Inv, Counted
<1>2. \A o \in AllObjects : N(o) + Occurrences(given, o) + Occurrences(kept, o) = R(o) + Occurrences(taken, o)
  OBVIOUS
<1>3. count' = [o \in AllObjects |-> count[o] + Occurrences(taken, o) - Occurrences(given, o)]
  BY DEF Account
<1>4. \A o \in AllObjects : Occurrences(taken, o) > 0 => Alive(kind', o)
  BY LivesIf
<1>5. \A o \in AllObjects : R(o) > 0 => Alive(kind', o)
  BY <1>1 DEF Alive
<1>6. /\ \A o \in AllObjects : References(o) = R(o)
      /\ \A o \in AllObjects : References(o)' = N(o)
  BY RefsAre
<1> HIDE DEF R, N
<1>7. ASSUME NEW o \in AllObjects
      PROVE  /\ count'[o] \in Int /\ count'[o] >= N(o)
             /\ N(o) > 0 => Alive(kind', o)
             /\ count'[o] - N(o) = count[o] - R(o) + Occurrences(kept, o)
  BY <1>1, <1>2, <1>3, <1>4, <1>5
<1>8. count' \in [AllObjects -> Int]
  BY <1>3, <1>7
<1>9. Counted(frames', kind', parts', globals', exception', count')
  BY <1>7, <1>8 DEF Counted, N
<1>10. Inv'
  BY <1>9 DEF Inv
<1>11. ASSUME kept = <<>> PROVE Excess' = Excess
  <2>1. \A o \in AllObjects : Occurrences(kept, o) = 0
    BY <1>11, OccursNowhere
  <2>2. \A o \in AllObjects : count'[o] - References(o)' = count[o] - References(o)
    BY <1>1, <1>6, <1>7, <2>1
  <2> QED
    BY <2>2 DEF Excess
<1> QED
  BY <1>10, <1>11

LEMMA WeighedStep ==
  ASSUME Inv, NEW taken \in Values, NEW given \in Values, NEW kept \in Values,
         Account(taken, given), Lives(kind', taken),
         \A o \in Objects : kind[o] # "free" => kind'[o] # "free",
         HeapOK(kind', parts', sig'), FramesOK(frames'),
         CallsOK(frames', globals', exception', phase'), left' \in Nat,
         NEW a, NEW b, FramesMove(frames, frames', a, b),
         NEW c, NEW d, PartsMove(parts, parts', c, d),
         \A o \in AllObjects :
           Occurrences(b, o) + Occurrences(d, o) + Occurrences(globals' \o exception', o)
           + Occurrences(given, o) + Occurrences(kept, o) =
             Occurrences(a, o) + Occurrences(c, o) + Occurrences(globals \o exception, o)
             + Occurrences(taken, o)
  PROVE  Inv' /\ (kept = <<>> => Excess' = Excess)
<1> DEFINE X == globals \o exception
           Y == globals' \o exception'
<1>1. X \in Values /\ Y \in Values /\ a \in Values /\ b \in Values /\ c \in Values /\ d \in Values
  BY OccursConcat DEF Inv, CallsOK, FramesMove, PartsMove
<1>2. ASSUME NEW o \in AllObjects
      PROVE  Refs(frames', parts', globals', exception', o) + Occurrences(given, o) + Occurrences(kept, o) =
               Refs(frames, parts, globals, exception, o) + Occurrences(taken, o)
  <2> DEFINE one == IF o \in Fixed THEN 1 ELSE 0
  <2>1. /\ Refs(frames, parts, globals, exception, o) =
             FrameRefs(frames, o) + PartRefs(parts, o) + Occurrences(X, o) + one
        /\ Refs(frames', parts', globals', exception', o) =
             FrameRefs(frames', o) + PartRefs(parts', o) + Occurrences(Y, o) + one
    BY DEF Refs
  <2>2. /\ FrameRefs(frames', o) + Occurrences(a, o) = FrameRefs(frames, o) + Occurrences(b, o)
        /\ PartRefs(parts', o) + Occurrences(c, o) = PartRefs(parts, o) + Occurrences(d, o)
    BY DEF FramesMove, PartsMove
  <2>3. /\ Occurrences(X, o) \in Nat /\ Occurrences(Y, o) \in Nat /\ Occurrences(a, o) \in Nat
        /\ Occurrences(b, o) \in Nat /\ Occurrences(c, o) \in Nat /\ Occurrences(d, o) \in Nat
        /\ Occurrences(taken, o) \in Nat /\ Occurrences(given, o) \in Nat /\ Occurrences(kept, o) \in Nat
    BY <1>1, OccursType
  <2>4. /\ FrameRefs(frames, o) \in Nat /\ FrameRefs(frames', o) \in Nat
        /\ PartRefs(parts, o) \in Nat /\ PartRefs(parts', o) \in Nat /\ one \in Nat
    BY FrameRefsType, PartsType DEF Inv, HeapOK
  <2>5. Occurrences(b, o) + Occurrences(d, o) + Occurrences(Y, o)
           + Occurrences(given, o) + Occurrences(kept, o) =
             Occurrences(a, o) + Occurrences(c, o) + Occurrences(X, o) + Occurrences(taken, o)
    OBVIOUS
  <2> HIDE DEF one, X, Y
  <2> QED
    BY ONLY <2>1, <2>2, <2>3, <2>4, <2>5
<1> QED
  BY <1>2, MovedStep

(* The frame that runs. *)
LEMMA Running_ ==
  ASSUME Inv, frames # <<>>
  PROVE  /\ Len(frames) \in Nat /\ Len(frames) \in 1 .. Len(frames) /\ Len(frames) >= 1
         /\ Fr \in Frame /\ FrameOK(Fr) /\ Fr.stack \in Values /\ Fr.held \in Values
         /\ Fr.func \in AllObjects /\ Fr.owner \in AllObjects
         /\ Len(Fr.stack) \in Nat /\ Fr.n_locals \in Nat
         /\ Base \in Nat /\ Fr.n_locals <= Base /\ Base <= Len(Fr.stack)
         /\ Fr.blocks \in Seq(Block) /\ \A b \in DOMAIN Fr.blocks : Fr.blocks[b].level <= Base
         /\ Lives(kind, Fr.stack) /\ Lives(kind, Fr.held) /\ Alive(kind, Fr.owner)
<1>1. /\ Len(frames) \in Nat /\ Len(frames) \in 1 .. Len(frames) /\ Len(frames) >= 1
      /\ Fr \in Frame /\ FrameOK(Fr) /\ Fr.stack \in Values /\ Fr.held \in Values
      /\ Fr.func \in AllObjects /\ Fr.owner \in AllObjects
      /\ Len(Fr.stack) \in Nat /\ Fr.n_locals \in Nat
  BY FrameParts DEF Inv, Fr
<1>2. Lives(kind, Fr.stack) /\ Lives(kind, Fr.held) /\ Alive(kind, Fr.owner)
  BY <1>1, WhatIsHeldLives DEF Fr
<1>3. Fr.n_locals <= Len(Fr.stack) /\ BlocksStand(Fr.blocks, Fr.n_locals, Len(Fr.stack)) /\ Fr.blocks \in Seq(Block)
  BY <1>1 DEF FrameOK, Frame
<1>4. CASE Fr.blocks = <<>>
  BY <1>1, <1>2, <1>3, <1>4 DEF Base
<1>5. CASE Fr.blocks # <<>>
  <2> DEFINE n == Len(Fr.blocks)
  <2>1. n \in Nat /\ n >= 1 /\ DOMAIN Fr.blocks = 1 .. n
    BY <1>3, <1>5, LenProperties, EmptySeq
  <2>2. /\ Fr.blocks[n] \in Block /\ Base = Fr.blocks[n].level
    BY <1>3, <1>5, <2>1, ElementOfSeq DEF Base, Last
  <2>3. Base \in Nat
    BY <2>2 DEF Block
  <2>4. \A b \in DOMAIN Fr.blocks : Fr.blocks[b].level <= Base
    BY <1>3, <2>1, <2>2 DEF BlocksStand
  <2>5. Fr.n_locals <= Base /\ Base <= Len(Fr.stack)
    BY <1>3, <2>1, <2>2 DEF BlocksStand
  <2> QED
    BY <1>1, <1>2, <1>3, <2>3, <2>4, <2>5
<1> QED
  BY <1>4, <1>5

LEMMA StackSet ==
  ASSUME Inv, frames # <<>>, NEW s \in Values, Len(s) >= Base, SetStack(s)
  PROVE  /\ FramesOK(frames') /\ FramesMove(frames, frames', Fr.stack, s)
         /\ Len(frames') = Len(frames) /\ frames' # <<>>
         /\ frames'[Len(frames')].held = Fr.held
<1> DEFINE n == Len(frames)
           g == [Fr EXCEPT !.stack = s]
<1>1. /\ n \in Nat /\ n \in 1 .. n /\ Fr \in Frame /\ FrameOK(Fr) /\ Base \in Nat /\ Fr.n_locals <= Base
      /\ Fr.blocks \in Seq(Block) /\ \A b \in DOMAIN Fr.blocks : Fr.blocks[b].level <= Base
      /\ Fr.stack \in Values /\ Fr.held \in Values /\ Fr.n_locals \in Nat
  BY Running_
<1>2. /\ frames \in Seq(Frame) /\ DOMAIN frames = 1 .. n /\ FramesOK(frames)
  BY FrameParts DEF Inv, FramesOK
<1>3. frames' = [frames EXCEPT ![n] = g]
  BY DEF SetStack, Fr
<1>4. /\ g \in Frame /\ g.stack = s /\ g.held = Fr.held /\ g.func = Fr.func /\ g.owner = Fr.owner
      /\ g.blocks = Fr.blocks /\ g.n_locals = Fr.n_locals
  BY <1>1 DEF Frame
<1> HIDE DEF g
<1>5. /\ frames' \in Seq(Frame) /\ Len(frames') = n /\ frames'[n] = g
      /\ \A f \in 1 .. n - 1 : frames'[f] = frames[f]
      /\ DOMAIN frames' = 1 .. n
  <2>1. /\ frames' \in Seq(Frame) /\ Len(frames') = n
        /\ \A f \in 1 .. n : frames'[f] = IF f = n THEN g ELSE frames[f]
    BY <1>1, <1>2, <1>3, <1>4, ExceptSeq
  <2> QED
    BY <1>1, <2>1, LenProperties
<1>6. FrameOK(g)
  <2>1. \A b \in DOMAIN Fr.blocks : Fr.blocks[b].level \in Nat
    <3>1. \A b \in DOMAIN Fr.blocks : Fr.blocks[b] \in Block
      BY <1>1
    <3> QED
      BY <3>1 DEF Block
  <2>2. Len(s) \in Nat /\ Fr.n_locals <= Len(s)
    BY <1>1, LenProperties DEF Values
  <2>3. \A b \in DOMAIN Fr.blocks : Fr.blocks[b].level <= Len(s)
    BY <1>1, <2>1, <2>2
  <2> QED
    BY <1>1, <1>4, <2>2, <2>3 DEF FrameOK, BlocksStand
<1>7. FramesOK(frames')
  <2>1. \A f \in 1 .. n : f = n \/ f \in 1 .. n - 1
    BY <1>1
  <2>2. \A f \in 1 .. n : FrameOK(frames'[f])
    BY <1>2, <1>5, <1>6, <2>1 DEF FramesOK
  <2>3. \A f \in 1 .. n : frames'[f].owner = frames[f].owner /\ frames'[f].func = frames[f].func
    BY <1>4, <1>5, <2>1 DEF Fr
  <2> QED
    BY <1>2, <1>5, <2>2, <2>3 DEF FramesOK
<1>8. FramesMove(frames, frames', Fr.stack \o Fr.held, s \o Fr.held)
  <2>1. FramesMove(frames, frames', frames[n].stack \o frames[n].held, frames'[n].stack \o frames'[n].held)
    BY <1>2, <1>4, <1>5, <1>7, TopChanges DEF Fr
  <2> QED
    BY <1>4, <1>5, <2>1 DEF Fr
<1>9. ASSUME NEW o \in AllObjects
      PROVE  FrameRefs(frames', o) + Occurrences(Fr.stack, o) = FrameRefs(frames, o) + Occurrences(s, o)
  <2>1. FrameRefs(frames', o) + Occurrences(Fr.stack \o Fr.held, o) =
          FrameRefs(frames, o) + Occurrences(s \o Fr.held, o)
    BY <1>8 DEF FramesMove
  <2>2. /\ Occurrences(Fr.stack \o Fr.held, o) = Occurrences(Fr.stack, o) + Occurrences(Fr.held, o)
        /\ Occurrences(s \o Fr.held, o) = Occurrences(s, o) + Occurrences(Fr.held, o)
    BY <1>1, OccursConcat
  <2>3. /\ Occurrences(Fr.stack, o) \in Nat /\ Occurrences(s, o) \in Nat /\ Occurrences(Fr.held, o) \in Nat
        /\ FrameRefs(frames', o) \in Nat /\ FrameRefs(frames, o) \in Nat
    BY <1>1, <1>2, <1>7, OccursType, FrameRefsType
  <2> QED
    BY ONLY <2>1, <2>2, <2>3
<1> QED
  BY <1>1, <1>4, <1>5, <1>7, <1>9, EmptySeq DEF FramesMove

(* An instruction that succeeds, and one that fails.  Of the heap it changes *)
(* parts alone, or makes an object.                                          *)
HeapMoves(c, d) ==
  /\ PartsMove(parts, parts', c, d) /\ HeapOK(kind', parts', sig')
  /\ \A o \in Objects : kind[o] # "free" => kind'[o] # "free"

LEMMA HeapStays ==
  ASSUME Inv, UNCHANGED heap
  PROVE  HeapMoves(<<>>, <<>>) /\ kind' = kind
<1>1. kind' = kind /\ parts' = parts /\ sig' = sig
  BY DEF heap
<1> QED
  BY <1>1, PartsStay DEF HeapMoves, Inv, HeapOK

Weighs(s, d, given, c, taken) ==
  \A o \in AllObjects :
    Occurrences(s, o) + Occurrences(d, o) + Occurrences(given, o) =
      Occurrences(Fr.stack, o) + Occurrences(c, o) + Occurrences(taken, o)

LEMMA SucceedsStep ==
  ASSUME Inv, Running, left' = left - 1,
         NEW s \in Values, NEW taken \in Values, NEW given \in Values,
         Succeeds(s, taken, given), Len(s) >= Base, Lives(kind', taken),
         NEW c, NEW d, HeapMoves(c, d),
         Weighs(s, d, given, c, taken)
  PROVE  Inv' /\ Excess' = Excess
<1>1. /\ frames # <<>> /\ phase = "run" /\ left' \in Nat
      /\ SetStack(s) /\ Account(taken, given)
      /\ globals' = globals /\ exception' = exception /\ phase' = phase
  BY DEF Running, Inv, Succeeds, Quiet
<1>2. /\ FramesOK(frames') /\ FramesMove(frames, frames', Fr.stack, s)
      /\ Len(frames') = Len(frames) /\ frames' # <<>> /\ frames'[Len(frames)].held = Fr.held
  BY <1>1, StackSet
<1>3. CallsOK(frames', globals', exception', phase')
  BY <1>1, <1>2 DEF Inv, CallsOK, Fr
<1>4. <<>> \in Values
  BY EmptySeq DEF Values
<1>5. ASSUME NEW o \in AllObjects
      PROVE  Occurrences(s, o) + Occurrences(d, o) + Occurrences(globals' \o exception', o)
             + Occurrences(given, o) + Occurrences(<<>>, o) =
               Occurrences(Fr.stack, o) + Occurrences(c, o) + Occurrences(globals \o exception, o)
               + Occurrences(taken, o)
  <2>1. /\ Occurrences(s, o) \in Nat /\ Occurrences(d, o) \in Nat /\ Occurrences(given, o) \in Nat
        /\ Occurrences(c, o) \in Nat /\ Occurrences(taken, o) \in Nat
    BY OccursType DEF HeapMoves, PartsMove
  <2>2. Occurrences(Fr.stack, o) \in Nat
    BY <1>1, Running_, OccursType
  <2>3. Occurrences(globals \o exception, o) \in Nat
    BY OccursConcat, OccursType DEF Inv, CallsOK
  <2>4. Occurrences(s, o) + Occurrences(d, o) + Occurrences(given, o) =
          Occurrences(Fr.stack, o) + Occurrences(c, o) + Occurrences(taken, o)
    BY DEF Weighs
  <2>5. /\ Occurrences(globals' \o exception', o) = Occurrences(globals \o exception, o)
        /\ Occurrences(<<>>, o) = 0
    BY <1>1, OccursNowhere
  <2> DEFINE x == Occurrences(globals \o exception, o)
             y == Occurrences(globals' \o exception', o)
             z == Occurrences(<<>>, o)
  <2>6. x \in Nat /\ y = x /\ z = 0
    BY <2>3, <2>5
  <2> HIDE DEF x, y, z
  <2>7. Occurrences(s, o) + Occurrences(d, o) + y + Occurrences(given, o) + z =
          Occurrences(Fr.stack, o) + Occurrences(c, o) + x + Occurrences(taken, o)
    BY ONLY <2>1, <2>2, <2>4, <2>6
  <2> QED
    BY <2>7 DEF x, y, z
<1> QED
  BY <1>1, <1>2, <1>3, <1>4, <1>5, WeighedStep DEF HeapMoves

LEMMA FailsStep ==
  ASSUME Inv, Running, left' = left - 1,
         NEW s \in Values, NEW taken \in Values, NEW given \in Values, NEW kept \in Values,
         Fails(s, taken, given), Len(s) >= Base, Lives(kind', taken),
         NEW c, NEW d, HeapMoves(c, d),
         \A o \in AllObjects :
           Occurrences(s, o) + Occurrences(d, o) + Occurrences(given, o) + Occurrences(kept, o) =
             Occurrences(Fr.stack, o) + Occurrences(c, o) + Occurrences(taken, o)
  PROVE  Inv' /\ (kept = <<>> => Excess' = Excess)
<1>1. /\ frames # <<>> /\ phase = "run" /\ left' \in Nat
      /\ SetStack(s) /\ Account(Append(taken, Error), given)
      /\ globals' = globals /\ exception' = <<Error>> /\ phase' = "failed"
  BY DEF Running, Inv, Fails
<1>2. /\ FramesOK(frames') /\ FramesMove(frames, frames', Fr.stack, s)
      /\ Len(frames') = Len(frames) /\ frames' # <<>> /\ frames'[Len(frames)].held = Fr.held
  BY <1>1, StackSet
<1>3. Error \in AllObjects /\ Error \in Fixed
  BY DEF AllObjects, Fixed
<1>4. <<Error>> \in Values /\ Len(<<Error>>) = 1 /\ Append(taken, Error) \in Values
  BY <1>3, OccursAppend
<1>5. CallsOK(frames', globals', exception', phase')
  BY <1>1, <1>2, <1>4 DEF Inv, CallsOK, Fr
<1>6. Lives(kind', Append(taken, Error))
  <2>1. Alive(kind', Error)
    BY <1>3 DEF Alive
  <2> QED
    BY <1>3, <2>1, LivesAppend
<1>7. exception = <<>> /\ globals \in Values
  BY <1>1 DEF Inv, CallsOK
<1>8. ASSUME NEW o \in AllObjects
      PROVE  Occurrences(s, o) + Occurrences(d, o) + Occurrences(globals' \o exception', o)
             + Occurrences(given, o) + Occurrences(kept, o) =
               Occurrences(Fr.stack, o) + Occurrences(c, o) + Occurrences(globals \o exception, o)
               + Occurrences(Append(taken, Error), o)
  <2>1. /\ Occurrences(s, o) \in Nat /\ Occurrences(d, o) \in Nat /\ Occurrences(given, o) \in Nat
        /\ Occurrences(c, o) \in Nat /\ Occurrences(taken, o) \in Nat /\ Occurrences(kept, o) \in Nat
        /\ Occurrences(globals, o) \in Nat
    BY <1>7, OccursType DEF HeapMoves, PartsMove
  <2>2. Occurrences(Fr.stack, o) \in Nat
    BY <1>1, Running_, OccursType
  <2>3. /\ Occurrences(globals \o exception, o) = Occurrences(globals, o)
        /\ Occurrences(globals' \o exception', o) = Occurrences(globals, o) + Occurrences(<<Error>>, o)
        /\ Occurrences(<<Error>>, o) \in Nat
        /\ Occurrences(Append(taken, Error), o) = Occurrences(taken, o) + Occurrences(<<Error>>, o)
    <3>1. globals \o exception = globals
      BY <1>7, ConcatEmptySeq DEF Values
    <3>2. /\ Occurrences(globals \o <<Error>>, o) = Occurrences(globals, o) + Occurrences(<<Error>>, o)
      BY <1>4, <1>7, OccursConcat
    <3> QED
      BY <1>1, <1>3, <1>4, <3>1, <3>2, OccursAppend, OccursType
  <2>4. Occurrences(s, o) + Occurrences(d, o) + Occurrences(given, o) + Occurrences(kept, o) =
          Occurrences(Fr.stack, o) + Occurrences(c, o) + Occurrences(taken, o)
    OBVIOUS
  <2> QED
    BY ONLY <2>1, <2>2, <2>3, <2>4
<1>9. Inv' /\ (kept = <<>> => Excess' = Excess)
  BY <1>1, <1>2, <1>4, <1>5, <1>6, <1>8, WeighedStep DEF HeapMoves
<1> QED
  BY <1>9

(* Where the heap does not change and nothing is kept. *)
LEMMA SucceedsSimply ==
  ASSUME Inv, Running, left' = left - 1, UNCHANGED heap,
         NEW s \in Values, NEW taken \in Values, NEW given \in Values,
         Succeeds(s, taken, given), Len(s) >= Base, Lives(kind, taken),
         \A o \in AllObjects :
           Occurrences(s, o) + Occurrences(given, o) = Occurrences(Fr.stack, o) + Occurrences(taken, o)
  PROVE  Inv' /\ Excess' = Excess
<1>1. HeapMoves(<<>>, <<>>) /\ kind' = kind
  BY HeapStays
<1>2. ASSUME NEW o \in AllObjects
      PROVE  Occurrences(s, o) + Occurrences(<<>>, o) + Occurrences(given, o) =
               Occurrences(Fr.stack, o) + Occurrences(<<>>, o) + Occurrences(taken, o)
  <2>1. /\ Occurrences(s, o) \in Nat /\ Occurrences(given, o) \in Nat /\ Occurrences(taken, o) \in Nat
        /\ Occurrences(<<>>, o) = 0
    BY OccursType, OccursNowhere
  <2>2. Occurrences(Fr.stack, o) \in Nat
    BY Running_, OccursType DEF Running
  <2> QED
    BY <2>1, <2>2
<1>3. Weighs(s, <<>>, given, <<>>, taken)
  BY <1>2 DEF Weighs
<1> QED
  BY <1>1, <1>3, SucceedsStep

LEMMA FailsSimply ==
  ASSUME Inv, Running, left' = left - 1, UNCHANGED heap,
         NEW s \in Values, NEW taken \in Values, NEW given \in Values,
         Fails(s, taken, given), Len(s) >= Base, Lives(kind, taken),
         \A o \in AllObjects :
           Occurrences(s, o) + Occurrences(given, o) = Occurrences(Fr.stack, o) + Occurrences(taken, o)
  PROVE  Inv' /\ Excess' = Excess
<1>1. HeapMoves(<<>>, <<>>) /\ kind' = kind /\ <<>> \in Values
  BY HeapStays, EmptySeq DEF Values
<1>2. ASSUME NEW o \in AllObjects
      PROVE  Occurrences(s, o) + Occurrences(<<>>, o) + Occurrences(given, o) + Occurrences(<<>>, o) =
               Occurrences(Fr.stack, o) + Occurrences(<<>>, o) + Occurrences(taken, o)
  <2>1. /\ Occurrences(s, o) \in Nat /\ Occurrences(given, o) \in Nat /\ Occurrences(taken, o) \in Nat
        /\ Occurrences(<<>>, o) = 0
    BY OccursType, OccursNowhere
  <2>2. Occurrences(Fr.stack, o) \in Nat
    BY Running_, OccursType DEF Running
  <2> QED
    BY <2>1, <2>2
<1> QED
  BY <1>1, <1>2, FailsStep

(* Operands. *)
LEMMA Operands ==
  ASSUME Inv, frames # <<>>, NEW n \in Nat, Has(n)
  PROVE  /\ Lives(kind, Below(n)) /\ Below(n) \in Values /\ Len(Below(n)) >= Base
         /\ Len(Below(n)) = Len(Fr.stack) - n /\ Len(Fr.stack) \in Nat /\ n <= Len(Fr.stack)
         /\ Fr.n_locals <= Len(Below(n)) /\ \A i \in 1 .. Len(Below(n)) : Below(n)[i] = Fr.stack[i]
         /\ Lives(kind, Upper(n)) /\ Upper(n) \in Values /\ Len(Upper(n)) = n
         /\ \A o : /\ Occurrences(Fr.stack, o) = Occurrences(Below(n), o) + Occurrences(Upper(n), o)
                   /\ Occurrences(Below(n), o) \in Nat /\ Occurrences(Upper(n), o) \in Nat
                   /\ Occurrences(Fr.stack, o) \in Nat
         /\ \A i \in 1 .. n : Top(i) \in AllObjects /\ Alive(kind, Top(i)) /\ Upper(n)[n - i + 1] = Top(i)
<1> DEFINE s == Fr.stack
           m == Len(s) - n
<1>1. /\ s \in Values /\ Len(s) \in Nat /\ Lives(kind, s) /\ Base \in Nat /\ Fr.n_locals \in Nat
      /\ Fr.n_locals <= Base
  BY Running_
<1>2. m \in Nat /\ m >= Base /\ m <= Len(s) /\ m \in 0 .. Len(s) /\ n <= Len(s) /\ Len(s) - m = n
  BY <1>1 DEF Has
<1>3. Below(n) = SubSeq(s, 1, m) /\ Upper(n) = SubSeq(s, m + 1, Len(s))
  BY DEF Below, Upper
<1>4. \A i \in 1 .. n : Top(i) = s[Len(s) - i + 1]
  BY DEF Top
<1>5. m = Len(s) - n
  OBVIOUS
<1> HIDE DEF m, s
<1>6. /\ Lives(kind, SubSeq(s, 1, m)) /\ SubSeq(s, 1, m) \in Values /\ Len(SubSeq(s, 1, m)) = m
      /\ \A i \in 1 .. m : SubSeq(s, 1, m)[i] = s[i]
  <2>1. 1 \in Nat /\ 1 <= 1 /\ 1 <= m + 1 /\ m - 1 + 1 = m
    BY <1>2
  <2>2. /\ Lives(kind, SubSeq(s, 1, m)) /\ SubSeq(s, 1, m) \in Values /\ Len(SubSeq(s, 1, m)) = m - 1 + 1
        /\ \A i \in 1 .. m - 1 + 1 : SubSeq(s, 1, m)[i] = s[1 + i - 1]
    BY ONLY <1>1, <1>2, <2>1, LivesPart
  <2>3. \A i \in 1 .. m : 1 + i - 1 = i
    BY <1>2
  <2> QED
    BY <2>1, <2>2, <2>3
<1>7. /\ Lives(kind, SubSeq(s, m + 1, Len(s))) /\ SubSeq(s, m + 1, Len(s)) \in Values
      /\ Len(SubSeq(s, m + 1, Len(s))) = n
      /\ \A i \in 1 .. n : SubSeq(s, m + 1, Len(s))[i] = s[m + i]
  <2>1. m + 1 \in Nat /\ 1 <= m + 1 /\ m + 1 <= Len(s) + 1 /\ Len(s) - (m + 1) + 1 = n
    BY <1>1, <1>2
  <2>2. /\ Lives(kind, SubSeq(s, m + 1, Len(s))) /\ SubSeq(s, m + 1, Len(s)) \in Values
        /\ Len(SubSeq(s, m + 1, Len(s))) = Len(s) - (m + 1) + 1
        /\ \A i \in 1 .. Len(s) - (m + 1) + 1 : SubSeq(s, m + 1, Len(s))[i] = s[m + 1 + i - 1]
    BY <1>1, <2>1, LivesPart
  <2>3. \A i \in 1 .. n : m + 1 + i - 1 = m + i
    BY <1>2
  <2> QED
    BY <2>1, <2>2, <2>3
<1>8. \A o : Occurrences(s, o) = Occurrences(SubSeq(s, 1, m), o) + Occurrences(SubSeq(s, m + 1, Len(s)), o)
  BY <1>1, <1>2, OccursCut
<1>9. \A o : /\ Occurrences(SubSeq(s, 1, m), o) \in Nat /\ Occurrences(SubSeq(s, m + 1, Len(s)), o) \in Nat
             /\ Occurrences(s, o) \in Nat
  BY <1>1, <1>6, <1>7, OccursType
<1>10. \A i \in 1 .. n : Top(i) \in AllObjects /\ Alive(kind, Top(i)) /\ Upper(n)[n - i + 1] = Top(i)
  <2> SUFFICES ASSUME NEW i \in 1 .. n
               PROVE  Top(i) \in AllObjects /\ Alive(kind, Top(i)) /\ Upper(n)[n - i + 1] = Top(i)
    OBVIOUS
  <2>1. /\ Len(s) - i + 1 \in 1 .. Len(s) /\ n - i + 1 \in 1 .. n
        /\ m + (n - i + 1) = Len(s) - i + 1
    BY <1>1, <1>2
  <2>2. s[Len(s) - i + 1] \in AllObjects /\ Alive(kind, s[Len(s) - i + 1])
    BY <1>1, <2>1, ElementOfSeq DEF Lives, Values
  <2> QED
    BY <1>3, <1>4, <1>7, <2>1, <2>2
<1>11. /\ Lives(kind, Below(n)) /\ Below(n) \in Values /\ Len(Below(n)) = m
       /\ \A i \in 1 .. Len(Below(n)) : Below(n)[i] = s[i]
  BY <1>3, <1>6
<1>12. /\ Lives(kind, Upper(n)) /\ Upper(n) \in Values /\ Len(Upper(n)) = n
  BY <1>3, <1>7
<1>13. /\ \A o : /\ Occurrences(s, o) = Occurrences(Below(n), o) + Occurrences(Upper(n), o)
                 /\ Occurrences(Below(n), o) \in Nat /\ Occurrences(Upper(n), o) \in Nat
                 /\ Occurrences(s, o) \in Nat
  BY <1>3, <1>8, <1>9
<1>14. Fr.n_locals <= m /\ m = Len(s) - n
  BY <1>1, <1>2, <1>5
<1> QED
  BY <1>1, <1>2, <1>10, <1>11, <1>12, <1>13, <1>14 DEF s

LEMMA OneOperand ==
  ASSUME Inv, frames # <<>>, Has(1)
  PROVE  /\ Upper(1) = <<Top(1)>> /\ Top(1) \in AllObjects /\ Alive(kind, Top(1))
         /\ \A o : /\ Occurrences(Fr.stack, o) = Occurrences(Below(1), o) + Occurrences(<<Top(1)>>, o)
                   /\ Occurrences(Below(1), o) \in Nat /\ Occurrences(<<Top(1)>>, o) \in Nat
                   /\ Occurrences(Fr.stack, o) \in Nat
<1>1. Upper(1) \in Values /\ Len(Upper(1)) = 1 /\ Top(1) \in AllObjects /\ Alive(kind, Top(1)) /\ Upper(1)[1] = Top(1)
  <2>1. 1 \in Nat /\ 1 \in 1 .. 1 /\ 1 - 1 + 1 = 1
    OBVIOUS
  <2>2. /\ Upper(1) \in Values /\ Len(Upper(1)) = 1 /\ Top(1) \in AllObjects /\ Alive(kind, Top(1))
        /\ Upper(1)[1 - 1 + 1] = Top(1)
    BY <2>1, Operands
  <2> QED
    BY <2>1, <2>2
<1>2. Upper(1) = <<Top(1)>>
  BY <1>1 DEF Values
<1> QED
  BY <1>1, <1>2, Operands

LEMMA TwoOperands ==
  ASSUME Inv, frames # <<>>, Has(2)
  PROVE  /\ Upper(2) = <<Top(2), Top(1)>> /\ Upper(2) \in Values
         /\ Top(1) \in AllObjects /\ Alive(kind, Top(1)) /\ Top(2) \in AllObjects /\ Alive(kind, Top(2))
         /\ \A o : /\ Occurrences(Upper(2), o) = Occurrences(<<Top(2)>>, o) + Occurrences(<<Top(1)>>, o)
                   /\ Occurrences(<<Top(1)>>, o) \in Nat /\ Occurrences(<<Top(2)>>, o) \in Nat
                   /\ Occurrences(Fr.stack, o) = Occurrences(Below(2), o) + Occurrences(Upper(2), o)
                   /\ Occurrences(Below(2), o) \in Nat /\ Occurrences(Upper(2), o) \in Nat
                   /\ Occurrences(Fr.stack, o) \in Nat
<1>1. /\ Upper(2) \in Values /\ Len(Upper(2)) = 2 /\ Upper(2)[2] = Top(1) /\ Upper(2)[1] = Top(2)
      /\ Top(1) \in AllObjects /\ Alive(kind, Top(1)) /\ Top(2) \in AllObjects /\ Alive(kind, Top(2))
  <2>1. 2 \in Nat /\ 1 \in 1 .. 2 /\ 2 \in 1 .. 2 /\ 2 - 1 + 1 = 2 /\ 2 - 2 + 1 = 1
    OBVIOUS
  <2>2. /\ Upper(2) \in Values /\ Len(Upper(2)) = 2
        /\ \A i \in 1 .. 2 : Top(i) \in AllObjects /\ Alive(kind, Top(i)) /\ Upper(2)[2 - i + 1] = Top(i)
    BY <2>1, Operands
  <2> QED
    BY <2>1, <2>2
<1>2. Upper(2) = <<Top(2), Top(1)>>
  BY <1>1 DEF Values
<1>3. \A o : /\ Occurrences(<<Top(2), Top(1)>>, o) = Occurrences(<<Top(2)>>, o) + Occurrences(<<Top(1)>>, o)
             /\ Occurrences(<<Top(1)>>, o) \in Nat /\ Occurrences(<<Top(2)>>, o) \in Nat
  BY <1>1, OccursPair, OccursOnce, OccursType
<1>4. \A o : /\ Occurrences(Fr.stack, o) = Occurrences(Below(2), o) + Occurrences(Upper(2), o)
             /\ Occurrences(Below(2), o) \in Nat /\ Occurrences(Upper(2), o) \in Nat
             /\ Occurrences(Fr.stack, o) \in Nat
  BY Operands
<1> QED
  BY <1>1, <1>2, <1>3, <1>4

LEMMA ThreeOperands ==
  ASSUME Inv, frames # <<>>, Has(3)
  PROVE  /\ Upper(3) = <<Top(3), Top(2), Top(1)>> /\ Upper(3) \in Values
         /\ Top(1) \in AllObjects /\ Alive(kind, Top(1)) /\ Top(2) \in AllObjects /\ Alive(kind, Top(2))
         /\ Top(3) \in AllObjects /\ Alive(kind, Top(3))
         /\ \A o : /\ Occurrences(Upper(3), o) = Occurrences(<<Top(3)>>, o) + Occurrences(<<Top(2)>>, o)
                                                 + Occurrences(<<Top(1)>>, o)
                   /\ Occurrences(<<Top(1)>>, o) \in Nat /\ Occurrences(<<Top(2)>>, o) \in Nat
                   /\ Occurrences(<<Top(3)>>, o) \in Nat
                   /\ Occurrences(Fr.stack, o) = Occurrences(Below(3), o) + Occurrences(Upper(3), o)
                   /\ Occurrences(Below(3), o) \in Nat /\ Occurrences(Upper(3), o) \in Nat
                   /\ Occurrences(Fr.stack, o) \in Nat
<1>1. /\ Upper(3) \in Values /\ Len(Upper(3)) = 3
      /\ Upper(3)[3] = Top(1) /\ Upper(3)[2] = Top(2) /\ Upper(3)[1] = Top(3)
      /\ Top(1) \in AllObjects /\ Alive(kind, Top(1)) /\ Top(2) \in AllObjects /\ Alive(kind, Top(2))
      /\ Top(3) \in AllObjects /\ Alive(kind, Top(3))
  <2>1. /\ 3 \in Nat /\ 1 \in 1 .. 3 /\ 2 \in 1 .. 3 /\ 3 \in 1 .. 3
        /\ 3 - 1 + 1 = 3 /\ 3 - 2 + 1 = 2 /\ 3 - 3 + 1 = 1
    OBVIOUS
  <2>2. /\ Upper(3) \in Values /\ Len(Upper(3)) = 3
        /\ \A i \in 1 .. 3 : Top(i) \in AllObjects /\ Alive(kind, Top(i)) /\ Upper(3)[3 - i + 1] = Top(i)
    BY <2>1, Operands
  <2> QED
    BY <2>1, <2>2
<1>2. Upper(3) = <<Top(3), Top(2), Top(1)>>
  BY <1>1 DEF Values
<1>3. \A o : /\ Occurrences(<<Top(3), Top(2), Top(1)>>, o) =
                  Occurrences(<<Top(3)>>, o) + Occurrences(<<Top(2)>>, o) + Occurrences(<<Top(1)>>, o)
             /\ Occurrences(<<Top(1)>>, o) \in Nat /\ Occurrences(<<Top(2)>>, o) \in Nat
             /\ Occurrences(<<Top(3)>>, o) \in Nat
  BY <1>1, OccursTriple, OccursOnce, OccursType
<1>4. \A o : /\ Occurrences(Fr.stack, o) = Occurrences(Below(3), o) + Occurrences(Upper(3), o)
             /\ Occurrences(Below(3), o) \in Nat /\ Occurrences(Upper(3), o) \in Nat
             /\ Occurrences(Fr.stack, o) \in Nat
  BY Operands
<1> QED
  BY <1>1, <1>2, <1>3, <1>4
------------------------------------------------------------------------------
(* Steps that many handlers share. *)

LEMMA PushStep ==
  ASSUME Inv, Running, left' = left - 1, UNCHANGED heap, NEW x \in AllObjects, Alive(kind, x),
         Succeeds(Append(Fr.stack, x), <<x>>, <<>>)
  PROVE  Inv' /\ Excess' = Excess
<1>1. Lives(kind, Fr.stack) /\ Fr.stack \in Values /\ Len(Fr.stack) \in Nat /\ Base \in Nat /\ Base <= Len(Fr.stack)
  BY Running_ DEF Running
<1>2. Lives(kind, <<x>>) /\ <<x>> \in Values /\ <<>> \in Values
  BY LivesOnce, LivesNone
<1>3. Append(Fr.stack, x) \in Values /\ Len(Append(Fr.stack, x)) = Len(Fr.stack) + 1
  BY <1>1, LivesAppend
<1>4. ASSUME NEW o \in AllObjects
      PROVE  Occurrences(Append(Fr.stack, x), o) + Occurrences(<<>>, o) =
               Occurrences(Fr.stack, o) + Occurrences(<<x>>, o)
  <2>1. Occurrences(Append(Fr.stack, x), o) = Occurrences(Fr.stack, o) + Occurrences(<<x>>, o)
    BY <1>1, OccursAppend
  <2>2. /\ Occurrences(Fr.stack, o) \in Nat /\ Occurrences(<<x>>, o) \in Nat /\ Occurrences(<<>>, o) = 0
    BY <1>1, <1>2, OccursType, OccursNowhere
  <2> QED
    BY <2>1, <2>2
<1>5. Len(Append(Fr.stack, x)) >= Base
  BY <1>1, <1>3
<1> QED
  BY <1>2, <1>3, <1>4, <1>5, SucceedsSimply

(* The upper operands give way to x, or to nothing. *)
LEMMA ReplaceStep ==
  ASSUME Inv, Running, left' = left - 1, UNCHANGED heap, NEW n \in Nat, Has(n),
         NEW x \in AllObjects, Alive(kind, x), Succeeds(Append(Below(n), x), <<x>>, Upper(n))
  PROVE  Inv' /\ Excess' = Excess
<1>1. /\ Lives(kind, Below(n)) /\ Below(n) \in Values /\ Len(Below(n)) >= Base /\ Len(Below(n)) \in Nat
      /\ Base \in Nat /\ Upper(n) \in Values
  BY Operands, Running_, LenProperties DEF Running, Values
<1>2. Lives(kind, <<x>>) /\ <<x>> \in Values
  BY LivesOnce
<1>3. Append(Below(n), x) \in Values /\ Len(Append(Below(n), x)) = Len(Below(n)) + 1
  BY <1>1, LivesAppend
<1>4. ASSUME NEW o \in AllObjects
      PROVE  Occurrences(Append(Below(n), x), o) + Occurrences(Upper(n), o) =
               Occurrences(Fr.stack, o) + Occurrences(<<x>>, o)
  <2>1. Occurrences(Append(Below(n), x), o) = Occurrences(Below(n), o) + Occurrences(<<x>>, o)
    BY <1>1, OccursAppend
  <2>2. /\ Occurrences(Fr.stack, o) = Occurrences(Below(n), o) + Occurrences(Upper(n), o)
        /\ Occurrences(Below(n), o) \in Nat /\ Occurrences(Upper(n), o) \in Nat
    BY Operands DEF Running
  <2>3. Occurrences(<<x>>, o) \in Nat
    BY <1>2, OccursType
  <2> QED
    BY <2>1, <2>2, <2>3
<1>5. Len(Append(Below(n), x)) >= Base
  BY <1>1, <1>3
<1> QED
  BY <1>1, <1>2, <1>3, <1>4, <1>5, SucceedsSimply

LEMMA PopStep ==
  ASSUME Inv, Running, left' = left - 1, UNCHANGED heap, NEW n \in Nat, Has(n),
         Succeeds(Below(n), <<>>, Upper(n)) \/ Fails(Below(n), <<>>, Upper(n))
  PROVE  Inv' /\ Excess' = Excess
<1>1. Below(n) \in Values /\ Len(Below(n)) >= Base /\ Upper(n) \in Values
  BY Operands DEF Running
<1>2. Lives(kind, <<>>) /\ <<>> \in Values
  BY LivesNone
<1>3. ASSUME NEW o \in AllObjects
      PROVE  Occurrences(Below(n), o) + Occurrences(Upper(n), o) = Occurrences(Fr.stack, o) + Occurrences(<<>>, o)
  <2>1. /\ Occurrences(Fr.stack, o) = Occurrences(Below(n), o) + Occurrences(Upper(n), o)
        /\ Occurrences(Fr.stack, o) \in Nat
    BY Operands DEF Running
  <2> QED
    BY <2>1, OccursNowhere
<1>4. CASE Succeeds(Below(n), <<>>, Upper(n))
  BY <1>1, <1>2, <1>3, <1>4, SucceedsSimply
<1>5. CASE Fails(Below(n), <<>>, Upper(n))
  BY <1>1, <1>2, <1>3, <1>5, FailsSimply
<1> QED
  BY <1>4, <1>5

LEMMA FailsAtOnce ==
  ASSUME Inv, Running, left' = left - 1, UNCHANGED heap, Fails(Fr.stack, <<>>, <<>>)
  PROVE  Inv' /\ Excess' = Excess
<1>1. Fr.stack \in Values /\ Len(Fr.stack) >= Base
  BY Running_ DEF Running
<1>2. Lives(kind, <<>>) /\ <<>> \in Values
  BY LivesNone
<1> QED
  BY <1>1, <1>2, FailsSimply

(* A new object, which refers to the items. *)
LEMMA CreateMoves ==
  ASSUME Inv, NEW o, NEW k \in Kinds \ {"free"}, NEW items \in Values, PartsFit(k, items),
         Create(o, k, items), sig' \in [Objects -> Signatures \cup {NoSignature}]
  PROVE  /\ HeapMoves(<<>>, items) /\ o \in AllObjects /\ Alive(kind', o)
         /\ \A s : Lives(kind, s) => Lives(kind', s)
         /\ \A x : Alive(kind, x) => Alive(kind', x)
<1>1. /\ o \in Objects /\ kind[o] = "free" /\ kind' = [kind EXCEPT ![o] = k]
      /\ parts' = [parts EXCEPT ![o] = items]
  BY DEF Create, Free
<1>2. HeapOK(kind, parts, sig) /\ parts \in [Objects -> Values] /\ kind \in [Objects -> Kinds]
  BY DEF Inv, HeapOK
<1>3. parts[o] = <<>>
  BY <1>1, <1>2 DEF HeapOK, PartsFit
<1>4. PartsMove(parts, parts', <<>>, items) /\ parts' \in [Objects -> Values]
  <2>1. /\ [parts EXCEPT ![o] = items] \in [Objects -> Values]
        /\ PartsMove(parts, [parts EXCEPT ![o] = items], parts[o], items)
    BY <1>1, <1>2, PartsChange
  <2> QED
    BY ONLY <1>1, <1>3, <2>1
<1>5. HeapOK(kind', parts', sig')
  BY <1>1, <1>2, <1>4 DEF HeapOK
<1>6. \A x \in Objects : kind[x] # "free" => kind'[x] # "free"
  BY <1>1, <1>2
<1>7. Alive(kind', o)
  BY <1>1, <1>2 DEF Alive
<1> QED
  BY <1>1, <1>4, <1>5, <1>6, <1>7, LivesStill DEF HeapMoves, AllObjects

(* An object that refers to other items than before. *)
LEMMA SetMoves ==
  ASSUME Inv, NEW q \in Objects, NEW items \in Values, PartsFit(kind[q], items), SetParts(q, items),
         kind' = kind, sig' = sig
  PROVE  HeapMoves(parts[q], items)
<1>1. parts' = [parts EXCEPT ![q] = items]
  BY DEF SetParts
<1>2. HeapOK(kind, parts, sig) /\ parts \in [Objects -> Values]
  BY DEF Inv, HeapOK
<1>3. PartsMove(parts, parts', parts[q], items) /\ parts' \in [Objects -> Values]
  BY <1>1, <1>2, PartsChange
<1>4. HeapOK(kind', parts', sig')
  BY <1>1, <1>2, <1>3 DEF HeapOK
<1> QED
  BY <1>3, <1>4 DEF HeapMoves
------------------------------------------------------------------------------
(* The instructions. *)

LEMMA LoadConstHolds ==
  ASSUME Inv, Running, left' = left - 1, LoadConst
  PROVE  Inv' /\ Excess' = Excess
<1>1. PICK c \in {Null, Name} : Succeeds(Append(Fr.stack, c), <<c>>, <<>>) /\ UNCHANGED heap
  BY DEF LoadConst
<1>2. c \in AllObjects /\ Alive(kind, c)
  BY <1>1 DEF AllObjects, Alive, Fixed
<1> QED
  BY <1>1, <1>2, PushStep

(* Local variables and closures exist. *)
LEMMA NamedLive ==
  ASSUME Inv, Running
  PROVE  /\ Lives(kind, Named) /\ Lives(kind, Closures)
         /\ \A p \in Range(Named \o Closures) : p \in AllObjects /\ Alive(kind, p)
         /\ DOMAIN Named = 1 .. Fr.n_locals
         /\ \A i \in DOMAIN Named : Named[i] = Fr.stack[i] /\ i \in 1 .. Len(Fr.stack) /\ i \in 1 .. Base
<1>1. /\ Len(Fr.stack) \in Nat /\ Fr.n_locals \in Nat /\ Fr.n_locals <= Base /\ Base <= Len(Fr.stack) /\ Base \in Nat
      /\ Lives(kind, Fr.stack) /\ frames # <<>> /\ Fr.stack \in Values
      /\ Len(frames) \in 1 .. Len(frames) /\ Len(frames) \in Nat
  BY Running_ DEF Running
<1>2. Lives(kind, Named) /\ DOMAIN Named = 1 .. Fr.n_locals
  <2>1. \A i \in 1 .. Fr.n_locals : i \in 1 .. Len(Fr.stack)
    BY <1>1
  <2>2. \A i \in 1 .. Fr.n_locals : Named[i] = Fr.stack[i] /\ Fr.stack[i] \in AllObjects
    BY <1>1, <2>1, ElementOfSeq DEF Named, Values
  <2>3. Named \in [1 .. Fr.n_locals -> AllObjects]
    BY <2>2 DEF Named
  <2>4. Named \in Values /\ Len(Named) = Fr.n_locals
    BY <1>1, <2>3 DEF Values
  <2> QED
    BY <1>1, <2>1, <2>2, <2>3, <2>4 DEF Lives
<1>3. Lives(kind, Closures)
  <2>1. CASE Len(frames) = 1
    BY <2>1, LivesNone DEF Closures
  <2>2. CASE Len(frames) # 1
    <3>1. Fr.func \in Objects
      BY <1>1, <2>2, FrameParts DEF Inv, FramesOK, Fr
    <3> QED
      BY <2>2, <3>1, WhatIsHeldLives DEF Closures
  <2> QED
    BY <2>1, <2>2
<1>4. Lives(kind, Named \o Closures)
  BY <1>2, <1>3, LivesConcat
<1>5. \A p \in Range(Named \o Closures) : p \in AllObjects /\ Alive(kind, p)
  <2>1. \A s : Lives(kind, s) => \A p \in Range(s) : p \in AllObjects /\ Alive(kind, p)
    BY ElementOfSeq, LenProperties DEF Lives, Range, Values
  <2> QED
    BY <1>4, <2>1
<1> QED
  BY <1>1, <1>2, <1>3, <1>5 DEF Named

(* What an object refers to exists, and is what its kind has. *)
LEMMA PartsLive ==
  ASSUME Inv, NEW q \in Objects
  PROVE  /\ Lives(kind, parts[q]) /\ parts[q] \in Values /\ Len(parts[q]) \in Nat
         /\ DOMAIN parts[q] = 1 .. Len(parts[q])
         /\ \A i \in 1 .. Len(parts[q]) : parts[q][i] \in AllObjects /\ Alive(kind, parts[q][i])
         /\ \A x \in Range(parts[q]) : x \in AllObjects /\ Alive(kind, x)
         /\ PartsFit(kind[q], parts[q])
<1>1. Lives(kind, parts[q])
  BY WhatIsHeldLives
<1>2. parts[q] \in Values /\ Len(parts[q]) \in Nat /\ DOMAIN parts[q] = 1 .. Len(parts[q])
  BY <1>1, LenProperties DEF Lives, Values
<1>3. \A i \in 1 .. Len(parts[q]) : parts[q][i] \in AllObjects /\ Alive(kind, parts[q][i])
  BY <1>1, <1>2, ElementOfSeq DEF Lives, Values
<1>4. \A x \in Range(parts[q]) : x \in AllObjects /\ Alive(kind, x)
  BY <1>2, <1>3 DEF Range
<1>5. PartsFit(kind[q], parts[q])
  BY DEF Inv, HeapOK
<1> QED
  BY <1>1, <1>2, <1>3, <1>4, <1>5

LEMMA CellLives ==
  ASSUME Inv, NEW c, IsKind(c, {"cell"})
  PROVE  /\ c \in Objects /\ parts[c] = <<parts[c][1]>> /\ parts[c][1] \in AllObjects
         /\ Alive(kind, parts[c][1]) /\ kind[c] = "cell" /\ parts[c] \in Values
<1>1. c \in Objects /\ kind[c] = "cell"
  BY DEF IsKind
<1>2. Len(parts[c]) = 1
  BY <1>1, PartsLive DEF PartsFit
<1>3. 1 \in 1 .. 1
  OBVIOUS
<1>4. parts[c] \in Values /\ parts[c][1] \in AllObjects /\ Alive(kind, parts[c][1])
  BY <1>1, <1>2, <1>3, PartsLive
<1> QED
  BY <1>1, <1>2, <1>4 DEF Values

LEMMA LoadLocalHolds ==
  ASSUME Inv, Running, left' = left - 1, do_load_local
  PROVE  Inv' /\ Excess' = Excess
<1> DEFINE v(p) == IF IsKind(p, {"cell"}) THEN parts[p][1] ELSE p
<1>1. PICK p \in Range(Named \o Closures) : Succeeds(Append(Fr.stack, v(p)), <<v(p)>>, <<>>) /\ UNCHANGED heap
  BY DEF do_load_local
<1>2. v(p) \in AllObjects /\ Alive(kind, v(p))
  BY NamedLive, CellLives
<1> HIDE DEF v
<1> QED
  BY <1>1, <1>2, PushStep

LEMMA AssignCellHolds ==
  ASSUME Inv, Running, left' = left - 1, Has(1), NEW c, IsKind(c, {"cell"}), AssignCell(c)
  PROVE  Inv' /\ Excess' = Excess
<1> DEFINE v == Top(1)
           w == parts[c][1]
<1>1. /\ Succeeds(Below(1), <<v>>, <<w, v>>) /\ SetParts(c, <<v>>) /\ kind' = kind /\ sig' = sig
  BY DEF AssignCell
<1>2. /\ v \in AllObjects /\ Alive(kind, v) /\ Below(1) \in Values /\ Len(Below(1)) >= Base
  BY OneOperand, Operands DEF Running
<1>3. /\ c \in Objects /\ parts[c] = <<w>> /\ w \in AllObjects /\ kind[c] = "cell"
  BY CellLives
<1>4. Lives(kind', <<v>>) /\ <<v>> \in Values /\ Len(<<v>>) = 1
  BY <1>1, <1>2, LivesOnce
<1> HIDE DEF v, w
<1>5. HeapMoves(parts[c], <<v>>)
  <2>1. PartsFit(kind[c], <<v>>)
    BY <1>3, <1>4 DEF PartsFit
  <2> QED
    BY <1>1, <1>3, <1>4, <2>1, SetMoves
<1>6. \A o : /\ Occurrences(<<w, v>>, o) = Occurrences(<<w>>, o) + Occurrences(<<v>>, o)
             /\ Occurrences(<<w>>, o) \in Nat /\ <<w, v>> \in Values
  BY <1>2, <1>3, OccursPair, OccursOnce, OccursType
<1>7. \A o : /\ Occurrences(Fr.stack, o) = Occurrences(Below(1), o) + Occurrences(<<v>>, o)
             /\ Occurrences(Below(1), o) \in Nat /\ Occurrences(<<v>>, o) \in Nat
  BY OneOperand DEF Running, v
<1>8. HeapMoves(<<w>>, <<v>>)
  BY <1>3, <1>5
<1>9. ASSUME NEW o \in AllObjects
      PROVE  Occurrences(Below(1), o) + Occurrences(<<v>>, o) + Occurrences(<<w, v>>, o) =
               Occurrences(Fr.stack, o) + Occurrences(<<w>>, o) + Occurrences(<<v>>, o)
  BY <1>6, <1>7
<1>10. Weighs(Below(1), <<v>>, <<w, v>>, <<w>>, <<v>>) /\ <<w, v>> \in Values
  BY <1>6, <1>9 DEF Weighs
<1> QED
  BY <1>1, <1>2, <1>4, <1>8, <1>10, SucceedsStep

(* A local variable is replaced by x. *)
LEMMA LocalReplaced ==
  ASSUME NEW s \in Values, NEW i \in 1 .. Len(s), NEW x \in AllObjects
  PROVE  /\ [s EXCEPT ![i] = x] \in Values /\ Len([s EXCEPT ![i] = x]) = Len(s)
         /\ s[i] \in AllObjects /\ <<s[i]>> \in Values
         /\ \A o : /\ Occurrences([s EXCEPT ![i] = x], o) + Occurrences(<<s[i]>>, o) =
                        Occurrences(s, o) + Occurrences(<<x>>, o)
                   /\ Occurrences([s EXCEPT ![i] = x], o) \in Nat /\ Occurrences(<<s[i]>>, o) \in Nat
<1> DEFINE t == [s EXCEPT ![i] = x]
<1>1. /\ t \in Values /\ Len(t) = Len(s) /\ s[i] \in AllObjects
      /\ \A o : Occurrences(t, o) + Occurrences(<<s[i]>>, o) = Occurrences(s, o) + Occurrences(<<x>>, o)
  BY OccursExcept
<1>2. <<s[i]>> \in Values
  BY <1>1, OccursOnce
<1>3. \A o : Occurrences(t, o) \in Nat /\ Occurrences(<<s[i]>>, o) \in Nat
  BY <1>1, <1>2, OccursType
<1> HIDE DEF t
<1>4. t = [s EXCEPT ![i] = x]
  BY DEF t
<1> QED
  BY <1>1, <1>2, <1>3, <1>4

LEMMA AssignLocalHolds ==
  ASSUME Inv, Running, left' = left - 1, do_assign_local
  PROVE  Inv' /\ Excess' = Excess
<1>1. Has(1)
  BY DEF do_assign_local
<1>2. CASE \E c \in Range(Named \o Closures) : IsKind(c, {"cell"}) /\ AssignCell(c)
  BY <1>1, <1>2, AssignCellHolds
<1>3. CASE \E i \in DOMAIN Named :
             /\ ~IsKind(Named[i], {"cell"})
             /\ Succeeds([Below(1) EXCEPT ![i] = Top(1)], <<>>, <<Named[i]>>)
             /\ UNCHANGED heap
  <2>1. PICK i \in DOMAIN Named : /\ Succeeds([Below(1) EXCEPT ![i] = Top(1)], <<>>, <<Named[i]>>)
                                  /\ UNCHANGED heap
    BY <1>3
  <2>2. /\ Below(1) \in Values /\ Len(Below(1)) >= Base /\ Fr.n_locals <= Len(Below(1))
        /\ \A j \in 1 .. Len(Below(1)) : Below(1)[j] = Fr.stack[j]
        /\ Top(1) \in AllObjects /\ Fr.n_locals \in Nat /\ Len(Below(1)) \in Nat
    BY <1>1, Operands, OneOperand, Running_, LenProperties DEF Running, Values
  <2>3. i \in 1 .. Len(Below(1)) /\ Named[i] = Below(1)[i]
    BY <2>2, NamedLive
  <2> DEFINE s == [Below(1) EXCEPT ![i] = Top(1)]
  <2>4. /\ s \in Values /\ Len(s) >= Base /\ <<Below(1)[i]>> \in Values
        /\ \A o : /\ Occurrences(s, o) + Occurrences(<<Below(1)[i]>>, o) =
                        Occurrences(Below(1), o) + Occurrences(<<Top(1)>>, o)
    BY <2>2, <2>3, LocalReplaced
  <2>5. Succeeds(s, <<>>, <<Below(1)[i]>>)
    BY <2>1, <2>3
  <2> HIDE DEF s
  <2>6. ASSUME NEW o \in AllObjects
        PROVE  Occurrences(s, o) + Occurrences(<<Below(1)[i]>>, o) = Occurrences(Fr.stack, o) + Occurrences(<<>>, o)
    BY <1>1, <2>4, OneOperand, OccursNowhere DEF Running
  <2> QED
    BY <2>1, <2>4, <2>5, <2>6, LivesNone, SucceedsSimply
<1> QED
  BY <1>2, <1>3 DEF do_assign_local

LEMMA GlobalLives ==
  ASSUME Inv, globals # <<>>
  PROVE  globals = <<globals[1]>> /\ globals[1] \in AllObjects /\ Alive(kind, globals[1])
<1>1. globals \in Values /\ Len(globals) = 1
  <2>1. globals \in Values /\ Len(globals) <= 1
    BY DEF Inv, CallsOK
  <2>2. Len(globals) \in Nat /\ Len(globals) # 0
    BY <2>1, EmptySeq, LenProperties DEF Values
  <2>3. \A n \in Nat : n <= 1 /\ n # 0 => n = 1
    OBVIOUS
  <2> QED
    BY ONLY <2>1, <2>2, <2>3
<1>2. Lives(kind, globals)
  BY WhatIsHeldLives
<1> QED
  BY <1>1, <1>2, ElementOfSeq DEF Lives, Values

LEMMA LoadGlobalHolds ==
  ASSUME Inv, Running, left' = left - 1, do_load_global
  PROVE  Inv' /\ Excess' = Excess
<1>1. CASE globals = <<>>
  BY <1>1, FailsAtOnce DEF do_load_global
<1>2. CASE globals # <<>>
  <2>1. globals = <<globals[1]>> /\ globals[1] \in AllObjects /\ Alive(kind, globals[1])
    BY <1>2, GlobalLives
  <2>2. Succeeds(Append(Fr.stack, globals[1]), <<globals[1]>>, <<>>) /\ UNCHANGED heap
    BY <1>2, <2>1 DEF do_load_global
  <2> QED
    BY <2>1, <2>2, PushStep
<1> QED
  BY <1>1, <1>2

LEMMA GlobalStep ==
  ASSUME Inv, Running, left' = left - 1, UNCHANGED heap,
         NEW s \in Values, Len(s) >= Base, SetStack(s), NEW x \in AllObjects, globals' = <<x>>,
         exception' = exception, phase' = phase,
         NEW taken \in Values, Lives(kind, taken), NEW given \in Values, Account(taken, given),
         \A o \in AllObjects :
           Occurrences(s, o) + Occurrences(<<x>>, o) + Occurrences(given, o) =
             Occurrences(Fr.stack, o) + Occurrences(globals, o) + Occurrences(taken, o)
  PROVE  Inv' /\ Excess' = Excess
<1>1. frames # <<>> /\ phase = "run" /\ left' \in Nat /\ exception = <<>> /\ globals \in Values
  BY DEF Running, Inv, CallsOK
<1>2. /\ FramesOK(frames') /\ FramesMove(frames, frames', Fr.stack, s)
      /\ Len(frames') = Len(frames) /\ frames' # <<>> /\ frames'[Len(frames)].held = Fr.held
  BY <1>1, StackSet
<1>3. <<x>> \in Values /\ Len(<<x>>) = 1 /\ <<>> \in Values
  BY OccursOnce, LivesNone
<1>4. CallsOK(frames', globals', exception', phase')
  BY <1>1, <1>2, <1>3 DEF Inv, CallsOK, Fr
<1>5. HeapMoves(<<>>, <<>>) /\ kind' = kind
  BY HeapStays
<1>6. ASSUME NEW o \in AllObjects
      PROVE  Occurrences(s, o) + Occurrences(<<>>, o) + Occurrences(globals' \o exception', o)
             + Occurrences(given, o) + Occurrences(<<>>, o) =
               Occurrences(Fr.stack, o) + Occurrences(<<>>, o) + Occurrences(globals \o exception, o)
               + Occurrences(taken, o)
  <2> DEFINE z == Occurrences(<<>>, o)
             p == Occurrences(globals \o exception, o)
             q == Occurrences(globals' \o exception', o)
  <2>1. p = Occurrences(globals, o) /\ q = Occurrences(<<x>>, o) /\ z = 0
    BY <1>1, <1>3, ConcatEmptySeq, OccursNowhere DEF Values
  <2>2. /\ Occurrences(s, o) \in Nat /\ Occurrences(given, o) \in Nat /\ Occurrences(taken, o) \in Nat
        /\ Occurrences(<<x>>, o) \in Nat /\ Occurrences(globals, o) \in Nat /\ Occurrences(Fr.stack, o) \in Nat
    BY <1>1, <1>3, Running_, OccursType
  <2>3. Occurrences(s, o) + Occurrences(<<x>>, o) + Occurrences(given, o) =
             Occurrences(Fr.stack, o) + Occurrences(globals, o) + Occurrences(taken, o)
    OBVIOUS
  <2> HIDE DEF z, p, q
  <2>4. Occurrences(s, o) + z + q + Occurrences(given, o) + z =
          Occurrences(Fr.stack, o) + z + p + Occurrences(taken, o)
    BY ONLY <2>1, <2>2, <2>3
  <2> QED
    BY <2>4 DEF z, p, q
<1> QED
  BY <1>1, <1>2, <1>3, <1>4, <1>5, <1>6, WeighedStep DEF HeapMoves

LEMMA AssignGlobalHolds ==
  ASSUME Inv, Running, left' = left - 1, do_assign_global
  PROVE  Inv' /\ Excess' = Excess
<1>1. Has(1) /\ UNCHANGED heap
  BY DEF do_assign_global
<1>2. CASE globals = <<>>
  <2>1. Fails(Below(1), <<>>, Upper(1))
    BY <1>1, <1>2, OneOperand DEF do_assign_global, Running
  <2>2. 1 \in Nat
    OBVIOUS
  <2> QED
    BY <1>1, <2>1, <2>2, PopStep
<1>3. CASE globals # <<>>
  <2> DEFINE x == Top(1)
             y == globals[1]
  <2>1. /\ SetStack(Below(1)) /\ Account(<<x>>, <<y, x>>)
        /\ globals' = <<x>> /\ exception' = exception /\ phase' = phase
    BY <1>3 DEF do_assign_global
  <2>2. /\ x \in AllObjects /\ Alive(kind, x) /\ Below(1) \in Values /\ Len(Below(1)) >= Base
    BY <1>1, OneOperand, Operands DEF Running
  <2>3. globals = <<y>> /\ y \in AllObjects
    BY <1>3, GlobalLives
  <2>4. \A o : /\ Occurrences(Fr.stack, o) = Occurrences(Below(1), o) + Occurrences(<<x>>, o)
               /\ Occurrences(Below(1), o) \in Nat /\ Occurrences(<<x>>, o) \in Nat
    BY <1>1, OneOperand DEF Running
  <2> HIDE DEF x, y
  <2>5. /\ Lives(kind, <<x>>) /\ <<x>> \in Values
        /\ <<y, x>> \in Values
        /\ \A o : /\ Occurrences(<<y, x>>, o) = Occurrences(<<y>>, o) + Occurrences(<<x>>, o)
                  /\ Occurrences(<<y>>, o) \in Nat
    <3>1. Lives(kind, <<x>>) /\ <<x>> \in Values
      BY ONLY <2>2, LivesOnce
    <3>2. <<y>> \in Values
      BY ONLY <2>3, OccursOnce
    <3>3. /\ <<y, x>> \in Values
          /\ \A o : Occurrences(<<y, x>>, o) = Occurrences(<<y>>, o) + Occurrences(<<x>>, o)
      BY ONLY <2>2, <2>3, OccursPair
    <3>4. \A o : Occurrences(<<y>>, o) \in Nat
      BY ONLY <3>2, OccursType
    <3> QED
      BY ONLY <3>1, <3>3, <3>4
  <2>6. \A o \in AllObjects :
          Occurrences(Below(1), o) + Occurrences(<<x>>, o) + Occurrences(<<y, x>>, o) =
             Occurrences(Fr.stack, o) + Occurrences(globals, o) + Occurrences(<<x>>, o)
    <3> SUFFICES ASSUME NEW o \in AllObjects
                 PROVE  Occurrences(Below(1), o) + Occurrences(<<x>>, o) + Occurrences(<<y, x>>, o) =
                          Occurrences(Fr.stack, o) + Occurrences(globals, o) + Occurrences(<<x>>, o)
      OBVIOUS
    <3>1. Occurrences(globals, o) = Occurrences(<<y>>, o)
      BY <2>3
    <3>2. /\ Occurrences(Fr.stack, o) = Occurrences(Below(1), o) + Occurrences(<<x>>, o)
          /\ Occurrences(Below(1), o) \in Nat /\ Occurrences(<<x>>, o) \in Nat
          /\ Occurrences(<<y, x>>, o) = Occurrences(<<y>>, o) + Occurrences(<<x>>, o)
          /\ Occurrences(<<y>>, o) \in Nat
      BY <2>4, <2>5
    <3> QED
      BY ONLY <3>1, <3>2
  <2> DEFINE given == <<y, x>>
             taken == <<x>>
  <2>7. /\ Account(taken, given) /\ given \in Values /\ taken \in Values /\ Lives(kind, taken)
        /\ \A o \in AllObjects :
             Occurrences(Below(1), o) + Occurrences(<<x>>, o) + Occurrences(given, o) =
               Occurrences(Fr.stack, o) + Occurrences(globals, o) + Occurrences(taken, o)
    BY ONLY <2>1, <2>5, <2>6
  <2> HIDE DEF given, taken
  <2>8. Inv /\ Running /\ left' = left - 1
    OBVIOUS
  <2> QED
    BY ONLY <1>1, <2>1, <2>2, <2>7, <2>8, GlobalStep
<1> QED
  BY <1>2, <1>3

LEMMA NewGlobalHolds ==
  ASSUME Inv, Running, left' = left - 1, do_new_global
  PROVE  Inv' /\ Excess' = Excess
<1>1. CASE globals # <<>>
  BY <1>1, FailsAtOnce DEF do_new_global
<1>2. CASE globals = <<>>
  <2>1. /\ SetStack(Fr.stack) /\ Account(<<Null>>, <<>>) /\ UNCHANGED heap
        /\ globals' = <<Null>> /\ exception' = exception /\ phase' = phase
    BY <1>2 DEF do_new_global
  <2>2. Null \in AllObjects /\ Alive(kind, Null)
    BY DEF AllObjects, Fixed, Alive
  <2>3. Fr.stack \in Values /\ Len(Fr.stack) >= Base
    BY Running_ DEF Running
  <2>4. Lives(kind, <<Null>>) /\ <<Null>> \in Values /\ <<>> \in Values
    BY <2>2, LivesOnce, LivesNone
  <2>5. \A o \in AllObjects :
          Occurrences(Fr.stack, o) + Occurrences(<<Null>>, o) + Occurrences(<<>>, o) =
             Occurrences(Fr.stack, o) + Occurrences(globals, o) + Occurrences(<<Null>>, o)
    <3>1. \A o : /\ Occurrences(Fr.stack, o) \in Nat /\ Occurrences(<<Null>>, o) \in Nat
                 /\ Occurrences(<<>>, o) = 0 /\ Occurrences(globals, o) = 0
      BY <1>2, <2>3, <2>4, OccursType, OccursNowhere
    <3> QED
      BY <3>1
  <2> QED
    BY <2>1, <2>2, <2>3, <2>4, <2>5, GlobalStep
<1> QED
  BY <1>1, <1>2

LEMMA PopHolds ==
  ASSUME Inv, Running, left' = left - 1, do_pop
  PROVE  Inv' /\ Excess' = Excess
<1>1. PICK n \in 1 .. MaxItems : Has(n) /\ Succeeds(Below(n), <<>>, Upper(n)) /\ UNCHANGED heap
  BY DEF do_pop
<1>2. n \in Nat
  BY ConstantsAssumption
<1> QED
  BY <1>1, <1>2, PopStep

LEMMA CopyHolds ==
  ASSUME Inv, Running, left' = left - 1, do_copy
  PROVE  Inv' /\ Excess' = Excess
<1>1. PICK n \in 1 .. MaxItems : Has(n) /\ Succeeds(Append(Fr.stack, Top(n)), <<Top(n)>>, <<>>) /\ UNCHANGED heap
  BY DEF do_copy
<1>2. n \in Nat /\ n \in 1 .. n
  BY ConstantsAssumption
<1>3. Top(n) \in AllObjects /\ Alive(kind, Top(n))
  BY <1>1, <1>2, Operands DEF Running
<1> QED
  BY <1>1, <1>3, PushStep

LEMMA NameLives == {Name, Null, Error} \subseteq AllObjects /\ \A x \in {Name, Null, Error} : Alive(kind, x)
BY DEF AllObjects, Fixed, Alive

LEMMA BranchHolds ==
  ASSUME Inv, Running, left' = left - 1, do_b_if
  PROVE  Inv' /\ Excess' = Excess
<1>1. /\ Has(1) /\ UNCHANGED heap /\ 1 \in Nat
      /\ \/ Succeeds(Below(1), <<>>, <<Top(1)>>)
         \/ Succeeds(Append(Below(1), Top(1)), <<Top(1)>>, <<Top(1)>>)
  BY DEF do_b_if
<1>2. Upper(1) = <<Top(1)>> /\ Top(1) \in AllObjects /\ Alive(kind, Top(1))
  BY <1>1, OneOperand DEF Running
<1>3. CASE Succeeds(Below(1), <<>>, <<Top(1)>>)
  BY <1>1, <1>2, <1>3, PopStep
<1>4. CASE Succeeds(Append(Below(1), Top(1)), <<Top(1)>>, <<Top(1)>>)
  <2>1. Succeeds(Append(Below(1), Top(1)), <<Top(1)>>, Upper(1))
    BY <1>2, <1>4
  <2> QED
    BY <1>1, <1>2, <2>1, ReplaceStep
<1> QED
  BY <1>1, <1>3, <1>4

\* What fails keeps the operand.
LEMMA UnaryHolds ==
  ASSUME Inv, Running, left' = left - 1, unary_op_common
  PROVE  Inv' /\ (Excess' = Excess \/ phase' = "failed")
<1>1. /\ Has(1) /\ UNCHANGED heap /\ 1 \in Nat
      /\ \/ Succeeds(Append(Below(1), Name), <<Name>>, <<Top(1)>>)
         \/ Fails(Below(1), <<>>, <<>>)
  BY DEF unary_op_common
<1>2. Upper(1) = <<Top(1)>> /\ Top(1) \in AllObjects
  BY <1>1, OneOperand DEF Running
<1>3. CASE Succeeds(Append(Below(1), Name), <<Name>>, <<Top(1)>>)
  BY <1>1, <1>2, <1>3, NameLives, ReplaceStep
<1>4. CASE Fails(Below(1), <<>>, <<>>)
  <2> DEFINE x == <<Top(1)>>
  <2>1. x \in Values /\ <<>> \in Values /\ Lives(kind', <<>>) /\ Below(1) \in Values /\ Len(Below(1)) >= Base
    BY <1>1, <1>2, OccursOnce, LivesNone, Operands DEF Running
  <2>2. HeapMoves(<<>>, <<>>) /\ phase' = "failed"
    BY <1>1, <1>4, HeapStays DEF Fails
  <2>3. ASSUME NEW o \in AllObjects
        PROVE  Occurrences(Below(1), o) + Occurrences(<<>>, o) + Occurrences(<<>>, o) + Occurrences(x, o) =
                 Occurrences(Fr.stack, o) + Occurrences(<<>>, o) + Occurrences(<<>>, o)
    <3>1. /\ Occurrences(Fr.stack, o) = Occurrences(Below(1), o) + Occurrences(x, o)
          /\ Occurrences(Below(1), o) \in Nat /\ Occurrences(x, o) \in Nat /\ Occurrences(<<>>, o) = 0
      BY <1>1, OneOperand, OccursNowhere DEF Running
    <3> HIDE DEF x
    <3> QED
      BY <3>1
  <2> HIDE DEF x
  <2>4. Inv' /\ (x = <<>> => Excess' = Excess)
    BY <1>4, <2>1, <2>2, <2>3, FailsStep
  <2> QED
    BY <2>2, <2>4
<1> QED
  BY <1>1, <1>3, <1>4

LEMMA BinaryHolds ==
  ASSUME Inv, Running, left' = left - 1, binary_op_common
  PROVE  Inv' /\ Excess' = Excess
<1>1. /\ Has(2) /\ UNCHANGED heap /\ 2 \in Nat
      /\ \/ Succeeds(Append(Below(2), Name), <<Name>>, Upper(2))
         \/ Fails(Below(2), <<>>, Upper(2))
  BY DEF binary_op_common
<1> QED
  BY <1>1, NameLives, ReplaceStep, PopStep

(* An object is made of the upper n operands, which it takes over, or which *)
(* are given up while it takes references of its own.                       *)
LEMMA CreateStep ==
  ASSUME Inv, Running, left' = left - 1, NEW n \in Nat, Has(n),
         NEW o, NEW k \in Kinds \ {"free"}, NEW items \in Values, PartsFit(k, items), Create(o, k, items),
         sig' \in [Objects -> Signatures \cup {NoSignature}],
         NEW taken \in Values, NEW given \in Values, Succeeds(Append(Below(n), o), taken, given),
         Lives(kind', taken),
         \A x \in AllObjects : Occurrences(<<o>>, x) + Occurrences(items, x) + Occurrences(given, x) =
                                 Occurrences(Upper(n), x) + Occurrences(taken, x)
  PROVE  Inv' /\ Excess' = Excess
<1>1. HeapMoves(<<>>, items) /\ o \in AllObjects
  BY CreateMoves
<1>2. /\ Lives(kind, Below(n)) /\ Below(n) \in Values /\ Len(Below(n)) >= Base /\ Len(Below(n)) \in Nat /\ Base \in Nat
      /\ Len(Append(Below(n), o)) = Len(Below(n)) + 1 /\ Append(Below(n), o) \in Values
  BY <1>1, Operands, Running_, LenProperties, AppendProperties DEF Running, Values
<1>3. ASSUME NEW x \in AllObjects
      PROVE  Occurrences(Append(Below(n), o), x) + Occurrences(items, x) + Occurrences(given, x) =
               Occurrences(Fr.stack, x) + Occurrences(<<>>, x) + Occurrences(taken, x)
  <2>1. /\ Occurrences(Append(Below(n), o), x) = Occurrences(Below(n), x) + Occurrences(<<o>>, x)
        /\ Occurrences(<<o>>, x) \in Nat
    BY <1>1, <1>2, OccursAppend, OccursOnce, OccursType
  <2>2. /\ Occurrences(Fr.stack, x) = Occurrences(Below(n), x) + Occurrences(Upper(n), x)
        /\ Occurrences(Below(n), x) \in Nat /\ Occurrences(Upper(n), x) \in Nat
    BY Operands DEF Running
  <2>3. /\ Occurrences(items, x) \in Nat /\ Occurrences(given, x) \in Nat /\ Occurrences(taken, x) \in Nat
    BY OccursType
  <2>4. Occurrences(<<o>>, x) + Occurrences(items, x) + Occurrences(given, x) =
          Occurrences(Upper(n), x) + Occurrences(taken, x)
    OBVIOUS
  <2> DEFINE z == Occurrences(<<>>, x)
  <2>5. z = 0
    BY OccursNowhere
  <2> HIDE DEF z
  <2>6. Occurrences(Append(Below(n), o), x) + Occurrences(items, x) + Occurrences(given, x) =
               Occurrences(Fr.stack, x) + z + Occurrences(taken, x)
    BY ONLY <2>1, <2>2, <2>3, <2>4, <2>5
  <2> QED
    BY <2>6 DEF z
<1>4. Weighs(Append(Below(n), o), items, given, <<>>, taken)
  BY <1>3 DEF Weighs
<1>5. Len(Append(Below(n), o)) >= Base
  BY <1>2
<1> QED
  BY <1>1, <1>2, <1>4, <1>5, SucceedsStep

LEMMA CreateAnewStep ==
  ASSUME Inv, Running, left' = left - 1, NEW n \in Nat, Has(n),
         NEW o, NEW k \in Kinds \ {"free"}, NEW items, Lives(kind, items), PartsFit(k, items), Create(o, k, items),
         sig' \in [Objects -> Signatures \cup {NoSignature}], Succeeds(Append(Below(n), o), Append(items, o), Upper(n))
  PROVE  Inv' /\ Excess' = Excess
<1>1. items \in Values
  BY DEF Lives
<1>2. o \in AllObjects /\ Alive(kind', o) /\ Lives(kind', items)
  BY <1>1, CreateMoves
<1>3. Lives(kind', Append(items, o)) /\ Append(items, o) \in Values
  BY <1>2, LivesAppend
<1>4. Upper(n) \in Values
  BY Operands DEF Running
<1>5. ASSUME NEW x \in AllObjects
      PROVE  Occurrences(<<o>>, x) + Occurrences(items, x) + Occurrences(Upper(n), x) =
               Occurrences(Upper(n), x) + Occurrences(Append(items, o), x)
  <2>1. Occurrences(Append(items, o), x) = Occurrences(items, x) + Occurrences(<<o>>, x)
    BY <1>1, <1>2, OccursAppend
  <2>2. /\ Occurrences(items, x) \in Nat /\ Occurrences(<<o>>, x) \in Nat /\ Occurrences(Upper(n), x) \in Nat
    BY <1>1, <1>2, <1>4, OccursOnce, OccursType
  <2> QED
    BY ONLY <2>1, <2>2
<1> QED
  BY <1>1, <1>3, <1>4, <1>5, CreateStep

LEMMA SigStays == ASSUME Inv, sig' = sig PROVE sig' \in [Objects -> Signatures \cup {NoSignature}]
BY DEF Inv, HeapOK

LEMMA DisplayHolds ==
  ASSUME Inv, Running, left' = left - 1, do_deftuple
  PROVE  Inv' /\ Excess' = Excess
<1>1. PICK n \in 0 .. MaxItems, o \in Objects, k \in {"tuple", "list"} :
        /\ Has(n) /\ Create(o, k, Upper(n)) /\ UNCHANGED sig
        /\ Succeeds(Append(Below(n), o), <<o>>, <<>>)
  BY DEF do_deftuple
<1>2. n \in Nat /\ k \in Kinds \ {"free"} /\ sig' = sig
  BY <1>1, ConstantsAssumption DEF Kinds
<1>3. Upper(n) \in Values /\ PartsFit(k, Upper(n))
  BY <1>1, <1>2, Operands DEF Running, PartsFit
<1>4. sig' \in [Objects -> Signatures \cup {NoSignature}]
  BY <1>2, SigStays
<1>5. o \in AllObjects /\ Alive(kind', o)
  BY <1>1, <1>2, <1>3, <1>4, CreateMoves
<1>6. Lives(kind', <<o>>) /\ <<o>> \in Values /\ <<>> \in Values
  BY <1>5, LivesOnce, LivesNone
<1>7. ASSUME NEW x \in AllObjects
      PROVE  Occurrences(<<o>>, x) + Occurrences(Upper(n), x) + Occurrences(<<>>, x) =
               Occurrences(Upper(n), x) + Occurrences(<<o>>, x)
  <2>1. Occurrences(<<o>>, x) \in Nat /\ Occurrences(Upper(n), x) \in Nat /\ Occurrences(<<>>, x) = 0
    BY <1>3, <1>6, OccursType, OccursNowhere
  <2> QED
    BY <2>1
<1> QED
  BY <1>1, <1>2, <1>3, <1>4, <1>6, <1>7, CreateStep

LEMMA ListGrowsHolds ==
  ASSUME Inv, Running, left' = left - 1, Has(2), IsKind(Top(2), {"list"}),
         NEW items, Lives(kind, items), ListGrows(items)
  PROVE  Inv' /\ Excess' = Excess
<1> DEFINE l == Top(2)
           x == Top(1)
           s == Append(Below(2), l)
           d == parts[l] \o items
<1>1. /\ SetParts(l, d) /\ kind' = kind /\ sig' = sig /\ Succeeds(s, items, <<x>>)
  BY DEF ListGrows
<1>2. l \in Objects /\ kind[l] = "list"
  BY DEF IsKind
<1>3. /\ Lives(kind, Below(2)) /\ Below(2) \in Values /\ Len(Below(2)) >= Base /\ Len(Below(2)) \in Nat /\ Base \in Nat
      /\ l \in AllObjects /\ x \in AllObjects /\ Alive(kind, l)
  BY Operands, TwoOperands, Running_, LenProperties DEF Running, Values
<1>4. s \in Values /\ Len(s) = Len(Below(2)) + 1
  BY <1>3, LivesAppend
<1>5. parts[l] \in Values /\ items \in Values /\ <<x>> \in Values
  BY <1>2, <1>3, PartsLive, OccursOnce DEF Lives
<1>6. d \in Values /\ PartsFit(kind[l], d)
  BY <1>2, <1>5, OccursConcat DEF PartsFit
<1>7. HeapMoves(parts[l], d)
  BY <1>1, <1>2, <1>6, SetMoves
<1>8. ASSUME NEW o \in AllObjects
      PROVE  Occurrences(s, o) + Occurrences(d, o) + Occurrences(<<x>>, o) =
               Occurrences(Fr.stack, o) + Occurrences(parts[l], o) + Occurrences(items, o)
  <2>1. Occurrences(s, o) = Occurrences(Below(2), o) + Occurrences(<<l>>, o)
    BY <1>3, OccursAppend
  <2>2. Occurrences(d, o) = Occurrences(parts[l], o) + Occurrences(items, o)
    BY <1>5, OccursConcat
  <2>3. /\ Occurrences(Fr.stack, o) = Occurrences(Below(2), o) + Occurrences(Upper(2), o)
        /\ Occurrences(Upper(2), o) = Occurrences(<<l>>, o) + Occurrences(<<x>>, o)
        /\ Occurrences(Below(2), o) \in Nat /\ Occurrences(<<l>>, o) \in Nat /\ Occurrences(<<x>>, o) \in Nat
    BY TwoOperands DEF Running
  <2>4. Occurrences(parts[l], o) \in Nat /\ Occurrences(items, o) \in Nat
    BY <1>5, OccursType
  <2> HIDE DEF s, d, l, x
  <2> QED
    BY ONLY <2>1, <2>2, <2>3, <2>4
<1>9. Weighs(s, d, <<x>>, parts[l], items)
  BY <1>8 DEF Weighs
<1>10. Lives(kind', items) /\ Len(s) >= Base
  BY <1>1, <1>3, <1>4
<1> HIDE DEF s, d, l, x
<1> QED
  BY <1>1, <1>4, <1>5, <1>7, <1>9, <1>10, SucceedsStep

LEMMA ListAppendHolds ==
  ASSUME Inv, Running, left' = left - 1, do_list_append
  PROVE  Inv' /\ Excess' = Excess
<1>1. Has(2) /\ IsKind(Top(2), {"list"}) /\ ListGrows(<<Top(1)>>)
  BY DEF do_list_append
<1>2. Lives(kind, <<Top(1)>>)
  BY <1>1, TwoOperands, LivesOnce DEF Running
<1> QED
  BY <1>1, <1>2, ListGrowsHolds

LEMMA ListExtendHolds ==
  ASSUME Inv, Running, left' = left - 1, do_list_extend
  PROVE  Inv' /\ Excess' = Excess
<1>1. /\ Has(2) /\ IsKind(Top(2), {"list"}) /\ 2 \in Nat
      /\ \/ Iterable(Top(1)) /\ ListGrows(parts[Top(1)])
         \/ Fails(Below(2), <<>>, Upper(2)) /\ UNCHANGED heap
  BY DEF do_list_extend
<1>2. CASE Iterable(Top(1)) /\ ListGrows(parts[Top(1)])
  <2>1. Lives(kind, parts[Top(1)])
    BY <1>2, PartsLive DEF Iterable, IsKind
  <2> QED
    BY <1>1, <1>2, <2>1, ListGrowsHolds
<1>3. CASE Fails(Below(2), <<>>, Upper(2)) /\ UNCHANGED heap
  BY <1>1, <1>3, PopStep
<1> QED
  BY <1>1, <1>2, <1>3

LEMMA CastTupleHolds ==
  ASSUME Inv, Running, left' = left - 1, do_cast_tuple
  PROVE  Inv' /\ Excess' = Excess
<1>1. PICK o \in Objects :
        /\ Has(1) /\ IsKind(Top(1), {"list"})
        /\ Create(o, "tuple", parts[Top(1)]) /\ UNCHANGED sig
        /\ Succeeds(Append(Below(1), o), Append(parts[Top(1)], o), <<Top(1)>>)
  BY DEF do_cast_tuple
<1> DEFINE items == parts[Top(1)]
<1>2. Lives(kind, items)
  BY <1>1, PartsLive DEF IsKind
<1>3. Upper(1) = <<Top(1)>> /\ 1 \in Nat /\ "tuple" \in Kinds \ {"free"}
  BY <1>1, OneOperand DEF Running, Kinds
<1>4. PartsFit("tuple", items)
  BY DEF PartsFit
<1>5. sig' \in [Objects -> Signatures \cup {NoSignature}]
  BY <1>1, SigStays
<1>6. Create(o, "tuple", items) /\ Succeeds(Append(Below(1), o), Append(items, o), Upper(1)) /\ Has(1)
  BY <1>1, <1>3
<1> HIDE DEF items
<1> QED
  BY <1>2, <1>3, <1>4, <1>5, <1>6, CreateAnewStep

(* The upper n operands go, and an object refers to other items. *)
LEMMA SetStep ==
  ASSUME Inv, Running, left' = left - 1, NEW n \in Nat, Has(n),
         NEW q \in Objects, NEW items \in Values, PartsFit(kind[q], items), SetParts(q, items),
         kind' = kind, sig' = sig,
         NEW taken, Lives(kind, taken), NEW given \in Values, Succeeds(Below(n), taken, given),
         \A x \in AllObjects : Occurrences(items, x) + Occurrences(given, x) =
                                 Occurrences(Upper(n), x) + Occurrences(parts[q], x) + Occurrences(taken, x)
  PROVE  Inv' /\ Excess' = Excess
<1>1. HeapMoves(parts[q], items)
  BY SetMoves
<1>2. /\ Below(n) \in Values /\ Len(Below(n)) >= Base /\ taken \in Values /\ Lives(kind', taken)
  BY Operands DEF Running, Lives
<1>3. ASSUME NEW x \in AllObjects
      PROVE  Occurrences(Below(n), x) + Occurrences(items, x) + Occurrences(given, x) =
               Occurrences(Fr.stack, x) + Occurrences(parts[q], x) + Occurrences(taken, x)
  <2>1. /\ Occurrences(Fr.stack, x) = Occurrences(Below(n), x) + Occurrences(Upper(n), x)
        /\ Occurrences(Below(n), x) \in Nat /\ Occurrences(Upper(n), x) \in Nat
    BY Operands DEF Running
  <2>2. /\ Occurrences(items, x) \in Nat /\ Occurrences(given, x) \in Nat /\ Occurrences(taken, x) \in Nat
        /\ Occurrences(parts[q], x) \in Nat
    BY <1>2, PartsLive, OccursType
  <2>3. Occurrences(items, x) + Occurrences(given, x) =
          Occurrences(Upper(n), x) + Occurrences(parts[q], x) + Occurrences(taken, x)
    OBVIOUS
  <2> QED
    BY ONLY <2>1, <2>2, <2>3
<1>4. Weighs(Below(n), items, given, parts[q], taken)
  BY <1>3 DEF Weighs
<1> QED
  BY <1>1, <1>2, <1>4, SucceedsStep

LEMMA EntriesFit ==
  ASSUME NEW k, NEW arr, Lives(k, arr), NEW n \in Nat, 2 * n <= Len(arr), n > 0 => arr[2 * n - 1] = Name
  PROVE  Lives(k, Entries(n, arr)) /\ PartsFit("dict", Entries(n, arr)) /\ Entries(n, arr) \in Values
<1>1. CASE n = 0
  BY <1>1, LivesNone DEF Entries, PartsFit
<1>2. CASE n # 0
  <2> DEFINE a == arr[2 * n - 1]
             b == arr[2 * n]
  <2>1. arr \in Values /\ Len(arr) \in Nat
    BY LenProperties DEF Lives, Values
  <2>2. 2 * n - 1 \in 1 .. Len(arr) /\ 2 * n \in 1 .. Len(arr) /\ n > 0
    BY <1>2, <2>1
  <2>3. a \in AllObjects /\ b \in AllObjects /\ Alive(k, a) /\ Alive(k, b) /\ a = Name
    BY <2>1, <2>2, ElementOfSeq DEF Lives, Values
  <2>4. Entries(n, arr) = <<a, b>>
    BY <1>2 DEF Entries
  <2> HIDE DEF a, b
  <2>5. Lives(k, <<a, b>>) /\ PartsFit("dict", <<a, b>>) /\ <<a, b>> \in Values
    BY <2>3 DEF Lives, PartsFit, Values
  <2> QED
    BY <2>4, <2>5
<1> QED
  BY <1>1, <1>2

LEMMA LeastIn ==
  ASSUME NEW S \in SUBSET Nat, S # {}
  PROVE  \E m \in S : \A p \in S : m <= p
<1> DEFINE R == OpToRel(<, Nat)
<1>1. IsWellFoundedOn(R, Nat)
  BY NatLessThanWellFounded
<1>2. \A x, y \in Nat : <<x, y>> \in R <=> x < y
  BY DEF R, OpToRel
<1> HIDE DEF R
<1>3. PICK m \in S : \A p \in S : ~(<<p, m>> \in R)
  BY <1>1, WFMin
<1>4. \A p \in S : ~(p < m)
  BY <1>2, <1>3
<1> QED
  BY <1>4

\* A display that fails keeps some of its operands.
LEMMA DictHolds ==
  ASSUME Inv, Running, left' = left - 1, do_defdict
  PROVE  Inv' /\ (Excess' = Excess \/ phase' = "failed")
<1> DEFINE Arr(n) == Upper(2 * n)
           Bad(n) == {p \in 0 .. n - 1 : ~Hashable(Arr(n)[2 * p + 1])}
           Done(n) == IF Bad(n) = {} THEN n ELSE Min(Bad(n))
           Rest(n) == SubSeq(Arr(n), 2 * Done(n) + 1, n)
<1>1. PICK n \in 0 .. MaxItems \div 2 + 1, d \in Objects :
        /\ Has(2 * n) /\ Create(d, "dict", Entries(Done(n), Arr(n))) /\ UNCHANGED sig
        /\ IF Bad(n) = {}
             THEN Succeeds(Append(Below(2 * n), d), Append(Entries(n, Arr(n)), d), Arr(n))
             ELSE Fails(Below(2 * n), Entries(Done(n), Arr(n)), SubSeq(Arr(n), 1, 2 * Done(n)) \o Rest(n))
  BY DEF do_defdict
<1> DEFINE arr == Arr(n)
           bad == Bad(n)
           done == Done(n)
<1>2. n \in Nat /\ 2 * n \in Nat
  BY ConstantsAssumption
<1>3. Lives(kind, arr) /\ Len(arr) = 2 * n /\ arr \in Values
  BY <1>1, <1>2, Operands DEF Running
<1>4. "dict" \in Kinds \ {"free"} /\ sig' \in [Objects -> Signatures \cup {NoSignature}]
  BY <1>1, SigStays DEF Kinds
<1>5. CASE bad = {}
  <2>1. n > 0 => arr[2 * n - 1] = Name
    <3> SUFFICES ASSUME n > 0 PROVE arr[2 * n - 1] = Name
      OBVIOUS
    <3>1. n - 1 \in 0 .. n - 1 /\ 2 * (n - 1) + 1 = 2 * n - 1
      BY <1>2
    <3>2. Hashable(arr[2 * (n - 1) + 1])
      BY <1>5, <3>1
    <3> QED
      BY <3>1, <3>2 DEF Hashable
  <2>2. /\ Create(d, "dict", Entries(n, arr)) /\ Has(2 * n)
        /\ Succeeds(Append(Below(2 * n), d), Append(Entries(n, arr), d), Upper(2 * n))
    BY <1>1, <1>5
  <2> HIDE DEF arr
  <2>3. Lives(kind, Entries(n, arr)) /\ PartsFit("dict", Entries(n, arr))
    BY <1>2, <1>3, <2>1, EntriesFit
  <2> QED
    BY <1>2, <1>4, <2>2, <2>3, CreateAnewStep
<1>6. CASE bad # {}
  <2>1. done \in bad /\ \A p \in bad : done <= p
    <3>1. bad \in SUBSET Nat
      BY <1>2
    <3>2. PICK m \in bad : \A p \in bad : m <= p
      BY <1>6, <3>1, LeastIn
    <3>4. done = CHOOSE q \in bad : \A p \in bad : q <= p
      BY <1>6 DEF Min
    <3> HIDE DEF bad, done
    <3> QED
      BY <3>2, <3>4
  <2>2. done \in Nat /\ done <= n - 1
    BY <1>2, <2>1
  <2>3. done > 0 => arr[2 * done - 1] = Name
    <3> SUFFICES ASSUME done > 0 PROVE arr[2 * done - 1] = Name
      OBVIOUS
    <3> HIDE DEF done
    <3>1. done - 1 \in 0 .. n - 1 /\ 2 * (done - 1) + 1 = 2 * done - 1 /\ ~(done <= done - 1)
      BY <1>2, <2>2
    <3>2. done - 1 \notin bad
      BY <2>1, <3>1
    <3>3. Hashable(arr[2 * (done - 1) + 1])
      BY <3>1, <3>2
    <3> QED
      BY <3>1, <3>3 DEF Hashable
  <2> DEFINE items == Entries(done, arr)
             u == SubSeq(arr, 1, 2 * done)
             v == SubSeq(arr, 2 * done + 1, n)
  <2>4. /\ Create(d, "dict", items) /\ Has(2 * n) /\ Fails(Below(2 * n), items, u \o v)
    BY <1>1, <1>6
  <2> HIDE DEF arr, done, Arr, bad
  <2>5. Lives(kind, items) /\ PartsFit("dict", items) /\ items \in Values
    BY <1>2, <1>3, <2>2, <2>3, EntriesFit
  <2>6. HeapMoves(<<>>, items) /\ Lives(kind', items) /\ phase' = "failed"
    <3>1. \A s : Lives(kind, s) => Lives(kind', s)
      BY <1>4, <2>4, <2>5, CreateMoves
    <3> QED
      BY <1>4, <2>4, <2>5, <3>1, CreateMoves DEF Fails
  <2>7. \E kept \in Values : u \o v \in Values /\ \A o : Occurrences(u \o v, o) + Occurrences(kept, o) = Occurrences(arr, o)
    <3>1. /\ 2 * done \in Nat /\ 2 * done \in 0 .. Len(arr) /\ n \in 0 .. Len(arr) /\ n <= Len(arr)
          /\ 2 * done + 1 \in Nat
      BY <1>2, <1>3, <2>2
    <3>2. u \in Values
      BY <1>3, <3>1, OccursCut
    <3>3. CASE 2 * done <= n
      <4> DEFINE w == SubSeq(arr, n + 1, Len(arr))
      <4>1. v \in Values /\ \A o : Occurrences(SubSeq(arr, 1, n), o) = Occurrences(u, o) + Occurrences(v, o)
        BY <1>2, <1>3, <3>1, <3>3, OccursWithin
      <4>2. w \in Values /\ \A o : Occurrences(arr, o) = Occurrences(SubSeq(arr, 1, n), o) + Occurrences(w, o)
        BY <1>3, <3>1, OccursCut
      <4> HIDE DEF u, v, w
      <4>3. u \o v \in Values /\ \A o : Occurrences(u \o v, o) = Occurrences(u, o) + Occurrences(v, o)
        BY <3>2, <4>1, OccursConcat
      <4>4. \A o : Occurrences(u \o v, o) + Occurrences(w, o) = Occurrences(arr, o)
        BY <4>1, <4>2, <4>3
      <4> QED
        BY <4>2, <4>3, <4>4
    <3>4. CASE ~(2 * done <= n)
      <4> DEFINE w == SubSeq(arr, 2 * done + 1, Len(arr))
      <4>1. v = <<>>
        BY <1>2, <1>3, <3>1, <3>4, SubSeqEmpty
      <4>2. w \in Values /\ \A o : Occurrences(arr, o) = Occurrences(u, o) + Occurrences(w, o)
        BY <1>3, <3>1, OccursCut
      <4> HIDE DEF u, v, w
      <4>3. u \o v = u
        BY <3>2, <4>1, ConcatEmptySeq DEF Values
      <4> QED
        BY <3>2, <4>2, <4>3
    <3> QED
      BY <3>3, <3>4
  <2>8. PICK kept \in Values : u \o v \in Values /\ \A o : Occurrences(u \o v, o) + Occurrences(kept, o) = Occurrences(arr, o)
    BY <2>7
  <2>9. /\ Below(2 * n) \in Values /\ Len(Below(2 * n)) >= Base
        /\ \A o : /\ Occurrences(Fr.stack, o) = Occurrences(Below(2 * n), o) + Occurrences(arr, o)
                  /\ Occurrences(Below(2 * n), o) \in Nat
    BY <1>2, <2>4, Operands DEF Running, arr, Arr
  <2> DEFINE g == u \o v
  <2> HIDE DEF items, u, v, g
  <2>10. ASSUME NEW o \in AllObjects
         PROVE  Occurrences(Below(2 * n), o) + Occurrences(items, o) + Occurrences(g, o) + Occurrences(kept, o) =
                  Occurrences(Fr.stack, o) + Occurrences(<<>>, o) + Occurrences(items, o)
    <3>1. /\ Occurrences(items, o) \in Nat /\ Occurrences(g, o) \in Nat /\ Occurrences(kept, o) \in Nat
          /\ Occurrences(arr, o) \in Nat /\ Occurrences(<<>>, o) = 0
      BY <1>3, <2>5, <2>8, OccursType, OccursNowhere DEF g
    <3>2. Occurrences(g, o) + Occurrences(kept, o) = Occurrences(arr, o)
      BY <2>8 DEF g
    <3> QED
      BY <2>9, <3>1, <3>2
  <2>11. g \in Values /\ Fails(Below(2 * n), items, g)
    BY <2>4, <2>8 DEF g
  <2>12. Inv'
    BY <2>5, <2>6, <2>8, <2>9, <2>10, <2>11, FailsStep
  <2> QED
    BY <2>6, <2>12
<1> QED
  BY <1>5, <1>6

LEMMA ConstantDictHolds ==
  ASSUME Inv, Running, left' = left - 1, do_defdict_k
  PROVE  Inv' /\ Excess' = Excess
<1> DEFINE Kept(n) == IF n = 0 THEN <<>> ELSE <<Name, SubSeq(Upper(n + 1), 1, n)[1]>>
<1>1. PICK n \in 0 .. 2, d \in Objects :
        /\ Has(n + 1) /\ Create(d, "dict", Kept(n)) /\ UNCHANGED sig
        /\ IF n < 2
             THEN Succeeds(Append(Below(n + 1), d), Append(Kept(n), d), Upper(n + 1))
             ELSE Fails(Below(n + 1), Kept(n), Upper(n + 1))
  BY DEF do_defdict_k
<1> DEFINE kept == Kept(n)
           arr == Upper(n + 1)
<1>2. n \in Nat /\ n + 1 \in Nat /\ n <= 2
  OBVIOUS
<1>3. Lives(kind, arr) /\ Len(arr) = n + 1 /\ arr \in Values
  BY <1>1, <1>2, Operands DEF Running
<1>4. "dict" \in Kinds \ {"free"} /\ sig' \in [Objects -> Signatures \cup {NoSignature}]
  BY <1>1, SigStays DEF Kinds
<1>5. Lives(kind, kept) /\ PartsFit("dict", kept) /\ kept \in Values
  <2>1. CASE n = 0
    BY <2>1, LivesNone DEF PartsFit
  <2>2. CASE n # 0
    <3> DEFINE x == SubSeq(arr, 1, n)[1]
    <3>1. 1 <= n /\ 1 <= n + 1 /\ n <= Len(arr) /\ 1 \in 1 .. n - 1 + 1 /\ 1 + 1 - 1 = 1
      BY <1>2, <1>3, <2>2
    <3>2. x = arr[1] /\ 1 \in 1 .. Len(arr)
      BY <1>2, <1>3, <3>1, LivesPart
    <3>3. x \in AllObjects /\ Alive(kind, x)
      BY <1>3, <3>2, ElementOfSeq DEF Lives, Values
    <3>4. kept = <<Name, x>>
      BY <2>2
    <3> HIDE DEF x
    <3>5. Lives(kind, <<Name, x>>) /\ PartsFit("dict", <<Name, x>>) /\ <<Name, x>> \in Values
      BY <3>3, NameLives DEF Lives, PartsFit, Values
    <3> QED
      BY <3>4, <3>5
  <2> QED
    BY <2>1, <2>2
<1> HIDE DEF kept
<1>6. CASE n < 2
  <2>1. Create(d, "dict", kept) /\ Has(n + 1) /\ Succeeds(Append(Below(n + 1), d), Append(kept, d), Upper(n + 1))
    BY <1>1, <1>6 DEF kept
  <2> QED
    BY <1>2, <1>4, <1>5, <2>1, CreateAnewStep
<1>7. CASE ~(n < 2)
  <2>1. Create(d, "dict", kept) /\ Has(n + 1) /\ Fails(Below(n + 1), kept, arr)
    BY <1>1, <1>7 DEF kept
  <2>2. HeapMoves(<<>>, kept) /\ Lives(kind', kept)
    <3>1. HeapMoves(<<>>, kept) /\ \A s : Lives(kind, s) => Lives(kind', s)
      BY <1>4, <1>5, <2>1, CreateMoves
    <3> QED
      BY <1>5, <3>1
  <2>3. /\ Below(n + 1) \in Values /\ Len(Below(n + 1)) >= Base
        /\ \A o : /\ Occurrences(Fr.stack, o) = Occurrences(Below(n + 1), o) + Occurrences(arr, o)
                  /\ Occurrences(Below(n + 1), o) \in Nat
    BY <1>2, <2>1, Operands DEF Running
  <2> HIDE DEF arr
  <2>4. ASSUME NEW o \in AllObjects
        PROVE  Occurrences(Below(n + 1), o) + Occurrences(kept, o) + Occurrences(arr, o) + Occurrences(<<>>, o) =
                 Occurrences(Fr.stack, o) + Occurrences(<<>>, o) + Occurrences(kept, o)
    <3>1. Occurrences(kept, o) \in Nat /\ Occurrences(arr, o) \in Nat /\ Occurrences(<<>>, o) = 0
      BY <1>3, <1>5, OccursType, OccursNowhere
    <3> QED
      BY <2>3, <3>1
  <2>5. <<>> \in Values
    BY LivesNone
  <2> QED
    BY <1>3, <1>5, <2>1, <2>2, <2>3, <2>4, <2>5, FailsStep
<1> QED
  BY <1>6, <1>7

LEMMA Replaces ==
  \A i, w, p, v, u : \A g :
    i \in Nat /\ w \in Nat /\ p \in Nat /\ v \in Nat /\ u \in Nat /\ i + w = p + v /\ g = u + w
      => i + g = u + p + v
OBVIOUS

LEMMA SetItemHolds ==
  ASSUME Inv, Running, left' = left - 1, do_setitem
  PROVE  Inv' /\ Excess' = Excess
<1> DEFINE q == Top(3)
           key == Top(2)
           val == Top(1)
<1>1. Has(3) /\ 3 \in Nat
  BY DEF do_setitem
<1>2. /\ Upper(3) = <<q, key, val>> /\ Upper(3) \in Values
      /\ val \in AllObjects /\ Alive(kind, val) /\ key \in AllObjects /\ q \in AllObjects
      /\ \A o : Occurrences(Upper(3), o) \in Nat
  BY <1>1, ThreeOperands DEF Running
<1>3. Lives(kind, <<val>>) /\ <<val>> \in Values
  BY <1>2, LivesOnce
<1>4. CASE /\ IsKind(q, {"list"}) /\ UNCHANGED <<kind, sig>>
           /\ \E i \in DOMAIN parts[q] :
                /\ SetParts(q, [parts[q] EXCEPT ![i] = val])
                /\ Succeeds(Below(3), <<val>>, Append(Upper(3), parts[q][i]))
  <2>1. q \in Objects /\ kind[q] = "list" /\ kind' = kind /\ sig' = sig
    BY <1>4 DEF IsKind
  <2>2. /\ parts[q] \in Values /\ DOMAIN parts[q] = 1 .. Len(parts[q])
        /\ \A i \in 1 .. Len(parts[q]) : parts[q][i] \in AllObjects
    BY <2>1, PartsLive
  <2>3. PICK i \in 1 .. Len(parts[q]) :
          /\ SetParts(q, [parts[q] EXCEPT ![i] = val])
          /\ Succeeds(Below(3), <<val>>, Append(Upper(3), parts[q][i]))
    BY <1>4, <2>2
  <2> DEFINE items == [parts[q] EXCEPT ![i] = val]
             old == parts[q][i]
             given == Append(Upper(3), old)
  <2>4. /\ items \in Values /\ old \in AllObjects
        /\ \A o : /\ Occurrences(items, o) + Occurrences(<<old>>, o) = Occurrences(parts[q], o) + Occurrences(<<val>>, o)
                  /\ Occurrences(items, o) \in Nat /\ Occurrences(<<old>>, o) \in Nat
    BY <1>2, <2>2, LocalReplaced
  <2>5. /\ given \in Values
        /\ \A o : Occurrences(given, o) = Occurrences(Upper(3), o) + Occurrences(<<old>>, o)
    BY <1>2, <2>4, OccursAppend
  <2>6. PartsFit(kind[q], items) /\ SetParts(q, items) /\ Succeeds(Below(3), <<val>>, given)
    BY <2>1, <2>3 DEF PartsFit
  <2> HIDE DEF items, old, given, q, key, val
  <2>7. ASSUME NEW x \in AllObjects
        PROVE  Occurrences(items, x) + Occurrences(given, x) =
                 Occurrences(Upper(3), x) + Occurrences(parts[q], x) + Occurrences(<<val>>, x)
    <3>1. Occurrences(<<val>>, x) \in Nat /\ Occurrences(parts[q], x) \in Nat /\ Occurrences(Upper(3), x) \in Nat
      BY <1>2, <1>3, <2>2, OccursType
    <3>2. /\ Occurrences(items, x) + Occurrences(<<old>>, x) = Occurrences(parts[q], x) + Occurrences(<<val>>, x)
          /\ Occurrences(items, x) \in Nat /\ Occurrences(<<old>>, x) \in Nat
          /\ Occurrences(given, x) = Occurrences(Upper(3), x) + Occurrences(<<old>>, x)
      BY <2>4, <2>5
    <3> QED
      BY ONLY <3>1, <3>2, Replaces
  <2> QED
    BY <1>1, <1>3, <2>1, <2>4, <2>5, <2>6, <2>7, SetStep
<1>5. CASE /\ IsKind(q, {"dict"}) /\ UNCHANGED <<kind, sig>>
           /\ SetParts(q, <<Name, val>>)
           /\ IF parts[q] = <<>>
                THEN Succeeds(Below(3), <<Name, val>>, Upper(3))
                ELSE Succeeds(Below(3), <<val>>, Append(Upper(3), parts[q][2]))
  <2> DEFINE items == <<Name, val>>
  <2>1. q \in Objects /\ kind[q] = "dict" /\ kind' = kind /\ sig' = sig /\ SetParts(q, items)
    BY <1>5 DEF IsKind
  <2>2. /\ items \in Values /\ Lives(kind, items) /\ PartsFit("dict", items)
        /\ \A o : Occurrences(items, o) = Occurrences(<<Name>>, o) + Occurrences(<<val>>, o)
    BY <1>2, NameLives, OccursPair DEF Lives, PartsFit
  <2>3. \A o : Occurrences(<<Name>>, o) \in Nat /\ Occurrences(<<val>>, o) \in Nat
    BY <1>3, NameLives, OccursOnce, OccursType
  <2>4. CASE parts[q] = <<>>
    <3>1. Succeeds(Below(3), items, Upper(3))
      BY <1>5, <2>4
    <3> HIDE DEF items, q, key, val
    <3>2. ASSUME NEW x \in AllObjects
          PROVE  Occurrences(items, x) + Occurrences(Upper(3), x) =
                   Occurrences(Upper(3), x) + Occurrences(parts[q], x) + Occurrences(items, x)
      <4>1. Occurrences(parts[q], x) = 0 /\ Occurrences(items, x) \in Nat
        BY <2>2, <2>4, OccursNowhere, OccursType
      <4> QED
        BY <1>2, <4>1
    <3> QED
      BY <1>1, <1>2, <2>1, <2>2, <3>1, <3>2, SetStep
  <2>5. CASE parts[q] # <<>>
    <3> DEFINE old == parts[q][2]
               given == Append(Upper(3), old)
    <3>1. Len(parts[q]) = 2 /\ parts[q][1] = Name /\ parts[q] \in Values /\ old \in AllObjects
      <4>1. PartsFit("dict", parts[q])
        BY <2>1, PartsLive
      <4>2. Len(parts[q]) = 2 /\ parts[q][1] = Name
        BY <2>5, <4>1 DEF PartsFit
      <4>3. 2 \in 1 .. 2
        OBVIOUS
      <4> QED
        BY <2>1, <4>2, <4>3, PartsLive
    <3>2. parts[q] = <<Name, old>>
      BY <3>1 DEF Values
    <3>3. Succeeds(Below(3), <<val>>, given)
      BY <1>5, <2>5
    <3>4. given \in Values /\ \A o : Occurrences(given, o) = Occurrences(Upper(3), o) + Occurrences(<<old>>, o)
      BY <1>2, <3>1, OccursAppend
    <3>5. \A o : /\ Occurrences(<<Name, old>>, o) = Occurrences(<<Name>>, o) + Occurrences(<<old>>, o)
                 /\ Occurrences(<<old>>, o) \in Nat
      BY <3>1, NameLives, OccursPair, OccursOnce, OccursType
    <3> HIDE DEF items, q, key, val, old, given
    <3>6. ASSUME NEW x \in AllObjects
          PROVE  Occurrences(items, x) + Occurrences(given, x) =
                   Occurrences(Upper(3), x) + Occurrences(parts[q], x) + Occurrences(<<val>>, x)
      <4>1. Occurrences(parts[q], x) = Occurrences(<<Name, old>>, x)
        BY <3>2
      <4>2. /\ Occurrences(<<Name, old>>, x) = Occurrences(<<Name>>, x) + Occurrences(<<old>>, x)
            /\ Occurrences(<<old>>, x) \in Nat /\ Occurrences(<<Name>>, x) \in Nat /\ Occurrences(<<val>>, x) \in Nat
            /\ Occurrences(given, x) = Occurrences(Upper(3), x) + Occurrences(<<old>>, x)
            /\ Occurrences(items, x) = Occurrences(<<Name>>, x) + Occurrences(<<val>>, x)
            /\ Occurrences(Upper(3), x) \in Nat
        BY <1>2, <2>2, <2>3, <3>4, <3>5
      <4> QED
        BY ONLY <4>1, <4>2
    <3> QED
      BY <1>1, <1>3, <2>1, <2>2, <3>3, <3>4, <3>6, SetStep
  <2> QED
    BY <2>4, <2>5
<1>6. CASE Fails(Below(3), <<>>, Upper(3)) /\ UNCHANGED heap
  BY <1>1, <1>6, PopStep
<1> QED
  BY <1>4, <1>5, <1>6 DEF do_setitem

LEMMA GetItemHolds ==
  ASSUME Inv, Running, left' = left - 1, do_getitem
  PROVE  Inv' /\ Excess' = Excess
<1> DEFINE q == Top(2)
<1>1. /\ Has(2) /\ UNCHANGED heap /\ 2 \in Nat
      /\ \/ /\ IsKind(q, {"list", "tuple", "dict"})
            /\ \E i \in DOMAIN parts[q] : Succeeds(Append(Below(2), parts[q][i]), <<parts[q][i]>>, Upper(2))
         \/ Fails(Below(2), <<>>, Upper(2))
  BY DEF do_getitem
<1>2. CASE /\ IsKind(q, {"list", "tuple", "dict"})
           /\ \E i \in DOMAIN parts[q] : Succeeds(Append(Below(2), parts[q][i]), <<parts[q][i]>>, Upper(2))
  <2>1. q \in Objects
    BY <1>2 DEF IsKind
  <2>2. PICK i \in 1 .. Len(parts[q]) : Succeeds(Append(Below(2), parts[q][i]), <<parts[q][i]>>, Upper(2))
    BY <1>2, <2>1, PartsLive
  <2>3. parts[q][i] \in AllObjects /\ Alive(kind, parts[q][i])
    BY <2>1, PartsLive
  <2> QED
    BY <1>1, <2>2, <2>3, ReplaceStep
<1>3. CASE Fails(Below(2), <<>>, Upper(2))
  BY <1>1, <1>3, PopStep
<1> QED
  BY <1>1, <1>2, <1>3

LEMMA DelItemHolds ==
  ASSUME Inv, Running, left' = left - 1, do_delitem
  PROVE  Inv' /\ Excess' = Excess
<1> DEFINE q == Top(2)
<1>1. Has(2) /\ 2 \in Nat
  BY DEF do_delitem
<1>2. /\ Upper(2) \in Values /\ \A o : Occurrences(Upper(2), o) \in Nat
  BY <1>1, TwoOperands DEF Running
<1>3. <<>> \in Values /\ Lives(kind, <<>>)
  BY LivesNone
<1>4. CASE /\ IsKind(q, {"list"}) /\ UNCHANGED <<kind, sig>>
           /\ \E i \in DOMAIN parts[q] :
                /\ SetParts(q, RemoveAt(parts[q], i))
                /\ Succeeds(Below(2), <<>>, Append(Upper(2), parts[q][i]))
  <2>1. q \in Objects /\ kind[q] = "list" /\ kind' = kind /\ sig' = sig
    BY <1>4 DEF IsKind
  <2>2. parts[q] \in Values /\ DOMAIN parts[q] = 1 .. Len(parts[q])
    BY <2>1, PartsLive
  <2>3. PICK i \in 1 .. Len(parts[q]) :
          /\ SetParts(q, RemoveAt(parts[q], i))
          /\ Succeeds(Below(2), <<>>, Append(Upper(2), parts[q][i]))
    BY <1>4, <2>2
  <2> DEFINE items == RemoveAt(parts[q], i)
             old == parts[q][i]
             given == Append(Upper(2), old)
  <2>4. /\ items \in Values /\ old \in AllObjects
        /\ \A o : Occurrences(items, o) + Occurrences(<<old>>, o) = Occurrences(parts[q], o)
    BY <2>2, OccursRemove
  <2>5. /\ given \in Values
        /\ \A o : Occurrences(given, o) = Occurrences(Upper(2), o) + Occurrences(<<old>>, o)
    BY <1>2, <2>4, OccursAppend
  <2>6. PartsFit(kind[q], items) /\ SetParts(q, items) /\ Succeeds(Below(2), <<>>, given)
    BY <2>1, <2>3 DEF PartsFit
  <2>7. \A o : /\ Occurrences(<<old>>, o) \in Nat /\ Occurrences(items, o) \in Nat
               /\ Occurrences(parts[q], o) \in Nat /\ Occurrences(<<>>, o) = 0
    BY <2>2, <2>4, OccursOnce, OccursType, OccursNowhere
  <2> HIDE DEF items, old, given, q
  <2>8. ASSUME NEW x \in AllObjects
        PROVE  Occurrences(items, x) + Occurrences(given, x) =
                 Occurrences(Upper(2), x) + Occurrences(parts[q], x) + Occurrences(<<>>, x)
    <3>1. /\ Occurrences(items, x) + Occurrences(<<old>>, x) = Occurrences(parts[q], x)
          /\ Occurrences(given, x) = Occurrences(Upper(2), x) + Occurrences(<<old>>, x)
          /\ Occurrences(<<old>>, x) \in Nat /\ Occurrences(items, x) \in Nat
          /\ Occurrences(parts[q], x) \in Nat /\ Occurrences(<<>>, x) = 0 /\ Occurrences(Upper(2), x) \in Nat
      BY <1>2, <2>4, <2>5, <2>7
    <3> QED
      BY ONLY <3>1
  <2> QED
    BY <1>1, <1>3, <2>1, <2>4, <2>5, <2>6, <2>8, SetStep
<1>5. CASE /\ IsKind(q, {"dict", "instance"}) /\ parts[q] # <<>> /\ UNCHANGED <<kind, sig>>
           /\ SetParts(q, <<>>) /\ Succeeds(Below(2), <<>>, Upper(2) \o parts[q])
  <2> DEFINE given == Upper(2) \o parts[q]
  <2>1. /\ q \in Objects /\ kind[q] \in {"dict", "instance"} /\ kind' = kind /\ sig' = sig
        /\ SetParts(q, <<>>) /\ Succeeds(Below(2), <<>>, given)
    BY <1>5 DEF IsKind
  <2>2. parts[q] \in Values /\ PartsFit(kind[q], <<>>)
    BY <2>1, PartsLive DEF PartsFit
  <2>3. given \in Values /\ \A o : Occurrences(given, o) = Occurrences(Upper(2), o) + Occurrences(parts[q], o)
    BY <1>2, <2>2, OccursConcat
  <2> HIDE DEF given, q
  <2>4. ASSUME NEW x \in AllObjects
        PROVE  Occurrences(<<>>, x) + Occurrences(given, x) =
                 Occurrences(Upper(2), x) + Occurrences(parts[q], x) + Occurrences(<<>>, x)
    <3>1. /\ Occurrences(given, x) = Occurrences(Upper(2), x) + Occurrences(parts[q], x)
          /\ Occurrences(<<>>, x) = 0 /\ Occurrences(Upper(2), x) \in Nat /\ Occurrences(parts[q], x) \in Nat
      BY <1>2, <2>2, <2>3, OccursType, OccursNowhere
    <3> QED
      BY ONLY <3>1
  <2> QED
    BY <1>1, <1>3, <2>1, <2>2, <2>3, <2>4, SetStep
<1>6. CASE Fails(Below(2), <<>>, Upper(2)) /\ UNCHANGED heap
  BY <1>1, <1>6, PopStep
<1> QED
  BY <1>4, <1>5, <1>6 DEF do_delitem

LEMMA GetAttrHolds ==
  ASSUME Inv, Running, left' = left - 1, do_getattr
  PROVE  Inv' /\ Excess' = Excess
<1> DEFINE q == Top(2)
           attr == parts[q][1]
<1>1. Has(2) /\ 2 \in Nat
  BY DEF do_getattr
<1>2. q \in AllObjects /\ Alive(kind, q) /\ Upper(2) \in Values
  BY <1>1, TwoOperands DEF Running
<1>3. CASE IsKind(q, {"instance"}) /\ parts[q] # <<>>
  <2>1. q \in Objects
    BY <1>3 DEF IsKind
  <2>2. parts[q] \in Values /\ Len(parts[q]) \in Nat /\ Len(parts[q]) # 0
    BY <1>3, <2>1, PartsLive, EmptySeq DEF Values
  <2>3. attr \in AllObjects /\ Alive(kind, attr)
    <3>1. 1 \in 1 .. Len(parts[q])
      BY <2>2
    <3> QED
      BY <2>1, <3>1, PartsLive
  <2>4. ASSUME NEW m \in Objects, Create(m, "method", <<attr, q>>), sig' = sig,
               Succeeds(Append(Below(2), m), <<m, attr, q>>, Upper(2))
        PROVE  Inv' /\ Excess' = Excess
    <3> DEFINE items == <<attr, q>>
               taken == <<m, attr, q>>
    <3>1. "method" \in Kinds \ {"free"} /\ sig' \in [Objects -> Signatures \cup {NoSignature}]
      BY <2>4, SigStays DEF Kinds
    <3>2. items \in Values /\ PartsFit("method", items)
      BY <1>2, <2>3, OccursPair DEF PartsFit
    <3>3. m \in AllObjects /\ Alive(kind', m) /\ Alive(kind', attr) /\ Alive(kind', q)
      BY <1>2, <2>3, <2>4, <3>1, <3>2, CreateMoves
    <3>4. /\ taken \in Values /\ Lives(kind', taken)
          /\ \A x : Occurrences(taken, x) = Occurrences(<<m>>, x) + Occurrences(<<attr>>, x) + Occurrences(<<q>>, x)
      BY <1>2, <2>3, <3>3, OccursTriple DEF Lives
    <3>5. \A x : Occurrences(items, x) = Occurrences(<<attr>>, x) + Occurrences(<<q>>, x)
      BY <1>2, <2>3, OccursPair
    <3>6. \A x : /\ Occurrences(<<m>>, x) \in Nat /\ Occurrences(<<attr>>, x) \in Nat /\ Occurrences(<<q>>, x) \in Nat
                 /\ Occurrences(Upper(2), x) \in Nat
      BY <1>2, <2>3, <3>3, OccursOnce, OccursType
    <3>7. Create(m, "method", items) /\ Succeeds(Append(Below(2), m), taken, Upper(2))
      BY <2>4
    <3> HIDE DEF items, taken, q, attr
    <3>8. \A x \in AllObjects : Occurrences(<<m>>, x) + Occurrences(items, x) + Occurrences(Upper(2), x) =
                                 Occurrences(Upper(2), x) + Occurrences(taken, x)
      BY <3>4, <3>5, <3>6
    <3> QED
      BY <1>1, <1>2, <3>1, <3>2, <3>4, <3>7, <3>8, CreateStep
  <2>5. ASSUME Succeeds(Append(Below(2), attr), <<attr>>, Upper(2)), UNCHANGED heap
        PROVE  Inv' /\ Excess' = Excess
    BY <1>1, <2>3, <2>5, ReplaceStep
  <2>6. CASE Fails(Below(2), <<>>, Upper(2)) /\ UNCHANGED heap
    BY <1>1, <2>6, PopStep
  <2> QED
    BY <2>4, <2>5, <2>6 DEF do_getattr
<1>4. CASE Fails(Below(2), <<>>, Upper(2)) /\ UNCHANGED heap
  BY <1>1, <1>4, PopStep
<1> QED
  BY <1>3, <1>4 DEF do_getattr

LEMMA MethodParts ==
  ASSUME Inv, NEW m, IsKind(m, {"method"})
  PROVE  /\ m \in Objects /\ parts[m][1] \in AllObjects /\ parts[m][2] \in AllObjects
         /\ Alive(kind, parts[m][1]) /\ Alive(kind, parts[m][2])
<1>1. m \in Objects /\ kind[m] = "method"
  BY DEF IsKind
<1>2. Len(parts[m]) = 2
  BY <1>1, PartsLive DEF PartsFit
<1>3. 1 \in 1 .. 2 /\ 2 \in 1 .. 2
  OBVIOUS
<1> QED
  BY <1>1, <1>2, <1>3, PartsLive

LEMMA SetAttrHolds ==
  ASSUME Inv, Running, left' = left - 1, do_setattr
  PROVE  Inv' /\ Excess' = Excess
<1> DEFINE q == Top(3)
           a == Top(1)
           b == Top(2)
           own == IsKind(a, {"method"}) /\ parts[a][2] = q
           val == IF own THEN parts[a][1] ELSE a
           taken == IF own THEN <<val, q>> ELSE <<>>
           given == IF own THEN <<q, a, b, val, q>> ELSE Upper(3)
<1>1. /\ Has(3) /\ 3 \in Nat
      /\ \/ /\ IsKind(q, {"instance"}) /\ UNCHANGED <<kind, sig>>
            /\ SetParts(q, <<val>>)
            /\ Succeeds(Below(3), Append(taken, val), given \o parts[q])
         \/ Fails(Below(3), taken, given) /\ UNCHANGED heap
  BY DEF do_setattr
<1>2. /\ Upper(3) \in Values /\ a \in AllObjects /\ Alive(kind, a) /\ b \in AllObjects
      /\ q \in AllObjects /\ Alive(kind, q)
      /\ \A o : /\ Occurrences(Upper(3), o) = Occurrences(<<q>>, o) + Occurrences(<<b>>, o) + Occurrences(<<a>>, o)
                /\ Occurrences(Upper(3), o) \in Nat
  BY <1>1, ThreeOperands DEF Running
<1>3. val \in AllObjects /\ Alive(kind, val)
  BY <1>2, MethodParts
\* Of the object, its method and the key one reference each goes for good.
<1>4. /\ taken \in Values /\ Lives(kind, taken) /\ given \in Values
      /\ \A o : /\ Occurrences(given, o) = Occurrences(Upper(3), o) + Occurrences(taken, o)
                /\ Occurrences(taken, o) \in Nat /\ Occurrences(given, o) \in Nat
  <2>1. CASE ~own
    <3>1. taken = <<>> /\ given = Upper(3)
      BY <2>1
    <3>2. <<>> \in Values /\ Lives(kind, <<>>) /\ \A o : Occurrences(<<>>, o) = 0
      BY LivesNone, OccursNowhere
    <3> HIDE DEF taken, given, q, a, b, own
    <3>3. \A o : Occurrences(taken, o) = 0 /\ Occurrences(given, o) = Occurrences(Upper(3), o)
      BY <3>1, <3>2
    <3> QED
      BY <1>2, <3>1, <3>2, <3>3
  <2>2. CASE own
    <3> DEFINE t == <<val, q>>
               u == <<q, a, b>>
    <3>1. taken = t /\ given = u \o t
      BY <2>2
    <3> HIDE DEF val, q, a, b
    <3>2. /\ t \in Values /\ Lives(kind, t) /\ u \in Values
          /\ \A o : Occurrences(u, o) = Occurrences(<<q>>, o) + Occurrences(<<a>>, o) + Occurrences(<<b>>, o)
      <4>1. t \in Values
        BY <1>2, <1>3, OccursPair
      <4>2. Lives(kind, t)
        BY <1>2, <1>3, <4>1 DEF Lives
      <4>3. u \in Values /\ \A o : Occurrences(u, o) = Occurrences(<<q>>, o) + Occurrences(<<a>>, o) + Occurrences(<<b>>, o)
        <5>1. q \in AllObjects /\ a \in AllObjects /\ b \in AllObjects
          BY <1>2
        <5>2. u \in Values
          BY ONLY <5>1, OccursTriple
        <5>3. ASSUME NEW o
              PROVE  Occurrences(u, o) = Occurrences(<<q>>, o) + Occurrences(<<a>>, o) + Occurrences(<<b>>, o)
          BY ONLY <5>1, OccursTriple
        <5> QED
          BY <5>2, <5>3
      <4> QED
        BY <4>1, <4>2, <4>3
    <3> HIDE DEF t, u, taken, given
    <3>3. u \o t \in Values /\ \A o : Occurrences(u \o t, o) = Occurrences(u, o) + Occurrences(t, o)
      BY <3>2, OccursConcat
    <3>4. \A o : Occurrences(u \o t, o) \in Nat /\ Occurrences(t, o) \in Nat
      BY <3>2, <3>3, OccursType
    <3>5. \A o : /\ Occurrences(<<q>>, o) \in Nat /\ Occurrences(<<a>>, o) \in Nat /\ Occurrences(<<b>>, o) \in Nat
      BY <1>2, OccursOnce, OccursType
    <3>6. \A o : Occurrences(u \o t, o) = Occurrences(Upper(3), o) + Occurrences(t, o)
      <4> SUFFICES ASSUME NEW o PROVE Occurrences(u \o t, o) = Occurrences(Upper(3), o) + Occurrences(t, o)
        OBVIOUS
      <4>1. /\ Occurrences(Upper(3), o) = Occurrences(<<q>>, o) + Occurrences(<<b>>, o) + Occurrences(<<a>>, o)
            /\ Occurrences(u, o) = Occurrences(<<q>>, o) + Occurrences(<<a>>, o) + Occurrences(<<b>>, o)
            /\ Occurrences(u \o t, o) = Occurrences(u, o) + Occurrences(t, o)
            /\ Occurrences(<<q>>, o) \in Nat /\ Occurrences(<<a>>, o) \in Nat /\ Occurrences(<<b>>, o) \in Nat
        BY <1>2, <3>2, <3>3, <3>5
      <4> QED
        BY ONLY <4>1
    <3> QED
      BY <3>1, <3>2, <3>3, <3>4, <3>6
  <2> QED
    BY <2>1, <2>2
<1> HIDE DEF q, own, val, taken, given
<1>5. CASE /\ IsKind(q, {"instance"}) /\ UNCHANGED <<kind, sig>>
           /\ SetParts(q, <<val>>)
           /\ Succeeds(Below(3), Append(taken, val), given \o parts[q])
  <2> DEFINE t == Append(taken, val)
             g == given \o parts[q]
             items == <<val>>
  <2>1. /\ q \in Objects /\ kind[q] = "instance" /\ kind' = kind /\ sig' = sig
        /\ SetParts(q, items) /\ Succeeds(Below(3), t, g)
    BY <1>5 DEF IsKind
  <2>2. parts[q] \in Values /\ items \in Values /\ PartsFit("instance", items)
    BY <1>3, <2>1, PartsLive, OccursOnce DEF PartsFit
  <2>3. /\ Lives(kind, t) /\ \A o : Occurrences(t, o) = Occurrences(taken, o) + Occurrences(items, o)
    BY <1>3, <1>4, LivesAppend, OccursAppend
  <2>4. g \in Values /\ \A o : Occurrences(g, o) = Occurrences(given, o) + Occurrences(parts[q], o)
    BY <1>4, <2>2, OccursConcat
  <2> HIDE DEF t, g, items
  <2>5. ASSUME NEW x \in AllObjects
        PROVE  Occurrences(items, x) + Occurrences(g, x) =
                 Occurrences(Upper(3), x) + Occurrences(parts[q], x) + Occurrences(t, x)
    <3>1. Occurrences(items, x) \in Nat /\ Occurrences(parts[q], x) \in Nat
      BY <2>2, OccursType
    <3>2. /\ Occurrences(given, x) = Occurrences(Upper(3), x) + Occurrences(taken, x)
          /\ Occurrences(taken, x) \in Nat /\ Occurrences(given, x) \in Nat /\ Occurrences(Upper(3), x) \in Nat
          /\ Occurrences(t, x) = Occurrences(taken, x) + Occurrences(items, x)
          /\ Occurrences(g, x) = Occurrences(given, x) + Occurrences(parts[q], x)
      BY <1>2, <1>4, <2>3, <2>4
    <3> QED
      BY ONLY <3>1, <3>2
  <2> QED
    BY <1>1, <2>1, <2>2, <2>3, <2>4, <2>5, SetStep
<1>6. CASE Fails(Below(3), taken, given) /\ UNCHANGED heap
  <2>1. /\ Below(3) \in Values /\ Len(Below(3)) >= Base
        /\ \A o : /\ Occurrences(Fr.stack, o) = Occurrences(Below(3), o) + Occurrences(Upper(3), o)
                  /\ Occurrences(Below(3), o) \in Nat
    BY <1>1, Operands DEF Running
  <2>2. \A o \in AllObjects : Occurrences(Below(3), o) + Occurrences(given, o) =
                                Occurrences(Fr.stack, o) + Occurrences(taken, o)
    BY <1>2, <1>4, <2>1
  <2> QED
    BY <1>4, <1>6, <2>1, <2>2, FailsSimply
<1> QED
  BY <1>1, <1>5, <1>6

LEMMA ForeachSetupHolds ==
  ASSUME Inv, Running, left' = left - 1, do_foreach_setup
  PROVE  Inv' /\ Excess' = Excess
<1> DEFINE t == Top(1)
<1>1. Has(1) /\ 1 \in Nat
  BY DEF do_foreach_setup
<1>2. Upper(1) = <<t>> /\ t \in AllObjects /\ Alive(kind, t) /\ Upper(1) \in Values
  BY <1>1, OneOperand, Operands DEF Running
<1>3. ASSUME Iterable(t), NEW it \in Objects, Create(it, "iterator", <<t>>), sig' = sig,
             Succeeds(Append(Below(1), it), <<it, t>>, <<t>>)
      PROVE  Inv' /\ Excess' = Excess
  <2> DEFINE items == <<t>>
             taken == <<it, t>>
  <2>1. "iterator" \in Kinds \ {"free"} /\ sig' \in [Objects -> Signatures \cup {NoSignature}]
    BY <1>3, SigStays DEF Kinds
  <2>2. items \in Values /\ PartsFit("iterator", items)
    <3>1. t \in Objects
      BY <1>3 DEF Iterable, IsKind
    <3> QED
      BY <1>2, <3>1, OccursOnce DEF PartsFit, Range
  <2>3. it \in AllObjects /\ Alive(kind', it) /\ Alive(kind', t)
    BY <1>2, <1>3, <2>1, <2>2, CreateMoves
  <2>4. taken \in Values
    BY <1>2, <2>3, OccursPair
  <2>5. Lives(kind', taken)
    BY <2>3, <2>4 DEF Lives
  <2>6. \A x : Occurrences(taken, x) = Occurrences(<<it>>, x) + Occurrences(items, x)
    BY <1>2, <2>3, OccursPair
  <2>7. \A x : Occurrences(<<it>>, x) \in Nat /\ Occurrences(items, x) \in Nat
    BY <2>2, <2>3, OccursOnce, OccursType
  <2>8. Create(it, "iterator", items) /\ Succeeds(Append(Below(1), it), taken, Upper(1)) /\ Upper(1) = items
    BY <1>2, <1>3
  <2> HIDE DEF items, taken, t
  <2>9. \A x \in AllObjects : Occurrences(<<it>>, x) + Occurrences(items, x) + Occurrences(Upper(1), x) =
                                 Occurrences(Upper(1), x) + Occurrences(taken, x)
    BY <2>6, <2>7, <2>8
  <2> QED
    BY <1>1, <1>2, <2>1, <2>2, <2>4, <2>5, <2>8, <2>9, CreateStep
<1>4. CASE Fails(Below(1), <<>>, <<t>>) /\ UNCHANGED heap
  <2>1. Fails(Below(1), <<>>, Upper(1))
    BY <1>2, <1>4
  <2> QED
    BY <1>1, <1>4, <2>1, PopStep
<1> QED
  BY <1>3, <1>4 DEF do_foreach_setup

LEMMA ForeachIterHolds ==
  ASSUME Inv, Running, left' = left - 1, do_foreach_iter
  PROVE  Inv' /\ Excess' = Excess
<1> DEFINE it == Top(1)
<1>1. /\ Has(1) /\ 1 \in Nat /\ it \in Objects /\ kind[it] = "iterator"
      /\ \/ \E x \in UNION {Range(parts[t]) : t \in Range(parts[it])} :
              Succeeds(Append(Fr.stack, x), <<x>>, <<>>) /\ UNCHANGED heap
         \/ /\ SetParts(it, <<>>) /\ UNCHANGED <<kind, sig>>
            /\ Succeeds(Fr.stack, <<>>, parts[it])
         \/ Fails(Below(1), <<>>, <<it>>) /\ UNCHANGED heap
  BY DEF do_foreach_iter, IsKind
<1>2. Upper(1) = <<it>> /\ Fr.stack \in Values /\ Len(Fr.stack) >= Base
  BY <1>1, OneOperand, Running_ DEF Running
<1>3. parts[it] \in Values /\ Range(parts[it]) \subseteq Objects
  BY <1>1, PartsLive DEF PartsFit
<1>4. ASSUME NEW x \in UNION {Range(parts[t]) : t \in Range(parts[it])},
             Succeeds(Append(Fr.stack, x), <<x>>, <<>>), UNCHANGED heap
      PROVE  Inv' /\ Excess' = Excess
  <2>1. PICK t \in Objects : x \in Range(parts[t])
    BY <1>3
  <2>2. x \in AllObjects /\ Alive(kind, x)
    BY <2>1, PartsLive
  <2> QED
    BY <1>4, <2>2, PushStep
<1>5. CASE /\ SetParts(it, <<>>) /\ UNCHANGED <<kind, sig>>
           /\ Succeeds(Fr.stack, <<>>, parts[it])
  <2>1. <<>> \in Values /\ Lives(kind', <<>>) /\ \A o : Occurrences(<<>>, o) = 0
    BY LivesNone, OccursNowhere
  <2>2. PartsFit(kind[it], <<>>)
    BY <1>1 DEF PartsFit, Range
  <2> HIDE DEF it
  <2>3. HeapMoves(parts[it], <<>>)
    BY <1>1, <1>5, <2>1, <2>2, SetMoves
  <2>4. \A o : Occurrences(Fr.stack, o) \in Nat /\ Occurrences(parts[it], o) \in Nat
    BY <1>2, <1>3, OccursType
  <2>5. Weighs(Fr.stack, <<>>, parts[it], parts[it], <<>>)
    BY <2>1, <2>4 DEF Weighs
  <2> QED
    BY <1>2, <1>3, <1>5, <2>1, <2>3, <2>5, SucceedsStep
<1>6. CASE Fails(Below(1), <<>>, <<it>>) /\ UNCHANGED heap
  <2>1. Fails(Below(1), <<>>, Upper(1))
    BY <1>2, <1>6
  <2> QED
    BY <1>1, <1>6, <2>1, PopStep
<1> QED
  BY <1>1, <1>4, <1>5, <1>6

LEMMA UnpackHolds ==
  ASSUME Inv, Running, left' = left - 1, do_unpack
  PROVE  Inv' /\ Excess' = Excess
<1> DEFINE t == Top(1)
<1>1. /\ Has(1) /\ UNCHANGED heap /\ 1 \in Nat
      /\ \/ Iterable(t) /\ Succeeds(Below(1) \o parts[t], parts[t], <<t>>)
         \/ Fails(Below(1), <<>>, <<t>>)
  BY DEF do_unpack
<1>2. Upper(1) = <<t>> /\ Upper(1) \in Values
  BY <1>1, OneOperand, Operands DEF Running
<1>3. CASE Iterable(t) /\ Succeeds(Below(1) \o parts[t], parts[t], <<t>>)
  <2> DEFINE p == parts[t]
             s == Below(1) \o p
             g == <<t>>
  <2>1. t \in Objects
    BY <1>3 DEF Iterable, IsKind
  <2>2. Lives(kind, p) /\ p \in Values /\ Len(p) \in Nat
    BY <2>1, PartsLive
  <2>3. /\ Lives(kind, Below(1)) /\ Below(1) \in Values /\ Len(Below(1)) >= Base /\ Len(Below(1)) \in Nat /\ Base \in Nat
    BY <1>1, Operands, Running_, LenProperties DEF Running, Values
  <2>4. s \in Values /\ Len(s) = Len(Below(1)) + Len(p)
    BY <2>2, <2>3, LivesConcat
  <2>5. \A o : Occurrences(s, o) = Occurrences(Below(1), o) + Occurrences(p, o)
    BY <2>2, <2>3, OccursConcat
  <2>6. g \in Values /\ Succeeds(s, p, g)
    BY <1>2, <1>3
  <2>7. \A o : /\ Occurrences(Fr.stack, o) = Occurrences(Below(1), o) + Occurrences(g, o)
               /\ Occurrences(Below(1), o) \in Nat /\ Occurrences(g, o) \in Nat
    BY <1>1, OneOperand DEF Running
  <2>8. \A o : Occurrences(p, o) \in Nat
    BY <2>2, OccursType
  <2> HIDE DEF p, s, g, t
  <2>9. \A o \in AllObjects : Occurrences(s, o) + Occurrences(g, o) = Occurrences(Fr.stack, o) + Occurrences(p, o)
    BY <2>5, <2>7, <2>8
  <2>10. Len(s) >= Base
    BY <2>2, <2>3, <2>4
  <2> QED
    BY <1>1, <2>2, <2>4, <2>6, <2>9, <2>10, SucceedsSimply
<1>4. CASE Fails(Below(1), <<>>, <<t>>)
  <2>1. Fails(Below(1), <<>>, Upper(1))
    BY <1>2, <1>4
  <2> QED
    BY <1>1, <2>1, PopStep
<1> QED
  BY <1>1, <1>3, <1>4

LEMMA UnpackSpecialHolds ==
  ASSUME Inv, Running, left' = left - 1, do_unpack_special
  PROVE  Inv' /\ Excess' = Excess
<1> DEFINE t == Top(1)
           sq == parts[t]
<1>1. PICK n \in 1 .. MaxItems + 1, star \in 1 .. MaxItems + 1 :
  /\ Has(1) /\ star <= n
  /\ IF Iterable(t) /\ Len(sq) >= n - 1
       THEN \E o \in Objects :
              /\ Create(o, "list", SubSeq(sq, star, Len(sq) - (n - star))) /\ UNCHANGED sig
              /\ Succeeds(Below(1) \o SubSeq(sq, 1, star - 1) \o <<o>>
                            \o SubSeq(sq, Len(sq) - (n - star) + 1, Len(sq)),
                          Append(sq, o), <<t>>)
       ELSE Fails(Below(1), <<>>, <<t>>) /\ UNCHANGED heap
  BY DEF do_unpack_special
<1>2. n \in Nat /\ star \in Nat /\ 1 <= star /\ 1 \in Nat
  BY ConstantsAssumption
<1>3. Upper(1) = <<t>> /\ Upper(1) \in Values
  BY <1>1, OneOperand, Operands DEF Running
<1>4. CASE Iterable(t) /\ Len(sq) >= n - 1
  <2> DEFINE stop == Len(sq) - (n - star)
             g == <<t>>
             u == SubSeq(sq, 1, star - 1)
             v == SubSeq(sq, star, stop)
             w == SubSeq(sq, stop + 1, Len(sq))
  <2>1. PICK o \in Objects : /\ Create(o, "list", v) /\ sig' = sig
                             /\ Succeeds(Below(1) \o u \o <<o>> \o w, Append(sq, o), g)
    BY <1>1, <1>4
  <2>2. t \in Objects
    BY <1>4 DEF Iterable, IsKind
  <2>3. Lives(kind, sq) /\ sq \in Values /\ Len(sq) \in Nat
    BY <2>2, PartsLive
  <2>4. /\ stop \in Nat /\ star - 1 \in Nat /\ star - 1 <= stop /\ stop <= Len(sq) /\ (star - 1) + 1 = star
        /\ stop \in 0 .. Len(sq) /\ star - 1 \in 0 .. Len(sq)
    BY <1>1, <1>2, <1>4, <2>3
  <2>5. u \in Values /\ v \in Values /\ w \in Values
        /\ \A x : /\ Occurrences(SubSeq(sq, 1, stop), x) = Occurrences(u, x) + Occurrences(v, x)
                  /\ Occurrences(sq, x) = Occurrences(SubSeq(sq, 1, stop), x) + Occurrences(w, x)
    <3> HIDE DEF stop, sq
    <3>1. u \in Values
      BY <2>3, <2>4, OccursCut
    <3>2. /\ SubSeq(sq, (star - 1) + 1, stop) \in Values
          /\ \A x : Occurrences(SubSeq(sq, 1, stop), x) =
                      Occurrences(u, x) + Occurrences(SubSeq(sq, (star - 1) + 1, stop), x)
      BY <2>3, <2>4, OccursWithin
    <3>3. v = SubSeq(sq, (star - 1) + 1, stop)
      BY <2>4
    <3>4. w \in Values /\ \A x : Occurrences(sq, x) = Occurrences(SubSeq(sq, 1, stop), x) + Occurrences(w, x)
      BY <2>3, <2>4, OccursCut
    <3> HIDE DEF u, v, w
    <3> QED
      BY <3>1, <3>2, <3>3, <3>4
  <2>6. "list" \in Kinds \ {"free"} /\ PartsFit("list", v) /\ sig' \in [Objects -> Signatures \cup {NoSignature}]
    BY <2>1, SigStays DEF Kinds, PartsFit
  <2> HIDE DEF u, v, w, stop
  <2>7. HeapMoves(<<>>, v) /\ o \in AllObjects /\ Alive(kind', o) /\ Lives(kind', sq)
    BY <2>1, <2>3, <2>5, <2>6, CreateMoves
  <2>8. /\ Lives(kind, Below(1)) /\ Below(1) \in Values /\ Len(Below(1)) >= Base /\ Len(Below(1)) \in Nat /\ Base \in Nat
    BY <1>1, <1>2, Operands, Running_, LenProperties DEF Running, Values
  <2> DEFINE a == Below(1) \o u
             b == a \o <<o>>
             s == b \o w
             taken == Append(sq, o)
  <2>9. a \in Values /\ \A x : Occurrences(a, x) = Occurrences(Below(1), x) + Occurrences(u, x)
    BY <2>5, <2>8, OccursConcat
  <2>10. <<o>> \in Values /\ \A x : Occurrences(<<o>>, x) \in Nat
    BY <2>7, OccursOnce, OccursType
  <2>11. Len(a) = Len(Below(1)) + Len(u) /\ Len(u) \in Nat
    BY <2>5, <2>8, ConcatProperties, LenProperties DEF Values
  <2>12. taken \in Values /\ Lives(kind', taken) /\ \A x : Occurrences(taken, x) = Occurrences(sq, x) + Occurrences(<<o>>, x)
    BY <2>3, <2>7, LivesAppend, OccursAppend
  <2> HIDE DEF a
  <2>13. b \in Values /\ \A x : Occurrences(b, x) = Occurrences(a, x) + Occurrences(<<o>>, x)
    BY <2>9, <2>10, OccursConcat
  <2>14. Len(b) = Len(a) + Len(<<o>>) /\ Len(<<o>>) = 1
    BY <2>9, <2>10, ConcatProperties DEF Values
  <2> HIDE DEF b
  <2>15. s \in Values /\ \A x : Occurrences(s, x) = Occurrences(b, x) + Occurrences(w, x)
    BY <2>5, <2>13, OccursConcat
  <2>16. Len(s) = Len(b) + Len(w) /\ Len(w) \in Nat
    BY <2>5, <2>13, ConcatProperties, LenProperties DEF Values
  <2>17. Len(s) >= Base
    BY <2>8, <2>11, <2>14, <2>16
  <2>18. g \in Values /\ Succeeds(s, taken, g)
    BY <1>3, <2>1 DEF a, b
  <2>19. \A x : /\ Occurrences(Fr.stack, x) = Occurrences(Below(1), x) + Occurrences(g, x)
                /\ Occurrences(Below(1), x) \in Nat /\ Occurrences(g, x) \in Nat
    BY <1>1, OneOperand DEF Running
  <2> HIDE DEF s, g, taken, sq, t
  <2>20. ASSUME NEW x \in AllObjects
         PROVE  Occurrences(s, x) + Occurrences(v, x) + Occurrences(g, x) =
                  Occurrences(Fr.stack, x) + Occurrences(<<>>, x) + Occurrences(taken, x)
    <3>1. /\ Occurrences(u, x) \in Nat /\ Occurrences(v, x) \in Nat /\ Occurrences(w, x) \in Nat
          /\ Occurrences(<<>>, x) = 0
      BY <2>5, OccursType, OccursNowhere
    <3>2. /\ Occurrences(s, x) = Occurrences(b, x) + Occurrences(w, x)
          /\ Occurrences(b, x) = Occurrences(a, x) + Occurrences(<<o>>, x)
          /\ Occurrences(a, x) = Occurrences(Below(1), x) + Occurrences(u, x)
          /\ Occurrences(taken, x) = Occurrences(sq, x) + Occurrences(<<o>>, x)
          /\ Occurrences(<<o>>, x) \in Nat
      BY <2>9, <2>10, <2>12, <2>13, <2>15
    <3>3. Occurrences(sq, x) = Occurrences(u, x) + Occurrences(v, x) + Occurrences(w, x)
      BY <2>5, <3>1
    <3>4. /\ Occurrences(Fr.stack, x) = Occurrences(Below(1), x) + Occurrences(g, x)
          /\ Occurrences(Below(1), x) \in Nat /\ Occurrences(g, x) \in Nat
      BY <2>19
    <3> DEFINE z == Occurrences(<<>>, x)
    <3>5. z = 0
      BY <3>1
    <3> HIDE DEF z
    <3>6. Occurrences(s, x) = Occurrences(Below(1), x) + Occurrences(u, x) + Occurrences(<<o>>, x) + Occurrences(w, x)
      BY ONLY <3>1, <3>2, <3>4
    <3>7. Occurrences(taken, x) = Occurrences(u, x) + Occurrences(v, x) + Occurrences(w, x) + Occurrences(<<o>>, x)
      BY ONLY <3>1, <3>2, <3>3
    <3>8. Occurrences(s, x) + Occurrences(v, x) + Occurrences(g, x) =
            Occurrences(Fr.stack, x) + z + Occurrences(taken, x)
      BY ONLY <3>1, <3>2, <3>4, <3>5, <3>6, <3>7
    <3> QED
      BY <3>8 DEF z
  <2>21. Weighs(s, v, g, <<>>, taken)
    BY <2>20 DEF Weighs
  <2> QED
    BY <2>7, <2>12, <2>15, <2>17, <2>18, <2>21, SucceedsStep
<1>5. CASE ~(Iterable(t) /\ Len(sq) >= n - 1)
  <2>1. Fails(Below(1), <<>>, Upper(1)) /\ UNCHANGED heap
    BY <1>1, <1>3, <1>5
  <2> QED
    BY <1>1, <1>2, <2>1, PopStep
<1> QED
  BY <1>4, <1>5

LEMMA NewObjectHolds ==
  ASSUME Inv, Running, left' = left - 1, NEW n \in Nat, Has(n), NEW o, NEW k \in {"function", "instance"},
         Create(o, k, <<>>), sig' \in [Objects -> Signatures \cup {NoSignature}],
         Succeeds(Append(Below(n), o), <<o>>, Upper(n))
  PROVE  Inv' /\ Excess' = Excess
<1>1. Lives(kind, <<>>) /\ PartsFit(k, <<>>) /\ k \in Kinds \ {"free"} /\ Append(<<>>, o) = <<o>>
  BY LivesNone DEF PartsFit, Kinds
<1>2. Succeeds(Append(Below(n), o), Append(<<>>, o), Upper(n))
  BY <1>1
<1> QED
  BY <1>1, <1>2, CreateAnewStep

LEMMA DefFuncHolds ==
  ASSUME Inv, Running, left' = left - 1, do_deffunc
  PROVE  Inv' /\ Excess' = Excess
<1>1. PICK o \in Objects, s \in Signatures :
        /\ Has(2) /\ Create(o, "function", <<>>) /\ sig' = [sig EXCEPT ![o] = s]
        /\ Succeeds(Append(Below(2), o), <<o>>, Upper(2))
  BY DEF do_deffunc
<1>2. sig' \in [Objects -> Signatures \cup {NoSignature}] /\ 2 \in Nat
  BY <1>1 DEF Inv, HeapOK
<1> QED
  BY <1>1, <1>2, NewObjectHolds

LEMMA CallClassHolds ==
  ASSUME Inv, Running, left' = left - 1, do_call_class
  PROVE  Inv' /\ Excess' = Excess
<1>1. PICK o \in Objects :
        /\ Has(3) /\ Create(o, "instance", <<>>) /\ sig' = sig
        /\ Succeeds(Append(Below(3), o), <<o>>, Upper(3))
  BY DEF do_call_class
<1>2. sig' \in [Objects -> Signatures \cup {NoSignature}] /\ 3 \in Nat
  BY <1>1, SigStays
<1> QED
  BY <1>1, <1>2, NewObjectHolds

LEMMA PartsTwice ==
  ASSUME NEW p \in [Objects -> Values], NEW q \in [Objects -> Values], NEW r \in [Objects -> Values],
         NEW a, NEW b, PartsMove(p, q, a, b), NEW c, NEW d, PartsMove(q, r, c, d)
  PROVE  PartsMove(p, r, a \o c, b \o d)
<1>1. a \in Values /\ b \in Values /\ c \in Values /\ d \in Values
  BY DEF PartsMove
<1>2. a \o c \in Values /\ b \o d \in Values
  BY <1>1, OccursConcat
<1>3. ASSUME NEW o \in AllObjects
      PROVE  PartRefs(r, o) + Occurrences(a \o c, o) = PartRefs(p, o) + Occurrences(b \o d, o)
  <2>1. /\ Occurrences(a \o c, o) = Occurrences(a, o) + Occurrences(c, o)
        /\ Occurrences(b \o d, o) = Occurrences(b, o) + Occurrences(d, o)
    BY <1>1, OccursConcat
  <2>2. /\ PartRefs(q, o) + Occurrences(a, o) = PartRefs(p, o) + Occurrences(b, o)
        /\ PartRefs(r, o) + Occurrences(c, o) = PartRefs(q, o) + Occurrences(d, o)
    BY DEF PartsMove
  <2>3. /\ Occurrences(a, o) \in Nat /\ Occurrences(b, o) \in Nat /\ Occurrences(c, o) \in Nat /\ Occurrences(d, o) \in Nat
        /\ PartRefs(p, o) \in Nat /\ PartRefs(q, o) \in Nat /\ PartRefs(r, o) \in Nat
    BY <1>1, OccursType, PartsType
  <2> QED
    BY ONLY <2>1, <2>2, <2>3
<1> QED
  BY <1>2, <1>3 DEF PartsMove

LEMMA AddClosureHolds ==
  ASSUME Inv, Running, left' = left - 1, do_add_closure
  PROVE  Inv' /\ Excess' = Excess
<1> DEFINE func == Top(1)
           p == parts[func]
           st == Fr.stack
<1>1. /\ Has(1) /\ func \in Objects /\ kind[func] = "function"
      /\ \/ \E c \in Range(Named \o Closures) :
              /\ IsKind(c, {"cell"})
              /\ SetParts(func, Append(p, c)) /\ UNCHANGED <<kind, sig>>
              /\ Succeeds(st, <<c>>, <<>>)
         \/ \E i \in DOMAIN Named, c \in Free :
              /\ kind' = [kind EXCEPT ![c] = "cell"] /\ UNCHANGED sig
              /\ parts' = [parts EXCEPT ![c] = <<Named[i]>>, ![func] = Append(@, c)]
              /\ Succeeds([st EXCEPT ![i] = c], <<c, Named[i], c>>, <<Named[i]>>)
  BY DEF do_add_closure, IsKind
<1>2. p \in Values /\ st \in Values /\ Len(st) >= Base /\ Len(st) \in Nat /\ <<>> \in Values /\ Lives(kind, st)
  BY <1>1, PartsLive, Running_, LivesNone DEF Running
<1> HIDE DEF st
<1>3. ASSUME NEW c \in Range(Named \o Closures),
             SetParts(func, Append(p, c)), kind' = kind, sig' = sig, Succeeds(st, <<c>>, <<>>)
      PROVE  Inv' /\ Excess' = Excess
  <2> DEFINE items == Append(p, c)
             taken == <<c>>
  <2>1. c \in AllObjects /\ Alive(kind, c)
    BY NamedLive
  <2>2. items \in Values /\ taken \in Values /\ Lives(kind', taken)
        /\ \A o : Occurrences(items, o) = Occurrences(p, o) + Occurrences(taken, o)
    BY <1>2, <1>3, <2>1, OccursAppend, LivesOnce
  <2>3. PartsFit(kind[func], items) /\ SetParts(func, items) /\ Succeeds(st, taken, <<>>)
    BY <1>1, <1>3 DEF PartsFit
  <2>4. \A o : /\ Occurrences(st, o) \in Nat /\ Occurrences(p, o) \in Nat /\ Occurrences(taken, o) \in Nat
               /\ Occurrences(<<>>, o) = 0
    BY <1>2, <2>2, OccursType, OccursNowhere
  <2> HIDE DEF items, taken
  <2>5. HeapMoves(p, items)
    BY <1>1, <1>3, <2>2, <2>3, SetMoves
  <2> HIDE DEF func, p
  <2>6. Weighs(st, items, <<>>, p, taken)
    <3> SUFFICES ASSUME NEW o \in AllObjects
                 PROVE  Occurrences(st, o) + Occurrences(items, o) + Occurrences(<<>>, o) =
                          Occurrences(st, o) + Occurrences(p, o) + Occurrences(taken, o)
      BY DEF Weighs, st
    <3> QED
      BY <2>2, <2>4
  <2> QED
    BY <1>2, <2>2, <2>3, <2>5, <2>6, SucceedsStep
<1>4. ASSUME NEW i \in DOMAIN Named, NEW c \in Free,
             kind' = [kind EXCEPT ![c] = "cell"], sig' = sig,
             parts' = [parts EXCEPT ![c] = <<Named[i]>>, ![func] = Append(@, c)],
             Succeeds([st EXCEPT ![i] = c], <<c, Named[i], c>>, <<Named[i]>>)
      PROVE  Inv' /\ Excess' = Excess
  <2> DEFINE x == st[i]
             s == [st EXCEPT ![i] = c]
             taken == <<c, x, c>>
             given == <<x>>
             items == Append(p, c)
             q == [parts EXCEPT ![c] = given]
             r == [q EXCEPT ![func] = items]
  <2>1. i \in 1 .. Len(st) /\ Named[i] = x
    BY NamedLive DEF st
  <2>2. c \in Objects /\ kind[c] = "free" /\ c \in AllObjects /\ c # func
    BY <1>1 DEF Free, AllObjects
  <2>3. x \in AllObjects /\ Alive(kind, x)
    BY <1>2, <2>1, ElementOfSeq DEF Lives, Values
  <2>4. HeapOK(kind, parts, sig) /\ parts \in [Objects -> Values] /\ kind \in [Objects -> Kinds] /\ parts[c] = <<>>
    BY <2>2 DEF Inv, HeapOK, PartsFit
  <2>5. given \in Values /\ Len(given) = 1 /\ items \in Values
    BY <1>2, <2>2, <2>3, OccursAppend, OccursOnce
  <2>6. parts' = r /\ q[func] = p
    BY <1>1, <1>4, <2>1, <2>2, <2>4
  <2> HIDE DEF x, given, items, p
  <2>7. PartsMove(parts, q, <<>>, given) /\ q \in [Objects -> Values]
    <3>1. PartsMove(parts, q, parts[c], given) /\ q \in [Objects -> Values]
      BY <2>2, <2>4, <2>5, PartsChange
    <3> HIDE DEF q
    <3> QED
      BY <2>4, <3>1
  <2> HIDE DEF q
  <2>8. PartsMove(q, r, p, items) /\ r \in [Objects -> Values]
    <3>1. PartsMove(q, r, q[func], items) /\ r \in [Objects -> Values]
      BY <1>1, <2>5, <2>7, PartsChange
    <3> HIDE DEF r
    <3> QED
      BY <2>6, <3>1
  <2>9. HeapOK(kind', parts', sig')
    <3>1. /\ kind' \in [Objects -> Kinds] /\ kind'[c] = "cell" /\ kind'[func] = "function"
          /\ \A o \in Objects \ {c} : kind'[o] = kind[o]
      BY <1>1, <1>4, <2>2, <2>4 DEF Kinds
    <3>2. /\ r[c] = given /\ r[func] = items /\ \A o \in Objects \ {c, func} : r[o] = parts[o]
      BY <1>1, <2>2, <2>4, <2>7 DEF q
    <3>3. PartsFit("cell", given) /\ PartsFit("function", items)
      BY <2>5 DEF PartsFit
    <3> HIDE DEF r
    <3>4. \A o \in Objects : PartsFit(kind'[o], r[o])
      BY <2>4, <3>1, <3>2, <3>3 DEF HeapOK
    <3> QED
      BY <1>4, <2>4, <2>6, <2>8, <3>1, <3>4 DEF HeapOK
  <2> HIDE DEF r
  <2> DEFINE gone == <<>> \o p
             come == given \o items
  <2>10. HeapMoves(gone, come) /\ Lives(kind', taken) /\ taken \in Values
    <3>1. PartsMove(parts, parts', gone, come)
      BY <2>4, <2>6, <2>7, <2>8, PartsTwice
    <3>2. \A o \in Objects : kind[o] # "free" => kind'[o] # "free"
      BY <1>4, <2>2, <2>4
    <3>3. Alive(kind', c) /\ Alive(kind', x)
      BY <1>4, <2>2, <2>3, <2>4 DEF Alive
    <3>4. taken \in Values
      BY <2>2, <2>3, OccursTriple
    <3>5. Lives(kind', taken)
      BY <3>3, <3>4 DEF Lives
    <3> QED
      BY <2>9, <3>1, <3>2, <3>4, <3>5 DEF HeapMoves
  <2>11. /\ s \in Values /\ Len(s) = Len(st)
         /\ \A o : Occurrences(s, o) + Occurrences(given, o) = Occurrences(st, o) + Occurrences(<<c>>, o)
    <3>1. st \in Values /\ i \in 1 .. Len(st) /\ c \in AllObjects
      BY <1>2, <2>1, <2>2
    <3>2. /\ [st EXCEPT ![i] = c] \in Values /\ Len([st EXCEPT ![i] = c]) = Len(st)
          /\ \A o : Occurrences([st EXCEPT ![i] = c], o) + Occurrences(<<st[i]>>, o) =
                     Occurrences(st, o) + Occurrences(<<c>>, o)
      BY ONLY <3>1, LocalReplaced
    <3> QED
      BY ONLY <3>2 DEF s, x, given
  <2>12. Succeeds(s, taken, given)
    BY <1>4, <2>1 DEF x, given
  <2>13. Weighs(s, come, given, gone, taken)
    <3> SUFFICES ASSUME NEW o \in AllObjects
                 PROVE  Occurrences(s, o) + Occurrences(come, o) + Occurrences(given, o) =
                          Occurrences(st, o) + Occurrences(gone, o) + Occurrences(taken, o)
      BY DEF Weighs, st
    <3>1. <<>> \in Values /\ p \in Values /\ given \in Values /\ items \in Values
      BY <1>2, <2>5
    <3>2. Occurrences(come, o) = Occurrences(given, o) + Occurrences(items, o)
      BY ONLY <3>1, OccursConcat DEF come
    <3>3. gone = p
      BY <3>1, ConcatEmptySeq DEF gone, Values
    <3> DEFINE y == Occurrences(<<c>>, o)
    <3>4. Occurrences(taken, o) = y + Occurrences(given, o) + y
      BY <2>2, <2>3, OccursTriple DEF given
    <3>5. Occurrences(items, o) = Occurrences(p, o) + y
      BY <1>2, <2>2, OccursAppend DEF items
    <3>6. y \in Nat
      BY <2>2, OccursOnce, OccursType
    <3>7. Occurrences(s, o) + Occurrences(given, o) = Occurrences(st, o) + y
      BY <2>11
    <3>8. /\ Occurrences(s, o) \in Nat /\ Occurrences(given, o) \in Nat /\ Occurrences(p, o) \in Nat
          /\ Occurrences(st, o) \in Nat
      BY <1>2, <2>5, <2>11, OccursType
    <3> HIDE DEF s, come, gone, taken, y
    <3> QED
      BY ONLY <3>2, <3>3, <3>4, <3>5, <3>6, <3>7, <3>8
  <2> HIDE DEF s, come, gone, taken
  <2> QED
    BY <1>2, <2>5, <2>10, <2>11, <2>12, <2>13, SucceedsStep
<1> QED
  BY <1>1, <1>3, <1>4
------------------------------------------------------------------------------
(* Blocks, exceptions and calls: the running frame becomes another, a frame  *)
(* is added, a frame goes.                                                   *)

LEMMA TopSet ==
  ASSUME NEW fs, FramesOK(fs), fs # <<>>, NEW g \in Frame, FrameOK(g),
         g.func = fs[Len(fs)].func, g.owner = fs[Len(fs)].owner
  PROVE  LET gs == [fs EXCEPT ![Len(fs)] = g] IN
         /\ FramesOK(gs) /\ gs # <<>> /\ Len(gs) = Len(fs) /\ gs[Len(fs)] = g
         /\ FramesMove(fs, gs, fs[Len(fs)].stack \o fs[Len(fs)].held, g.stack \o g.held)
<1> DEFINE n == Len(fs)
           gs == [fs EXCEPT ![n] = g]
<1>1. n \in Nat /\ n \in 1 .. n /\ DOMAIN fs = 1 .. n /\ fs \in Seq(Frame)
  BY FrameParts DEF FramesOK
<1>2. /\ gs \in Seq(Frame) /\ Len(gs) = n /\ \A f \in 1 .. n : gs[f] = IF f = n THEN g ELSE fs[f]
  BY <1>1, ExceptSeq
<1> HIDE DEF gs
<1>3. DOMAIN gs = 1 .. n /\ gs[n] = g /\ \A f \in 1 .. n - 1 : gs[f] = fs[f]
  <2>1. n \in Nat
    BY <1>1
  <2> HIDE DEF n
  <2>2. \A f \in 1 .. n - 1 : f \in 1 .. n /\ f # n
    BY <2>1
  <2> QED
    BY <1>1, <1>2, <2>2, LenProperties
<1>4. FramesOK(gs)
  <2>1. \A f \in 1 .. n : FrameOK(gs[f])
    BY <1>1, <1>2 DEF FramesOK
  <2>2. \A f \in 1 .. n : gs[f].owner = fs[f].owner /\ gs[f].func = fs[f].func
    BY <1>1, <1>2
  <2> QED
    BY <1>1, <1>2, <1>3, <2>1, <2>2 DEF FramesOK
<1>5. gs # <<>>
  BY <1>1, <1>3
<1>6. FramesMove(fs, gs, fs[n].stack \o fs[n].held, gs[n].stack \o gs[n].held)
  BY <1>2, <1>3, <1>4, TopChanges
<1> QED
  BY <1>2, <1>3, <1>4, <1>5, <1>6 DEF gs

LEMMA TopAdded ==
  ASSUME NEW fs, FramesOK(fs), fs # <<>>, NEW h \in Frame, FrameOK(h), h.func \in Objects
  PROVE  /\ FramesOK(Append(fs, h)) /\ Len(Append(fs, h)) = Len(fs) + 1
         /\ Append(fs, h)[Len(fs) + 1] = h /\ Append(fs, h) # <<>>
         /\ FramesMove(fs, Append(fs, h), <<>>, (h.stack \o h.held) \o Owners(h))
<1> DEFINE n == Len(fs)
           gs == Append(fs, h)
<1>1. n \in Nat /\ n >= 1 /\ DOMAIN fs = 1 .. n /\ fs \in Seq(Frame)
  BY FrameParts DEF FramesOK
<1>2. /\ gs \in Seq(Frame) /\ Len(gs) = n + 1 /\ gs[n + 1] = h
      /\ \A f \in 1 .. n : gs[f] = fs[f]
  BY <1>1, AppendProperties
<1> HIDE DEF gs
<1>3. DOMAIN gs = 1 .. n + 1 /\ n + 1 > 1 /\ \A f \in 1 .. n + 1 : f = n + 1 \/ f \in 1 .. n
  BY <1>1, <1>2, LenProperties
<1>4. FramesOK(gs)
  <2>1. \A f \in 1 .. n + 1 : FrameOK(gs[f])
    BY <1>1, <1>2, <1>3 DEF FramesOK
  <2>2. \A f \in 1 .. n + 1 : IF f = 1 THEN gs[f].owner \in Fixed ELSE gs[f].func \in Objects
    BY <1>1, <1>2, <1>3 DEF FramesOK
  <2> QED
    BY <1>2, <1>3, <2>1, <2>2 DEF FramesOK
<1>5. SubSeq(gs, 1, n) = fs
  <2>1. gs = fs \o <<h>>
    BY <1>1, AppendIsConcat DEF gs
  <2>2. gs \in Seq(Frame) /\ \A i \in 1 .. n : gs[i] \in Frame /\ 1 + i - 1 = i
    BY <1>2, <1>1
  <2>3. /\ SubSeq(gs, 1, n) \in Seq(Frame) /\ Len(SubSeq(gs, 1, n)) = n
        /\ \A i \in 1 .. n : SubSeq(gs, 1, n)[i] = gs[i]
    <3>1. 1 \in 1 .. Len(gs) + 1 /\ n \in 1 - 1 .. Len(gs) /\ n - 1 + 1 = n
      BY <1>1, <1>2
    <3>2. /\ SubSeq(gs, 1, n) \in Seq(Frame) /\ Len(SubSeq(gs, 1, n)) = IF 1 <= n THEN n - 1 + 1 ELSE 0
          /\ \A i \in 1 .. n - 1 + 1 : SubSeq(gs, 1, n)[i] = gs[1 + i - 1]
      BY <2>2, <3>1, SubSeqProperties
    <3> QED
      BY <1>1, <2>2, <3>1, <3>2
  <2> QED
    BY <1>1, <1>2, <2>3, SeqEqual
<1>6. FramesMove(gs, fs, (h.stack \o h.held) \o Owners(h), <<>>)
  <2>1. Len(gs) > 1 /\ Len(gs) - 1 = n /\ gs[Len(gs)] = h
    <3>1. n + 1 - 1 = n /\ n + 1 > 1
      BY <1>1
    <3> QED
      BY <1>2, <3>1
  <2>2. FramesMove(gs, SubSeq(gs, 1, Len(gs) - 1), (gs[Len(gs)].stack \o gs[Len(gs)].held) \o Owners(gs[Len(gs)]), <<>>)
    BY <1>4, <2>1, TopGoes
  <2> HIDE DEF n
  <2> QED
    BY <1>5, <2>1, <2>2
<1>7. FramesMove(fs, gs, <<>>, (h.stack \o h.held) \o Owners(h))
  BY <1>6 DEF FramesMove
<1>8. gs # <<>>
  BY <1>3
<1> QED
  BY <1>2, <1>4, <1>7, <1>8 DEF gs

LEMMA FramesTwice ==
  ASSUME NEW f, FramesOK(f), NEW g, FramesOK(g), NEW h, FramesOK(h),
         NEW a, NEW b, FramesMove(f, g, a, b), NEW c, NEW d, FramesMove(g, h, c, d)
  PROVE  FramesMove(f, h, a \o c, b \o d)
<1>1. a \in Values /\ b \in Values /\ c \in Values /\ d \in Values
  BY DEF FramesMove
<1>2. a \o c \in Values /\ b \o d \in Values
  BY <1>1, OccursConcat
<1>3. ASSUME NEW o \in AllObjects
      PROVE  FrameRefs(h, o) + Occurrences(a \o c, o) = FrameRefs(f, o) + Occurrences(b \o d, o)
  <2>1. /\ Occurrences(a \o c, o) = Occurrences(a, o) + Occurrences(c, o)
        /\ Occurrences(b \o d, o) = Occurrences(b, o) + Occurrences(d, o)
    BY <1>1, OccursConcat
  <2>2. /\ FrameRefs(g, o) + Occurrences(a, o) = FrameRefs(f, o) + Occurrences(b, o)
        /\ FrameRefs(h, o) + Occurrences(c, o) = FrameRefs(g, o) + Occurrences(d, o)
    BY DEF FramesMove
  <2>3. /\ Occurrences(a, o) \in Nat /\ Occurrences(b, o) \in Nat /\ Occurrences(c, o) \in Nat /\ Occurrences(d, o) \in Nat
        /\ FrameRefs(f, o) \in Nat /\ FrameRefs(g, o) \in Nat /\ FrameRefs(h, o) \in Nat
    BY <1>1, OccursType, FrameRefsType
  <2> QED
    BY ONLY <2>1, <2>2, <2>3
<1> QED
  BY <1>2, <1>3 DEF FramesMove

LEMMA BlocksCut ==
  ASSUME NEW bs \in Seq(Block), NEW low \in Nat, NEW high \in Nat, BlocksStand(bs, low, high),
         NEW b \in 1 .. Len(bs), NEW top \in Nat, bs[b].level <= top
  PROVE  SubSeq(bs, 1, b - 1) \in Seq(Block) /\ BlocksStand(SubSeq(bs, 1, b - 1), low, top)
<1> DEFINE cs == SubSeq(bs, 1, b - 1)
<1>1. /\ DOMAIN bs = 1 .. Len(bs) /\ Len(bs) \in Nat /\ Len(bs) <= 2
      /\ \A c \in 1 .. Len(bs) : bs[c] \in Block /\ bs[c].level \in Nat
  <2>1. DOMAIN bs = 1 .. Len(bs) /\ Len(bs) \in Nat /\ \A c \in 1 .. Len(bs) : bs[c] \in Block
    BY LenProperties, ElementOfSeq
  <2>2. \A c \in Block : c.level \in Nat
    BY DEF Block
  <2> QED
    BY <2>1, <2>2 DEF BlocksStand
<1>2. cs \in Seq(Block) /\ Len(cs) = b - 1 /\ \A c \in 1 .. b - 1 : cs[c] = bs[c]
  <2>1. /\ 1 \in 1 .. Len(bs) + 1 /\ b - 1 \in 1 - 1 .. Len(bs) /\ b - 1 - 1 + 1 = b - 1
        /\ \A c \in 1 .. b - 1 : 1 + c - 1 = c /\ bs[c] \in Block
    BY <1>1
  <2>2. /\ cs \in Seq(Block) /\ Len(cs) = IF 1 <= b - 1 THEN b - 1 - 1 + 1 ELSE 0
        /\ \A c \in 1 .. b - 1 - 1 + 1 : cs[c] = bs[1 + c - 1]
    BY <2>1, SubSeqProperties
  <2> QED
    BY <1>1, <2>1, <2>2
<1> HIDE DEF cs
<1>3. DOMAIN cs = 1 .. b - 1 /\ \A c \in 1 .. b - 1 : c \in 1 .. Len(bs) /\ c <= b
  BY <1>1, <1>2, LenProperties
<1>4. \A c \in 1 .. b - 1 : low <= bs[c].level /\ bs[c].level <= bs[b].level
  BY <1>1, <1>3 DEF BlocksStand
<1>5. \A c \in 1 .. b - 1 : low <= bs[c].level /\ bs[c].level <= top
  BY <1>1, <1>3, <1>4
<1>6. \A c, e \in 1 .. b - 1 : c <= e => bs[c].level <= bs[e].level
  BY <1>1, <1>3 DEF BlocksStand
<1>7. Len(cs) <= 2
  BY <1>1, <1>2
<1>8. BlocksStand(cs, low, top)
  BY <1>2, <1>3, <1>5, <1>6, <1>7 DEF BlocksStand
<1> QED
  BY <1>2, <1>8 DEF cs

(* Only the running frame changes. *)
LEMMA FrameStep ==
  ASSUME Inv, frames # <<>>, UNCHANGED heap, left' \in Nat,
         NEW g \in Frame, FrameOK(g), g.func = Fr.func, g.owner = Fr.owner,
         frames' = [frames EXCEPT ![Len(frames)] = g],
         NEW taken \in Values, NEW given \in Values, Account(taken, given), Lives(kind, taken),
         CallsOK(frames', globals', exception', phase'),
         \A o \in AllObjects :
           Occurrences(g.stack, o) + Occurrences(g.held, o) + Occurrences(globals' \o exception', o)
           + Occurrences(given, o) =
             Occurrences(Fr.stack, o) + Occurrences(Fr.held, o) + Occurrences(globals \o exception, o)
             + Occurrences(taken, o)
  PROVE  Inv' /\ Excess' = Excess
<1> DEFINE a == Fr.stack \o Fr.held
           b == g.stack \o g.held
           X == globals \o exception
           Y == globals' \o exception'
<1>1. /\ FramesOK(frames') /\ FramesMove(frames, frames', a, b)
  <2>1. FramesOK(frames) /\ g.func = frames[Len(frames)].func /\ g.owner = frames[Len(frames)].owner
    BY DEF Inv, Fr
  <2> QED
    BY <2>1, TopSet DEF Fr
<1>2. /\ HeapOK(kind', parts', sig') /\ PartsMove(parts, parts', <<>>, <<>>) /\ kind' = kind
      /\ \A o \in Objects : kind[o] # "free" => kind'[o] # "free"
  BY HeapStays DEF HeapMoves
<1>3. <<>> \in Values
  BY LivesNone
<1>4. /\ Fr.stack \in Values /\ Fr.held \in Values /\ g.stack \in Values /\ g.held \in Values
      /\ X \in Values /\ Y \in Values
  BY Running_, OccursConcat DEF Frame, Inv, CallsOK
<1>5. ASSUME NEW o \in AllObjects
      PROVE  Occurrences(b, o) + Occurrences(<<>>, o) + Occurrences(Y, o)
             + Occurrences(given, o) + Occurrences(<<>>, o) =
               Occurrences(a, o) + Occurrences(<<>>, o) + Occurrences(X, o) + Occurrences(taken, o)
  <2>1. /\ Occurrences(a, o) = Occurrences(Fr.stack, o) + Occurrences(Fr.held, o)
        /\ Occurrences(b, o) = Occurrences(g.stack, o) + Occurrences(g.held, o)
    BY <1>4, OccursConcat
  <2>2. /\ Occurrences(Fr.stack, o) \in Nat /\ Occurrences(Fr.held, o) \in Nat /\ Occurrences(X, o) \in Nat
        /\ Occurrences(g.stack, o) \in Nat /\ Occurrences(g.held, o) \in Nat /\ Occurrences(Y, o) \in Nat
        /\ Occurrences(given, o) \in Nat /\ Occurrences(taken, o) \in Nat
    BY <1>4, OccursType
  <2>3. Occurrences(g.stack, o) + Occurrences(g.held, o) + Occurrences(Y, o) + Occurrences(given, o) =
          Occurrences(Fr.stack, o) + Occurrences(Fr.held, o) + Occurrences(X, o) + Occurrences(taken, o)
    OBVIOUS
  <2> DEFINE z == Occurrences(<<>>, o)
  <2>4. z = 0
    BY OccursNowhere
  <2> HIDE DEF a, b, X, Y, z
  <2>5. Occurrences(b, o) + z + Occurrences(Y, o) + Occurrences(given, o) + z =
          Occurrences(a, o) + z + Occurrences(X, o) + Occurrences(taken, o)
    BY ONLY <2>1, <2>2, <2>3, <2>4
  <2> QED
    BY <2>5 DEF z
<1>6. Lives(kind', taken)
  BY <1>2
<1> DEFINE none == <<>>
<1>7. none \in Values /\ none = <<>> /\ PartsMove(parts, parts', none, none)
  BY <1>2, <1>3
<1>8. \A o \in AllObjects :
        Occurrences(b, o) + Occurrences(none, o) + Occurrences(globals' \o exception', o)
        + Occurrences(given, o) + Occurrences(none, o) =
          Occurrences(a, o) + Occurrences(none, o) + Occurrences(globals \o exception, o)
          + Occurrences(taken, o)
  BY <1>5
<1> HIDE DEF a, b, none
<1>9. /\ Inv /\ taken \in Values /\ given \in Values /\ Account(taken, given) /\ left' \in Nat
      /\ CallsOK(frames', globals', exception', phase')
  OBVIOUS
<1>10. /\ HeapOK(kind', parts', sig') /\ \A o \in Objects : kind[o] # "free" => kind'[o] # "free"
  BY <1>2
<1>11. Inv' /\ (none = <<>> => Excess' = Excess)
  BY ONLY <1>1, <1>6, <1>7, <1>8, <1>9, <1>10, WeighedStep
<1> QED
  BY <1>7, <1>11

LEMMA PushBlockHolds ==
  ASSUME Inv, Running, left' = left - 1, do_push_block
  PROVE  Inv' /\ Excess' = Excess
<1>1. PICK t \in {"try", "loop"} :
        /\ Len(Fr.blocks) < 2
        /\ frames' = [frames EXCEPT
             ![Len(frames)].blocks = Append(@, [type |-> t, level |-> Len(Fr.stack)])]
  BY DEF do_push_block
<1>2. /\ frames # <<>> /\ left' \in Nat /\ UNCHANGED heap /\ count' = count
      /\ globals' = globals /\ exception' = exception /\ phase' = phase
  BY DEF Running, Inv, do_push_block, Quiet, heap
<1> DEFINE new == [type |-> t, level |-> Len(Fr.stack)]
           bs == Append(Fr.blocks, new)
           g == [Fr EXCEPT !.blocks = bs]
<1>3. /\ Fr \in Frame /\ FrameOK(Fr) /\ Fr.blocks \in Seq(Block) /\ Len(Fr.stack) \in Nat
      /\ Fr.n_locals \in Nat /\ Fr.n_locals <= Len(Fr.stack) /\ Len(frames) \in 1 .. Len(frames)
      /\ BlocksStand(Fr.blocks, Fr.n_locals, Len(Fr.stack))
      /\ Fr.stack \in Values /\ Fr.held \in Values
  BY <1>2, Running_ DEF FrameOK
<1>4. new \in Block /\ new.level = Len(Fr.stack)
  BY <1>3 DEF Block
<1>5. frames' = [frames EXCEPT ![Len(frames)] = g]
  BY <1>1, <1>3 DEF Fr
<1> HIDE DEF new
<1>6. bs \in Seq(Block) /\ BlocksStand(bs, Fr.n_locals, Len(Fr.stack))
  <2> DEFINE n == Len(Fr.blocks)
             cs == Fr.blocks
             low == Fr.n_locals
             high == Len(Fr.stack)
  <2>1. n \in Nat /\ DOMAIN cs = 1 .. n /\ \A i \in 1 .. n : cs[i] \in Block
    BY <1>3, LenProperties, ElementOfSeq
  <2>2. \A c \in Block : c.level \in Nat
    BY DEF Block
  <2>3. /\ bs \in Seq(Block) /\ Len(bs) = n + 1 /\ bs[n + 1] = new
        /\ \A i \in 1 .. n : bs[i] = cs[i]
    BY <1>3, <1>4, AppendProperties
  <2>4. n <= 1 /\ low \in Nat /\ high \in Nat /\ low <= high
    BY <1>1, <1>3, <2>1
  <2>5. /\ \A i \in 1 .. n : low <= cs[i].level /\ cs[i].level <= high
        /\ \A i, j \in 1 .. n : i <= j => cs[i].level <= cs[j].level
    BY <1>3, <2>1 DEF BlocksStand
  <2>6. DOMAIN bs = 1 .. n + 1
    BY <2>3, <2>1, LenProperties
  <2> HIDE DEF n, cs, low, bs
  <2>7. new.level = high
    BY <1>4
  <2> HIDE DEF high
  <2>8. \A i \in 1 .. n + 1 : bs[i].level \in Nat /\ low <= bs[i].level /\ bs[i].level <= high
    <3> SUFFICES ASSUME NEW i \in 1 .. n + 1
                 PROVE  bs[i].level \in Nat /\ low <= bs[i].level /\ bs[i].level <= high
      OBVIOUS
    <3>1. CASE i = n + 1
      BY <2>3, <2>4, <2>7, <3>1
    <3>2. CASE i # n + 1
      <4>1. i \in 1 .. n
        BY <2>1, <3>2
      <4> QED
        BY <2>1, <2>2, <2>3, <2>5, <4>1
    <3> QED
      BY <3>1, <3>2
  <2>9. \A i, j \in 1 .. n + 1 : i <= j => bs[i].level <= bs[j].level
    <3> SUFFICES ASSUME NEW i \in 1 .. n + 1, NEW j \in 1 .. n + 1, i <= j
                 PROVE  bs[i].level <= bs[j].level
      OBVIOUS
    <3>1. CASE j = n + 1
      BY <2>3, <2>7, <2>8, <3>1
    <3>2. CASE j # n + 1
      <4>1. i \in 1 .. n /\ j \in 1 .. n
        BY <2>1, <3>2
      <4> QED
        BY <2>3, <2>5, <4>1
    <3> QED
      BY <3>1, <3>2
  <2>10. Len(bs) <= 2
    BY <2>1, <2>3, <2>4
  <2>11. BlocksStand(bs, low, high)
    BY <2>6, <2>8, <2>9, <2>10 DEF BlocksStand
  <2> QED
    BY <2>3, <2>11 DEF low, high
<1> HIDE DEF bs
<1>7. /\ g \in Frame /\ g.func = Fr.func /\ g.owner = Fr.owner /\ g.stack = Fr.stack /\ g.held = Fr.held
      /\ g.blocks = bs /\ g.n_locals = Fr.n_locals
  BY <1>3, <1>6 DEF Frame
<1> HIDE DEF g
<1>8. FrameOK(g)
  BY <1>3, <1>6, <1>7 DEF FrameOK
<1>9. CallsOK(frames', globals', exception', phase')
  <2>1. FramesOK(frames) /\ CallsOK(frames, globals, exception, phase) /\ frames[Len(frames)].held = g.held
        /\ g.func = frames[Len(frames)].func /\ g.owner = frames[Len(frames)].owner
    BY <1>7 DEF Inv, Fr
  <2>2. frames' # <<>> /\ Len(frames') = Len(frames) /\ frames'[Len(frames)] = g
    BY <1>2, <1>5, <1>7, <1>8, <2>1, TopSet
  <2> QED
    BY <1>2, <2>1, <2>2 DEF CallsOK
<1>10. Lives(kind, <<>>) /\ <<>> \in Values
  BY LivesNone
<1>11. Account(<<>>, <<>>)
  <2>1. \A o \in AllObjects : count[o] \in Int /\ Occurrences(<<>>, o) = 0
    BY OccursNowhere DEF Inv, Counted
  <2>2. count = [o \in AllObjects |-> count[o]]
    BY DEF Inv, Counted
  <2>3. \A o \in AllObjects : count[o] = count[o] + Occurrences(<<>>, o) - Occurrences(<<>>, o)
    BY <2>1
  <2> QED
    BY <1>2, <2>2, <2>3 DEF Account
<1>12. \A o \in AllObjects :
         Occurrences(g.stack, o) + Occurrences(g.held, o) + Occurrences(globals' \o exception', o)
         + Occurrences(<<>>, o) =
           Occurrences(Fr.stack, o) + Occurrences(Fr.held, o) + Occurrences(globals \o exception, o)
           + Occurrences(<<>>, o)
  BY <1>2, <1>7
<1> QED
  BY <1>2, <1>5, <1>7, <1>8, <1>9, <1>10, <1>11, <1>12, FrameStep

LEMMA TopIs ==
  ASSUME Inv, frames # <<>>, NEW g \in Frame, FrameOK(g), g.func = Fr.func, g.owner = Fr.owner,
         frames' = [frames EXCEPT ![Len(frames)] = g]
  PROVE  frames' # <<>> /\ Len(frames') = Len(frames) /\ frames'[Len(frames')] = g
<1>1. FramesOK(frames) /\ g.func = frames[Len(frames)].func /\ g.owner = frames[Len(frames)].owner
  BY DEF Inv, Fr
<1> QED
  BY <1>1, TopSet

(* A block is left: the stack is cut at its level. *)
LEMMA BlockLevel ==
  ASSUME Inv, frames # <<>>, NEW b \in DOMAIN Fr.blocks
  PROVE  LET level == Fr.blocks[b].level
             low   == SubSeq(Fr.stack, 1, level)
             cut   == SubSeq(Fr.stack, level + 1, Len(Fr.stack))
         IN  /\ level \in Nat /\ low \in Values /\ Len(low) = level /\ cut \in Values
             /\ \A o : /\ Occurrences(Fr.stack, o) = Occurrences(low, o) + Occurrences(cut, o)
                       /\ Occurrences(low, o) \in Nat /\ Occurrences(cut, o) \in Nat
<1> DEFINE level == Fr.blocks[b].level
           low == SubSeq(Fr.stack, 1, level)
           cut == SubSeq(Fr.stack, level + 1, Len(Fr.stack))
<1>1. /\ Fr.blocks \in Seq(Block) /\ level <= Base /\ Base <= Len(Fr.stack) /\ Base \in Nat
      /\ Fr.stack \in Values /\ Len(Fr.stack) \in Nat
  BY Running_
<1>2. level \in Nat
  <2>1. Fr.blocks[b] \in Block
    BY <1>1
  <2> QED
    BY <2>1 DEF Block
<1> HIDE DEF level
<1>3. level \in 0 .. Len(Fr.stack)
  BY <1>1, <1>2
<1>4. /\ low \in Values /\ Len(low) = level /\ cut \in Values
      /\ \A o : Occurrences(Fr.stack, o) = Occurrences(low, o) + Occurrences(cut, o)
  BY <1>1, <1>3, OccursCut
<1> HIDE DEF low, cut
<1>5. \A o : Occurrences(low, o) \in Nat /\ Occurrences(cut, o) \in Nat
  BY <1>4, OccursType
<1> QED
  BY <1>2, <1>4, <1>5 DEF level, low, cut

LEMMA BlockLeft ==
  ASSUME Inv, frames # <<>>, NEW b \in DOMAIN Fr.blocks, NEW s \in Values, Len(s) >= Fr.blocks[b].level
  PROVE  LET g == [Fr EXCEPT !.blocks = SubSeq(Fr.blocks, 1, b - 1), !.stack = s] IN
         /\ g \in Frame /\ FrameOK(g) /\ g.func = Fr.func /\ g.owner = Fr.owner /\ g.held = Fr.held
         /\ g.stack = s
<1> DEFINE bs == SubSeq(Fr.blocks, 1, b - 1)
           g == [Fr EXCEPT !.blocks = bs, !.stack = s]
           level == Fr.blocks[b].level
<1>1. /\ Fr \in Frame /\ FrameOK(Fr) /\ Fr.blocks \in Seq(Block) /\ Fr.n_locals \in Nat
      /\ Len(Fr.stack) \in Nat /\ BlocksStand(Fr.blocks, Fr.n_locals, Len(Fr.stack))
  BY Running_ DEF FrameOK
<1>2. level \in Nat /\ b \in 1 .. Len(Fr.blocks) /\ Len(s) \in Nat /\ Fr.n_locals <= level
  <2>1. Fr.blocks[b] \in Block /\ Fr.n_locals <= level
    BY <1>1 DEF BlocksStand
  <2> QED
    BY <1>1, <2>1, LenProperties DEF Block, Values
<1>3. bs \in Seq(Block) /\ BlocksStand(bs, Fr.n_locals, Len(s))
  BY <1>1, <1>2, BlocksCut
<1>4. Fr.n_locals <= Len(s)
  <2> HIDE DEF level
  <2>1. level <= Len(s)
    BY <1>2 DEF level
  <2> QED
    BY <1>1, <1>2, <2>1
<1> HIDE DEF bs
<1>5. /\ g \in Frame /\ g.func = Fr.func /\ g.owner = Fr.owner /\ g.held = Fr.held /\ g.stack = s
      /\ g.blocks = bs /\ g.n_locals = Fr.n_locals
  BY <1>1, <1>3 DEF Frame
<1> HIDE DEF g
<1>6. FrameOK(g)
  BY <1>3, <1>4, <1>5 DEF FrameOK
<1> QED
  BY <1>5, <1>6 DEF g, bs

LEMMA LeaveBlockHolds ==
  ASSUME Inv, Running, left' = left - 1, NEW b \in DOMAIN Fr.blocks, LeaveBlock(b)
  PROVE  Inv' /\ Excess' = Excess
<1> DEFINE level == Fr.blocks[b].level
           low == SubSeq(Fr.stack, 1, level)
           cut == SubSeq(Fr.stack, level + 1, Len(Fr.stack))
           g == [Fr EXCEPT !.blocks = SubSeq(Fr.blocks, 1, b - 1), !.stack = low]
<1>1. /\ frames # <<>> /\ left' \in Nat /\ UNCHANGED heap /\ Account(<<>>, cut)
      /\ globals' = globals /\ exception' = exception /\ phase' = phase
  BY DEF Running, Inv, LeaveBlock, Quiet, heap
<1>2. /\ level \in Nat /\ low \in Values /\ Len(low) = level /\ cut \in Values
      /\ \A o : /\ Occurrences(Fr.stack, o) = Occurrences(low, o) + Occurrences(cut, o)
                /\ Occurrences(low, o) \in Nat /\ Occurrences(cut, o) \in Nat
  BY <1>1, BlockLevel
<1>3. Len(frames) \in 1 .. Len(frames) /\ Fr \in Frame /\ DOMAIN frames = 1 .. Len(frames)
  BY <1>1, Running_, FrameParts DEF Inv
<1>4. frames' = [frames EXCEPT ![Len(frames)] = g]
  BY <1>3 DEF LeaveBlock, Fr
<1> HIDE DEF low, cut
<1>5. g \in Frame /\ FrameOK(g) /\ g.func = Fr.func /\ g.owner = Fr.owner /\ g.held = Fr.held /\ g.stack = low
  <2> HIDE DEF level
  <2>1. Len(low) >= level
    BY <1>2
  <2> QED
    BY <1>1, <1>2, <2>1, BlockLeft DEF level
<1> HIDE DEF g
<1>6. CallsOK(frames', globals', exception', phase')
  <2>1. CallsOK(frames, globals, exception, phase) /\ frames[Len(frames)].held = g.held
    BY <1>5 DEF Inv, Fr
  <2>2. frames' # <<>> /\ Len(frames') = Len(frames) /\ frames'[Len(frames')] = g
    BY <1>1, <1>4, <1>5, TopIs
  <2> QED
    BY <1>1, <2>1, <2>2 DEF CallsOK
<1>7. Lives(kind, <<>>) /\ <<>> \in Values
  BY LivesNone
<1>8. ASSUME NEW o \in AllObjects
      PROVE  Occurrences(g.stack, o) + Occurrences(g.held, o) + Occurrences(globals' \o exception', o)
             + Occurrences(cut, o) =
               Occurrences(Fr.stack, o) + Occurrences(Fr.held, o) + Occurrences(globals \o exception, o)
               + Occurrences(<<>>, o)
  <2> DEFINE x == Occurrences(globals \o exception, o)
             y == Occurrences(globals' \o exception', o)
             z == Occurrences(<<>>, o)
             h == Occurrences(Fr.held, o)
             k == Occurrences(g.held, o)
  <2>1. y = x /\ z = 0 /\ k = h
    BY <1>1, <1>5, OccursNowhere
  <2>2. x \in Nat /\ h \in Nat
    BY <1>1, Running_, OccursConcat, OccursType DEF Inv, CallsOK
  <2>3. /\ Occurrences(Fr.stack, o) = Occurrences(low, o) + Occurrences(cut, o)
        /\ Occurrences(low, o) \in Nat /\ Occurrences(cut, o) \in Nat
        /\ Occurrences(g.stack, o) = Occurrences(low, o)
    BY <1>2, <1>5
  <2> HIDE DEF x, y, z, h, k
  <2>4. Occurrences(g.stack, o) + k + y + Occurrences(cut, o) = Occurrences(Fr.stack, o) + h + x + z
    BY ONLY <2>1, <2>2, <2>3
  <2> QED
    BY <2>4 DEF x, y, z, h, k
<1>9. Inv /\ frames # <<>> /\ UNCHANGED heap /\ left' \in Nat
  BY <1>1
<1> QED
  BY ONLY <1>1, <1>2, <1>4, <1>5, <1>6, <1>7, <1>8, <1>9, FrameStep

LEMMA PopBlockHolds ==
  ASSUME Inv, Running, left' = left - 1, do_pop_block
  PROVE  Inv' /\ Excess' = Excess
<1>1. Fr.blocks \in Seq(Block) /\ Fr.blocks # <<>> /\ LeaveBlock(Len(Fr.blocks))
  BY Running_ DEF Running, do_pop_block
<1>2. Len(Fr.blocks) \in DOMAIN Fr.blocks
  BY <1>1, LenProperties, EmptySeq
<1> QED
  BY <1>1, <1>2, LeaveBlockHolds

LEMMA BreakHolds ==
  ASSUME Inv, Running, left' = left - 1, do_break
  PROVE  Inv' /\ Excess' = Excess
<1>1. PICK b \in DOMAIN Fr.blocks : LeaveBlock(b)
  BY DEF do_break
<1> QED
  BY <1>1, LeaveBlockHolds

(* Only frames and what the VM holds change. *)
LEMMA FramesStep ==
  ASSUME Inv, UNCHANGED heap, left' \in Nat,
         NEW taken \in Values, NEW given \in Values, Account(taken, given), Lives(kind, taken),
         FramesOK(frames'), CallsOK(frames', globals', exception', phase'),
         NEW a, NEW b, FramesMove(frames, frames', a, b),
         \A o \in AllObjects :
           Occurrences(b, o) + Occurrences(globals' \o exception', o) + Occurrences(given, o) =
             Occurrences(a, o) + Occurrences(globals \o exception, o) + Occurrences(taken, o)
  PROVE  Inv' /\ Excess' = Excess
<1> DEFINE none == <<>>
<1>1. none \in Values /\ none = <<>> /\ \A o : Occurrences(none, o) = 0
  BY LivesNone, OccursNowhere
<1>2. /\ HeapOK(kind', parts', sig') /\ PartsMove(parts, parts', none, none) /\ kind' = kind
      /\ \A o \in Objects : kind[o] # "free" => kind'[o] # "free"
  BY HeapStays DEF HeapMoves
<1>3. Lives(kind', taken)
  BY <1>2
<1> HIDE DEF none
<1>4. ASSUME NEW o \in AllObjects
      PROVE  Occurrences(b, o) + Occurrences(none, o) + Occurrences(globals' \o exception', o)
             + Occurrences(given, o) + Occurrences(none, o) =
               Occurrences(a, o) + Occurrences(none, o) + Occurrences(globals \o exception, o)
               + Occurrences(taken, o)
  <2> DEFINE x == Occurrences(globals \o exception, o)
             y == Occurrences(globals' \o exception', o)
  <2>1. x \in Nat /\ y \in Nat
    BY OccursConcat, OccursType DEF Inv, CallsOK
  <2>2. Occurrences(a, o) \in Nat /\ Occurrences(b, o) \in Nat /\ Occurrences(given, o) \in Nat /\ Occurrences(taken, o) \in Nat
    BY OccursType DEF FramesMove
  <2>3. Occurrences(b, o) + y + Occurrences(given, o) = Occurrences(a, o) + x + Occurrences(taken, o)
    OBVIOUS
  <2>4. Occurrences(none, o) = 0
    BY <1>1
  <2> HIDE DEF x, y
  <2>5. Occurrences(b, o) + Occurrences(none, o) + y + Occurrences(given, o) + Occurrences(none, o) =
          Occurrences(a, o) + Occurrences(none, o) + x + Occurrences(taken, o)
    BY ONLY <2>1, <2>2, <2>3, <2>4
  <2> QED
    BY <2>5 DEF x, y
<1>5. /\ Inv /\ taken \in Values /\ given \in Values /\ Account(taken, given) /\ left' \in Nat
      /\ FramesOK(frames') /\ CallsOK(frames', globals', exception', phase')
      /\ FramesMove(frames, frames', a, b)
  OBVIOUS
<1>6. /\ HeapOK(kind', parts', sig') /\ \A o \in Objects : kind[o] # "free" => kind'[o] # "free"
      /\ PartsMove(parts, parts', none, none) /\ none \in Values
  BY <1>1, <1>2
<1>7. Inv' /\ (none = <<>> => Excess' = Excess)
  BY ONLY <1>3, <1>4, <1>5, <1>6, WeighedStep
<1> QED
  BY <1>1, <1>7

LEMMA ThrowHolds ==
  ASSUME Inv, Running, left' = left - 1, do_throw
  PROVE  Inv' /\ Excess' = Excess
<1> DEFINE exc == Top(1)
           one == <<exc>>
<1>1. /\ Has(1) /\ frames # <<>> /\ left' \in Nat /\ 1 \in Nat /\ UNCHANGED heap /\ phase = "run"
  BY DEF do_throw, Running, Inv
<1>2. /\ exc \in AllObjects /\ Alive(kind, exc) /\ one \in Values /\ Len(one) = 1 /\ Lives(kind, one)
      /\ Below(1) \in Values /\ Len(Below(1)) >= Base /\ Upper(1) = one
  BY <1>1, OneOperand, Operands, LivesOnce
<1>3. CASE /\ SetStack(Below(1)) /\ Account(one, one)
           /\ exception' = one /\ phase' = "failed" /\ UNCHANGED globals
  <2>1. /\ FramesOK(frames') /\ FramesMove(frames, frames', Fr.stack, Below(1))
        /\ Len(frames') = Len(frames) /\ frames' # <<>> /\ frames'[Len(frames)].held = Fr.held
    BY <1>1, <1>2, <1>3, StackSet
  <2>2. CallsOK(frames', globals', exception', phase')
    BY <1>1, <1>2, <1>3, <2>1 DEF Inv, CallsOK, Fr
  <2>3. ASSUME NEW o \in AllObjects
        PROVE  Occurrences(Below(1), o) + Occurrences(globals' \o exception', o) + Occurrences(one, o) =
                 Occurrences(Fr.stack, o) + Occurrences(globals \o exception, o) + Occurrences(one, o)
    <3> DEFINE x == Occurrences(globals \o exception, o)
               y == Occurrences(globals' \o exception', o)
               u == Occurrences(one, o)
    <3>1. globals \in Values /\ exception = <<>>
      BY <1>1 DEF Inv, CallsOK
    <3>2. globals \o exception = globals
      BY <3>1, ConcatEmptySeq DEF Values
    <3>3. x = Occurrences(globals, o) /\ x \in Nat
      BY <3>1, <3>2, OccursType
    <3>4. y = Occurrences(globals, o) + u
      BY <1>2, <1>3, <3>1, OccursConcat
    <3>5. /\ Occurrences(Fr.stack, o) = Occurrences(Below(1), o) + u
          /\ Occurrences(Below(1), o) \in Nat /\ u \in Nat
      BY <1>1, OneOperand
    <3> HIDE DEF x, y, u, exc, one
    <3>6. Occurrences(Below(1), o) + y + u = Occurrences(Fr.stack, o) + x + u
      BY ONLY <3>3, <3>4, <3>5
    <3> QED
      BY <3>6 DEF x, y, u
  <2> HIDE DEF one
  <2> QED
    BY <1>1, <1>2, <1>3, <2>1, <2>2, <2>3, FramesStep
<1>4. CASE Fails(Below(1), <<>>, one)
  <2>1. Fails(Below(1), <<>>, Upper(1))
    BY <1>2, <1>4
  <2> QED
    BY <1>1, <2>1, PopStep
<1> QED
  BY <1>3, <1>4 DEF do_throw

LEMMA CallReturnsHolds ==
  ASSUME Inv, CallReturns, UNCHANGED left
  PROVE  Inv' /\ Excess' = Excess
<1> DEFINE g == [Fr EXCEPT !.held = <<>>]
           h == Fr.held
<1>1. /\ phase = "returned" /\ frames # <<>> /\ left' \in Nat /\ UNCHANGED heap /\ Account(<<>>, h)
      /\ globals' = globals /\ exception' = exception
      /\ phase' = IF exception = <<>> THEN "run" ELSE "failed"
  BY DEF CallReturns, Inv, CallsOK, heap
<1>2. /\ Fr \in Frame /\ FrameOK(Fr) /\ Len(frames) \in 1 .. Len(frames) /\ h \in Values /\ Fr.stack \in Values
  BY <1>1, Running_
<1>3. <<>> \in Values /\ Lives(kind, <<>>)
  BY LivesNone
<1>4. frames' = [frames EXCEPT ![Len(frames)] = g]
  BY <1>2 DEF CallReturns, Fr
<1>5. /\ g \in Frame /\ g.func = Fr.func /\ g.owner = Fr.owner /\ g.stack = Fr.stack /\ g.held = <<>>
      /\ g.blocks = Fr.blocks /\ g.n_locals = Fr.n_locals
  BY <1>2, <1>3 DEF Frame
<1> HIDE DEF g
<1>6. FrameOK(g)
  BY <1>2, <1>5 DEF FrameOK
<1>7. CallsOK(frames', globals', exception', phase')
  <2>1. frames' # <<>> /\ Len(frames') = Len(frames) /\ frames'[Len(frames')] = g
    BY <1>1, <1>4, <1>5, <1>6, TopIs
  <2> QED
    BY <1>1, <1>5, <2>1 DEF Inv, CallsOK
<1>8. ASSUME NEW o \in AllObjects
      PROVE  Occurrences(g.stack, o) + Occurrences(g.held, o) + Occurrences(globals' \o exception', o)
             + Occurrences(h, o) =
               Occurrences(Fr.stack, o) + Occurrences(h, o) + Occurrences(globals \o exception, o)
               + Occurrences(<<>>, o)
  <2> DEFINE x == Occurrences(globals \o exception, o)
             y == Occurrences(globals' \o exception', o)
             z == Occurrences(<<>>, o)
             k == Occurrences(g.held, o)
  <2>1. y = x /\ z = 0 /\ k = 0 /\ Occurrences(g.stack, o) = Occurrences(Fr.stack, o)
    BY <1>1, <1>5, OccursNowhere
  <2>2. x \in Nat /\ Occurrences(h, o) \in Nat /\ Occurrences(Fr.stack, o) \in Nat
    BY <1>2, OccursConcat, OccursType DEF Inv, CallsOK
  <2> HIDE DEF x, y, z, k, h
  <2>3. Occurrences(g.stack, o) + k + y + Occurrences(h, o) = Occurrences(Fr.stack, o) + Occurrences(h, o) + x + z
    BY ONLY <2>1, <2>2
  <2> QED
    BY <2>3 DEF x, y, z, k
<1>9. Inv
  OBVIOUS
<1> QED
  BY ONLY <1>1, <1>2, <1>3, <1>4, <1>5, <1>6, <1>7, <1>8, <1>9, FrameStep

LEMMA HandleHolds ==
  ASSUME Inv, Handle, UNCHANGED left
  PROVE  Inv' /\ Excess' = Excess
<1> DEFINE b == Max(Handlers)
           level == Fr.blocks[b].level
           low == SubSeq(Fr.stack, 1, level)
           cut == SubSeq(Fr.stack, level + 1, Len(Fr.stack))
           s == low \o exception
           given == cut \o exception
           g == [Fr EXCEPT !.blocks = SubSeq(Fr.blocks, 1, b - 1), !.stack = s]
<1>1. /\ phase = "failed" /\ frames # <<>> /\ left' \in Nat /\ UNCHANGED heap /\ Account(exception, given)
      /\ globals' = globals /\ exception' = <<>> /\ phase' = "run" /\ Handlers # {}
  BY DEF Handle, Inv, CallsOK, heap
<1>2. b \in DOMAIN Fr.blocks
  <2>1. DOMAIN Fr.blocks = 1 .. Len(Fr.blocks) /\ Len(Fr.blocks) \in Nat /\ Len(Fr.blocks) <= 2
    BY <1>1, Running_, LenProperties DEF FrameOK, BlocksStand
  <2>2. Handlers \subseteq DOMAIN Fr.blocks
    BY DEF Handlers
  <2>3. \A x \in Handlers : x = 1 \/ x = 2
    BY <2>1, <2>2
  <2> HIDE DEF Handlers
  <2>4. \E x \in Handlers : \A y \in Handlers : x >= y
    <3>1. CASE 2 \in Handlers
      BY <2>3, <3>1
    <3>2. CASE 2 \notin Handlers
      BY <1>1, <2>3, <3>2
    <3> QED
      BY <3>1, <3>2
  <2>5. Max(Handlers) \in Handlers
    BY <2>4 DEF Max
  <2> QED
    BY <2>2, <2>5
<1>3. frames' = [frames EXCEPT ![Len(frames)] = g]
  <2>1. Len(frames) \in 1 .. Len(frames) /\ Fr \in Frame /\ DOMAIN frames = 1 .. Len(frames)
    BY <1>1, Running_, FrameParts DEF Inv
  <2> QED
    BY <2>1 DEF Handle, Fr
<1>4. exception \in Values /\ globals \in Values /\ Lives(kind, exception) /\ <<>> \in Values /\ Len(exception) \in Nat
  BY WhatIsHeldLives, LivesNone, LenProperties DEF Inv, CallsOK, Values
<1> HIDE DEF b
<1>5. /\ level \in Nat /\ low \in Values /\ Len(low) = level /\ cut \in Values
      /\ \A o : /\ Occurrences(Fr.stack, o) = Occurrences(low, o) + Occurrences(cut, o)
                /\ Occurrences(low, o) \in Nat /\ Occurrences(cut, o) \in Nat
  BY <1>1, <1>2, BlockLevel
<1> HIDE DEF low, cut
<1>6. /\ s \in Values /\ given \in Values
      /\ \A o : /\ Occurrences(s, o) = Occurrences(low, o) + Occurrences(exception, o)
                /\ Occurrences(given, o) = Occurrences(cut, o) + Occurrences(exception, o)
                /\ Occurrences(exception, o) \in Nat
  BY <1>4, <1>5, OccursConcat, OccursType
<1>7. Len(s) >= level
  <2>1. Len(s) = Len(low) + Len(exception)
    BY <1>4, <1>5, ConcatProperties DEF Values
  <2> HIDE DEF level, s
  <2> QED
    BY <1>4, <1>5, <2>1
<1> HIDE DEF s, given
<1>8. g \in Frame /\ FrameOK(g) /\ g.func = Fr.func /\ g.owner = Fr.owner /\ g.held = Fr.held /\ g.stack = s
  BY <1>1, <1>2, <1>6, <1>7, BlockLeft
<1> HIDE DEF g, level
<1>9. CallsOK(frames', globals', exception', phase')
  <2>1. CallsOK(frames, globals, exception, phase) /\ frames[Len(frames)].held = g.held
    BY <1>8 DEF Inv, Fr
  <2>2. frames' # <<>> /\ Len(frames') = Len(frames) /\ frames'[Len(frames')] = g
    BY <1>1, <1>3, <1>8, TopIs
  <2> QED
    BY <1>1, <1>4, <2>1, <2>2 DEF CallsOK
<1>10. ASSUME NEW o \in AllObjects
       PROVE  Occurrences(g.stack, o) + Occurrences(g.held, o) + Occurrences(globals' \o exception', o)
              + Occurrences(given, o) =
                Occurrences(Fr.stack, o) + Occurrences(Fr.held, o) + Occurrences(globals \o exception, o)
                + Occurrences(exception, o)
  <2> DEFINE x == Occurrences(globals \o exception, o)
             y == Occurrences(globals' \o exception', o)
             h == Occurrences(Fr.held, o)
             k == Occurrences(g.held, o)
             w == Occurrences(globals, o)
  <2>1. globals' \o exception' = globals
    BY <1>1, <1>4, ConcatEmptySeq DEF Values
  <2>2. y = w /\ k = h /\ x = w + Occurrences(exception, o) /\ w \in Nat /\ h \in Nat
    BY <1>1, <1>4, <1>8, <2>1, OccursConcat, OccursType, Running_
  <2>3. /\ Occurrences(Fr.stack, o) = Occurrences(low, o) + Occurrences(cut, o)
        /\ Occurrences(low, o) \in Nat /\ Occurrences(cut, o) \in Nat
        /\ Occurrences(g.stack, o) = Occurrences(low, o) + Occurrences(exception, o)
        /\ Occurrences(given, o) = Occurrences(cut, o) + Occurrences(exception, o)
        /\ Occurrences(exception, o) \in Nat
    BY <1>5, <1>6, <1>8
  <2> HIDE DEF x, y, h, k, w
  <2>4. Occurrences(g.stack, o) + k + y + Occurrences(given, o) =
          Occurrences(Fr.stack, o) + h + x + Occurrences(exception, o)
    BY ONLY <2>2, <2>3
  <2> QED
    BY <2>4 DEF x, y, h, k
<1>11. Inv
  OBVIOUS
<1> QED
  BY ONLY <1>1, <1>3, <1>4, <1>6, <1>8, <1>9, <1>10, <1>11, FrameStep

LEMMA LastGoes ==
  ASSUME NEW fs, FramesOK(fs), Len(fs) = 1
  PROVE  FramesOK(<<>>) /\ FramesMove(fs, <<>>, fs[1].stack \o fs[1].held, <<>>)
<1> DEFINE f == fs[1]
           a == f.stack \o f.held
           es == <<>>
<1>1. DOMAIN fs = {1} /\ 1 \in 1 .. Len(fs) /\ f.stack \in Values /\ f.held \in Values
  <2>1. DOMAIN fs = 1 .. 1 /\ 1 \in 1 .. Len(fs)
    BY FrameParts
  <2> QED
    BY <2>1, FrameParts
<1>2. es \in Seq(Frame) /\ DOMAIN es = {} /\ <<>> \in Values /\ a \in Values
  <2>1. es \in Seq(Frame) /\ DOMAIN es = {}
    OBVIOUS
  <2>2. <<>> \in Values
    BY LivesNone
  <2>3. a \in Values
    BY <1>1, OccursConcat
  <2> QED
    BY <2>1, <2>2, <2>3
<1> HIDE DEF es
<1>3. FramesOK(es)
  BY <1>2 DEF FramesOK
<1>4. ASSUME NEW o \in AllObjects
      PROVE  FrameRefs(es, o) + Occurrences(a, o) = FrameRefs(fs, o) + Occurrences(<<>>, o)
  <2>1. FrameRefs(es, o) = 0
    BY <1>2, TotalNone DEF FrameRefs
  <2>2. FrameRefs(fs, o) = Occurrences(FrameItems(fs)[1], o) /\ FrameRefs(fs, o) \in Nat
    <3>1. /\ IsFiniteSet(DOMAIN fs) /\ \A i \in DOMAIN fs : FrameItems(fs)[i] \in Values
          /\ 1 \in DOMAIN fs
      BY <1>1, FrameRefsType
    <3>2. /\ Total(DOMAIN fs, FrameItems(fs), o) =
               Total(DOMAIN fs \ {1}, FrameItems(fs), o) + Occurrences(FrameItems(fs)[1], o)
          /\ Occurrences(FrameItems(fs)[1], o) \in Nat
      BY ONLY <3>1, TotalLess
    <3>3. DOMAIN fs \ {1} = {}
      BY <1>1
    <3>4. Total(DOMAIN fs \ {1}, FrameItems(fs), o) = 0
      BY <3>3, TotalNone
    <3> QED
      BY <3>2, <3>4 DEF FrameRefs
  <2>3. FrameItems(fs)[1] = a
    BY <1>1 DEF FrameItems
  <2> QED
    BY <2>1, <2>2, <2>3, OccursNowhere
<1>5. FramesMove(fs, es, a, <<>>)
  BY <1>2, <1>4 DEF FramesMove
<1> QED
  BY <1>3, <1>5 DEF es, a, f

(* The program is over, or the exception that nobody handles. *)
LEMMA LastLeaves ==
  ASSUME Inv, left' \in Nat, Len(frames) = 1, phase # "returned", UNCHANGED <<heap, globals>>,
         frames' = <<>>, phase' = "run", exception' = <<>>, Account(<<>>, Fr.stack \o exception)
  PROVE  Inv' /\ Excess' = Excess
<1> DEFINE X == globals \o exception
           given == Fr.stack \o exception
           a == Fr.stack \o Fr.held
<1>1. frames # <<>>
  OBVIOUS
<1>2. /\ Fr.stack \in Values /\ Fr.held = <<>> /\ exception \in Values /\ globals \in Values /\ Len(globals) <= 1
      /\ <<>> \in Values /\ Lives(kind, <<>>) /\ globals' = globals /\ UNCHANGED heap
  BY <1>1, Running_, LivesNone DEF Inv, CallsOK, Fr, heap
<1>3. a = Fr.stack
  BY <1>2, ConcatEmptySeq DEF Values
<1>4. FramesOK(frames') /\ FramesMove(frames, frames', a, <<>>)
  BY LastGoes DEF Inv, Fr
<1>5. CallsOK(frames', globals', exception', phase')
  <2>1. Len(exception') <= 1 /\ exception' \in Values
    BY <1>2
  <2> QED
    BY <1>2, <2>1 DEF CallsOK
<1>6. given \in Values /\ \A o : /\ Occurrences(given, o) = Occurrences(Fr.stack, o) + Occurrences(exception, o)
                                 /\ Occurrences(X, o) = Occurrences(globals, o) + Occurrences(exception, o)
                                 /\ Occurrences(Fr.stack, o) \in Nat /\ Occurrences(exception, o) \in Nat
                                 /\ Occurrences(globals, o) \in Nat
  BY <1>2, OccursConcat, OccursType
<1>7. globals' \o exception' = globals
  BY <1>2, ConcatEmptySeq DEF Values
<1>8. ASSUME NEW o \in AllObjects
      PROVE  Occurrences(<<>>, o) + Occurrences(globals' \o exception', o) + Occurrences(given, o) =
               Occurrences(a, o) + Occurrences(X, o) + Occurrences(<<>>, o)
  <2> DEFINE z == Occurrences(<<>>, o)
             y == Occurrences(globals' \o exception', o)
  <2>1. z = 0 /\ y = Occurrences(globals, o) /\ Occurrences(a, o) = Occurrences(Fr.stack, o)
    BY <1>3, <1>7, OccursNowhere
  <2>2. /\ Occurrences(given, o) = Occurrences(Fr.stack, o) + Occurrences(exception, o)
        /\ Occurrences(X, o) = Occurrences(globals, o) + Occurrences(exception, o)
        /\ Occurrences(Fr.stack, o) \in Nat /\ Occurrences(exception, o) \in Nat
        /\ Occurrences(globals, o) \in Nat
    BY <1>6
  <2> HIDE DEF z, y, a, X, given
  <2>3. z + y + Occurrences(given, o) = Occurrences(a, o) + Occurrences(X, o) + z
    BY ONLY <2>1, <2>2
  <2> QED
    BY <2>3 DEF z, y
<1>9. Inv /\ left' \in Nat /\ Account(<<>>, given)
  OBVIOUS
<1> HIDE DEF given, a
<1> QED
  BY ONLY <1>2, <1>4, <1>5, <1>6, <1>8, <1>9, FramesStep

LEMMA StackGrows ==
  ASSUME NEW f \in Frame, FrameOK(f), NEW s \in Values, Len(s) >= Len(f.stack)
  PROVE  LET g == [f EXCEPT !.stack = s] IN
         /\ g \in Frame /\ FrameOK(g) /\ g.func = f.func /\ g.owner = f.owner /\ g.held = f.held
         /\ g.stack = s
<1> DEFINE g == [f EXCEPT !.stack = s]
           bs == f.blocks
           n == Len(s)
           m == Len(f.stack)
<1>1. /\ bs \in Seq(Block) /\ f.n_locals \in Nat /\ f.n_locals <= m /\ m \in Nat /\ n \in Nat /\ n >= m
      /\ BlocksStand(bs, f.n_locals, m)
  BY LenProperties DEF Frame, FrameOK, Values
<1>2. /\ g \in Frame /\ g.func = f.func /\ g.owner = f.owner /\ g.held = f.held /\ g.stack = s
      /\ g.blocks = bs /\ g.n_locals = f.n_locals
  BY DEF Frame
<1>3. \A b \in DOMAIN bs : bs[b].level \in Nat
  <2>1. \A b \in DOMAIN bs : bs[b] \in Block
    BY <1>1
  <2> QED
    BY <2>1 DEF Block
<1> HIDE DEF g
<1>4. FrameOK(g)
  <2> HIDE DEF n, m, bs
  <2>1. \A b \in DOMAIN bs : bs[b].level <= n
    BY <1>1, <1>3 DEF BlocksStand
  <2>2. BlocksStand(bs, f.n_locals, n)
    BY <1>1, <2>1 DEF BlocksStand
  <2>3. f.n_locals <= n
    BY <1>1
  <2> QED
    BY <1>2, <2>2, <2>3 DEF FrameOK, n
<1> QED
  BY <1>2, <1>4 DEF g

(* A frame goes, with a value for its caller. *)
LEMMA LeaveHolds ==
  ASSUME Inv, left' \in Nat, Len(frames) > 1, phase # "returned",
         NEW value \in Values, NEW taken \in Values, NEW given \in Values, Lives(kind, taken),
         Leave(value, taken, given, "returned"),
         \A o \in AllObjects :
           Occurrences(value, o) + Occurrences(given, o) = Occurrences(Fr.stack, o) + Occurrences(taken, o)
  PROVE  Inv' /\ Excess' = Excess
<1> DEFINE n == Len(frames)
           own == Owners(Fr)
           rest == SubSeq(frames, 1, n - 1)
           f == rest[n - 1]
           s == f.stack \o value
           g == [f EXCEPT !.stack = s]
           a == Fr.stack \o Fr.held
           c == a \o own
           d == f.stack \o f.held
           e == s \o f.held
           all == given \o own
<1>1. /\ frames # <<>> /\ n \in Nat /\ n - 1 \in Nat /\ n - 1 >= 1 /\ Fr.stack \in Values /\ Fr.held = <<>>
      /\ Fr \in Frame /\ own \in Values
  <2>1. frames # <<>> /\ n \in Nat
    BY FrameParts DEF Inv
  <2>2. n - 1 \in Nat /\ n - 1 >= 1
    BY <2>1
  <2> QED
    BY <2>1, <2>2, Running_, OwnersOccur DEF Inv, CallsOK, Fr
<1>2. /\ UNCHANGED heap /\ globals' = globals /\ exception' = exception /\ phase' = "returned"
      /\ frames' = [rest EXCEPT ![n - 1].stack = @ \o value] /\ Account(taken, all)
  BY DEF Leave, heap, Owners
<1>3. /\ FramesOK(rest) /\ Len(rest) = n - 1 /\ FramesMove(frames, rest, c, <<>>)
  <2>1. FramesOK(frames)
    BY DEF Inv
  <2> QED
    BY <2>1, TopGoes DEF Fr
<1> HIDE DEF own, rest, n
<1>4. /\ rest # <<>> /\ f \in Frame /\ FrameOK(f) /\ f.stack \in Values /\ f.held \in Values
      /\ n - 1 \in DOMAIN rest
  <2>1. n - 1 \in 1 .. Len(rest) /\ DOMAIN rest = 1 .. Len(rest)
    BY <1>1, <1>3, FrameParts
  <2>2. rest # <<>>
    BY <2>1
  <2> QED
    BY <1>3, <2>1, <2>2, FrameParts
<1>5. frames' = [rest EXCEPT ![n - 1] = g]
  BY <1>2, <1>4
<1> HIDE DEF f
<1>6. /\ s \in Values /\ Len(s) >= Len(f.stack)
      /\ \A o : Occurrences(s, o) = Occurrences(f.stack, o) + Occurrences(value, o)
  <2>1. /\ s \in Values /\ \A o : Occurrences(s, o) = Occurrences(f.stack, o) + Occurrences(value, o)
    BY <1>4, OccursConcat
  <2>2. /\ Len(s) = Len(f.stack) + Len(value) /\ Len(f.stack) \in Nat /\ Len(value) \in Nat
    BY <1>4, ConcatProperties, LenProperties DEF Values
  <2> HIDE DEF s
  <2> QED
    BY <2>1, <2>2
<1> HIDE DEF s
<1>7. /\ g \in Frame /\ FrameOK(g) /\ g.func = f.func /\ g.owner = f.owner /\ g.held = f.held /\ g.stack = s
  BY <1>4, <1>6, StackGrows
<1> HIDE DEF g
<1>8. FramesOK(frames') /\ frames' # <<>> /\ FramesMove(rest, frames', d, e)
  <2>1. g.func = rest[Len(rest)].func /\ g.owner = rest[Len(rest)].owner
    BY <1>3, <1>7 DEF f
  <2>2. LET gs == [rest EXCEPT ![Len(rest)] = g] IN
        /\ FramesOK(gs) /\ gs # <<>>
        /\ FramesMove(rest, gs, rest[Len(rest)].stack \o rest[Len(rest)].held, g.stack \o g.held)
    BY <1>3, <1>4, <1>7, <2>1, TopSet
  <2> QED
    BY <1>3, <1>5, <1>7, <2>2 DEF f
<1>9. FramesMove(frames, frames', c \o d, <<>> \o e)
  <2>1. FramesOK(frames)
    BY DEF Inv
  <2> HIDE DEF c, d, e
  <2> QED
    BY <1>3, <1>8, <2>1, FramesTwice
<1>10. CallsOK(frames', globals', exception', phase')
  BY <1>2, <1>8 DEF Inv, CallsOK
<1>11. a = Fr.stack
  BY <1>1, ConcatEmptySeq DEF Values
<1>12. /\ a \in Values /\ c \in Values /\ d \in Values /\ e \in Values /\ all \in Values
       /\ \A o : /\ Occurrences(c, o) = Occurrences(a, o) + Occurrences(own, o)
                 /\ Occurrences(d, o) = Occurrences(f.stack, o) + Occurrences(f.held, o)
                 /\ Occurrences(e, o) = Occurrences(s, o) + Occurrences(f.held, o)
                 /\ Occurrences(all, o) = Occurrences(given, o) + Occurrences(own, o)
  <2>1. a \in Values
    BY <1>1, <1>11
  <2> HIDE DEF a
  <2> QED
    BY <1>1, <1>4, <1>6, <2>1, OccursConcat
<1> DEFINE p == c \o d
           q == <<>> \o e
<1> HIDE DEF a, c, d, e, all
<1>13. q = e
  BY <1>12, ConcatEmptySeq DEF Values
<1>14. ASSUME NEW o \in AllObjects
       PROVE  Occurrences(q, o) + Occurrences(globals' \o exception', o) + Occurrences(all, o) =
                Occurrences(p, o) + Occurrences(globals \o exception, o) + Occurrences(taken, o)
  <2> DEFINE x == Occurrences(globals \o exception, o)
             y == Occurrences(globals' \o exception', o)
  <2>1. y = x /\ x \in Nat
    BY <1>2, OccursConcat, OccursType DEF Inv, CallsOK
  <2>2. /\ Occurrences(p, o) = Occurrences(c, o) + Occurrences(d, o)
        /\ Occurrences(q, o) = Occurrences(e, o)
        /\ Occurrences(a, o) = Occurrences(Fr.stack, o)
    BY <1>11, <1>12, <1>13, OccursConcat
  <2>3. /\ Occurrences(c, o) = Occurrences(a, o) + Occurrences(own, o)
        /\ Occurrences(d, o) = Occurrences(f.stack, o) + Occurrences(f.held, o)
        /\ Occurrences(e, o) = Occurrences(s, o) + Occurrences(f.held, o)
        /\ Occurrences(all, o) = Occurrences(given, o) + Occurrences(own, o)
        /\ Occurrences(s, o) = Occurrences(f.stack, o) + Occurrences(value, o)
    BY <1>6, <1>12
  <2>4. /\ Occurrences(a, o) \in Nat /\ Occurrences(own, o) \in Nat /\ Occurrences(f.stack, o) \in Nat
        /\ Occurrences(f.held, o) \in Nat /\ Occurrences(value, o) \in Nat /\ Occurrences(given, o) \in Nat
        /\ Occurrences(taken, o) \in Nat
    BY <1>1, <1>4, <1>12, OccursType
  <2>5. Occurrences(value, o) + Occurrences(given, o) = Occurrences(Fr.stack, o) + Occurrences(taken, o)
    OBVIOUS
  <2> HIDE DEF p, q, x, y
  <2>6. Occurrences(q, o) + y + Occurrences(all, o) = Occurrences(p, o) + x + Occurrences(taken, o)
    BY ONLY <2>1, <2>2, <2>3, <2>4, <2>5
  <2> QED
    BY <2>6 DEF x, y
<1>15. /\ Inv /\ taken \in Values /\ Lives(kind, taken) /\ left' \in Nat /\ all \in Values
       /\ UNCHANGED heap /\ Account(taken, all) /\ FramesOK(frames')
  BY <1>2, <1>8, <1>12
<1>16. FramesMove(frames, frames', p, q)
  BY <1>9
<1> HIDE DEF p, q
<1> QED
  BY ONLY <1>10, <1>14, <1>15, <1>16, FramesStep

LEMMA ReturnHolds ==
  ASSUME Inv, Running, left' = left - 1, do_return_value
  PROVE  Inv' /\ Excess' = Excess
<1> DEFINE value == <<Top(1)>>
<1>1. /\ Has(1) /\ frames # <<>> /\ Len(frames) > 1 /\ phase # "returned" /\ left' \in Nat /\ 1 \in Nat
      /\ Leave(value, <<>>, Below(1), "returned")
  BY DEF do_return_value, Running, Inv
<1>2. value \in Values /\ Below(1) \in Values /\ <<>> \in Values /\ Lives(kind, <<>>)
  BY <1>1, OneOperand, Operands, LivesOnce, LivesNone
<1>3. ASSUME NEW o \in AllObjects
      PROVE  Occurrences(value, o) + Occurrences(Below(1), o) = Occurrences(Fr.stack, o) + Occurrences(<<>>, o)
  <2> DEFINE v == Occurrences(value, o)
             z == Occurrences(<<>>, o)
  <2>1. /\ Occurrences(Fr.stack, o) = Occurrences(Below(1), o) + v /\ Occurrences(Below(1), o) \in Nat /\ v \in Nat
        /\ z = 0
    BY <1>1, OneOperand, OccursNowhere
  <2> HIDE DEF v, z
  <2>2. v + Occurrences(Below(1), o) = Occurrences(Fr.stack, o) + z
    BY ONLY <2>1
  <2> QED
    BY <2>2 DEF v, z
<1>4. Inv
  OBVIOUS
<1> HIDE DEF value
<1> QED
  BY ONLY <1>1, <1>2, <1>3, <1>4, LeaveHolds

LEMMA EndHolds ==
  ASSUME Inv, Running, left' = left - 1, INSTR_END
  PROVE  Inv' /\ Excess' = Excess
<1>1. /\ frames # <<>> /\ phase = "run" /\ left' \in Nat /\ exception = <<>> /\ Fr.stack \in Values
  BY Running_ DEF Running, Inv, CallsOK
<1>2. CASE Len(frames) > 1 /\ Leave(<<Null>>, <<Null>>, Fr.stack, "returned")
  <2> DEFINE value == <<Null>>
  <2>1. Null \in AllObjects /\ Alive(kind, Null)
    BY DEF AllObjects, Fixed, Alive
  <2>2. value \in Values /\ Lives(kind, value)
    BY <2>1, LivesOnce
  <2>3. /\ Inv /\ left' \in Nat /\ Len(frames) > 1 /\ phase # "returned" /\ Fr.stack \in Values
        /\ Leave(value, value, Fr.stack, "returned")
    BY <1>1, <1>2
  <2> HIDE DEF value
  <2>4. ASSUME NEW o \in AllObjects
        PROVE  Occurrences(value, o) + Occurrences(Fr.stack, o) = Occurrences(Fr.stack, o) + Occurrences(value, o)
    BY <1>1, <2>2, OccursType
  <2> QED
    BY ONLY <2>2, <2>3, <2>4, LeaveHolds
<1>3. CASE /\ Len(frames) = 1 /\ frames' = <<>> /\ Account(<<>>, Fr.stack) /\ UNCHANGED heap /\ Quiet
  <2>1. Fr.stack \o exception = Fr.stack
    BY <1>1, ConcatEmptySeq DEF Values
  <2> QED
    BY <1>1, <1>3, <2>1, LastLeaves DEF Quiet, heap
<1> QED
  BY <1>2, <1>3 DEF INSTR_END

LEMMA PropagateHolds ==
  ASSUME Inv, Propagate, UNCHANGED left
  PROVE  Inv' /\ Excess' = Excess
<1>1. /\ frames # <<>> /\ phase = "failed" /\ left' \in Nat
  BY DEF Propagate, Inv, CallsOK
<1>2. Fr.stack \in Values
  BY <1>1, Running_
<1>3. CASE Len(frames) > 1 /\ Leave(<<>>, <<>>, Fr.stack, "returned")
  <2> DEFINE value == <<>>
  <2>1. value \in Values /\ Lives(kind, value)
    BY LivesNone
  <2>2. /\ Inv /\ left' \in Nat /\ Len(frames) > 1 /\ phase # "returned" /\ Fr.stack \in Values
        /\ Leave(value, value, Fr.stack, "returned")
    BY <1>1, <1>2, <1>3
  <2> HIDE DEF value
  <2>3. ASSUME NEW o \in AllObjects
        PROVE  Occurrences(value, o) + Occurrences(Fr.stack, o) = Occurrences(Fr.stack, o) + Occurrences(value, o)
    BY <1>2, <2>1, OccursType
  <2> QED
    BY ONLY <2>1, <2>2, <2>3, LeaveHolds
<1>4. CASE /\ Len(frames) = 1 /\ frames' = <<>> /\ Account(<<>>, Fr.stack \o exception)
           /\ exception' = <<>> /\ phase' = "run" /\ UNCHANGED <<heap, globals>>
  BY <1>1, <1>4, LastLeaves
<1> QED
  BY <1>3, <1>4 DEF Propagate

(* An object to which nothing refers goes, and gives up its parts. *)
LEMMA DeleteHolds ==
  ASSUME Inv, Delete, UNCHANGED left
  PROVE  Inv' /\ Excess' = Excess
<1>1. PICK g \in Garbage :
        /\ kind' = [kind EXCEPT ![g] = "free"] /\ parts' = [parts EXCEPT ![g] = <<>>]
        /\ sig' = [sig EXCEPT ![g] = NoSignature] /\ Account(<<>>, parts[g])
        /\ UNCHANGED <<frames, globals, exception, phase>>
  BY DEF Delete
<1> DEFINE p == parts[g]
           R(o) == Refs(frames, parts, globals, exception, o)
           N(o) == Refs(frames', parts', globals', exception', o)
<1>2. /\ g \in Objects /\ g \in AllObjects /\ g \notin Fixed /\ count[g] <= 0 /\ left' \in Nat
  BY ConstantsAssumption DEF Garbage, AllObjects, Inv
<1>3. /\ parts \in [Objects -> Values] /\ kind \in [Objects -> Kinds] /\ p \in Values /\ <<>> \in Values
      /\ sig \in [Objects -> Signatures \cup {NoSignature}] /\ \A o \in Objects : PartsFit(kind[o], parts[o])
      /\ FramesOK(frames) /\ globals \in Values /\ exception \in Values
  BY <1>2, LivesNone DEF Inv, HeapOK, CallsOK
<1>4. parts' \in [Objects -> Values] /\ PartsMove(parts, parts', p, <<>>)
  BY <1>1, <1>2, <1>3, PartsChange
<1>5. /\ frames' = frames /\ globals' = globals /\ exception' = exception /\ phase' = phase
      /\ count' = [o \in AllObjects |-> count[o] + Occurrences(<<>>, o) - Occurrences(p, o)]
      /\ kind'[g] = "free" /\ parts'[g] = <<>> /\ \A o \in Objects \ {g} : kind'[o] = kind[o] /\ parts'[o] = parts[o]
  BY <1>1, <1>2, <1>3 DEF Account
<1> HIDE DEF p
<1>6. HeapOK(kind', parts', sig')
  <2>1. kind' \in [Objects -> Kinds] /\ sig' \in [Objects -> Signatures \cup {NoSignature}]
    BY <1>1, <1>3 DEF Kinds
  <2>2. \A o \in Objects : PartsFit(kind'[o], parts'[o])
    <3>1. PartsFit("free", <<>>)
      BY DEF PartsFit
    <3> QED
      BY <1>3, <1>5, <3>1
  <2> QED
    BY <1>4, <2>1, <2>2 DEF HeapOK
<1>7. FramesOK(frames') /\ CallsOK(frames', globals', exception', phase')
  BY <1>5 DEF Inv
<1>8. ASSUME NEW o \in AllObjects
      PROVE  /\ N(o) + Occurrences(p, o) = R(o) /\ N(o) \in Nat /\ R(o) \in Nat /\ Occurrences(p, o) \in Nat
             /\ Occurrences(<<>>, o) = 0
  <2>1. PartRefs(parts', o) + Occurrences(p, o) = PartRefs(parts, o) + Occurrences(<<>>, o)
    BY <1>4 DEF PartsMove
  <2>2. /\ PartRefs(parts', o) \in Nat /\ PartRefs(parts, o) \in Nat /\ Occurrences(p, o) \in Nat
        /\ Occurrences(<<>>, o) = 0
    BY <1>3, <1>4, PartsType, OccursType, OccursNowhere
  <2> DEFINE w == FrameRefs(frames, o)
             x == Occurrences(globals \o exception, o)
             y == IF o \in Fixed THEN 1 ELSE 0
  <2>3. /\ R(o) = w + PartRefs(parts, o) + x + y
        /\ N(o) = w + PartRefs(parts', o) + x + y
    BY <1>5 DEF Refs
  <2>4. w \in Nat /\ x \in Nat /\ y \in Nat
    BY <1>3, FrameRefsType, OccursConcat, OccursType
  <2> HIDE DEF w, x, y, R, N
  <2>5. PartRefs(parts', o) + Occurrences(p, o) = PartRefs(parts, o)
    BY ONLY <2>1, <2>2
  <2> QED
    BY ONLY <2>2, <2>3, <2>4, <2>5
<1>9. \A o \in AllObjects : count[o] \in Int /\ count[o] >= R(o) /\ (R(o) > 0 => Alive(kind, o))
  BY DEF Inv, Counted
<1>10. /\ \A o \in AllObjects : References(o) = R(o)
       /\ \A o \in AllObjects : References(o)' = N(o)
  BY RefsAre
<1> HIDE DEF R, N
<1>11. ASSUME NEW o \in AllObjects
       PROVE  /\ count'[o] \in Int /\ count'[o] >= N(o)
              /\ N(o) > 0 => Alive(kind', o)
              /\ count'[o] - N(o) = count[o] - R(o)
  <2>1. count'[o] = count[o] + Occurrences(<<>>, o) - Occurrences(p, o)
    BY <1>5
  <2>2. count'[o] \in Int /\ count'[o] >= N(o) /\ count'[o] - N(o) = count[o] - R(o)
    BY <1>8, <1>9, <2>1
  <2>3. ASSUME N(o) > 0 PROVE Alive(kind', o)
    <3>1. R(o) > 0
      BY <1>8, <2>3
    <3>2. Alive(kind, o)
      BY <1>9, <3>1
    <3>3. o # g
      BY <1>2, <1>9, <1>8, <3>1
    <3> QED
      BY <1>5, <3>2, <3>3 DEF Alive
  <2> QED
    BY <2>2, <2>3
<1>12. Counted(frames', kind', parts', globals', exception', count')
  <2>1. count' \in [AllObjects -> Int]
    BY <1>5, <1>11
  <2> QED
    BY <1>11, <2>1 DEF Counted, N
<1>13. Excess' = Excess
  BY <1>10, <1>11 DEF Excess
<1> QED
  BY <1>2, <1>6, <1>7, <1>12, <1>13 DEF Inv

(* A call: the references move from the list of arguments to the new frame. *)
LEMMA LivesSmall ==
  ASSUME NEW k, NEW n \in 0 .. 1
  PROVE  LET s == [i \in 1 .. n |-> Null] IN Lives(k, s) /\ s \in Values /\ Len(s) = n
<1> DEFINE s == [i \in 1 .. n |-> Null]
<1>1. Null \in AllObjects /\ Alive(k, Null)
  BY DEF AllObjects, Fixed, Alive
<1>2. n \in Nat
  OBVIOUS
<1>3. s \in Values /\ Len(s) = n
  BY <1>1, <1>2, IsASeq, LenProperties DEF Values
<1>4. \A i \in 1 .. n : s[i] = Null
  OBVIOUS
<1> HIDE DEF s
<1>5. Lives(k, s)
  BY <1>1, <1>3, <1>4 DEF Lives
<1> QED
  BY <1>3, <1>5 DEF s

\* Two sequences are together another.
MakeUp(s, t, all) ==
  \A o \in AllObjects : Occurrences(s, o) + Occurrences(t, o) = Occurrences(all, o)

LEMMA UnpackedFits ==
  ASSUME NEW k, NEW f \in Objects, NEW args \in Objects, NEW kw, NEW owner \in AllObjects, NEW bound,
         sig \in [Objects -> Signatures \cup {NoSignature}],
         Lives(k, parts[args]), Alive(k, args), Lives(k, kw), Alive(k, owner)
  PROVE  LET u == Unpacked(f, args, kw, owner, bound) IN
         /\ Lives(k, u.stack) /\ u.rest \in Values /\ u.given \in Values /\ u.ok \in BOOLEAN
         /\ MakeUp(u.rest, u.given, parts[args])
<1> DEFINE p == parts[args]
           s == sig[f]
           first == IF bound THEN <<owner>> ELSE <<>>
           prefix == s.optind - Len(first)
           some == first \o SubSeq(p, 1, prefix) \o <<args>> \o kw
           only == first \o p \o kw
           front == SubSeq(p, 1, prefix)
           back == SubSeq(p, prefix + 1, Len(p))
           u == Unpacked(f, args, kw, owner, bound)
<1>1. p \in Values /\ Len(p) \in Nat /\ Lives(k, p) /\ kw \in Values /\ Lives(k, kw) /\ args \in AllObjects /\ Alive(k, args)
  BY LenProperties DEF Lives, Values, AllObjects
<1>2. Lives(k, <<>>) /\ <<>> \in Values /\ Len(<<>>) = 0
  BY LivesNone
<1>3. Lives(k, first) /\ first \in Values /\ Len(first) \in {0, 1}
  BY <1>2, LivesOnce
<1>4. Lives(k, <<args>>)
  BY <1>1, LivesOnce
<1>5. s.optind \in Int /\ prefix \in Int
  <2>1. s \in Signatures \cup {NoSignature}
    OBVIOUS
  <2>2. \A t \in Signatures \cup {NoSignature} : t.optind \in Int
    BY ConstantsAssumption DEF NoSignature
  <2>3. s.optind \in Int
    BY <2>1, <2>2
  <2> HIDE DEF s, first
  <2> QED
    BY <1>3, <2>3
<1>6. \/ u = [stack |-> <<>>, rest |-> p, given |-> <<>>, ok |-> FALSE]
      \/ /\ s.optind >= 0 /\ ~(prefix < 0 \/ prefix > Len(p))
         /\ u = [stack |-> some, rest |-> back, given |-> front, ok |-> Len(some) = s.nargs]
      \/ /\ ~(s.optind >= 0)
         /\ u = [stack |-> only, rest |-> p, given |-> <<>>, ok |-> Len(only) = s.nargs]
  BY DEF Unpacked
<1>7. \A o : Occurrences(p, o) \in Nat /\ Occurrences(<<>>, o) = 0
  BY <1>1, OccursType, OccursNowhere
<1> HIDE DEF s, first, u, p
<1>8. CASE u = [stack |-> <<>>, rest |-> p, given |-> <<>>, ok |-> FALSE]
  <2>1. u.stack = <<>> /\ u.rest = p /\ u.given = <<>> /\ u.ok = FALSE
    BY <1>8
  <2>2. Lives(k, u.stack) /\ u.rest \in Values /\ u.given \in Values /\ u.ok \in BOOLEAN
    BY <1>1, <1>2, <2>1
  <2>3. \A o : Occurrences(u.rest, o) = Occurrences(p, o) /\ Occurrences(u.given, o) = 0
    BY <1>7, <2>1
  <2>4. \A o : Occurrences(u.rest, o) + Occurrences(u.given, o) = Occurrences(p, o)
    BY <1>7, <2>3
  <2>5. MakeUp(u.rest, u.given, p)
    BY ONLY <2>4 DEF MakeUp
  <2> QED
    BY ONLY <2>2, <2>5 DEF u, p
<1>9. CASE /\ s.optind >= 0 /\ ~(prefix < 0 \/ prefix > Len(p))
           /\ u = [stack |-> some, rest |-> back, given |-> front, ok |-> Len(some) = s.nargs]
  <2> HIDE DEF prefix
  <2>1. prefix \in 0 .. Len(p) /\ prefix \in Nat
    <3>1. ~(prefix < 0 \/ prefix > Len(p)) /\ prefix \in Int /\ Len(p) \in Nat
      BY <1>1, <1>5, <1>9
    <3> QED
      BY ONLY <3>1
  <2>2. /\ front \in Values /\ back \in Values
        /\ \A o : Occurrences(p, o) = Occurrences(front, o) + Occurrences(back, o)
    BY <1>1, <2>1, OccursCut
  <2>3. Lives(k, front)
    <3>1. 1 \in Nat /\ 1 <= 1 /\ 1 <= prefix + 1 /\ prefix <= Len(p)
      BY <1>1, <2>1
    <3> QED
      BY <1>1, <2>1, <3>1, LivesPart
  <2>4. \A o : Occurrences(front, o) \in Nat /\ Occurrences(back, o) \in Nat
    BY <2>2, OccursType
  <2>5. Lives(k, some)
    <3>1. Lives(k, first \o front)
      BY <1>3, <2>3, LivesConcat
    <3>2. Lives(k, (first \o front) \o <<args>>)
      BY ONLY <1>4, <3>1, LivesConcat
    <3>3. Lives(k, ((first \o front) \o <<args>>) \o kw)
      BY ONLY <1>1, <3>2, LivesConcat
    <3> QED
      BY <3>3
  <2> HIDE DEF some, front, back
  <2>6. u.stack = some /\ u.rest = back /\ u.given = front /\ u.ok = (Len(some) = s.nargs)
    BY <1>9
  <2>7. \A o : Occurrences(u.rest, o) + Occurrences(u.given, o) = Occurrences(p, o)
    BY <2>2, <2>4, <2>6
  <2>8. MakeUp(u.rest, u.given, p)
    BY ONLY <2>7 DEF MakeUp
  <2> QED
    BY <2>2, <2>5, <2>6, <2>8 DEF u, p
<1>10. CASE /\ ~(s.optind >= 0)
            /\ u = [stack |-> only, rest |-> p, given |-> <<>>, ok |-> Len(only) = s.nargs]
  <2>1. Lives(k, only)
    <3>1. Lives(k, first \o p)
      BY <1>1, <1>3, LivesConcat
    <3>2. Lives(k, (first \o p) \o kw)
      BY ONLY <1>1, <3>1, LivesConcat
    <3> QED
      BY <3>2
  <2> HIDE DEF only
  <2>2. u.stack = only /\ u.rest = p /\ u.given = <<>> /\ u.ok = (Len(only) = s.nargs)
    BY <1>10
  <2>3. \A o : Occurrences(u.rest, o) = Occurrences(p, o) /\ Occurrences(u.given, o) = 0
    BY <1>7, <2>2
  <2>4. \A o : Occurrences(u.rest, o) + Occurrences(u.given, o) = Occurrences(p, o)
    BY <1>7, <2>3
  <2>5. MakeUp(u.rest, u.given, p)
    BY ONLY <2>4 DEF MakeUp
  <2> QED
    BY <1>1, <1>2, <2>1, <2>2, <2>5 DEF u, p
<1> QED
  BY <1>6, <1>8, <1>9, <1>10

LEMMA EnterHolds ==
  ASSUME Inv, Running, left' = left - 1, Has(3),
         NEW func \in Objects, Alive(kind', func), NEW owner \in AllObjects, Alive(kind', owner),
         NEW args \in Objects, kind[args] = "list", kind'[args] = "list",
         NEW held \in Values, NEW kw, Lives(kind', kw), NEW bound, NEW given \in Values,
         HeapOK(kind', parts, sig'), sig' = sig,
         \A o \in Objects : kind[o] # "free" => kind'[o] # "free",
         \A o \in AllObjects : Occurrences(Upper(3), o) = Occurrences(held, o) + Occurrences(given, o),
         Enter(func, owner, held, args, kw, bound, <<>>, given)
  PROVE  Inv' /\ Excess' = Excess
<1> DEFINE u == Unpacked(func, args, kw, owner, bound)
           N == Len(frames)
           p == parts[args]
           more(n) == [i \in 1 .. n |-> Null]
           locals(n) == IF u.ok THEN u.stack \o more(n) ELSE u.stack
           new(n) == [NewFrame(func, owner) EXCEPT !.stack = locals(n), !.n_locals = Len(locals(n))]
           g == [Fr EXCEPT !.stack = Below(3), !.held = held]
           own == <<func, owner, func, owner>>
           err == IF u.ok THEN <<>> ELSE <<Error>>
           fs == [frames EXCEPT ![N] = g]
           B == Below(3)
<1>1. PICK n \in 0 .. 1 :
        /\ frames' = Append([frames EXCEPT ![N].stack = B, ![N].held = held], new(n))
        /\ parts' = [parts EXCEPT ![args] = u.rest]
        /\ Account(<<>> \o own \o locals(n) \o err, given \o u.given)
        /\ exception' = IF u.ok THEN exception ELSE <<Error>>
        /\ phase' = IF u.ok THEN "run" ELSE "failed"
        /\ UNCHANGED globals
  BY DEF Enter
<1>2. /\ frames # <<>> /\ left' \in Nat /\ phase = "run" /\ exception = <<>> /\ Fr.held = <<>>
      /\ globals \in Values /\ Len(globals) <= 1 /\ FramesOK(frames)
  BY DEF Running, Inv, CallsOK, Fr
<1>3. /\ Fr \in Frame /\ FrameOK(Fr) /\ N \in 1 .. N /\ DOMAIN frames = 1 .. N
      /\ Fr.stack \in Values /\ Fr.blocks \in Seq(Block) /\ <<>> \in Values
  BY <1>2, Running_, FrameParts, LivesNone
<1>4. /\ B \in Values /\ Len(B) >= Base
      /\ \A o : /\ Occurrences(Fr.stack, o) = Occurrences(B, o) + Occurrences(Upper(3), o)
                /\ Occurrences(B, o) \in Nat /\ Occurrences(Upper(3), o) \in Nat
  <2>1. 3 \in Nat
    OBVIOUS
  <2> QED
    BY <1>2, <2>1, Operands
<1>5. /\ Lives(kind', u.stack) /\ u.stack \in Values /\ u.rest \in Values /\ u.given \in Values /\ u.ok \in BOOLEAN
      /\ \A o \in AllObjects : Occurrences(u.rest, o) + Occurrences(u.given, o) = Occurrences(p, o)
  <2>1. Lives(kind, p)
    BY PartsLive
  <2>2. Lives(kind', p)
    BY <2>1, LivesStill
  <2>3. Alive(kind', args)
    BY DEF Alive
  <2>4. sig \in [Objects -> Signatures \cup {NoSignature}]
    BY DEF Inv, HeapOK
  <2>5. /\ Lives(kind', u.stack) /\ u.rest \in Values /\ u.given \in Values /\ u.ok \in BOOLEAN
        /\ MakeUp(u.rest, u.given, p)
    <3>1. /\ func \in Objects /\ args \in Objects /\ owner \in AllObjects
          /\ Lives(kind', kw) /\ Alive(kind', owner)
      OBVIOUS
    <3> QED
      BY ONLY <2>2, <2>3, <2>4, <3>1, UnpackedFits
  <2> HIDE DEF u, p
  <2> QED
    BY <2>5 DEF Lives, MakeUp
<1> HIDE DEF u
<1>6. Lives(kind', locals(n)) /\ locals(n) \in Values
  <2>1. Lives(kind', more(n))
    BY LivesSmall
  <2> HIDE DEF more
  <2>2. Lives(kind', u.stack \o more(n))
    BY <1>5, <2>1, LivesConcat
  <2>3. Lives(kind', locals(n))
    BY <1>5, <2>2
  <2> HIDE DEF locals
  <2> QED
    BY <2>3 DEF Lives
<1> DEFINE ls == locals(n)
           h == new(n)
<1> HIDE DEF locals, more
<1>7. /\ ls \in Values => h \in Frame
      /\ h.stack = ls /\ h.n_locals = Len(ls) /\ h.blocks = <<>> /\ h.func = func /\ h.owner = owner
      /\ h.held = <<>>
  <2> DEFINE empty == NewFrame(func, owner)
  <2>1. <<>> \in Seq(Block) /\ <<>> \in Values /\ 0 \in Nat /\ func \in AllObjects
    BY <1>3 DEF AllObjects
  <2>2. empty \in Frame /\ empty.blocks = <<>> /\ empty.func = func /\ empty.owner = owner /\ empty.held = <<>>
    BY <2>1 DEF NewFrame, Frame
  <2> HIDE DEF empty
  <2>3. h = [empty EXCEPT !.stack = ls, !.n_locals = Len(ls)]
    BY DEF empty
  <2>4. ls \in Values => Len(ls) \in Nat
    BY LenProperties DEF Values
  <2> HIDE DEF ls, h, new
  <2> QED
    BY <2>2, <2>3, <2>4 DEF Frame
<1>8. /\ frames' = Append([frames EXCEPT ![N].stack = B, ![N].held = held], h)
      /\ Account(<<>> \o own \o ls \o err, given \o u.given) /\ ls \in Values /\ Lives(kind', ls)
  BY <1>1, <1>6
<1> HIDE DEF ls, h, new
<1>9. /\ h \in Frame /\ FrameOK(h) /\ h.func = func /\ h.owner = owner /\ h.stack = ls /\ h.held = <<>>
  <2>1. /\ h.stack = ls /\ h.n_locals = Len(ls) /\ h.blocks = <<>> /\ h.func = func /\ h.owner = owner
        /\ h.held = <<>> /\ h \in Frame
    BY <1>7, <1>8
  <2>2. Len(ls) \in Nat /\ func \in AllObjects
    BY <1>8, LenProperties DEF Values, AllObjects
  <2>3. <<>> \in Seq(Block) /\ BlocksStand(<<>>, Len(ls), Len(ls))
    BY DEF BlocksStand
  <2>4. FrameOK(h)
    BY <2>1, <2>2, <2>3 DEF FrameOK
  <2> QED
    BY <2>1, <2>4
<1>10. /\ g \in Frame /\ FrameOK(g) /\ g.func = Fr.func /\ g.owner = Fr.owner /\ g.stack = B /\ g.held = held
  <2>1. /\ Fr.blocks \in Seq(Block) /\ Fr.n_locals \in Nat /\ Fr.n_locals <= Base /\ Base \in Nat
        /\ Len(B) \in Nat /\ \A b \in DOMAIN Fr.blocks : Fr.blocks[b].level <= Base
        /\ BlocksStand(Fr.blocks, Fr.n_locals, Len(Fr.stack))
    BY <1>2, <1>4, Running_, LenProperties DEF FrameOK, Values
  <2>2. \A b \in DOMAIN Fr.blocks : Fr.blocks[b].level \in Nat
    <3>1. \A b \in DOMAIN Fr.blocks : Fr.blocks[b] \in Block
      BY <2>1
    <3> QED
      BY <3>1 DEF Block
  <2>3. /\ g \in Frame /\ g.func = Fr.func /\ g.owner = Fr.owner /\ g.stack = B /\ g.held = held
        /\ g.blocks = Fr.blocks /\ g.n_locals = Fr.n_locals
    BY <1>3, <1>4 DEF Frame
  <2> HIDE DEF g, B
  <2>4. \A b \in DOMAIN Fr.blocks : Fr.blocks[b].level <= Len(B)
    BY <1>4, <2>1, <2>2
  <2>5. BlocksStand(Fr.blocks, Fr.n_locals, Len(B)) /\ Fr.n_locals <= Len(B)
    BY <1>4, <2>1, <2>4 DEF BlocksStand
  <2> QED
    BY <2>3, <2>5 DEF FrameOK
<1>11. frames' = Append(fs, h)
  <2>1. [frames EXCEPT ![N].stack = B, ![N].held = held] = fs
    BY <1>3 DEF Fr
  <2> QED
    BY <1>8, <2>1
<1> HIDE DEF g, B
<1> DEFINE a == Fr.stack \o Fr.held
           b == B \o held
           e == (ls \o <<>>) \o Owners(h)
<1>12. FramesOK(fs) /\ fs # <<>> /\ FramesMove(frames, fs, a, b)
  BY <1>2, <1>10, TopSet DEF Fr
<1> HIDE DEF fs
<1>13. FramesOK(frames') /\ frames' # <<>> /\ frames'[Len(frames')] = h /\ FramesMove(fs, frames', <<>>, e)
  BY <1>9, <1>11, <1>12, TopAdded
<1>14. FramesMove(frames, frames', a \o <<>>, b \o e)
  BY <1>2, <1>12, <1>13, FramesTwice
<1> DEFINE t == <<>> \o own \o ls \o err
           given2 == given \o u.given
<1>15. exception' = err /\ err \in Values /\ Lives(kind', err) /\ Len(err) <= 1 /\ (u.ok => err = <<>>)
  <2>1. Error \in AllObjects /\ Alive(kind', Error)
    BY DEF AllObjects, Fixed, Alive
  <2>2. <<Error>> \in Values /\ Lives(kind', <<Error>>) /\ Len(<<Error>>) = 1
    BY <2>1, LivesOnce
  <2>3. <<>> \in Values /\ Lives(kind', <<>>) /\ Len(<<>>) = 0
    BY LivesNone
  <2>4. CASE u.ok
    <3>1. err = <<>> /\ exception' = <<>>
      BY <1>1, <1>2, <2>4
    <3> HIDE DEF err
    <3> QED
      BY <2>3, <3>1
  <2>5. CASE ~u.ok
    <3>1. err = <<Error>> /\ exception' = <<Error>>
      BY <1>1, <2>5
    <3> HIDE DEF err
    <3> QED
      BY <2>2, <2>5, <3>1
  <2> QED
    BY <2>4, <2>5
<1> HIDE DEF err
<1>16. CallsOK(frames', globals', exception', phase')
  BY <1>1, <1>2, <1>9, <1>13, <1>15 DEF CallsOK
<1>17. HeapOK(kind', parts', sig') /\ PartsMove(parts, parts', p, u.rest)
  <2>1. parts \in [Objects -> Values]
    BY DEF Inv, HeapOK
  <2>2. parts' \in [Objects -> Values] /\ PartsMove(parts, parts', p, u.rest)
    BY <1>1, <1>5, <2>1, PartsChange
  <2>3. parts'[args] = u.rest /\ \A o \in Objects \ {args} : parts'[o] = parts[o]
    BY <1>1, <2>1
  <2>4. PartsFit("list", u.rest)
    BY DEF PartsFit
  <2> HIDE DEF p
  <2>5. \A o \in Objects : PartsFit(kind'[o], parts'[o])
    BY <2>3, <2>4 DEF HeapOK
  <2> QED
    BY <2>2, <2>5 DEF HeapOK
<1>18. own = Owners(h) /\ own \in Values /\ Lives(kind', own)
  <2>1. own = Owners(h)
    BY <1>9 DEF Owners
  <2>2. Owners(h) \in Values
    BY <1>9, OwnersOccur
  <2>3. Lives(kind', own)
    <3>1. \A i \in 1 .. Len(own) : own[i] = func \/ own[i] = owner
      OBVIOUS
    <3> HIDE DEF own
    <3> QED
      BY <2>1, <2>2, <3>1 DEF Lives
  <2> QED
    BY <2>1, <2>2, <2>3
<1> HIDE DEF own, p
<1>19. /\ t \in Values /\ Lives(kind', t)
       /\ \A o : Occurrences(t, o) = Occurrences(own, o) + Occurrences(ls, o) + Occurrences(err, o)
  <2> DEFINE w == own \o ls
  <2>1. <<>> \o own = own
    BY <1>18, ConcatEmptySeq DEF Values
  <2>2. t = w \o err
    BY <2>1
  <2>3. /\ w \in Values /\ Lives(kind', w) /\ \A o : Occurrences(w, o) = Occurrences(own, o) + Occurrences(ls, o)
    BY <1>8, <1>18, OccursConcat, LivesConcat
  <2> HIDE DEF w, t
  <2>4. /\ w \o err \in Values /\ Lives(kind', w \o err)
        /\ \A o : Occurrences(w \o err, o) = Occurrences(w, o) + Occurrences(err, o)
    BY <1>15, <2>3, OccursConcat, LivesConcat
  <2> QED
    BY <2>2, <2>3, <2>4
<1>20. given2 \in Values /\ \A o : Occurrences(given2, o) = Occurrences(given, o) + Occurrences(u.given, o)
  BY <1>5, OccursConcat
<1>21. /\ a = Fr.stack /\ a \o <<>> = a /\ ls \o <<>> = ls
  BY <1>2, <1>3, <1>8, ConcatEmptySeq DEF Values
<1> DEFINE c == b \o e
<1>22. \A o : Occurrences(c, o) = Occurrences(B, o) + Occurrences(held, o) + Occurrences(ls, o) + Occurrences(own, o)
  <2>1. e = ls \o own
    BY <1>18, <1>21
  <2> HIDE DEF b, e
  <2>2. b \in Values /\ \A o : Occurrences(b, o) = Occurrences(B, o) + Occurrences(held, o)
    BY <1>4, OccursConcat DEF b
  <2>3. e \in Values /\ \A o : Occurrences(e, o) = Occurrences(ls, o) + Occurrences(own, o)
    BY <1>8, <1>18, <2>1, OccursConcat
  <2>4. \A o : Occurrences(c, o) = Occurrences(b, o) + Occurrences(e, o)
    BY <2>2, <2>3, OccursConcat
  <2>5. \A o : /\ Occurrences(B, o) \in Nat /\ Occurrences(held, o) \in Nat /\ Occurrences(ls, o) \in Nat
               /\ Occurrences(own, o) \in Nat
    BY <1>4, <1>8, <1>18, OccursType
  <2> HIDE DEF c
  <2> QED
    BY <2>2, <2>3, <2>4, <2>5
<1>23. FramesMove(frames, frames', a, c)
  BY <1>14, <1>21
<1> HIDE DEF a, c, t, given2
<1>24. ASSUME NEW o \in AllObjects
       PROVE  Occurrences(c, o) + Occurrences(u.rest, o) + Occurrences(globals' \o exception', o)
              + Occurrences(given2, o) + Occurrences(<<>>, o) =
                Occurrences(a, o) + Occurrences(p, o) + Occurrences(globals \o exception, o)
                + Occurrences(t, o)
  <2> DEFINE x == Occurrences(globals \o exception, o)
             y == Occurrences(globals' \o exception', o)
             z == Occurrences(<<>>, o)
             w == Occurrences(globals, o)
  <2>1. globals \o exception = globals
    BY <1>2, ConcatEmptySeq DEF Values
  <2>2. x = w /\ w \in Nat /\ y = w + Occurrences(err, o) /\ z = 0
    <3>1. globals' \o exception' = globals \o err
      BY <1>1, <1>15
    <3>2. Occurrences(globals \o err, o) = w + Occurrences(err, o)
      BY <1>2, <1>15, OccursConcat
    <3> QED
      BY <1>2, <2>1, <3>1, <3>2, OccursType, OccursNowhere
  <2>3. /\ Occurrences(c, o) = Occurrences(B, o) + Occurrences(held, o) + Occurrences(ls, o) + Occurrences(own, o)
        /\ Occurrences(u.rest, o) + Occurrences(u.given, o) = Occurrences(p, o)
        /\ Occurrences(given2, o) = Occurrences(given, o) + Occurrences(u.given, o)
        /\ Occurrences(a, o) = Occurrences(B, o) + Occurrences(Upper(3), o)
        /\ Occurrences(t, o) = Occurrences(own, o) + Occurrences(ls, o) + Occurrences(err, o)
    BY <1>4, <1>5, <1>19, <1>20, <1>21, <1>22 DEF p
  <2>4. Occurrences(Upper(3), o) = Occurrences(held, o) + Occurrences(given, o)
    OBVIOUS
  <2>5. /\ Occurrences(B, o) \in Nat /\ Occurrences(held, o) \in Nat /\ Occurrences(ls, o) \in Nat
        /\ Occurrences(own, o) \in Nat /\ Occurrences(err, o) \in Nat /\ Occurrences(given, o) \in Nat
        /\ Occurrences(u.given, o) \in Nat /\ Occurrences(u.rest, o) \in Nat
    BY <1>4, <1>5, <1>8, <1>15, <1>18, OccursType
  <2> HIDE DEF x, y, z, w
  <2>6. Occurrences(c, o) + Occurrences(u.rest, o) + y + Occurrences(given2, o) + z =
          Occurrences(a, o) + Occurrences(p, o) + x + Occurrences(t, o)
    BY ONLY <2>2, <2>3, <2>4, <2>5
  <2> QED
    BY <2>6 DEF x, y, z
<1>25. /\ Inv /\ t \in Values /\ given2 \in Values /\ Account(t, given2) /\ Lives(kind', t) /\ left' \in Nat
       /\ \A o \in Objects : kind[o] # "free" => kind'[o] # "free"
       /\ FramesOK(frames')
  BY <1>2, <1>8, <1>13, <1>19, <1>20 DEF t, given2
<1> DEFINE none == <<>>
<1>26. none \in Values /\ none = <<>>
  BY <1>3
<1>27. ASSUME NEW o \in AllObjects
       PROVE  Occurrences(c, o) + Occurrences(u.rest, o) + Occurrences(globals' \o exception', o)
              + Occurrences(given2, o) + Occurrences(none, o) =
                Occurrences(a, o) + Occurrences(p, o) + Occurrences(globals \o exception, o)
                + Occurrences(t, o)
  BY <1>24
<1> HIDE DEF none
<1>28. Inv' /\ (none = <<>> => Excess' = Excess)
  BY ONLY <1>16, <1>17, <1>23, <1>25, <1>26, <1>27, WeighedStep
<1> QED
  BY <1>26, <1>28

LEMMA CallHolds ==
  ASSUME Inv, Running, left' = left - 1, do_call_func
  PROVE  Inv' /\ Excess' = Excess
<1> DEFINE operand == Top(3)
           args == Top(2)
           last == Top(1)
           kwargs == IF last = Null THEN <<>> ELSE <<last>>
           held == <<args, operand>> \o kwargs
           given == IF last = Null THEN <<Null>> ELSE <<>>
           bound == IsKind(operand, {"method"})
           func == IF bound THEN parts[operand][1] ELSE operand
           owner == IF bound THEN parts[operand][2] ELSE Fr.owner
           callable == IsKind(func, {"function"})
<1>1. /\ Has(3) /\ args \in Objects /\ kind[args] = "list"
      /\ \/ /\ callable /\ sig' = sig
            /\ \E d \in Free :
                 /\ kind' = [kind EXCEPT ![d] = "dict"]
                 /\ Enter(func, owner, held, args, <<d>>, bound, <<>>, given)
         \/ /\ callable /\ UNCHANGED <<kind, sig>>
            /\ Enter(func, owner, held, args, kwargs, bound, <<>>, given)
         \/ /\ Fails(Below(3), <<>>, held \o given) /\ UNCHANGED heap
  BY DEF do_call_func, IsKind
<1>2. frames # <<>> /\ left' \in Nat
  BY DEF Running, Inv
<1>3. /\ operand \in AllObjects /\ Alive(kind, operand) /\ args \in AllObjects /\ Alive(kind, args)
      /\ last \in AllObjects /\ Alive(kind, last)
      /\ \A o : Occurrences(Upper(3), o) =
                  Occurrences(<<operand>>, o) + Occurrences(<<args>>, o) + Occurrences(<<last>>, o)
  BY <1>1, <1>2, ThreeOperands
<1> HIDE DEF operand, args, last
<1>4. /\ kwargs \in Values /\ given \in Values /\ Lives(kind, kwargs)
      /\ \A o : Occurrences(kwargs, o) + Occurrences(given, o) = Occurrences(<<last>>, o)
  <2>1. /\ <<last>> \in Values /\ Lives(kind, <<last>>) /\ <<>> \in Values /\ Lives(kind, <<>>)
        /\ \A o : Occurrences(<<last>>, o) \in Nat /\ Occurrences(<<>>, o) = 0
    BY <1>3, LivesOnce, LivesNone, OccursType, OccursNowhere
  <2>2. \/ kwargs = <<>> /\ given = <<last>>
        \/ kwargs = <<last>> /\ given = <<>>
    OBVIOUS
  <2> HIDE DEF kwargs, given
  <2>3. CASE kwargs = <<>> /\ given = <<last>>
    <3>1. kwargs \in Values /\ given \in Values /\ Lives(kind, kwargs)
      BY <2>1, <2>3
    <3>2. \A o : Occurrences(kwargs, o) = 0 /\ Occurrences(given, o) = Occurrences(<<last>>, o)
      BY <2>1, <2>3
    <3>3. \A o : Occurrences(kwargs, o) + Occurrences(given, o) = Occurrences(<<last>>, o)
      BY <2>1, <3>2
    <3> QED
      BY <3>1, <3>3
  <2>4. CASE kwargs = <<last>> /\ given = <<>>
    <3>1. kwargs \in Values /\ given \in Values /\ Lives(kind, kwargs)
      BY <2>1, <2>4
    <3>2. \A o : Occurrences(given, o) = 0 /\ Occurrences(kwargs, o) = Occurrences(<<last>>, o)
      BY <2>1, <2>4
    <3>3. \A o : Occurrences(kwargs, o) + Occurrences(given, o) = Occurrences(<<last>>, o)
      BY <2>1, <3>2
    <3> QED
      BY <3>1, <3>3
  <2> QED
    BY <2>2, <2>3, <2>4
<1>5. /\ held \in Values
      /\ \A o \in AllObjects : Occurrences(Upper(3), o) = Occurrences(held, o) + Occurrences(given, o)
  <2> DEFINE two == <<args, operand>>
  <2>1. /\ two \in Values /\ \A o : Occurrences(two, o) = Occurrences(<<args>>, o) + Occurrences(<<operand>>, o)
    BY <1>3, OccursPair
  <2> HIDE DEF two, kwargs, given
  <2>2. two \o kwargs \in Values /\ \A o : Occurrences(two \o kwargs, o) = Occurrences(two, o) + Occurrences(kwargs, o)
    BY <1>4, <2>1, OccursConcat
  <2>3. held = two \o kwargs
    BY DEF two
  <2> HIDE DEF held
  <2>4. ASSUME NEW o \in AllObjects
        PROVE  Occurrences(Upper(3), o) = Occurrences(held, o) + Occurrences(given, o)
    <3>1. /\ Occurrences(<<args>>, o) \in Nat /\ Occurrences(<<operand>>, o) \in Nat /\ Occurrences(kwargs, o) \in Nat
          /\ Occurrences(given, o) \in Nat /\ Occurrences(<<last>>, o) \in Nat
      BY <1>3, <1>4, OccursOnce, OccursType
    <3>2. Occurrences(held, o) = Occurrences(<<args>>, o) + Occurrences(<<operand>>, o) + Occurrences(kwargs, o)
      BY <2>1, <2>2, <2>3
    <3>3. Occurrences(kwargs, o) + Occurrences(given, o) = Occurrences(<<last>>, o)
      BY <1>4
    <3>4. Occurrences(Upper(3), o) =
            Occurrences(<<operand>>, o) + Occurrences(<<args>>, o) + Occurrences(<<last>>, o)
      BY <1>3
    <3> QED
      BY <3>1, <3>2, <3>3, <3>4
  <2> QED
    BY <2>2, <2>3, <2>4
<1> HIDE DEF kwargs, given, held
<1>6. owner \in AllObjects /\ Alive(kind, owner)
  <2>1. Fr.owner \in AllObjects /\ Alive(kind, Fr.owner)
    BY <1>2, Running_
  <2>2. ASSUME bound PROVE parts[operand][2] \in AllObjects /\ Alive(kind, parts[operand][2])
    <3>1. operand \in Objects /\ kind[operand] = "method"
      BY <2>2 DEF IsKind
    <3>2. Len(parts[operand]) = 2
      BY <3>1, PartsLive DEF PartsFit
    <3> QED
      BY <3>1, <3>2, PartsLive
  <2> QED
    BY <2>1, <2>2
<1> HIDE DEF bound, func, owner
<1>7. CASE callable /\ sig' = sig
           /\ \E d \in Free :
                /\ kind' = [kind EXCEPT ![d] = "dict"]
                /\ Enter(func, owner, held, args, <<d>>, bound, <<>>, given)
  <2>1. PICK d \in Free :
          /\ kind' = [kind EXCEPT ![d] = "dict"]
          /\ Enter(func, owner, held, args, <<d>>, bound, <<>>, given)
    BY <1>7
  <2>2. /\ d \in Objects /\ d \in AllObjects /\ kind[d] = "free" /\ func \in Objects /\ kind[func] = "function"
        /\ kind \in [Objects -> Kinds] /\ HeapOK(kind, parts, sig)
    BY <1>7 DEF Free, AllObjects, IsKind, Inv, HeapOK
  <2>3. /\ kind'[d] = "dict" /\ \A o \in Objects \ {d} : kind'[o] = kind[o]
    BY <2>1, <2>2
  <2>4. \A o \in Objects : kind[o] # "free" => kind'[o] # "free" /\ kind'[o] = kind[o]
    BY <2>2, <2>3
  <2>5. kind'[args] = "list" /\ Alive(kind', func) /\ Alive(kind', owner) /\ Alive(kind', d)
    BY <1>1, <1>6, <2>2, <2>3, <2>4 DEF Alive
  <2>6. Lives(kind', <<d>>)
    BY <2>2, <2>5, LivesOnce
  <2>7. HeapOK(kind', parts, sig')
    <3>1. kind' \in [Objects -> Kinds]
      BY <2>1, <2>2 DEF Kinds
    <3>2. parts[d] = <<>> /\ PartsFit("dict", <<>>)
      BY <2>2 DEF HeapOK, PartsFit
    <3>3. \A o \in Objects : PartsFit(kind'[o], parts[o])
      BY <2>2, <2>3, <3>2 DEF HeapOK
    <3> QED
      BY <1>7, <2>2, <3>1, <3>3 DEF HeapOK
  <2> DEFINE kw == <<d>>
  <2>8. Lives(kind', kw) /\ Enter(func, owner, held, args, kw, bound, <<>>, given)
    BY <2>1, <2>6
  <2> HIDE DEF kw, callable
  <2> QED
    BY <1>1, <1>4, <1>5, <1>6, <1>7, <2>2, <2>4, <2>5, <2>7, <2>8, EnterHolds
<1>8. CASE callable /\ UNCHANGED <<kind, sig>>
           /\ Enter(func, owner, held, args, kwargs, bound, <<>>, given)
  <2>1. /\ func \in Objects /\ kind[func] = "function" /\ kind' = kind /\ sig' = sig
        /\ HeapOK(kind, parts, sig)
    BY <1>8 DEF IsKind, Inv
  <2>2. HeapOK(kind', parts, sig') /\ Alive(kind', func) /\ Alive(kind', owner) /\ Lives(kind', kwargs)
    BY <1>4, <1>6, <2>1 DEF Alive
  <2>3. kind'[args] = "list" /\ \A o \in Objects : kind[o] # "free" => kind'[o] # "free"
    BY <1>1, <2>1
  <2> HIDE DEF callable
  <2> QED
    BY <1>1, <1>4, <1>5, <1>6, <1>8, <2>1, <2>2, <2>3, EnterHolds
<1>9. CASE Fails(Below(3), <<>>, held \o given) /\ UNCHANGED heap
  <2> DEFINE all == held \o given
  <2>1. all \in Values /\ \A o : Occurrences(all, o) = Occurrences(held, o) + Occurrences(given, o)
    BY <1>4, <1>5, OccursConcat
  <2>2. Fails(Below(3), <<>>, all)
    BY <1>9
  <2>3. /\ Below(3) \in Values /\ Len(Below(3)) >= Base
        /\ \A o : /\ Occurrences(Fr.stack, o) = Occurrences(Below(3), o) + Occurrences(Upper(3), o)
                  /\ Occurrences(Below(3), o) \in Nat /\ Occurrences(Upper(3), o) \in Nat
    <3>1. 3 \in Nat
      OBVIOUS
    <3> QED
      BY <1>1, <1>2, <3>1, Operands
  <2>4. <<>> \in Values /\ Lives(kind, <<>>)
    BY LivesNone
  <2> HIDE DEF all
  <2>5. ASSUME NEW o \in AllObjects
        PROVE  Occurrences(Below(3), o) + Occurrences(all, o) = Occurrences(Fr.stack, o) + Occurrences(<<>>, o)
    <3> DEFINE z == Occurrences(<<>>, o)
    <3>1. z = 0
      BY OccursNowhere
    <3>2. /\ Occurrences(Upper(3), o) = Occurrences(all, o) /\ Occurrences(Upper(3), o) \in Nat
          /\ Occurrences(Fr.stack, o) = Occurrences(Below(3), o) + Occurrences(Upper(3), o)
          /\ Occurrences(Below(3), o) \in Nat
      BY <1>5, <2>1, <2>3
    <3> HIDE DEF z
    <3>3. Occurrences(Below(3), o) + Occurrences(all, o) = Occurrences(Fr.stack, o) + z
      BY ONLY <3>1, <3>2
    <3> QED
      BY <3>3 DEF z
  <2>6. Inv /\ Running /\ left' = left - 1 /\ UNCHANGED heap
    BY <1>9
  <2> QED
    BY ONLY <2>1, <2>2, <2>3, <2>4, <2>5, <2>6, FailsSimply
<1> QED
  BY <1>1, <1>7, <1>8, <1>9 DEF func, owner, bound
------------------------------------------------------------------------------
(* A run begins with every reference counted. *)

LEMMA TotalZero ==
  ASSUME NEW S, NEW F, NEW o, \A q \in S : F[q] \in Values /\ Occurrences(F[q], o) = 0
  PROVE  Total(S, F, o) = 0
<1>1. \A q \in S : Places(F[q], o) = {}
  <2> SUFFICES ASSUME NEW q \in S PROVE Places(F[q], o) = {}
    OBVIOUS
  <2>1. IsFiniteSet(Places(F[q], o)) /\ Cardinality(Places(F[q], o)) = 0
    BY OccursType DEF Occurrences
  <2> QED
    BY <2>1, FS_EmptySet
<1>2. UNION {{q} \X Places(F[q], o) : q \in S} = {}
  BY <1>1
<1> QED
  BY <1>2, FS_EmptySet DEF Total

LEMMA SequenceOf ==
  ASSUME NEW T \in SUBSET AllObjects, NEW s \in Seq(T)
  PROVE  s \in Values /\ \A o : o \notin T => Occurrences(s, o) = 0
<1>1. Len(s) \in Nat /\ s \in [1 .. Len(s) -> T] /\ DOMAIN s = 1 .. Len(s)
  BY LenProperties
<1>2. s \in [1 .. Len(s) -> AllObjects]
  BY <1>1
<1>3. s \in Values
  BY <1>1, <1>2, SeqDef DEF Values
<1>4. ASSUME NEW o, o \notin T PROVE Occurrences(s, o) = 0
  <2>1. Places(s, o) = {}
    BY <1>1, <1>4 DEF Places
  <2> QED
    BY <2>1, FS_EmptySet DEF Occurrences
<1> QED
  BY <1>3, <1>4

LEMMA FirstFrame ==
  ASSUME NEW s \in Values, NEW n \in 0 .. Len(s),
         NEW fs, fs = <<[NewFrame(Name, Name) EXCEPT !.stack = s, !.n_locals = n]>>
  PROVE  /\ FramesOK(fs) /\ Len(fs) = 1 /\ fs # <<>>
         /\ fs[Len(fs)].held = <<>>
         /\ \A o : Occurrences(s, o) = 0 => FrameRefs(fs, o) = 0
<1> DEFINE f == [NewFrame(Name, Name) EXCEPT !.stack = s, !.n_locals = n]
<1>1. f.stack = s /\ f.n_locals = n /\ f.blocks = <<>> /\ f.owner = Name /\ f.held = <<>>
  BY DEF NewFrame
<1>2. f \in Frame
  <2>1. n \in Nat /\ Name \in AllObjects /\ <<>> \in Values
    BY LivesNone, LenProperties DEF Values, AllObjects, Fixed
  <2>2. NewFrame(Name, Name) \in Frame
    BY <2>1 DEF NewFrame, Frame
  <2> QED
    BY <2>1, <2>2 DEF Frame
<1>3. Len(s) \in Nat
  BY LenProperties DEF Values
<1> HIDE DEF f
<1>4. fs = <<f>>
  BY DEF f
<1>5. fs \in Seq(Frame) /\ Len(fs) = 1 /\ DOMAIN fs = {1} /\ fs[1] = f /\ fs # <<>>
  BY <1>2, <1>4
<1>6. FrameOK(f)
  <2>1. BlocksStand(<<>>, n, Len(s))
    BY DEF BlocksStand
  <2> QED
    BY <1>1, <1>2, <1>3, <2>1 DEF FrameOK
<1>7. FramesOK(fs)
  BY <1>1, <1>5, <1>6 DEF FramesOK, Fixed
<1>8. ASSUME NEW o, Occurrences(s, o) = 0 PROVE FrameRefs(fs, o) = 0
  <2>1. 1 \in 1 .. Len(fs)
    BY <1>5
  <2>2. /\ FrameItems(fs)[1] \in Values
        /\ Occurrences(FrameItems(fs)[1], o) =
             Occurrences(fs[1].stack, o) + Occurrences(fs[1].held, o) + OwnersHeld(fs[1], 1, o)
    BY ONLY <1>7, <2>1, ItemsType
  <2>3. /\ Occurrences(fs[1].stack, o) = 0 /\ Occurrences(fs[1].held, o) = 0
        /\ OwnersHeld(fs[1], 1, o) = 0
    BY <1>1, <1>5, <1>8, OccursNowhere DEF OwnersHeld
  <2>4. \A q \in DOMAIN fs : FrameItems(fs)[q] \in Values /\ Occurrences(FrameItems(fs)[q], o) = 0
    BY <1>5, <2>2, <2>3
  <2>5. Total(DOMAIN fs, FrameItems(fs), o) = 0
    BY ONLY <2>4, TotalZero
  <2> QED
    BY <2>5 DEF FrameRefs
<1> QED
  BY <1>1, <1>5, <1>7, <1>8

LEMMA InitHolds == Init => Inv
<1> SUFFICES ASSUME NEW s \in Scenarios,
        /\ kind = s.kind /\ parts = s.parts /\ sig = s.sig /\ left = s.budget
        /\ frames = <<[NewFrame(Name, Name) EXCEPT !.stack = s.stack, !.n_locals = s.n_locals]>>
        /\ globals = s.globals /\ exception = <<>> /\ phase = "run"
        /\ count = [o \in AllObjects |-> References(o)]
    PROVE Inv
  BY DEF Init
<1> DEFINE there == Fixed \cup {o \in Objects : s.kind[o] # "free"}
           fs == frames
<1>1. /\ s.kind \in [Objects -> Kinds] /\ s.sig \in [Objects -> Signatures \cup {NoSignature}]
      /\ s.parts \in [Objects -> Seq(there)]
      /\ \A o \in Objects : PartsFit(s.kind[o], s.parts[o])
      /\ s.stack \in Seq(there) /\ s.n_locals \in 0 .. Len(s.stack)
      /\ s.globals \in Seq(there) /\ Len(s.globals) <= 1 /\ s.budget \in Nat
  BY ScenariosAssumption
<1>2. there \in SUBSET AllObjects /\ \A o \in AllObjects : o \in there <=> Alive(kind, o)
  BY DEF AllObjects, Alive
<1> HIDE DEF there
<1>3. /\ s.stack \in Values /\ globals \in Values /\ \A q \in Objects : parts[q] \in Values
      /\ \A o : o \notin there => /\ Occurrences(s.stack, o) = 0 /\ Occurrences(globals, o) = 0
                                  /\ \A q \in Objects : Occurrences(parts[q], o) = 0
  <2>1. \A q \in Objects : parts[q] \in Seq(there)
    BY <1>1
  <2> QED
    BY <1>1, <1>2, <2>1, SequenceOf
<1>4. /\ parts \in [Objects -> Values]
  BY <1>1, <1>3
<1>5. HeapOK(kind, parts, sig)
  BY <1>1, <1>4 DEF HeapOK
<1>6. /\ FramesOK(fs) /\ Len(fs) = 1 /\ fs # <<>> /\ fs[Len(fs)].held = <<>>
      /\ \A o : Occurrences(s.stack, o) = 0 => FrameRefs(fs, o) = 0
  <2>1. s.stack \in Values /\ s.n_locals \in 0 .. Len(s.stack)
    BY <1>1, <1>3
  <2>2. fs = <<[NewFrame(Name, Name) EXCEPT !.stack = s.stack, !.n_locals = s.n_locals]>>
    OBVIOUS
  <2> HIDE DEF fs
  <2> QED
    BY ONLY <2>1, <2>2, FirstFrame
<1> HIDE DEF fs
<1>7. exception \in Values /\ Len(exception) = 0
  BY LivesNone
<1>8. CallsOK(fs, globals, exception, phase)
  BY <1>1, <1>3, <1>6, <1>7 DEF CallsOK
<1>9. ASSUME NEW o \in AllObjects
      PROVE  /\ Refs(fs, parts, globals, exception, o) \in Nat
             /\ Refs(fs, parts, globals, exception, o) > 0 => Alive(kind, o)
  <2>1. Refs(fs, parts, globals, exception, o) \in Nat
    BY <1>3, <1>4, <1>6, <1>7, RefsType
  <2>2. CASE o \in there
    BY <1>2, <2>1, <2>2
  <2>3. CASE o \notin there
    <3>1. FrameRefs(fs, o) = 0
      BY <1>3, <1>6, <2>3
    <3>2. PartRefs(parts, o) = 0
      <4>1. \A q \in Objects : parts[q] \in Values /\ Occurrences(parts[q], o) = 0
        BY <1>3, <2>3
      <4> QED
        BY <4>1, TotalZero DEF PartRefs
    <3>3. Occurrences(globals \o exception, o) = 0
      <4>1. globals \o exception = globals
        BY <1>3, ConcatEmptySeq DEF Values
      <4> QED
        BY <1>3, <2>3, <4>1
    <3>4. o \notin Fixed
      BY <2>3 DEF there
    <3> QED
      BY <3>1, <3>2, <3>3, <3>4 DEF Refs
  <2> QED
    BY <2>2, <2>3
<1>10. Counted(fs, kind, parts, globals, exception, count)
  <2>1. \A o \in AllObjects : References(o) = Refs(fs, parts, globals, exception, o)
    BY RefsAre DEF fs
  <2>2. \A o \in AllObjects : count[o] = Refs(fs, parts, globals, exception, o)
    BY <2>1
  <2>3. count \in [AllObjects -> Int]
    BY <1>9, <2>1
  <2> QED
    BY <1>9, <2>2, <2>3 DEF Counted
<1> QED
  BY <1>1, <1>5, <1>6, <1>8, <1>10 DEF Inv, fs
------------------------------------------------------------------------------
(* Every step leaves the references counted, and all but two balance. *)

Unbalanced == phase' = "failed" /\ (unary_op_common \/ do_defdict)

LEMMA InstructionHolds ==
  ASSUME Inv, Running, left' = left - 1, Instruction
  PROVE  Inv' /\ (Excess' = Excess \/ Unbalanced)
<1>1. CASE LoadConst
  BY <1>1, LoadConstHolds
<1>2. CASE do_load_local
  BY <1>2, LoadLocalHolds
<1>3. CASE do_assign_local
  BY <1>3, AssignLocalHolds
<1>4. CASE do_load_global
  BY <1>4, LoadGlobalHolds
<1>5. CASE do_assign_global
  BY <1>5, AssignGlobalHolds
<1>6. CASE do_new_global
  BY <1>6, NewGlobalHolds
<1>7. CASE do_pop
  BY <1>7, PopHolds
<1>8. CASE do_copy
  BY <1>8, CopyHolds
<1>9. CASE do_b_if
  BY <1>9, BranchHolds
<1>10. CASE unary_op_common
  BY <1>10, UnaryHolds DEF Unbalanced
<1>11. CASE binary_op_common
  BY <1>11, BinaryHolds
<1>12. CASE do_deftuple
  BY <1>12, DisplayHolds
<1>13. CASE do_list_append
  BY <1>13, ListAppendHolds
<1>14. CASE do_list_extend
  BY <1>14, ListExtendHolds
<1>15. CASE do_cast_tuple
  BY <1>15, CastTupleHolds
<1>16. CASE do_defdict
  BY <1>16, DictHolds DEF Unbalanced
<1>17. CASE do_defdict_k
  BY <1>17, ConstantDictHolds
<1>18. CASE do_setitem
  BY <1>18, SetItemHolds
<1>19. CASE do_getitem
  BY <1>19, GetItemHolds
<1>20. CASE do_delitem
  BY <1>20, DelItemHolds
<1>21. CASE do_getattr
  BY <1>21, GetAttrHolds
<1>22. CASE do_setattr
  BY <1>22, SetAttrHolds
<1>23. CASE do_foreach_setup
  BY <1>23, ForeachSetupHolds
<1>24. CASE do_foreach_iter
  BY <1>24, ForeachIterHolds
<1>25. CASE do_unpack
  BY <1>25, UnpackHolds
<1>26. CASE do_unpack_special
  BY <1>26, UnpackSpecialHolds
<1>27. CASE do_deffunc
  BY <1>27, DefFuncHolds
<1>28. CASE do_add_closure
  BY <1>28, AddClosureHolds
<1>29. CASE do_push_block
  BY <1>29, PushBlockHolds
<1>30. CASE do_pop_block
  BY <1>30, PopBlockHolds
<1>31. CASE do_break
  BY <1>31, BreakHolds
<1>32. CASE do_throw
  BY <1>32, ThrowHolds
<1>33. CASE do_call_func
  BY <1>33, CallHolds
<1>34. CASE do_call_class
  BY <1>34, CallClassHolds
<1>35. CASE do_return_value
  BY <1>35, ReturnHolds
<1>36. CASE INSTR_END
  BY <1>36, EndHolds
<1> QED
  BY <1>1, <1>2, <1>3, <1>4, <1>5, <1>6, <1>7, <1>8, <1>9, <1>10, <1>11, <1>12, <1>13, <1>14, <1>15, <1>16, <1>17, <1>18, <1>19, <1>20, <1>21, <1>22, <1>23, <1>24, <1>25, <1>26, <1>27, <1>28, <1>29, <1>30, <1>31, <1>32, <1>33, <1>34, <1>35, <1>36 DEF Instruction

LEMMA StepHolds ==
  ASSUME Inv, [Next]_vars
  PROVE  Inv' /\ [Excess' = Excess \/ Unbalanced]_vars
<1>1. CASE Running /\ Instruction /\ left' = left - 1
  BY <1>1, InstructionHolds
<1>2. CASE CallReturns /\ UNCHANGED left
  BY <1>2, CallReturnsHolds
<1>3. CASE Handle /\ UNCHANGED left
  BY <1>3, HandleHolds
<1>4. CASE Propagate /\ UNCHANGED left
  BY <1>4, PropagateHolds
<1>5. CASE Delete /\ UNCHANGED left
  BY <1>5, DeleteHolds
<1>6. CASE UNCHANGED vars
  BY <1>6 DEF Inv, vars
<1> QED
  BY <1>1, <1>2, <1>3, <1>4, <1>5, <1>6 DEF Next

LEMMA CountedIsSound == ASSUME Inv PROVE NothingDangles
<1>1. /\ kind \in [Objects -> Kinds] /\ sig \in [Objects -> Signatures \cup {NoSignature}]
      /\ parts \in [Objects -> Seq(AllObjects)]
      /\ \A o \in Objects : kind[o] = "free" => parts[o] = <<>>
  BY DEF Inv, HeapOK, PartsFit, Values
<1>2. /\ globals \in Seq(AllObjects) /\ exception \in Seq(AllObjects)
      /\ phase \in {"run", "failed", "returned"} /\ left \in Nat /\ FramesOK(frames)
      /\ count \in [AllObjects -> Int]
  BY DEF Inv, CallsOK, Counted, Values
<1>3. \A f \in DOMAIN frames :
        /\ frames[f].stack \in Seq(AllObjects) /\ frames[f].held \in Seq(AllObjects)
        /\ frames[f].n_locals <= Len(frames[f].stack)
  BY <1>2, FrameParts DEF FrameOK, Values
<1>4. TypeOK
  BY <1>1, <1>2, <1>3 DEF TypeOK
<1>5. ASSUME NEW o \in AllObjects
      PROVE  Excess[o] >= 0 /\ (References(o) > 0 => (o \in Fixed \/ kind[o] # "free"))
  <2> DEFINE r == Refs(frames, parts, globals, exception, o)
  <2>1. References(o) = r /\ Excess[o] = count[o] - References(o)
    BY RefsAre DEF Excess
  <2>2. r \in Nat
    <3>1. parts \in [Objects -> Values] /\ globals \in Values /\ exception \in Values
      BY <1>1, <1>2 DEF Values
    <3> QED
      BY <1>2, <3>1, RefsType
  <2>3. count[o] \in Int /\ count[o] >= r /\ (r > 0 => Alive(kind, o))
    BY <1>2 DEF Inv, Counted
  <2> HIDE DEF r
  <2> QED
    BY <2>1, <2>2, <2>3 DEF Alive
<1> QED
  BY <1>4, <1>5 DEF NothingDangles

(* Whatever a stack, an object, a call in progress or the VM refers to is    *)
(* there and counted, in every run of instructions: no handler, error path,  *)
(* return or deletion gives up a reference that another owner still uses.    *)
THEOREM NothingEverDangles == Spec => []NothingDangles
<1>1. Init => Inv
  BY InitHolds
<1>2. Inv /\ [Next]_vars => Inv'
  BY StepHolds
<1>3. Inv => NothingDangles
  BY CountedIsSound
<1> QED
  BY <1>1, <1>2, <1>3, PTL DEF Spec

(* No step loses a reference or makes one up, except that a failing operator *)
(* keeps its operand and a failing dictionary display some of its operands:  *)
(* what the handlers take they give up again on every path.                  *)
THEOREM StepsBalance == Spec => BalancedSteps
<1>1. Init => Inv
  BY InitHolds
<1>2. Inv /\ [Next]_vars => Inv' /\ [Excess' = Excess \/ Unbalanced]_vars
  BY StepHolds
<1> QED
  BY <1>1, <1>2, PTL DEF Spec, BalancedSteps, Unbalanced
==============================================================================
