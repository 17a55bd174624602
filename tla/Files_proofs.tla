---------------------------- MODULE Files_proofs -----------------------------
(***************************************************************************)
(* Buffered files are arrays of bytes with a position: proofs about Files, *)
(* for buffers, files, devices and arguments of any size.                  *)
(***************************************************************************)
EXTENDS Files, SequenceTheorems, FiniteSetTheorems, WellFoundedInduction, TLAPS

------------------------------------------------------------------------------
(* Parts of sequences                                                      *)

LEMMA PartFacts ==
    ASSUME NEW S, NEW s \in Seq(S), NEW m \in Nat, NEW n \in Nat, n <= Len(s)
    PROVE  /\ SubSeq(s, m + 1, n) \in Seq(S)
           /\ Len(SubSeq(s, m + 1, n)) = IF m < n THEN n - m ELSE 0
           /\ \A i \in 1..(n - m) : SubSeq(s, m + 1, n)[i] = s[m + i]
<1>1. m + 1 \in Int /\ n \in Int /\ \A i \in (m + 1)..n : s[i] \in S
  <2>1. \A i \in (m + 1)..n : i \in 1..Len(s)
    OBVIOUS
  <2> QED
    BY <2>1, ElementOfSeq
<1>2. /\ SubSeq(s, m + 1, n) \in Seq(S)
      /\ Len(SubSeq(s, m + 1, n)) = IF m + 1 <= n THEN n - (m + 1) + 1 ELSE 0
      /\ \A i \in 1..(n - (m + 1) + 1) : SubSeq(s, m + 1, n)[i] = s[m + 1 + i - 1]
  BY <1>1, SubSeqProperties
<1>3. /\ m + 1 <= n <=> m < n
      /\ n - (m + 1) + 1 = n - m
      /\ \A i \in 1..(n - m) : m + 1 + i - 1 = m + i
  OBVIOUS
<1> QED
  BY <1>2, <1>3

LEMMA AfterFacts ==
    ASSUME NEW S, NEW s \in Seq(S), NEW n \in Nat
    PROVE  /\ After(s, n) \in Seq(S)
           /\ Len(After(s, n)) = IF n < Len(s) THEN Len(s) - n ELSE 0
           /\ \A i \in 1..(Len(s) - n) : After(s, n)[i] = s[n + i]
<1>1. Len(s) \in Nat /\ Len(s) <= Len(s)
  BY LenProperties
<1> QED
  BY <1>1, PartFacts DEF After

LEMMA UptoFacts ==
    ASSUME NEW S, NEW s \in Seq(S), NEW n \in Nat, n <= Len(s)
    PROVE  /\ Upto(s, n) \in Seq(S) /\ Len(Upto(s, n)) = n
           /\ \A i \in 1..n : Upto(s, n)[i] = s[i]
<1>1. /\ SubSeq(s, 0 + 1, n) \in Seq(S)
      /\ Len(SubSeq(s, 0 + 1, n)) = IF 0 < n THEN n - 0 ELSE 0
      /\ \A i \in 1..(n - 0) : SubSeq(s, 0 + 1, n)[i] = s[0 + i]
  BY PartFacts
<1>2. 0 + 1 = 1 /\ n - 0 = n /\ (IF 0 < n THEN n - 0 ELSE 0) = n /\ \A i \in 1..n : 0 + i = i
  OBVIOUS
<1> QED
  BY <1>1, <1>2 DEF Upto

LEMMA AllFacts ==
    ASSUME NEW S, NEW s \in Seq(S)
    PROVE  Upto(s, Len(s)) = s /\ After(s, 0) = s
<1>1. Len(s) \in Nat /\ Len(s) <= Len(s)
  BY LenProperties
<1>2. /\ Upto(s, Len(s)) \in Seq(S) /\ Len(Upto(s, Len(s))) = Len(s)
      /\ \A i \in 1..Len(s) : Upto(s, Len(s))[i] = s[i]
  BY <1>1, UptoFacts
<1>3. Upto(s, Len(s)) = s
  BY <1>2, SeqEqual
<1>4. 0 + 1 = 1
  OBVIOUS
<1> QED
  BY <1>3, <1>4 DEF Upto, After

(* write(2) keeps what is not written over, and extends the file.          *)
LEMMA WriteAtFacts ==
    ASSUME NEW data \in Seq(Byte), NEW at \in Nat, NEW bytes \in Seq(Byte)
    PROVE  /\ WriteAt(data, at, bytes) \in Seq(Byte)
           /\ bytes = << >> => WriteAt(data, at, bytes) = data
           /\ bytes # << >> =>
                /\ Len(WriteAt(data, at, bytes)) =
                      IF at + Len(bytes) > Len(data) THEN at + Len(bytes) ELSE Len(data)
                /\ \A i \in 1..Len(WriteAt(data, at, bytes)) :
                      WriteAt(data, at, bytes)[i] =
                        IF at < i /\ i <= at + Len(bytes) THEN bytes[i - at]
                        ELSE IF i <= Len(data) THEN data[i] ELSE Zero
<1> DEFINE n == IF at + Len(bytes) > Len(data) THEN at + Len(bytes) ELSE Len(data)
           new == [i \in 1..n |-> IF i \in at + 1..at + Len(bytes) THEN bytes[i - at]
                                  ELSE IF i <= Len(data) THEN data[i] ELSE Zero]
<1>1. Len(bytes) \in Nat /\ Len(data) \in Nat /\ n \in Nat
  BY LenProperties
<1>2. ASSUME NEW i \in 1..n PROVE new[i] \in Byte
  <2>1. CASE i \in at + 1..at + Len(bytes)
    <3>1. i - at \in 1..Len(bytes)
      BY <1>1, <2>1
    <3> QED
      BY <2>1, <3>1, ElementOfSeq
  <2>2. CASE ~(i \in at + 1..at + Len(bytes)) /\ i <= Len(data)
    <3>1. i \in 1..Len(data)
      BY <1>1, <2>2
    <3> QED
      BY <2>2, <3>1, ElementOfSeq
  <2>3. CASE ~(i \in at + 1..at + Len(bytes)) /\ ~(i <= Len(data))
    BY <2>3 DEF Byte
  <2> QED
    BY <2>1, <2>2, <2>3
<1>3. new \in [1..n -> Byte]
  BY <1>2
<1>4. new \in Seq(Byte) /\ Len(new) = n
  BY <1>1, <1>3, IsASeq, LenProperties
<1>5. \A i \in 1..n : i \in at + 1..at + Len(bytes) <=> at < i /\ i <= at + Len(bytes)
  BY <1>1
<1> HIDE DEF n
<1>6. CASE bytes = << >>
  BY <1>6 DEF WriteAt
<1>7. CASE bytes # << >>
  <2>1. WriteAt(data, at, bytes) = new
    BY <1>7 DEF WriteAt, n
  <2>2. \A i \in 1..n : new[i] = IF at < i /\ i <= at + Len(bytes) THEN bytes[i - at]
                                 ELSE IF i <= Len(data) THEN data[i] ELSE Zero
    BY <1>5
  <2> HIDE DEF new
  <2> QED
    BY <1>4, <1>7, <2>1, <2>2 DEF n
<1> QED
  BY <1>6, <1>7

(* read(2) gives what is there, up to the end.                             *)
LEMMA ReadAtFacts ==
    ASSUME NEW data \in Seq(Byte), NEW at \in Nat, NEW n \in Nat
    PROVE  /\ ReadAt(data, at, n) \in Seq(Byte)
           /\ Len(ReadAt(data, at, n)) \in Nat
           /\ Len(ReadAt(data, at, n)) <= n
           /\ Len(ReadAt(data, at, n)) = IF at >= Len(data) THEN 0
                                         ELSE Least(n, Len(data) - at)
           /\ \A i \in 1..Len(ReadAt(data, at, n)) : ReadAt(data, at, n)[i] = data[at + i]
<1> DEFINE end == Least(at + n, Len(data))
<1>1. /\ Len(data) \in Nat /\ end \in Nat /\ end <= Len(data)
      /\ (IF at < end THEN end - at ELSE 0) = (IF at >= Len(data) THEN 0 ELSE Least(n, Len(data) - at))
      /\ (IF at < end THEN end - at ELSE 0) \in Nat /\ (IF at < end THEN end - at ELSE 0) <= n
      /\ \A i \in 1..(IF at < end THEN end - at ELSE 0) : i \in 1..(end - at)
  <2>1. Len(data) \in Nat
    BY LenProperties
  <2> HIDE DEF end
  <2>2. end = IF at + n <= Len(data) THEN at + n ELSE Len(data)
    BY DEF Least, end
  <2>3. Least(n, Len(data) - at) = IF n <= Len(data) - at THEN n ELSE Len(data) - at
    BY DEF Least
  <2> QED
    BY <2>1, <2>2, <2>3
<1> HIDE DEF end
<1>2. /\ SubSeq(data, at + 1, end) \in Seq(Byte)
      /\ Len(SubSeq(data, at + 1, end)) = IF at < end THEN end - at ELSE 0
      /\ \A i \in 1..(end - at) : SubSeq(data, at + 1, end)[i] = data[at + i]
  <2>1. data \in Seq(Byte) /\ at \in Nat /\ end \in Nat /\ end <= Len(data)
    BY <1>1
  <2> QED
    BY ONLY <2>1, PartFacts
<1>3. ReadAt(data, at, n) = SubSeq(data, at + 1, end)
  BY DEF ReadAt, end
<1> QED
  BY <1>1, <1>2, <1>3
------------------------------------------------------------------------------
(* Characters.  What is read is judged where it stands: t is the bytes     *)
(* after place a of s, up to place b.                                      *)
Matches(t, s, a, b) ==
    /\ t \in Seq(Byte) /\ Len(t) = b - a
    /\ a \in Nat /\ b \in Nat /\ a <= b
    /\ \A i \in 1..(b - a) : t[i] = s[a + i]

Marks(s, a, b) == {i \in a + 1..b : s[i] # Trail}
Count(s, a, b) == Cardinality(Marks(s, a, b))

WholeIn(s, a, b) ==
    \A i \in a + 1..b : /\ s[i] = Lead => i < b /\ s[i + 1] = Trail
                        /\ s[i] = Trail => i > a + 1 /\ s[i - 1] = Lead

LEMMA OneMore ==
    ASSUME NEW S, IsFiniteSet(S), NEW n \in Nat, Cardinality(S) <= n, NEW x
    PROVE  IsFiniteSet(S \cup {x}) /\ Cardinality(S \cup {x}) <= n + 1
<1>1. Cardinality(S) \in Nat
  BY FS_CardinalityType
<1>2. CASE x \in S
  <2>1. S \cup {x} = S
    BY <1>2
  <2>2. Cardinality(S) <= n + 1
    BY <1>1
  <2> QED
    BY <2>1, <2>2
<1>3. CASE x \notin S
  <2>1. IsFiniteSet(S \cup {x}) /\ Cardinality(S \cup {x}) = Cardinality(S) + 1
    BY <1>3, FS_AddElement
  <2> QED
    BY <1>1, <2>1
<1> QED
  BY <1>2, <1>3

(* The kinds of bytes are five.                                            *)
LEMMA ByteKinds ==
    /\ Letter # Lead /\ Letter # Trail /\ Letter # Newline /\ Lead # Trail
    /\ Lead # Newline /\ Trail # Newline /\ Zero # Lead /\ Zero # Trail /\ Zero # Newline
<1> SUFFICES ASSUME NEW x, NEW y, NEW z, NEW w, Byte \subseteq {x, y, z, w} PROVE FALSE
  <2>1. ASSUME Letter = Lead PROVE Byte \subseteq {Lead, Trail, Newline, Zero}
    BY <2>1 DEF Byte
  <2>2. ASSUME Letter = Trail PROVE Byte \subseteq {Lead, Trail, Newline, Zero}
    BY <2>2 DEF Byte
  <2>3. ASSUME Letter = Newline PROVE Byte \subseteq {Lead, Trail, Newline, Zero}
    BY <2>3 DEF Byte
  <2>4. ASSUME Lead = Trail PROVE Byte \subseteq {Letter, Trail, Newline, Zero}
    BY <2>4 DEF Byte
  <2>5. ASSUME Lead = Newline PROVE Byte \subseteq {Letter, Trail, Newline, Zero}
    BY <2>5 DEF Byte
  <2>6. ASSUME Trail = Newline PROVE Byte \subseteq {Letter, Lead, Newline, Zero}
    BY <2>6 DEF Byte
  <2>7. ASSUME Zero = Lead PROVE Byte \subseteq {Letter, Lead, Trail, Newline}
    BY <2>7 DEF Byte
  <2>8. ASSUME Zero = Trail PROVE Byte \subseteq {Letter, Lead, Trail, Newline}
    BY <2>8 DEF Byte
  <2>9. ASSUME Zero = Newline PROVE Byte \subseteq {Letter, Lead, Trail, Newline}
    BY <2>9 DEF Byte
  <2> QED
    BY <2>1, <2>2, <2>3, <2>4, <2>5, <2>6, <2>7, <2>8, <2>9
<1>1. IsFiniteSet({x}) /\ Cardinality({x}) <= 1
  <2>1. IsFiniteSet({x}) /\ Cardinality({x}) = 1
    BY FS_Singleton
  <2> QED
    BY <2>1
<1>2. IsFiniteSet({x} \cup {y}) /\ Cardinality({x} \cup {y}) <= 1 + 1
  BY <1>1, OneMore
<1>3. IsFiniteSet(({x} \cup {y}) \cup {z}) /\ Cardinality(({x} \cup {y}) \cup {z}) <= 2 + 1
  <2>1. Cardinality({x} \cup {y}) <= 2
    BY <1>2
  <2> QED
    BY <1>2, <2>1, OneMore
<1>6. /\ IsFiniteSet((({x} \cup {y}) \cup {z}) \cup {w})
      /\ Cardinality((({x} \cup {y}) \cup {z}) \cup {w}) <= 3 + 1
  <2>1. Cardinality(({x} \cup {y}) \cup {z}) <= 3
    BY <1>3
  <2> QED
    BY <1>3, <2>1, OneMore
<1>4. Byte \subseteq ((({x} \cup {y}) \cup {z}) \cup {w})
  OBVIOUS
<1>5. Cardinality(Byte) <= Cardinality((({x} \cup {y}) \cup {z}) \cup {w})
  BY <1>4, <1>6, FS_Subset
<1>7. Cardinality((({x} \cup {y}) \cup {z}) \cup {w}) \in Nat
  BY <1>6, FS_CardinalityType
<1> QED
  BY <1>5, <1>6, <1>7, BytesAssumption

LEMMA CountFacts ==
    ASSUME NEW s, NEW a \in Nat, NEW b \in Nat
    PROVE  /\ IsFiniteSet(Marks(s, a, b)) /\ Count(s, a, b) \in Nat
           /\ b <= a => Count(s, a, b) = 0
           /\ \A i \in a + 1..b : s[i] # Trail => Count(s, a, b) > 0
<1>1. IsFiniteSet(a + 1..b)
  BY FS_Interval
<1>2. Marks(s, a, b) \in SUBSET (a + 1..b)
  BY DEF Marks
<1>3. IsFiniteSet(Marks(s, a, b)) /\ Count(s, a, b) \in Nat
  BY <1>1, <1>2, FS_Subset, FS_CardinalityType DEF Count
<1>4. b <= a => Marks(s, a, b) = {}
  BY DEF Marks
<1>5. \A i \in a + 1..b : s[i] # Trail => Marks(s, a, b) # {}
  BY DEF Marks
<1> QED
  BY <1>3, <1>4, <1>5, FS_EmptySet DEF Count

LEMMA CountAdd ==
    ASSUME NEW s, NEW a \in Nat, NEW b \in Nat, NEW c \in Nat, a <= b, b <= c
    PROVE  Count(s, a, c) = Count(s, a, b) + Count(s, b, c)
<1>1. IsFiniteSet(Marks(s, a, b)) /\ IsFiniteSet(Marks(s, b, c))
  BY CountFacts
<1>2. Marks(s, a, c) = Marks(s, a, b) \cup Marks(s, b, c)
  <2>1. \A i : i \in a + 1..c <=> i \in a + 1..b \/ i \in b + 1..c
    OBVIOUS
  <2> QED
    BY <2>1 DEF Marks
<1>3. Marks(s, a, b) \cap Marks(s, b, c) = {}
  BY DEF Marks
<1>4. Cardinality(Marks(s, a, c)) = Cardinality(Marks(s, a, b)) + Cardinality(Marks(s, b, c)) - 0
  BY <1>1, <1>2, <1>3, FS_Union, FS_EmptySet
<1>5. Count(s, a, b) \in Nat /\ Count(s, b, c) \in Nat
  BY CountFacts
<1> QED
  BY <1>4, <1>5 DEF Count

LEMMA CountOne ==
    ASSUME NEW s, NEW a \in Nat
    PROVE  Count(s, a, a + 1) = IF s[a + 1] = Trail THEN 0 ELSE 1
<1>1. a + 1..a + 1 = {a + 1}
  OBVIOUS
<1>2. CASE s[a + 1] = Trail
  <2>1. Marks(s, a, a + 1) = {}
    BY <1>1, <1>2 DEF Marks
  <2> QED
    BY <1>2, <2>1, FS_EmptySet DEF Count
<1>3. CASE s[a + 1] # Trail
  <2>1. Marks(s, a, a + 1) = {a + 1}
    BY <1>1, <1>3 DEF Marks
  <2> QED
    BY <1>3, <2>1, FS_Singleton DEF Count
<1> QED
  BY <1>2, <1>3

(* The characters of a part are counted where it stands.                   *)
LEMMA CharactersOf ==
    ASSUME NEW t, NEW s, NEW a, NEW b, Matches(t, s, a, b)
    PROVE  Characters(t) = Count(s, a, b)
<1> DEFINE M == {i \in DOMAIN t : t[i] # Trail}
           f == [i \in M |-> a + i]
<1>1. DOMAIN t = 1..(b - a) /\ a \in Nat /\ b \in Nat /\ a <= b
  BY LenProperties DEF Matches
<1>2. IsFiniteSet(M)
  <2>1. IsFiniteSet(1..(b - a))
    BY <1>1, FS_Interval
  <2>2. M \in SUBSET (1..(b - a))
    BY <1>1
  <2> QED
    BY <2>1, <2>2, FS_Subset
<1>3. \A i \in M : i \in Int /\ a + i \in Marks(s, a, b)
  BY <1>1 DEF Matches, Marks
<1>4. \A j \in Marks(s, a, b) : j - a \in M /\ a + (j - a) = j
  BY <1>1 DEF Matches, Marks
<1> HIDE DEF M
<1>5. f \in [M -> Marks(s, a, b)] /\ (\A i, j \in M : f[i] = f[j] => i = j)
      /\ \A j \in Marks(s, a, b) : \E i \in M : f[i] = j
  BY <1>1, <1>3, <1>4
<1>6. f \in Bijection(M, Marks(s, a, b))
  BY <1>5 DEF Bijection, Injection, Surjection, IsInjective
<1>7. ExistsBijection(M, Marks(s, a, b))
  BY <1>6 DEF ExistsBijection
<1> QED
  BY <1>2, <1>7, FS_Bijection DEF Characters, Count, M

LEMMA WholeOf ==
    ASSUME NEW t, NEW s, NEW a, NEW b, Matches(t, s, a, b), NEW k \in 0..(b - a)
    PROVE  Whole(t, k) <=> WholeIn(s, a, a + k)
<1>1. a \in Nat /\ b \in Nat /\ a <= b /\ k \in Nat /\ k <= b - a
      /\ \A i \in 1..(b - a) : t[i] = s[a + i]
  BY DEF Matches
<1>2. ASSUME Whole(t, k) PROVE WholeIn(s, a, a + k)
  <2> SUFFICES ASSUME NEW i \in a + 1..a + k
               PROVE  /\ s[i] = Lead => i < a + k /\ s[i + 1] = Trail
                      /\ s[i] = Trail => i > a + 1 /\ s[i - 1] = Lead
    BY DEF WholeIn
  <2>1. /\ i - a \in 1..k /\ i - a \in 1..(b - a) /\ t[i - a] = s[i]
        /\ i - a < k => t[i - a + 1] = s[i + 1] /\ i < a + k
        /\ i - a > 1 => t[i - a - 1] = s[i - 1] /\ i > a + 1
    <3>1. i - a \in 1..k /\ i - a \in 1..(b - a) /\ a + (i - a) = i
      BY <1>1
    <3>2. i - a < k => i - a + 1 \in 1..(b - a) /\ a + (i - a + 1) = i + 1 /\ i < a + k
      BY <1>1, <3>1
    <3>3. i - a > 1 => i - a - 1 \in 1..(b - a) /\ a + (i - a - 1) = i - 1 /\ i > a + 1
      BY <1>1, <3>1
    <3> QED
      BY <1>1, <3>1, <3>2, <3>3
  <2> QED
    BY <1>2, <2>1 DEF Whole
<1>3. ASSUME WholeIn(s, a, a + k) PROVE Whole(t, k)
  <2> SUFFICES ASSUME NEW i \in 1..k
               PROVE  /\ t[i] = Lead => i < k /\ t[i + 1] = Trail
                      /\ t[i] = Trail => i > 1 /\ t[i - 1] = Lead
    BY DEF Whole
  <2>1. /\ a + i \in a + 1..a + k /\ t[i] = s[a + i]
        /\ a + i < a + k => i < k /\ t[i + 1] = s[a + i + 1]
        /\ a + i > a + 1 => i > 1 /\ t[i - 1] = s[a + i - 1]
    <3>1. a + i \in a + 1..a + k /\ i \in 1..(b - a)
      BY <1>1
    <3>2. a + i < a + k => i < k /\ i + 1 \in 1..(b - a) /\ a + (i + 1) = a + i + 1
      BY <1>1
    <3>3. a + i > a + 1 => i > 1 /\ i - 1 \in 1..(b - a) /\ a + (i - 1) = a + i - 1
      BY <1>1
    <3> QED
      BY <1>1, <3>1, <3>2, <3>3
  <2> QED
    BY <1>1, <1>3, <2>1 DEF WholeIn
<1> QED
  BY <1>2, <1>3

(* Whole characters after whole characters are whole, and only they.       *)
LEMMA WholeSplit ==
    ASSUME NEW s, NEW a \in Nat, NEW b \in Nat, NEW c \in Nat, a <= b, b <= c,
           WholeIn(s, a, b)
    PROVE  /\ WholeIn(s, b, c) <=> WholeIn(s, a, c)
           /\ b < c /\ WholeIn(s, a, c) => s[b + 1] # Trail
<1>1. ASSUME WholeIn(s, b, c) PROVE WholeIn(s, a, c)
  <2> SUFFICES ASSUME NEW i \in a + 1..c
               PROVE  /\ s[i] = Lead => i < c /\ s[i + 1] = Trail
                      /\ s[i] = Trail => i > a + 1 /\ s[i - 1] = Lead
    BY DEF WholeIn
  <2>1. CASE i <= b
    <3>1. i \in a + 1..b /\ (i < b => i < c)
      BY <2>1
    <3> QED
      BY <3>1 DEF WholeIn
  <2>2. CASE i > b
    <3>1. i \in b + 1..c /\ (i > b + 1 => i > a + 1)
      BY <2>2
    <3> QED
      BY <1>1, <3>1 DEF WholeIn
  <2> QED
    BY <2>1, <2>2
<1>2. ASSUME WholeIn(s, a, c), b < c PROVE s[b + 1] # Trail
  <2> SUFFICES ASSUME s[b + 1] = Trail PROVE FALSE
    OBVIOUS
  <2>1. b + 1 \in a + 1..c /\ b + 1 - 1 = b
    BY <1>2
  <2>2. b + 1 > a + 1 /\ s[b] = Lead
    BY <1>2, <2>1 DEF WholeIn
  <2>3. b \in a + 1..b /\ ~(b < b)
    BY <2>2
  <2> QED
    BY <2>2, <2>3 DEF WholeIn
<1>3. ASSUME WholeIn(s, a, c) PROVE WholeIn(s, b, c)
  <2> SUFFICES ASSUME NEW i \in b + 1..c
               PROVE  /\ s[i] = Lead => i < c /\ s[i + 1] = Trail
                      /\ s[i] = Trail => i > b + 1 /\ s[i - 1] = Lead
    BY DEF WholeIn
  <2>1. i \in a + 1..c /\ b < c /\ (i # b + 1 => i > b + 1)
    OBVIOUS
  <2>2. i = b + 1 => s[i] # Trail
    BY <1>2, <1>3, <2>1
  <2> QED
    BY <1>3, <2>1, <2>2 DEF WholeIn
<1> QED
  BY <1>1, <1>2, <1>3

LEMMA PartMatches ==
    ASSUME NEW t, NEW s, NEW a, NEW b, Matches(t, s, a, b), NEW k \in 0..(b - a)
    PROVE  Matches(Upto(t, k), s, a, a + k) /\ Matches(After(t, k), s, a + k, b)
<1>1. /\ t \in Seq(Byte) /\ Len(t) = b - a /\ a \in Nat /\ b \in Nat /\ k \in Nat
      /\ k <= b - a /\ a + k \in Nat /\ a + k <= b /\ a <= a + k
      /\ \A i \in 1..(b - a) : t[i] = s[a + i]
  BY DEF Matches
<1>2. /\ Upto(t, k) \in Seq(Byte) /\ Len(Upto(t, k)) = k
      /\ \A i \in 1..k : Upto(t, k)[i] = t[i]
  <2>1. t \in Seq(Byte) /\ k \in Nat /\ k <= Len(t)
    BY <1>1
  <2> QED
    BY ONLY <2>1, UptoFacts
<1>3. a + k - a = k /\ \A i \in 1..k : i \in 1..(b - a)
  BY <1>1
<1>4. Matches(Upto(t, k), s, a, a + k)
  <2>1. \A i \in 1..k : Upto(t, k)[i] = s[a + i]
    BY <1>1, <1>2, <1>3
  <2> QED
    BY <1>1, <1>2, <1>3, <2>1 DEF Matches
<1>5. /\ After(t, k) \in Seq(Byte) /\ Len(After(t, k)) = IF k < Len(t) THEN Len(t) - k ELSE 0
      /\ \A i \in 1..(Len(t) - k) : After(t, k)[i] = t[k + i]
  <2>1. t \in Seq(Byte) /\ k \in Nat
    BY <1>1
  <2> QED
    BY ONLY <2>1, AfterFacts
<1>6. /\ (IF k < Len(t) THEN Len(t) - k ELSE 0) = b - (a + k)
      /\ \A i \in 1..(b - (a + k)) : /\ i \in 1..(Len(t) - k) /\ k + i \in 1..(b - a)
                                     /\ a + (k + i) = a + k + i
  BY <1>1
<1>7. Matches(After(t, k), s, a + k, b)
  BY <1>1, <1>5, <1>6 DEF Matches
<1> QED
  BY <1>4, <1>7

(* Nothing more can be decoded from s[e + 1..b]: it goes on with what is   *)
(* no character, or with the beginning of one.                             *)
Broken(s, e, b) ==
    /\ e < b
    /\ \/ s[e + 1] = Trail
       \/ s[e + 1] = Lead /\ (e + 1 = b \/ s[e + 2] # Trail)

(* Decoding s[a + 1..b] stops at e: at the end, at the n-th character, or  *)
(* where nothing more can be decoded.                                      *)
Stops(s, a, b, n, e) ==
    /\ e \in a..b /\ WholeIn(s, a, e)
    /\ n < 0 \/ Count(s, a, e) <= n
    /\ \/ e = b
       \/ n >= 0 /\ Count(s, a, e) = n
       \/ Broken(s, e, b)

Ends(t, n) == {k \in 0..Len(t) : Whole(t, k) /\ (n < 0 \/ Characters(Upto(t, k)) <= n)}

LEMMA EndsOf ==
    ASSUME NEW t, NEW s, NEW a, NEW b, Matches(t, s, a, b), NEW n \in Int
    PROVE  /\ \A k \in 0..(b - a) :
                k \in Ends(t, n) <=> WholeIn(s, a, a + k) /\ (n < 0 \/ Count(s, a, a + k) <= n)
           /\ \A k \in Ends(t, n) : k \in 0..(b - a)
           /\ 0 \in Ends(t, n)
<1>1. Len(t) = b - a /\ a \in Nat /\ b \in Nat /\ a <= b
  BY DEF Matches
<1>2. \A k \in 0..(b - a) :
         k \in Ends(t, n) <=> WholeIn(s, a, a + k) /\ (n < 0 \/ Count(s, a, a + k) <= n)
  <2> TAKE k \in 0..(b - a)
  <2>1. Matches(Upto(t, k), s, a, a + k)
    BY PartMatches
  <2>2. Characters(Upto(t, k)) = Count(s, a, a + k)
    BY <2>1, CharactersOf
  <2>3. Whole(t, k) <=> WholeIn(s, a, a + k)
    BY WholeOf
  <2> QED
    BY <1>1, <2>2, <2>3 DEF Ends
<1>3. \A k \in Ends(t, n) : k \in 0..(b - a)
  BY <1>1 DEF Ends
<1>4. 0 \in 0..(b - a) /\ a + 0 = a
  BY <1>1
<1>5. WholeIn(s, a, a)
  BY <1>1 DEF WholeIn
<1>6. Count(s, a, a) = 0
  BY <1>1, CountFacts
<1> QED
  BY <1>2, <1>3, <1>4, <1>5, <1>6

(* The last of some places there are.                                      *)
LEMMA LastExists ==
    ASSUME NEW m \in Nat, NEW E, \A k \in E : k \in 0..m, E # {}
    PROVE  \E k \in E : \A other \in E : other <= k
<1> DEFINE T == {i \in Nat : \E k \in E : i = m - k}
           R == OpToRel(<, Nat)
<1>1. T \subseteq Nat /\ T # {}
  OBVIOUS
<1>2. IsWellFoundedOn(R, Nat)
  BY NatLessThanWellFounded
<1> HIDE DEF R
<1>3. \E x \in T : \A y \in T : ~ (<<y, x>> \in R)
  BY <1>1, <1>2, WFMin
<1>4. \A i \in Nat, j \in Nat : i < j => <<i, j>> \in R
  BY DEF R, OpToRel
<1>5. PICK x \in T : \A y \in T : ~ (y < x)
  BY <1>3, <1>4
<1>6. PICK k \in E : x = m - k
  OBVIOUS
<1>7. \A other \in E : m - other \in T
  OBVIOUS
<1>8. \A other \in E : other <= k
  BY <1>5, <1>6, <1>7
<1> QED
  BY <1>6, <1>8

LEMMA DecodedStops ==
    ASSUME NEW t, NEW s, NEW a, NEW b, Matches(t, s, a, b), NEW n \in Int
    PROVE  Decoded(t, n) \in 0..(b - a) /\ Stops(s, a, b, n, a + Decoded(t, n))
<1> DEFINE k == Decoded(t, n)
           e == a + k
<1>1. a \in Nat /\ b \in Nat /\ a <= b /\ b - a \in Nat
  BY DEF Matches
<1>2. k \in Ends(t, n) /\ \A other \in Ends(t, n) : other <= k
  <2>1. \E last \in Ends(t, n) : \A other \in Ends(t, n) : other <= last
    BY <1>1, EndsOf, LastExists
  <2>2. k = CHOOSE last \in Ends(t, n) : \A other \in Ends(t, n) : other <= last
    BY DEF Decoded, Ends
  <2> HIDE DEF k
  <2> QED
    BY <2>1, <2>2
<1> HIDE DEF k
<1>3. k \in 0..(b - a) /\ e \in a..b /\ e \in Nat
  BY <1>1, <1>2, EndsOf
<1>4. WholeIn(s, a, e) /\ (n < 0 \/ Count(s, a, e) <= n)
  BY <1>2, <1>3, EndsOf
<1>8. a <= e /\ e <= b /\ k = e - a
  BY <1>1, <1>3
<1> HIDE DEF e
<1>5. ASSUME NEW c \in Nat, e < c, c <= b, WholeIn(s, e, c), n < 0 \/ Count(s, a, c) <= n
      PROVE  FALSE
  <2>1. WholeIn(s, a, c)
    BY <1>1, <1>3, <1>4, <1>5, <1>8, WholeSplit
  <2>2. c - a \in 0..(b - a) /\ a + (c - a) = c /\ ~(c - a <= k)
    BY <1>1, <1>3, <1>5, <1>8
  <2>3. c - a \in Ends(t, n)
    <3>1. WholeIn(s, a, a + (c - a)) /\ (n < 0 \/ Count(s, a, a + (c - a)) <= n)
      BY <1>5, <2>1, <2>2
    <3> QED
      BY <2>2, <3>1, EndsOf
  <2> QED
    BY <1>2, <2>2, <2>3
<1>6. ASSUME e # b, ~(n >= 0 /\ Count(s, a, e) = n), ~Broken(s, e, b) PROVE FALSE
  <2>1. e + 1 \in Nat /\ e < e + 1 /\ e + 1 <= b /\ a <= e /\ e < b
    BY <1>1, <1>3, <1>6, <1>8
  <2>2. s[e + 1] # Trail /\ (s[e + 1] = Lead => e + 2 <= b /\ s[e + 2] = Trail)
    BY <1>1, <1>3, <1>6, <2>1 DEF Broken
  <2>3. Count(s, a, e) \in Nat /\ Count(s, a, e + 1) = Count(s, a, e) + 1
    <3>1. Count(s, e, e + 1) = 1
      BY <1>3, <2>2, CountOne
    <3>2. Count(s, a, e + 1) = Count(s, a, e) + Count(s, e, e + 1)
      BY <1>1, <1>3, <2>1, CountAdd
    <3> QED
      BY <1>1, <1>3, <3>1, <3>2, CountFacts
  <2>4. n < 0 \/ Count(s, a, e + 1) <= n
    BY <1>4, <1>6, <2>3
  <2>5. CASE s[e + 1] # Lead
    <3>1. WholeIn(s, e, e + 1)
      <4>1. \A i \in e + 1..e + 1 : i = e + 1
        BY <1>3
      <4> QED
        BY <2>2, <2>5, <4>1 DEF WholeIn
    <3> QED
      BY <1>5, <2>1, <2>4, <3>1
  <2>6. CASE s[e + 1] = Lead
    <3>1. /\ e + 2 \in Nat /\ e < e + 2 /\ e + 2 <= b /\ s[e + 2] = Trail
          /\ e + 1 + 1 = e + 2 /\ e + 2 - 1 = e + 1 /\ e + 1 < e + 2
      BY <1>3, <2>2, <2>6
    <3>2. WholeIn(s, e, e + 2)
      <4>1. \A i \in e + 1..e + 2 : i = e + 1 \/ i = e + 2
        BY <1>3
      <4> QED
        BY <1>3, <2>6, <3>1, <4>1, ByteKinds DEF WholeIn
    <3>3. Count(s, a, e + 2) = Count(s, a, e + 1)
      <4>1. Count(s, e + 1, e + 1 + 1) = 0
        BY <2>1, <3>1, CountOne
      <4>2. a <= e + 1 /\ e + 1 <= e + 2
        BY <1>1, <1>3, <2>1
      <4>3. Count(s, a, e + 2) = Count(s, a, e + 1) + Count(s, e + 1, e + 2)
        BY <1>1, <2>1, <3>1, <4>2, CountAdd
      <4> QED
        BY <2>3, <3>1, <4>1, <4>3
    <3> QED
      BY <1>5, <2>4, <3>1, <3>2, <3>3
  <2> QED
    BY <2>5, <2>6
<1>7. Stops(s, a, b, n, e)
  BY <1>3, <1>4, <1>6 DEF Stops
<1> QED
  BY <1>3, <1>7 DEF k, e

LEMMA StopsIsDecoded ==
    ASSUME NEW t, NEW s, NEW a, NEW b, Matches(t, s, a, b), NEW n \in Int,
           NEW e, Stops(s, a, b, n, e)
    PROVE  Decoded(t, n) = e - a
<1> DEFINE k == e - a
<1>1. a \in Nat /\ b \in Nat /\ a <= b /\ e \in Nat /\ a <= e /\ e <= b
      /\ k \in 0..(b - a) /\ a + k = e
  BY DEF Matches, Stops
<1>2. WholeIn(s, a, e) /\ (n < 0 \/ Count(s, a, e) <= n)
  BY DEF Stops
<1>3. k \in Ends(t, n)
  <2>1. WholeIn(s, a, a + k) /\ (n < 0 \/ Count(s, a, a + k) <= n)
    BY <1>1, <1>2
  <2> QED
    BY <1>1, <2>1, EndsOf
<1>4. ASSUME NEW other \in Ends(t, n), ~(other <= k) PROVE FALSE
  <2> DEFINE c == a + other
  <2>1. other \in 0..(b - a) /\ WholeIn(s, a, c) /\ (n < 0 \/ Count(s, a, c) <= n)
    BY EndsOf
  <2>2. c \in Nat /\ e < c /\ c <= b /\ e + 1 \in e + 1..c
    BY <1>1, <1>4, <2>1
  <2> HIDE DEF c
  <2>3. WholeIn(s, e, c) /\ s[e + 1] # Trail
    BY <1>1, <1>2, <2>1, <2>2, WholeSplit
  <2>4. Count(s, a, c) = Count(s, a, e) + Count(s, e, c)
    BY <1>1, <2>2, CountAdd
  <2>5. Count(s, a, e) \in Nat /\ Count(s, e, c) \in Nat /\ Count(s, e, c) > 0
    BY <1>1, <2>2, <2>3, CountFacts
  <2>6. ~(n >= 0 /\ Count(s, a, e) = n)
    BY <2>1, <2>4, <2>5
  <2>7. Broken(s, e, b)
    BY <1>1, <2>2, <2>6 DEF Stops
  <2>8. s[e + 1] = Lead => e + 1 < c /\ s[e + 1 + 1] = Trail
    BY <2>2, <2>3 DEF WholeIn
  <2>9. e + 1 + 1 = e + 2 /\ (e + 1 < c => e + 1 # b)
    BY <1>1, <2>2
  <2> QED
    BY <2>3, <2>7, <2>8, <2>9 DEF Broken
<1>5. Decoded(t, n) = CHOOSE last \in Ends(t, n) : \A other \in Ends(t, n) : other <= last
  BY DEF Decoded, Ends
<1>6. ASSUME NEW last \in Ends(t, n), \A other \in Ends(t, n) : other <= last
      PROVE  last = k
  <2>1. last \in 0..(b - a) /\ last <= k /\ k <= last
    BY <1>3, <1>4, <1>6, EndsOf
  <2> QED
    BY <1>1, <2>1
<1>7. \A other \in Ends(t, n) : other <= k
  BY <1>4
<1> HIDE DEF k
<1>8. Decoded(t, n) = k
  BY <1>3, <1>5, <1>6, <1>7
<1> QED
  BY <1>8 DEF k

LEMMA MalformedOf ==
    ASSUME NEW t, NEW s, NEW a, NEW b, Matches(t, s, a, b)
    PROVE  Malformed(t) <=> Broken(s, a, b) /\ ~(s[a + 1] = Lead /\ a + 1 = b)
<1>1. /\ t \in Seq(Byte) /\ Len(t) = b - a /\ a \in Nat /\ b \in Nat /\ a <= b
      /\ \A i \in 1..(b - a) : t[i] = s[a + i]
  BY DEF Matches
<1>2. t # << >> <=> a < b
  <2>1. t = << >> <=> Len(t) = 0
    BY <1>1, EmptySeq
  <2> QED
    BY <1>1, <2>1
<1>3. a < b => t[1] = s[a + 1] /\ a + 1 <= b
  BY <1>1
<1>4. /\ Len(t) > 1 => t[2] = s[a + 2]
      /\ a < b => (Len(t) > 1 <=> a + 1 # b)
  BY <1>1
<1> QED
  BY <1>2, <1>3, <1>4, ByteKinds DEF Malformed, Broken

(* The line that begins after a ends at c: at its end of line or at b.     *)
LineEnd(s, a, b, c) ==
    /\ c \in a..b
    /\ \A i \in a + 1..c - 1 : s[i] # Newline
    /\ c = b \/ (c > a /\ s[c] = Newline)

LEMMA LineEndUnique ==
    ASSUME NEW s, NEW a \in Nat, NEW b \in Nat, NEW c, NEW d,
           LineEnd(s, a, b, c), LineEnd(s, a, b, d)
    PROVE  c = d
<1>1. c \in Nat /\ d \in Nat /\ a <= c /\ c <= b /\ a <= d /\ d <= b
  BY DEF LineEnd
<1>2. ~(c < d)
  <2> SUFFICES ASSUME c < d PROVE FALSE
    OBVIOUS
  <2>1. c > a /\ s[c] = Newline /\ c \in a + 1..d - 1
    BY <1>1 DEF LineEnd
  <2> QED
    BY <2>1 DEF LineEnd
<1>3. ~(d < c)
  <2> SUFFICES ASSUME d < c PROVE FALSE
    OBVIOUS
  <2>1. d > a /\ s[d] = Newline /\ d \in a + 1..c - 1
    BY <1>1 DEF LineEnd
  <2> QED
    BY <2>1 DEF LineEnd
<1> QED
  BY <1>1, <1>2, <1>3

(* The first of some places there are.                                     *)
LEMMA FirstExists ==
    ASSUME NEW E, \A k \in E : k \in Nat, E # {}
    PROVE  \E k \in E : \A other \in E : k <= other
<1> DEFINE R == OpToRel(<, Nat)
<1>1. IsWellFoundedOn(R, Nat)
  BY NatLessThanWellFounded
<1>2. \A i \in Nat, j \in Nat : i < j => <<i, j>> \in R
  BY DEF R, OpToRel
<1> HIDE DEF R
<1>3. PICK x \in E : \A y \in E : ~ (<<y, x>> \in R)
  <2>1. E \subseteq Nat
    OBVIOUS
  <2> QED
    BY <1>1, <2>1, WFMin
<1>4. \A y \in E : ~ (y < x)
  BY <1>2, <1>3
<1>5. \A y \in E : x <= y
  BY <1>4
<1> QED
  BY <1>3, <1>5

LEMMA LineOf ==
    ASSUME NEW t, NEW s, NEW a, NEW b, Matches(t, s, a, b)
    PROVE  \E c \in a..b : LineEnd(s, a, b, c) /\ Matches(Line(t), s, a, c)
<1> DEFINE E == {i \in DOMAIN t : t[i] = Newline}
<1>1. /\ t \in Seq(Byte) /\ Len(t) = b - a /\ a \in Nat /\ b \in Nat /\ a <= b
      /\ \A i \in 1..(b - a) : t[i] = s[a + i]
  BY DEF Matches
<1>2. DOMAIN t = 1..(b - a)
  BY <1>1, LenProperties
<1>3. /\ \A i \in E : i \in 1..(b - a) /\ s[a + i] = Newline
      /\ \A i \in a + 1..b : s[i] = Newline => i - a \in E
  <2>1. \A i \in a + 1..b : i - a \in 1..(b - a) /\ a + (i - a) = i
    BY <1>1
  <2> QED
    BY <1>1, <1>2, <2>1
<1>4. Line(t) = IF E = {} THEN t ELSE Upto(t, CHOOSE i \in E : \A other \in E : i <= other)
  BY DEF Line
<1> HIDE DEF E
<1>5. CASE E = {}
  <2>1. b \in a..b /\ \A i \in a + 1..b - 1 : i \in a + 1..b
    BY <1>1
  <2>3. \A i \in a + 1..b : s[i] # Newline
    BY <1>3, <1>5
  <2>2. LineEnd(s, a, b, b)
    BY <2>1, <2>3 DEF LineEnd
  <2> QED
    BY <1>4, <1>5, <2>1, <2>2
<1>6. CASE E # {}
  <2> DEFINE k == CHOOSE i \in E : \A other \in E : i <= other
  <2>1. \E i \in E : \A other \in E : i <= other
    BY <1>3, <1>6, FirstExists
  <2>2. k \in E /\ \A other \in E : k <= other
    BY <2>1
  <2>3. Line(t) = Upto(t, k)
    BY <1>4, <1>6
  <2> HIDE DEF k
  <2>4. k \in 1..(b - a) /\ k \in 0..(b - a) /\ s[a + k] = Newline /\ a + k \in a..b /\ a + k > a
    BY <1>1, <1>3, <2>2
  <2>5. ASSUME NEW i \in a + 1..a + k - 1, s[i] = Newline PROVE FALSE
    <3>1. i \in a + 1..b /\ ~(k <= i - a)
      BY <1>1, <2>4
    <3> QED
      BY <1>3, <2>2, <2>5, <3>1
  <2>6. LineEnd(s, a, b, a + k)
    <3>1. \A i \in a + 1..a + k - 1 : s[i] # Newline
      BY <2>5
    <3> QED
      BY <1>1, <2>4, <3>1 DEF LineEnd
  <2>7. Matches(Upto(t, k), s, a, a + k)
    BY <2>4, PartMatches
  <2> QED
    BY <2>3, <2>4, <2>6, <2>7
<1> QED
  BY <1>5, <1>6
------------------------------------------------------------------------------
(* What is unread of a buffer (from p on) is what stands before the offset *)
(* of the descriptor.                                                      *)
SyncedAt(buf, p, data, at) ==
    /\ p \in Nat /\ p <= Len(buf) /\ Len(buf) - p <= at
    /\ Len(buf) - p > 0 => at <= Len(data)
    /\ Matches(After(buf, p), data, at - (Len(buf) - p), at)

LEMMA EmptySynced ==
    ASSUME NEW data, NEW at \in Nat
    PROVE  SyncedAt(<< >>, 0, data, at)
<1>1. << >> \in Seq(Byte) /\ Len(<< >>) = 0
  BY EmptySeq
<1>2. After(<< >>, 0) = << >>
  BY <1>1, AllFacts
<1>3. at - (Len(<< >>) - 0) = at /\ at - at = 0 /\ Len(<< >>) - 0 = 0
  BY <1>1
<1>4. Matches(<< >>, data, at, at)
  BY <1>1, <1>3 DEF Matches
<1>5. Matches(After(<< >>, 0), data, at - (Len(<< >>) - 0), at)
  BY <1>2, <1>3, <1>4
<1> QED
  BY <1>1, <1>3, <1>5 DEF SyncedAt

(* Reading on in the buffer.                                               *)
LEMMA SyncedOn ==
    ASSUME NEW buf \in Seq(Byte), NEW p, NEW data, NEW at \in Nat, SyncedAt(buf, p, data, at),
           NEW k \in 0..(Len(buf) - p)
    PROVE  SyncedAt(buf, p + k, data, at)
<1> DEFINE n == Len(buf)
           rest == After(buf, p)
           more == After(buf, p + k)
<1>1. n \in Nat /\ p \in Nat /\ p <= n /\ n - p <= at /\ (n - p > 0 => at <= Len(data))
  BY LenProperties DEF SyncedAt
<1>2. /\ rest \in Seq(Byte) /\ Len(rest) = at - (at - (n - p))
      /\ \A i \in 1..(at - (at - (n - p))) : rest[i] = data[at - (n - p) + i]
  BY DEF SyncedAt, Matches
<1>3. \A i \in 1..(n - p) : rest[i] = buf[p + i]
  BY <1>1, AfterFacts
<1>4. p + k \in Nat /\ p + k <= n
  BY <1>1
<1>5. /\ more \in Seq(Byte) /\ Len(more) = IF p + k < n THEN n - (p + k) ELSE 0
      /\ \A i \in 1..(n - (p + k)) : more[i] = buf[p + k + i]
  BY <1>4, AfterFacts
<1> HIDE DEF n, rest, more
<1>6. ASSUME NEW i \in 1..(n - (p + k)) PROVE more[i] = data[at - (n - (p + k)) + i]
  <2> DEFINE j == k + i
  <2>1. /\ j \in 1..(n - p) /\ p + j = p + k + i
        /\ at - (n - p) + j = at - (n - (p + k)) + i
        /\ at - (at - (n - p)) = n - p
    BY <1>1, <1>4
  <2> HIDE DEF j
  <2>2. rest[j] = data[at - (n - p) + j]
    BY <1>2, <2>1
  <2>3. rest[j] = buf[p + j]
    BY <1>3, <2>1
  <2>4. more[i] = buf[p + k + i]
    BY <1>5
  <2> QED
    BY <2>1, <2>2, <2>3, <2>4
<1>7. Matches(more, data, at - (n - (p + k)), at)
  <2>1. /\ Len(more) = n - (p + k) /\ at - (at - (n - (p + k))) = n - (p + k)
        /\ at - (n - (p + k)) \in Nat /\ at - (n - (p + k)) <= at
    BY <1>1, <1>4, <1>5
  <2> QED
    BY <1>5, <1>6, <2>1 DEF Matches
<1>8. n - (p + k) <= at /\ (n - (p + k) > 0 => at <= Len(data))
  BY <1>1, <1>4
<1> QED
  BY <1>4, <1>7, <1>8 DEF SyncedAt, n, more

(* A buffer just read, of which t bytes are taken.                         *)
LEMMA SyncedRead ==
    ASSUME NEW data \in Seq(Byte), NEW at \in Nat, NEW n \in Nat,
           NEW t \in 0..Len(ReadAt(data, at, n))
    PROVE  SyncedAt(ReadAt(data, at, n), t, data, at + Len(ReadAt(data, at, n)))
<1> DEFINE got == ReadAt(data, at, n)
           m == Len(got)
<1>1. got \in Seq(Byte) /\ m \in Nat /\ (\A i \in 1..m : got[i] = data[at + i])
      /\ m = IF at >= Len(data) THEN 0 ELSE Least(n, Len(data) - at)
  BY ReadAtFacts
<1>2. m > 0 => at + m <= Len(data)
  <2>1. Len(data) \in Nat
    BY LenProperties
  <2>2. Least(n, Len(data) - at) = IF n <= Len(data) - at THEN n ELSE Len(data) - at
    BY DEF Least
  <2> HIDE DEF m, got
  <2> QED
    BY <1>1, <2>1, <2>2
<1> HIDE DEF got
<1>3. After(got, 0) = got
  BY <1>1, AllFacts
<1>4. /\ at + m - (m - 0) = at /\ at + m - at = m /\ at \in Nat /\ at + m \in Nat
      /\ at <= at + m
  BY <1>1
<1>5. Matches(got, data, at, at + m)
  BY <1>1, <1>4 DEF Matches
<1> HIDE DEF m
<1>6. SyncedAt(got, 0, data, at + m)
  <2>1. 0 <= m /\ m - 0 <= at + m /\ (m - 0 > 0 => at + m <= Len(data))
    BY <1>1, <1>2
  <2> QED
    BY <1>3, <1>4, <1>5, <2>1 DEF SyncedAt, m
<1>7. t \in 0..(Len(got) - 0) /\ 0 + t = t
  BY <1>1 DEF m, got
<1>8. SyncedAt(got, 0 + t, data, at + m)
  BY <1>1, <1>4, <1>6, <1>7, SyncedOn
<1> QED
  BY <1>7, <1>8 DEF m, got

(* A buffer refilled behind what was unread.                               *)
LEMMA SyncedRefill ==
    ASSUME NEW buf \in Seq(Byte), NEW p, NEW data \in Seq(Byte), NEW at \in Nat,
           SyncedAt(buf, p, data, at), NEW n \in Nat, ReadAt(data, at, n) # << >>
    PROVE  /\ SyncedAt(After(buf, p) \o ReadAt(data, at, n), 0, data,
                       at + Len(ReadAt(data, at, n)))
           /\ After(buf, p) \o ReadAt(data, at, n) \in Seq(Byte)
           /\ Len(After(buf, p) \o ReadAt(data, at, n))
                = Len(buf) - p + Len(ReadAt(data, at, n))
<1> DEFINE got == ReadAt(data, at, n)
           m == Len(got)
           rest == After(buf, p)
           u == Len(buf) - p
           new == rest \o got
<1>1. got \in Seq(Byte) /\ m \in Nat /\ (\A i \in 1..m : got[i] = data[at + i])
      /\ m = IF at >= Len(data) THEN 0 ELSE Least(n, Len(data) - at)
  BY ReadAtFacts
<1>2. m > 0 /\ at + m <= Len(data)
  <2>1. Len(data) \in Nat /\ m # 0
    BY <1>1, LenProperties, EmptySeq
  <2>2. Least(n, Len(data) - at) = IF n <= Len(data) - at THEN n ELSE Len(data) - at
    BY DEF Least
  <2> HIDE DEF m, got
  <2> QED
    BY <1>1, <2>1, <2>2
<1>3. u \in Nat /\ u <= at
  BY LenProperties DEF SyncedAt
<1>4. rest \in Seq(Byte) /\ Len(rest) = u /\ \A i \in 1..u : rest[i] = data[at - u + i]
  <2>1. /\ rest \in Seq(Byte) /\ Len(rest) = at - (at - u)
        /\ \A i \in 1..(at - (at - u)) : rest[i] = data[at - u + i]
    BY DEF SyncedAt, Matches
  <2>2. at - (at - u) = u
    BY <1>3
  <2> QED
    BY <2>1, <2>2
<1> HIDE DEF got, rest, u
<1>5. /\ new \in Seq(Byte) /\ Len(new) = u + m
      /\ \A i \in 1..(u + m) : new[i] = IF i <= u THEN rest[i] ELSE got[i - u]
  <2>1. /\ new \in Seq(Byte) /\ Len(new) = Len(rest) + Len(got)
        /\ \A i \in 1..(Len(rest) + Len(got)) :
               new[i] = IF i <= Len(rest) THEN rest[i] ELSE got[i - Len(rest)]
    <3>1. rest \in Seq(Byte) /\ got \in Seq(Byte)
      BY <1>1, <1>4
    <3> QED
      BY ONLY <3>1, ConcatProperties
  <2> QED
    BY <1>4, <2>1
<1> HIDE DEF m
<1>6. ASSUME NEW i \in 1..(u + m) PROVE new[i] = data[at - u + i]
  <2>1. CASE i <= u
    <3>1. i \in 1..u
      BY <1>3, <2>1
    <3> QED
      BY <1>4, <1>5, <2>1, <3>1
  <2>2. CASE ~(i <= u)
    <3>1. i - u \in 1..m /\ at + (i - u) = at - u + i
      BY <1>1, <1>3, <2>2
    <3> QED
      BY <1>1, <1>5, <2>2, <3>1
  <2> QED
    BY <2>1, <2>2
<1> HIDE DEF new
<1>7. After(new, 0) = new
  BY <1>5, AllFacts
<1>8. /\ at + m - (u + m - 0) = at - u /\ at + m - (at - u) = u + m /\ at - u \in Nat /\ at + m \in Nat
      /\ at - u <= at + m /\ 0 <= u + m /\ u + m - 0 <= at + m
  BY <1>1, <1>3
<1>9. Matches(new, data, at - u, at + m)
  <2>1. new \in Seq(Byte) /\ Len(new) = at + m - (at - u)
    BY <1>5, <1>8
  <2>2. \A i \in 1..(at + m - (at - u)) : new[i] = data[at - u + i]
    BY <1>6, <1>8
  <2> QED
    BY <1>1, <1>3, <1>8, <2>1, <2>2 DEF Matches
<1>10. SyncedAt(new, 0, data, at + m)
  <2>3. Len(new) = u + m /\ m \in Nat
    BY <1>1, <1>5
  <2>1. 0 <= Len(new) /\ Len(new) - 0 <= at + m /\ at + m - (Len(new) - 0) = at - u
    BY ONLY <1>3, <2>3, at \in Nat
  <2>2. Matches(After(new, 0), data, at + m - (Len(new) - 0), at + m)
    BY <1>7, <1>9, <2>1
  <2> QED
    BY <1>1, <1>2, <2>1, <2>2 DEF SyncedAt
<1> QED
  BY <1>5, <1>10 DEF got, m, rest, u, new
------------------------------------------------------------------------------
(* Calls on the descriptor                                                 *)

LEMMA RawReadFacts ==
    ASSUME NEW data \in Seq(Byte), NEW at \in Nat, NEW n \in Int
    PROVE  \E m \in Nat : /\ RawRead(data, at, n) = ReadAt(data, at, m)
                          /\ m = IF n < 0 THEN Len(data) ELSE n
<1>1. Len(data) \in Nat /\ (IF n < 0 THEN Len(data) ELSE n) \in Nat
  BY LenProperties
<1> QED
  BY <1>1 DEF RawRead

(* The device takes all or as much as it has room for.                     *)
LEMMA RawWriteFacts ==
    ASSUME disk \in Seq(Byte), NEW bytes \in Seq(Byte), NEW at \in Nat
    PROVE  /\ RawWrite(bytes, at).disk \in Seq(Byte) /\ RawWrite(bytes, at).off \in Nat
           /\ \E room \in 0..Len(bytes) :
                /\ RawWrite(bytes, at).disk = WriteAt(disk, at, Upto(bytes, room))
                /\ RawWrite(bytes, at).off = at + room
                /\ RawWrite(bytes, at).ok <=> room = Len(bytes)
                /\ room > 0 => at + room <= Space
                /\ room # Len(bytes) => at + Len(bytes) > Space /\ (at >= Space \/ at + room = Space)
<1> DEFINE room == IF at >= Space THEN 0 ELSE Least(Len(bytes), Space - at)
<1>1. Len(bytes) \in Nat /\ Space \in Nat
  BY LenProperties, FilesAssumption
<1>2. Least(Len(bytes), Space - at) = IF Len(bytes) <= Space - at THEN Len(bytes) ELSE Space - at
  BY DEF Least
<1>3. /\ room \in 0..Len(bytes) /\ (room > 0 => at + room <= Space)
      /\ room # Len(bytes) => at + Len(bytes) > Space /\ (at >= Space \/ at + room = Space)
  BY <1>1, <1>2
<1>4. /\ RawWrite(bytes, at).disk = WriteAt(disk, at, Upto(bytes, room))
      /\ RawWrite(bytes, at).off = at + room
      /\ RawWrite(bytes, at).ok = (room = Len(bytes))
  BY DEF RawWrite
<1> HIDE DEF room
<1>5. Upto(bytes, room) \in Seq(Byte)
  BY <1>1, <1>3, UptoFacts
<1>6. WriteAt(disk, at, Upto(bytes, room)) \in Seq(Byte) /\ at + room \in Nat
  BY <1>1, <1>3, <1>5, WriteAtFacts
<1> QED
  BY <1>3, <1>4, <1>6

(* Writing nothing changes nothing.                                        *)
LEMMA WriteNothing ==
    ASSUME disk \in Seq(Byte), NEW at \in Nat
    PROVE  RawWrite(<< >>, at).disk = disk /\ RawWrite(<< >>, at).off = at /\ RawWrite(<< >>, at).ok
<1>1. << >> \in Seq(Byte) /\ Len(<< >>) = 0
  BY EmptySeq
<1>2. PICK room \in 0..Len(<< >>) :
         /\ RawWrite(<< >>, at).disk = WriteAt(disk, at, Upto(<< >>, room))
         /\ RawWrite(<< >>, at).off = at + room
         /\ RawWrite(<< >>, at).ok <=> room = Len(<< >>)
  BY <1>1, RawWriteFacts
<1>3. room = 0
  BY <1>1, <1>2
<1>4. Upto(<< >>, 0) = << >>
  <2>1. Upto(<< >>, 0) \in Seq(Byte) /\ Len(Upto(<< >>, 0)) = 0
    BY <1>1, UptoFacts
  <2> QED
    BY <2>1, EmptySeq
<1> QED
  BY <1>1, <1>2, <1>3, <1>4 DEF WriteAt
------------------------------------------------------------------------------
(* The invariant that holds whatever is asked for.  A text file keeps      *)
(* nothing to be written, a raw file has no buffer, and a file that is     *)
(* closed has written what it had; only a text file can be in the middle   *)
(* of a call.                                                              *)
Asks  == {Ask("read", n, << >>, "set") : n \in Int} \cup {AskFor("readline")}
Reads == [at : {"decode", "fill"}, request : Asks, out : Seq(Byte), at_eof : BOOLEAN]

CallOK == \/ call \in {Idle, Dead}
          \/ call \in Reads /\ file.kind = "text" /\ open /\ file.readable

KindOK == /\ file.kind # "binary" => outbuf = << >>
          /\ file.kind = "raw" => inbuf = << >>
          /\ ~open => outbuf = << >>
          /\ outbuf # << >> => inbuf = << >>

SafeInv == TypeOK /\ CallOK /\ KindOK /\ SyncedAt(inbuf, inpos, disk, off)

LEMMA CallTypes ==
    ASSUME NEW c
    PROVE  /\ c \in {Idle, Dead} => c.at \in {"idle", "dead"}
           /\ c \in Reads => c.at \in {"decode", "fill"}
BY DEF Idle, Dead, Reads

LEMMA SafeFacts ==
    ASSUME SafeInv
    PROVE  /\ disk \in Seq(Byte) /\ outbuf \in Seq(Byte) /\ inbuf \in Seq(Byte)
           /\ off \in Nat /\ inpos \in Nat /\ Len(inbuf) \in Nat /\ Len(outbuf) \in Nat
           /\ Unread = Len(inbuf) - inpos /\ Unread \in Nat /\ Unread <= off /\ off - Unread \in Nat
           /\ inbuf = << >> => inpos = 0 /\ Unread = 0
           /\ Matches(After(inbuf, inpos), disk, off - Unread, off)
<1>1. /\ disk \in Seq(Byte) /\ outbuf \in Seq(Byte) /\ inbuf \in Seq(Byte)
      /\ off \in Nat /\ inpos \in Nat /\ Len(inbuf) \in Nat /\ Len(outbuf) \in Nat
  BY LenProperties DEF SafeInv, TypeOK
<1>2. Unread = Len(inbuf) - inpos
  BY DEF Unread
<1>3. /\ inpos <= Len(inbuf) /\ Len(inbuf) - inpos <= off
      /\ Matches(After(inbuf, inpos), disk, off - Unread, off)
  BY <1>2 DEF SafeInv, SyncedAt
<1>4. inbuf = << >> => Len(inbuf) = 0
  BY EmptySeq
<1> QED
  BY <1>1, <1>2, <1>3, <1>4

LEMMA SafeInit == Init => SafeInv
<1> SUFFICES ASSUME Init PROVE SafeInv
  OBVIOUS
<1>1. << >> \in Seq(Byte) /\ 0 \in Nat
  BY EmptySeq
<1>2. disk \in Seq(Byte)
  BY FilesAssumption DEF Init
<1>3. SyncedAt(inbuf, inpos, disk, off)
  BY <1>1, EmptySynced DEF Init
<1> QED
  BY <1>1, <1>2, <1>3 DEF Init, SafeInv, TypeOK, CallOK, KindOK, Idle

LEMMA QuietKeeps == SafeInv /\ UNCHANGED file /\ Untouched => SafeInv'
BY DEF SafeInv, TypeOK, CallOK, KindOK, Untouched

(* The end of the process.                                                 *)
LEMMA DiesKeeps == SafeInv /\ UNCHANGED file /\ Dies => SafeInv'
<1> SUFFICES ASSUME SafeInv, UNCHANGED file, Dies PROVE SafeInv'
  OBVIOUS
<1>1. call' = Dead /\ Dead.at = "dead"
  BY DEF Dies, Dead, Idle
<1> QED
  BY <1>1 DEF SafeInv, TypeOK, CallOK, KindOK, Dies

LEMMA LseekType ==
    ASSUME NEW asked, NEW data \in Seq(Byte), NEW at \in Nat, NEW n \in Int, NEW from \in Origins,
           Lseek(asked, data, at, n, from)
    PROVE  off' \in Nat
<1>1. Target(data, at, n, from) \in Int
  <2>1. Len(data) \in Nat
    BY LenProperties
  <2> QED
    BY <2>1 DEF Target, Origins
<1> QED
  BY <1>1 DEF Lseek
------------------------------------------------------------------------------
LEMMA RawReadKeeps ==
    ASSUME NEW n \in Counts
    PROVE  SafeInv /\ UNCHANGED file /\ do_raw_read(n) => SafeInv'
<1> SUFFICES ASSUME SafeInv, UNCHANGED file, do_raw_read(n) PROVE SafeInv'
  OBVIOUS
<1> DEFINE got == RawRead(disk, off, n)
<1>1. CASE Dies
  BY <1>1, DiesKeeps
<1>2. CASE ~Dies
  <2>1. /\ off' = off + Len(got) /\ file.kind = "raw" /\ call = Idle
        /\ UNCHANGED <<disk, open, outbuf, inbuf, inpos, ft_eof, call>>
    BY <1>2 DEF do_raw_read, On
  <2>2. n \in Int
    BY FilesAssumption
  <2>3. off' \in Nat
    <3>1. PICK m \in Nat : got = ReadAt(disk, off, m)
      BY <2>2, SafeFacts, RawReadFacts
    <3>2. Len(got) \in Nat
      BY <3>1, SafeFacts, ReadAtFacts
    <3> QED
      BY <2>1, <3>2, SafeFacts
  <2>4. inbuf = << >> /\ inpos = 0
    BY <2>1, SafeFacts DEF SafeInv, KindOK
  <2>5. SyncedAt(inbuf', inpos', disk', off')
    BY <2>1, <2>3, <2>4, EmptySynced
  <2> QED
    BY <2>1, <2>3, <2>5 DEF SafeInv, TypeOK, CallOK, KindOK
<1> QED
  BY <1>1, <1>2

LEMMA RawWriteKeeps ==
    ASSUME NEW bytes \in Chunks
    PROVE  SafeInv /\ UNCHANGED file /\ do_raw_write(bytes) => SafeInv'
<1> SUFFICES ASSUME SafeInv, UNCHANGED file, do_raw_write(bytes) PROVE SafeInv'
  OBVIOUS
<1>1. /\ disk' = RawWrite(bytes, off).disk /\ off' = RawWrite(bytes, off).off
      /\ file.kind = "raw" /\ call = Idle
      /\ UNCHANGED <<open, outbuf, inbuf, inpos, ft_eof, call>>
  BY DEF do_raw_write, On
<1>2. bytes \in Seq(Byte)
  BY FilesAssumption
<1>3. disk' \in Seq(Byte) /\ off' \in Nat
  BY <1>1, <1>2, SafeFacts, RawWriteFacts
<1>4. inbuf = << >> /\ inpos = 0
  BY <1>1, SafeFacts DEF SafeInv, KindOK
<1>5. SyncedAt(inbuf', inpos', disk', off')
  BY <1>1, <1>3, <1>4, EmptySynced
<1> QED
  BY <1>1, <1>3, <1>5 DEF SafeInv, TypeOK, CallOK, KindOK

LEMMA RawSeekKeeps ==
    ASSUME NEW n \in Offsets, NEW from \in Origins
    PROVE  SafeInv /\ UNCHANGED file /\ do_raw_seek(n, from) => SafeInv'
<1> SUFFICES ASSUME SafeInv, UNCHANGED file, do_raw_seek(n, from) PROVE SafeInv'
  OBVIOUS
<1>1. /\ Lseek(Ask("seek", n, << >>, from), disk, off, n, from)
      /\ file.kind = "raw" /\ call = Idle
      /\ UNCHANGED <<disk, open, outbuf, inbuf, inpos, ft_eof, call>>
  BY DEF do_raw_seek, On
<1>2. n \in Int
  BY FilesAssumption
<1>3. off' \in Nat
  BY <1>1, <1>2, SafeFacts, LseekType
<1>4. inbuf = << >> /\ inpos = 0
  BY <1>1, SafeFacts DEF SafeInv, KindOK
<1>5. SyncedAt(inbuf', inpos', disk', off')
  BY <1>1, <1>3, <1>4, EmptySynced
<1> QED
  BY <1>1, <1>3, <1>5 DEF SafeInv, TypeOK, CallOK, KindOK

LEMMA CloseKeeps == SafeInv /\ UNCHANGED file /\ CloseRaw => SafeInv'
<1> SUFFICES ASSUME SafeInv, UNCHANGED file, CloseRaw PROVE SafeInv'
  OBVIOUS
<1>1. /\ open' = FALSE /\ file.kind # "binary" /\ call = Idle
      /\ UNCHANGED <<disk, off, outbuf, inbuf, inpos, ft_eof, call>>
  BY DEF CloseRaw
<1> QED
  BY <1>1 DEF SafeInv, TypeOK, CallOK, KindOK

LEMMA ResetKeeps == SafeInv /\ UNCHANGED file /\ Reset => SafeInv'
<1> SUFFICES ASSUME SafeInv, UNCHANGED file, Reset PROVE SafeInv'
  OBVIOUS
<1>1. /\ open' = FALSE /\ outbuf' = << >> /\ inbuf' = << >> /\ inpos' = 0 /\ call = Idle
      /\ UNCHANGED <<disk, off, ft_eof, call>>
  BY DEF Reset, Clearbuf
<1>2. SyncedAt(inbuf', inpos', disk', off')
  BY <1>1, SafeFacts, EmptySynced
<1>3. << >> \in Seq(Byte) /\ 0 \in Nat
  BY EmptySeq
<1> QED
  BY <1>1, <1>2, <1>3 DEF SafeInv, TypeOK, CallOK, KindOK
------------------------------------------------------------------------------
(* A read goes on in the buffer, or writes out what waits and refills it.  *)
LEMMA BinReadKeeps ==
    ASSUME NEW n \in Counts
    PROVE  SafeInv /\ UNCHANGED file /\ do_bin_read(n) => SafeInv'
<1> SUFFICES ASSUME SafeInv, UNCHANGED file, do_bin_read(n) PROVE SafeInv'
  OBVIOUS
<1> DEFINE flushed == bin_flush(outbuf, off)
           need    == IF n < 0 THEN -1
                      ELSE IF n - Unread < IO_BUFFER_SIZE THEN IO_BUFFER_SIZE ELSE n - Unread
           got     == RawRead(flushed.disk, flushed.off, need)
           taken   == IF n < 0 THEN Len(got) ELSE Least(n - Unread, Len(got))
<1>1. n \in Int /\ IO_BUFFER_SIZE \in Nat
  BY FilesAssumption
<1>2. file.kind = "binary" /\ call = Idle
  BY DEF do_bin_read, On
<1>3. CASE Dies
  BY <1>3, DiesKeeps
<1>4. CASE inbuf # << >> /\ n >= 0 /\ n <= Unread
  <2>1. UNCHANGED <<disk, off, open, outbuf, ft_eof, call>>
    BY <1>4 DEF do_bin_read
  <2>2. CASE inpos + n = Len(inbuf)
    <3>1. inbuf' = << >> /\ inpos' = 0
      BY <1>4, <2>2 DEF do_bin_read
    <3>2. SyncedAt(inbuf', inpos', disk', off')
      BY <2>1, <3>1, SafeFacts, EmptySynced
    <3>3. << >> \in Seq(Byte) /\ 0 \in Nat
      BY EmptySeq
    <3> QED
      BY <2>1, <3>1, <3>2, <3>3 DEF SafeInv, TypeOK, CallOK, KindOK
  <2>3. CASE inpos + n # Len(inbuf)
    <3>1. inbuf' = inbuf /\ inpos' = inpos + n
      BY <1>4, <2>3 DEF do_bin_read
    <3>2. n \in 0..(Len(inbuf) - inpos)
      BY <1>1, <1>4, SafeFacts
    <3>3. SyncedAt(inbuf, inpos + n, disk, off)
      BY <3>2, SafeFacts, SyncedOn DEF SafeInv
    <3>4. inpos + n \in Nat
      BY <3>2, SafeFacts
    <3> QED
      BY <2>1, <3>1, <3>3, <3>4 DEF SafeInv, TypeOK, CallOK, KindOK
  <2> QED
    BY <2>2, <2>3
<1>5. CASE ~(inbuf # << >> /\ n >= 0 /\ n <= Unread) /\ ~Dies
  <2>1. /\ disk' = flushed.disk /\ off' = flushed.off + Len(got)
        /\ outbuf' = << >> /\ inbuf' = got /\ inpos' = taken
        /\ UNCHANGED <<open, ft_eof, call>>
    BY <1>5 DEF do_bin_read
  <2>2. flushed.disk \in Seq(Byte) /\ flushed.off \in Nat
    BY SafeFacts, RawWriteFacts DEF bin_flush
  <2>3. need \in Int /\ (n >= 0 => n - Unread \in Nat)
    BY <1>1, <1>5, SafeFacts
  <2> HIDE DEF flushed, need
  <2>4. PICK m \in Nat : got = ReadAt(flushed.disk, flushed.off, m)
    BY <2>2, <2>3, RawReadFacts
  <2>5. got \in Seq(Byte) /\ Len(got) \in Nat
    BY <2>2, <2>4, ReadAtFacts
  <2>6. taken \in 0..Len(got)
    BY <1>1, <2>3, <2>5 DEF Least
  <2> HIDE DEF taken
  <2>7. SyncedAt(got, taken, flushed.disk, flushed.off + Len(got))
    BY <2>2, <2>4, <2>6, SyncedRead
  <2> HIDE DEF got
  <2>8. << >> \in Seq(Byte) /\ taken \in Nat /\ flushed.off + Len(got) \in Nat
    BY <2>2, <2>5, <2>6, EmptySeq
  <2> QED
    BY <1>2, <2>1, <2>2, <2>5, <2>7, <2>8 DEF SafeInv, TypeOK, CallOK, KindOK
<1> QED
  BY <1>3, <1>4, <1>5

(* What is unread is given back before anything is kept to be written.     *)
LEMMA BinWriteKeeps ==
    ASSUME NEW bytes \in Chunks
    PROVE  SafeInv /\ UNCHANGED file /\ do_bin_write(bytes) => SafeInv'
<1> SUFFICES ASSUME SafeInv, UNCHANGED file, do_bin_write(bytes) PROVE SafeInv'
  OBVIOUS
<1> DEFINE all     == outbuf \o bytes
           flushed == bin_flush(all, off - Unread)
<1>1. /\ file.kind = "binary" /\ call = Idle /\ open /\ inbuf' = << >> /\ inpos' = 0
      /\ UNCHANGED <<open, ft_eof, call>>
      /\ \/ disk' = flushed.disk /\ off' = flushed.off /\ outbuf' = << >>
         \/ disk' = disk /\ off' = off - Unread /\ outbuf' = all
  BY DEF do_bin_write, On, Usable
<1>2. all \in Seq(Byte)
  <2>1. bytes \in Seq(Byte)
    BY FilesAssumption
  <2> QED
    BY <2>1, SafeFacts, ConcatProperties
<1>3. flushed.disk \in Seq(Byte) /\ flushed.off \in Nat
  BY <1>2, SafeFacts, RawWriteFacts DEF bin_flush
<1> HIDE DEF all, flushed
<1>4. disk' \in Seq(Byte) /\ off' \in Nat /\ outbuf' \in Seq(Byte) /\ inbuf' \in Seq(Byte) /\ inpos' \in Nat
  BY <1>1, <1>2, <1>3, SafeFacts, EmptySeq
<1>5. SyncedAt(inbuf', inpos', disk', off')
  BY <1>1, <1>4, EmptySynced
<1> QED
  BY <1>1, <1>4, <1>5 DEF SafeInv, TypeOK, CallOK, KindOK

(* Writing out what waits leaves the other buffer as it is: one of them is *)
(* empty.                                                                  *)
LEMMA FlushedFacts ==
    ASSUME SafeInv
    PROVE  /\ bin_flush(outbuf, off).disk \in Seq(Byte)
           /\ bin_flush(outbuf, off).off \in Nat
           /\ SyncedAt(inbuf, inpos, bin_flush(outbuf, off).disk, bin_flush(outbuf, off).off)
<1> DEFINE flushed == bin_flush(outbuf, off)
<1>1. flushed.disk \in Seq(Byte) /\ flushed.off \in Nat
  BY SafeFacts, RawWriteFacts DEF bin_flush
<1>2. CASE outbuf = << >>
  <2>1. flushed.disk = disk /\ flushed.off = off
    BY <1>2, SafeFacts, WriteNothing DEF bin_flush
  <2> QED
    BY <1>1, <2>1 DEF SafeInv
<1>3. CASE outbuf # << >>
  <2>1. inbuf = << >> /\ inpos = 0
    BY <1>3, SafeFacts DEF SafeInv, KindOK
  <2> HIDE DEF flushed
  <2>2. SyncedAt(inbuf, inpos, flushed.disk, flushed.off)
    BY <1>1, <2>1, EmptySynced
  <2> QED
    BY <1>1, <2>2 DEF flushed
<1> QED
  BY <1>2, <1>3

LEMMA BinFlushKeeps == SafeInv /\ UNCHANGED file /\ do_bin_flush => SafeInv'
<1> SUFFICES ASSUME SafeInv, UNCHANGED file, do_bin_flush PROVE SafeInv'
  OBVIOUS
<1>1. /\ disk' = bin_flush(outbuf, off).disk /\ off' = bin_flush(outbuf, off).off
      /\ outbuf' = << >> /\ call = Idle /\ UNCHANGED <<open, inbuf, inpos, ft_eof, call>>
  BY DEF do_bin_flush, On
<1>2. << >> \in Seq(Byte)
  BY EmptySeq
<1> QED
  BY <1>1, <1>2, FlushedFacts DEF SafeInv, TypeOK, CallOK, KindOK

LEMMA BinSeekKeeps ==
    ASSUME NEW n \in Offsets, NEW from \in Origins
    PROVE  SafeInv /\ UNCHANGED file /\ do_bin_seek(n, from) => SafeInv'
<1> SUFFICES ASSUME SafeInv, UNCHANGED file, do_bin_seek(n, from) PROVE SafeInv'
  OBVIOUS
<1> DEFINE flushed == bin_flush(outbuf, off)
           by      == IF from = "cur" THEN n - Unread ELSE n
<1>1. /\ disk' = flushed.disk /\ outbuf' = << >> /\ call = Idle /\ UNCHANGED <<open, ft_eof, call>>
  BY DEF do_bin_seek, On
<1>2. << >> \in Seq(Byte) /\ 0 \in Nat /\ by \in Int
  BY SafeFacts, EmptySeq, FilesAssumption
<1>3. CASE ~flushed.ok
  <2>1. off' = flushed.off /\ UNCHANGED <<inbuf, inpos>>
    BY <1>3 DEF do_bin_seek
  <2> QED
    BY <1>1, <1>2, <2>1, FlushedFacts DEF SafeInv, TypeOK, CallOK, KindOK
<1>4. CASE flushed.ok
  <2>1. /\ inbuf' = << >> /\ inpos' = 0
        /\ Lseek(Ask("seek", n, << >>, from), flushed.disk, flushed.off, by, from)
    BY <1>4 DEF do_bin_seek
  <2>2. off' \in Nat
    BY <1>2, <2>1, FlushedFacts, LseekType
  <2>3. SyncedAt(inbuf', inpos', disk', off')
    BY <2>1, <2>2, EmptySynced
  <2> QED
    BY <1>1, <1>2, <2>1, <2>2, <2>3, FlushedFacts DEF SafeInv, TypeOK, CallOK, KindOK
<1> QED
  BY <1>3, <1>4

LEMMA BinCloseKeeps == SafeInv /\ UNCHANGED file /\ do_bin_close => SafeInv'
<1> SUFFICES ASSUME SafeInv, UNCHANGED file, do_bin_close PROVE SafeInv'
  OBVIOUS
<1> DEFINE flushed == bin_flush(outbuf, off)
<1>1. CASE ~open
  BY <1>1, QuietKeeps DEF do_bin_close
<1>2. CASE open
  <2>1. /\ disk' = flushed.disk /\ off' = flushed.off /\ outbuf' = << >> /\ call = Idle
        /\ UNCHANGED <<ft_eof, call>>
        /\ \/ inbuf' = << >> /\ inpos' = 0 /\ open' = FALSE
           \/ UNCHANGED <<inbuf, inpos, open>>
    BY <1>2 DEF do_bin_close, On
  <2>2. << >> \in Seq(Byte) /\ 0 \in Nat
    BY EmptySeq
  <2>3. CASE inbuf' = << >> /\ inpos' = 0 /\ open' = FALSE
    <3>1. SyncedAt(inbuf', inpos', disk', off')
      BY <2>1, <2>3, FlushedFacts, EmptySynced
    <3> QED
      BY <2>1, <2>2, <2>3, <3>1, FlushedFacts DEF SafeInv, TypeOK, CallOK, KindOK
  <2>4. CASE UNCHANGED <<inbuf, inpos, open>>
    BY <2>1, <2>2, <2>4, FlushedFacts DEF SafeInv, TypeOK, CallOK, KindOK
  <2> QED
    BY <2>1, <2>3, <2>4
<1> QED
  BY <1>1, <1>2
------------------------------------------------------------------------------
(* Reading text                                                            *)

LEMMA TextReadBeginsKeeps ==
    ASSUME NEW asked \in Asks
    PROVE  SafeInv /\ UNCHANGED file /\ TextReadBegins(asked) => SafeInv'
<1> SUFFICES ASSUME SafeInv, UNCHANGED file, TextReadBegins(asked) PROVE SafeInv'
  OBVIOUS
<1>1. /\ file.kind = "text" /\ open /\ file.readable
      /\ call' = [at |-> "decode", request |-> asked, out |-> << >>, at_eof |-> FALSE]
      /\ UNCHANGED <<disk, off, open, outbuf, inbuf, inpos, ft_eof>>
  <2>1. asked.op \in {"read", "readline"} => file.readable
    BY DEF TextReadBegins, Usable
  <2> QED
    BY DEF TextReadBegins, On, Usable
<1>2. call' \in Reads
  BY <1>1, EmptySeq DEF Reads
<1>3. call'.at = "decode"
  BY <1>1
<1> QED
  BY <1>1, <1>2, <1>3 DEF SafeInv, TypeOK, CallOK, KindOK

LEMMA AsksFacts ==
    ASSUME NEW asked \in Asks
    PROVE  asked.op \in {"read", "readline"} /\ asked.n \in Int
<1>1. CASE asked = AskFor("readline")
  BY <1>1 DEF Ask, AskFor
<1>2. CASE asked # AskFor("readline")
  <2>1. PICK n \in Int : asked = Ask("read", n, << >>, "set")
    BY <1>2 DEF Asks
  <2> QED
    BY <2>1 DEF Ask
<1> QED
  BY <1>1, <1>2

LEMMA ReadsFacts ==
    ASSUME NEW c \in Reads
    PROVE  /\ c.request \in Asks /\ c.out \in Seq(Byte) /\ c.at_eof \in BOOLEAN
           /\ c.at \in {"decode", "fill"}
BY DEF Reads

LEMMA ReadsMove ==
    ASSUME NEW c \in Reads, NEW at \in {"decode", "fill"}, NEW out \in Seq(Byte), NEW eof \in BOOLEAN
    PROVE  /\ [c EXCEPT !.at = at] \in Reads
           /\ [c EXCEPT !.at = at, !.out = out] \in Reads
           /\ [c EXCEPT !.at = at, !.at_eof = eof] \in Reads
<1>1. c \in [at : {"decode", "fill"}, request : Asks, out : Seq(Byte), at_eof : BOOLEAN]
  BY DEF Reads
<1> DEFINE bytes == Seq(Byte)
<1>2. out \in bytes /\ c \in [at : {"decode", "fill"}, request : Asks, out : bytes, at_eof : BOOLEAN]
  BY <1>1
<1> HIDE DEF bytes
<1>3. /\ [c EXCEPT !.at = at] \in [at : {"decode", "fill"}, request : Asks, out : bytes, at_eof : BOOLEAN]
      /\ [c EXCEPT !.at = at, !.out = out]
            \in [at : {"decode", "fill"}, request : Asks, out : bytes, at_eof : BOOLEAN]
      /\ [c EXCEPT !.at = at, !.at_eof = eof]
            \in [at : {"decode", "fill"}, request : Asks, out : bytes, at_eof : BOOLEAN]
  BY <1>2
<1> QED
  BY <1>3 DEF Reads, bytes

LEMMA CharactersType ==
    ASSUME NEW t \in Seq(Byte)
    PROVE  Characters(t) \in Nat
<1>1. Matches(t, t, 0, Len(t))
  <2>1. Len(t) \in Nat
    BY LenProperties
  <2> QED
    BY <2>1 DEF Matches
<1> QED
  BY <1>1, CharactersOf, CountFacts, LenProperties

LEMMA WantedType ==
    ASSUME call \in Reads
    PROVE  Wanted \in Int
<1>1. call.request \in Asks /\ call.out \in Seq(Byte)
  BY ReadsFacts
<1>2. call.request.n \in Int /\ Characters(call.out) \in Nat
  BY <1>1, AsksFacts, CharactersType
<1> QED
  BY <1>2 DEF Wanted

(* Where a read of text stands when it decodes: its text is the unread     *)
(* part of the buffer, or the first line of that.                          *)
LEMMA DecodeFacts ==
    ASSUME SafeInv, call \in Reads, NEW line \in BOOLEAN
    PROVE  LET rest == After(inbuf, inpos)
               data == IF line THEN Line(rest) ELSE rest
               k    == Decoded(data, Wanted)
               p    == off - Unread
           IN  \E c \in p..off :
                  /\ Matches(data, disk, p, c)
                  /\ IF line THEN LineEnd(disk, p, off, c) ELSE c = off
                  /\ k \in 0..(c - p) /\ k \in 0..Unread
                  /\ Stops(disk, p, c, Wanted, p + k)
<1> DEFINE rest == After(inbuf, inpos)
           data == IF line THEN Line(rest) ELSE rest
           k    == Decoded(data, Wanted)
           p    == off - Unread
<1>1. off \in Nat /\ p \in Nat /\ Unread \in Nat /\ p <= off /\ off - p = Unread
  BY SafeFacts
<1>2. Matches(rest, disk, p, off)
  BY SafeFacts
<1> HIDE DEF rest, p
<1>3. PICK c \in p..off : /\ Matches(data, disk, p, c)
                          /\ IF line THEN LineEnd(disk, p, off, c) ELSE c = off
  <2>1. CASE line
    <3>1. \E c \in p..off : LineEnd(disk, p, off, c) /\ Matches(Line(rest), disk, p, c)
      BY <1>2, LineOf
    <3> QED
      BY <2>1, <3>1
  <2>2. CASE ~line
    <3>1. off \in p..off
      BY <1>1
    <3> QED
      BY <1>2, <2>2, <3>1
  <2> QED
    BY <2>1, <2>2
<1>4. Wanted \in Int
  BY WantedType
<1> HIDE DEF data
<1>5. k \in 0..(c - p) /\ Stops(disk, p, c, Wanted, p + k)
  BY <1>3, <1>4, DecodedStops
<1>6. k \in 0..Unread
  BY <1>1, <1>3, <1>5
<1> QED
  BY <1>3, <1>5, <1>6 DEF rest, data, p

LEMMA TextDecodeKeeps == SafeInv /\ UNCHANGED file /\ TextDecode => SafeInv'
<1> SUFFICES ASSUME SafeInv, UNCHANGED file, TextDecode PROVE SafeInv'
  OBVIOUS
<1> DEFINE line == call.request.op = "readline"
           rest == After(inbuf, inpos)
           data == IF line THEN Line(rest) ELSE rest
           k    == Decoded(data, Wanted)
           out  == call.out \o Upto(data, k)
<1>1. call.at = "decode" /\ UNCHANGED <<disk, off, open, outbuf, ft_eof>>
  BY DEF TextDecode
<1>2. call \in Reads /\ file.kind = "text" /\ open /\ file.readable
  BY <1>1, CallTypes DEF SafeInv, CallOK
<1>3. PICK c \in off - Unread..off : /\ Matches(data, disk, off - Unread, c)
                                     /\ k \in 0..(c - (off - Unread)) /\ k \in 0..Unread
  BY <1>2, DecodeFacts
<1>4. out \in Seq(Byte)
  <2>1. Matches(Upto(data, k), disk, off - Unread, off - Unread + k)
    BY <1>3, PartMatches
  <2>2. call.out \in Seq(Byte)
    BY <1>2, ReadsFacts
  <2> QED
    BY <2>1, <2>2, ConcatProperties DEF Matches
<1>5. /\ \/ UNCHANGED <<inbuf, inpos>>
         \/ inbuf' = << >> /\ inpos' = 0
         \/ inpos' = inpos + k /\ inbuf' = inbuf
      /\ \/ call' = Idle
         \/ call' = [call EXCEPT !.at = "fill"]
         \/ call' = [call EXCEPT !.at = "fill", !.out = out]
  <2> DEFINE enough == IF line THEN Newline \in {data[i] : i \in DOMAIN data}
                       ELSE Wanted >= 0 /\ Wanted = Characters(Upto(data, k))
             bad == Malformed(After(data, k))
  <2> HIDE DEF line, data, k, out, enough, bad
  <2>1. IF inbuf = << >> \/ Wanted = 0
        THEN /\ IF call.at_eof
                THEN TextReadEnds(IF inbuf = << >> THEN Bytes(call.out) ELSE Failure)
                ELSE call' = [call EXCEPT !.at = "fill"] /\ UNCHANGED <<request, answer>>
             /\ UNCHANGED <<inbuf, inpos>>
        ELSE \/ TextReadEnds(Failure) /\ UNCHANGED <<inbuf, inpos>>
             \/ /\ IF inpos + k = Len(inbuf) THEN Clearbuf
                   ELSE inpos' = inpos + k /\ UNCHANGED inbuf
                /\ IF enough THEN TextReadEnds(IF line /\ k # Len(data) THEN Failure ELSE Bytes(out))
                   ELSE IF call.at_eof
                   THEN TextReadEnds(IF k = Len(data) THEN Bytes(out) ELSE Failure)
                   ELSE call' = [call EXCEPT !.at = "fill", !.out = out] /\ UNCHANGED <<request, answer>>
    BY DEF TextDecode, line, data, k, out, enough, bad
  <2> QED
    BY <2>1 DEF TextReadEnds, Clearbuf
<1>6. inbuf' \in Seq(Byte) /\ inpos' \in Nat /\ SyncedAt(inbuf', inpos', disk', off')
  <2> HIDE DEF k
  <2>1. CASE UNCHANGED <<inbuf, inpos>>
    BY <1>1, <2>1, SafeFacts DEF SafeInv
  <2>2. CASE inbuf' = << >> /\ inpos' = 0
    BY <1>1, <2>2, SafeFacts, EmptySynced, EmptySeq
  <2>3. CASE inpos' = inpos + k /\ inbuf' = inbuf
    <3>1. k \in 0..(Len(inbuf) - inpos) /\ inpos + k \in Nat
      <4>1. k \in 0..Unread
        BY <1>3
      <4>2. Unread = Len(inbuf) - inpos /\ Len(inbuf) \in Nat /\ inpos \in Nat
        BY SafeFacts
      <4> QED
        BY ONLY <4>1, <4>2
    <3>2. SyncedAt(inbuf, inpos + k, disk, off)
      BY <3>1, SafeFacts, SyncedOn DEF SafeInv
    <3> QED
      BY <1>1, <2>3, <3>1, <3>2, SafeFacts
  <2> QED
    BY <1>5, <2>1, <2>2, <2>3
<1>7. call' = Idle \/ call' \in Reads
  <2> HIDE DEF out
  <2> QED
    BY <1>2, <1>4, <1>5, ReadsMove, ReadsFacts
<1>8. call'.at \in {"idle", "decode", "fill", "dead"} /\ CallOK'
  BY <1>1, <1>2, <1>7, CallTypes DEF CallOK
<1>9. KindOK'
  <2>1. outbuf = << >>
    BY <1>2 DEF SafeInv, KindOK
  <2> QED
    BY <1>1, <1>2, <2>1 DEF KindOK
<1> QED
  BY <1>1, <1>6, <1>8, <1>9 DEF SafeInv, TypeOK

LEMMA TextFillKeeps == SafeInv /\ UNCHANGED file /\ TextFill => SafeInv'
<1> SUFFICES ASSUME SafeInv, UNCHANGED file, TextFill PROVE SafeInv'
  OBVIOUS
<1> DEFINE got == RawRead(disk, off, IO_BUFFER_SIZE)
<1>1. call.at = "fill" /\ UNCHANGED <<disk, open, outbuf>>
  BY DEF TextFill
<1>2. call \in Reads /\ file.kind = "text" /\ open /\ file.readable
  BY <1>1, CallTypes DEF SafeInv, CallOK
<1>3. PICK m \in Nat : got = ReadAt(disk, off, m)
  BY SafeFacts, RawReadFacts, FilesAssumption
<1> HIDE DEF got
<1>4. /\ ft_eof' \in BOOLEAN
      /\ \/ UNCHANGED <<off, inbuf, inpos>>
         \/ got # << >> /\ off' = off + Len(got) /\ inbuf' = After(inbuf, inpos) \o got /\ inpos' = 0
      /\ \/ call' = Dead
         \/ call' = [call EXCEPT !.at = "decode", !.at_eof = TRUE]
         \/ call' = [call EXCEPT !.at = "decode", !.at_eof = FALSE]
  BY DEF TextFill, got, SafeInv, TypeOK
<1>5. inbuf' \in Seq(Byte) /\ inpos' \in Nat /\ off' \in Nat /\ SyncedAt(inbuf', inpos', disk', off')
  <2>1. CASE UNCHANGED <<off, inbuf, inpos>>
    BY <1>1, <2>1, SafeFacts DEF SafeInv
  <2>2. CASE got # << >> /\ off' = off + Len(got) /\ inbuf' = After(inbuf, inpos) \o got /\ inpos' = 0
    <3>1. /\ SyncedAt(After(inbuf, inpos) \o got, 0, disk, off + Len(got))
          /\ After(inbuf, inpos) \o got \in Seq(Byte)
      BY <1>3, <2>2, SafeFacts, SyncedRefill DEF SafeInv
    <3>2. Len(got) \in Nat
      BY <1>3, SafeFacts, ReadAtFacts
    <3> QED
      BY <1>1, <2>2, <3>1, <3>2, SafeFacts
  <2> QED
    BY <1>4, <2>1, <2>2
<1>6. call' = Dead \/ call' \in Reads
  BY <1>2, <1>4, ReadsMove, ReadsFacts
<1>7. call'.at \in {"idle", "decode", "fill", "dead"} /\ CallOK'
  BY <1>1, <1>2, <1>6, CallTypes DEF CallOK
<1>8. KindOK'
  <2>1. outbuf = << >>
    BY <1>2 DEF SafeInv, KindOK
  <2> QED
    BY <1>1, <1>2, <2>1 DEF KindOK
<1> QED
  BY <1>1, <1>4, <1>5, <1>7, <1>8 DEF SafeInv, TypeOK

LEMMA TextWriteKeeps ==
    ASSUME NEW bytes \in Chunks
    PROVE  SafeInv /\ UNCHANGED file /\ do_text_write(bytes) => SafeInv'
<1> SUFFICES ASSUME SafeInv, UNCHANGED file, do_text_write(bytes) PROVE SafeInv'
  OBVIOUS
<1> DEFINE written == RawWrite(bytes, off - Unread)
<1>1. /\ file.kind = "text" /\ call = Idle /\ inbuf' = << >> /\ inpos' = 0
      /\ disk' = written.disk /\ off' = written.off
      /\ UNCHANGED <<open, outbuf, ft_eof, call>>
  BY DEF do_text_write, On, Clearbuf
<1>2. bytes \in Seq(Byte)
  BY FilesAssumption
<1>3. disk' \in Seq(Byte) /\ off' \in Nat
  BY <1>1, <1>2, SafeFacts, RawWriteFacts
<1>4. SyncedAt(inbuf', inpos', disk', off')
  BY <1>1, <1>3, EmptySynced
<1>5. << >> \in Seq(Byte) /\ 0 \in Nat
  BY EmptySeq
<1> QED
  BY <1>1, <1>3, <1>4, <1>5 DEF SafeInv, TypeOK, CallOK, KindOK

LEMMA TextSeekKeeps ==
    ASSUME NEW n \in Offsets, NEW from \in Origins
    PROVE  SafeInv /\ UNCHANGED file /\ do_text_seek(n, from) => SafeInv'
<1> SUFFICES ASSUME SafeInv, UNCHANGED file, do_text_seek(n, from) PROVE SafeInv'
  OBVIOUS
<1> DEFINE by == IF from = "cur" THEN n - Unread ELSE n
<1>1. /\ file.kind = "text" /\ call = Idle /\ inbuf' = << >> /\ inpos' = 0 /\ ft_eof' = FALSE
      /\ Lseek(Ask("seek", n, << >>, from), disk, off, by, from)
      /\ UNCHANGED <<disk, open, outbuf, call>>
  BY DEF do_text_seek, On, Clearbuf
<1>2. by \in Int
  BY SafeFacts, FilesAssumption
<1> HIDE DEF by
<1>3. off' \in Nat
  BY <1>1, <1>2, SafeFacts, LseekType
<1>4. SyncedAt(inbuf', inpos', disk', off')
  BY <1>1, <1>3, EmptySynced
<1>5. << >> \in Seq(Byte) /\ 0 \in Nat
  BY EmptySeq
<1> QED
  BY <1>1, <1>3, <1>4, <1>5 DEF SafeInv, TypeOK, CallOK, KindOK
------------------------------------------------------------------------------
LEMMA SafeNext == SafeInv /\ [Next]_vars => SafeInv'
<1> SUFFICES ASSUME SafeInv, [Next]_vars PROVE SafeInv'
  OBVIOUS
<1>1. CASE UNCHANGED vars
  BY <1>1, QuietKeeps DEF vars, Untouched
<1> SUFFICES ASSUME Next PROVE SafeInv'
  BY <1>1
<1>2. UNCHANGED file
  BY DEF Next
<1>3. ASSUME NEW n \in Counts,
             do_raw_read(n) \/ do_bin_read(n) \/ TextReadBegins(Ask("read", n, << >>, "set"))
      PROVE  SafeInv'
  <2>1. n \in Int
    BY FilesAssumption
  <2>2. Ask("read", n, << >>, "set") \in Asks
    BY <2>1 DEF Asks
  <2> QED
    BY <1>2, <1>3, <2>2, RawReadKeeps, BinReadKeeps, TextReadBeginsKeeps
<1>4. CASE TextReadBegins(AskFor("readline"))
  <2>1. AskFor("readline") \in Asks
    BY DEF Asks
  <2> QED
    BY <1>2, <1>4, <2>1, TextReadBeginsKeeps
<1>5. CASE TextDecode \/ TextFill
  BY <1>2, <1>5, TextDecodeKeeps, TextFillKeeps
<1>6. ASSUME NEW bytes \in Chunks, do_raw_write(bytes) \/ do_bin_write(bytes) \/ do_text_write(bytes)
      PROVE  SafeInv'
  BY <1>2, <1>6, RawWriteKeeps, BinWriteKeeps, TextWriteKeeps
<1>7. ASSUME NEW n \in Offsets, NEW from \in Origins,
             do_raw_seek(n, from) \/ do_bin_seek(n, from) \/ do_text_seek(n, from)
      PROVE  SafeInv'
  BY <1>2, <1>7, RawSeekKeeps, BinSeekKeeps, TextSeekKeeps
<1>8. CASE do_raw_tell \/ do_bin_tell \/ do_text_tell \/ do_text_flush \/ Refused
  <2>1. Untouched
    BY <1>8 DEF do_raw_tell, do_bin_tell, do_text_tell, do_text_flush, Refused
  <2> QED
    BY <1>2, <2>1, QuietKeeps
<1>9. CASE do_bin_flush \/ CloseRaw \/ do_bin_close \/ Reset
  BY <1>2, <1>9, BinFlushKeeps, CloseKeeps, BinCloseKeeps, ResetKeeps
<1> QED
  BY <1>3, <1>4, <1>5, <1>6, <1>7, <1>8, <1>9 DEF Next

(* Only one of the two buffers of a file (do_bin_read, do_bin_write) ever  *)
(* has bytes, and what is unread is what the device has just before the    *)
(* offset: it can be given back by going back that far, whatever a script  *)
(* asks for, the calls that go wrong included.                             *)
THEOREM BuffersAlwaysExclusive == Spec => []BuffersExclusive
<1>1. SafeInv => BuffersExclusive
  <2> SUFFICES ASSUME SafeInv PROVE BuffersExclusive
    OBVIOUS
  <2> DEFINE rest == After(inbuf, inpos)
             p == off - Unread
  <2>1. /\ TypeOK /\ (outbuf # << >> => inbuf = << >>)
        /\ inpos <= Len(inbuf)
        /\ Unread > 0 => off <= Len(disk)
    BY SafeFacts DEF SafeInv, KindOK, SyncedAt
  <2>2. /\ off \in Nat /\ p \in Nat /\ Unread \in Nat /\ Unread <= off /\ off - p = Unread
        /\ disk \in Seq(Byte)
    BY SafeFacts
  <2>3. rest \in Seq(Byte) /\ Len(rest) = off - p /\ \A i \in 1..(off - p) : rest[i] = disk[p + i]
    BY SafeFacts DEF Matches
  <2> HIDE DEF rest, p
  <2>4. rest = SubSeq(disk, p + 1, off)
    <3>1. CASE Unread > 0
      <4>1. off <= Len(disk)
        BY <2>1, <3>1
      <4>2. /\ SubSeq(disk, p + 1, off) \in Seq(Byte)
            /\ Len(SubSeq(disk, p + 1, off)) = IF p < off THEN off - p ELSE 0
            /\ \A i \in 1..(off - p) : SubSeq(disk, p + 1, off)[i] = disk[p + i]
        BY <2>2, <4>1, PartFacts
      <4>3. (IF p < off THEN off - p ELSE 0) = off - p
        BY <2>2
      <4> QED
        BY <2>3, <4>2, <4>3, SeqEqual
    <3>2. CASE ~(Unread > 0)
      <4>1. p = off /\ p + 1 > off /\ Len(rest) = 0
        BY <2>2, <2>3, <3>2
      <4>2. rest = << >>
        BY <2>3, <4>1, EmptySeq
      <4>3. SubSeq(disk, p + 1, off) = << >>
        BY <4>1, <2>2
      <4> QED
        BY <4>2, <4>3
    <3> QED
      BY <3>1, <3>2
  <2> QED
    BY <2>1, <2>2, <2>4 DEF BuffersExclusive, rest, p
<1> QED
  BY SafeInit, SafeNext, <1>1, PTL DEF Spec
------------------------------------------------------------------------------
(* The file a script sees                                                  *)

(* Nothing goes wrong that the model lets go wrong on request: reads of    *)
(* nothing, seeks to before the beginning, reads on a full device, empty   *)
(* writes after a cut character, and a C library whose realloc(p, 0) is a  *)
(* null pointer.                                                           *)
Undisturbed == Beyond = {} /\ ReallocOfNothing = "block"

Content == WriteAt(disk, off, outbuf)
Pos     == off + Len(outbuf) - Unread - Len(call.out)

(* The abstract file has the helpers of FileBytes under names of its own.  *)
LEMMA SameHelpers ==
    /\ \A d, o, x : File!WriteAt(d, o, x) = WriteAt(d, o, x)
    /\ \A s, n : File!After(s, n) = After(s, n) /\ File!Upto(s, n) = Upto(s, n)
    /\ \A s, n : File!Decoded(s, n) = Decoded(s, n)
    /\ \A s : File!Line(s) = Line(s) /\ File!Characters(s) = Characters(s)
    /\ \A m, n : File!Least(m, n) = Least(m, n)
    /\ \A s : File!Bytes(s) = Bytes(s) /\ File!Number(s) = Number(s) /\ File!AskFor(s) = AskFor(s)
    /\ File!Nothing = Nothing /\ File!Failure = Failure /\ File!Byte = Byte
<1>1. \A d, o, x : File!WriteAt(d, o, x) = WriteAt(d, o, x)
  BY DEF File!WriteAt, WriteAt
<1>2. \A s, n : File!After(s, n) = After(s, n) /\ File!Upto(s, n) = Upto(s, n)
  BY DEF File!After, After, File!Upto, Upto
<1>3. \A s : File!Characters(s) = Characters(s)
  BY DEF File!Characters, Characters, File!Cardinality, Cardinality, File!IsFiniteSet, IsFiniteSet
<1>4. \A s, n : File!Decoded(s, n) = Decoded(s, n)
  <2>1. \A s, n : File!Whole(s, n) = Whole(s, n)
    BY DEF File!Whole, Whole
  <2> QED
    BY <1>2, <1>3, <2>1 DEF File!Decoded, Decoded
<1>5. \A s : File!Line(s) = Line(s)
  BY DEF File!Line, Line, File!Upto, Upto
<1>6. \A m, n : File!Least(m, n) = Least(m, n)
  BY DEF File!Least, Least
<1>7. /\ \A s : File!Bytes(s) = Bytes(s) /\ File!Number(s) = Number(s) /\ File!AskFor(s) = AskFor(s)
      /\ File!Nothing = Nothing /\ File!Failure = Failure /\ File!Byte = Byte
  BY DEF File!Bytes, Bytes, File!Number, Number, File!AskFor, AskFor, File!Ask, Ask, File!Answer, Answer,
         File!Nothing, Nothing, File!Failure, Failure, File!Byte, Byte
<1> QED
  BY <1>1, <1>2, <1>3, <1>4, <1>5, <1>6, <1>7

LEMMA FileInit == Init => File!Init
<1> SUFFICES ASSUME Init PROVE File!Init
  OBVIOUS
<1>1. disk \in Seq(Byte) /\ off = 0 /\ outbuf = << >> /\ inbuf = << >> /\ inpos = 0 /\ call.out = << >>
  BY FilesAssumption DEF Init, Idle
<1>2. Len(<< >>) = 0
  BY EmptySeq
<1>3. Content = disk /\ Pos = 0
  <2>1. Content = disk
    BY <1>1 DEF Content, WriteAt
  <2>2. Pos = 0 + Len(<< >>) - (Len(<< >>) - 0) - Len(<< >>)
    BY <1>1 DEF Pos, Unread
  <2>3. \A n : n = 0 => 0 + n - (n - 0) - n = 0
    OBVIOUS
  <2>4. Pos = 0
    BY <1>2, <2>2, <2>3
  <2> QED
    BY <2>1, <2>4
<1> QED
  BY <1>1, <1>3, SameHelpers DEF Init, File!Init, Content, Pos, Kinds

(* Two writes in a row are one.                                            *)
LEMMA WriteTwice ==
    ASSUME NEW d \in Seq(Byte), NEW o \in Nat, NEW x \in Seq(Byte), NEW y \in Seq(Byte)
    PROVE  WriteAt(WriteAt(d, o, x), o + Len(x), y) = WriteAt(d, o, x \o y)
<1> DEFINE once == WriteAt(d, o, x)
           twice == WriteAt(once, o + Len(x), y)
           both == WriteAt(d, o, x \o y)
<1>1. /\ x \o y \in Seq(Byte) /\ Len(x \o y) = Len(x) + Len(y)
      /\ \A i \in 1..(Len(x) + Len(y)) : (x \o y)[i] = IF i <= Len(x) THEN x[i] ELSE y[i - Len(x)]
  BY ConcatProperties
<1>2. /\ Len(x) \in Nat /\ Len(y) \in Nat /\ Len(d) \in Nat /\ o + Len(x) \in Nat
      /\ (x = << >> <=> Len(x) = 0) /\ (y = << >> <=> Len(y) = 0)
      /\ (x \o y = << >> <=> Len(x \o y) = 0)
  BY <1>1, LenProperties, EmptySeq
<1>3. once \in Seq(Byte)
  BY WriteAtFacts
<1>4. CASE y = << >>
  <2>1. x \o y = x
    BY <1>4, ConcatEmptySeq
  <2>2. twice = once
    BY <1>4 DEF WriteAt
  <2> QED
    BY <2>1, <2>2
<1>5. CASE x = << >>
  <2>1. x \o y = y /\ Len(x) = 0
    BY <1>2, <1>5, ConcatEmptySeq
  <2>2. once = d
    BY <1>5 DEF WriteAt
  <2>3. o + Len(x) = o
    BY <2>1
  <2> QED
    BY <2>1, <2>2, <2>3
<1>6. CASE x # << >> /\ y # << >>
  <2>1. x \o y # << >> /\ Len(x) > 0 /\ Len(y) > 0
    BY <1>1, <1>2, <1>6
  <2> HIDE DEF once
  <2>2. /\ Len(once) = IF o + Len(x) > Len(d) THEN o + Len(x) ELSE Len(d)
        /\ \A i \in 1..Len(once) :
              once[i] = IF o < i /\ i <= o + Len(x) THEN x[i - o]
                        ELSE IF i <= Len(d) THEN d[i] ELSE Zero
    BY <1>6, WriteAtFacts DEF once
  <2>3. /\ twice \in Seq(Byte)
        /\ Len(twice) = IF o + Len(x) + Len(y) > Len(once) THEN o + Len(x) + Len(y) ELSE Len(once)
        /\ \A i \in 1..Len(twice) :
              twice[i] = IF o + Len(x) < i /\ i <= o + Len(x) + Len(y) THEN y[i - (o + Len(x))]
                         ELSE IF i <= Len(once) THEN once[i] ELSE Zero
    BY <1>2, <1>3, <1>6, WriteAtFacts
  <2>4. /\ both \in Seq(Byte)
        /\ Len(both) = IF o + Len(x \o y) > Len(d) THEN o + Len(x \o y) ELSE Len(d)
        /\ \A i \in 1..Len(both) :
              both[i] = IF o < i /\ i <= o + Len(x \o y) THEN (x \o y)[i - o]
                        ELSE IF i <= Len(d) THEN d[i] ELSE Zero
    BY <1>1, <2>1, WriteAtFacts
  <2> HIDE DEF twice, both
  <2>5. Len(twice) = Len(both)
    BY <1>1, <1>2, <2>1, <2>2, <2>3, <2>4
  <2>6. ASSUME NEW i \in 1..Len(twice) PROVE twice[i] = both[i]
    <3>1. i \in Nat /\ i \in 1..Len(both) /\ i >= 1
      BY <2>3, <2>5, LenProperties
    <3>2. CASE o + Len(x) < i /\ i <= o + Len(x) + Len(y)
      <4>1. /\ i - o \in 1..(Len(x) + Len(y)) /\ ~(i - o <= Len(x)) /\ o < i
            /\ i - o - Len(x) = i - (o + Len(x)) /\ i <= o + Len(x \o y)
        BY <1>1, <1>2, <3>1, <3>2
      <4>2. (x \o y)[i - o] = y[i - (o + Len(x))]
        BY <1>1, <4>1
      <4>3. both[i] = (x \o y)[i - o]
        BY <2>4, <3>1, <4>1
      <4>4. twice[i] = y[i - (o + Len(x))]
        BY <2>3, <3>2
      <4> QED
        BY <4>2, <4>3, <4>4
    <3>3. CASE ~(o + Len(x) < i /\ i <= o + Len(x) + Len(y)) /\ o < i /\ i <= o + Len(x)
      <4>1. /\ i - o \in 1..(Len(x) + Len(y)) /\ i - o <= Len(x) /\ i <= o + Len(x \o y)
            /\ i <= Len(once) /\ i \in 1..Len(once)
        BY <1>1, <1>2, <2>2, <3>1, <3>3
      <4>2. (x \o y)[i - o] = x[i - o]
        BY <1>1, <4>1
      <4>3. both[i] = (x \o y)[i - o]
        BY <2>4, <3>1, <3>3, <4>1
      <4>4. twice[i] = once[i]
        BY <2>3, <3>3, <4>1
      <4>5. once[i] = x[i - o]
        BY <2>2, <3>3, <4>1
      <4> QED
        BY <4>2, <4>3, <4>4, <4>5
    <3>4. CASE ~(o + Len(x) < i /\ i <= o + Len(x) + Len(y)) /\ ~(o < i /\ i <= o + Len(x))
      <4>1. /\ ~(o < i /\ i <= o + Len(x \o y))
            /\ i <= Len(once) => i \in 1..Len(once)
            /\ i <= Len(d) => i <= Len(once)
        BY <1>1, <1>2, <2>2, <3>1, <3>4
      <4>2. both[i] = IF i <= Len(d) THEN d[i] ELSE Zero
        BY <2>4, <3>1, <4>1
      <4>3. twice[i] = IF i <= Len(once) THEN once[i] ELSE Zero
        BY <2>3, <3>4
      <4>4. i <= Len(once) => once[i] = IF i <= Len(d) THEN d[i] ELSE Zero
        BY <2>2, <3>4, <4>1
      <4> QED
        BY <4>1, <4>2, <4>3, <4>4
    <3> QED
      BY <3>2, <3>3, <3>4
  <2> QED
    BY <2>3, <2>4, <2>5, <2>6, SeqEqual DEF twice, both, once
<1> QED
  BY <1>4, <1>5, <1>6

(* What a device that fills up keeps of a write.                           *)
WriteFails(w, new) ==
    /\ Len(new) > Space /\ w.off \in Nat
    /\ \A i \in DOMAIN w.disk : \/ i \in DOMAIN disk /\ w.disk[i] = disk[i]
                                \/ i \in DOMAIN new /\ w.disk[i] = new[i]

LEMMA RawWriteOutcome ==
    ASSUME disk \in Seq(Byte), NEW bytes \in Seq(Byte), NEW at \in Nat
    PROVE  LET w   == RawWrite(bytes, at)
               new == WriteAt(disk, at, bytes)
           IN  /\ w.ok => w.disk = new /\ w.off = at + Len(bytes)
               /\ ~w.ok => WriteFails(w, new)
<1> DEFINE w   == RawWrite(bytes, at)
           new == WriteAt(disk, at, bytes)
<1>1. PICK room \in 0..Len(bytes) :
         /\ w.disk = WriteAt(disk, at, Upto(bytes, room))
         /\ w.off = at + room
         /\ w.ok <=> room = Len(bytes)
         /\ room > 0 => at + room <= Space
         /\ room # Len(bytes) => at + Len(bytes) > Space /\ (at >= Space \/ at + room = Space)
  BY RawWriteFacts
<1>2. /\ Len(bytes) \in Nat /\ Len(disk) \in Nat /\ room \in Nat /\ room <= Len(bytes)
      /\ w.off \in Nat /\ Space \in Nat
  BY <1>1, LenProperties, FilesAssumption
<1> HIDE DEF w
<1>3. CASE w.ok
  <2>1. Upto(bytes, room) = bytes
    BY <1>1, <1>3, AllFacts
  <2> QED
    BY <1>1, <1>3, <2>1 DEF w
<1>4. CASE ~w.ok
  <2> DEFINE some == Upto(bytes, room)
  <2>1. some \in Seq(Byte) /\ Len(some) = room /\ \A i \in 1..room : some[i] = bytes[i]
    BY <1>2, UptoFacts
  <2>2. room # Len(bytes) /\ at + Len(bytes) > Space /\ bytes # << >>
    BY <1>1, <1>2, <1>4, EmptySeq
  <2>3. /\ new \in Seq(Byte)
        /\ Len(new) = IF at + Len(bytes) > Len(disk) THEN at + Len(bytes) ELSE Len(disk)
        /\ \A i \in 1..Len(new) :
              new[i] = IF at < i /\ i <= at + Len(bytes) THEN bytes[i - at]
                       ELSE IF i <= Len(disk) THEN disk[i] ELSE Zero
    BY <2>2, WriteAtFacts
  <2> HIDE DEF new, some
  <2>4. Len(new) > Space
    BY <1>2, <2>2, <2>3
  <2>5. DOMAIN disk = 1..Len(disk) /\ DOMAIN new = 1..Len(new)
    BY <2>3, LenProperties
  <2>6. CASE room = 0
    <3>1. some = << >>
      BY <2>1, <2>6, EmptySeq
    <3>2. w.disk = disk
      BY <1>1, <3>1 DEF WriteAt, some
    <3> QED
      BY <1>2, <1>4, <2>4, <3>2 DEF WriteFails, w, new
  <2>7. CASE room # 0
    <3>1. some # << >>
      BY <2>1, <2>7, EmptySeq
    <3>2. /\ w.disk \in Seq(Byte)
          /\ Len(w.disk) = IF at + room > Len(disk) THEN at + room ELSE Len(disk)
          /\ \A i \in 1..Len(w.disk) :
                w.disk[i] = IF at < i /\ i <= at + room THEN some[i - at]
                            ELSE IF i <= Len(disk) THEN disk[i] ELSE Zero
      BY <1>1, <2>1, <3>1, WriteAtFacts DEF some
    <3>3. DOMAIN w.disk = 1..Len(w.disk) /\ Len(w.disk) \in Nat
      BY <3>2, LenProperties
    <3>4. ASSUME NEW i \in DOMAIN w.disk
          PROVE  \/ i \in DOMAIN disk /\ w.disk[i] = disk[i]
                 \/ i \in DOMAIN new /\ w.disk[i] = new[i]
      <4>1. i \in 1..Len(w.disk) /\ i \in Nat /\ i >= 1
        BY <3>3, <3>4
      <4>2. CASE at < i /\ i <= at + room
        <5>1. i - at \in 1..room /\ i \in 1..Len(new) /\ i <= at + Len(bytes)
          BY <1>2, <2>3, <4>1, <4>2
        <5>2. w.disk[i] = bytes[i - at]
          BY <2>1, <3>2, <4>1, <4>2, <5>1
        <5>3. new[i] = bytes[i - at]
          BY <2>3, <4>2, <5>1
        <5> QED
          BY <2>5, <5>1, <5>2, <5>3
      <4>3. CASE ~(at < i /\ i <= at + room) /\ i <= Len(disk)
        <5>1. i \in 1..Len(disk)
          BY <1>2, <4>1, <4>3
        <5>2. w.disk[i] = disk[i]
          BY <3>2, <4>1, <4>3
        <5> QED
          BY <2>5, <5>1, <5>2
      <4>4. CASE ~(at < i /\ i <= at + room) /\ ~(i <= Len(disk))
        <5>1. i <= at + room /\ ~(at < i)
          BY <1>2, <3>2, <4>1, <4>4
        <5>2. w.disk[i] = Zero
          BY <3>2, <4>1, <4>4
        <5>3. i \in 1..Len(new)
          BY <1>2, <2>3, <4>1, <5>1
        <5>4. new[i] = Zero
          BY <2>3, <4>4, <5>1, <5>3
        <5> QED
          BY <2>5, <5>2, <5>3, <5>4
      <4> QED
        BY <4>2, <4>3, <4>4
    <3> QED
      BY <1>2, <1>4, <2>4, <3>4 DEF WriteFails, w, new
  <2> QED
    BY <2>6, <2>7
<1> QED
  BY <1>3, <1>4 DEF w
------------------------------------------------------------------------------
(* Reading, where the bytes stand                                          *)

LEMMA MatchesSame ==
    ASSUME NEW t, NEW u, NEW s, NEW a, NEW b, Matches(t, s, a, b), Matches(u, s, a, b)
    PROVE  t = u
<1>1. /\ t \in Seq(Byte) /\ u \in Seq(Byte) /\ Len(t) = b - a /\ Len(u) = b - a
      /\ \A i \in 1..(b - a) : t[i] = u[i]
  BY DEF Matches
<1>2. \A i \in 1..Len(t) : t[i] = u[i]
  BY <1>1
<1> QED
  BY <1>1, <1>2, SeqEqual

LEMMA MatchesJoin ==
    ASSUME NEW t, NEW u, NEW s, NEW a, NEW b, NEW c, Matches(t, s, a, b), Matches(u, s, b, c)
    PROVE  Matches(t \o u, s, a, c)
<1>1. /\ t \in Seq(Byte) /\ u \in Seq(Byte) /\ Len(t) = b - a /\ Len(u) = c - b
      /\ \A i \in 1..(b - a) : t[i] = s[a + i]
      /\ \A i \in 1..(c - b) : u[i] = s[b + i]
      /\ a \in Nat /\ b \in Nat /\ c \in Nat /\ a <= b /\ b <= c
  BY DEF Matches
<1>2. /\ t \o u \in Seq(Byte) /\ Len(t \o u) = Len(t) + Len(u)
      /\ \A i \in 1..(Len(t) + Len(u)) :
            (t \o u)[i] = IF i <= Len(t) THEN t[i] ELSE u[i - Len(t)]
  BY <1>1, ConcatProperties
<1>3. Len(t) + Len(u) = c - a /\ a <= c
  BY <1>1
<1>4. ASSUME NEW i \in 1..(c - a) PROVE (t \o u)[i] = s[a + i]
  <2>1. CASE i <= Len(t)
    <3>1. i \in 1..(b - a) /\ i \in 1..(Len(t) + Len(u))
      BY <1>1, <1>3, <2>1
    <3> QED
      BY <1>1, <1>2, <2>1, <3>1
  <2>2. CASE ~(i <= Len(t))
    <3>1. i - Len(t) \in 1..(c - b) /\ i \in 1..(Len(t) + Len(u)) /\ b + (i - Len(t)) = a + i
      BY <1>1, <1>3, <2>2
    <3> QED
      BY <1>1, <1>2, <2>2, <3>1
  <2> QED
    BY <2>1, <2>2
<1> QED
  BY <1>1, <1>2, <1>3, <1>4 DEF Matches

(* The end of what can be read from a place.                               *)
Top(data, a) == IF a < Len(data) THEN Len(data) ELSE a

LEMMA RestMatches ==
    ASSUME NEW data \in Seq(Byte), NEW a \in Nat
    PROVE  /\ Top(data, a) \in Nat /\ a <= Top(data, a) /\ Len(data) <= Top(data, a)
           /\ Matches(After(data, a), data, a, Top(data, a))
<1>1. Len(data) \in Nat
  BY LenProperties
<1>2. /\ After(data, a) \in Seq(Byte)
      /\ Len(After(data, a)) = IF a < Len(data) THEN Len(data) - a ELSE 0
      /\ \A i \in 1..(Len(data) - a) : After(data, a)[i] = data[a + i]
  BY AfterFacts
<1>3. /\ Top(data, a) \in Nat /\ a <= Top(data, a) /\ Len(data) <= Top(data, a)
      /\ Top(data, a) - a = IF a < Len(data) THEN Len(data) - a ELSE 0
      /\ \A i \in 1..(Top(data, a) - a) : i \in 1..(Len(data) - a)
  BY <1>1 DEF Top
<1> QED
  BY <1>2, <1>3 DEF Matches

LEMMA UptoRest ==
    ASSUME NEW data \in Seq(Byte), NEW a \in Nat, NEW e \in a..Top(data, a), NEW t, Matches(t, data, a, e)
    PROVE  Upto(After(data, a), e - a) = t /\ Len(After(data, a)) = Top(data, a) - a
<1> DEFINE b == Top(data, a)
<1>1. b \in Nat /\ a <= b /\ Matches(After(data, a), data, a, b)
  BY RestMatches
<1> HIDE DEF b
<1>2. e - a \in 0..(b - a) /\ a + (e - a) = e
  BY <1>1 DEF b
<1>3. Matches(Upto(After(data, a), e - a), data, a, a + (e - a))
  BY <1>1, <1>2, PartMatches
<1>4. Upto(After(data, a), e - a) = t
  BY <1>2, <1>3, MatchesSame
<1> QED
  BY <1>1, <1>4 DEF Matches, b

(* The answer of a call that reads bytes: n of them or, when n < 0, all.   *)
ByteAnswer(data, a, n, t, e) ==
    LET rest == After(data, a)
        k    == IF n < 0 THEN Len(rest) ELSE Least(n, Len(rest))
    IN  t = Upto(rest, k) /\ e = a + k

LEMMA ByteReading ==
    ASSUME NEW data \in Seq(Byte), NEW a \in Nat, NEW n \in Int, NEW e \in a..Top(data, a),
           NEW t, Matches(t, data, a, e),
           e = Top(data, a) \/ (n >= 0 /\ e - a = n), n < 0 \/ e - a <= n
    PROVE  ByteAnswer(data, a, n, t, e)
<1> DEFINE rest == After(data, a)
           b == Top(data, a)
           k == IF n < 0 THEN Len(rest) ELSE Least(n, Len(rest))
<1>1. b \in Nat /\ a <= b /\ Upto(rest, e - a) = t /\ Len(rest) = b - a
  BY RestMatches, UptoRest
<1>2. Least(n, Len(rest)) = IF n <= Len(rest) THEN n ELSE Len(rest)
  BY DEF Least
<1> HIDE DEF rest, b
<1>3. k = e - a
  BY <1>1, <1>2 DEF b
<1> HIDE DEF k
<1>4. e = a + k
  BY <1>3
<1> QED
  BY <1>1, <1>3, <1>4 DEF ByteAnswer, k, rest

LEMMA ReadMatches ==
    ASSUME NEW data \in Seq(Byte), NEW at \in Nat, NEW n \in Nat
    PROVE  LET got == ReadAt(data, at, n)
           IN  /\ Matches(got, data, at, at + Len(got))
               /\ at + Len(got) \in at..Top(data, at)
               /\ n = Len(got) \/ at + Len(got) = Top(data, at)
<1> DEFINE got == ReadAt(data, at, n)
           m == Len(got)
<1>1. /\ got \in Seq(Byte) /\ m \in Nat /\ m <= n
      /\ m = IF at >= Len(data) THEN 0 ELSE Least(n, Len(data) - at)
      /\ \A i \in 1..m : got[i] = data[at + i]
  BY ReadAtFacts
<1>2. Len(data) \in Nat
  BY LenProperties
<1>3. Least(n, Len(data) - at) = IF n <= Len(data) - at THEN n ELSE Len(data) - at
  BY DEF Least
<1> HIDE DEF m, got
<1>4. /\ at + m \in at..Top(data, at) /\ (n = m \/ at + m = Top(data, at))
      /\ at + m - at = m /\ at + m \in Nat /\ at <= at + m
  BY <1>1, <1>2, <1>3 DEF Top
<1>5. Len(got) = at + m - at
  BY <1>4 DEF m
<1>6. Matches(got, data, at, at + m)
  BY <1>1, <1>4, <1>5 DEF Matches
<1> QED
  BY <1>4, <1>6 DEF m, got

(* The answer of a call that reads characters, or a line of them: it is    *)
(* what they are, or it fails somewhere before what is no character.       *)
TextAnswer(data, a, line, n, result, e) ==
    LET rest == After(data, a)
        s    == IF line THEN Line(rest) ELSE rest
        most == IF line THEN -1 ELSE n
        k    == Decoded(s, most)
    IN  IF k = Len(s) \/ Characters(Upto(s, k)) = most
        THEN result = Bytes(Upto(rest, k)) /\ e = a + k
        ELSE result = Failure /\ e \in a..a + k

(* Where the text that can be read ends.                                   *)
TextEnd(data, a, line, c) ==
    IF line THEN LineEnd(data, a, Top(data, a), c) ELSE c = Top(data, a)

LEMMA TextReading ==
    ASSUME NEW data \in Seq(Byte), NEW a \in Nat, NEW line \in BOOLEAN, NEW n \in Int,
           NEW c, TextEnd(data, a, line, c), NEW e,
           Stops(data, a, c, IF line THEN -1 ELSE n, e),
           NEW result, NEW p \in a..e,
           \/ /\ e = c \/ (~line /\ Count(data, a, e) = n)
              /\ p = e /\ \E t : Matches(t, data, a, e) /\ result = Bytes(t)
           \/ e # c /\ (line \/ Count(data, a, e) # n) /\ result = Failure
    PROVE  TextAnswer(data, a, line, n, result, p)
<1> DEFINE b    == Top(data, a)
           rest == After(data, a)
           s    == IF line THEN Line(rest) ELSE rest
           most == IF line THEN -1 ELSE n
           k    == Decoded(s, most)
<1>1. b \in Nat /\ a <= b /\ Matches(rest, data, a, b)
  BY RestMatches
<1>2. Matches(s, data, a, c) /\ c \in a..b
  <2>1. CASE line
    <3>1. PICK d \in a..b : LineEnd(data, a, b, d) /\ Matches(Line(rest), data, a, d)
      BY <1>1, LineOf
    <3>2. LineEnd(data, a, b, c)
      BY <2>1 DEF TextEnd
    <3> HIDE DEF b
    <3>3. d = c
      BY <1>1, <3>1, <3>2, LineEndUnique
    <3> QED
      BY <2>1, <3>1, <3>3
  <2>2. CASE ~line
    <3>1. c = b
      BY <2>2 DEF TextEnd
    <3> HIDE DEF b, rest
    <3>2. c \in a..b
      BY <1>1, <3>1
    <3> QED
      BY <1>1, <2>2, <3>1, <3>2
  <2> QED
    BY <2>1, <2>2
<1>3. most \in Int /\ Stops(data, a, c, most, e)
  OBVIOUS
<1> HIDE DEF b, s, most
<1>4. k = e - a
  BY <1>2, <1>3, StopsIsDecoded
<1>5. /\ c \in Nat /\ e \in Nat /\ a <= e /\ e <= c /\ c <= b /\ Len(s) = c - a /\ a + k = e
      /\ k \in 0..(c - a) /\ k \in 0..(b - a)
  BY <1>1, <1>2, <1>3, <1>4 DEF Stops, Matches
<1> HIDE DEF k
<1>6. Characters(Upto(s, k)) = Count(data, a, e) /\ Count(data, a, e) \in Nat
  <2>1. Matches(Upto(s, k), data, a, a + k)
    BY <1>2, <1>5, PartMatches
  <2>2. Matches(Upto(s, k), data, a, e)
    BY <1>5, <2>1
  <2> QED
    BY <1>5, <2>2, CharactersOf, CountFacts
<1>7. k = Len(s) <=> e = c
  BY <1>5
<1>8. Count(data, a, e) = most <=> ~line /\ Count(data, a, e) = n
  BY <1>6 DEF most
<1>9. TextAnswer(data, a, line, n, result, p)
        <=> IF e = c \/ (~line /\ Count(data, a, e) = n)
            THEN result = Bytes(Upto(rest, k)) /\ p = e
            ELSE result = Failure /\ p \in a..e
  BY <1>5, <1>6, <1>7, <1>8 DEF TextAnswer, s, most, k
<1>10. ASSUME NEW t, Matches(t, data, a, e) PROVE t = Upto(rest, k)
  <2>1. Matches(Upto(rest, k), data, a, a + k)
    BY <1>1, <1>5, PartMatches
  <2>2. Matches(Upto(rest, k), data, a, e)
    BY <1>5, <2>1
  <2> QED
    BY <1>10, <2>2, MatchesSame
<1> HIDE DEF rest
<1> QED
  BY <1>9, <1>10
------------------------------------------------------------------------------
(* The steps of the abstract file, in terms of Content and Pos             *)

FileStep == File!Next \/ UNCHANGED File!vars

LEMMA FileReads ==
    ASSUME UNCHANGED file, file.readable, open, UNCHANGED open, request'.op = "read",
           Content' = Content, disk' \in {disk, Content},
           IF file.kind = "text" THEN TextAnswer(Content, Pos, FALSE, request'.n, answer', Pos')
           ELSE \E t : ByteAnswer(Content, Pos, request'.n, t, Pos') /\ answer' = Bytes(t)
    PROVE  FileStep
<1>1. File!Asked("read") /\ File!MayStore
  BY DEF File!Asked, File!MayStore, Content
<1>2. File!Rest = After(Content, Pos)
  BY SameHelpers DEF File!Rest, Content, Pos
<1>3. IF file.kind = "text" THEN File!ReadWhole(File!Rest, request'.n) ELSE File!ReadBytes(request'.n)
  <2>1. CASE file.kind = "text"
    BY <1>2, <2>1, SameHelpers DEF TextAnswer, File!ReadWhole, File!Takes, Pos
  <2>2. CASE file.kind # "text"
    BY <1>2, <2>2, SameHelpers DEF ByteAnswer, File!ReadBytes, File!Takes, Pos
  <2> QED
    BY <2>1, <2>2
<1>4. File!Read
  BY <1>1, <1>3 DEF File!Read, Content
<1> QED
  BY <1>4 DEF FileStep, File!Next

LEMMA FileReadsLine ==
    ASSUME UNCHANGED file, file.readable, file.kind = "text", open, UNCHANGED open,
           request'.op = "readline", Content' = Content, disk' \in {disk, Content},
           TextAnswer(Content, Pos, TRUE, request'.n, answer', Pos')
    PROVE  FileStep
<1>1. File!Asked("readline") /\ File!MayStore
  BY DEF File!Asked, File!MayStore, Content
<1>2. File!Rest = After(Content, Pos)
  BY SameHelpers DEF File!Rest, Content, Pos
<1>3. File!ReadWhole(File!Line(File!Rest), -1)
  BY <1>2, SameHelpers DEF TextAnswer, File!ReadWhole, File!Takes, Pos
<1>4. File!ReadLine
  BY <1>1, <1>3 DEF File!ReadLine, Content
<1> QED
  BY <1>4 DEF FileStep, File!Next

(* A call that fails because the device is full.                           *)
FailsAt(new) == /\ Len(new) > Space /\ answer' = Failure /\ Content' = disk'
                /\ \A i \in DOMAIN disk' : \/ i \in DOMAIN disk /\ disk'[i] = disk[i]
                                           \/ i \in DOMAIN new /\ disk'[i] = new[i]
                /\ Pos' \in Nat

LEMMA FileFails ==
    ASSUME NEW new, FailsAt(new)
    PROVE  File!Fails(new)
BY SameHelpers DEF FailsAt, File!Fails, Content, Pos

LEMMA FileWrites ==
    ASSUME UNCHANGED file, file.writable, open, UNCHANGED open, request'.op = "write",
           LET new == WriteAt(Content, Pos, request'.bytes)
           IN  \/ /\ Content' = new /\ Pos' = Pos + Len(request'.bytes)
                  /\ answer' = Number(Len(request'.bytes))
                  /\ disk' \in {disk, Content'}
               \/ FailsAt(new)
    PROVE  FileStep
<1> DEFINE new == WriteAt(Content, Pos, request'.bytes)
<1>1. File!Asked("write")
  BY DEF File!Asked
<1>2. File!WriteAt(Content, Pos, request'.bytes) = new
  BY SameHelpers
<1>3. FailsAt(new) => File!Fails(new)
  BY FileFails
<1> HIDE DEF new
<1>4. \/ Content' = new /\ Pos' = Pos + Len(request'.bytes) /\ answer' = Number(Len(request'.bytes))
         /\ File!MayStore
      \/ FailsAt(new)
  BY DEF new, File!MayStore, Content
<1>5. File!Write
  BY <1>1, <1>2, <1>3, <1>4, SameHelpers DEF File!Write, Content, Pos
<1> QED
  BY <1>5 DEF FileStep, File!Next

LEMMA FileFlushes ==
    ASSUME UNCHANGED file, open, UNCHANGED open, request'.op = "flush",
           \/ answer' = Nothing /\ disk' = Content' /\ Content' = Content /\ Pos' = Pos
           \/ FailsAt(Content)
    PROVE  FileStep
<1>1. File!Asked("flush")
  BY DEF File!Asked
<1>2. FailsAt(Content) => File!Fails(Content)
  BY FileFails
<1>3. File!Flush
  BY <1>1, <1>2, SameHelpers DEF File!Flush, File!Stores, Content, Pos
<1> QED
  BY <1>3 DEF FileStep, File!Next

LEMMA FileTells ==
    ASSUME UNCHANGED file, open, Untouched, request'.op = "tell", answer' = Number(Pos)
    PROVE  FileStep
<1>1. File!Tell
  BY SameHelpers DEF File!Tell, File!Asked, Untouched, Pos, Unread
<1> QED
  BY <1>1 DEF FileStep, File!Next

LEMMA FileSeeks ==
    ASSUME UNCHANGED file, open, UNCHANGED open, request'.op = "seek",
           LET target == request'.n + CASE request'.from = "set" -> 0
                                        [] request'.from = "cur" -> Pos
                                        [] request'.from = "end" -> Len(Content)
           IN  \/ /\ IF target >= 0 THEN Pos' = target /\ answer' = Number(target)
                     ELSE answer' = Failure /\ Pos' = Pos
                  /\ disk' = Content' /\ Content' = Content
               \/ FailsAt(Content)
    PROVE  FileStep
<1>1. File!Asked("seek")
  BY DEF File!Asked
<1>2. FailsAt(Content) => File!Fails(Content)
  BY FileFails
<1>3. File!Seek
  BY <1>1, <1>2, SameHelpers DEF File!Seek, File!Stores, Content, Pos
<1> QED
  BY <1>3 DEF FileStep, File!Next

LEMMA FileCloses ==
    ASSUME UNCHANGED file, request'.op = "close",
           \/ answer' = Nothing /\ open' = FALSE /\ disk' = Content' /\ Content' = Content /\ Pos' \in Nat
           \/ open /\ FailsAt(Content) /\ UNCHANGED open
    PROVE  FileStep
<1>1. FailsAt(Content) => File!Fails(Content)
  BY FileFails
<1>2. File!Close
  BY <1>1, SameHelpers DEF File!Close, File!Stores, Content, Pos
<1> QED
  BY <1>2 DEF FileStep, File!Next

LEMMA FileDropped ==
    ASSUME UNCHANGED file, open, open' = FALSE, request'.op = "drop", answer' = Nothing,
           Content' = disk, disk' = disk, Pos' \in Nat
    PROVE  FileStep
<1>1. File!Dropped
  BY SameHelpers DEF File!Dropped, File!Asked, Content, Pos
<1> QED
  BY <1>1 DEF FileStep, File!Next

LEMMA FileRefused ==
    ASSUME UNCHANGED file, Untouched, answer' \in {Failure, Nothing},
           \/ ~open
           \/ request'.op = "write" /\ ~file.writable
           \/ request'.op = "read" /\ ~file.readable
    PROVE  FileStep
<1>1. File!Refused
  BY SameHelpers DEF File!Refused, Untouched, Unread
<1> QED
  BY <1>1 DEF FileStep, File!Next

LEMMA FileStutters ==
    ASSUME UNCHANGED <<file, disk, open, request, answer>>, Content' = Content, Pos' = Pos
    PROVE  FileStep
BY DEF FileStep, File!vars, Content, Pos
------------------------------------------------------------------------------
(* The invariant of files that nothing goes wrong with.  A binary file has *)
(* read on in its buffer whenever it has one (do_bin_tell takes a buffer   *)
(* at its beginning for none); a text file that has met the end is still   *)
(* there, with nothing unread but the beginning of a character; and what a *)
(* read has decoded so far stands right before what is unread, as whole    *)
(* characters, fewer than are wanted or without an end of line.            *)
Cut(s)          == s = << >> \/ s = <<Lead>>
NoNewline(s, a, b) == \A i \in a + 1..b : s[i] # Newline

Pending(c, data, p) ==
    LET a == p - Len(c.out)
    IN  /\ Matches(c.out, data, a, p)
        /\ a < p => p <= Len(data)
        /\ WholeIn(data, a, p)
        /\ c.request.op = "readline" => NoNewline(data, a, p)
        /\ c.request.op = "read" /\ c.request.n >= 0 => Count(data, a, p) < c.request.n

AtEnd  == ft_eof => file.kind = "text" /\ off >= Len(disk) /\ Cut(After(inbuf, inpos))
InRead == call \in Reads => /\ Pending(call, disk, off - Unread)
                            /\ call.at = "fill" => Cut(After(inbuf, inpos)) /\ ~call.at_eof
                            /\ call.at_eof => ft_eof

RefInv == /\ SafeInv
          /\ file.kind = "binary" /\ inbuf # << >> => inpos > 0
          /\ Len(disk) <= Space
          /\ AtEnd /\ InRead

IdleView ==
    call = Idle =>
        /\ Content \in Seq(Byte) /\ Pos \in Nat /\ Pos = off + Len(outbuf) - Unread
        /\ outbuf = << >> => Content = disk /\ Pos = off - Unread
        /\ outbuf = << >> /\ inbuf = << >> => Pos = off
        /\ call \notin Reads /\ disk \in Seq(Byte) /\ off \in Nat

LEMMA IdleNow == SafeInv => IdleView
<1> SUFFICES ASSUME SafeInv, call = Idle
             PROVE  /\ Content \in Seq(Byte) /\ Pos \in Nat /\ Pos = off + Len(outbuf) - Unread
                    /\ outbuf = << >> => Content = disk /\ Pos = off - Unread
                    /\ outbuf = << >> /\ inbuf = << >> => Pos = off
                    /\ call \notin Reads /\ disk \in Seq(Byte) /\ off \in Nat
  BY DEF IdleView
<1>1. Len(call.out) = 0
  BY EmptySeq DEF Idle
<1>2. Pos = off + Len(outbuf) - Unread - 0
  BY <1>1 DEF Pos
<1>3. Pos = off + Len(outbuf) - Unread /\ Pos \in Nat
  BY <1>2, SafeFacts
<1>4. outbuf = << >> => Len(outbuf) = 0 /\ Content = disk
  BY EmptySeq DEF Content, WriteAt
<1>5. outbuf = << >> => Pos = off - Unread
  BY <1>3, <1>4, SafeFacts
<1>6. Content \in Seq(Byte)
  BY SafeFacts, WriteAtFacts DEF Content
<1>7. outbuf = << >> /\ inbuf = << >> => Pos = off
  BY <1>5, SafeFacts
<1> QED
  BY <1>3, <1>4, <1>5, <1>6, <1>7, SafeFacts, CallTypes

LEMMA IdleNext == SafeInv' => IdleView'
BY IdleNow, PTL

(* The same of the sizes and places after a step.                          *)
Sizes ==
    /\ disk \in Seq(Byte) /\ outbuf \in Seq(Byte) /\ inbuf \in Seq(Byte)
    /\ off \in Nat /\ inpos \in Nat /\ Len(inbuf) \in Nat /\ Len(outbuf) \in Nat
    /\ Unread = Len(inbuf) - inpos /\ Unread \in Nat /\ Unread <= off /\ off - Unread \in Nat
    /\ inbuf = << >> => inpos = 0 /\ Unread = 0
    /\ Matches(After(inbuf, inpos), disk, off - Unread, off)
    /\ Unread > 0 => off <= Len(disk)

LEMMA SizesNow == SafeInv => Sizes
<1> SUFFICES ASSUME SafeInv PROVE Sizes
  OBVIOUS
<1>1. Unread > 0 => off <= Len(disk)
  BY SafeFacts DEF SafeInv, SyncedAt
<1> QED
  BY <1>1, SafeFacts DEF Sizes

LEMMA SizesNext == SafeInv' => Sizes'
BY SizesNow, PTL

LEMMA CutNothing == Cut(After(<< >>, 0))
<1>1. << >> \in Seq(Byte)
  BY EmptySeq
<1> QED
  BY <1>1, AllFacts DEF Cut

(* A file that is not of text, or has no call in progress.                 *)
LEMMA RefQuiet ==
    ASSUME RefInv, SafeInv', UNCHANGED file, call' \in {Idle, Dead}, Len(disk') <= Space,
           file.kind = "binary" /\ inbuf' # << >> => inpos' > 0, AtEnd'
    PROVE  RefInv'
<1>1. call' \notin Reads
  BY CallTypes
<1> QED
  BY <1>1 DEF RefInv, InRead

LEMMA RefInit == Init => RefInv
<1> SUFFICES ASSUME Init PROVE RefInv
  OBVIOUS
<1>1. SafeInv
  BY SafeInit
<1>2. Len(disk) <= Space /\ call = Idle /\ ft_eof = FALSE /\ inbuf = << >>
  BY FilesAssumption DEF Init
<1>3. call \notin Reads
  BY <1>2, CallTypes
<1> QED
  BY <1>1, <1>2, <1>3 DEF RefInv, AtEnd, InRead

LEMMA WriteFits ==
    ASSUME disk \in Seq(Byte), Len(disk) <= Space, NEW bytes \in Seq(Byte), NEW at \in Nat
    PROVE  Len(RawWrite(bytes, at).disk) <= Space
<1>1. PICK room \in 0..Len(bytes) :
         /\ RawWrite(bytes, at).disk = WriteAt(disk, at, Upto(bytes, room))
         /\ room > 0 => at + room <= Space
  BY RawWriteFacts
<1> DEFINE some == Upto(bytes, room)
<1>2. some \in Seq(Byte) /\ Len(some) = room
  <2>1. Len(bytes) \in Nat
    BY LenProperties
  <2>2. room \in Nat /\ room <= Len(bytes)
    BY <2>1
  <2> QED
    BY ONLY bytes \in Seq(Byte), <2>2, UptoFacts
<1>3. CASE some = << >>
  BY <1>1, <1>3 DEF WriteAt
<1>4. CASE some # << >>
  <2>1. room > 0 /\ room \in Nat
    BY <1>1, <1>2, <1>4, EmptySeq, LenProperties
  <2>2. Len(RawWrite(bytes, at).disk) = IF at + Len(some) > Len(disk) THEN at + Len(some) ELSE Len(disk)
    BY <1>1, <1>2, <1>4, WriteAtFacts
  <2> QED
    BY <1>1, <1>2, <2>1, <2>2
<1> QED
  BY <1>3, <1>4
------------------------------------------------------------------------------
(* Each step keeps the invariant and is one of the abstract file, or none. *)

LEMMA NeverDies ==
    ASSUME Undisturbed, NEW data, NEW got, NEW n
    PROVE  ~ReadKills(data, got, n)
BY DEF Undisturbed, ReadKills

LEMMA RawReadRefines ==
    ASSUME RefInv, SafeInv', Undisturbed, UNCHANGED file, NEW n \in Counts, do_raw_read(n)
    PROVE  RefInv' /\ FileStep
<1> DEFINE got == RawRead(disk, off, n)
<1>1. /\ file.kind = "raw" /\ call = Idle /\ call' = Idle /\ open /\ file.readable
      /\ off' = off + Len(got) /\ request' = Ask("read", n, << >>, "set") /\ answer' = Bytes(got)
      /\ UNCHANGED <<disk, open, outbuf, inbuf, inpos, ft_eof>>
  BY NeverDies DEF do_raw_read, On, Usable, Returns
<1>2. n \in Int
  BY FilesAssumption
<1>3. outbuf = << >> /\ inbuf = << >> /\ ~ft_eof
  BY <1>1 DEF RefInv, SafeInv, KindOK, AtEnd
<1>4. RefInv'
  BY <1>1, <1>3, RefQuiet DEF RefInv, AtEnd
<1>5. /\ disk \in Seq(Byte) /\ off \in Nat /\ Content = disk /\ Pos = off
      /\ Content' = disk' /\ Pos' = off'
  <2>1. IdleView /\ IdleView'
    BY IdleNow, IdleNext DEF RefInv
  <2> QED
    BY <1>1, <1>3, <2>1 DEF IdleView
<1>6. PICK m \in Nat : got = ReadAt(disk, off, m) /\ m = IF n < 0 THEN Len(disk) ELSE n
  BY <1>2, <1>5, RawReadFacts
<1> HIDE DEF got
<1>7. /\ Matches(got, disk, off, off + Len(got))
      /\ off + Len(got) \in off..Top(disk, off)
      /\ m = Len(got) \/ off + Len(got) = Top(disk, off)
  BY <1>5, <1>6, ReadMatches
<1>8. Len(got) \in Nat /\ Len(got) <= m
  BY <1>5, <1>6, ReadAtFacts
<1>9. ByteAnswer(disk, off, n, got, off + Len(got))
  <2> DEFINE e == off + Len(got)
  <2>1. e = Top(disk, off) \/ (n >= 0 /\ e - off = n)
    <3>1. Len(disk) \in Nat /\ Len(disk) <= Top(disk, off) /\ Top(disk, off) \in Nat
      BY <1>5, LenProperties, RestMatches
    <3>2. CASE n < 0 /\ m = Len(got)
      <4>1. off + Len(got) >= Len(disk) /\ off + Len(got) >= off /\ off + Len(got) <= Top(disk, off)
        BY <1>5, <1>6, <1>7, <1>8, <3>1, <3>2
      <4> QED
        BY <1>5, <1>8, <3>1, <4>1 DEF Top
    <3>3. CASE n >= 0 /\ m = Len(got)
      <4>1. off + Len(got) - off = Len(got) /\ m = n
        BY <1>2, <1>5, <1>6, <1>8, <3>3
      <4>2. e - off = n
        BY <1>2, <1>5, <1>8, <3>3, <4>1
      <4> QED
        BY <1>2, <3>3, <4>2
    <3> QED
      BY <1>2, <1>7, <3>2, <3>3
  <2>2. n < 0 \/ e - off <= n
    BY <1>2, <1>5, <1>6, <1>8
  <2> HIDE DEF e
  <2>3. e \in off..Top(disk, off) /\ Matches(got, disk, off, e)
    BY <1>7 DEF e
  <2>4. ByteAnswer(disk, off, n, got, e)
    BY <1>2, <1>5, <2>1, <2>2, <2>3, ByteReading
  <2> QED
    BY <2>4 DEF e
<1>10. FileStep
  <2>1. request'.op = "read" /\ request'.n = n
    BY <1>1 DEF Ask
  <2>2. ByteAnswer(Content, Pos, request'.n, got, Pos') /\ answer' = Bytes(got)
    BY <1>1, <1>5, <1>9, <2>1
  <2> QED
    BY <1>1, <1>5, <2>1, <2>2, FileReads
<1> QED
  BY <1>4, <1>10

(* A write through a buffer, or without one, that goes to the device.      *)
LEMMA RawWriteStep ==
    ASSUME disk \in Seq(Byte), NEW bytes \in Seq(Byte), NEW at \in Nat,
           disk' = RawWrite(bytes, at).disk, off' = RawWrite(bytes, at).off,
           Content' = disk', Pos' = off'
    PROVE  LET new == WriteAt(disk, at, bytes)
           IN  IF RawWrite(bytes, at).ok THEN Content' = new /\ disk' = new /\ Pos' = at + Len(bytes)
               ELSE answer' = Failure => FailsAt(new)
BY RawWriteOutcome DEF FailsAt, WriteFails

LEMMA RawWriteRefines ==
    ASSUME RefInv, SafeInv', UNCHANGED file, NEW bytes \in Chunks, do_raw_write(bytes)
    PROVE  RefInv' /\ FileStep
<1> DEFINE w == RawWrite(bytes, off)
<1>1. /\ file.kind = "raw" /\ call = Idle /\ call' = Idle /\ open /\ file.writable
      /\ disk' = w.disk /\ off' = w.off
      /\ request' = Ask("write", 0, bytes, "set")
      /\ answer' = IF w.ok THEN Number(Len(bytes)) ELSE Failure
      /\ UNCHANGED <<open, outbuf, inbuf, inpos, ft_eof>>
  BY DEF do_raw_write, On, Usable, Returns
<1>2. bytes \in Seq(Byte)
  BY FilesAssumption
<1>3. outbuf = << >> /\ inbuf = << >> /\ ~ft_eof /\ Len(disk) <= Space
  BY <1>1 DEF RefInv, SafeInv, KindOK, AtEnd
<1>4. /\ disk \in Seq(Byte) /\ off \in Nat /\ Content = disk /\ Pos = off
      /\ Content' = disk' /\ Pos' = off'
  <2>1. IdleView /\ IdleView'
    BY IdleNow, IdleNext DEF RefInv
  <2> QED
    BY <1>1, <1>3, <2>1 DEF IdleView
<1>5. Len(disk') <= Space
  BY <1>1, <1>2, <1>3, <1>4, WriteFits
<1>6. RefInv'
  BY <1>1, <1>3, <1>5, RefQuiet DEF RefInv, AtEnd
<1>7. IF w.ok THEN Content' = WriteAt(disk, off, bytes) /\ disk' = Content' /\ Pos' = off + Len(bytes)
      ELSE answer' = Failure => FailsAt(WriteAt(disk, off, bytes))
  BY <1>1, <1>2, <1>4, RawWriteStep
<1>8. request'.op = "write" /\ request'.bytes = bytes
  BY <1>1 DEF Ask
<1> HIDE DEF w
<1>9. FileStep
  BY <1>1, <1>4, <1>7, <1>8, FileWrites
<1> QED
  BY <1>6, <1>9

(* A seek in what the device has.                                          *)
LEMMA SeekStep ==
    ASSUME UNCHANGED file, open, UNCHANGED open, NEW n \in Int, NEW from \in Origins, NEW by \in Int,
           NEW at \in Nat, Content \in Seq(Byte), Pos \in Nat,
           by = IF from = "cur" THEN n + Pos - at ELSE n,
           Lseek(Ask("seek", n, << >>, from), Content, at, by, from),
           Target(Content, at, by, from) < 0 => at = Pos,
           disk' = Content, Content' = Content, Pos' = off'
    PROVE  FileStep
<1> DEFINE target == n + CASE from = "set" -> 0 [] from = "cur" -> Pos [] from = "end" -> Len(Content)
<1>1. Target(Content, at, by, from) = target /\ target \in Int
  <2>1. Len(Content) \in Nat
    BY LenProperties
  <2>2. CASE from = "set"
    BY <2>2 DEF Target
  <2>3. CASE from = "cur"
    BY <2>3 DEF Target
  <2>4. CASE from = "end"
    BY <2>1, <2>4 DEF Target
  <2> QED
    BY <2>2, <2>3, <2>4 DEF Origins
<1> HIDE DEF target
<1>2. /\ off' = IF target < 0 THEN at ELSE target
      /\ request' = Ask("seek", n, << >>, from)
      /\ answer' = IF target < 0 THEN Failure ELSE Number(target)
  BY <1>1 DEF Lseek, Returns
<1>3. request'.op = "seek" /\ request'.n = n /\ request'.from = from
  BY <1>2 DEF Ask
<1>4. IF target >= 0 THEN Pos' = target /\ answer' = Number(target)
      ELSE answer' = Failure /\ Pos' = Pos
  BY <1>1, <1>2
<1>5. /\ IF target >= 0 THEN Pos' = target /\ answer' = Number(target)
         ELSE answer' = Failure /\ Pos' = Pos
      /\ disk' = Content' /\ Content' = Content
  BY <1>4
<1> QED
  BY <1>3, <1>5, FileSeeks DEF target

LEMMA RawSeekRefines ==
    ASSUME RefInv, SafeInv', UNCHANGED file, NEW n \in Offsets, NEW from \in Origins, do_raw_seek(n, from)
    PROVE  RefInv' /\ FileStep
<1>1. /\ file.kind = "raw" /\ call = Idle /\ call' = Idle /\ open
      /\ Lseek(Ask("seek", n, << >>, from), disk, off, n, from)
      /\ UNCHANGED <<disk, open, outbuf, inbuf, inpos, ft_eof>>
  BY DEF do_raw_seek, On
<1>2. n \in Int
  BY FilesAssumption
<1>3. outbuf = << >> /\ inbuf = << >> /\ ~ft_eof
  BY <1>1 DEF RefInv, SafeInv, KindOK, AtEnd
<1>4. RefInv'
  BY <1>1, <1>3, RefQuiet DEF RefInv, AtEnd
<1>5. /\ disk \in Seq(Byte) /\ off \in Nat /\ Content = disk /\ Pos = off
      /\ Content' = disk' /\ Pos' = off'
  <2>1. IdleView /\ IdleView'
    BY IdleNow, IdleNext DEF RefInv
  <2> QED
    BY <1>1, <1>3, <2>1 DEF IdleView
<1>6. n = IF from = "cur" THEN n + Pos - off ELSE n
  BY <1>2, <1>5
<1>7. FileStep
  BY <1>1, <1>2, <1>5, <1>6, SeekStep
<1> QED
  BY <1>4, <1>7

LEMMA CloseRefines ==
    ASSUME RefInv, SafeInv', UNCHANGED file, CloseRaw
    PROVE  RefInv' /\ FileStep
<1>1. /\ file.kind \in {"raw", "text"} /\ call = Idle /\ call' = Idle /\ open' = FALSE
      /\ request' = AskFor("close") /\ answer' = Nothing
      /\ UNCHANGED <<disk, off, outbuf, inbuf, inpos, ft_eof>>
  BY DEF CloseRaw, Returns
<1>2. outbuf = << >>
  BY <1>1 DEF RefInv, SafeInv, KindOK
<1>3. RefInv'
  BY <1>1, RefQuiet DEF RefInv, AtEnd
<1>4. Content = disk /\ Content' = disk' /\ Pos' \in Nat
  <2>1. IdleView /\ IdleView'
    BY IdleNow, IdleNext DEF RefInv
  <2> QED
    BY <1>1, <1>2, <2>1 DEF IdleView
<1>5. request'.op = "close"
  BY <1>1 DEF AskFor, Ask
<1>6. FileStep
  BY <1>1, <1>4, <1>5, FileCloses
<1> QED
  BY <1>3, <1>6

LEMMA ResetRefines ==
    ASSUME RefInv, SafeInv', UNCHANGED file, Reset
    PROVE  RefInv' /\ FileStep
<1>1. /\ call = Idle /\ call' = Idle /\ open /\ open' = FALSE
      /\ outbuf' = << >> /\ inbuf' = << >> /\ inpos' = 0
      /\ request' = AskFor("drop") /\ answer' = Nothing
      /\ UNCHANGED <<disk, off, ft_eof>>
  BY DEF Reset, Returns, Clearbuf
<1>2. AtEnd'
  BY <1>1, CutNothing DEF RefInv, AtEnd
<1>3. RefInv'
  BY <1>1, <1>2, RefQuiet DEF RefInv
<1>4. Content' = disk /\ Pos' \in Nat
  <2>1. IdleView'
    BY IdleNext
  <2> QED
    BY <1>1, <2>1 DEF IdleView
<1>5. request'.op = "drop"
  BY <1>1 DEF AskFor, Ask
<1>6. FileStep
  BY <1>1, <1>4, <1>5, FileDropped
<1> QED
  BY <1>3, <1>6
------------------------------------------------------------------------------
(* Writing out what waits gives the device what the script has made of the *)
(* file.                                                                   *)
LEMMA FlushedView ==
    ASSUME RefInv, call = Idle
    PROVE  LET flushed == bin_flush(outbuf, off)
           IN  /\ flushed.disk \in Seq(Byte) /\ flushed.off \in Nat /\ Len(flushed.disk) <= Space
               /\ SyncedAt(inbuf, inpos, flushed.disk, flushed.off)
               /\ flushed.ok => flushed.disk = Content /\ flushed.off = off + Len(outbuf)
               /\ ~flushed.ok => WriteFails(flushed, Content) /\ outbuf # << >>
<1> DEFINE flushed == bin_flush(outbuf, off)
<1>1. Sizes /\ SafeInv /\ Len(disk) <= Space
  BY SizesNow DEF RefInv
<1>2. Len(flushed.disk) <= Space
  BY <1>1, WriteFits DEF Sizes, bin_flush
<1>3. /\ flushed.ok => flushed.disk = Content /\ flushed.off = off + Len(outbuf)
      /\ ~flushed.ok => WriteFails(flushed, Content)
  BY <1>1, RawWriteOutcome DEF Sizes, bin_flush, Content
<1>4. outbuf = << >> => flushed.ok
  BY <1>1, WriteNothing DEF Sizes, bin_flush
<1> QED
  BY <1>1, <1>2, <1>3, <1>4, FlushedFacts

LEMMA TopSame ==
    ASSUME NEW data \in Seq(Byte), NEW a \in Nat, NEW b \in Nat, a <= b, a < b => b <= Len(data)
    PROVE  Top(data, a) = Top(data, b)
<1>1. Len(data) \in Nat
  BY LenProperties
<1> QED
  BY <1>1 DEF Top

LEMMA InnerPart ==
    ASSUME NEW s \in Seq(Byte), NEW p \in Nat, NEW n \in Nat, NEW hi \in Nat, hi = p + n, hi <= Len(s)
    PROVE  SubSeq(s, p + 1, hi) = Upto(After(s, p), n) /\ n \in 0..(Len(s) - p)
<1> DEFINE rest == After(s, p)
           t == SubSeq(s, p + 1, hi)
           u == Upto(rest, n)
<1>1. Len(s) \in Nat /\ n \in 0..(Len(s) - p) /\ hi - p = n /\ (IF p < hi THEN hi - p ELSE 0) = n
  BY LenProperties
<1>2. /\ t \in Seq(Byte) /\ Len(t) = IF p < hi THEN hi - p ELSE 0
      /\ \A i \in 1..(hi - p) : t[i] = s[p + i]
  BY PartFacts
<1>3. /\ rest \in Seq(Byte) /\ Len(rest) = IF p < Len(s) THEN Len(s) - p ELSE 0
      /\ \A i \in 1..(Len(s) - p) : rest[i] = s[p + i]
  BY AfterFacts
<1>4. n <= Len(rest) /\ \A i \in 1..n : i \in 1..(Len(s) - p)
  BY <1>1, <1>3
<1>5. u \in Seq(Byte) /\ Len(u) = n /\ \A i \in 1..n : u[i] = rest[i]
  BY <1>3, <1>4, UptoFacts
<1> HIDE DEF rest, t, u
<1>6. Len(t) = n /\ \A i \in 1..n : t[i] = s[p + i]
  BY <1>1, <1>2
<1>7. t = u
  <2>1. \A i \in 1..n : t[i] = u[i]
    BY <1>3, <1>4, <1>5, <1>6
  <2>2. \A i \in 1..Len(t) : t[i] = u[i]
    BY <1>6, <2>1
  <2>3. Len(t) = Len(u)
    BY <1>5, <1>6
  <2> QED
    BY <1>2, <1>5, <2>2, <2>3, SeqEqual
<1> QED
  BY <1>1, <1>7 DEF rest, t, u

(* A read in the buffer.                                                   *)
LEMMA BufferedRead ==
    ASSUME Sizes, NEW n \in Nat, n <= Unread
    PROVE  LET t == SubSeq(inbuf, inpos + 1, inpos + n)
           IN  /\ Matches(t, disk, off - Unread, off - Unread + n)
               /\ off - Unread + n \in off - Unread..Top(disk, off - Unread)
<1> DEFINE t == SubSeq(inbuf, inpos + 1, inpos + n)
           rest == After(inbuf, inpos)
           p == off - Unread
<1>1. /\ inbuf \in Seq(Byte) /\ inpos \in Nat /\ inpos + n \in Nat /\ inpos + n <= Len(inbuf)
      /\ p \in Nat /\ off \in Nat /\ off - p = Unread /\ Unread = Len(inbuf) - inpos
      /\ Len(inbuf) \in Nat /\ p <= off /\ disk \in Seq(Byte) /\ (p < off => off <= Len(disk))
  BY DEF Sizes
<1>2. t = Upto(rest, n)
  <2>1. PICK hi \in Nat : hi = inpos + n /\ hi <= Len(inbuf)
    BY <1>1
  <2>2. inbuf \in Seq(Byte) /\ inpos \in Nat
    BY <1>1
  <2>3. SubSeq(inbuf, inpos + 1, hi) = Upto(After(inbuf, inpos), n)
    BY ONLY <2>1, <2>2, n \in Nat, InnerPart
  <2> QED
    BY <2>1, <2>3
<1>3. Matches(rest, disk, p, off) /\ n \in 0..(off - p)
  BY <1>1 DEF Sizes
<1> HIDE DEF t, rest, p
<1>6. Matches(t, disk, p, p + n)
  BY <1>2, <1>3, PartMatches
<1>7. p + n \in p..Top(disk, p)
  <2>1. Top(disk, p) = Top(disk, off) /\ off <= Top(disk, off) /\ Top(disk, off) \in Nat
    BY <1>1, TopSame, RestMatches
  <2> QED
    BY <1>1, <2>1
<1> QED
  BY <1>6, <1>7 DEF t, p

(* A read that goes on behind what was unread.                             *)
LEMMA RefilledRead ==
    ASSUME NEW buf \in Seq(Byte), NEW q, NEW data \in Seq(Byte), NEW at \in Nat, SyncedAt(buf, q, data, at),
           NEW n \in Int, n < 0 \/ n >= Len(buf) - q, NEW m \in Nat,
           n < 0 => m = Len(data), n >= 0 => m >= n - (Len(buf) - q)
    PROVE  LET u   == Len(buf) - q
               got == ReadAt(data, at, m)
               taken == IF n < 0 THEN Len(got) ELSE Least(n - u, Len(got))
               t   == After(buf, q) \o Upto(got, taken)
           IN  /\ taken \in 0..Len(got) /\ Len(got) \in Nat
               /\ ByteAnswer(data, at - u, n, t, at + taken)
               /\ n > u \/ n < 0 => (got # << >> => taken > 0)
<1> DEFINE u    == Len(buf) - q
           got  == ReadAt(data, at, m)
           taken == IF n < 0 THEN Len(got) ELSE Least(n - u, Len(got))
           rest == After(buf, q)
           t    == rest \o Upto(got, taken)
           p    == at - u
           e    == at + taken
<1>1. u \in Nat /\ p \in Nat /\ p <= at /\ (p < at => at <= Len(data)) /\ at - u = p /\ Len(data) \in Nat
      /\ (n < 0 \/ n >= u) /\ (n >= 0 => m >= n - u)
  BY LenProperties DEF SyncedAt
<1>2. Matches(rest, data, p, at)
  BY DEF SyncedAt
<1>3. got \in Seq(Byte) /\ Len(got) \in Nat /\ Len(got) <= m
  BY ReadAtFacts
<1>4. /\ Matches(got, data, at, at + Len(got))
      /\ at + Len(got) \in at..Top(data, at)
      /\ m = Len(got) \/ at + Len(got) = Top(data, at)
  BY ReadMatches
<1>5. Top(data, p) = Top(data, at) /\ Top(data, at) \in Nat /\ Len(data) <= Top(data, at) /\ at <= Top(data, at)
  BY <1>1, TopSame, RestMatches
<1>6. Least(n - u, Len(got)) = IF n - u <= Len(got) THEN n - u ELSE Len(got)
  BY DEF Least
<1>13. taken = IF n < 0 THEN Len(got) ELSE IF n - u <= Len(got) THEN n - u ELSE Len(got)
  BY <1>6
<1> HIDE DEF got, rest, p, u, taken
<1>7. taken \in 0..Len(got) /\ taken \in Nat
  BY <1>1, <1>3, <1>13
<1>8. Matches(Upto(got, taken), data, at, at + taken)
  <2>1. taken \in 0..(at + Len(got) - at)
    BY <1>3, <1>7
  <2> QED
    BY <1>4, <2>1, PartMatches
<1>9. Matches(t, data, p, e)
  BY <1>2, <1>8, MatchesJoin
<1>10. e \in p..Top(data, p) /\ e - p = u + taken
  BY <1>1, <1>4, <1>5, <1>7
<1>11. CASE n < 0
  <2>1. taken = Len(got) /\ m = Len(data)
    BY <1>11, <1>13
  <2>2. e = Top(data, p)
    <3>1. CASE at + Len(got) = Top(data, at)
      BY <1>5, <2>1, <3>1
    <3>2. CASE m = Len(got)
      <4>1. e >= Len(data) /\ e >= at /\ e <= Top(data, at)
        BY <1>1, <1>3, <1>4, <1>5, <2>1, <3>2
      <4> QED
        BY <1>1, <1>5, <1>7, <4>1 DEF Top
    <3> QED
      BY <1>4, <3>1, <3>2
  <2> HIDE DEF e, t
  <2>3. ByteAnswer(data, p, n, t, e)
    BY <1>1, <1>9, <1>10, <1>11, <2>2, ByteReading
  <2>4. got # << >> => taken > 0
    BY <1>3, <2>1, EmptySeq
  <2> QED
    BY <1>1, <1>3, <1>7, <2>3, <2>4 DEF got, rest, t, e, p, u, taken
<1>12. CASE ~(n < 0)
  <2>1. /\ n >= u /\ m >= n - u
        /\ taken = IF n - u <= Len(got) THEN n - u ELSE Len(got)
    BY <1>1, <1>12, <1>13
  <2>2. e = Top(data, p) \/ e - p = n
    <3>1. CASE taken = n - u
      BY <1>1, <1>7, <1>10, <3>1
    <3>2. CASE taken # n - u
      <4>1. taken = Len(got) /\ m # Len(got)
        BY <1>1, <1>3, <2>1, <3>2
      <4> QED
        BY <1>4, <1>5, <4>1
    <3> QED
      BY <3>1, <3>2
  <2>3. n >= 0 /\ e - p <= n
    BY <1>1, <1>3, <1>7, <1>10, <1>12, <2>1
  <2>5. n > u => (got # << >> => taken > 0)
    <3>1. got # << >> => Len(got) > 0
      BY <1>3, EmptySeq
    <3> QED
      BY <1>1, <1>3, <2>1, <3>1
  <2> HIDE DEF e, t
  <2>4. ByteAnswer(data, p, n, t, e)
    BY <1>1, <1>9, <1>10, <2>2, <2>3, ByteReading
  <2> QED
    BY <1>1, <1>3, <1>7, <1>12, <2>4, <2>5 DEF got, rest, t, e, p, u, taken
<1> QED
  BY <1>11, <1>12

LEMMA BinReadRefines ==
    ASSUME RefInv, SafeInv', Undisturbed, UNCHANGED file, NEW n \in Counts, do_bin_read(n)
    PROVE  RefInv' /\ FileStep
<1> DEFINE flushed == bin_flush(outbuf, off)
           need    == IF n < 0 THEN -1
                      ELSE IF n - Unread < IO_BUFFER_SIZE THEN IO_BUFFER_SIZE ELSE n - Unread
           got     == RawRead(flushed.disk, flushed.off, need)
           taken   == IF n < 0 THEN Len(got) ELSE Least(n - Unread, Len(got))
           asked   == Ask("read", n, << >>, "set")
<1>1. file.kind = "binary" /\ call = Idle /\ open /\ file.readable
  BY DEF do_bin_read, On, Usable
<1>2. n \in Int /\ IO_BUFFER_SIZE \in Nat
  BY FilesAssumption
<1>3. ~ft_eof /\ (inbuf # << >> => inpos > 0) /\ Len(disk) <= Space /\ (outbuf # << >> => inbuf = << >>)
  BY <1>1 DEF RefInv, SafeInv, KindOK, AtEnd
<1>4. Sizes /\ IdleView /\ Sizes' /\ IdleView'
  BY SizesNow, SizesNext, IdleNow, IdleNext DEF RefInv
<1>5. asked.op = "read" /\ asked.n = n
  BY DEF Ask
<1>6. CASE inbuf # << >> /\ n >= 0 /\ n <= Unread
  <2> DEFINE t == SubSeq(inbuf, inpos + 1, inpos + n)
             e == off - Unread + n
  <2>1. /\ request' = asked /\ answer' = Bytes(t)
        /\ UNCHANGED <<disk, off, open, outbuf, ft_eof, call>>
        /\ IF inpos + n = Len(inbuf) THEN inbuf' = << >> /\ inpos' = 0
           ELSE inpos' = inpos + n /\ inbuf' = inbuf
    BY <1>6 DEF do_bin_read, Returns
  <2>2. outbuf = << >> /\ outbuf' = << >>
    BY <1>3, <1>6, <2>1
  <2>3. /\ Content = disk /\ Pos = off - Unread /\ Content' = disk /\ Pos' = off' - Unread'
        /\ disk \in Seq(Byte) /\ Pos \in Nat
    BY <1>1, <1>4, <2>1, <2>2 DEF IdleView
  <2>4. /\ Unread' = Unread - n
        /\ inbuf' # << >> => inpos' > 0
    <3>1. Unread = Len(inbuf) - inpos /\ Unread' = Len(inbuf') - inpos'
          /\ Len(inbuf) \in Nat /\ inpos \in Nat /\ (inbuf = << >> => Unread = 0)
          /\ (inbuf' = << >> => Unread' = 0)
      BY <1>4 DEF Sizes
    <3>2. CASE inpos + n = Len(inbuf)
      <4>1. inbuf' = << >> /\ Unread' = 0 /\ Unread - n = 0
        BY <1>2, <2>1, <3>1, <3>2
      <4> QED
        BY <4>1
    <3>3. CASE inpos + n # Len(inbuf)
      <4>1. inpos' = inpos + n /\ inbuf' = inbuf
        BY <2>1, <3>3
      <4>2. Unread' = Len(inbuf) - (inpos + n)
        BY <3>1, <4>1
      <4>3. Unread' = Unread - n
        BY <1>2, <3>1, <4>2
      <4> QED
        BY <1>2, <1>3, <1>6, <3>1, <4>1, <4>3
    <3> QED
      BY <3>2, <3>3
  <2>5. RefInv'
    BY <1>1, <1>3, <2>1, <2>4, RefQuiet DEF AtEnd
  <2>6. Pos' = e
    <3>1. off' = off /\ off \in Nat /\ Unread \in Nat
      BY <1>4, <2>1 DEF Sizes
    <3> QED
      BY <1>2, <2>3, <2>4, <3>1
  <2>7. Matches(t, disk, off - Unread, e) /\ e \in off - Unread..Top(disk, off - Unread)
    BY <1>2, <1>4, <1>6, BufferedRead
  <2>8. e - Pos = n /\ e - Pos <= n
    <3>1. off \in Nat /\ Unread \in Nat
      BY <1>4 DEF Sizes
    <3> QED
      BY <1>2, <2>3, <3>1
  <2> HIDE DEF t, e
  <2>9. ByteAnswer(Content, Pos, n, t, e)
    BY <1>2, <1>6, <2>3, <2>7, <2>8, ByteReading
  <2>10. FileStep
    <3>1. ByteAnswer(Content, Pos, request'.n, t, Pos') /\ answer' = Bytes(t) /\ request'.op = "read"
      BY <1>5, <2>1, <2>6, <2>9
    <3> QED
      BY <1>1, <2>1, <2>3, <3>1, FileReads
  <2> QED
    BY <2>5, <2>10
<1>7. CASE ~(inbuf # << >> /\ n >= 0 /\ n <= Unread)
  <2> DEFINE t == After(inbuf, inpos) \o Upto(got, taken)
  <2>1. /\ n # 0 /\ flushed.ok
        /\ disk' = flushed.disk /\ off' = flushed.off + Len(got)
        /\ outbuf' = << >> /\ inbuf' = got /\ inpos' = taken
        /\ request' = asked /\ answer' = Bytes(t)
        /\ UNCHANGED <<open, ft_eof, call>>
    BY <1>7, NeverDies DEF do_bin_read, Returns, Undisturbed
  <2>2. /\ flushed.disk \in Seq(Byte) /\ flushed.off \in Nat /\ Len(flushed.disk) <= Space
        /\ SyncedAt(inbuf, inpos, flushed.disk, flushed.off)
        /\ flushed.disk = Content /\ flushed.off = off + Len(outbuf)
    BY <1>1, <2>1, FlushedView
  <2>3. /\ Unread = Len(inbuf) - inpos /\ Unread \in Nat /\ (n < 0 \/ n >= Unread)
        /\ (n < 0 \/ n > Unread) /\ inbuf \in Seq(Byte)
        /\ Pos = off + Len(outbuf) - Unread /\ off \in Nat /\ Len(outbuf) \in Nat /\ Pos \in Nat
    <3>1. /\ Unread = Len(inbuf) - inpos /\ Unread \in Nat /\ (inbuf = << >> => Unread = 0)
          /\ inbuf \in Seq(Byte) /\ off \in Nat /\ Len(outbuf) \in Nat
      BY <1>4 DEF Sizes
    <3>2. Pos = off + Len(outbuf) - Unread /\ Pos \in Nat
      BY <1>1, <1>4 DEF IdleView
    <3>3. n < 0 \/ n > Unread
      BY <1>2, <1>7, <2>1, <3>1
    <3> QED
      BY <1>2, <3>1, <3>2, <3>3
  <2> DEFINE at == flushed.off
             data == flushed.disk
  <2>4. PICK m \in Nat : /\ got = ReadAt(data, at, m)
                         /\ n < 0 => m = Len(data)
                         /\ n >= 0 => m >= n - Unread
    <3>1. need \in Int /\ (n < 0 => need < 0) /\ (n >= 0 => need >= 0 /\ need >= n - Unread)
      BY <1>2, <2>3
    <3> HIDE DEF need
    <3>2. PICK m \in Nat : got = ReadAt(data, at, m) /\ m = IF need < 0 THEN Len(data) ELSE need
      BY <2>2, <3>1, RawReadFacts
    <3> HIDE DEF got, data, at
    <3>3. n < 0 => m = Len(data)
      BY <3>1, <3>2
    <3>4. n >= 0 => m >= n - Unread
      BY <3>1, <3>2
    <3> QED
      BY <3>2, <3>3, <3>4
  <2> HIDE DEF got
  <2>5. /\ taken \in 0..Len(got) /\ Len(got) \in Nat
        /\ ByteAnswer(data, at - Unread, n, t, at + taken)
        /\ n > Unread \/ n < 0 => (got # << >> => taken > 0)
    <3> HIDE DEF at, data
    <3>1. data \in Seq(Byte) /\ at \in Nat /\ SyncedAt(inbuf, inpos, data, at)
      BY <2>2 DEF at, data
    <3> QED
      BY <1>2, <2>3, <2>4, <3>1, RefilledRead
  <2> HIDE DEF taken
  <2>6. RefInv'
    <3>1. Len(disk') <= Space
      BY <2>1, <2>2
    <3>2. inbuf' # << >> => inpos' > 0
      BY <2>1, <2>3, <2>5
    <3>3. AtEnd'
      BY <1>3, <2>1 DEF AtEnd
    <3>4. call' \in {Idle, Dead}
      BY <1>1, <2>1
    <3> QED
      BY <3>1, <3>2, <3>3, <3>4, RefQuiet
  <2>7. Content' = Content /\ disk' = Content /\ Pos = at - Unread /\ Pos' = at + taken
    <3>1. Content' = disk' /\ Pos' = off' - Unread'
      BY <1>1, <1>4, <2>1 DEF IdleView
    <3>2. Unread' = Len(got) - taken
      BY <1>4, <2>1 DEF Sizes
    <3>3. off' = at + Len(got) /\ at \in Nat
      BY <2>1, <2>2
    <3>4. Pos = at - Unread
      BY <2>2, <2>3
    <3> HIDE DEF at
    <3>5. Pos' = at + taken
      BY <2>5, <3>1, <3>2, <3>3
    <3>6. disk' = Content
      BY <2>1, <2>2
    <3> QED
      BY <3>1, <3>4, <3>5, <3>6
  <2> HIDE DEF t, at
  <2>8. FileStep
    <3>1. data = Content
      BY <2>2
    <3>2. ByteAnswer(Content, Pos, n, t, Pos')
      BY <2>5, <2>7, <3>1
    <3>3. ByteAnswer(Content, Pos, request'.n, t, Pos') /\ answer' = Bytes(t) /\ request'.op = "read"
      BY <1>5, <2>1, <3>2
    <3> QED
      BY <1>1, <2>1, <2>7, <3>3, FileReads
  <2> QED
    BY <2>6, <2>8
<1> QED
  BY <1>6, <1>7

LEMMA BinWriteRefines ==
    ASSUME RefInv, SafeInv', UNCHANGED file, NEW bytes \in Chunks, do_bin_write(bytes)
    PROVE  RefInv' /\ FileStep
<1> DEFINE all == outbuf \o bytes
           o   == off - Unread
           w   == RawWrite(all, o)
           new == WriteAt(Content, Pos, bytes)
<1>1. /\ file.kind = "binary" /\ call = Idle /\ call' = Idle /\ open /\ file.writable
      /\ inbuf' = << >> /\ inpos' = 0 /\ UNCHANGED <<open, ft_eof>>
      /\ request' = Ask("write", 0, bytes, "set")
      /\ IF Len(all) > IO_BUFFER_SIZE
         THEN /\ disk' = w.disk /\ off' = w.off /\ outbuf' = << >>
              /\ answer' = IF w.ok THEN Number(Len(bytes)) ELSE Failure
         ELSE /\ outbuf' = all /\ off' = o /\ answer' = Number(Len(bytes)) /\ disk' = disk
  BY DEF do_bin_write, On, Usable, Returns, bin_flush
<1>2. bytes \in Seq(Byte) /\ Len(bytes) \in Nat
  BY FilesAssumption, LenProperties
<1>3. ~ft_eof /\ Len(disk) <= Space /\ (outbuf # << >> => inbuf = << >>)
  BY <1>1 DEF RefInv, SafeInv, KindOK, AtEnd
<1>4. Sizes /\ IdleView /\ Sizes' /\ IdleView'
  BY SizesNow, SizesNext, IdleNow, IdleNext DEF RefInv
<1>5. /\ disk \in Seq(Byte) /\ outbuf \in Seq(Byte) /\ o \in Nat /\ Len(outbuf) \in Nat
      /\ off \in Nat /\ Unread \in Nat
  BY <1>4 DEF Sizes
<1>6. Content = WriteAt(disk, o, outbuf) /\ Pos = o + Len(outbuf)
  <2>1. Pos = o + Len(outbuf)
    BY <1>1, <1>4, <1>5 DEF IdleView
  <2>2. CASE outbuf = << >>
    BY <2>1, <2>2 DEF Content, WriteAt
  <2>3. CASE outbuf # << >>
    <3>1. Unread = 0
      BY <1>3, <1>4, <2>3 DEF Sizes
    <3>2. o = off
      BY <1>5, <3>1
    <3> QED
      BY <2>1, <3>2 DEF Content
  <2> QED
    BY <2>2, <2>3
<1>7. all \in Seq(Byte) /\ Len(all) = Len(outbuf) + Len(bytes)
  BY <1>2, <1>5, ConcatProperties
<1> HIDE DEF all, o, w
<1>8. new = WriteAt(disk, o, all)
  BY <1>2, <1>5, <1>6, WriteTwice DEF all
<1> HIDE DEF new
<1>9. Unread' = 0
  BY <1>1, <1>4 DEF Sizes
<1>10. request'.op = "write" /\ request'.bytes = bytes
  BY <1>1 DEF Ask
<1>11. AtEnd'
  BY <1>1, <1>3 DEF AtEnd
<1>12. CASE Len(all) > IO_BUFFER_SIZE
  <2>1. /\ disk' = w.disk /\ off' = w.off /\ outbuf' = << >>
        /\ answer' = IF w.ok THEN Number(Len(bytes)) ELSE Failure
    BY <1>1, <1>12
  <2>2. Len(disk') <= Space
    BY <1>3, <1>5, <1>7, <2>1, WriteFits DEF w
  <2>3. RefInv'
    BY <1>1, <1>11, <2>2, RefQuiet
  <2>4. Content' = disk' /\ Pos' = off'
    BY <1>1, <1>4, <2>1 DEF IdleView
  <2>5. IF w.ok THEN Content' = new /\ disk' = new /\ Pos' = o + Len(all)
        ELSE answer' = Failure => FailsAt(new)
    BY <1>5, <1>7, <1>8, <2>1, <2>4, RawWriteStep DEF w
  <2>6. o + Len(all) = Pos + Len(bytes)
    BY <1>2, <1>5, <1>6, <1>7
  <2>7. \/ /\ Content' = new /\ Pos' = Pos + Len(bytes) /\ answer' = Number(Len(bytes))
           /\ disk' \in {disk, Content'}
        \/ FailsAt(new)
    BY <2>1, <2>5, <2>6
  <2>8. FileStep
    BY <1>1, <1>10, <2>7, FileWrites DEF new
  <2> QED
    BY <2>3, <2>8
<1>13. CASE ~(Len(all) > IO_BUFFER_SIZE)
  <2>1. outbuf' = all /\ off' = o /\ answer' = Number(Len(bytes)) /\ disk' = disk
    BY <1>1, <1>13
  <2>2. RefInv'
    BY <1>1, <1>3, <1>11, <2>1, RefQuiet
  <2>3. Content' = new
    BY <1>8, <2>1 DEF Content
  <2>4. Pos' = off' + Len(outbuf') - Unread'
    BY <1>1, <1>4 DEF IdleView
  <2>5. Pos' = Pos + Len(bytes)
    <3>1. Pos' = o + Len(all) - 0
      BY <1>9, <2>1, <2>4
    <3> QED
      BY <1>2, <1>5, <1>6, <1>7, <3>1
  <2>6. FileStep
    BY <1>1, <1>10, <2>1, <2>3, <2>5, FileWrites DEF new
  <2> QED
    BY <2>2, <2>6
<1> QED
  BY <1>12, <1>13

(* What a flush, a seek and a close have in common.                        *)
LEMMA FlushedStep ==
    ASSUME RefInv, IdleView', call = Idle, call' = Idle, outbuf' = << >>,
           disk' = bin_flush(outbuf, off).disk
    PROVE  /\ Len(disk') <= Space
           /\ Content' = disk' /\ Pos' = off' - Unread' /\ Pos' \in Nat
           /\ bin_flush(outbuf, off).ok => disk' = Content
           /\ ~bin_flush(outbuf, off).ok /\ answer' = Failure => FailsAt(Content)
<1> DEFINE flushed == bin_flush(outbuf, off)
<1>1. /\ Len(flushed.disk) <= Space
      /\ flushed.ok => flushed.disk = Content
      /\ ~flushed.ok => WriteFails(flushed, Content)
  BY FlushedView
<1>2. Content' = disk' /\ Pos' = off' - Unread' /\ Pos' \in Nat
  BY DEF IdleView
<1> HIDE DEF flushed
<1>3. disk' = flushed.disk
  BY DEF flushed
<1> QED
  BY <1>1, <1>2, <1>3 DEF FailsAt, WriteFails, flushed

LEMMA BinFlushRefines ==
    ASSUME RefInv, SafeInv', UNCHANGED file, do_bin_flush
    PROVE  RefInv' /\ FileStep
<1> DEFINE flushed == bin_flush(outbuf, off)
<1>1. /\ file.kind = "binary" /\ call = Idle /\ call' = Idle /\ open
      /\ disk' = flushed.disk /\ off' = flushed.off /\ outbuf' = << >>
      /\ request' = AskFor("flush") /\ answer' = IF flushed.ok THEN Nothing ELSE Failure
      /\ UNCHANGED <<open, inbuf, inpos, ft_eof>>
  BY DEF do_bin_flush, On, Returns
<1>2. Sizes /\ IdleView /\ Sizes' /\ IdleView'
  BY SizesNow, SizesNext, IdleNow, IdleNext DEF RefInv
<1>3. /\ Len(disk') <= Space
      /\ Content' = disk' /\ Pos' = off' - Unread' /\ Pos' \in Nat
      /\ flushed.ok => disk' = Content
      /\ ~flushed.ok /\ answer' = Failure => FailsAt(Content)
  BY <1>1, <1>2, FlushedStep
<1>4. ~ft_eof
  BY <1>1 DEF RefInv, AtEnd
<1>5. RefInv'
  BY <1>1, <1>3, <1>4, RefQuiet DEF RefInv, AtEnd
<1>6. flushed.ok => Pos' = Pos
  <2>1. flushed.ok => off' = off + Len(outbuf)
    BY <1>1, FlushedView
  <2>2. Unread' = Unread
    BY <1>1, <1>2 DEF Sizes
  <2>3. Pos = off + Len(outbuf) - Unread
    BY <1>1, <1>2 DEF IdleView
  <2>4. Pos' = off' - Unread'
    BY <1>3
  <2> HIDE DEF flushed
  <2>5. ASSUME flushed.ok PROVE Pos' = Pos
    <3>2. off \in Nat /\ Len(outbuf) \in Nat /\ Unread \in Nat
      BY <1>2 DEF Sizes
    <3>1. Pos' = off + Len(outbuf) - Unread
      BY <2>1, <2>2, <2>4, <2>5, <3>2
    <3> QED
      BY <2>3, <3>1
  <2> QED
    BY <2>5
<1>7. request'.op = "flush"
  BY <1>1 DEF AskFor, Ask
<1> HIDE DEF flushed
<1>8. \/ answer' = Nothing /\ disk' = Content' /\ Content' = Content /\ Pos' = Pos
      \/ FailsAt(Content)
  BY <1>1, <1>3, <1>6
<1>9. FileStep
  BY <1>1, <1>7, <1>8, FileFlushes
<1> QED
  BY <1>5, <1>9

LEMMA BinCloseRefines ==
    ASSUME RefInv, SafeInv', UNCHANGED file, do_bin_close
    PROVE  RefInv' /\ FileStep
<1> DEFINE flushed == bin_flush(outbuf, off)
<1>1. /\ file.kind = "binary" /\ call = Idle /\ call' = Idle /\ request' = AskFor("close")
  BY DEF do_bin_close, On, Returns, Untouched
<1>2. Sizes /\ IdleView /\ Sizes' /\ IdleView'
  BY SizesNow, SizesNext, IdleNow, IdleNext DEF RefInv
<1>3. request'.op = "close"
  BY <1>1 DEF AskFor, Ask
<1>4. ~ft_eof
  BY <1>1 DEF RefInv, AtEnd
<1>5. CASE ~open
  <2>1. /\ answer' = Nothing /\ open' = FALSE
        /\ UNCHANGED <<disk, off, open, outbuf, inbuf, inpos, ft_eof>>
    BY <1>5 DEF do_bin_close, Returns, Untouched, RefInv, SafeInv, TypeOK
  <2>2. outbuf = << >>
    BY <1>5 DEF RefInv, SafeInv, KindOK
  <2>3. RefInv'
    BY <1>1, <1>4, <2>1, RefQuiet DEF RefInv, AtEnd
  <2>4. Content = disk /\ Content' = disk' /\ Pos' \in Nat
    BY <1>1, <1>2, <2>1, <2>2 DEF IdleView
  <2>5. FileStep
    BY <1>3, <2>1, <2>4, FileCloses
  <2> QED
    BY <2>3, <2>5
<1>6. CASE open
  <2>1. /\ disk' = flushed.disk /\ off' = flushed.off /\ outbuf' = << >> /\ ft_eof' = ft_eof
        /\ IF flushed.ok THEN inbuf' = << >> /\ inpos' = 0 /\ open' = FALSE /\ answer' = Nothing
           ELSE answer' = Failure /\ UNCHANGED <<inbuf, inpos, open>>
    BY <1>6 DEF do_bin_close, Returns
  <2>2. /\ Len(disk') <= Space
        /\ Content' = disk' /\ Pos' \in Nat
        /\ flushed.ok => disk' = Content
        /\ ~flushed.ok /\ answer' = Failure => FailsAt(Content)
    BY <1>1, <1>2, <2>1, FlushedStep
  <2> HIDE DEF flushed
  <2>3. RefInv'
    <3>1. AtEnd'
      BY <1>4, <2>1 DEF AtEnd
    <3>2. inbuf' # << >> => inpos' > 0
      BY <1>1, <2>1 DEF RefInv
    <3> QED
      BY <1>1, <2>2, <3>1, <3>2, RefQuiet
  <2>4. \/ answer' = Nothing /\ open' = FALSE /\ disk' = Content' /\ Content' = Content /\ Pos' \in Nat
        \/ open /\ FailsAt(Content) /\ UNCHANGED open
    BY <1>6, <2>1, <2>2
  <2>5. FileStep
    BY <1>3, <2>4, FileCloses
  <2> QED
    BY <2>3, <2>5
<1> QED
  BY <1>5, <1>6

LEMMA BinSeekRefines ==
    ASSUME RefInv, SafeInv', Undisturbed, UNCHANGED file, NEW n \in Offsets, NEW from \in Origins,
           do_bin_seek(n, from)
    PROVE  RefInv' /\ FileStep
<1> DEFINE flushed == bin_flush(outbuf, off)
           by      == IF from = "cur" THEN n - Unread ELSE n
           asked   == Ask("seek", n, << >>, from)
<1>1. /\ file.kind = "binary" /\ call = Idle /\ call' = Idle /\ open
      /\ ~(Target(flushed.disk, flushed.off, by, from) < 0 /\ Unread # 0)
      /\ disk' = flushed.disk /\ outbuf' = << >> /\ UNCHANGED <<open, ft_eof>>
      /\ IF ~flushed.ok
         THEN off' = flushed.off /\ request' = asked /\ answer' = Failure /\ UNCHANGED <<inbuf, inpos>>
         ELSE inbuf' = << >> /\ inpos' = 0 /\ Lseek(asked, flushed.disk, flushed.off, by, from)
  BY DEF do_bin_seek, On, Returns, Undisturbed
<1>2. n \in Int
  BY FilesAssumption
<1>3. Sizes /\ IdleView /\ Sizes' /\ IdleView'
  BY SizesNow, SizesNext, IdleNow, IdleNext DEF RefInv
<1>4. /\ Len(disk') <= Space
      /\ Content' = disk' /\ Pos' = off' - Unread' /\ Pos' \in Nat
      /\ flushed.ok => disk' = Content
      /\ ~flushed.ok /\ answer' = Failure => FailsAt(Content)
  BY <1>1, <1>3, FlushedStep
<1>5. /\ flushed.off \in Nat
      /\ flushed.ok => flushed.disk = Content /\ flushed.off = off + Len(outbuf)
  BY <1>1, FlushedView
<1>6. /\ Content \in Seq(Byte) /\ Pos \in Nat /\ Pos = off + Len(outbuf) - Unread
      /\ off \in Nat /\ Unread \in Nat /\ Len(outbuf) \in Nat
  BY <1>1, <1>3 DEF IdleView, Sizes
<1>7. by \in Int
  BY <1>2, <1>6
<1> HIDE DEF flushed
<1>8. RefInv'
  <2>1. ~ft_eof /\ (inbuf # << >> => inpos > 0)
    BY <1>1 DEF RefInv, AtEnd
  <2>2. inbuf' # << >> => inpos' > 0
    BY <1>1, <2>1
  <2>3. AtEnd'
    BY <1>1, <2>1 DEF AtEnd
  <2> QED
    BY <1>1, <1>4, <2>2, <2>3, RefQuiet
<1>9. CASE ~flushed.ok
  <2>1. request'.op = "seek" /\ FailsAt(Content)
    BY <1>1, <1>4, <1>9 DEF Ask
  <2> QED
    BY <1>1, <1>8, <2>1, FileSeeks
<1>10. CASE flushed.ok
  <2> DEFINE at == flushed.off
  <2>1. /\ inbuf' = << >> /\ inpos' = 0 /\ Lseek(asked, Content, at, by, from)
        /\ at = off + Len(outbuf) /\ disk' = Content
    BY <1>1, <1>4, <1>5, <1>10
  <2>2. Unread' = 0
    BY <1>3, <2>1 DEF Sizes
  <2>3. at \in Nat /\ Content' = Content
    BY <1>4, <1>5, <2>1
  <2>8. off' \in Nat
    BY <1>3 DEF Sizes
  <2>4. Pos' = off'
    <3>1. Pos' = off' - 0
      BY <1>4, <2>2
    <3>2. \A a \in Nat : a - 0 = a
      OBVIOUS
    <3> QED
      BY <2>8, <3>1, <3>2
  <2>5. ~(Target(Content, at, by, from) < 0 /\ Unread # 0)
    BY <1>1, <1>5, <1>10
  <2> HIDE DEF at
  <2>6. by = IF from = "cur" THEN n + Pos - at ELSE n
    BY <1>2, <1>6, <2>1, <2>3
  <2>7. Target(Content, at, by, from) < 0 => at = Pos
    <3>1. Unread = 0 => at = Pos
      BY <1>6, <2>1
    <3> QED
      BY <2>5, <3>1
  <2> HIDE DEF by
  <2>9. FileStep
    BY <1>1, <1>2, <1>6, <1>7, <2>1, <2>3, <2>4, <2>6, <2>7, SeekStep
  <2> QED
    BY <1>8, <2>9
<1> QED
  BY <1>9, <1>10
------------------------------------------------------------------------------
LEMMA QuietRef == RefInv /\ UNCHANGED file /\ Untouched => RefInv'
BY QuietKeeps DEF RefInv, AtEnd, InRead, Untouched, Unread

LEMMA TellsRefine ==
    ASSUME RefInv, SafeInv', UNCHANGED file, do_raw_tell \/ do_bin_tell \/ do_text_tell
    PROVE  RefInv' /\ FileStep
<1> DEFINE told == IF do_bin_tell THEN IF outbuf = << >> /\ inpos = 0 THEN off ELSE off + Len(outbuf) - Unread
                   ELSE IF do_raw_tell THEN off ELSE off - Unread
<1>1. open /\ call = Idle /\ Untouched /\ request' = AskFor("tell")
  BY DEF do_raw_tell, do_bin_tell, do_text_tell, On, Returns
<1>2. Sizes /\ IdleView /\ KindOK /\ (file.kind = "binary" /\ inbuf # << >> => inpos > 0)
  BY SizesNow, IdleNow DEF RefInv, SafeInv
<1>3. /\ Pos = off + Len(outbuf) - Unread /\ off \in Nat /\ Len(outbuf) \in Nat /\ Unread \in Nat
      /\ outbuf = << >> => Pos = off - Unread
      /\ outbuf = << >> /\ inbuf = << >> => Pos = off
  BY <1>1, <1>2 DEF Sizes, IdleView
<1>4. answer' = Number(Pos)
  <2>1. CASE do_raw_tell
    <3>1. answer' = Number(off) /\ outbuf = << >> /\ inbuf = << >>
      BY <1>2, <2>1 DEF do_raw_tell, On, Returns, KindOK
    <3> QED
      BY <1>3, <3>1
  <2>2. CASE do_text_tell
    <3>1. answer' = Number(off - Unread) /\ outbuf = << >>
      BY <1>2, <2>2 DEF do_text_tell, On, Returns, KindOK
    <3> QED
      BY <1>3, <3>1
  <2>3. CASE do_bin_tell
    <3>1. /\ answer' = Number(IF outbuf = << >> /\ inpos = 0 THEN off ELSE off + Len(outbuf) - Unread)
          /\ file.kind = "binary"
      BY <2>3 DEF do_bin_tell, On, Returns
    <3>2. CASE outbuf = << >> /\ inpos = 0
      <4>1. inbuf = << >>
        BY <1>2, <3>1, <3>2
      <4> QED
        BY <1>3, <3>1, <3>2, <4>1
    <3>3. CASE ~(outbuf = << >> /\ inpos = 0)
      BY <1>3, <3>1, <3>3
    <3> QED
      BY <3>2, <3>3
  <2> QED
    BY <2>1, <2>2, <2>3
<1>5. request'.op = "tell"
  BY <1>1 DEF AskFor, Ask
<1> QED
  BY <1>1, <1>4, <1>5, QuietRef, FileTells

LEMMA TextFlushRefines ==
    ASSUME RefInv, SafeInv', UNCHANGED file, do_text_flush
    PROVE  RefInv' /\ FileStep
<1>1. call = Idle /\ file.kind = "text" /\ Untouched /\ request' = AskFor("flush") /\ answer' = Nothing
  BY DEF do_text_flush, On, Returns
<1>2. request'.op = "flush"
  BY <1>1 DEF AskFor, Ask
<1>3. outbuf = << >>
  BY <1>1 DEF RefInv, SafeInv, KindOK
<1>4. Content = disk /\ Content' = Content /\ Pos' = Pos /\ disk' = disk /\ UNCHANGED open
  <2>1. Content = disk
    BY <1>1, <1>3, IdleNow DEF RefInv, IdleView
  <2> QED
    BY <1>1, <2>1 DEF Untouched, Content, Pos, Unread
<1>5. CASE open
  BY <1>1, <1>2, <1>4, <1>5, QuietRef, FileFlushes
<1>6. CASE ~open
  BY <1>1, <1>6, QuietRef, FileRefused
<1> QED
  BY <1>5, <1>6

LEMMA RefusedRefines ==
    ASSUME RefInv, SafeInv', UNCHANGED file, Refused
    PROVE  RefInv' /\ FileStep
<1>1. PICK op \in {"read", "write", "flush", "tell", "seek"} :
        ~Usable(op) /\ Returns(AskFor(op), Failure)
  BY DEF Refused
<1>2. Untouched /\ request'.op = op /\ answer' = Failure
  BY <1>1 DEF Refused, Returns, AskFor, Ask
<1>3. ~open \/ (op = "write" /\ ~file.writable) \/ (op = "read" /\ ~file.readable)
  BY <1>1 DEF Usable
<1> QED
  BY <1>2, <1>3, QuietRef, FileRefused
------------------------------------------------------------------------------
(* Once round the loop of a read: what was decoded before stands from a to *)
(* p, what was unread from p to at, the offset; the text to decode ends at *)
(* c, and what can be decoded of it, or is wanted (w characters), at e.    *)
Round(data, a, p, at, line, n, w, c, e) ==
    /\ data \in Seq(Byte) /\ a \in Nat /\ p \in Nat /\ at \in Nat /\ a <= p /\ p <= at
    /\ a < at => at <= Len(data)
    /\ line \in BOOLEAN /\ n \in Int
    /\ WholeIn(data, a, p)
    /\ line => NoNewline(data, a, p) /\ w = -1 /\ LineEnd(data, p, at, c)
    /\ ~line => /\ c = at
                /\ n < 0 => w = -1
                /\ n >= 0 => w = n - Count(data, a, p) /\ w > 0
    /\ e \in p..c /\ c \in p..at
    /\ Stops(data, p, c, w, e)

Most(line, n) == IF line THEN -1 ELSE n

IsEnough(data, p, line, w, c, e) ==
    IF line THEN c > p /\ data[c] = Newline ELSE w >= 0 /\ w = Count(data, p, e)

IsBad(data, c, e) == Broken(data, e, c) /\ ~(data[e + 1] = Lead /\ e + 1 = c)

LEMMA RoundFacts ==
    ASSUME NEW data, NEW a, NEW p, NEW at, NEW line, NEW n, NEW w, NEW c, NEW e,
           Round(data, a, p, at, line, n, w, c, e)
    PROVE  /\ a \in Nat /\ p \in Nat /\ at \in Nat /\ c \in Nat /\ e \in Nat /\ w \in Int /\ n \in Int
           /\ a <= p /\ p <= e /\ e <= c /\ c <= at /\ a <= e
           /\ data \in Seq(Byte) /\ line \in BOOLEAN /\ Most(line, n) \in Int
           /\ Top(data, a) \in Nat /\ at <= Top(data, a)
           /\ at >= Len(data) => Top(data, a) = at
           /\ WholeIn(data, a, e)
           /\ Count(data, a, e) = Count(data, a, p) + Count(data, p, e)
           /\ Count(data, a, p) \in Nat /\ Count(data, p, e) \in Nat
<1>1. /\ a \in Nat /\ p \in Nat /\ at \in Nat /\ c \in Nat /\ e \in Nat /\ n \in Int
      /\ a <= p /\ p <= e /\ e <= c /\ c <= at /\ a <= e
      /\ data \in Seq(Byte) /\ line \in BOOLEAN
      /\ a < at => at <= Len(data)
  BY DEF Round
<1>2. Most(line, n) \in Int
  BY <1>1 DEF Most
<1>3. Top(data, a) \in Nat /\ at <= Top(data, a) /\ (at >= Len(data) => Top(data, a) = at)
  <2>1. Len(data) \in Nat
    BY <1>1, LenProperties
  <2> QED
    BY <1>1, <2>1 DEF Top
<1>4. WholeIn(data, a, p) /\ WholeIn(data, p, e)
  BY DEF Round, Stops
<1>5. WholeIn(data, a, e)
  BY <1>1, <1>4, WholeSplit
<1>6. Count(data, a, p) \in Nat /\ Count(data, p, e) \in Nat
  BY <1>1, CountFacts
<1>7. Count(data, a, e) = Count(data, a, p) + Count(data, p, e)
  BY <1>1, CountAdd
<1>8. w \in Int
  BY <1>1, <1>6 DEF Round
<1> QED
  BY <1>1, <1>2, <1>3, <1>5, <1>6, <1>7, <1>8

(* The same of the whole call: what can be decoded stops at e.             *)
LEMMA RoundStops ==
    ASSUME NEW data, NEW a, NEW p, NEW at, NEW line, NEW n, NEW w, NEW c, NEW e,
           Round(data, a, p, at, line, n, w, c, e), NEW d \in Nat, e <= d,
           \/ e = d
           \/ ~line /\ n >= 0 /\ w = Count(data, p, e)
           \/ Broken(data, e, d)
    PROVE  Stops(data, a, d, Most(line, n), e)
<1>1. /\ a \in Nat /\ e \in Nat /\ a <= e /\ WholeIn(data, a, e) /\ n \in Int /\ line \in BOOLEAN
      /\ Count(data, a, e) = Count(data, a, p) + Count(data, p, e)
      /\ Count(data, a, p) \in Nat /\ Count(data, p, e) \in Nat
  BY RoundFacts
<1>2. e \in a..d
  BY <1>1
<1>3. ~line /\ n >= 0 => w = n - Count(data, a, p) /\ w > 0
  BY DEF Round
<1>4. w < 0 \/ Count(data, p, e) <= w
  BY DEF Round, Stops
<1>5. CASE line
  <2>1. Most(line, n) = -1 /\ -1 < 0
    BY <1>5 DEF Most
  <2>2. e = d \/ Broken(data, e, d)
    BY <1>5
  <2> QED
    BY <1>1, <1>2, <2>1, <2>2 DEF Stops
<1>6. CASE ~line
  <2>1. Most(line, n) = n
    BY <1>6 DEF Most
  <2>2. n < 0 \/ Count(data, a, e) <= n
    BY <1>1, <1>3, <1>4, <1>6
  <2>3. e = d \/ (n >= 0 /\ Count(data, a, e) = n) \/ Broken(data, e, d)
    BY <1>1, <1>3, <1>6
  <2> QED
    BY <1>1, <1>2, <2>1, <2>2, <2>3 DEF Stops
<1> QED
  BY <1>5, <1>6

LEMMA BrokenFurther ==
    ASSUME NEW data, NEW e \in Nat, NEW c \in Nat, NEW d \in Nat, c <= d, IsBad(data, c, e)
    PROVE  Broken(data, e, d) /\ e < d
BY DEF IsBad, Broken

(* The text ends somewhere.                                                *)
LEMMA TextEndExists ==
    ASSUME NEW data \in Seq(Byte), NEW a \in Nat, NEW line \in BOOLEAN
    PROVE  \E d \in a..Top(data, a) : TextEnd(data, a, line, d)
<1> DEFINE b == Top(data, a)
<1>1. b \in Nat /\ a <= b /\ Matches(After(data, a), data, a, b)
  BY RestMatches
<1>2. CASE line
  <2>1. \E d \in a..b : LineEnd(data, a, b, d) /\ Matches(Line(After(data, a)), data, a, d)
    BY <1>1, LineOf
  <2> QED
    BY <1>2, <2>1 DEF TextEnd
<1>3. CASE ~line
  <2> HIDE DEF b
  <2>1. b \in a..b
    BY <1>1
  <2> QED
    BY <1>3, <2>1 DEF TextEnd, b
<1> QED
  BY <1>2, <1>3

(* Nothing like an end of line so far: the line goes on.                   *)
LineOpen(data, a, c, at) == c = at /\ NoNewline(data, a, at)

LEMMA LineGoesOn ==
    ASSUME NEW data, NEW a, NEW p, NEW at, NEW line, NEW n, NEW w, NEW c, NEW e,
           Round(data, a, p, at, line, n, w, c, e), line, ~IsEnough(data, p, line, w, c, e)
    PROVE  LineOpen(data, a, c, at)
<1>1. /\ a \in Nat /\ p \in Nat /\ at \in Nat /\ c \in Nat /\ a <= p /\ p <= c /\ c <= at
      /\ Top(data, a) \in Nat /\ at <= Top(data, a)
  BY ONLY Round(data, a, p, at, line, n, w, c, e), RoundFacts
<1>2. LineEnd(data, p, at, c) /\ NoNewline(data, a, p)
  BY DEF Round
<1>3. c = at
  BY <1>2 DEF LineEnd, IsEnough
<1>4. NoNewline(data, a, at)
  <2> SUFFICES ASSUME NEW i \in a + 1..at PROVE data[i] # Newline
    BY DEF NoNewline
  <2>1. CASE i <= p
    <3>1. i \in a + 1..p
      BY <1>1, <2>1
    <3> QED
      BY <1>2, <3>1 DEF NoNewline
  <2>2. CASE i > p /\ i # at
    <3>1. i \in p + 1..at - 1
      BY <1>1, <2>2
    <3> QED
      BY <1>2, <1>3, <3>1 DEF LineEnd
  <2>3. CASE i > p /\ i = at
    BY <1>3, <2>3 DEF IsEnough
  <2> QED
    BY <1>1, <2>1, <2>2, <2>3
<1> QED
  BY <1>3, <1>4 DEF LineOpen

LEMMA LineGoesFurther ==
    ASSUME NEW data, NEW a \in Nat, NEW c, NEW at \in Nat, a <= at, at <= Top(data, a),
           Top(data, a) \in Nat, LineOpen(data, a, c, at), NEW d, LineEnd(data, a, Top(data, a), d)
    PROVE  d \in Nat /\ at <= d
<1>1. /\ d \in Nat /\ a <= d /\ d <= Top(data, a)
      /\ d = Top(data, a) \/ (d > a /\ data[d] = Newline)
  BY DEF LineEnd
<1>2. CASE d = Top(data, a)
  BY <1>1, <1>2
<1>3. CASE d > a /\ data[d] = Newline
  <2>1. ~(d \in a + 1..at)
    BY <1>3 DEF LineOpen, NoNewline
  <2> QED
    BY <1>1, <1>3, <2>1
<1> QED
  BY <1>1, <1>2, <1>3

LEMMA ReadingFails ==
    ASSUME NEW data \in Seq(Byte), NEW a \in Nat, NEW line \in BOOLEAN, NEW n \in Int,
           NEW d, TextEnd(data, a, line, d), NEW e, Stops(data, a, d, Most(line, n), e),
           NEW p \in a..e, e # d, line \/ Count(data, a, e) # n
    PROVE  TextAnswer(data, a, line, n, Failure, p)
<1>1. Stops(data, a, d, IF line THEN -1 ELSE n, e)
  BY DEF Most
<1> QED
  BY <1>1, TextReading

LEMMA ReadingAnswers ==
    ASSUME NEW data \in Seq(Byte), NEW a \in Nat, NEW line \in BOOLEAN, NEW n \in Int,
           NEW d, TextEnd(data, a, line, d), NEW e, Stops(data, a, d, Most(line, n), e),
           NEW t, Matches(t, data, a, e), e = d \/ (~line /\ Count(data, a, e) = n)
    PROVE  TextAnswer(data, a, line, n, Bytes(t), e)
<1>1. Stops(data, a, d, IF line THEN -1 ELSE n, e)
  BY DEF Most
<1>2. e \in a..e
  <2>1. a \in Nat /\ e \in Nat /\ a <= e
    BY DEF Matches
  <2> QED
    BY <2>1
<1>3. \E u : Matches(u, data, a, e) /\ Bytes(t) = Bytes(u)
  OBVIOUS
<1> QED
  BY <1>1, <1>2, <1>3, TextReading

(* What stands there is no character: the call fails.                      *)
LEMMA RoundBad ==
    ASSUME NEW data, NEW a, NEW p, NEW at, NEW line, NEW n, NEW w, NEW c, NEW e,
           Round(data, a, p, at, line, n, w, c, e),
           ~IsEnough(data, p, line, w, c, e), IsBad(data, c, e)
    PROVE  TextAnswer(data, a, line, n, Failure, p)
<1>1. /\ a \in Nat /\ p \in Nat /\ at \in Nat /\ c \in Nat /\ e \in Nat /\ w \in Int /\ n \in Int
      /\ a <= p /\ p <= e /\ e <= c /\ c <= at /\ a <= e
      /\ data \in Seq(Byte) /\ line \in BOOLEAN
      /\ Top(data, a) \in Nat /\ at <= Top(data, a)
      /\ Count(data, a, e) = Count(data, a, p) + Count(data, p, e)
      /\ Count(data, a, p) \in Nat /\ Count(data, p, e) \in Nat
  BY ONLY Round(data, a, p, at, line, n, w, c, e), RoundFacts
<1>2. PICK d \in a..Top(data, a) : TextEnd(data, a, line, d)
  BY ONLY <1>1, TextEndExists
<1>3. d \in Nat /\ c <= d
  <2>1. CASE line
    <3>2. LineOpen(data, a, c, at)
      BY ONLY Round(data, a, p, at, line, n, w, c, e), <2>1,
              ~IsEnough(data, p, line, w, c, e), LineGoesOn
    <3>3. a <= at /\ LineEnd(data, a, Top(data, a), d)
      BY <1>1, <1>2, <2>1 DEF TextEnd
    <3>1. at <= d
      BY ONLY <1>1, <3>2, <3>3, LineGoesFurther
    <3> QED
      BY <1>1, <1>2, <3>1
  <2>2. CASE ~line
    <3>1. d = Top(data, a)
      BY <1>2, <2>2 DEF TextEnd
    <3> QED
      BY <1>1, <3>1
  <2> QED
    BY <2>1, <2>2
<1>4. Broken(data, e, d) /\ e < d
  BY ONLY <1>1, <1>3, IsBad(data, c, e), BrokenFurther
<1>5. Stops(data, a, d, Most(line, n), e)
  <2>1. e <= d /\ \/ e = d
                  \/ ~line /\ n >= 0 /\ w = Count(data, p, e)
                  \/ Broken(data, e, d)
    BY <1>1, <1>3, <1>4
  <2> QED
    BY ONLY Round(data, a, p, at, line, n, w, c, e), <1>3, <2>1, RoundStops
<1>6. line \/ Count(data, a, e) # n
  <2> SUFFICES ASSUME ~line PROVE Count(data, a, e) # n
    BY <1>1
  <2>1. n < 0 \/ (w = n - Count(data, a, p) /\ w > 0)
    BY <1>1 DEF Round
  <2>2. ~(w >= 0 /\ w = Count(data, p, e))
    BY DEF IsEnough
  <2> QED
    BY <1>1, <2>1, <2>2
<1>7. p \in a..e /\ e # d
  BY <1>1, <1>3, <1>4
<1> QED
  BY ONLY <1>1, <1>2, <1>5, <1>6, <1>7, ReadingFails

(* There is enough: the call answers, unless the line is broken, and what  *)
(* it took of the line then, or before, it may keep.                       *)
LEMMA RoundEnough ==
    ASSUME NEW data, NEW a, NEW p, NEW at, NEW line, NEW n, NEW w, NEW c, NEW e,
           Round(data, a, p, at, line, n, w, c, e), IsEnough(data, p, line, w, c, e)
    PROVE  /\ line /\ e # c => TextAnswer(data, a, line, n, Failure, e) /\ TextAnswer(data, a, line, n, Failure, p)
           /\ ~(line /\ e # c) =>
                 \A t : Matches(t, data, a, e) => TextAnswer(data, a, line, n, Bytes(t), e)
<1>1. /\ a \in Nat /\ p \in Nat /\ at \in Nat /\ c \in Nat /\ e \in Nat /\ w \in Int /\ n \in Int
      /\ a <= p /\ p <= e /\ e <= c /\ c <= at /\ a <= e
      /\ data \in Seq(Byte) /\ line \in BOOLEAN
      /\ Top(data, a) \in Nat /\ at <= Top(data, a)
      /\ Count(data, a, e) = Count(data, a, p) + Count(data, p, e)
      /\ Count(data, a, p) \in Nat /\ Count(data, p, e) \in Nat
  BY ONLY Round(data, a, p, at, line, n, w, c, e), RoundFacts
<1>2. CASE line
  <2>1. c > p /\ data[c] = Newline
    BY <1>2 DEF IsEnough
  <2>2. LineEnd(data, p, at, c) /\ NoNewline(data, a, p)
    BY <1>2 DEF Round
  <2>3. LineEnd(data, a, Top(data, a), c)
    <3>1. c \in a..Top(data, a) /\ c > a
      BY <1>1, <2>1
    <3>2. ASSUME NEW i \in a + 1..c - 1 PROVE data[i] # Newline
      <4>1. CASE i <= p
        <5>1. i \in a + 1..p
          BY <1>1, <4>1
        <5> QED
          BY <2>2, <5>1 DEF NoNewline
      <4>2. CASE i > p
        <5>1. i \in p + 1..c - 1
          BY <1>1, <4>2
        <5> QED
          BY <2>2, <5>1 DEF LineEnd
      <4> QED
        BY <1>1, <4>1, <4>2
    <3> QED
      BY <2>1, <3>1, <3>2 DEF LineEnd
  <2>4. TextEnd(data, a, line, c)
    BY <1>2, <2>3 DEF TextEnd
  <2>5. Stops(data, a, c, Most(line, n), e)
    <3>1. e = c \/ Broken(data, e, c)
      BY <1>1, <1>2 DEF Round, Stops
    <3>2. e <= c /\ \/ e = c
                    \/ ~line /\ n >= 0 /\ w = Count(data, p, e)
                    \/ Broken(data, e, c)
      BY <1>1, <3>1
    <3> QED
      BY ONLY Round(data, a, p, at, line, n, w, c, e), <1>1, <3>2, RoundStops
  <2>6. ASSUME e # c, NEW q \in {p, e} PROVE TextAnswer(data, a, line, n, Failure, q)
    <3>1. q \in a..e /\ (line \/ Count(data, a, e) # n)
      BY <1>1, <1>2, <2>6
    <3> QED
      BY ONLY <1>1, <2>4, <2>5, <2>6, <3>1, ReadingFails
  <2>7. ASSUME e = c, NEW t, Matches(t, data, a, e) PROVE TextAnswer(data, a, line, n, Bytes(t), e)
    <3>1. e = c \/ (~line /\ Count(data, a, e) = n)
      BY <2>7
    <3> QED
      BY ONLY <1>1, <2>4, <2>5, <2>7, <3>1, ReadingAnswers
  <2> QED
    BY <1>2, <2>6, <2>7
<1>3. CASE ~line
  <2> DEFINE d == Top(data, a)
  <2>1. TextEnd(data, a, line, d)
    BY <1>3 DEF TextEnd
  <2>2. w >= 0 /\ w = Count(data, p, e)
    BY <1>3 DEF IsEnough
  <2>3. n >= 0 /\ w = n - Count(data, a, p)
    BY <1>1, <1>3, <2>2 DEF Round
  <2>4. Count(data, a, e) = n
    BY <1>1, <2>2, <2>3
  <2>5. d \in Nat /\ e <= d /\ \/ e = d
                               \/ ~line /\ n >= 0 /\ w = Count(data, p, e)
                               \/ Broken(data, e, d)
    BY <1>1, <1>3, <2>2, <2>3
  <2>6. Stops(data, a, d, Most(line, n), e)
    <3> HIDE DEF d
    <3> QED
      BY ONLY Round(data, a, p, at, line, n, w, c, e), <2>5, RoundStops
  <2>7. ASSUME NEW t, Matches(t, data, a, e) PROVE TextAnswer(data, a, line, n, Bytes(t), e)
    <3>1. e = d \/ (~line /\ Count(data, a, e) = n)
      BY <1>3, <2>4
    <3> HIDE DEF d
    <3> QED
      BY ONLY <1>1, <2>1, <2>6, <2>7, <3>1, ReadingAnswers
  <2> QED
    BY <1>3, <2>7
<1> QED
  BY <1>1, <1>2, <1>3

(* The file ends there: what is left is the rest.                          *)
LEMMA RoundEnds ==
    ASSUME NEW data, NEW a, NEW p, NEW at, NEW line, NEW n, NEW w, NEW c, NEW e,
           Round(data, a, p, at, line, n, w, c, e),
           ~IsEnough(data, p, line, w, c, e), at >= Len(data)
    PROVE  /\ e # c => TextAnswer(data, a, line, n, Failure, e)
           /\ e = c => \A t : Matches(t, data, a, e) => TextAnswer(data, a, line, n, Bytes(t), e)
<1>1. /\ a \in Nat /\ p \in Nat /\ at \in Nat /\ c \in Nat /\ e \in Nat /\ w \in Int /\ n \in Int
      /\ a <= p /\ p <= e /\ e <= c /\ c <= at /\ a <= e
      /\ data \in Seq(Byte) /\ line \in BOOLEAN
      /\ Top(data, a) = at
      /\ Count(data, a, e) = Count(data, a, p) + Count(data, p, e)
      /\ Count(data, a, p) \in Nat /\ Count(data, p, e) \in Nat
  BY ONLY Round(data, a, p, at, line, n, w, c, e), at >= Len(data), RoundFacts
<1>2. c = at /\ TextEnd(data, a, line, c)
  <2>1. CASE line
    <3>4. LineOpen(data, a, c, at)
      BY ONLY Round(data, a, p, at, line, n, w, c, e), <2>1,
              ~IsEnough(data, p, line, w, c, e), LineGoesOn
    <3>1. c = at /\ NoNewline(data, a, at)
      BY <3>4 DEF LineOpen
    <3>2. c \in a..at /\ \A i \in a + 1..at - 1 : i \in a + 1..at
      BY <1>1, <3>1
    <3>3. LineEnd(data, a, at, c)
      BY <3>1, <3>2 DEF LineEnd, NoNewline
    <3> QED
      BY <1>1, <2>1, <3>1, <3>3 DEF TextEnd
  <2>2. CASE ~line
    BY <1>1, <2>2 DEF TextEnd, Round
  <2> QED
    BY <2>1, <2>2
<1>3. e = c \/ Broken(data, e, c)
  <2>1. ~(w >= 0 /\ w = Count(data, p, e)) \/ line
    BY DEF IsEnough
  <2> QED
    BY <1>1, <2>1 DEF Round, Stops
<1>4. Stops(data, a, c, Most(line, n), e)
  <2>1. e <= c /\ \/ e = c
                  \/ ~line /\ n >= 0 /\ w = Count(data, p, e)
                  \/ Broken(data, e, c)
    BY <1>1, <1>3
  <2> QED
    BY ONLY Round(data, a, p, at, line, n, w, c, e), <1>1, <2>1, RoundStops
<1>5. line \/ Count(data, a, e) # n
  <2> SUFFICES ASSUME ~line PROVE Count(data, a, e) # n
    BY <1>1
  <2>1. n < 0 \/ (w = n - Count(data, a, p) /\ w > 0)
    BY <1>1 DEF Round
  <2>2. ~(w >= 0 /\ w = Count(data, p, e))
    BY DEF IsEnough
  <2> QED
    BY <1>1, <2>1, <2>2
<1>6. ASSUME e # c PROVE TextAnswer(data, a, line, n, Failure, e)
  <2>1. e \in a..e
    BY <1>1
  <2> QED
    BY ONLY <1>1, <1>2, <1>4, <1>5, <1>6, <2>1, ReadingFails
<1>7. ASSUME e = c, NEW t, Matches(t, data, a, e) PROVE TextAnswer(data, a, line, n, Bytes(t), e)
  <2>1. e = c \/ (~line /\ Count(data, a, e) = n)
    BY <1>7
  <2> QED
    BY ONLY <1>1, <1>2, <1>4, <1>7, <2>1, ReadingAnswers
<1> QED
  BY <1>6, <1>7

(* There is neither enough nor anything wrong: the loop goes on, with at   *)
(* most the beginning of a character unread.                               *)
LEMMA RoundGoesOn ==
    ASSUME NEW data, NEW a, NEW p, NEW at, NEW line, NEW n, NEW w, NEW c, NEW e,
           Round(data, a, p, at, line, n, w, c, e),
           ~IsEnough(data, p, line, w, c, e), ~IsBad(data, c, e)
    PROVE  /\ e = at \/ (e + 1 = at /\ data[at] = Lead)
           /\ WholeIn(data, a, e)
           /\ ~line /\ n >= 0 => Count(data, a, e) < n
           /\ line => NoNewline(data, a, e)
<1>1. /\ a \in Nat /\ p \in Nat /\ at \in Nat /\ c \in Nat /\ e \in Nat /\ w \in Int /\ n \in Int
      /\ a <= p /\ p <= e /\ e <= c /\ c <= at /\ a <= e
      /\ data \in Seq(Byte) /\ line \in BOOLEAN /\ WholeIn(data, a, e)
      /\ Count(data, a, e) = Count(data, a, p) + Count(data, p, e)
      /\ Count(data, a, p) \in Nat /\ Count(data, p, e) \in Nat
  BY ONLY Round(data, a, p, at, line, n, w, c, e), RoundFacts
<1>2. c = at /\ (line => NoNewline(data, a, at))
  <2>1. CASE line
    <3>4. LineOpen(data, a, c, at)
      BY ONLY Round(data, a, p, at, line, n, w, c, e), <2>1,
              ~IsEnough(data, p, line, w, c, e), LineGoesOn
    <3>1. c = at /\ NoNewline(data, a, at)
      BY <3>4 DEF LineOpen
    <3> QED
      BY <3>1
  <2>2. CASE ~line
    BY <2>2 DEF Round
  <2> QED
    BY <2>1, <2>2
<1>3. line \/ ~(w >= 0 /\ w = Count(data, p, e))
  BY DEF IsEnough
<1>4. e = c \/ Broken(data, e, c)
  BY <1>1, <1>3 DEF Round, Stops
<1>5. e = at \/ (e + 1 = at /\ data[at] = Lead)
  BY <1>1, <1>2, <1>4 DEF IsBad
<1>6. ASSUME ~line, n >= 0 PROVE Count(data, a, e) < n
  <2>1. w = n - Count(data, a, p) /\ w > 0
    BY <1>6 DEF Round
  <2>2. Count(data, p, e) <= w
    BY <2>1 DEF Round, Stops
  <2> QED
    BY <1>1, <1>3, <1>6, <2>1, <2>2
<1>7. ASSUME line PROVE NoNewline(data, a, e)
  <2>1. \A i \in a + 1..e : i \in a + 1..at
    BY <1>1
  <2> QED
    BY <1>2, <1>7, <2>1 DEF NoNewline
<1> QED
  BY <1>1, <1>5, <1>6, <1>7
------------------------------------------------------------------------------
(* Where a read of text stands                                             *)

LEMMA CutOf ==
    ASSUME NEW t, NEW s, NEW a, NEW b, Matches(t, s, a, b)
    PROVE  Cut(t) <=> a = b \/ (a + 1 = b /\ s[b] = Lead)
<1>1. /\ t \in Seq(Byte) /\ Len(t) = b - a /\ a \in Nat /\ b \in Nat /\ a <= b
      /\ \A i \in 1..(b - a) : t[i] = s[a + i]
  BY DEF Matches
<1>2. t = << >> <=> a = b
  <2>1. t = << >> <=> Len(t) = 0
    BY <1>1, EmptySeq
  <2> QED
    BY <1>1, <2>1
<1>3. t = <<Lead>> <=> a + 1 = b /\ s[b] = Lead
  <2>1. <<Lead>> \in Seq(Byte) /\ Len(<<Lead>>) = 1 /\ <<Lead>>[1] = Lead
    BY DEF Byte
  <2>2. ASSUME a + 1 = b, s[b] = Lead PROVE t = <<Lead>>
    <3>1. Len(t) = 1 /\ t[1] = Lead
      BY <1>1, <2>2
    <3>2. \A i \in 1..Len(t) : t[i] = <<Lead>>[i]
      <4>1. \A i \in 1..Len(t) : i = 1
        BY <3>1
      <4> QED
        BY <2>1, <3>1, <4>1
    <3> QED
      BY <1>1, <2>1, <3>1, <3>2, SeqEqual
  <2>3. ASSUME t = <<Lead>> PROVE a + 1 = b /\ s[b] = Lead
    <3>1. a + 1 = b /\ t[1] = Lead
      BY <1>1, <2>1, <2>3
    <3>2. 1 \in 1..(b - a) /\ a + 1 = b
      BY <1>1, <3>1
    <3> QED
      BY <1>1, <3>1, <3>2
  <2> QED
    BY <2>2, <2>3
<1> QED
  BY <1>2, <1>3 DEF Cut

LEMMA LineEnough ==
    ASSUME NEW t, NEW s, NEW a, NEW b, NEW c, Matches(t, s, a, c), LineEnd(s, a, b, c)
    PROVE  Newline \in {t[i] : i \in DOMAIN t} <=> c > a /\ s[c] = Newline
<1>1. /\ DOMAIN t = 1..(c - a) /\ a \in Nat /\ c \in Nat /\ a <= c
      /\ \A i \in 1..(c - a) : t[i] = s[a + i]
  BY LenProperties DEF Matches
<1>2. ASSUME NEW i \in 1..(c - a), t[i] = Newline PROVE c > a /\ s[c] = Newline
  <2>1. s[a + i] = Newline /\ a + i \in a + 1..c
    BY <1>1, <1>2
  <2>2. ~(a + i \in a + 1..c - 1)
    BY <2>1 DEF LineEnd
  <2>3. a + i = c /\ c > a
    BY <1>1, <2>1, <2>2
  <2> QED
    BY <2>1, <2>3
<1>3. ASSUME c > a, s[c] = Newline PROVE \E i \in 1..(c - a) : t[i] = Newline
  <2>1. c - a \in 1..(c - a) /\ a + (c - a) = c
    BY <1>1, <1>3
  <2>2. t[c - a] = Newline
    BY <1>1, <1>3, <2>1
  <2> QED
    BY <2>1, <2>2
<1> QED
  BY <1>1, <1>2, <1>3

(* What is decoded so far stands from a to p.                              *)
Stood(out, op, n, data, a, p) ==
    /\ Matches(out, data, a, p)
    /\ a < p => p <= Len(data)
    /\ WholeIn(data, a, p)
    /\ op = "readline" => NoNewline(data, a, p)
    /\ op = "read" /\ n >= 0 => Count(data, a, p) < n

LEMMA PendingStood ==
    ASSUME NEW c, NEW data, NEW p \in Nat, Pending(c, data, p)
    PROVE  Stood(c.out, c.request.op, c.request.n, data, p - Len(c.out), p)
BY DEF Pending, Stood

LEMMA StoodPending ==
    ASSUME NEW c, NEW data, NEW a, NEW p, Stood(c.out, c.request.op, c.request.n, data, a, p)
    PROVE  Pending(c, data, p)
<1>1. p - Len(c.out) = a
  BY DEF Stood, Matches
<1> QED
  BY <1>1 DEF Pending, Stood

ReadView ==
    call \in Reads =>
        /\ Content = disk /\ disk \in Seq(Byte) /\ outbuf = << >>
        /\ off \in Nat /\ Unread \in Nat /\ off - Unread \in Nat
        /\ Len(call.out) \in Nat /\ Pos = off - Unread - Len(call.out)
        /\ call.request \in Asks /\ call.request.n \in Int
        /\ call.request.op \in {"read", "readline"}
        /\ call.request.op = "readline" \/ call.request.op = "read"

LEMMA ReadNow == SafeInv => ReadView
<1> SUFFICES ASSUME SafeInv, call \in Reads
             PROVE  /\ Content = disk /\ disk \in Seq(Byte) /\ outbuf = << >>
                    /\ off \in Nat /\ Unread \in Nat /\ off - Unread \in Nat
                    /\ Len(call.out) \in Nat /\ Pos = off - Unread - Len(call.out)
                    /\ call.request \in Asks /\ call.request.n \in Int
                    /\ call.request.op \in {"read", "readline"}
                    /\ call.request.op = "readline" \/ call.request.op = "read"
  BY DEF ReadView
<1>1. outbuf = << >>
  BY CallTypes DEF SafeInv, CallOK, KindOK, Idle, Dead
<1>2. Len(outbuf) = 0 /\ Content = disk
  BY <1>1, EmptySeq DEF Content, WriteAt
<1>3. call.request \in Asks /\ call.out \in Seq(Byte)
  BY ReadsFacts
<1>4. Len(call.out) \in Nat /\ call.request.n \in Int /\ call.request.op \in {"read", "readline"}
  BY <1>3, AsksFacts, LenProperties
<1>5. Pos = off + 0 - Unread - Len(call.out)
  BY <1>2 DEF Pos
<1> QED
  BY <1>1, <1>2, <1>3, <1>4, <1>5, SafeFacts

LEMMA ReadNext == SafeInv' => ReadView'
BY ReadNow, PTL

(* Before a step of a read.                                                *)
LEMMA ReadStands ==
    ASSUME RefInv, call \in Reads
    PROVE  /\ Stood(call.out, call.request.op, call.request.n, disk, Pos, off - Unread)
           /\ Pos \in Nat /\ Pos <= off - Unread /\ off - Unread <= off
           /\ Pos < off => off <= Len(disk)
           /\ Matches(After(inbuf, inpos), disk, off - Unread, off)
<1>1. ReadView /\ Sizes
  BY ReadNow, SizesNow DEF RefInv
<1>2. Stood(call.out, call.request.op, call.request.n, disk, off - Unread - Len(call.out), off - Unread)
  <2>1. off - Unread \in Nat /\ Pending(call, disk, off - Unread)
    BY <1>1 DEF RefInv, InRead, ReadView
  <2> QED
    BY <2>1, PendingStood
<1>3. Stood(call.out, call.request.op, call.request.n, disk, Pos, off - Unread)
  <2>1. Pos = off - Unread - Len(call.out)
    BY <1>1 DEF ReadView
  <2> QED
    BY <1>2, <2>1
<1>4. Pos \in Nat /\ Pos <= off - Unread /\ (Pos < off - Unread => off - Unread <= Len(disk))
  BY <1>3 DEF Stood, Matches
<1>5. Pos < off => off <= Len(disk)
  <2>1. Unread > 0 => off <= Len(disk)
    BY <1>1 DEF Sizes
  <2>2. Unread = 0 => off - Unread = off
    <3>1. off \in Nat
      BY <1>1 DEF Sizes
    <3> QED
      BY ONLY <3>1
  <2> QED
    BY <1>1, <1>4, <2>1, <2>2 DEF Sizes
<1> QED
  BY <1>1, <1>3, <1>4, <1>5 DEF Sizes

(* The definitions of TextDecode, under names.                             *)
InLine     == call.request.op = "readline"
TextData   == IF InLine THEN Line(After(inbuf, inpos)) ELSE After(inbuf, inpos)
TextTaken  == Decoded(TextData, Wanted)
TextOut    == call.out \o Upto(TextData, TextTaken)
TextEnough == IF InLine THEN Newline \in {TextData[i] : i \in DOMAIN TextData}
              ELSE Wanted >= 0 /\ Wanted = Characters(Upto(TextData, TextTaken))
TextBad    == Malformed(After(TextData, TextTaken))

TextRefuses ==
    /\ TextBad /\ (InLine \/ ~TextEnough)
    /\ TextReadEnds(Failure) /\ UNCHANGED <<inbuf, inpos>>
TextGoesOn ==
    /\ ~TextBad \/ TextEnough
    /\ IF inpos + TextTaken = Len(inbuf) THEN Clearbuf
       ELSE inpos' = inpos + TextTaken /\ UNCHANGED inbuf
    /\ IF TextEnough
       THEN TextReadEnds(IF InLine /\ TextTaken # Len(TextData) THEN Failure ELSE Bytes(TextOut))
       ELSE IF call.at_eof
       THEN TextReadEnds(IF TextTaken = Len(TextData) THEN Bytes(TextOut) ELSE Failure)
       ELSE call' = [call EXCEPT !.at = "fill", !.out = TextOut] /\ UNCHANGED <<request, answer>>

LEMMA WantedIs ==
    ASSUME RefInv, call \in Reads
    PROVE  /\ Wanted # 0 /\ Wanted \in Int
           /\ InLine => Wanted = -1
           /\ ~InLine /\ call.request.n < 0 => Wanted = -1
           /\ ~InLine /\ call.request.n >= 0 =>
                 Wanted = call.request.n - Count(disk, Pos, off - Unread) /\ Wanted > 0
<1>1. ReadView
  BY ReadNow DEF RefInv
<1>2. Stood(call.out, call.request.op, call.request.n, disk, Pos, off - Unread)
  BY ReadStands
<1>3. Wanted = IF InLine \/ call.request.n < 0 THEN -1 ELSE call.request.n - Characters(call.out)
  BY DEF Wanted, InLine
<1>4. Characters(call.out) = Count(disk, Pos, off - Unread)
  BY <1>2, CharactersOf DEF Stood
<1>5. Count(disk, Pos, off - Unread) \in Nat
  BY <1>2, CountFacts DEF Stood, Matches
<1>6. ~InLine => call.request.op = "read"
  BY <1>1 DEF ReadView, InLine
<1>7. ~InLine /\ call.request.n >= 0 => Count(disk, Pos, off - Unread) < call.request.n
  BY <1>2, <1>6 DEF Stood
<1>8. call.request.n \in Int
  BY <1>1 DEF ReadView
<1> QED
  BY <1>3, <1>4, <1>5, <1>7, <1>8

LEMMA DecodeRound ==
    ASSUME RefInv, call \in Reads
    PROVE  \E c \in Nat :
              /\ Round(disk, Pos, off - Unread, off, InLine, call.request.n, Wanted, c,
                       off - Unread + TextTaken)
              /\ TextEnough <=> IsEnough(disk, off - Unread, InLine, Wanted, c, off - Unread + TextTaken)
              /\ TextBad <=> IsBad(disk, c, off - Unread + TextTaken)
              /\ TextTaken \in 0..Unread
              /\ Matches(TextOut, disk, Pos, off - Unread + TextTaken)
              /\ TextTaken = Len(TextData) <=> off - Unread + TextTaken = c
<1> DEFINE p == off - Unread
           k == TextTaken
           e == p + k
           n == call.request.n
           line == InLine
<1>1. ReadView /\ Sizes
  BY ReadNow, SizesNow DEF RefInv
<1>2. /\ Stood(call.out, call.request.op, n, disk, Pos, p)
      /\ Pos \in Nat /\ Pos <= p /\ p <= off /\ p \in Nat
      /\ Pos < off => off <= Len(disk)
  BY <1>1, ReadStands DEF ReadView
<1>3. line \in BOOLEAN
  BY DEF InLine
<1>4. PICK c \in p..off :
         /\ Matches(TextData, disk, p, c)
         /\ IF line THEN LineEnd(disk, p, off, c) ELSE c = off
         /\ k \in 0..(c - p) /\ k \in 0..Unread
         /\ Stops(disk, p, c, Wanted, e)
  BY <1>3, DecodeFacts DEF TextData, TextTaken, RefInv
<1>5. /\ Wanted \in Int
      /\ line => Wanted = -1
      /\ ~line => /\ n < 0 => Wanted = -1
                  /\ n >= 0 => Wanted = n - Count(disk, Pos, p) /\ Wanted > 0
  BY WantedIs
<1>6. /\ WholeIn(disk, Pos, p) /\ Matches(call.out, disk, Pos, p)
      /\ line => NoNewline(disk, Pos, p)
  BY <1>2 DEF Stood, InLine
<1>7. disk \in Seq(Byte) /\ n \in Int /\ off \in Nat
  BY <1>1 DEF ReadView
<1>8. Matches(Upto(TextData, k), disk, p, e) /\ Matches(After(TextData, k), disk, e, c)
  <2> HIDE DEF p, k
  <2> QED
    BY <1>4, PartMatches
<1>9. c \in Nat /\ e \in p..c /\ e \in Nat /\ p <= e /\ e <= c /\ c <= off /\ c \in p..off
  BY <1>2, <1>4, <1>7
<1>10. Round(disk, Pos, p, off, line, n, Wanted, c, e)
  <2> HIDE DEF p, e, n, line
  <2> QED
    BY <1>2, <1>3, <1>4, <1>5, <1>6, <1>7, <1>9 DEF Round
<1>11. TextEnough <=> IsEnough(disk, p, line, Wanted, c, e)
  <2>1. CASE line
    <3>1. TextEnough <=> Newline \in {TextData[i] : i \in DOMAIN TextData}
      BY <2>1 DEF TextEnough
    <3>2. LineEnd(disk, p, off, c) /\ Matches(TextData, disk, p, c)
      BY <1>4, <2>1
    <3> HIDE DEF p, line, e
    <3>3. Newline \in {TextData[i] : i \in DOMAIN TextData} <=> c > p /\ disk[c] = Newline
      BY ONLY <3>2, LineEnough
    <3> QED
      BY <2>1, <3>1, <3>3 DEF IsEnough
  <2>2. CASE ~line
    <3>1. TextEnough <=> Wanted >= 0 /\ Wanted = Characters(Upto(TextData, k))
      BY <2>2 DEF TextEnough
    <3> HIDE DEF p, line, e, k
    <3>2. Characters(Upto(TextData, k)) = Count(disk, p, e)
      BY <1>8, CharactersOf
    <3> QED
      BY <2>2, <3>1, <3>2 DEF IsEnough
  <2> QED
    BY <2>1, <2>2
<1>12. TextBad <=> IsBad(disk, c, e)
  <2>1. TextBad <=> Malformed(After(TextData, k))
    BY DEF TextBad
  <2> HIDE DEF e, k, p
  <2> QED
    BY <1>8, <2>1, MalformedOf DEF IsBad
<1>13. Matches(TextOut, disk, Pos, e)
  <2>1. TextOut = call.out \o Upto(TextData, k)
    BY DEF TextOut
  <2> HIDE DEF e, k, p
  <2> QED
    BY <1>6, <1>8, <2>1, MatchesJoin
<1>14. k = Len(TextData) <=> e = c
  <2>1. Len(TextData) = c - p
    BY <1>4 DEF Matches
  <2>2. k \in Int
    BY <1>4
  <2> HIDE DEF k, p
  <2> QED
    BY <1>2, <1>9, <2>1, <2>2
<1> QED
  BY <1>4, <1>9, <1>10, <1>11, <1>12, <1>13, <1>14

LEMMA DecodeSteps ==
    ASSUME TextDecode
    PROVE  /\ call.at = "decode" /\ UNCHANGED <<disk, off, open, outbuf, ft_eof>>
           /\ IF inbuf = << >> \/ Wanted = 0
              THEN /\ IF call.at_eof
                      THEN TextReadEnds(IF inbuf = << >> THEN Bytes(call.out) ELSE Failure)
                      ELSE call' = [call EXCEPT !.at = "fill"] /\ UNCHANGED <<request, answer>>
                   /\ UNCHANGED <<inbuf, inpos>>
              ELSE TextRefuses \/ TextGoesOn
BY DEF TextRefuses, TextGoesOn, TextDecode, InLine, TextData, TextTaken, TextOut, TextEnough, TextBad

(* A read of text answers.                                                 *)
LEMMA TextAnswered ==
    ASSUME RefInv, SafeInv', UNCHANGED <<file, disk, off, open, outbuf, ft_eof>>,
           call \in Reads, call' = Idle, request' = call.request, AtEnd',
           NEW e, off' - Unread' = e,
           TextAnswer(disk, Pos, InLine, call.request.n, answer', e)
    PROVE  RefInv' /\ FileStep
<1>1. ReadView /\ IdleView'
  BY ReadNow, IdleNext DEF RefInv
<1>2. file.kind = "text" /\ open /\ file.readable
  BY CallTypes DEF RefInv, SafeInv, CallOK
<1>3. outbuf' = << >> /\ Content' = disk' /\ Content = disk /\ Pos' = off' - Unread'
  BY <1>1 DEF ReadView, IdleView
<1>4. RefInv'
  BY <1>2, RefQuiet DEF RefInv
<1>5. Content' = Content /\ disk' \in {disk, Content}
  BY <1>3
<1>6. CASE InLine
  <2>1. request'.op = "readline" /\ InLine = TRUE
    BY <1>6 DEF InLine
  <2>2. TextAnswer(Content, Pos, TRUE, request'.n, answer', Pos')
    BY <1>3, <2>1
  <2> QED
    BY <1>2, <1>4, <1>5, <2>1, <2>2, FileReadsLine
<1>7. CASE ~InLine
  <2>1. request'.op = "read" /\ InLine = FALSE
    BY <1>1, <1>7 DEF InLine, ReadView
  <2>2. TextAnswer(Content, Pos, FALSE, request'.n, answer', Pos')
    BY <1>3, <2>1
  <2> QED
    BY <1>2, <1>4, <1>5, <2>1, <2>2, FileReads
<1> QED
  BY <1>6, <1>7

(* A read of text goes on: the file of the script is as it was.            *)
LEMMA ReadGoesOn ==
    ASSUME RefInv, SafeInv', UNCHANGED <<file, disk, open, request, answer>>,
           call \in Reads, call' \in Reads, call'.request = call.request,
           NEW e, off' - Unread' = e,
           Stood(call'.out, call.request.op, call.request.n, disk, Pos, e), AtEnd',
           call'.at = "fill" => Cut(After(inbuf', inpos')) /\ ~call'.at_eof, call'.at_eof => ft_eof'
    PROVE  RefInv' /\ FileStep
<1>1. ReadView /\ ReadView'
  BY ReadNow, ReadNext DEF RefInv
<1>2. file.kind = "text"
  BY CallTypes DEF RefInv, SafeInv, CallOK
<1>3. Pending(call', disk', off' - Unread')
  <2>1. Stood(call'.out, call'.request.op, call'.request.n, disk', Pos, e)
    OBVIOUS
  <2>2. Pending(call', disk', e)
    BY ONLY <2>1, StoodPending
  <2> QED
    BY <2>2
<1>4. RefInv'
  BY <1>2, <1>3 DEF RefInv, InRead
<1>5. Content' = Content
  BY <1>1 DEF ReadView
<1>6. Pos' = Pos
  <2>1. Pos' = e - Len(call'.out)
    BY <1>1 DEF ReadView
  <2>2. Len(call'.out) = e - Pos /\ e \in Nat /\ Pos \in Nat
    BY DEF Stood, Matches
  <2>3. e - (e - Pos) = Pos
    BY <2>2
  <2> QED
    BY <2>1, <2>2, <2>3
<1> QED
  BY <1>4, <1>5, <1>6, FileStutters

(* What is left of the unread bytes after a step of TextDecode that takes  *)
(* some of them.                                                           *)
LEMMA TextTakes ==
    ASSUME RefInv, SafeInv', call \in Reads, UNCHANGED <<disk, off, ft_eof, file>>,
           TextTaken \in 0..Unread,
           IF inpos + TextTaken = Len(inbuf) THEN Clearbuf
           ELSE inpos' = inpos + TextTaken /\ UNCHANGED inbuf
    PROVE  /\ off' - Unread' = off - Unread + TextTaken
           /\ Matches(After(inbuf', inpos'), disk, off - Unread + TextTaken, off)
           /\ AtEnd'
<1>1. Sizes /\ Sizes'
  BY SizesNow, SizesNext DEF RefInv
<1>2. off \in Nat /\ Unread \in Nat /\ Unread <= off /\ Unread = Len(inbuf) - inpos
      /\ Len(inbuf) \in Nat /\ inpos \in Nat
  BY <1>1 DEF Sizes
<1>3. Unread' = Unread - TextTaken
  <2>1. CASE inpos + TextTaken = Len(inbuf)
    <3>1. inbuf' = << >> /\ Unread - TextTaken = 0
      BY <1>2, <2>1 DEF Clearbuf
    <3> QED
      BY <1>1, <3>1 DEF Sizes
  <2>2. CASE inpos + TextTaken # Len(inbuf)
    <3>1. inbuf' = inbuf /\ inpos' = inpos + TextTaken
      BY <2>2
    <3>2. Unread' = Len(inbuf) - (inpos + TextTaken)
      BY <3>1 DEF Unread
    <3>3. Len(inbuf) - (inpos + TextTaken) = Unread - TextTaken
      BY <1>2
    <3> QED
      BY <3>2, <3>3
  <2> QED
    BY <2>1, <2>2
<1>4. off' - Unread' = off - Unread + TextTaken
  <2>1. off - (Unread - TextTaken) = off - Unread + TextTaken
    BY <1>2
  <2> QED
    BY <1>3, <2>1
<1>5. Matches(After(inbuf', inpos'), disk, off - Unread + TextTaken, off)
  <2>1. Matches(After(inbuf', inpos'), disk', off' - Unread', off')
    BY <1>1 DEF Sizes
  <2> QED
    BY <1>4, <2>1
<1>6. AtEnd'
  <2> SUFFICES ASSUME ft_eof PROVE file.kind = "text" /\ off >= Len(disk) /\ Cut(After(inbuf', inpos'))
    BY DEF AtEnd
  <2>1. file.kind = "text" /\ off >= Len(disk) /\ Cut(After(inbuf, inpos))
    BY DEF RefInv, AtEnd
  <2> DEFINE q == off - Unread
  <2>5. Matches(After(inbuf, inpos), disk, q, off)
    BY <1>1 DEF Sizes
  <2> HIDE DEF q
  <2>6. q = off \/ (q + 1 = off /\ disk[off] = Lead)
    BY ONLY <2>1, <2>5, CutOf
  <2>2. off - Unread = off \/ (off - Unread + 1 = off /\ disk[off] = Lead)
    BY <2>6 DEF q
  <2>3. off - Unread + TextTaken = off \/ (off - Unread + TextTaken + 1 = off /\ disk[off] = Lead)
    BY <1>2, <2>2
  <2>4. Cut(After(inbuf', inpos'))
    BY <1>5, <2>3, CutOf
  <2> QED
    BY <2>1, <2>4
<1> QED
  BY <1>4, <1>5, <1>6

LEMMA TextDecodeRefines ==
    ASSUME RefInv, SafeInv', UNCHANGED file, TextDecode
    PROVE  RefInv' /\ FileStep
<1> DEFINE p == off - Unread
           e == p + TextTaken
           n == call.request.n
<1>1. call.at = "decode" /\ UNCHANGED <<file, disk, off, open, outbuf, ft_eof>>
  BY DecodeSteps
<1>2. call \in Reads
  BY <1>1, CallTypes DEF RefInv, SafeInv, CallOK
<1>3. PICK c \in Nat :
         /\ Round(disk, Pos, p, off, InLine, n, Wanted, c, e)
         /\ TextEnough <=> IsEnough(disk, p, InLine, Wanted, c, e)
         /\ TextBad <=> IsBad(disk, c, e)
         /\ TextTaken \in 0..Unread
         /\ Matches(TextOut, disk, Pos, e)
         /\ TextTaken = Len(TextData) <=> e = c
  BY <1>2, DecodeRound
<1>4. Wanted # 0
  BY <1>2, WantedIs
<1>5. ReadView /\ Sizes
  BY ReadNow, SizesNow DEF RefInv
<1>6. /\ Stood(call.out, call.request.op, n, disk, Pos, p)
      /\ Pos \in Nat /\ Pos <= p /\ p <= off /\ Matches(After(inbuf, inpos), disk, p, off)
  BY <1>2, ReadStands
<1>7. call.at_eof => off >= Len(disk)
  BY <1>2 DEF RefInv, InRead, AtEnd
<1>8. call.request \in Asks /\ off \in Nat /\ p \in Nat /\ Unread \in Nat /\ Len(disk) \in Nat
  BY <1>2, <1>5, LenProperties DEF ReadView
<1>9. CASE inbuf = << >>
  <2>1. /\ UNCHANGED <<inbuf, inpos>>
        /\ IF call.at_eof THEN TextReadEnds(Bytes(call.out))
           ELSE call' = [call EXCEPT !.at = "fill"] /\ UNCHANGED <<request, answer>>
    BY <1>9, DecodeSteps
  <2>2. Unread = 0 /\ p = off /\ TextTaken = 0 /\ e = p
    BY <1>3, <1>5, <1>8, <1>9 DEF Sizes
  <2>3. off' - Unread' = p
    BY <1>1, <2>1 DEF Unread
  <2>4. AtEnd'
    BY <1>1, <2>1 DEF RefInv, AtEnd
  <2>5. CASE call.at_eof
    <3>1. call' = Idle /\ request' = call.request /\ answer' = Bytes(call.out)
      BY <2>1, <2>5 DEF TextReadEnds, Returns
    <3>2. c = p
      <4>1. c \in p..off
        BY <1>3 DEF Round
      <4> QED
        BY <1>8, <2>2, <4>1
    <3>3. ~TextEnough
      <4>4. p \in Nat /\ p <= p
        BY <1>8
      <4> HIDE DEF p, e
      <4>1. Count(disk, p, p) = 0
        BY <4>4, CountFacts
      <4>2. ~(c > p)
        BY <1>3, <1>8, <3>2
      <4>3. ~IsEnough(disk, p, InLine, Wanted, c, e)
        BY <1>4, <2>2, <4>1, <4>2 DEF IsEnough
      <4> QED
        BY <1>3, <4>3
    <3>4. TextAnswer(disk, Pos, InLine, n, Bytes(call.out), e)
      <4>1. off >= Len(disk) /\ ~IsEnough(disk, p, InLine, Wanted, c, e) /\ e = c
        BY <1>3, <1>7, <2>2, <2>5, <3>2, <3>3
      <4>2. Round(disk, Pos, p, off, InLine, n, Wanted, c, e) /\ Matches(call.out, disk, Pos, e)
        BY <1>3, <1>6, <2>2 DEF Stood
      <4> HIDE DEF p, e, n
      <4> QED
        BY ONLY <4>1, <4>2, RoundEnds
    <3> HIDE DEF p, e, n
    <3> QED
      BY <1>1, <1>2, <2>2, <2>3, <2>4, <3>1, <3>4, TextAnswered DEF n
  <2>6. CASE ~call.at_eof
    <3>1. call' = [call EXCEPT !.at = "fill"] /\ UNCHANGED <<request, answer>>
      BY <2>1, <2>6
    <3>2. call' \in Reads
      BY <1>2, <3>1, ReadsMove, ReadsFacts
    <3>3. /\ call'.at = "fill" /\ call'.out = call.out /\ call'.request = call.request
          /\ call'.at_eof = call.at_eof
      BY <1>2, <3>1 DEF Reads
    <3>4. Cut(After(inbuf', inpos'))
      <4>1. inbuf' = << >> /\ inpos' = 0
        BY <1>5, <1>9, <2>1 DEF Sizes
      <4> QED
        BY <4>1, CutNothing
    <3>5. Stood(call'.out, call.request.op, call.request.n, disk, Pos, p)
      BY <1>6, <3>3
    <3> HIDE DEF p, e, n
    <3> QED
      BY <1>1, <1>2, <2>3, <2>4, <2>6, <3>1, <3>2, <3>3, <3>4, <3>5, ReadGoesOn
  <2> QED
    BY <2>5, <2>6
<1>10. CASE inbuf # << >> /\ TextRefuses
  <2>1. TextReadEnds(Failure) /\ UNCHANGED <<inbuf, inpos>>
    BY <1>10 DEF TextRefuses
  <2>2. call' = Idle /\ request' = call.request /\ answer' = Failure
    BY <2>1 DEF TextReadEnds, Returns
  <2>3. off' - Unread' = p
    BY <1>1, <2>1 DEF Unread
  <2>4. AtEnd'
    BY <1>1, <2>1 DEF RefInv, AtEnd
  <2>5. (InLine \/ ~IsEnough(disk, p, InLine, Wanted, c, e)) /\ IsBad(disk, c, e)
    BY <1>3, <1>10 DEF TextRefuses
  <2>6. Round(disk, Pos, p, off, InLine, n, Wanted, c, e)
    BY <1>3
  <2> HIDE DEF p, e, n
  <2>7. TextAnswer(disk, Pos, InLine, n, Failure, p)
    <3>1. CASE ~IsEnough(disk, p, InLine, Wanted, c, e)
      BY ONLY <2>5, <2>6, <3>1, RoundBad
    <3>2. CASE IsEnough(disk, p, InLine, Wanted, c, e) /\ InLine
      <4>1. e # c
        BY <2>5, <2>6 DEF IsBad, Broken, Round
      <4> QED
        BY ONLY <2>6, <3>2, <4>1, RoundEnough
    <3> QED
      BY <2>5, <3>1, <3>2
  <2> QED
    BY <1>1, <1>2, <2>2, <2>3, <2>4, <2>7, TextAnswered DEF n
<1>11. CASE inbuf # << >> /\ TextGoesOn
  <2>1. /\ IF inpos + TextTaken = Len(inbuf) THEN Clearbuf
           ELSE inpos' = inpos + TextTaken /\ UNCHANGED inbuf
        /\ IF TextEnough
           THEN TextReadEnds(IF InLine /\ TextTaken # Len(TextData) THEN Failure ELSE Bytes(TextOut))
           ELSE IF call.at_eof
           THEN TextReadEnds(IF TextTaken = Len(TextData) THEN Bytes(TextOut) ELSE Failure)
           ELSE call' = [call EXCEPT !.at = "fill", !.out = TextOut] /\ UNCHANGED <<request, answer>>
    BY <1>11 DEF TextGoesOn
  <2>2. off' - Unread' = e /\ Matches(After(inbuf', inpos'), disk, e, off) /\ AtEnd'
    BY <1>1, <1>2, <1>3, <2>1, TextTakes
  <2>3. Round(disk, Pos, p, off, InLine, n, Wanted, c, e) /\ Matches(TextOut, disk, Pos, e)
    BY <1>3
  <2>4. CASE TextEnough
    <3>1. /\ call' = Idle /\ request' = call.request
          /\ answer' = IF InLine /\ e # c THEN Failure ELSE Bytes(TextOut)
      BY <1>3, <2>1, <2>4 DEF TextReadEnds, Returns
    <3>2. IsEnough(disk, p, InLine, Wanted, c, e)
      BY <1>3, <2>4
    <3> HIDE DEF p, e, n
    <3>3. /\ InLine /\ e # c => TextAnswer(disk, Pos, InLine, n, Failure, e)
          /\ ~(InLine /\ e # c) => TextAnswer(disk, Pos, InLine, n, Bytes(TextOut), e)
      BY ONLY <2>3, <3>2, RoundEnough
    <3>4. TextAnswer(disk, Pos, InLine, n, answer', e)
      BY <3>1, <3>3
    <3> QED
      BY <1>1, <1>2, <2>2, <3>1, <3>4, TextAnswered DEF n
  <2>5. CASE ~TextEnough /\ call.at_eof
    <3>1. /\ call' = Idle /\ request' = call.request
          /\ answer' = IF e = c THEN Bytes(TextOut) ELSE Failure
      BY <1>3, <2>1, <2>5 DEF TextReadEnds, Returns
    <3>2. ~IsEnough(disk, p, InLine, Wanted, c, e) /\ off >= Len(disk)
      BY <1>3, <1>7, <2>5
    <3> HIDE DEF p, e, n
    <3>3. /\ e # c => TextAnswer(disk, Pos, InLine, n, Failure, e)
          /\ e = c => TextAnswer(disk, Pos, InLine, n, Bytes(TextOut), e)
      BY ONLY <2>3, <3>2, RoundEnds
    <3>4. TextAnswer(disk, Pos, InLine, n, answer', e)
      BY <3>1, <3>3
    <3> QED
      BY <1>1, <1>2, <2>2, <3>1, <3>4, TextAnswered DEF n
  <2>6. CASE ~TextEnough /\ ~call.at_eof
    <3>1. call' = [call EXCEPT !.at = "fill", !.out = TextOut] /\ UNCHANGED <<request, answer>>
      BY <2>1, <2>6
    <3>2. TextOut \in Seq(Byte)
      BY <2>3 DEF Matches
    <3>3. call' \in Reads
      BY <1>2, <3>1, <3>2, ReadsMove, ReadsFacts
    <3>4. /\ call'.at = "fill" /\ call'.out = TextOut /\ call'.request = call.request
          /\ call'.at_eof = call.at_eof
      BY <1>2, <3>1 DEF Reads
    <3>5. ~IsEnough(disk, p, InLine, Wanted, c, e) /\ ~IsBad(disk, c, e)
      BY <1>3, <1>11, <2>6 DEF TextGoesOn
    <3> HIDE DEF p, e, n
    <3>6. /\ e = off \/ (e + 1 = off /\ disk[off] = Lead)
          /\ WholeIn(disk, Pos, e)
          /\ ~InLine /\ n >= 0 => Count(disk, Pos, e) < n
          /\ InLine => NoNewline(disk, Pos, e)
      BY ONLY <2>3, <3>5, RoundGoesOn
    <3>7. Cut(After(inbuf', inpos'))
      BY <2>2, <3>6, CutOf
    <3>8. Pos < e => e <= Len(disk)
      <4>1. e \in Nat /\ e <= off
        BY <2>2 DEF Matches
      <4>2. Pos < off => off <= Len(disk)
        BY <1>2, ReadStands
      <4> QED
        BY <1>6, <1>8, <4>1, <4>2
    <3>9. call.request.op = "read" => ~InLine
      BY DEF InLine
    <3>10. Stood(call'.out, call.request.op, call.request.n, disk, Pos, e)
      BY <2>3, <3>4, <3>6, <3>8, <3>9 DEF Stood, n, InLine
    <3> QED
      BY <1>1, <1>2, <2>2, <2>6, <3>1, <3>3, <3>4, <3>7, <3>10, ReadGoesOn
  <2> QED
    BY <2>4, <2>5, <2>6
<1> QED
  BY <1>4, <1>9, <1>10, <1>11, DecodeSteps

LEMMA TextBeginsRefines ==
    ASSUME RefInv, SafeInv', Undisturbed, UNCHANGED file, NEW asked \in Asks, TextReadBegins(asked)
    PROVE  RefInv' /\ FileStep
<1>1. /\ file.kind = "text" /\ call = Idle
      /\ ~(asked.op = "read" /\ asked.n = 0)
      /\ call' = [at |-> "decode", request |-> asked, out |-> << >>, at_eof |-> FALSE]
      /\ UNCHANGED <<disk, off, open, outbuf, inbuf, inpos, ft_eof, request, answer>>
  BY DEF TextReadBegins, On, Undisturbed
<1>2. call'.at = "decode" /\ call'.request = asked /\ call'.out = << >> /\ call'.at_eof = FALSE
  BY <1>1
<1>3. outbuf = << >> /\ outbuf' = << >>
  BY <1>1 DEF RefInv, SafeInv, KindOK
<1>4. IdleView /\ Sizes
  BY IdleNow, SizesNow DEF RefInv
<1>5. off - Unread \in Nat /\ Pos = off - Unread /\ Len(disk) \in Nat /\ asked.n \in Int
  BY <1>1, <1>3, <1>4, AsksFacts, LenProperties DEF IdleView, Sizes
<1>6. Stood(call'.out, asked.op, asked.n, disk, Pos, Pos)
  <2>1. Matches(<< >>, disk, Pos, Pos)
    <3>1. << >> \in Seq(Byte) /\ Len(<< >>) = 0 /\ Pos - Pos = 0 /\ Pos \in Nat /\ Pos <= Pos
      BY <1>5, EmptySeq
    <3> QED
      BY <3>1 DEF Matches
  <2>2. Pos \in Nat /\ Pos <= Pos /\ ~(Pos < Pos) /\ \A i : ~(i \in Pos + 1..Pos)
    BY <1>5
  <2>3. Count(disk, Pos, Pos) = 0
    BY ONLY <2>2, CountFacts
  <2>4. WholeIn(disk, Pos, Pos) /\ NoNewline(disk, Pos, Pos)
    BY <2>2 DEF WholeIn, NoNewline
  <2>5. asked.op = "read" /\ asked.n >= 0 => 0 < asked.n
    BY <1>1, <1>5
  <2> QED
    BY <1>2, <2>1, <2>2, <2>3, <2>4, <2>5 DEF Stood
<1>7. InRead'
  <2>1. off' - Unread' = Pos /\ disk' = disk
    BY <1>1, <1>5 DEF Unread
  <2>2. Stood(call'.out, call'.request.op, call'.request.n, disk', Pos, Pos)
    BY <1>2, <1>6, <2>1
  <2>3. Pending(call', disk', Pos)
    BY ONLY <2>2, StoodPending
  <2>4. Pending(call', disk', off' - Unread')
    BY <2>1, <2>3
  <2>5. call'.at # "fill" /\ ~call'.at_eof
    BY <1>2
  <2> QED
    BY <2>4, <2>5 DEF InRead
<1>8. RefInv'
  <2>1. AtEnd'
    BY <1>1 DEF RefInv, AtEnd
  <2> QED
    BY <1>1, <1>7, <2>1 DEF RefInv
<1>9. Content' = Content /\ Pos' = Pos
  <2>1. call.out = << >>
    BY <1>1 DEF Idle
  <2>2. Len(call'.out) = Len(call.out) /\ Unread' = Unread
    BY <1>1, <1>2, <2>1 DEF Unread
  <2> QED
    BY <1>1, <2>2 DEF Content, Pos
<1> QED
  BY <1>1, <1>8, <1>9, FileStutters

LEMMA TextFillRefines ==
    ASSUME RefInv, SafeInv', Undisturbed, UNCHANGED file, TextFill
    PROVE  RefInv' /\ FileStep
<1> DEFINE got == RawRead(disk, off, IO_BUFFER_SIZE)
           p   == off - Unread
<1>1. /\ call.at = "fill" /\ UNCHANGED <<disk, open, outbuf, request, answer>>
      /\ IF ft_eof
         THEN call' = [call EXCEPT !.at = "decode", !.at_eof = TRUE] /\ UNCHANGED <<off, inbuf, inpos, ft_eof>>
         ELSE IF got = << >>
         THEN /\ ft_eof' = TRUE /\ call' = [call EXCEPT !.at = "decode", !.at_eof = TRUE]
              /\ UNCHANGED <<off, inbuf, inpos>>
         ELSE /\ off' = off + Len(got)
              /\ inbuf' = After(inbuf, inpos) \o got /\ inpos' = 0
              /\ call' = [call EXCEPT !.at = "decode", !.at_eof = FALSE]
              /\ UNCHANGED ft_eof
  BY NeverDies DEF TextFill
<1>2. call \in Reads /\ file.kind = "text"
  BY <1>1, CallTypes DEF RefInv, SafeInv, CallOK
<1>3. PICK eof \in BOOLEAN : /\ call' = [call EXCEPT !.at = "decode", !.at_eof = eof]
                             /\ eof => ft_eof'
  <2> HIDE DEF got
  <2> QED
    BY <1>1
<1>4. /\ call' \in Reads /\ call'.at = "decode" /\ call'.out = call.out
      /\ call'.request = call.request /\ call'.at_eof = eof
  <2>1. call' \in Reads
    BY <1>2, <1>3, ReadsMove, ReadsFacts
  <2> QED
    BY <1>2, <1>3, <2>1 DEF Reads
<1>5. ReadView /\ Sizes /\ Sizes'
  BY ReadNow, SizesNow, SizesNext DEF RefInv
<1>6. Stood(call.out, call.request.op, call.request.n, disk, Pos, p)
  BY <1>2, ReadStands
<1>7. IO_BUFFER_SIZE \in Nat /\ IO_BUFFER_SIZE > 0
  BY FilesAssumption
<1>8. disk \in Seq(Byte) /\ off \in Nat /\ Unread \in Nat /\ Len(disk) \in Nat /\ inbuf \in Seq(Byte)
      /\ Unread = Len(inbuf) - inpos
  BY <1>5, LenProperties DEF Sizes
<1>9. got = ReadAt(disk, off, IO_BUFFER_SIZE)
  BY <1>7 DEF RawRead
<1> HIDE DEF got
<1>10. got \in Seq(Byte) /\ Len(got) \in Nat
       /\ Len(got) = IF off >= Len(disk) THEN 0 ELSE Least(IO_BUFFER_SIZE, Len(disk) - off)
  BY <1>7, <1>8, <1>9, ReadAtFacts
<1>11. Stood(call'.out, call.request.op, call.request.n, disk, Pos, p)
  BY <1>4, <1>6
<1>12. CASE ft_eof \/ got = << >>
  <2>1. UNCHANGED <<off, inbuf, inpos>> /\ ft_eof'
    BY <1>1, <1>12
  <2>2. off' - Unread' = p
    BY <2>1 DEF Unread
  <2>3. off >= Len(disk)
    <3>1. CASE ft_eof
      BY <3>1 DEF RefInv, AtEnd
    <3>2. CASE got = << >>
      <4>1. Len(got) = 0
        BY <3>2, EmptySeq
      <4>2. Least(IO_BUFFER_SIZE, Len(disk) - off)
              = IF IO_BUFFER_SIZE <= Len(disk) - off THEN IO_BUFFER_SIZE ELSE Len(disk) - off
        BY DEF Least
      <4> QED
        BY <1>7, <1>8, <1>10, <4>1, <4>2
    <3> QED
      BY <1>12, <3>1, <3>2
  <2>4. Cut(After(inbuf, inpos))
    BY <1>1, <1>2 DEF RefInv, InRead
  <2>5. AtEnd'
    BY <1>1, <1>2, <2>1, <2>3, <2>4 DEF AtEnd
  <2> HIDE DEF p
  <2> QED
    BY <1>1, <1>2, <1>3, <1>4, <1>11, <2>2, <2>5, ReadGoesOn
<1>13. CASE ~(ft_eof \/ got = << >>)
  <2>1. /\ off' = off + Len(got) /\ inbuf' = After(inbuf, inpos) \o got /\ inpos' = 0
        /\ ~ft_eof'
    BY <1>1, <1>13
  <2>2. Len(inbuf') = Len(inbuf) - inpos + Len(got)
    BY <1>7, <1>8, <1>9, <1>13, <2>1, SyncedRefill DEF RefInv, SafeInv
  <2>3. Unread' = Unread + Len(got)
    <3>1. Unread' = Len(inbuf) - inpos + Len(got) - 0
      BY <2>1, <2>2 DEF Unread
    <3>2. Unread' = Unread + Len(got) - 0
      BY <1>8, <3>1
    <3>3. Unread + Len(got) - 0 = Unread + Len(got)
      BY <1>8, <1>10
    <3> QED
      BY <3>2, <3>3
  <2>4. off' - Unread' = p
    <3> DEFINE m == Len(got)
    <3>1. m \in Nat /\ off \in Nat /\ Unread \in Nat
      BY <1>8, <1>10
    <3>2. off' \in Nat /\ Unread' \in Nat
      BY <1>5 DEF Sizes
    <3>3. off' = off + m /\ Unread' = Unread + m
      BY <2>1, <2>3
    <3> HIDE DEF m
    <3>4. \A x \in Nat, y \in Nat : x = off + m /\ y = Unread + m => x - y = off - Unread
      BY <3>1
    <3> QED
      BY <3>2, <3>3, <3>4
  <2>5. AtEnd'
    BY <2>1 DEF AtEnd
  <2> HIDE DEF p
  <2> QED
    BY <1>1, <1>2, <1>3, <1>4, <1>11, <2>4, <2>5, ReadGoesOn
<1> QED
  BY <1>12, <1>13

LEMMA TextSeekRefines ==
    ASSUME RefInv, SafeInv', Undisturbed, UNCHANGED file, NEW n \in Offsets, NEW from \in Origins,
           do_text_seek(n, from)
    PROVE  RefInv' /\ FileStep
<1> DEFINE by == IF from = "cur" THEN n - Unread ELSE n
<1>1. /\ file.kind = "text" /\ call = Idle /\ call' = Idle /\ open
      /\ ~(Target(disk, off, by, from) < 0 /\ Unread # 0)
      /\ inbuf' = << >> /\ inpos' = 0 /\ ft_eof' = FALSE
      /\ Lseek(Ask("seek", n, << >>, from), disk, off, by, from)
      /\ UNCHANGED <<disk, open, outbuf>>
  BY DEF do_text_seek, On, Clearbuf, Undisturbed
<1>2. n \in Int
  BY FilesAssumption
<1>3. Sizes /\ IdleView /\ IdleView' /\ Sizes'
  BY SizesNow, SizesNext, IdleNow, IdleNext DEF RefInv
<1>4. outbuf = << >> /\ outbuf' = << >>
  BY <1>1 DEF RefInv, SafeInv, KindOK
<1>5. /\ Content = disk /\ Content' = disk' /\ Content \in Seq(Byte)
      /\ Pos \in Nat /\ Pos = off - Unread /\ off \in Nat /\ Unread \in Nat /\ Pos' = off'
  BY <1>1, <1>3, <1>4 DEF IdleView, Sizes
<1>6. RefInv'
  <2>1. AtEnd'
    BY <1>1 DEF AtEnd
  <2> QED
    BY <1>1, <2>1, RefQuiet DEF RefInv
<1>7. by \in Int /\ by = IF from = "cur" THEN n + Pos - off ELSE n
  BY <1>2, <1>5
<1>8. Target(disk, off, by, from) < 0 => off = Pos
  <2>1. Unread = 0 => off = Pos
    BY <1>5
  <2> QED
    BY <1>1, <2>1
<1> HIDE DEF by
<1>9. FileStep
  <2>1. Lseek(Ask("seek", n, << >>, from), Content, off, by, from)
    BY <1>1, <1>5
  <2>2. Target(Content, off, by, from) < 0 => off = Pos
    BY <1>5, <1>8
  <2>3. disk' = Content /\ Content' = Content
    BY <1>1, <1>5
  <2> QED
    BY <1>1, <1>2, <1>5, <1>7, <2>1, <2>2, <2>3, SeekStep
<1> QED
  BY <1>6, <1>9

LEMMA TextWriteRefines ==
    ASSUME RefInv, SafeInv', Undisturbed, UNCHANGED file, NEW bytes \in Chunks, do_text_write(bytes)
    PROVE  RefInv' /\ FileStep
<1> DEFINE at == off - Unread
           w  == RawWrite(bytes, at)
<1>1. /\ file.kind = "text" /\ call = Idle /\ call' = Idle /\ open /\ file.writable
      /\ ~(bytes = << >> /\ ft_eof /\ Unread # 0)
      /\ inbuf' = << >> /\ inpos' = 0
      /\ disk' = w.disk /\ off' = w.off
      /\ request' = Ask("write", 0, bytes, "set")
      /\ answer' = IF w.ok THEN Number(Len(bytes)) ELSE Failure
      /\ UNCHANGED <<open, outbuf, ft_eof>>
  BY DEF do_text_write, On, Usable, Returns, Clearbuf, Undisturbed
<1>2. bytes \in Seq(Byte) /\ Len(bytes) \in Nat /\ Space \in Nat
  BY FilesAssumption, LenProperties
<1>3. Sizes /\ IdleView /\ IdleView' /\ Sizes'
  BY SizesNow, SizesNext, IdleNow, IdleNext DEF RefInv
<1>4. outbuf = << >> /\ outbuf' = << >> /\ Len(disk) <= Space
  BY <1>1 DEF RefInv, SafeInv, KindOK
<1>5. /\ disk \in Seq(Byte) /\ Content = disk /\ Content' = disk'
      /\ at \in Nat /\ Pos = at /\ off \in Nat /\ Unread \in Nat /\ Pos' = off' /\ Len(disk) \in Nat
  BY <1>1, <1>3, <1>4, LenProperties DEF IdleView, Sizes
<1>6. Len(disk') <= Space
  BY <1>1, <1>2, <1>4, <1>5, WriteFits
<1>7. ft_eof => off' >= Len(disk')
  <2> SUFFICES ASSUME ft_eof PROVE off' >= Len(disk')
    OBVIOUS
  <2>1. off >= Len(disk) /\ Cut(After(inbuf, inpos))
    BY DEF RefInv, AtEnd
  <2>2. Matches(After(inbuf, inpos), disk, at, off)
    BY <1>3 DEF Sizes
  <2>3. at = off \/ at + 1 = off
    <3> HIDE DEF at
    <3> QED
      BY ONLY <2>1, <2>2, CutOf
  <2>4. at = off => Unread = 0
    BY <1>5
  <2>5. bytes = << >> => at = off
    BY <1>1, <1>5, <2>3
  <2> HIDE DEF at
  <2>6. PICK room \in 0..Len(bytes) :
           /\ w.disk = WriteAt(disk, at, Upto(bytes, room)) /\ w.off = at + room
           /\ room # Len(bytes) => at + Len(bytes) > Space /\ (at >= Space \/ at + room = Space)
    BY <1>2, <1>5, RawWriteFacts
  <2>7. Upto(bytes, room) \in Seq(Byte) /\ Len(Upto(bytes, room)) = room
    BY <1>2, <2>6, UptoFacts
  <2> HIDE DEF w
  <2>8. CASE Upto(bytes, room) = << >>
    <3>1. room = 0 /\ w.disk = disk /\ w.off = at
      <4>1. room = 0
        BY <2>7, <2>8, EmptySeq
      <4>2. w.disk = WriteAt(disk, at, << >>)
        BY <2>6, <2>8
      <4>3. WriteAt(disk, at, << >>) = disk
        BY DEF WriteAt
      <4>4. w.off = at + 0 /\ at \in Nat
        BY <1>5, <2>6, <4>1
      <4> QED
        BY <4>1, <4>2, <4>3, <4>4
    <3>2. CASE bytes = << >>
      <4>1. w.off = off
        BY <2>5, <3>1, <3>2
      <4> QED
        BY <1>1, <2>1, <3>1, <4>1
    <3>3. CASE bytes # << >>
      <4>1. Len(bytes) # 0
        BY <1>2, <3>3, EmptySeq
      <4>2. at >= Space
        BY <1>2, <1>5, <2>6, <3>1, <4>1
      <4>3. at >= Len(disk)
        BY <1>2, <1>4, <1>5, <4>2
      <4> QED
        BY <1>1, <3>1, <4>3
    <3> QED
      BY <3>2, <3>3
  <2>9. CASE Upto(bytes, room) # << >>
    <3>1. Len(w.disk) = IF at + room > Len(disk) THEN at + room ELSE Len(disk)
      BY <1>5, <2>6, <2>7, <2>9, WriteAtFacts
    <3>2. room \in Nat /\ room > 0
      BY <1>2, <2>6, <2>7, <2>9, EmptySeq
    <3>3. at + room >= Len(disk)
      BY <1>5, <2>1, <2>3, <3>2
    <3>4. w.off >= Len(w.disk)
      BY <1>5, <2>6, <3>1, <3>2, <3>3
    <3> QED
      BY <1>1, <3>4
  <2> QED
    BY <2>8, <2>9
<1>8. RefInv'
  <2>1. AtEnd'
    BY <1>1, <1>7, CutNothing DEF AtEnd
  <2> QED
    BY <1>1, <1>6, <2>1, RefQuiet
<1>9. IF w.ok THEN Content' = WriteAt(disk, at, bytes) /\ disk' = Content' /\ Pos' = at + Len(bytes)
      ELSE answer' = Failure => FailsAt(WriteAt(disk, at, bytes))
  <2> HIDE DEF at
  <2> QED
    BY <1>1, <1>2, <1>5, RawWriteStep
<1>10. request'.op = "write" /\ request'.bytes = bytes
  BY <1>1 DEF Ask
<1> HIDE DEF w, at
<1>11. FileStep
  BY <1>1, <1>5, <1>9, <1>10, FileWrites
<1> QED
  BY <1>8, <1>11
------------------------------------------------------------------------------
LEMMA RefNext ==
    ASSUME Undisturbed, RefInv, SafeInv', [Next]_vars
    PROVE  RefInv' /\ FileStep
<1>1. CASE UNCHANGED vars
  <2>1. UNCHANGED file /\ Untouched /\ UNCHANGED <<request, answer>>
    BY <1>1 DEF vars, Untouched
  <2>2. RefInv'
    BY <2>1, QuietRef
  <2>3. UNCHANGED <<file, disk, open, request, answer>> /\ Content' = Content /\ Pos' = Pos
    BY <2>1 DEF Untouched, Content, Pos, Unread
  <2> QED
    BY <2>2, <2>3, FileStutters
<1> SUFFICES ASSUME Next PROVE RefInv' /\ FileStep
  BY <1>1
<1>2. UNCHANGED file
  BY DEF Next
<1>3. ASSUME NEW n \in Counts,
             do_raw_read(n) \/ do_bin_read(n) \/ TextReadBegins(Ask("read", n, << >>, "set"))
      PROVE  RefInv' /\ FileStep
  <2>1. n \in Int
    BY FilesAssumption
  <2>2. Ask("read", n, << >>, "set") \in Asks
    BY <2>1 DEF Asks
  <2> QED
    BY <1>2, <1>3, <2>2, RawReadRefines, BinReadRefines, TextBeginsRefines
<1>4. CASE TextReadBegins(AskFor("readline"))
  <2>1. AskFor("readline") \in Asks
    BY DEF Asks
  <2> QED
    BY <1>2, <1>4, <2>1, TextBeginsRefines
<1>5. CASE TextDecode \/ TextFill
  BY <1>2, <1>5, TextDecodeRefines, TextFillRefines
<1>6. ASSUME NEW bytes \in Chunks, do_raw_write(bytes) \/ do_bin_write(bytes) \/ do_text_write(bytes)
      PROVE  RefInv' /\ FileStep
  BY <1>2, <1>6, RawWriteRefines, BinWriteRefines, TextWriteRefines
<1>7. ASSUME NEW n \in Offsets, NEW from \in Origins,
             do_raw_seek(n, from) \/ do_bin_seek(n, from) \/ do_text_seek(n, from)
      PROVE  RefInv' /\ FileStep
  BY <1>2, <1>7, RawSeekRefines, BinSeekRefines, TextSeekRefines
<1>8. CASE do_raw_tell \/ do_bin_tell \/ do_text_tell
  BY <1>2, <1>8, TellsRefine
<1>9. CASE do_bin_flush \/ do_text_flush
  BY <1>2, <1>9, BinFlushRefines, TextFlushRefines
<1>10. CASE CloseRaw \/ do_bin_close \/ Refused \/ Reset
  BY <1>2, <1>10, CloseRefines, BinCloseRefines, RefusedRefines, ResetRefines
<1> QED
  BY <1>3, <1>4, <1>5, <1>6, <1>7, <1>8, <1>9, <1>10 DEF Next

(* The invariant with which nothing goes wrong is kept with it.            *)
LEMMA RefStep ==
    ASSUME Undisturbed, RefInv, [Next]_vars
    PROVE  RefInv' /\ FileStep
<1>1. SafeInv'
  BY SafeNext DEF RefInv
<1> QED
  BY <1>1, RefNext

(* A file is an array of bytes with one position, whatever is buffered,    *)
(* refilled, cut in the middle of a character, sought in or written over   *)
(* (io.c): every call on it is one of the abstract file, for all sizes of  *)
(* the buffer, the device and the file, all counts, offsets and chunks,    *)
(* as long as none of the calls that go wrong is made.                     *)
THEOREM FilesImplementByteFile == Undisturbed => (Spec => ImplementsFile)
<1> SUFFICES ASSUME Undisturbed PROVE Spec => ImplementsFile
  OBVIOUS
<1>1. Init => RefInv /\ File!Init
  BY RefInit, FileInit
<1>2. RefInv /\ [Next]_vars => RefInv' /\ [File!Next]_(File!vars)
  BY RefStep DEF FileStep
<1> QED
  BY <1>1, <1>2, PTL DEF Spec, ImplementsFile, File!Spec
==============================================================================
