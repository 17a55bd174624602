----------------------------- MODULE Dict_proofs -----------------------------
(***************************************************************************)
(* Proofs about Dict, for any keys and hashes, however they collide, and   *)
(* any number of keys.                                                     *)
(*                                                                         *)
(* First, why a search ends: 5 * i + 1, over and over, leads to every      *)
(* bucket of a table whose size is a power of 2.  Then what a table is     *)
(* (Table), which insertion, removal, clear() and transfer_table() keep,   *)
(* and what it is between two operations (Rest), when its markers are      *)
(* those of its size as well.  The inductive invariant (IInv) adds what    *)
(* iterators are to their table.                                           *)
(*                                                                         *)
(* The loops of the code are recursive functions.  That such a function    *)
(* has a value at all is Loops; what its value is is shown by induction    *)
(* over a set of numbers (AllNumbers).                                     *)
(***************************************************************************)
EXTENDS Dict, SequenceTheorems, FiniteSetTheorems, WellFoundedInduction, TLAPS

(* A set of numbers that is not empty has a least member.                  *)
LEMMA LeastIn ==
    ASSUME NEW S \in SUBSET Nat, S # {}
    PROVE  \E m \in S : \A p \in S : m <= p
<1> DEFINE R == OpToRel(<, Nat)
<1>1. IsWellFoundedOn(R, Nat)
  BY NatLessThanWellFounded
<1>2. \A x, y \in Nat : <<x, y>> \in R <=> x < y
  BY DEF R, OpToRel
<1> HIDE DEF R
<1>3. PICK m \in S : \A p \in S : ~(<<p, m>> \in R)
  BY <1>1, WFMin
<1>4. \A p \in S : ~(p < m)
  BY <1>2, <1>3
<1> QED
  BY <1>4

(* Induction over the numbers, for what can be said with a set.            *)
LEMMA AllNumbers ==
    ASSUME NEW P, 0 \in P, \A n \in Nat : n \in P => n + 1 \in P
    PROVE  \A n \in Nat : n \in P
<1> SUFFICES ASSUME NEW k \in Nat, k \notin P PROVE FALSE
  OBVIOUS
<1> DEFINE S == {n \in Nat : n \notin P}
<1>1. S \in SUBSET Nat /\ S # {}
  OBVIOUS
<1> HIDE DEF S
<1>2. PICK m \in S : \A p \in S : m <= p
  BY <1>1, LeastIn
<1>3. m \in Nat /\ m \notin P
  BY DEF S
<1>4. m # 0
  BY <1>3
<1>5. m - 1 \in Nat /\ (m - 1) + 1 = m /\ ~(m <= m - 1)
  BY <1>3, <1>4
<1>6. m - 1 \in P
  BY <1>2, <1>5 DEF S
<1> QED
  BY <1>3, <1>5, <1>6

(* A loop: what starts in S[0], and goes from S[n] to S[n + 1] by F[n], has*)
(* a value after any number of turns, and that is in S.                    *)
LEMMA Loops ==
    ASSUME NEW S, NEW F, NEW x \in S[0],
           \A n \in Nat : \A y \in S[n] : F[n][y] \in S[n + 1]
    PROVE  \E g : /\ g = [n \in Nat |-> g[n]]
                  /\ g[0] = x
                  /\ \A n \in Nat : g[n] \in S[n] /\ g[n + 1] = F[n][g[n]]
<1> DEFINE Upto(h, n) == /\ h[0] = x
                         /\ \A m \in 0..n : h[m] \in S[m]
                         /\ \A m \in 0..(n - 1) : h[m + 1] = F[m][h[m]]
           Made == {n \in Nat : \E h : Upto(h, n)}
           Turns(n) == CHOOSE h : Upto(h, n)
           g == [n \in Nat |-> Turns(n)[n]]
<1>1. \A n \in Nat : n \in Made
  <2>1. 0 \in Made
    <3>1. Upto([m \in 0..0 |-> x], 0)
      OBVIOUS
    <3> HIDE DEF Upto
    <3> QED
      BY <3>1
  <2>2. ASSUME NEW n \in Nat, n \in Made
        PROVE  n + 1 \in Made
    <3>1. PICK h : Upto(h, n)
      BY <2>2
    <3> DEFINE h2 == [m \in 0..(n + 1) |-> IF m = n + 1 THEN F[n][h[n]] ELSE h[m]]
    <3>2. \A m \in 0..n : h2[m] = h[m] /\ m \in 0..(n + 1) /\ m # n + 1
      OBVIOUS
    <3>3. h2[n + 1] = F[n][h[n]]
      OBVIOUS
    <3> HIDE DEF h2
    <3>4. h[n] \in S[n]
      BY <3>1
    <3>5. h2[n + 1] \in S[n + 1]
      BY <3>3, <3>4
    <3>6. \A m \in 0..(n + 1) : m \in 0..n \/ m = n + 1
      OBVIOUS
    <3>7. \A m \in 0..(n + 1) : h2[m] \in S[m]
      BY <3>1, <3>2, <3>5, <3>6
    <3>8. \A m \in 0..((n + 1) - 1) : h2[m + 1] = F[m][h2[m]]
      <4> TAKE m \in 0..((n + 1) - 1)
      <4>1. CASE m = n
        BY <3>2, <3>3, <4>1
      <4>2. CASE m # n
        <5>1. m \in 0..n /\ m + 1 \in 0..n /\ m \in 0..(n - 1)
          BY <4>2
        <5> QED
          BY <3>1, <3>2, <5>1
      <4> QED
        BY <4>1, <4>2
    <3>9. 0 \in 0..n
      OBVIOUS
    <3>10. h2[0] = x
      BY <3>1, <3>2, <3>9
    <3>11. Upto(h2, n + 1)
      BY <3>7, <3>8, <3>10
    <3> HIDE DEF Upto
    <3> QED
      BY <3>11
  <2> HIDE DEF Made
  <2> QED
    BY <2>1, <2>2, AllNumbers
<1>2. ASSUME NEW n \in Nat, NEW k \in Nat, NEW h, NEW j, Upto(h, n), Upto(j, k)
      PROVE  \A m \in Nat : m <= n /\ m <= k => h[m] = j[m]
  <2> DEFINE P == {m \in Nat : m <= n /\ m <= k => h[m] = j[m]}
  <2>1. 0 \in P
    BY <1>2
  <2>2. ASSUME NEW m \in Nat, m \in P
        PROVE  m + 1 \in P
    <3> SUFFICES ASSUME m + 1 <= n, m + 1 <= k PROVE h[m + 1] = j[m + 1]
      OBVIOUS
    <3>1. m \in 0..(n - 1) /\ m \in 0..(k - 1) /\ h[m] = j[m]
      BY <2>2
    <3> QED
      BY <1>2, <3>1
  <2> HIDE DEF P
  <2>3. \A m \in Nat : m \in P
    BY <2>1, <2>2, AllNumbers
  <2> QED
    BY <2>3 DEF P
<1>3. \A n \in Nat : Upto(Turns(n), n)
  <2> HIDE DEF Upto
  <2> QED
    BY <1>1
<1>4. \A n \in Nat : \A m \in Nat : m <= n => Turns(n)[m] = g[m]
  <2> SUFFICES ASSUME NEW n \in Nat, NEW m \in Nat, m <= n PROVE Turns(n)[m] = g[m]
    OBVIOUS
  <2>1. Upto(Turns(n), n) /\ Upto(Turns(m), m)
    BY <1>3
  <2> HIDE DEF Upto, Turns
  <2>2. Turns(n)[m] = Turns(m)[m]
    BY <1>2, <2>1
  <2> QED
    BY <2>2
<1>5. g = [n \in Nat |-> g[n]]
  OBVIOUS
<1> HIDE DEF g, Turns
<1>6. g[0] = x
  <2>1. Turns(0)[0] = x
    BY <1>3
  <2> QED
    BY <1>4, <2>1
<1>7. ASSUME NEW n \in Nat
      PROVE  g[n] \in S[n] /\ g[n + 1] = F[n][g[n]]
  <2>1. n + 1 \in Nat /\ n <= n + 1 /\ n \in 0..(n + 1) /\ n \in 0..((n + 1) - 1)
    OBVIOUS
  <2>2. Upto(Turns(n + 1), n + 1)
    BY <1>3, <2>1
  <2>3. Turns(n + 1)[n] = g[n] /\ Turns(n + 1)[n + 1] = g[n + 1]
    BY <1>4, <2>1
  <2> QED
    BY <2>1, <2>2, <2>3
<1> QED
  BY <1>5, <1>6, <1>7

(* PowerOf2 is what its definition says, since such a function exists.     *)
LEMMA Powers ==
    /\ PowerOf2[0] = 1
    /\ \A n \in Nat : PowerOf2[n] \in Nat /\ PowerOf2[n] >= 1 /\ PowerOf2[n + 1] = 2 * PowerOf2[n]
<1> DEFINE S == [n \in Nat |-> Nat]
           F == [n \in Nat |-> [y \in Nat |-> 2 * y]]
<1>1. \A n \in Nat : \A y \in S[n] : F[n][y] \in S[n + 1] /\ F[n][y] = 2 * y
  OBVIOUS
<1>2. 1 \in S[0]
  OBVIOUS
<1>3. PICK g : /\ g = [n \in Nat |-> g[n]]
               /\ g[0] = 1
               /\ \A n \in Nat : g[n] \in S[n] /\ g[n + 1] = F[n][g[n]]
  <2> HIDE DEF S, F
  <2> QED
    BY <1>1, <1>2, Loops
<1>4. \A n \in Nat : g[n] = IF n = 0 THEN 1 ELSE 2 * g[n - 1]
  <2> TAKE n \in Nat
  <2>1. CASE n = 0
    BY <1>3, <2>1
  <2>2. CASE n # 0
    <3>1. n - 1 \in Nat /\ (n - 1) + 1 = n
      BY <2>2
    <3>2. g[(n - 1) + 1] = F[n - 1][g[n - 1]] /\ g[n - 1] \in S[n - 1]
      BY <1>3, <3>1
    <3> QED
      BY <1>1, <2>2, <3>1, <3>2
  <2> QED
    BY <2>1, <2>2
<1>5. g = [n \in Nat |-> IF n = 0 THEN 1 ELSE 2 * g[n - 1]]
  BY <1>3, <1>4
<1>6. PowerOf2 = [n \in Nat |-> IF n = 0 THEN 1 ELSE 2 * PowerOf2[n - 1]]
  BY <1>5 DEF PowerOf2
<1>7. PowerOf2[0] = 1 /\ \A n \in Nat : PowerOf2[n + 1] = 2 * PowerOf2[n]
  <2>1. PowerOf2[0] = 1
    BY <1>6
  <2>2. ASSUME NEW n \in Nat
        PROVE  PowerOf2[n + 1] = 2 * PowerOf2[n]
    <3>1. n + 1 \in Nat /\ n + 1 # 0 /\ (n + 1) - 1 = n
      OBVIOUS
    <3> QED
      BY ONLY <1>6, <3>1
  <2> QED
    BY <2>1, <2>2
<1> DEFINE P == {n \in Nat : PowerOf2[n] \in Nat /\ PowerOf2[n] >= 1}
<1>8. 0 \in P /\ \A n \in Nat : n \in P => n + 1 \in P
  BY <1>7
<1> HIDE DEF P
<1>9. \A n \in Nat : n \in P
  BY <1>8, AllNumbers
<1> QED
  BY <1>7, <1>9 DEF P

------------------------------------------------------------------------------
(* Why a search ends: 5 * i + 1, over and over, leads to every bucket of a *)
(* table whose size is a power of 2.                                       *)

(* A remainder is the one number below s that differs by a multiple of s.  *)
LEMMA Remainder ==
    ASSUME NEW s \in Nat, s > 0, NEW a \in Int, NEW q \in Int, NEW r \in 0..(s - 1),
           a = q * s + r
    PROVE  a % s = r
<1> DEFINE Q == a \div s
           R == a % s
<1>1. a = Q * s + R /\ R \in 0..(s - 1) /\ Q \in Int
  OBVIOUS
<1> HIDE DEF Q, R
<1>2. (q - Q) * s = R - r
  BY <1>1
<1>3. q - Q >= 1 => (q - Q) * s >= s
  BY <1>1
<1>4. q - Q <= -1 => (q - Q) * s <= -s
  BY <1>1
<1>5. q = Q
  BY <1>1, <1>2, <1>3, <1>4
<1> QED
  BY <1>1, <1>2, <1>5 DEF R

LEMMA Remainders ==
    ASSUME NEW s \in Nat, s > 0, NEW a \in Int
    PROVE  /\ a % s \in 0..(s - 1) /\ a \div s \in Int
           /\ a = (a \div s) * s + (a % s)
OBVIOUS

(* The numbers that 5 * i + 1 leads to.                                    *)
Chains == {x \in [Nat -> Int] : \A m \in Nat : x[m + 1] = 5 * x[m] + 1}

\* 2^n steps add an odd multiple of 2^n.
Jumps == {n \in Nat : \E u \in Int : \A x \in Chains : \A m \in Nat :
              x[m + PowerOf2[n]] = x[m] + (PowerOf2[n] * (2 * u + 1)) * (4 * x[m] + 1)}

LEMMA Algebra ==
    ASSUME NEW x \in Int, NEW y \in Int, NEW z \in Int, NEW b \in Int,
           y = x + b * (4 * x + 1), z = y + b * (4 * y + 1)
    PROVE  z = x + (2 * b * (2 * b + 1)) * (4 * x + 1)
<1> DEFINE w == 4 * x + 1
<1>1. w \in Int /\ 4 * y + 1 = w + 4 * (b * w)
  OBVIOUS
<1>2. b * (4 * y + 1) = b * w + 4 * (b * (b * w))
  BY <1>1
<1>3. z = x + (2 * (b * w) + 4 * (b * (b * w)))
  BY <1>2
<1>4. (2 * b * (2 * b + 1)) * w = 2 * (b * w) + 4 * (b * (b * w))
  BY <1>1
<1> QED
  BY <1>3, <1>4

LEMMA EveryJump == \A n \in Nat : n \in Jumps
<1>1. 0 \in Jumps
  <2>1. \A x \in Chains : \A m \in Nat :
           x[m + PowerOf2[0]] = x[m] + (PowerOf2[0] * (2 * 0 + 1)) * (4 * x[m] + 1)
    BY Powers DEF Chains
  <2> QED
    BY <2>1 DEF Jumps
<1>2. ASSUME NEW n \in Nat, n \in Jumps
      PROVE  n + 1 \in Jumps
  <2> DEFINE p == PowerOf2[n]
  <2>1. PICK u \in Int : \A x \in Chains : \A m \in Nat :
              x[m + p] = x[m] + (p * (2 * u + 1)) * (4 * x[m] + 1)
    BY <1>2 DEF Jumps
  <2>2. p \in Nat /\ PowerOf2[n + 1] = 2 * p
    BY Powers
  <2> HIDE DEF p
  <2> DEFINE b == p * (2 * u + 1)
             v == u * (2 * b + 1) + b
  <2>3. b \in Int /\ v \in Int
    BY <2>2
  <2>4. 2 * b * (2 * b + 1) = (2 * p) * (2 * v + 1)
    <3>1. 2 * v + 1 = (2 * u + 1) * (2 * b + 1)
      BY <2>3
    <3>2. (2 * p) * ((2 * u + 1) * (2 * b + 1)) = 2 * ((p * (2 * u + 1)) * (2 * b + 1))
      BY <2>2, <2>3
    <3> QED
      BY <2>3, <3>1, <3>2
  <2> HIDE DEF v
  <2>5. ASSUME NEW x \in Chains, NEW m \in Nat
        PROVE  x[m + 2 * p] = x[m] + ((2 * p) * (2 * v + 1)) * (4 * x[m] + 1)
    <3>1. x[m + p] = x[m] + b * (4 * x[m] + 1)
      BY <2>1
    <3>2. x[(m + p) + p] = x[m + p] + b * (4 * x[m + p] + 1)
      BY <2>1, <2>2
    <3>3. (m + p) + p = m + 2 * p
      BY <2>2
    <3>4. x[m] \in Int /\ x[m + p] \in Int /\ x[m + 2 * p] \in Int
      BY <2>2 DEF Chains
    <3> HIDE DEF b
    <3>5. x[m + 2 * p] = x[m] + (2 * b * (2 * b + 1)) * (4 * x[m] + 1)
      BY <2>3, <3>1, <3>2, <3>3, <3>4, Algebra
    <3> QED
      BY <2>4, <3>5
  <2> HIDE DEF b
  <2>6. \A x \in Chains : \A m \in Nat :
           x[m + PowerOf2[n + 1]] =
               x[m] + (PowerOf2[n + 1] * (2 * v + 1)) * (4 * x[m] + 1)
    BY <2>2, <2>5
  <2> QED
    BY <2>3, <2>6 DEF Jumps
<1> QED
  BY <1>1, <1>2, AllNumbers

\* Fewer than 2^n steps lead from anywhere to any number, but for a
\* multiple of 2^n.
Arrivals == {n \in Nat : \A x \in Chains : \A b \in Int : \E m \in Nat : \E q \in Int :
                 m < PowerOf2[n] /\ x[m] = b + q * PowerOf2[n]}

LEMMA EveryArrival == \A n \in Nat : n \in Arrivals
<1>1. 0 \in Arrivals
  <2>1. ASSUME NEW x \in Chains, NEW b \in Int
        PROVE  \E m \in Nat : \E q \in Int : m < PowerOf2[0] /\ x[m] = b + q * PowerOf2[0]
    <3>1. PowerOf2[0] = 1 /\ x[0] \in Int
      BY Powers DEF Chains
    <3>2. 0 < PowerOf2[0] /\ x[0] = b + (x[0] - b) * PowerOf2[0] /\ x[0] - b \in Int
      BY <3>1
    <3> QED
      BY <3>2
  <2> QED
    BY <2>1 DEF Arrivals
<1>2. ASSUME NEW n \in Nat, n \in Arrivals
      PROVE  n + 1 \in Arrivals
  <2> DEFINE p == PowerOf2[n]
  <2>1. p \in Nat /\ p >= 1 /\ PowerOf2[n + 1] = 2 * p
    BY Powers
  <2>2. PICK u \in Int : \A x \in Chains : \A m \in Nat :
              x[m + p] = x[m] + (p * (2 * u + 1)) * (4 * x[m] + 1)
    BY EveryJump DEF Jumps
  <2>3. ASSUME NEW x \in Chains, NEW b \in Int
        PROVE  \E m \in Nat : \E q \in Int : m < 2 * p /\ x[m] = b + q * (2 * p)
    <3>1. PICK m \in Nat, q \in Int : m < p /\ x[m] = b + q * p
      BY <1>2 DEF Arrivals
    <3>2. x[m + p] = x[m] + (p * (2 * u + 1)) * (4 * x[m] + 1)
      BY <2>2
    <3> HIDE DEF p
    <3>3. PICK h \in Int : q = 2 * h \/ q = 2 * h + 1
      <4>1. q = 2 * (q \div 2) + (q % 2) /\ q % 2 \in 0..1 /\ q \div 2 \in Int
        OBVIOUS
      <4> QED
        BY <4>1
    <3>4. CASE q = 2 * h
      <4>1. q * p = h * (2 * p)
        BY <2>1, <3>4
      <4> QED
        BY <2>1, <3>1, <4>1
    <3>5. CASE q = 2 * h + 1
      <4> DEFINE y == x[m]
                 r == h + 4 * (u * y) + u + 2 * y + 1
      <4>1. y \in Int /\ r \in Int
        BY DEF Chains
      <4>2. (2 * u + 1) * (4 * y + 1) = 2 * (4 * (u * y) + u + 2 * y) + 1
        BY <4>1
      <4>3. (p * (2 * u + 1)) * (4 * y + 1) = p * ((2 * u + 1) * (4 * y + 1))
        BY <2>1, <4>1
      <4>4. q + (2 * u + 1) * (4 * y + 1) = 2 * r
        BY <3>5, <4>1, <4>2
      <4>5. x[m + p] = b + (q * p + p * ((2 * u + 1) * (4 * y + 1)))
        BY <2>1, <3>1, <3>2, <4>1, <4>3
      <4> DEFINE z == (2 * u + 1) * (4 * y + 1)
      <4>6. z \in Int
        BY <4>1
      <4> HIDE DEF z, r, y
      <4>7. q * p + p * z = (q + z) * p
        BY <2>1, <4>6
      <4>8. (2 * r) * p = r * (2 * p)
        BY <2>1, <4>1
      <4>9. x[m + p] = b + r * (2 * p)
        BY <4>4, <4>5, <4>7, <4>8 DEF z
      <4>10. m + p \in Nat /\ m + p < 2 * p
        BY <2>1, <3>1
      <4> QED
        BY <4>1, <4>9, <4>10
    <3> QED
      BY <3>3, <3>4, <3>5
  <2> DEFINE w == PowerOf2[n + 1]
  <2>4. w = 2 * p
    BY <2>1
  <2> HIDE DEF p, w
  <2>5. \A x \in Chains : \A b \in Int : \E m \in Nat : \E q \in Int :
           m < w /\ x[m] = b + q * w
    BY ONLY <2>3, <2>4, Zenon
  <2> QED
    BY <2>5 DEF Arrivals, w
<1> QED
  BY <1>1, <1>2, AllNumbers

------------------------------------------------------------------------------
(* The buckets a search tries (the loop of seek_helper): from one to the   *)
(* next, never out of the table.                                           *)
Searches(at, size, h) ==
    /\ at[0].perturb = h
    /\ \A n \in Nat : /\ at[n].i \in Buckets(size) /\ at[n].perturb \in Nat
                      /\ at[n + 1].perturb = at[n].perturb \div 32
                      /\ at[n + 1].i = (at[n].i * 5 + at[n + 1].perturb + 1) % size

LEMMA ProbesStep ==
    ASSUME NEW size \in Nat, size > 0, NEW h \in Nat
    PROVE  Searches(Probes(size, h), size, h)
<1> DEFINE R == [i : Buckets(size), perturb : Nat]
           S == [n \in Nat |-> R]
           Go(y) == [i |-> (y.i * 5 + y.perturb \div 32 + 1) % size, perturb |-> y.perturb \div 32]
           F == [n \in Nat |-> [y \in R |-> Go(y)]]
           x == [i |-> h % size, perturb |-> h]
<1>1. x \in S[0]
  <2>1. h % size \in Buckets(size)
    BY Remainders DEF Buckets
  <2> QED
    BY <2>1
<1>2. \A y \in R : Go(y) \in R /\ Go(y).perturb = y.perturb \div 32
                   /\ Go(y).i = (y.i * 5 + Go(y).perturb + 1) % size
  <2> TAKE y \in R
  <2>1. y.i \in Nat /\ y.perturb \in Nat
    BY DEF Buckets
  <2>2. y.perturb \div 32 \in Nat
    BY <2>1
  <2>3. y.i * 5 + y.perturb \div 32 + 1 \in Int
    BY <2>1, <2>2
  <2>4. (y.i * 5 + y.perturb \div 32 + 1) % size \in Buckets(size)
    BY <2>3, Remainders DEF Buckets
  <2> QED
    BY <2>2, <2>4
<1>3. \A n \in Nat : \A y \in S[n] : F[n][y] \in S[n + 1] /\ y \in R /\ F[n][y] = Go(y)
  <2> HIDE DEF Go, R
  <2> QED
    BY <1>2
<1> HIDE DEF Go, F, x
<1>4. PICK g : /\ g = [n \in Nat |-> g[n]]
               /\ g[0] = x
               /\ \A n \in Nat : g[n] \in S[n] /\ g[n + 1] = F[n][g[n]]
  <2>1. \A n \in Nat : \A y \in S[n] : F[n][y] \in S[n + 1]
    BY <1>3
  <2> HIDE DEF S
  <2> QED
    BY ONLY <1>1, <2>1, Loops
<1> DEFINE Body(f, n) ==
             IF n = 0 THEN [i |-> h % size, perturb |-> h]
             ELSE LET last    == f[n - 1]
                      perturb == last.perturb \div 32
                  IN  [i |-> (last.i * 5 + perturb + 1) % size, perturb |-> perturb]
           at == Probes(size, h)
<1>5. \A n \in Nat : g[n + 1] = Go(g[n]) /\ g[n] \in R
  BY <1>3, <1>4
<1>6. \A n \in Nat : g[n] = Body(g, n)
  <2> TAKE n \in Nat
  <2>1. CASE n = 0
    BY <1>4, <2>1 DEF x
  <2>2. CASE n # 0
    <3>1. n - 1 \in Nat /\ (n - 1) + 1 = n
      BY <2>2
    <3>2. g[n] = Go(g[n - 1])
      BY <1>5, <3>1
    <3> QED
      BY <2>2, <3>2 DEF Go
  <2> QED
    BY <2>1, <2>2
<1>7. g = [n \in Nat |-> Body(g, n)]
  <2> HIDE DEF Body
  <2> QED
    BY <1>4, <1>6
<1>8. at = [n \in Nat |-> Body(at, n)]
  BY <1>7 DEF Probes
<1>9. at[0] = x /\ \A n \in Nat : at[n + 1] = Go(at[n])
  <2>1. at[0] = Body(at, 0)
    <3> HIDE DEF at, Body
    <3> QED
      BY <1>8
  <2>2. ASSUME NEW n \in Nat
        PROVE  at[n + 1] = Go(at[n])
    <3>1. n + 1 \in Nat /\ n + 1 # 0 /\ (n + 1) - 1 = n
      OBVIOUS
    <3>2. at[n + 1] = Body(at, n + 1)
      <4> HIDE DEF at, Body
      <4> QED
        BY ONLY <1>8, <3>1
    <3> HIDE DEF at
    <3> QED
      BY <3>1, <3>2 DEF Go
  <2> QED
    BY <2>1, <2>2 DEF x
<1> HIDE DEF at
<1> DEFINE P == {n \in Nat : at[n] \in R}
<1>10. 0 \in P /\ \A n \in Nat : n \in P => n + 1 \in P
  <2> HIDE DEF R
  <2> QED
    BY <1>1, <1>2, <1>9
<1> HIDE DEF P
<1>11. \A n \in Nat : n \in P
  BY <1>10, AllNumbers
<1>12. \A n \in Nat : at[n] \in R
  BY <1>11 DEF P
<1>13. at[0].perturb = h
  BY <1>9 DEF x
<1>14. ASSUME NEW n \in Nat
       PROVE  /\ at[n].i \in Buckets(size) /\ at[n].perturb \in Nat
              /\ at[n + 1].perturb = at[n].perturb \div 32
              /\ at[n + 1].i = (at[n].i * 5 + at[n + 1].perturb + 1) % size
  <2>1. at[n] \in R /\ at[n + 1] = Go(at[n])
    BY <1>9, <1>12
  <2>2. at[n].i \in Buckets(size) /\ at[n].perturb \in Nat
    BY <2>1
  <2> QED
    BY <1>2, <2>1, <2>2
<1>15. Searches(at, size, h)
  BY <1>13, <1>14 DEF Searches
<1> QED
  BY <1>15 DEF at

(* Nothing is left of the hash after as many buckets as the hash is high.  *)
LEMMA PerturbEnds ==
    ASSUME NEW size \in Nat, size > 0, NEW h \in Nat, NEW n \in Nat, n >= h
    PROVE  Probes(size, h)[n].perturb = 0
<1> DEFINE at == Probes(size, h)
           P == {m \in Nat : at[m].perturb = 0 \/ at[m].perturb + m <= h}
<1>0. Searches(at, size, h)
  BY ProbesStep
<1> HIDE DEF at
<1>1. /\ at[0].perturb = h
      /\ \A m \in Nat : at[m].perturb \in Nat /\ at[m + 1].perturb = at[m].perturb \div 32
  BY <1>0 DEF Searches
<1>2. 0 \in P
  BY <1>1
<1>3. ASSUME NEW m \in Nat, m \in P
      PROVE  m + 1 \in P
  <2> DEFINE p == at[m].perturb
  <2>1. p \in Nat /\ at[m + 1].perturb = p \div 32 /\ (p = 0 \/ p + m <= h)
    BY <1>1, <1>3
  <2> HIDE DEF p
  <2>2. p \div 32 = 0 \/ (p \div 32) + (m + 1) <= h
    BY <2>1
  <2> QED
    BY <2>1, <2>2
<1> HIDE DEF P
<1>4. n \in P
  BY <1>2, <1>3, AllNumbers
<1>5. at[n].perturb \in Nat /\ (at[n].perturb = 0 \/ at[n].perturb + n <= h)
  BY <1>1, <1>4 DEF P
<1> QED
  BY <1>5 DEF at

(* The claim in the comment of seek_helper() that its author could not     *)
(* prove: when the size is a power of 2, a search tries every bucket, so   *)
(* that it ends if one is empty.                                           *)
THEOREM SearchTriesEveryBucket ==
    ASSUME NEW e \in Nat, NEW h \in Nat, NEW b \in Buckets(PowerOf2[e])
    PROVE  \E n \in 0..(h + PowerOf2[e]) : Probes(PowerOf2[e], h)[n].i = b
<1> DEFINE size == PowerOf2[e]
           at == Probes(size, h)
<1>1. size \in Nat /\ size > 0
  BY Powers
<1>2. \A n \in Nat : /\ at[n].i \in Buckets(size) /\ at[n].perturb \in Nat
                     /\ at[n + 1].i = (at[n].i * 5 + at[n + 1].perturb + 1) % size
  <2>1. Searches(at, size, h)
    BY <1>1, ProbesStep
  <2> HIDE DEF size, at
  <2> QED
    BY <2>1 DEF Searches
<1>3. \A n \in Nat : n >= h => at[n].perturb = 0
  <2> HIDE DEF size
  <2> QED
    BY <1>1, PerturbEnds
<1> HIDE DEF at, size
<1> DEFINE S == [n \in Nat |-> Int]
           F == [n \in Nat |-> [y \in Int |-> 5 * y + 1]]
           a == at[h].i
<1>4. a \in Int
  BY <1>1, <1>2 DEF Buckets
<1>5. PICK x : /\ x = [n \in Nat |-> x[n]]
               /\ x[0] = a
               /\ \A n \in Nat : x[n] \in S[n] /\ x[n + 1] = F[n][x[n]]
  <2>1. \A n \in Nat : \A y \in S[n] : F[n][y] \in S[n + 1]
    OBVIOUS
  <2>2. a \in S[0]
    BY <1>4
  <2> HIDE DEF S, F, a
  <2> QED
    BY <2>1, <2>2, Loops
<1>6. x \in Chains
  <2>1. \A n \in Nat : x[n] \in Int /\ x[n + 1] = 5 * x[n] + 1
    BY <1>5
  <2> QED
    BY <1>5, <2>1 DEF Chains
<1> DEFINE P == {m \in Nat : at[h + m].i = x[m] % size}
<1>7. 0 \in P
  <2>1. a \in 0..(size - 1) /\ a = 0 * size + a /\ 0 \in Int
    BY <1>1, <1>2 DEF Buckets
  <2>2. a % size = a
    BY <1>1, <1>4, <2>1, Remainder
  <2>3. h + 0 = h
    OBVIOUS
  <2> QED
    BY <1>5, <2>2, <2>3
<1>8. ASSUME NEW m \in Nat, m \in P
      PROVE  m + 1 \in P
  <2> DEFINE y == x[m]
             r == y % size
             q == y \div size
  <2>1. y \in Int /\ x[m + 1] = 5 * y + 1
    BY <1>6 DEF Chains
  <2> HIDE DEF y
  <2>2. r \in 0..(size - 1) /\ q \in Int /\ y = q * size + r
    BY <1>1, <2>1, Remainders
  <2>3. at[h + m].i = r
    BY <1>8 DEF y
  <2>4. at[h + (m + 1)].i = (r * 5 + 1) % size
    <3>1. (h + m) + 1 = h + (m + 1) /\ h + m \in Nat /\ h + (m + 1) \in Nat /\ h + (m + 1) >= h
      OBVIOUS
    <3>2. at[h + (m + 1)].perturb = 0
      BY <1>3, <3>1
    <3>3. at[h + (m + 1)].i = (at[h + m].i * 5 + at[h + (m + 1)].perturb + 1) % size
      BY <1>2, <3>1
    <3>4. r * 5 + 0 + 1 = r * 5 + 1
      BY <1>1, <2>2
    <3> QED
      BY <2>3, <3>2, <3>3, <3>4
  <2> HIDE DEF r, q
  <2> DEFINE z == r * 5 + 1
             k == z \div size
             s == z % size
  <2>5. z \in Int /\ s \in 0..(size - 1) /\ k \in Int /\ z = k * size + s
    <3>1. z \in Int
      BY <1>1, <2>2
    <3> HIDE DEF z
    <3> QED
      BY <1>1, <3>1, Remainders
  <2>6. 5 * y + 1 = (5 * q + k) * size + s
    <3> HIDE DEF k, s
    <3>1. (5 * q + k) * size = 5 * (q * size) + k * size
      BY <1>1, <2>2, <2>5
    <3> QED
      BY <1>1, <2>1, <2>2, <2>5, <3>1
  <2>7. (5 * y + 1) % size = s
    <3> HIDE DEF s, k
    <3>1. 5 * y + 1 \in Int /\ 5 * q + k \in Int
      BY <2>1, <2>2, <2>5
    <3> QED
      BY <1>1, <2>5, <2>6, <3>1, Remainder
  <2> QED
    BY <2>1, <2>4, <2>7
<1> HIDE DEF P
<1>9. \A m \in Nat : m \in P
  BY <1>7, <1>8, AllNumbers
<1>10. b \in 0..(size - 1) /\ b \in Int
  BY <1>1 DEF Buckets, size
<1>11. PICK m \in Nat, q \in Int : m < size /\ x[m] = b + q * size
  BY <1>6, <1>10, EveryArrival DEF Arrivals, size
<1>12. x[m] = q * size + b /\ x[m] \in Int
  BY <1>1, <1>6, <1>10, <1>11 DEF Chains
<1>13. x[m] % size = b
  BY <1>1, <1>10, <1>12, Remainder
<1>14. at[h + m].i = b
  BY <1>9, <1>13 DEF P
<1>15. h + m \in 0..(h + size)
  BY <1>1, <1>11
<1> QED
  BY <1>14, <1>15 DEF at, size

------------------------------------------------------------------------------
(* Searches in a table.                                                    *)
SizeOK(size) == \E e \in Nat : size = PowerOf2[e]

LEMMA SizeType ==
    ASSUME NEW size, SizeOK(size)
    PROVE  size \in Nat /\ size > 0
BY Powers DEF SizeOK

\* A search for hash h comes to bucket b before it comes to an empty one.
Reached(keys, size, h, b) ==
    \E n \in Nat : /\ Probes(size, h)[n].i = b
                   /\ \A m \in 0..(n - 1) : keys[Probes(size, h)[m].i] # NULL

(* What FirstBucket() finds, when there is something to find: that, before *)
(* anything else it may stop at.                                           *)
LEMMA FirstBucketFound ==
    ASSUME NEW t, SizeOK(t.size), NEW k, hash[k] \in Nat, NEW stops,
           \E b \in Buckets(t.size) : t.keys[b] \in stops
    PROVE  LET j == FirstBucket(t, k, stops)
           IN  /\ j \in Buckets(t.size) /\ t.keys[j] \in stops
               /\ \E n \in Nat :
                    /\ Probes(t.size, hash[k])[n].i = j
                    /\ \A m \in 0..(n - 1) : t.keys[Probes(t.size, hash[k])[m].i] \notin stops
<1> DEFINE at == Probes(t.size, hash[k])
           N == hash[k] + t.size
           Stops(n) == t.keys[at[n].i] \in stops
           First(n) == Stops(n) /\ \A m \in 0..(n - 1) : ~Stops(m)
           j == FirstBucket(t, k, stops)
<1>1. t.size \in Nat /\ t.size > 0
  BY SizeType
<1>2. \A n \in Nat : at[n].i \in Buckets(t.size)
  <2>1. Searches(at, t.size, hash[k])
    BY <1>1, ProbesStep
  <2> HIDE DEF at
  <2> QED
    BY <2>1 DEF Searches
<1>3. PICK n0 \in 0..N : Stops(n0)
  <2>1. PICK b \in Buckets(t.size) : t.keys[b] \in stops
    OBVIOUS
  <2>2. PICK e \in Nat : t.size = PowerOf2[e]
    BY DEF SizeOK
  <2>3. \E n \in 0..(hash[k] + PowerOf2[e]) : Probes(PowerOf2[e], hash[k])[n].i = b
    BY <2>1, <2>2, SearchTriesEveryBucket
  <2>4. \E n \in 0..N : at[n].i = b
    BY <2>2, <2>3
  <2> QED
    BY <2>1, <2>4
<1>4. j = at[CHOOSE n \in 0..N : First(n)].i
  BY DEF FirstBucket
<1> HIDE DEF at, j
<1>5. \E n \in 0..N : First(n)
  <2> DEFINE T == {n \in 0..N : Stops(n)}
  <2>1. T \in SUBSET Nat /\ T # {}
    BY <1>1, <1>3
  <2> HIDE DEF T
  <2>2. PICK n \in T : \A p \in T : n <= p
    BY <2>1, LeastIn
  <2> HIDE DEF Stops
  <2>3. n \in 0..N /\ Stops(n)
    BY DEF T
  <2>4. \A m \in 0..(n - 1) : m \in 0..N /\ ~(n <= m)
    BY <1>1, <2>3
  <2>5. \A m \in 0..(n - 1) : ~Stops(m)
    BY <2>2, <2>4 DEF T
  <2> QED
    BY <2>3, <2>5
<1> DEFINE c == CHOOSE n \in 0..N : First(n)
<1>6. c \in 0..N /\ First(c)
  <2> HIDE DEF First
  <2> QED
    BY <1>5
<1> HIDE DEF c
<1>7. j = at[c].i
  BY <1>4 DEF c
<1>8. c \in Nat
  BY <1>1, <1>6
<1> QED
  BY <1>2, <1>6, <1>7, <1>8 DEF at, j

(* A search that stops at empty buckets too reaches what it finds.         *)
LEMMA FoundReached ==
    ASSUME NEW t, SizeOK(t.size), NEW k, hash[k] \in Nat, NEW stops, NULL \in stops,
           \E b \in Buckets(t.size) : t.keys[b] \in stops
    PROVE  LET j == FirstBucket(t, k, stops)
           IN  /\ j \in Buckets(t.size) /\ t.keys[j] \in stops
               /\ Reached(t.keys, t.size, hash[k], j)
<1> DEFINE j == FirstBucket(t, k, stops)
           at == Probes(t.size, hash[k])
<1>1. /\ j \in Buckets(t.size) /\ t.keys[j] \in stops
      /\ \E n \in Nat : at[n].i = j /\ \A m \in 0..(n - 1) : t.keys[at[m].i] \notin stops
  BY FirstBucketFound
<1> HIDE DEF j
<1>2. \E n \in Nat : at[n].i = j /\ \A m \in 0..(n - 1) : t.keys[at[m].i] # NULL
  BY <1>1
<1>3. Reached(t.keys, t.size, hash[k], j)
  BY <1>2 DEF Reached
<1> QED
  BY <1>1, <1>3 DEF j

(* seek_helper() finds a key at the one bucket that has it, if a search    *)
(* reaches that.                                                           *)
LEMMA SeekFinds ==
    ASSUME NEW t, SizeOK(t.size), NEW k, hash[k] \in Nat,
           NEW i \in Buckets(t.size), t.keys[i] = k,
           \A j \in Buckets(t.size) : t.keys[j] = k => j = i,
           Reached(t.keys, t.size, hash[k], i)
    PROVE  seek_helper(t, k) = i
<1> DEFINE j == FirstBucket(t, k, {NULL, k})
           at == Probes(t.size, hash[k])
<1>1. /\ j \in Buckets(t.size) /\ t.keys[j] \in {NULL, k}
      /\ \E n \in Nat : at[n].i = j /\ \A m \in 0..(n - 1) : t.keys[at[m].i] \notin {NULL, k}
  BY FirstBucketFound
<1>2. PICK n \in Nat : at[n].i = i /\ \A m \in 0..(n - 1) : t.keys[at[m].i] # NULL
  BY DEF Reached
<1> HIDE DEF j, at
<1>3. PICK p \in Nat : at[p].i = j /\ \A m \in 0..(p - 1) : t.keys[at[m].i] \notin {NULL, k}
  BY <1>1
<1>4. ~(n < p)
  <2>1. n < p => n \in 0..(p - 1)
    OBVIOUS
  <2> QED
    BY <1>2, <1>3, <2>1
<1>5. p < n => t.keys[j] # NULL
  <2>1. p < n => p \in 0..(n - 1)
    OBVIOUS
  <2> QED
    BY <1>2, <1>3, <2>1
<1>6. j = i
  <2>1. p = n \/ p < n
    BY <1>4
  <2> QED
    BY <1>1, <1>2, <1>3, <1>5, <2>1
<1> QED
  BY <1>6 DEF seek_helper, j

(* A bucket that is no longer empty is in nobody's way.                    *)
LEMMA StillReached ==
    ASSUME NEW keys, NEW more, NEW size, NEW h, NEW b, SizeOK(size), h \in Nat,
           Reached(keys, size, h, b),
           \A i \in Buckets(size) : more[i] = NULL => keys[i] = NULL
    PROVE  Reached(more, size, h, b)
<1> DEFINE at == Probes(size, h)
<1>1. PICK n \in Nat : at[n].i = b /\ \A m \in 0..(n - 1) : keys[at[m].i] # NULL
  BY DEF Reached
<1>2. \A m \in Nat : at[m].i \in Buckets(size)
  <2>1. size \in Nat /\ size > 0
    BY SizeType
  <2>2. Searches(at, size, h)
    BY <2>1, ProbesStep
  <2> HIDE DEF at
  <2> QED
    BY <2>2 DEF Searches
<1> HIDE DEF at
<1>3. \A m \in 0..(n - 1) : more[at[m].i] # NULL
  BY <1>1, <1>2
<1> QED
  BY <1>1, <1>3 DEF Reached, at

------------------------------------------------------------------------------
(* Ranks: how Ranked lists the positions of the map that matter.           *)
LEMMA RankType ==
    ASSUME NEW S \in SUBSET Nat, IsFiniteSet(S), NEW i \in Int
    PROVE  /\ Cardinality(S) \in Nat
           /\ Rank(S, i) \in Nat /\ Rank(S, i) <= Cardinality(S)
           /\ IsFiniteSet({x \in S : x <= i})
<1>1. {x \in S : x <= i} \in SUBSET S
  OBVIOUS
<1>2. /\ IsFiniteSet({x \in S : x <= i})
      /\ Cardinality({x \in S : x <= i}) <= Cardinality(S)
  BY <1>1, FS_Subset
<1> QED
  BY <1>2, FS_CardinalityType DEF Rank

LEMMA RankStep ==
    ASSUME NEW S \in SUBSET Nat, IsFiniteSet(S), NEW i \in Int
    PROVE  Rank(S, i) = IF i \in S THEN Rank(S, i - 1) + 1 ELSE Rank(S, i - 1)
<1> DEFINE U(m) == {x \in S : x <= m}
<1>0. i - 1 \in Int /\ \A x \in S : x \in Int
  OBVIOUS
<1>1. IsFiniteSet(U(i - 1))
  BY <1>0, RankType
<1>2. CASE i \in S
  <2>1. \A x \in S : x <= i <=> x <= i - 1 \/ x = i
    BY <1>0
  <2>2. ~(i <= i - 1)
    OBVIOUS
  <2>3. U(i) = U(i - 1) \cup {i} /\ i \notin U(i - 1)
    BY <1>2, <2>1, <2>2
  <2> HIDE DEF U
  <2>4. Cardinality(U(i)) = Cardinality(U(i - 1)) + 1
    BY <1>1, <2>3, FS_AddElement
  <2> QED
    BY <1>2, <2>4 DEF Rank, U
<1>3. CASE i \notin S
  <2>1. \A x \in S : x <= i <=> x <= i - 1
    BY <1>0, <1>3
  <2>2. U(i) = U(i - 1)
    BY <2>1
  <2> QED
    BY <1>3, <2>2 DEF Rank
<1> QED
  BY <1>2, <1>3

LEMMA RankGrows ==
    ASSUME NEW S \in SUBSET Nat, IsFiniteSet(S), NEW i \in Int, NEW j \in Int, i <= j
    PROVE  /\ Rank(S, i) <= Rank(S, j)
           /\ i < j /\ j \in S => Rank(S, i) < Rank(S, j)
<1> DEFINE U(m) == {x \in S : x <= m}
<1>0. \A x \in S : x <= i => x <= j
  OBVIOUS
<1>1. U(i) \in SUBSET U(j)
  BY <1>0
<1>2. i < j /\ j \in S => U(i) # U(j)
  OBVIOUS
<1>3. IsFiniteSet(U(j)) /\ Rank(S, i) \in Nat /\ Rank(S, j) \in Nat
  BY RankType
<1>4. Rank(S, i) = Cardinality(U(i)) /\ Rank(S, j) = Cardinality(U(j))
  BY DEF Rank
<1> HIDE DEF U
<1>5. /\ Cardinality(U(i)) <= Cardinality(U(j))
      /\ Cardinality(U(j)) = Cardinality(U(i)) => U(j) = U(i)
  BY <1>1, <1>3, FS_Subset
<1> QED
  BY <1>2, <1>3, <1>4, <1>5

(* A member has its own rank.                                              *)
LEMMA RankDistinct ==
    ASSUME NEW S \in SUBSET Nat, IsFiniteSet(S)
    PROVE  /\ \A i \in S : Rank(S, i) \in 1..Cardinality(S)
           /\ \A i, j \in S : Rank(S, i) = Rank(S, j) => i = j
<1>1. \A i \in S : Rank(S, i) \in 1..Cardinality(S)
  <2> TAKE i \in S
  <2>1. i \in Int /\ i - 1 \in Int
    OBVIOUS
  <2>2. /\ Rank(S, i) \in Nat /\ Rank(S, i) <= Cardinality(S) /\ Rank(S, i - 1) \in Nat
        /\ Cardinality(S) \in Nat
    BY <2>1, RankType
  <2>3. Rank(S, i) = Rank(S, i - 1) + 1
    BY <2>1, RankStep
  <2> QED
    BY <2>2, <2>3
<1>2. ASSUME NEW i \in S, NEW j \in S, Rank(S, i) = Rank(S, j)
      PROVE  i = j
  <2>1. i \in Int /\ j \in Int
    OBVIOUS
  <2>2. i < j => Rank(S, i) < Rank(S, j)
    BY <2>1, RankGrows
  <2>3. j < i => Rank(S, j) < Rank(S, i)
    BY <2>1, RankGrows
  <2>4. Rank(S, i) \in Nat /\ Rank(S, j) \in Nat
    BY <2>1, RankType
  <2> QED
    BY <1>2, <2>1, <2>2, <2>3, <2>4
<1> QED
  BY <1>1, <1>2

(* Every number up to the size of S is the rank of one member, so Ranked   *)
(* lists S in order.                                                       *)
LEMMA RankedInOrder ==
    ASSUME NEW S \in SUBSET Nat, IsFiniteSet(S)
    PROVE  /\ Cardinality(S) \in Nat /\ DOMAIN Ranked[S] = 1..Cardinality(S)
           /\ \A r \in 1..Cardinality(S) : Ranked[S][r] \in S /\ Rank(S, Ranked[S][r]) = r
           /\ \A i \in S : Rank(S, i) \in 1..Cardinality(S) /\ Ranked[S][Rank(S, i)] = i
           /\ \A p, r \in 1..Cardinality(S) : p < r => Ranked[S][p] < Ranked[S][r]
<1> DEFINE c == Cardinality(S)
           f == [i \in S |-> Rank(S, i)]
<1>1. c \in Nat
  BY FS_CardinalityType
<1>2. IsFiniteSet(1..c) /\ Cardinality(1..c) = c
  BY <1>1, FS_Interval
<1>3. f \in [S -> 1..c] /\ \A i, j \in S : f[i] = f[j] => i = j
  BY RankDistinct
<1>4. f \in Injection(S, 1..c)
  BY <1>3 DEF Injection, IsInjective
<1> HIDE DEF f
<1>5. f \in Surjection(S, 1..c)
  BY <1>1, <1>2, <1>4, FS_Injection
<1>6. \A r \in 1..c : \E i \in S : f[i] = r
  BY <1>5 DEF Surjection
<1>7. \A r \in 1..c : \E i \in S : Rank(S, i) = r
  BY <1>6 DEF f
<1>8. Ranked[S] = [r \in 1..c |-> CHOOSE m \in S : Rank(S, m) = r]
  BY DEF Ranked
<1>9. \A r \in 1..c : Ranked[S][r] \in S /\ Rank(S, Ranked[S][r]) = r
  BY <1>7, <1>8
<1>10. \A i \in S : Rank(S, i) \in 1..c /\ Ranked[S][Rank(S, i)] = i
  <2> TAKE i \in S
  <2>1. Rank(S, i) \in 1..c /\ \A j \in S : Rank(S, j) = Rank(S, i) => j = i
    BY RankDistinct
  <2> QED
    BY <1>9, <2>1
<1>11. DOMAIN Ranked[S] = 1..c
  BY <1>8
<1>12. ASSUME NEW p \in 1..c, NEW r \in 1..c, p < r
       PROVE  Ranked[S][p] < Ranked[S][r]
  <2>1. /\ Ranked[S][p] \in S /\ Ranked[S][r] \in S
        /\ Rank(S, Ranked[S][p]) = p /\ Rank(S, Ranked[S][r]) = r
    BY <1>9
  <2> DEFINE a == Ranked[S][p]
             b == Ranked[S][r]
  <2>2. a \in Int /\ b \in Int /\ Rank(S, a) = p /\ Rank(S, b) = r
    <3>1. a \in S /\ b \in S /\ Rank(S, a) = p /\ Rank(S, b) = r
      BY <2>1
    <3> HIDE DEF a, b
    <3> QED
      BY <3>1
  <2> HIDE DEF a, b
  <2>3. b <= a => Rank(S, b) <= Rank(S, a)
    BY <2>2, RankGrows
  <2> QED
    BY <1>12, <2>2, <2>3 DEF a, b
<1> QED
  BY <1>1, <1>9, <1>10, <1>11, <1>12

(* The one list of S in order is Ranked[S].                                *)
LEMMA RankedIs ==
    ASSUME NEW S \in SUBSET Nat, NEW c \in Nat, NEW f \in [1..c -> S],
           \A p, r \in 1..c : p < r => f[p] < f[r],
           \A i \in S : \E r \in 1..c : f[r] = i
    PROVE  /\ IsFiniteSet(S) /\ Cardinality(S) = c
           /\ \A r \in 1..c : Ranked[S][r] = f[r]
<1>1. \A p, r \in 1..c : f[p] = f[r] => p = r
  <2> SUFFICES ASSUME NEW p \in 1..c, NEW r \in 1..c, f[p] = f[r] PROVE p = r
    OBVIOUS
  <2>1. f[p] \in Nat /\ f[r] \in Nat
    OBVIOUS
  <2>2. ~(p < r) /\ ~(r < p)
    BY <2>1
  <2> QED
    BY <2>2
<1>2. f \in Bijection(1..c, S)
  BY <1>1 DEF Bijection, Injection, Surjection, IsInjective
<1>3. IsFiniteSet(1..c) /\ Cardinality(1..c) = c
  BY FS_Interval
<1>4. IsFiniteSet(S) /\ Cardinality(S) = c
  BY <1>2, <1>3, FS_Bijection DEF ExistsBijection
<1>5. ASSUME NEW r \in 1..c
      PROVE  Rank(S, f[r]) = r
  <2> DEFINE U == {x \in S : x <= f[r]}
             g == [p \in 1..r |-> f[p]]
  <2>1. \A p \in 1..r : p \in 1..c /\ f[p] \in U
    <3> TAKE p \in 1..r
    <3>1. p \in 1..c /\ (p < r \/ p = r)
      OBVIOUS
    <3>2. f[p] \in Nat /\ f[r] \in Nat /\ (f[p] < f[r] \/ p = r)
      BY <3>1
    <3> QED
      BY <3>1, <3>2
  <2>2. \A x \in U : \E p \in 1..r : f[p] = x
    <3> TAKE x \in U
    <3>1. PICK p \in 1..c : f[p] = x
      OBVIOUS
    <3>2. ~(r < p)
      <4>1. x <= f[r] /\ x \in Nat /\ f[r] \in Nat
        OBVIOUS
      <4>2. r < p => f[r] < f[p]
        BY <3>1
      <4> QED
        BY <3>1, <4>1, <4>2
    <3> QED
      BY <3>1, <3>2
  <2>3. g \in [1..r -> U] /\ \A p \in 1..r : g[p] = f[p]
    BY <2>1
  <2> HIDE DEF U, g
  <2>4. g \in Bijection(1..r, U)
    BY <1>1, <2>1, <2>2, <2>3 DEF Bijection, Injection, Surjection, IsInjective
  <2>5. IsFiniteSet(1..r) /\ Cardinality(1..r) = r
    BY FS_Interval
  <2>6. Cardinality(U) = r
    BY <2>4, <2>5, FS_Bijection DEF ExistsBijection
  <2> QED
    BY <2>6 DEF Rank, U
<1>6. \A i \in S : Ranked[S][Rank(S, i)] = i
  BY <1>4, RankedInOrder
<1> QED
  BY <1>4, <1>5, <1>6

(* A position added after the others (append_to_map) comes last.           *)
LEMMA RankedAdd ==
    ASSUME NEW S \in SUBSET Nat, IsFiniteSet(S), NEW x \in Nat, \A y \in S : y < x
    PROVE  LET T == S \cup {x}
               c == Cardinality(S)
           IN  /\ IsFiniteSet(T) /\ Cardinality(T) = c + 1
               /\ \A r \in 1..c : Ranked[T][r] = Ranked[S][r]
               /\ Ranked[T][c + 1] = x
<1> DEFINE T == S \cup {x}
           c == Cardinality(S)
           q == Ranked[S]
           f == [r \in 1..(c + 1) |-> IF r = c + 1 THEN x ELSE q[r]]
<1>1. /\ c \in Nat
      /\ \A r \in 1..c : q[r] \in S
      /\ \A i \in S : Rank(S, i) \in 1..c /\ q[Rank(S, i)] = i
      /\ \A p, r \in 1..c : p < r => q[p] < q[r]
  BY RankedInOrder
<1> HIDE DEF c, q
<1>2. \A r \in 1..(c + 1) : r \in 1..c \/ r = c + 1
  BY <1>1
<1>3. \A r \in 1..c : r \in 1..(c + 1) /\ r # c + 1
  BY <1>1
<1>4. f \in [1..(c + 1) -> T]
  BY <1>1, <1>2
<1>5. c + 1 \in Nat /\ c + 1 \in 1..(c + 1)
  BY <1>1
<1>6. f[c + 1] = x /\ \A r \in 1..c : f[r] = q[r]
  BY <1>3, <1>5
<1> HIDE DEF f
<1>7. ASSUME NEW p \in 1..(c + 1), NEW r \in 1..(c + 1), p < r
      PROVE  f[p] < f[r]
  <2>1. p \in 1..c
    BY <1>1, <1>7
  <2>2. CASE r \in 1..c
    BY <1>1, <1>6, <1>7, <2>1, <2>2
  <2>3. CASE r = c + 1
    BY <1>1, <1>6, <2>1, <2>3
  <2> QED
    BY <1>2, <2>2, <2>3
<1>8. \A i \in T : \E r \in 1..(c + 1) : f[r] = i
  <2> TAKE i \in T
  <2>1. CASE i = x
    BY <1>5, <1>6, <2>1
  <2>2. CASE i \in S
    <3>1. Rank(S, i) \in 1..c /\ q[Rank(S, i)] = i
      BY <1>1, <2>2
    <3> QED
      BY <1>3, <1>6, <3>1
  <2> QED
    BY <2>1, <2>2
<1>9. T \in SUBSET Nat
  OBVIOUS
<1> HIDE DEF T
<1>10. /\ IsFiniteSet(T) /\ Cardinality(T) = c + 1
       /\ \A r \in 1..(c + 1) : Ranked[T][r] = f[r]
  BY <1>4, <1>5, <1>7, <1>8, <1>9, RankedIs
<1>11. Ranked[T][c + 1] = x /\ \A r \in 1..c : Ranked[T][r] = q[r]
  BY <1>3, <1>5, <1>6, <1>10
<1> QED
  BY <1>10, <1>11 DEF T, c, q

(* A position whose key is removed leaves the others in their order.       *)
LEMMA RankedRemove ==
    ASSUME NEW S \in SUBSET Nat, IsFiniteSet(S), NEW x \in S
    PROVE  LET T == S \ {x}
               c == Cardinality(S)
               p == Rank(S, x)
           IN  /\ IsFiniteSet(T) /\ Cardinality(T) = c - 1 /\ c - 1 \in Nat
               /\ \A r \in 1..(c - 1) :
                     Ranked[T][r] = IF r < p THEN Ranked[S][r] ELSE Ranked[S][r + 1]
<1> DEFINE T == S \ {x}
           c == Cardinality(S)
           p == Rank(S, x)
           q == Ranked[S]
           f == [r \in 1..(c - 1) |-> IF r < p THEN q[r] ELSE q[r + 1]]
<1>1. /\ c \in Nat
      /\ \A r \in 1..c : q[r] \in S
      /\ \A i \in S : Rank(S, i) \in 1..c /\ q[Rank(S, i)] = i
      /\ \A n, r \in 1..c : n < r => q[n] < q[r]
  BY RankedInOrder
<1>2. \A i \in S : \A r \in 1..c : q[r] = i => r = Rank(S, i)
  BY RankedInOrder
<1>3. p \in 1..c /\ q[p] = x
  BY <1>1
<1>4. \A r \in 1..c : q[r] = x => r = p
  BY <1>2
<1> HIDE DEF c, p, q
<1>5. c - 1 \in Nat
  BY <1>1, <1>3
<1>6. \A r \in 1..(c - 1) : /\ r < p => f[r] = q[r] /\ r \in 1..c
                            /\ ~(r < p) => f[r] = q[r + 1] /\ r + 1 \in 1..c /\ r + 1 # p
                            /\ r # p \/ ~(r < p)
  BY <1>1, <1>3
<1>7. \A r \in 1..(c - 1) : f[r] \in T
  <2> TAKE r \in 1..(c - 1)
  <2>1. CASE r < p
    <3>1. f[r] = q[r] /\ r \in 1..c /\ r # p
      BY <1>3, <1>6, <2>1
    <3> QED
      BY <1>1, <1>4, <3>1
  <2>2. CASE ~(r < p)
    <3>1. f[r] = q[r + 1] /\ r + 1 \in 1..c /\ r + 1 # p
      BY <1>6, <2>2
    <3> QED
      BY <1>1, <1>4, <3>1
  <2> QED
    BY <2>1, <2>2
<1>8. f \in [1..(c - 1) -> T]
  BY <1>7
<1>9. ASSUME NEW n \in 1..(c - 1), NEW r \in 1..(c - 1), n < r
      PROVE  f[n] < f[r]
  <2> HIDE DEF f
  <2>1. CASE r < p
    <3>1. n < p
      BY <1>3, <1>9, <2>1
    <3>2. f[n] = q[n] /\ f[r] = q[r] /\ n \in 1..c /\ r \in 1..c
      BY <1>6, <2>1, <3>1
    <3> QED
      BY <1>1, <1>9, <3>2
  <2>2. CASE ~(r < p) /\ n < p
    <3>1. f[n] = q[n] /\ f[r] = q[r + 1] /\ n \in 1..c /\ r + 1 \in 1..c
      BY <1>6, <2>2
    <3>2. n < r + 1
      BY <1>9
    <3> QED
      BY <1>1, <3>1, <3>2
  <2>3. CASE ~(r < p) /\ ~(n < p)
    <3>1. f[n] = q[n + 1] /\ f[r] = q[r + 1] /\ n + 1 \in 1..c /\ r + 1 \in 1..c
      BY <1>6, <2>3
    <3>2. n + 1 < r + 1
      BY <1>9
    <3> QED
      BY <1>1, <3>1, <3>2
  <2> QED
    BY <2>1, <2>2, <2>3
<1>10. \A i \in T : \E r \in 1..(c - 1) : f[r] = i
  <2> TAKE i \in T
  <2> DEFINE s == Rank(S, i)
  <2>1. s \in 1..c /\ q[s] = i /\ i # x
    BY <1>1
  <2> HIDE DEF s
  <2>2. s # p
    BY <1>3, <2>1
  <2> HIDE DEF f
  <2>3. CASE s < p
    <3>1. s \in 1..(c - 1)
      BY <1>1, <1>3, <2>1, <2>3
    <3>2. f[s] = q[s]
      BY <1>6, <2>3, <3>1
    <3> QED
      BY <2>1, <3>1, <3>2
  <2>4. CASE ~(s < p)
    <3>1. s - 1 \in 1..(c - 1) /\ ~(s - 1 < p) /\ (s - 1) + 1 = s
      BY <1>1, <1>3, <2>1, <2>2, <2>4
    <3>2. f[s - 1] = q[s]
      BY <1>6, <3>1
    <3> QED
      BY <2>1, <3>1, <3>2
  <2> QED
    BY <2>3, <2>4
<1>11. T \in SUBSET Nat
  OBVIOUS
<1>12. \A r \in 1..(c - 1) : f[r] = IF r < p THEN q[r] ELSE q[r + 1]
  OBVIOUS
<1> HIDE DEF T, f
<1>13. /\ IsFiniteSet(T) /\ Cardinality(T) = c - 1
       /\ \A r \in 1..(c - 1) : Ranked[T][r] = f[r]
  BY <1>5, <1>8, <1>9, <1>10, <1>11, RankedIs
<1> QED
  BY <1>5, <1>12, <1>13 DEF T, c, p, q

(* Positions without a gap stand where they are.                           *)
LEMMA RankedFull ==
    ASSUME NEW c \in Nat
    PROVE  /\ IsFiniteSet(0..(c - 1)) /\ Cardinality(0..(c - 1)) = c
           /\ \A r \in 1..c : Ranked[0..(c - 1)][r] = r - 1
<1> DEFINE S == 0..(c - 1)
           f == [r \in 1..c |-> r - 1]
<1>1. S \in SUBSET Nat /\ f \in [1..c -> S]
  OBVIOUS
<1>2. \A p, r \in 1..c : p < r => f[p] < f[r]
  OBVIOUS
<1>3. \A i \in S : \E r \in 1..c : f[r] = i
  <2> TAKE i \in S
  <2>1. i + 1 \in 1..c /\ f[i + 1] = i
    OBVIOUS
  <2> QED
    BY <2>1
<1>4. \A r \in 1..c : f[r] = r - 1
  OBVIOUS
<1> HIDE DEF S, f
<1>5. /\ IsFiniteSet(S) /\ Cardinality(S) = c
      /\ \A r \in 1..c : Ranked[S][r] = f[r]
  BY <1>1, <1>2, <1>3, RankedIs
<1> QED
  BY <1>4, <1>5 DEF S

------------------------------------------------------------------------------
(* Tables: what holds of the buckets and the map whatever the markers are. *)
TakenIn(t) == {i \in Buckets(t.size) : Taken(t, i)}
Counted(t) == {m \in Leading(t) : m < t.count}

\* The first count entries of the map are the buckets that are not empty.
MapOK(t) ==
    /\ \A m \in 0..(t.count - 1) : t.map[m] \in Buckets(t.size) /\ t.keys[t.map[m]] # NULL
    /\ \A m, n \in 0..(t.count - 1) : t.map[m] = t.map[n] => m = n
    /\ \A i \in Buckets(t.size) : t.keys[i] # NULL => \E m \in 0..(t.count - 1) : t.map[m] = i

\* Each key is in one bucket, which a search for it reaches, with a value.
KeysOK(t) ==
    \A i \in Buckets(t.size) : Taken(t, i) =>
        /\ \A j \in Buckets(t.size) : t.keys[j] = t.keys[i] => j = i
        /\ Reached(t.keys, t.size, hash[t.keys[i]], i)
        /\ t.vals[i] \in Vals

BucketsOK(t) == /\ SizeOK(t.size)
                /\ t \in Tables(t.size)
                /\ t.count <= t.size
                /\ MapOK(t)
                /\ KeysOK(t)

Table(t) == BucketsOK(t) /\ t.used = Cardinality(TakenIn(t))

\* Nothing is left in the map after its first count entries.
Orderly(t) == \A m \in Leading(t) : m < t.count

LEMMA TableType ==
    ASSUME NEW t, BucketsOK(t)
    PROVE  /\ t.size \in Nat /\ t.size > 0
           /\ t.used \in Nat /\ t.count \in Nat /\ t.grow \in Nat /\ t.shrink \in Nat
           /\ t.keys \in [Buckets(t.size) -> Keys \cup {NULL, DEAD}]
           /\ t.vals \in [Buckets(t.size) -> Vals \cup {NoVal}]
           /\ t.map \in [Buckets(t.size) -> {-1} \cup Buckets(t.size)]
           /\ \A i \in Buckets(t.size) : Taken(t, i) <=> t.keys[i] \notin {NULL, DEAD}
           /\ \A i : Taken(t, i) => i \in Buckets(t.size) /\ t.keys[i] \in Keys
           /\ 0..(t.count - 1) \subseteq Buckets(t.size)
<1>1. t.size \in Nat /\ t.size > 0
  BY SizeType DEF BucketsOK
<1>2. /\ t.used \in Nat /\ t.count \in Nat /\ t.grow \in Nat /\ t.shrink \in Nat
      /\ t.keys \in [Buckets(t.size) -> Keys \cup {NULL, DEAD}]
      /\ t.vals \in [Buckets(t.size) -> Vals \cup {NoVal}]
      /\ t.map \in [Buckets(t.size) -> {-1} \cup Buckets(t.size)]
  BY DEF BucketsOK, Tables
<1>3. \A i : Taken(t, i) <=> i \in Buckets(t.size) /\ t.keys[i] \notin {NULL, DEAD}
  BY <1>2 DEF Taken
<1>4. t.count <= t.size
  BY DEF BucketsOK
<1>5. 0..(t.count - 1) \subseteq Buckets(t.size)
  BY <1>1, <1>2, <1>4 DEF Buckets
<1>6. \A i : Taken(t, i) => i \in Buckets(t.size) /\ t.keys[i] \in Keys
  BY <1>2, <1>3
<1> QED
  BY <1>1, <1>2, <1>3, <1>5, <1>6

(* What follows a bijection has the same size.                             *)
LEMMA SameSize ==
    ASSUME NEW S, NEW T, NEW f \in [S -> T], IsFiniteSet(S),
           \A x, y \in S : f[x] = f[y] => x = y,
           \A z \in T : \E x \in S : f[x] = z
    PROVE  IsFiniteSet(T) /\ Cardinality(T) = Cardinality(S)
<1>1. f \in Bijection(S, T)
  BY DEF Bijection, Injection, Surjection, IsInjective
<1> QED
  BY <1>1, FS_Bijection DEF ExistsBijection

(* d_count counts the buckets that are not empty.                          *)
LEMMA CountIsOccupied ==
    ASSUME NEW t, BucketsOK(t)
    PROVE  t.count = Cardinality({i \in Buckets(t.size) : t.keys[i] # NULL})
<1> DEFINE S == 0..(t.count - 1)
           T == {i \in Buckets(t.size) : t.keys[i] # NULL}
           f == [m \in S |-> t.map[m]]
<1>1. t.count \in Nat
  BY TableType
<1>2. IsFiniteSet(S) /\ Cardinality(S) = t.count
  BY <1>1, RankedFull
<1>3. /\ \A m \in S : t.map[m] \in T
      /\ \A m, n \in S : t.map[m] = t.map[n] => m = n
      /\ \A i \in T : \E m \in S : t.map[m] = i
  BY DEF BucketsOK, MapOK
<1>4. f \in [S -> T] /\ \A m \in S : f[m] = t.map[m]
  BY <1>3
<1> HIDE DEF S, T, f
<1>5. Cardinality(T) = Cardinality(S)
  BY <1>2, <1>3, <1>4, SameSize
<1> QED
  BY <1>2, <1>5 DEF T

(* d_used counts the entries of the map that lead to a key.                *)
LEMMA UsedIsCounted ==
    ASSUME NEW t, Table(t)
    PROVE  /\ Counted(t) \in SUBSET Nat /\ IsFiniteSet(Counted(t))
           /\ Counted(t) \in SUBSET (0..(t.count - 1))
           /\ Cardinality(Counted(t)) = t.used
           /\ t.used <= t.count
           /\ \A m \in Counted(t) : t.map[m] \in TakenIn(t)
           /\ \A m, n \in Counted(t) : t.map[m] = t.map[n] => m = n
           /\ \A i \in TakenIn(t) : \E m \in Counted(t) : t.map[m] = i
<1> DEFINE S == Counted(t)
           T == TakenIn(t)
           f == [m \in S |-> t.map[m]]
<1>1. /\ t.count \in Nat /\ DOMAIN t.map = Buckets(t.size) /\ t.size \in Nat
      /\ 0..(t.count - 1) \subseteq Buckets(t.size)
      /\ \A i : Taken(t, i) => i \in Buckets(t.size)
  BY TableType DEF Table
<1>2. S \in SUBSET (0..(t.count - 1)) /\ S \in SUBSET Nat
  BY <1>1 DEF Counted, Leading, Buckets
<1>3. \A m \in S : t.map[m] \in T
  BY <1>1 DEF Counted, Leading, TakenIn
<1>4. IsFiniteSet(0..(t.count - 1)) /\ Cardinality(0..(t.count - 1)) = t.count
  BY <1>1, RankedFull
<1>5. IsFiniteSet(S) /\ Cardinality(S) <= t.count
  BY <1>2, <1>4, FS_Subset
<1>6. \A m, n \in 0..(t.count - 1) : t.map[m] = t.map[n] => m = n
  BY DEF Table, BucketsOK, MapOK
<1>7. \A m, n \in S : t.map[m] = t.map[n] => m = n
  BY <1>2, <1>6
<1>8. \A i \in T : \E m \in S : t.map[m] = i
  <2> TAKE i \in T
  <2>1. i \in Buckets(t.size) /\ t.keys[i] # NULL /\ Taken(t, i)
    BY DEF TakenIn, Taken
  <2>2. PICK m \in 0..(t.count - 1) : t.map[m] = i
    BY <2>1 DEF Table, BucketsOK, MapOK
  <2>3. m < t.count /\ m \in DOMAIN t.map
    BY <1>1
  <2> QED
    BY <2>1, <2>2, <2>3 DEF Counted, Leading
<1>9. f \in [S -> T] /\ \A m \in S : f[m] = t.map[m]
  BY <1>3
<1>10. t.used = Cardinality(T)
  BY DEF Table
<1> HIDE DEF S, T, f
<1>11. Cardinality(T) = Cardinality(S)
  BY <1>5, <1>7, <1>8, <1>9, SameSize
<1> QED
  BY <1>2, <1>3, <1>5, <1>7, <1>8, <1>10, <1>11 DEF S, T

(* The keys in their order.                                                *)
LEMMA OrderIs ==
    ASSUME NEW t, Table(t)
    PROVE  LET o == KeysUpTo(t, t.count)
               q == Ranked[Counted(t)]
           IN  /\ o = [r \in 1..t.used |-> t.keys[t.map[q[r]]]]
               /\ \A r \in 1..t.used : q[r] \in Counted(t) /\ o[r] \in Keys
<1> DEFINE S == Counted(t)
           q == Ranked[S]
           o == KeysUpTo(t, t.count)
<1>1. S \in SUBSET Nat /\ IsFiniteSet(S) /\ Cardinality(S) = t.used
  BY UsedIsCounted
<1>2. o = [r \in DOMAIN q |-> t.keys[t.map[q[r]]]]
  BY DEF KeysUpTo, Counted
<1> HIDE DEF S
<1>3. DOMAIN q = 1..t.used /\ \A r \in 1..t.used : q[r] \in S
  BY <1>1, RankedInOrder
<1>4. \A m \in S : t.keys[t.map[m]] \in Keys
  <2>1. \A i : Taken(t, i) => t.keys[i] \in Keys
    BY TableType DEF Table
  <2> QED
    BY <2>1 DEF S, Counted, Leading
<1> HIDE DEF q, o
<1>5. o = [r \in 1..t.used |-> t.keys[t.map[q[r]]]]
  BY <1>2, <1>3
<1>6. \A r \in 1..t.used : q[r] \in S /\ o[r] \in Keys
  BY <1>3, <1>4, <1>5
<1> QED
  BY <1>5, <1>6 DEF o, q, S

(* The value of a key is the one beside it.                                *)
LEMMA ValueIs ==
    ASSUME NEW t, Table(t)
    PROVE  /\ \A i \in TakenIn(t) : ValueOf(t, t.keys[i]) = t.vals[i] /\ t.vals[i] \in Vals
           /\ \A k \in Keys : k \notin KeysOf(t) => ValueOf(t, k) = NoVal
<1>1. ASSUME NEW i \in TakenIn(t)
      PROVE  ValueOf(t, t.keys[i]) = t.vals[i] /\ t.vals[i] \in Vals
  <2>1. i \in Buckets(t.size) /\ Taken(t, i)
    BY DEF TakenIn
  <2>2. /\ \A j \in Buckets(t.size) : t.keys[j] = t.keys[i] => j = i
        /\ t.vals[i] \in Vals
    BY <2>1 DEF Table, BucketsOK, KeysOK
  <2>3. {j \in Buckets(t.size) : t.keys[j] = t.keys[i]} = {i}
    BY <2>1, <2>2
  <2> QED
    BY <2>2, <2>3 DEF ValueOf
<1>2. ASSUME NEW k \in Keys, k \notin KeysOf(t)
      PROVE  ValueOf(t, k) = NoVal
  <2>1. \A i \in Buckets(t.size) : t.keys[i] = k => Taken(t, i)
    BY TableType, DictAssumption DEF Table
  <2>2. {j \in Buckets(t.size) : t.keys[j] = k} = {}
    BY <1>2, <2>1 DEF KeysOf
  <2> QED
    BY <2>2 DEF ValueOf
<1> QED
  BY <1>1, <1>2

(* While not every bucket is counted, one is empty.                        *)
LEMMA EmptyBucket ==
    ASSUME NEW t, BucketsOK(t), t.count < t.size
    PROVE  \E b \in Buckets(t.size) : t.keys[b] = NULL
<1> SUFFICES ASSUME \A b \in Buckets(t.size) : t.keys[b] # NULL PROVE FALSE
  OBVIOUS
<1>1. t.size \in Nat /\ t.count \in Nat
  BY TableType
<1>2. {i \in Buckets(t.size) : t.keys[i] # NULL} = 0..(t.size - 1)
  BY DEF Buckets
<1>3. Cardinality(0..(t.size - 1)) = t.size
  BY <1>1, RankedFull
<1> QED
  BY <1>1, <1>2, <1>3, CountIsOccupied

(* seek_helper(): a bucket that has the key, or else an empty one that the *)
(* key may be put into.                                                    *)
LEMMA SeekTable ==
    ASSUME NEW t, BucketsOK(t), t.count < t.size, NEW k \in Keys
    PROVE  LET i == seek_helper(t, k)
           IN  /\ i \in Buckets(t.size)
               /\ t.keys[i] = NULL \/ t.keys[i] = k
               /\ t.keys[i] = k => i \in TakenIn(t) /\ k \in KeysOf(t)
               /\ t.keys[i] = NULL => k \notin KeysOf(t)
               /\ Reached(t.keys, t.size, hash[k], i)
<1> DEFINE i == seek_helper(t, k)
<1>1. SizeOK(t.size) /\ hash[k] \in Nat /\ k # NULL /\ k # DEAD
  BY DictAssumption DEF BucketsOK
<1>2. i = FirstBucket(t, k, {NULL, k})
  BY DEF seek_helper
<1>3. /\ i \in Buckets(t.size) /\ t.keys[i] \in {NULL, k}
      /\ Reached(t.keys, t.size, hash[k], i)
  BY <1>1, <1>2, EmptyBucket, FoundReached
<1>4. ASSUME t.keys[i] = NULL, k \in KeysOf(t)
      PROVE  FALSE
  <2>1. PICK j \in Buckets(t.size) : Taken(t, j) /\ t.keys[j] = k
    BY <1>4 DEF KeysOf
  <2>2. /\ \A n \in Buckets(t.size) : t.keys[n] = k => n = j
        /\ Reached(t.keys, t.size, hash[k], j)
    BY <2>1 DEF BucketsOK, KeysOK
  <2>3. i = j
    BY <1>1, <2>1, <2>2, SeekFinds
  <2> QED
    BY <1>1, <1>4, <2>1, <2>3
<1> HIDE DEF i
<1>5. t.keys[i] = k => i \in TakenIn(t) /\ k \in KeysOf(t)
  <2>1. t.keys[i] = k => Taken(t, i)
    BY <1>1, <1>3, TableType
  <2> QED
    BY <1>3, <2>1 DEF TakenIn, KeysOf
<1> QED
  BY <1>3, <1>4, <1>5 DEF i

(* A key put into an empty bucket (insert_common, the loop of              *)
(* transfer_table), at the end of the map.                                 *)
Adds(t, u, k, v, j) == /\ u.size = t.size /\ u.count = t.count + 1
                       /\ u.keys = [t.keys EXCEPT ![j] = k]
                       /\ u.vals = [t.vals EXCEPT ![j] = v]
                       /\ u.map = [t.map EXCEPT ![t.count] = j]

LEMMA AddKeeps ==
    ASSUME NEW t, BucketsOK(t), t.count < t.size,
           NEW u \in Tables(t.size), NEW k \in Keys, NEW v \in Vals, NEW j \in Buckets(t.size),
           Adds(t, u, k, v, j), t.keys[j] = NULL, k \notin KeysOf(t),
           Reached(t.keys, t.size, hash[k], j)
    PROVE  /\ BucketsOK(u)
           /\ TakenIn(u) = TakenIn(t) \cup {j} /\ j \notin TakenIn(t)
           /\ KeysOf(u) = KeysOf(t) \cup {k}
           /\ Counted(u) = Counted(t) \cup {t.count}
           /\ t.count \in Buckets(t.size)
           /\ \A m \in Counted(t) : m # t.count /\ t.map[m] # j
<1>1. /\ t.size \in Nat /\ t.count \in Nat
      /\ t.keys \in [Buckets(t.size) -> Keys \cup {NULL, DEAD}]
      /\ t.vals \in [Buckets(t.size) -> Vals \cup {NoVal}]
      /\ t.map \in [Buckets(t.size) -> {-1} \cup Buckets(t.size)]
      /\ \A i \in Buckets(t.size) : Taken(t, i) <=> t.keys[i] \notin {NULL, DEAD}
      /\ \A i : Taken(t, i) => i \in Buckets(t.size) /\ t.keys[i] \in Keys
  BY TableType
<1>2. k # NULL /\ k # DEAD /\ hash[k] \in Nat
  BY DictAssumption
<1>3. /\ u.keys[j] = k /\ u.vals[j] = v
      /\ \A i \in Buckets(t.size) : i # j => u.keys[i] = t.keys[i] /\ u.vals[i] = t.vals[i]
      /\ DOMAIN u.keys = Buckets(t.size) /\ DOMAIN u.map = Buckets(t.size)
  BY <1>1 DEF Adds
<1>4. /\ t.count \in Buckets(t.size) /\ u.map[t.count] = j
      /\ \A m \in Buckets(t.size) : m # t.count => u.map[m] = t.map[m]
  BY <1>1 DEF Adds, Buckets
<1>5. u.size = t.size /\ u.count = t.count + 1
  BY DEF Adds
<1>6. \A i \in Buckets(t.size) : Taken(u, i) <=> i = j \/ Taken(t, i)
  BY <1>1, <1>2, <1>3 DEF Taken
<1>7. ~Taken(t, j)
  BY DEF Taken
<1>8. TakenIn(u) = TakenIn(t) \cup {j} /\ j \notin TakenIn(t)
  BY <1>5, <1>6, <1>7 DEF TakenIn
<1>9. KeysOf(u) = KeysOf(t) \cup {k}
  <2>1. KeysOf(u) = {u.keys[i] : i \in TakenIn(u)} /\ KeysOf(t) = {t.keys[i] : i \in TakenIn(t)}
    BY DEF KeysOf, TakenIn
  <2>2. \A i \in TakenIn(t) : i # j /\ u.keys[i] = t.keys[i]
    BY <1>3, <1>8 DEF TakenIn
  <2> QED
    BY <1>3, <1>8, <2>1, <2>2
<1>10. \A m \in 0..(t.count - 1) : /\ m \in Buckets(t.size) /\ m # t.count /\ u.map[m] = t.map[m]
                                   /\ t.map[m] \in Buckets(t.size) /\ t.keys[t.map[m]] # NULL
                                   /\ t.map[m] # j
  <2> TAKE m \in 0..(t.count - 1)
  <2>1. m \in Buckets(t.size) /\ m # t.count
    BY <1>1 DEF Buckets
  <2>2. t.map[m] \in Buckets(t.size) /\ t.keys[t.map[m]] # NULL
    BY DEF BucketsOK, MapOK
  <2> QED
    BY <1>4, <2>1, <2>2
<1>11. 0..(u.count - 1) = 0..(t.count - 1) \cup {t.count}
  BY <1>1, <1>5
<1>12. MapOK(u)
  <2>1. \A m \in 0..(u.count - 1) : u.map[m] \in Buckets(u.size) /\ u.keys[u.map[m]] # NULL
    BY <1>2, <1>3, <1>4, <1>5, <1>10, <1>11
  <2>2. \A m, n \in 0..(u.count - 1) : u.map[m] = u.map[n] => m = n
    <3>1. \A m, n \in 0..(t.count - 1) : t.map[m] = t.map[n] => m = n
      BY DEF BucketsOK, MapOK
    <3> QED
      BY <1>4, <1>10, <1>11, <3>1
  <2>3. \A i \in Buckets(u.size) : u.keys[i] # NULL => \E m \in 0..(u.count - 1) : u.map[m] = i
    <3> SUFFICES ASSUME NEW i \in Buckets(t.size), u.keys[i] # NULL
                 PROVE  \E m \in 0..(u.count - 1) : u.map[m] = i
      BY <1>5
    <3>1. CASE i = j
      BY <1>4, <1>11, <3>1
    <3>2. CASE i # j
      <4>1. PICK m \in 0..(t.count - 1) : t.map[m] = i
        BY <1>3, <3>2 DEF BucketsOK, MapOK
      <4> QED
        BY <1>10, <1>11, <4>1
    <3> QED
      BY <3>1, <3>2
  <2> QED
    BY <2>1, <2>2, <2>3 DEF MapOK
<1>13. KeysOK(u)
  <2> SUFFICES ASSUME NEW i \in Buckets(t.size), Taken(u, i)
               PROVE  /\ \A n \in Buckets(t.size) : u.keys[n] = u.keys[i] => n = i
                      /\ Reached(u.keys, t.size, hash[u.keys[i]], i)
                      /\ u.vals[i] \in Vals
    BY <1>5 DEF KeysOK
  <2>1. SizeOK(t.size)
    BY DEF BucketsOK
  <2>2. \A n \in Buckets(t.size) : u.keys[n] = NULL => t.keys[n] = NULL
    BY <1>2, <1>3
  <2>3. \A n \in Buckets(t.size) : t.keys[n] # k
    BY <1>1, <1>2 DEF KeysOf
  <2>4. CASE i = j
    <3>1. Reached(u.keys, t.size, hash[k], j)
      BY <1>2, <2>1, <2>2, StillReached
    <3> QED
      BY <1>3, <2>3, <2>4, <3>1
  <2>5. CASE i # j
    <3>1. Taken(t, i) /\ u.keys[i] = t.keys[i] /\ u.vals[i] = t.vals[i]
      BY <1>3, <1>6, <2>5
    <3>2. /\ \A n \in Buckets(t.size) : t.keys[n] = t.keys[i] => n = i
          /\ Reached(t.keys, t.size, hash[t.keys[i]], i)
          /\ t.vals[i] \in Vals
      BY <3>1 DEF BucketsOK, KeysOK
    <3>3. hash[t.keys[i]] \in Nat
      BY <1>1, <3>1, DictAssumption
    <3>4. Reached(u.keys, t.size, hash[t.keys[i]], i)
      BY <2>1, <2>2, <3>2, <3>3, StillReached
    <3>5. \A n \in Buckets(t.size) : u.keys[n] = t.keys[i] => n = i
      BY <1>3, <2>3, <3>2
    <3> QED
      BY <3>1, <3>2, <3>4, <3>5
  <2> QED
    BY <2>4, <2>5
<1>14. BucketsOK(u)
  BY <1>1, <1>5, <1>12, <1>13 DEF BucketsOK
<1>15. Counted(t) \subseteq 0..(t.count - 1)
  BY <1>1 DEF Counted, Leading, Buckets
<1>16. Counted(u) = Counted(t) \cup {t.count}
  <2>1. \A m \in Buckets(t.size) : m \in Counted(u) <=> m <= t.count /\ Taken(u, u.map[m])
    BY <1>1, <1>3, <1>5 DEF Counted, Leading, Buckets
  <2>2. \A m \in Buckets(t.size) : m \in Counted(t) <=> m < t.count /\ Taken(t, t.map[m])
    BY <1>1 DEF Counted, Leading
  <2>3. Counted(u) \subseteq Buckets(t.size) /\ Counted(t) \subseteq Buckets(t.size)
    BY <1>1, <1>3 DEF Counted, Leading
  <2>4. Taken(u, u.map[t.count])
    BY <1>4, <1>6
  <2>5. \A m \in 0..(t.count - 1) : Taken(u, u.map[m]) <=> Taken(t, t.map[m])
    BY <1>6, <1>10
  <2>6. \A m \in Buckets(t.size) : m <= t.count <=> m \in 0..(t.count - 1) \/ m = t.count
    BY <1>1 DEF Buckets
  <2>7. \A m \in Buckets(t.size) : m < t.count <=> m \in 0..(t.count - 1)
    BY <1>1 DEF Buckets
  <2>8. \A m \in Buckets(t.size) : m \in Counted(u) <=> m \in Counted(t) \/ m = t.count
    BY <1>4, <2>1, <2>2, <2>4, <2>5, <2>6, <2>7
  <2> QED
    BY <1>4, <2>3, <2>8
<1> QED
  BY <1>4, <1>8, <1>9, <1>10, <1>14, <1>15, <1>16

------------------------------------------------------------------------------
(* transfer_table(): the keys of t, in their order, in new buckets.        *)

\* y is the new table when n positions of t's map have been dealt with.
Moved(t, r, n, y) ==
    /\ BucketsOK(y)
    /\ y.size = r.size /\ y.grow = r.grow /\ y.shrink = r.shrink
    /\ y.count = Rank(Leading(t), n - 1)
    /\ \A i \in Buckets(y.size) : y.keys[i] # DEAD
    /\ \A p \in 1..y.count : LET i == t.map[Ranked[Leading(t)][p]]
                             IN  /\ y.keys[y.map[p - 1]] = t.keys[i]
                                 /\ y.vals[y.map[p - 1]] = t.vals[i]
    /\ \A m \in Buckets(y.size) : m >= y.count => y.map[m] = -1

\* What transfer_table() is given besides t: t with other markers and size.
Resized(t, r) ==
    /\ r \in [size : Nat, used : Nat, count : Nat, grow : Nat, shrink : Nat,
              keys : {t.keys}, vals : {t.vals}, map : {t.map}]
    /\ SizeOK(r.size)

LEMMA MovedStart ==
    ASSUME NEW t, Table(t), NEW r, Resized(t, r)
    PROVE  LET x == [bucket_alloc(r) EXCEPT !.count = 0]
           IN  x \in Tables(r.size) /\ Moved(t, r, 0, x)
<1> DEFINE B == Buckets(r.size)
           x == [bucket_alloc(r) EXCEPT !.count = 0]
<1>1. r.size \in Nat /\ r.used \in Nat /\ r.grow \in Nat /\ r.shrink \in Nat
  BY DEF Resized
<1>2. /\ x.size = r.size /\ x.used = r.used /\ x.count = 0 /\ x.grow = r.grow /\ x.shrink = r.shrink
      /\ x.keys = [i \in B |-> NULL] /\ x.vals = [i \in B |-> NoVal] /\ x.map = [i \in B |-> -1]
  BY DEF bucket_alloc, Resized
<1>3. x \in Tables(r.size)
  BY <1>1 DEF bucket_alloc, Resized, Tables
<1> HIDE DEF x
<1>4. \A i \in B : x.keys[i] = NULL /\ ~Taken(x, i) /\ x.map[i] = -1
  BY <1>2 DEF Taken
<1>5. MapOK(x) /\ KeysOK(x)
  BY <1>2, <1>4 DEF MapOK, KeysOK
<1>6. BucketsOK(x)
  <2>1. SizeOK(x.size) /\ x.count <= x.size
    BY <1>1, <1>2 DEF Resized
  <2> QED
    BY <1>2, <1>3, <1>5, <2>1 DEF BucketsOK
<1>7. Rank(Leading(t), 0 - 1) = 0
  <2>1. Leading(t) \subseteq Nat
    BY TableType DEF Table, Leading, Buckets
  <2>2. {m \in Leading(t) : m <= 0 - 1} = {}
    BY <2>1
  <2> QED
    BY <2>2, FS_EmptySet DEF Rank
<1>8. Moved(t, r, 0, x)
  BY <1>2, <1>4, <1>6, <1>7, DictAssumption DEF Moved
<1> QED
  BY <1>3, <1>8 DEF x

(* One key more (an iteration of the loop).                                *)
LEMMA MovedOne ==
    ASSUME NEW t, Table(t), Orderly(t), NEW r, Resized(t, r), t.used < r.size,
           NEW n \in Leading(t), NEW y \in Tables(r.size), Moved(t, r, n, y)
    PROVE  LET z == put(y, t, t.map[n])
           IN  z \in Tables(r.size) /\ Moved(t, r, n + 1, z)
<1> DEFINE L == Leading(t)
           q == Ranked[L]
           i == t.map[n]
           k == t.keys[i]
           v == t.vals[i]
           j == FirstBucket(y, k, {NULL})
           c == y.count
           z == put(y, t, i)
<1>1. L = Counted(t)
  BY DEF Orderly, Counted
<1>2. /\ L \in SUBSET Nat /\ IsFiniteSet(L) /\ Cardinality(L) = t.used
      /\ \A m, p \in L : t.map[m] = t.map[p] => m = p
      /\ \A m \in L : t.map[m] \in TakenIn(t)
  BY <1>1, UsedIsCounted
<1>3. /\ n \in Nat /\ i \in Buckets(t.size) /\ Taken(t, i)
      /\ k \in Keys /\ v \in Vals
  <2>1. i \in Buckets(t.size) /\ Taken(t, i)
    BY <1>2 DEF TakenIn
  <2>2. k \in Keys
    BY <2>1, TableType DEF Table
  <2>3. v \in Vals
    BY <2>1 DEF Table, BucketsOK, KeysOK
  <2> QED
    BY <1>2, <2>1, <2>2, <2>3
<1>4. /\ c = Rank(L, n - 1) /\ Rank(L, n) = c + 1 /\ c \in Nat
      /\ c + 1 <= t.used /\ t.used \in Nat
      /\ q[c + 1] = n
  <2>1. n \in Int /\ n - 1 \in Int
    BY <1>3
  <2>2. Rank(L, n) = Rank(L, n - 1) + 1 /\ Rank(L, n - 1) \in Nat
    BY <1>2, <2>1, RankStep, RankType
  <2>3. Rank(L, n) <= Cardinality(L) /\ Cardinality(L) \in Nat
    BY <1>2, <2>1, RankType
  <2>4. q[Rank(L, n)] = n
    BY <1>2, RankedInOrder
  <2>5. c = Rank(L, n - 1)
    BY DEF Moved
  <2> QED
    BY <1>2, <2>2, <2>3, <2>4, <2>5
<1>5. /\ BucketsOK(y) /\ y.size = r.size /\ y.grow = r.grow /\ y.shrink = r.shrink
      /\ \A b \in Buckets(r.size) : y.keys[b] # DEAD
      /\ \A m \in Buckets(r.size) : m >= c => y.map[m] = -1
  BY DEF Moved
<1>6. r.size \in Nat
  BY DEF Resized
<1>7. c < y.size
  BY <1>4, <1>5, <1>6
<1>8. /\ j \in Buckets(r.size) /\ y.keys[j] = NULL
      /\ Reached(y.keys, y.size, hash[k], j)
  <2>1. \E b \in Buckets(y.size) : y.keys[b] \in {NULL}
    BY <1>5, <1>7, EmptyBucket
  <2>2. SizeOK(y.size) /\ hash[k] \in Nat
    BY <1>3, <1>5, DictAssumption DEF BucketsOK
  <2> HIDE DEF k
  <2>3. j \in Buckets(y.size) /\ y.keys[j] \in {NULL} /\ Reached(y.keys, y.size, hash[k], j)
    BY <2>1, <2>2, FoundReached
  <2> QED
    BY <1>5, <2>3
<1>9. ASSUME k \in KeysOf(y)
      PROVE  FALSE
  <2>1. PICK b \in Buckets(r.size) : Taken(y, b) /\ y.keys[b] = k
    BY <1>5, <1>9 DEF KeysOf
  <2>2. y.keys[b] # NULL
    BY <2>1 DEF Taken
  <2>3. PICK m \in 0..(c - 1) : y.map[m] = b
    BY <1>5, <2>1, <2>2 DEF BucketsOK, MapOK
  <2>4. m + 1 \in 1..c /\ (m + 1) - 1 = m
    BY <1>4
  <2>5. y.keys[y.map[m]] = t.keys[t.map[q[m + 1]]]
    BY <2>4 DEF Moved
  <2>6. m + 1 \in 1..Cardinality(L) /\ m + 1 # c + 1
    BY <1>2, <1>4, <2>4
  <2>7. q[m + 1] \in L /\ Rank(L, q[m + 1]) = m + 1
    BY <1>2, <2>6, RankedInOrder
  <2>8. t.map[q[m + 1]] \in Buckets(t.size)
    BY <1>2, <2>7 DEF TakenIn
  <2>9. t.map[q[m + 1]] = i
    BY <1>3, <2>1, <2>3, <2>5, <2>8 DEF Table, BucketsOK, KeysOK
  <2>10. q[m + 1] = n
    BY <1>2, <2>7, <2>9
  <2> QED
    BY <1>4, <2>6, <2>7, <2>10
<1>10. z = [y EXCEPT !.keys[j] = k, !.vals[j] = v, !.map[c] = j, !.count = @ + 1]
  BY DEF put
<1>11. /\ z.size = r.size /\ z.grow = r.grow /\ z.shrink = r.shrink /\ z.count = c + 1
       /\ z.keys = [y.keys EXCEPT ![j] = k] /\ z.vals = [y.vals EXCEPT ![j] = v]
       /\ z.map = [y.map EXCEPT ![c] = j]
  <2> HIDE DEF z, j, k, v, i
  <2> QED
    BY <1>5, <1>10 DEF Tables
<1>12. /\ y.keys \in [Buckets(r.size) -> Keys \cup {NULL, DEAD}]
       /\ y.vals \in [Buckets(r.size) -> Vals \cup {NoVal}]
       /\ y.map \in [Buckets(r.size) -> {-1} \cup Buckets(r.size)]
  BY DEF Tables
<1> HIDE DEF z, j, k, v, i, q, L
<1>13. z \in Tables(r.size)
  <2>1. /\ z.keys \in [Buckets(r.size) -> Keys \cup {NULL, DEAD}]
        /\ z.vals \in [Buckets(r.size) -> Vals \cup {NoVal}]
        /\ z.map \in [Buckets(r.size) -> {-1} \cup Buckets(r.size)]
    <3>1. z.keys \in [Buckets(r.size) -> Keys \cup {NULL, DEAD}]
      BY <1>3, <1>11, <1>12, ZenonT(60)
    <3>2. z.vals \in [Buckets(r.size) -> Vals \cup {NoVal}]
      BY <1>3, <1>11, <1>12, ZenonT(60)
    <3>3. j \in {-1} \cup Buckets(r.size)
      BY <1>8
    <3>4. z.map \in [Buckets(r.size) -> {-1} \cup Buckets(r.size)]
      BY <1>11, <1>12, <3>3, ZenonT(60)
    <3> QED
      BY <3>1, <3>2, <3>4
  <2>2. c + 1 \in Nat
    BY <1>4
  <2> QED
    BY <1>10, <1>11, <2>1, <2>2 DEF Tables
<1>14. Adds(y, z, k, v, j)
  BY <1>5, <1>11 DEF Adds
<1>15. /\ BucketsOK(z)
       /\ c \in Buckets(r.size)
  <2>1. BucketsOK(z) /\ y.count \in Buckets(y.size)
    BY <1>3, <1>5, <1>7, <1>8, <1>9, <1>13, <1>14, AddKeeps
  <2> QED
    BY <1>5, <2>1
<1>16. \A b \in Buckets(r.size) : z.keys[b] # DEAD
  BY <1>3, <1>5, <1>8, <1>11, <1>12, DictAssumption
<1>17. \A p \in 1..(c + 1) : /\ z.keys[z.map[p - 1]] = t.keys[t.map[q[p]]]
                             /\ z.vals[z.map[p - 1]] = t.vals[t.map[q[p]]]
  <2> TAKE p \in 1..(c + 1)
  <2>1. CASE p = c + 1
    <3>1. z.map[p - 1] = j
      BY <1>4, <1>11, <1>12, <1>15, <2>1
    <3>2. t.map[q[p]] = i
      BY <1>4, <2>1 DEF i
    <3>3. z.keys[j] = k /\ z.vals[j] = v
      BY <1>8, <1>11, <1>12
    <3> QED
      BY <3>1, <3>2, <3>3 DEF k, v
  <2>2. CASE p # c + 1
    <3>1. p \in 1..c /\ p - 1 \in 0..(c - 1) /\ p - 1 # c
      BY <1>4, <2>2
    <3>2. /\ y.keys[y.map[p - 1]] = t.keys[t.map[q[p]]]
          /\ y.vals[y.map[p - 1]] = t.vals[t.map[q[p]]]
      BY <3>1 DEF Moved, q, L
    <3>3. y.map[p - 1] \in Buckets(r.size) /\ y.keys[y.map[p - 1]] # NULL
      BY <1>5, <3>1 DEF BucketsOK, MapOK
    <3>4. p - 1 \in Buckets(r.size)
      BY <1>4, <1>5, <1>6, <1>7, <3>1 DEF Buckets
    <3>5. z.map[p - 1] = y.map[p - 1] /\ y.map[p - 1] # j
      BY <1>8, <1>11, <1>12, <3>1, <3>3, <3>4
    <3>6. /\ z.keys[y.map[p - 1]] = y.keys[y.map[p - 1]]
          /\ z.vals[y.map[p - 1]] = y.vals[y.map[p - 1]]
      BY <1>11, <1>12, <3>3, <3>5
    <3> QED
      BY <3>2, <3>5, <3>6
  <2> QED
    BY <2>1, <2>2
<1>18. \A m \in Buckets(r.size) : m >= c + 1 => z.map[m] = -1
  BY <1>4, <1>5, <1>11, <1>12 DEF Buckets
<1>19. Rank(L, (n + 1) - 1) = c + 1
  <2>1. (n + 1) - 1 = n
    BY <1>3
  <2> QED
    BY <1>4, <2>1
<1>20. Moved(t, r, n + 1, z)
  BY <1>11, <1>15, <1>16, <1>17, <1>18, <1>19 DEF Moved, q, L
<1> QED
  BY <1>13, <1>20 DEF z, i

(* A position that leads to no key.                                        *)
LEMMA MovedNone ==
    ASSUME NEW t, Table(t), Orderly(t), NEW r, NEW n \in Nat, n \notin Leading(t),
           NEW y, Moved(t, r, n, y)
    PROVE  Moved(t, r, n + 1, y)
<1> DEFINE L == Leading(t)
<1>1. L \in SUBSET Nat /\ IsFiniteSet(L)
  <2>1. L = Counted(t)
    BY DEF Orderly, Counted
  <2> QED
    BY <2>1, UsedIsCounted
<1>2. n \in Int /\ (n + 1) - 1 = n
  OBVIOUS
<1> HIDE DEF L
<1>3. Rank(L, n) = Rank(L, n - 1)
  BY <1>1, <1>2, RankStep DEF L
<1>4. Rank(L, (n + 1) - 1) = Rank(L, n - 1)
  BY <1>2, <1>3
<1> QED
  BY <1>4 DEF Moved, L

(* The loop as a whole.                                                    *)
LEMMA MovedAll ==
    ASSUME NEW t, Table(t), Orderly(t), NEW r, Resized(t, r), t.used < r.size
    PROVE  \E y \in Tables(r.size) : /\ Moved(t, r, t.size, y)
                                     /\ transfer_table(r, t) = [y EXCEPT !.used = y.count]
<1> DEFINE L == Leading(t)
           Start == [bucket_alloc(r) EXCEPT !.count = 0]
           Ys(n) == {y \in Tables(r.size) : Moved(t, r, n, y)}
           Go(n, y) == IF n \in L THEN put(y, t, t.map[n]) ELSE y
           S == [n \in Nat |-> Ys(n)]
           F == [n \in Nat |-> [y \in Ys(n) |-> Go(n, y)]]
<1>1. Start \in Ys(0)
  BY MovedStart
<1>2. \A n \in Nat : \A y \in Ys(n) : Go(n, y) \in Ys(n + 1)
  <2> SUFFICES ASSUME NEW n \in Nat, NEW y \in Ys(n) PROVE Go(n, y) \in Ys(n + 1)
    OBVIOUS
  <2>1. y \in Tables(r.size) /\ Moved(t, r, n, y)
    OBVIOUS
  <2>2. CASE n \in L
    <3>1. put(y, t, t.map[n]) \in Ys(n + 1)
      BY <2>1, <2>2, MovedOne
    <3> QED
      BY <2>2, <3>1
  <2>3. CASE n \notin L
    <3>1. Moved(t, r, n + 1, y)
      BY <2>1, <2>3, MovedNone
    <3> QED
      BY <2>1, <2>3, <3>1
  <2> QED
    BY <2>2, <2>3
<1> HIDE DEF Start, Ys, Go
<1>3. S[0] = Ys(0) /\ \A n \in Nat : S[n] = Ys(n) /\ S[n + 1] = Ys(n + 1)
  OBVIOUS
<1>4. \A n \in Nat : \A y \in Ys(n) : F[n][y] = Go(n, y)
  OBVIOUS
<1> HIDE DEF S, F
<1>5. PICK g : /\ g = [n \in Nat |-> g[n]]
               /\ g[0] = Start
               /\ \A n \in Nat : g[n] \in S[n] /\ g[n + 1] = F[n][g[n]]
  <2>1. \A n \in Nat : \A y \in S[n] : F[n][y] \in S[n + 1]
    BY <1>2, <1>3, <1>4
  <2>2. Start \in S[0]
    BY <1>1, <1>3
  <2> QED
    BY ONLY <2>1, <2>2, Loops
<1> DEFINE Body(f, m) == IF m = 0 THEN [bucket_alloc(r) EXCEPT !.count = 0]
                         ELSE IF m - 1 \in Leading(t) THEN put(f[m - 1], t, t.map[m - 1])
                         ELSE f[m - 1]
<1>6. \A n \in Nat : g[n + 1] = Go(n, g[n])
  BY <1>3, <1>4, <1>5
<1>7. \A n \in Nat : g[n] = Body(g, n)
  <2> TAKE n \in Nat
  <2>1. CASE n = 0
    BY <1>5, <2>1 DEF Start
  <2>2. CASE n # 0
    <3>1. n - 1 \in Nat /\ (n - 1) + 1 = n
      BY <2>2
    <3>2. g[n] = Go(n - 1, g[n - 1])
      BY <1>6, <3>1
    <3> QED
      BY <2>2, <3>2 DEF Go
  <2> QED
    BY <2>1, <2>2
<1>8. g = [n \in Nat |-> Body(g, n)]
  <2> HIDE DEF Body
  <2> QED
    BY <1>5, <1>7
<1>9. PICK h : /\ h = [n \in Nat |-> Body(h, n)]
               /\ transfer_table(r, t) = [h[t.size] EXCEPT !.used = h[t.size].count]
  BY <1>8 DEF transfer_table
<1>10. h[0] = Start /\ \A n \in Nat : h[n + 1] = Go(n, h[n])
  <2>1. h[0] = Body(h, 0)
    <3> HIDE DEF Body
    <3> QED
      BY <1>9
  <2>2. ASSUME NEW n \in Nat
        PROVE  h[n + 1] = Go(n, h[n])
    <3>1. n + 1 \in Nat /\ n + 1 # 0 /\ (n + 1) - 1 = n
      OBVIOUS
    <3>2. h[n + 1] = Body(h, n + 1)
      <4>1. h = [m \in Nat |-> Body(h, m)]
        BY <1>9
      <4> HIDE DEF Body
      <4> QED
        BY ONLY <3>1, <4>1
    <3> QED
      BY <3>1, <3>2 DEF Go
  <2> QED
    BY <2>1, <2>2 DEF Start
<1> DEFINE P == {n \in Nat : h[n] \in Ys(n)}
<1>11. 0 \in P /\ \A n \in Nat : n \in P => n + 1 \in P
  BY <1>1, <1>2, <1>10
<1> HIDE DEF P
<1>12. \A n \in Nat : n \in P
  BY <1>11, AllNumbers
<1>13. t.size \in Nat
  BY TableType DEF Table
<1>14. h[t.size] \in Ys(t.size)
  BY <1>12, <1>13 DEF P
<1> QED
  BY <1>9, <1>14 DEF Ys

(* The keys before position n: each once, in the order of the positions.   *)
KeysBefore(t, n) == {m \in Leading(t) : m < n}

LEMMA KeysAre ==
    ASSUME NEW t, Table(t), NEW n \in Int, n <= t.count
    PROVE  LET S == KeysBefore(t, n)
               c == Cardinality(S)
               q == Ranked[S]
               o == KeysUpTo(t, n)
           IN  /\ S \in SUBSET Counted(t) /\ S \in SUBSET Nat /\ IsFiniteSet(S) /\ c \in Nat
               /\ o = [r \in 1..c |-> t.keys[t.map[q[r]]]]
               /\ \A r \in 1..c : q[r] \in S /\ o[r] \in KeysOf(t) /\ o[r] \in Keys
               /\ \A p, r \in 1..c : o[p] = o[r] => p = r
               /\ \A m \in S : \E r \in 1..c : o[r] = t.keys[t.map[m]]
<1> DEFINE S == KeysBefore(t, n)
           c == Cardinality(S)
           q == Ranked[S]
           o == KeysUpTo(t, n)
<1>1. /\ Counted(t) \in SUBSET Nat /\ IsFiniteSet(Counted(t))
      /\ \A m \in Counted(t) : t.map[m] \in TakenIn(t)
      /\ \A m, p \in Counted(t) : t.map[m] = t.map[p] => m = p
  BY UsedIsCounted
<1>2. t.count \in Nat /\ \A i : Taken(t, i) => t.keys[i] \in Keys
  BY TableType DEF Table
<1>3. S \in SUBSET Counted(t)
  <2>1. Leading(t) \subseteq Nat
    BY TableType DEF Table, Leading, Buckets
  <2> QED
    BY <1>2, <2>1 DEF Counted, KeysBefore
<1>4. S \in SUBSET Nat /\ IsFiniteSet(S)
  BY <1>1, <1>3, FS_Subset
<1>5. o = [r \in DOMAIN q |-> t.keys[t.map[q[r]]]]
  BY DEF KeysUpTo, KeysBefore
<1>6. ASSUME NEW m \in S
      PROVE  /\ t.map[m] \in Buckets(t.size) /\ Taken(t, t.map[m])
             /\ t.keys[t.map[m]] \in Keys /\ t.keys[t.map[m]] \in KeysOf(t)
  <2>1. t.map[m] \in TakenIn(t)
    BY <1>1, <1>3
  <2> QED
    BY <1>2, <2>1 DEF TakenIn, KeysOf
<1>7. ASSUME NEW m \in S, NEW p \in S, t.keys[t.map[m]] = t.keys[t.map[p]]
      PROVE  m = p
  <2>1. t.map[m] = t.map[p]
    BY <1>6, <1>7 DEF Table, BucketsOK, KeysOK
  <2> QED
    BY <1>1, <1>3, <2>1
<1> HIDE DEF S, o
<1>8. /\ c \in Nat /\ DOMAIN q = 1..c
      /\ \A r \in 1..c : q[r] \in S /\ Rank(S, q[r]) = r
      /\ \A m \in S : Rank(S, m) \in 1..c /\ q[Rank(S, m)] = m
  BY <1>4, RankedInOrder
<1> HIDE DEF c, q
<1>9. o = [r \in 1..c |-> t.keys[t.map[q[r]]]]
  BY <1>5, <1>8
<1>10. \A r \in 1..c : o[r] = t.keys[t.map[q[r]]] /\ q[r] \in S
  BY <1>8, <1>9
<1>11. \A r \in 1..c : q[r] \in S /\ o[r] \in KeysOf(t) /\ o[r] \in Keys
  BY <1>6, <1>10
<1>12. \A p, r \in 1..c : o[p] = o[r] => p = r
  <2> SUFFICES ASSUME NEW p \in 1..c, NEW r \in 1..c, o[p] = o[r] PROVE p = r
    OBVIOUS
  <2>1. q[p] = q[r]
    BY <1>7, <1>10
  <2> QED
    BY <1>8, <2>1
<1>13. \A m \in S : \E r \in 1..c : o[r] = t.keys[t.map[m]]
  BY <1>8, <1>10
<1> QED
  BY <1>3, <1>4, <1>8, <1>9, <1>11, <1>12, <1>13 DEF S, c, q, o

(* Each key of the table is in the order.                                  *)
LEMMA OrderHasAll ==
    ASSUME NEW t, Table(t)
    PROVE  LET o == KeysUpTo(t, t.count)
           IN  /\ \A r \in 1..t.used : o[r] \in KeysOf(t)
               /\ \A p, r \in 1..t.used : o[p] = o[r] => p = r
               /\ \A k \in KeysOf(t) : \E r \in 1..t.used : o[r] = k
<1>1. t.count \in Nat /\ t.count \in Int
  BY TableType DEF Table
<1>2. /\ Cardinality(Counted(t)) = t.used
      /\ \A i \in TakenIn(t) : \E m \in Counted(t) : t.map[m] = i
  BY UsedIsCounted
<1>3. KeysBefore(t, t.count) = Counted(t)
  BY DEF KeysBefore, Counted
<1> DEFINE o == KeysUpTo(t, t.count)
<1>4. /\ \A r \in 1..t.used : o[r] \in KeysOf(t)
      /\ \A p, r \in 1..t.used : o[p] = o[r] => p = r
      /\ \A m \in Counted(t) : \E r \in 1..t.used : o[r] = t.keys[t.map[m]]
  <2> DEFINE n == t.count
             S == KeysBefore(t, n)
             c == Cardinality(S)
             p == KeysUpTo(t, n)
  <2>1. n \in Int /\ n <= t.count
    BY <1>1
  <2>2. S = Counted(t) /\ c = t.used /\ p = o
    BY <1>2, <1>3
  <2> HIDE DEF n
  <2>3. /\ \A r \in 1..c : p[r] \in KeysOf(t)
        /\ \A i, r \in 1..c : p[i] = p[r] => i = r
        /\ \A m \in S : \E r \in 1..c : p[r] = t.keys[t.map[m]]
    BY <2>1, KeysAre
  <2> HIDE DEF S, c, o, p
  <2> QED
    BY <2>2, <2>3
<1> HIDE DEF o
<1>5. ASSUME NEW k \in KeysOf(t)
      PROVE  \E r \in 1..t.used : o[r] = k
  <2>1. PICK i \in TakenIn(t) : t.keys[i] = k
    BY DEF KeysOf, TakenIn
  <2>2. PICK m \in Counted(t) : t.map[m] = i
    BY <1>2
  <2> QED
    BY <1>4, <2>1, <2>2
<1> QED
  BY <1>4, <1>5 DEF o

(* transfer_table() leaves the same keys with the same values in the same  *)
(* order, in a table that has no bucket that is DEAD and nothing stale in  *)
(* its map.                                                                *)
SameMap(t, u) == /\ KeysOf(u) = KeysOf(t)
                 /\ \A k \in Keys : ValueOf(u, k) = ValueOf(t, k)
                 /\ KeysUpTo(u, u.count) = KeysUpTo(t, t.count)

LEMMA Transfer ==
    ASSUME NEW t, Table(t), Orderly(t), NEW r, Resized(t, r), t.used < r.size
    PROVE  LET u == transfer_table(r, t)
           IN  /\ Table(u) /\ SameMap(t, u)
               /\ u.size = r.size /\ u.grow = r.grow /\ u.shrink = r.shrink
               /\ u.used = t.used /\ u.count = t.used
               /\ \A m \in Buckets(u.size) : m >= u.count => u.map[m] = -1
<1> DEFINE L == Leading(t)
           q == Ranked[L]
           u == transfer_table(r, t)
           o == KeysUpTo(t, t.count)
<1>1. PICK y \in Tables(r.size) : Moved(t, r, t.size, y) /\ u = [y EXCEPT !.used = y.count]
  BY MovedAll
<1>2. L = Counted(t)
  BY DEF Orderly, Counted
<1>3. /\ L \in SUBSET Nat /\ IsFiniteSet(L) /\ Cardinality(L) = t.used
      /\ \A m \in L : t.map[m] \in TakenIn(t)
  BY <1>2, UsedIsCounted
<1>4. t.size \in Nat /\ t.used \in Nat /\ \A m \in L : m <= t.size - 1
  BY TableType DEF Table, Leading, Buckets
<1>5. /\ u.size = r.size /\ u.grow = r.grow /\ u.shrink = r.shrink
      /\ u.count = y.count /\ u.used = y.count
      /\ u.keys = y.keys /\ u.vals = y.vals /\ u.map = y.map
  BY <1>1 DEF Moved, Tables
<1>6. u \in Tables(r.size)
  BY <1>1 DEF Tables
<1>7. BucketsOK(y) /\ y.size = r.size /\ y.count = Rank(L, t.size - 1)
  BY <1>1 DEF Moved
<1>8. y.count = t.used
  <2>1. {m \in L : m <= t.size - 1} = L
    BY <1>4
  <2> QED
    BY <1>3, <1>7, <2>1 DEF Rank
<1> HIDE DEF u
<1>9. \A i : Taken(u, i) <=> Taken(y, i)
  BY <1>5 DEF Taken
<1>10. BucketsOK(u)
  <2>1. MapOK(u)
    BY <1>5, <1>7 DEF BucketsOK, MapOK
  <2>2. KeysOK(u)
    BY <1>5, <1>7, <1>9 DEF BucketsOK, KeysOK
  <2> QED
    BY <1>5, <1>6, <1>7, <2>1, <2>2 DEF BucketsOK
<1>11. Table(u)
  <2>1. TakenIn(u) = {i \in Buckets(u.size) : u.keys[i] # NULL}
    <3>1. \A i \in Buckets(u.size) : Taken(u, i) <=> u.keys[i] \notin {NULL, DEAD}
      BY <1>10, TableType
    <3>2. \A i \in Buckets(u.size) : u.keys[i] # DEAD
      BY <1>1, <1>5, <1>7 DEF Moved
    <3> QED
      BY <3>1, <3>2 DEF TakenIn
  <2> QED
    BY <1>5, <1>10, <2>1, CountIsOccupied DEF Table
<1>12. \A m \in Buckets(u.size) : m >= u.count => u.map[m] = -1
  BY <1>1, <1>5, <1>7 DEF Moved
<1>13. Counted(u) = 0..(u.count - 1)
  <2>1. Counted(u) \in SUBSET (0..(u.count - 1))
    BY <1>11, UsedIsCounted
  <2>2. ASSUME NEW m \in 0..(u.count - 1)
        PROVE  m \in Counted(u)
    <3>1. u.map[m] \in Buckets(u.size) /\ u.keys[u.map[m]] # NULL
      BY <1>10 DEF BucketsOK, MapOK
    <3>2. u.keys[u.map[m]] # DEAD
      BY <1>1, <1>5, <1>7, <3>1 DEF Moved
    <3>3. Taken(u, u.map[m]) /\ m \in DOMAIN u.map /\ u.count \in Nat
      BY <1>10, <3>1, <3>2, TableType
    <3> QED
      BY <3>3 DEF Counted, Leading
  <2> QED
    BY <2>1, <2>2
<1> DEFINE w == KeysUpTo(u, u.count)
<1>14. /\ w = [p \in 1..t.used |-> u.keys[u.map[Ranked[0..(u.count - 1)][p]]]]
       /\ o = [p \in 1..t.used |-> t.keys[t.map[q[p]]]]
  <2>1. w = [p \in 1..u.used |-> u.keys[u.map[Ranked[Counted(u)][p]]]]
    BY <1>11, OrderIs
  <2>2. o = [p \in 1..t.used |-> t.keys[t.map[Ranked[Counted(t)][p]]]]
    BY OrderIs
  <2>3. u.used = t.used
    BY <1>5, <1>8
  <2> HIDE DEF w, o
  <2> QED
    BY <1>2, <1>13, <2>1, <2>2, <2>3
<1>15. \A p \in 1..t.used : Ranked[0..(u.count - 1)][p] = p - 1
  BY <1>4, <1>5, <1>8, RankedFull
<1>16. \A p \in 1..t.used : /\ u.keys[u.map[p - 1]] = t.keys[t.map[q[p]]]
                            /\ u.vals[u.map[p - 1]] = t.vals[t.map[q[p]]]
  BY <1>1, <1>5, <1>8 DEF Moved
<1> HIDE DEF w, o
<1>17. w = o
  BY <1>14, <1>15, <1>16
<1>18. KeysOf(u) = KeysOf(t)
  <2>1. /\ \A p \in 1..t.used : o[p] \in KeysOf(t)
        /\ \A k \in KeysOf(t) : \E p \in 1..t.used : o[p] = k
    BY OrderHasAll DEF o
  <2>2. /\ \A p \in 1..t.used : w[p] \in KeysOf(u)
        /\ \A k \in KeysOf(u) : \E p \in 1..t.used : w[p] = k
    BY <1>5, <1>8, <1>11, OrderHasAll DEF w
  <2> QED
    BY <1>17, <2>1, <2>2
<1>19. ASSUME NEW k \in Keys
       PROVE  ValueOf(u, k) = ValueOf(t, k)
  <2>1. CASE k \in KeysOf(t)
    <3>1. PICK p \in 1..t.used : o[p] = k
      BY <2>1, OrderHasAll DEF o
    <3>2. q[p] \in L
      BY <1>3, RankedInOrder
    <3>3. t.map[q[p]] \in TakenIn(t) /\ t.keys[t.map[q[p]]] = k
      BY <1>3, <1>14, <3>1, <3>2
    <3>4. ValueOf(t, k) = t.vals[t.map[q[p]]]
      BY <3>3, ValueIs
    <3>5. p - 1 \in 0..(u.count - 1)
      BY <1>4, <1>5, <1>8
    <3>6. u.map[p - 1] \in TakenIn(u)
      BY <1>11, <1>13, <3>5, UsedIsCounted
    <3>7. u.keys[u.map[p - 1]] = k
      BY <1>16, <3>3
    <3>8. ValueOf(u, k) = u.vals[u.map[p - 1]]
      BY <1>11, <3>6, <3>7, ValueIs
    <3> QED
      BY <1>16, <3>4, <3>8
  <2>2. CASE k \notin KeysOf(t)
    BY <1>11, <1>18, <2>2, ValueIs
  <2> QED
    BY <2>1, <2>2
<1> QED
  BY <1>5, <1>8, <1>11, <1>12, <1>17, <1>18, <1>19 DEF u, w, o, SameMap

------------------------------------------------------------------------------
(* Sizes: maybe_grow_table() and maybe_shrink_table().                     *)
LEMMA PowersOrdered ==
    /\ \A a, b \in Nat : a < b => 2 * PowerOf2[a] <= PowerOf2[b]
    /\ \A n \in Nat : n < PowerOf2[n]
<1> DEFINE P == {b \in Nat : \A a \in Nat : a < b => 2 * PowerOf2[a] <= PowerOf2[b]}
           Q == {n \in Nat : n < PowerOf2[n]}
<1>0. /\ PowerOf2[0] = 1
      /\ \A n \in Nat : PowerOf2[n] \in Nat /\ PowerOf2[n] >= 1 /\ PowerOf2[n + 1] = 2 * PowerOf2[n]
  BY Powers
<1>1. 0 \in P /\ 0 \in Q
  BY <1>0
<1>2. ASSUME NEW b \in Nat, b \in P
      PROVE  b + 1 \in P
  <2> SUFFICES ASSUME NEW a \in Nat, a < b + 1
               PROVE  2 * PowerOf2[a] <= PowerOf2[b + 1]
    OBVIOUS
  <2>1. CASE a = b
    BY <1>0, <2>1
  <2>2. CASE a < b
    <3>1. 2 * PowerOf2[a] <= PowerOf2[b]
      BY <1>2, <2>2
    <3>2. PowerOf2[b + 1] = 2 * PowerOf2[b] /\ PowerOf2[b] \in Nat /\ PowerOf2[a] \in Nat
      BY <1>0
    <3> QED
      BY <3>1, <3>2
  <2> QED
    BY <2>1, <2>2
<1>3. ASSUME NEW n \in Nat, n \in Q
      PROVE  n + 1 \in Q
  <2>1. PowerOf2[n + 1] = 2 * PowerOf2[n] /\ PowerOf2[n] \in Nat /\ PowerOf2[n] >= 1 /\ n < PowerOf2[n]
    BY <1>0, <1>3
  <2> QED
    BY <2>1
<1> HIDE DEF P, Q
<1>4. \A b \in Nat : b \in P
  BY <1>1, <1>2, AllNumbers
<1>5. \A n \in Nat : n \in Q
  BY <1>1, <1>3, AllNumbers
<1> QED
  BY <1>4, <1>5 DEF P, Q

LEMMA Halves ==
    ASSUME NEW s, SizeOK(s), NEW i, SizeOK(i), s > i
    PROVE  SizeOK(s \div 2) /\ s \div 2 >= i /\ s = 2 * (s \div 2)
<1>1. PICK e \in Nat : s = PowerOf2[e]
  BY DEF SizeOK
<1>2. PICK f \in Nat : i = PowerOf2[f]
  BY DEF SizeOK
<1>3. f < e
  <2>1. e < f => 2 * PowerOf2[e] <= PowerOf2[f]
    BY PowersOrdered
  <2>2. PowerOf2[e] \in Nat /\ PowerOf2[f] \in Nat /\ PowerOf2[e] >= 1
    BY Powers
  <2>3. e # f /\ ~(e < f)
    BY <1>1, <1>2, <2>1, <2>2
  <2> QED
    BY <2>3
<1>4. e - 1 \in Nat /\ (e - 1) + 1 = e /\ (f < e - 1 \/ f = e - 1)
  BY <1>3
<1> DEFINE h == PowerOf2[e - 1]
<1>5. h \in Nat /\ PowerOf2[(e - 1) + 1] = 2 * h
  BY <1>4, Powers
<1>6. i <= h
  <2>1. f < e - 1 => 2 * PowerOf2[f] <= h
    BY <1>4, PowersOrdered
  <2>2. i \in Nat
    BY <1>2, Powers
  <2> QED
    BY <1>2, <1>4, <1>5, <2>1, <2>2
<1> HIDE DEF h
<1>7. s = 2 * h
  BY <1>1, <1>4, <1>5
<1>8. s \div 2 = h
  BY <1>5, <1>7
<1>9. SizeOK(h)
  BY <1>4 DEF SizeOK, h
<1>10. i \in Nat
  BY <1>2, Powers
<1> QED
  BY <1>5, <1>6, <1>7, <1>8, <1>9, <1>10

LEMMA Doubles ==
    ASSUME NEW s, SizeOK(s)
    PROVE  SizeOK(s * 2)
<1>1. PICK e \in Nat : s = PowerOf2[e]
  BY DEF SizeOK
<1>2. e + 1 \in Nat /\ PowerOf2[e + 1] = 2 * PowerOf2[e] /\ PowerOf2[e] \in Nat
  BY Powers
<1>3. s * 2 = PowerOf2[e + 1]
  BY <1>1, <1>2
<1> QED
  BY <1>2, <1>3 DEF SizeOK

LEMMA InitSize == SizeOK(INIT_SIZE) /\ INIT_SIZE \in Nat /\ INIT_SIZE >= 2
<1>1. PICK n \in 1..16 : INIT_SIZE = PowerOf2[n]
  BY DictAssumption
<1>2. n \in Nat /\ n - 1 \in Nat /\ (n - 1) + 1 = n
  OBVIOUS
<1>3. PowerOf2[(n - 1) + 1] = 2 * PowerOf2[n - 1] /\ PowerOf2[n - 1] \in Nat /\ PowerOf2[n - 1] >= 1
  BY <1>2, Powers
<1>4. INIT_SIZE \in Nat /\ INIT_SIZE >= 2
  BY <1>1, <1>2, <1>3
<1>5. SizeOK(INIT_SIZE)
  BY <1>1, <1>2 DEF SizeOK
<1> QED
  BY <1>4, <1>5

\* The markers of a table at rest: those of refresh_grow_markers(), at the
\* last change of its size.
Marked(t) == /\ SizeOK(t.size) /\ t.size >= INIT_SIZE
             /\ t.grow = (t.size * 2) \div 3
             /\ t.shrink \in {0, t.grow \div 3}
             /\ t.shrink > 0 => t.size > INIT_SIZE

\* What Doublings() and Halvings() make of t.
Shapes(t) == [size : Nat, used : {t.used}, count : {t.count}, grow : Nat, shrink : Nat,
              keys : {t.keys}, vals : {t.vals}, map : {t.map}]

LEMMA Refreshed ==
    ASSUME NEW t, NEW x \in Shapes(t), t.used \in Nat, NEW s \in Nat
    PROVE  LET y == refresh_grow_markers([x EXCEPT !.size = s])
           IN  /\ y \in Shapes(t)
               /\ y.size = s /\ y.grow = (s * 2) \div 3
               /\ y.shrink = IF t.used <= INIT_SIZE THEN 0 ELSE y.grow \div 3
<1> DEFINE g == (s * 2) \div 3
           h == IF t.used <= INIT_SIZE THEN 0 ELSE g \div 3
           y == refresh_grow_markers([x EXCEPT !.size = s])
<1>1. g \in Nat
  OBVIOUS
<1>2. h \in Nat
  BY <1>1
<1>3. x.used = t.used
  BY DEF Shapes
<1>4. y = [[x EXCEPT !.size = s] EXCEPT !.grow = g, !.shrink = h]
  BY <1>3 DEF refresh_grow_markers, Shapes
<1> HIDE DEF g, h
<1>5. y \in Shapes(t) /\ y.size = s /\ y.grow = g /\ y.shrink = h
  BY <1>1, <1>2, <1>4 DEF Shapes
<1> QED
  BY <1>5 DEF g, h


LEMMA Doubling ==
    ASSUME NEW t, t \in Shapes(t), t.used \in Nat
    PROVE  LET g == Doublings(t)
           IN  g[0] = t /\ \A n \in Nat : g[n] \in Shapes(t) /\ g[n + 1] = Doubled(g[n])
<1> DEFINE S == [n \in Nat |-> Shapes(t)]
           F == [n \in Nat |-> [x \in Shapes(t) |-> Doubled(x)]]
           Body(f, n) == IF n = 0 THEN t ELSE Doubled(f[n - 1])
<1>1. ASSUME NEW x \in Shapes(t)
      PROVE  Doubled(x) \in Shapes(t)
  <2>1. x.size * 2 \in Nat
    BY DEF Shapes
  <2>2. refresh_grow_markers([x EXCEPT !.size = @ * 2])
            = refresh_grow_markers([x EXCEPT !.size = x.size * 2])
    OBVIOUS
  <2>3. refresh_grow_markers([x EXCEPT !.size = x.size * 2]) \in Shapes(t)
    BY <2>1, Refreshed
  <2> QED
    BY <2>2, <2>3 DEF Doubled
<1>2. \A n \in Nat : \A x \in S[n] : F[n][x] \in S[n + 1]
  <2> HIDE DEF Doubled
  <2> QED
    BY <1>1
<1>3. \A n \in Nat : S[n] = Shapes(t) /\ \A x \in Shapes(t) : F[n][x] = Doubled(x)
  OBVIOUS
<1>4. t \in S[0]
  BY <1>3
<1> HIDE DEF S, F
<1>5. PICK h : /\ h = [n \in Nat |-> h[n]]
               /\ h[0] = t
               /\ \A n \in Nat : h[n] \in S[n] /\ h[n + 1] = F[n][h[n]]
  BY ONLY <1>2, <1>4, Loops
<1>6. \A n \in Nat : h[n + 1] = Doubled(h[n])
  BY <1>3, <1>5
<1>7. \A n \in Nat : h[n] = Body(h, n)
  <2> TAKE n \in Nat
  <2>1. CASE n = 0
    BY <1>5, <2>1
  <2>2. CASE n # 0
    <3>1. n - 1 \in Nat /\ (n - 1) + 1 = n
      BY <2>2
    <3> QED
      BY <1>6, <2>2, <3>1
  <2> QED
    BY <2>1, <2>2
<1>8. h = [n \in Nat |-> Body(h, n)]
  <2> HIDE DEF Body
  <2> QED
    BY <1>5, <1>7
<1> DEFINE g == Doublings(t)
<1>9. g = [n \in Nat |-> Body(g, n)]
  BY <1>8 DEF Doublings
<1> HIDE DEF g
<1>10. g[0] = t /\ \A n \in Nat : g[n + 1] = Doubled(g[n])
  <2>1. g[0] = Body(g, 0)
    <3> HIDE DEF Body
    <3> QED
      BY <1>9
  <2>2. ASSUME NEW n \in Nat
        PROVE  g[n + 1] = Doubled(g[n])
    <3>1. n + 1 \in Nat /\ n + 1 # 0 /\ (n + 1) - 1 = n
      OBVIOUS
    <3>2. g[n + 1] = Body(g, n + 1)
      <4>1. g = [m \in Nat |-> Body(g, m)]
        BY <1>9
      <4> HIDE DEF Body
      <4> QED
        BY ONLY <3>1, <4>1
    <3> QED
      BY <3>1, <3>2
  <2> QED
    BY <2>1, <2>2
<1> DEFINE P == {n \in Nat : g[n] \in Shapes(t)}
<1>11. 0 \in P /\ \A n \in Nat : n \in P => n + 1 \in P
  BY <1>1, <1>10
<1> HIDE DEF P
<1>12. \A n \in Nat : n \in P
  BY <1>11, AllNumbers
<1> QED
  BY <1>10, <1>12 DEF P, g

LEMMA Halving ==
    ASSUME NEW t, t \in Shapes(t), t.used \in Nat
    PROVE  LET g == Halvings(t)
           IN  g[0] = t /\ \A n \in Nat : g[n] \in Shapes(t) /\ g[n + 1] = Halved(g[n])
<1> DEFINE S == [n \in Nat |-> Shapes(t)]
           F == [n \in Nat |-> [x \in Shapes(t) |-> Halved(x)]]
           Body(f, n) == IF n = 0 THEN t ELSE Halved(f[n - 1])
<1>1. ASSUME NEW x \in Shapes(t)
      PROVE  Halved(x) \in Shapes(t)
  <2>1. x.size \div 2 \in Nat
    BY DEF Shapes
  <2>2. refresh_grow_markers([x EXCEPT !.size = @ \div 2])
            = refresh_grow_markers([x EXCEPT !.size = x.size \div 2])
    OBVIOUS
  <2>3. refresh_grow_markers([x EXCEPT !.size = x.size \div 2]) \in Shapes(t)
    BY <2>1, Refreshed
  <2> QED
    BY <2>2, <2>3 DEF Halved
<1>2. \A n \in Nat : \A x \in S[n] : F[n][x] \in S[n + 1]
  <2> HIDE DEF Halved
  <2> QED
    BY <1>1
<1>3. \A n \in Nat : S[n] = Shapes(t) /\ \A x \in Shapes(t) : F[n][x] = Halved(x)
  OBVIOUS
<1>4. t \in S[0]
  BY <1>3
<1> HIDE DEF S, F
<1>5. PICK h : /\ h = [n \in Nat |-> h[n]]
               /\ h[0] = t
               /\ \A n \in Nat : h[n] \in S[n] /\ h[n + 1] = F[n][h[n]]
  BY ONLY <1>2, <1>4, Loops
<1>6. \A n \in Nat : h[n + 1] = Halved(h[n])
  BY <1>3, <1>5
<1>7. \A n \in Nat : h[n] = Body(h, n)
  <2> TAKE n \in Nat
  <2>1. CASE n = 0
    BY <1>5, <2>1
  <2>2. CASE n # 0
    <3>1. n - 1 \in Nat /\ (n - 1) + 1 = n
      BY <2>2
    <3> QED
      BY <1>6, <2>2, <3>1
  <2> QED
    BY <2>1, <2>2
<1>8. h = [n \in Nat |-> Body(h, n)]
  <2> HIDE DEF Body
  <2> QED
    BY <1>5, <1>7
<1> DEFINE g == Halvings(t)
<1>9. g = [n \in Nat |-> Body(g, n)]
  BY <1>8 DEF Halvings
<1> HIDE DEF g
<1>10. g[0] = t /\ \A n \in Nat : g[n + 1] = Halved(g[n])
  <2>1. g[0] = Body(g, 0)
    <3> HIDE DEF Body
    <3> QED
      BY <1>9
  <2>2. ASSUME NEW n \in Nat
        PROVE  g[n + 1] = Halved(g[n])
    <3>1. n + 1 \in Nat /\ n + 1 # 0 /\ (n + 1) - 1 = n
      OBVIOUS
    <3>2. g[n + 1] = Body(g, n + 1)
      <4>1. g = [m \in Nat |-> Body(g, m)]
        BY <1>9
      <4> HIDE DEF Body
      <4> QED
        BY ONLY <3>1, <4>1
    <3> QED
      BY <3>1, <3>2
  <2> QED
    BY <2>1, <2>2
<1> DEFINE P == {n \in Nat : g[n] \in Shapes(t)}
<1>11. 0 \in P /\ \A n \in Nat : n \in P => n + 1 \in P
  BY <1>1, <1>10
<1> HIDE DEF P
<1>12. \A n \in Nat : n \in P
  BY <1>11, AllNumbers
<1> QED
  BY <1>10, <1>12 DEF P, g

LEMMA InShapes ==
    ASSUME NEW t, t \in Tables(t.size), t.size \in Nat
    PROVE  /\ t \in Shapes(t) /\ t.used \in Nat /\ t.count \in Nat
           /\ \A x \in Shapes(t) : SizeOK(x.size) => Resized(t, x)
           /\ \A x \in Shapes(t) : x.used = t.used /\ x.count = t.count
BY DEF Tables, Shapes, Resized

LEMMA GrowBounds ==
    ASSUME NEW s \in Nat, s >= 2
    PROVE  /\ (s * 2) \div 3 \in Nat /\ (s * 2) \div 3 < s
           /\ (s * 2) \div 3 + 1 <= ((s * 2) * 2) \div 3
           /\ ((s * 2) \div 3) \div 3 <= ((s \div 2) * 2) \div 3 + 1
OBVIOUS

(* maybe_grow_table(), after an insertion: at most one turn.               *)
LEMMA Grown ==
    ASSUME NEW t, t \in Tables(t.size), Marked(t), t.count <= t.grow + 1
    PROVE  \E r : /\ maybe_grow_table(t) = IF r.size # t.size THEN transfer_table(r, t) ELSE r
                  /\ t.count <= t.grow => r = t
                  /\ t.count > t.grow => /\ Resized(t, r) /\ Marked(r) /\ r.size > t.size
                                         /\ t.count <= r.grow /\ r.grow < r.size
<1> DEFINE g == Doublings(t)
           r == g[t.size]
           x == refresh_grow_markers([t EXCEPT !.size = t.size * 2])
<1>1. /\ SizeOK(t.size) /\ t.size \in Nat /\ t.size > 0 /\ t.size >= 2
      /\ INIT_SIZE \in Nat /\ t.size >= INIT_SIZE
      /\ t.grow = (t.size * 2) \div 3
  BY SizeType, InitSize DEF Marked
<1>2. t \in Shapes(t) /\ t.used \in Nat /\ t.count \in Nat
  BY <1>1, InShapes
<1>3. g[0] = t /\ \A n \in Nat : g[n] \in Shapes(t) /\ g[n + 1] = Doubled(g[n])
  BY <1>2, Doubling
<1>4. maybe_grow_table(t) = IF r.size # t.size THEN transfer_table(r, t) ELSE r
  BY DEF maybe_grow_table
<1> HIDE DEF g
<1>5. CASE t.count <= t.grow
  <2> DEFINE P == {n \in Nat : g[n] = t}
  <2>0. t.grow \in Nat
    BY <1>1, GrowBounds
  <2>1. Doubled(t) = t
    BY <1>2, <1>5, <2>0 DEF Doubled
  <2>2. 0 \in P /\ \A n \in Nat : n \in P => n + 1 \in P
    BY <1>3, <2>1
  <2> HIDE DEF P
  <2>3. \A n \in Nat : n \in P
    BY <2>2, AllNumbers
  <2>4. r = t
    BY <1>1, <2>3 DEF P
  <2>5. ~(t.count > t.grow)
    BY <1>2, <1>5, <2>0
  <2> QED
    BY <1>4, <2>4, <2>5
<1>6. CASE t.count > t.grow
  <2> DEFINE P == {n \in Nat : n = 0 \/ g[n] = x}
  <2>1. t.size * 2 \in Nat
    BY <1>1
  <2>2. /\ x \in Shapes(t) /\ x.size = t.size * 2 /\ x.grow = ((t.size * 2) * 2) \div 3
        /\ x.shrink = IF t.used <= INIT_SIZE THEN 0 ELSE x.grow \div 3
    <3>1. t.size * 2 = t.size * 2
      OBVIOUS
    <3> DEFINE s == t.size * 2
    <3>2. s \in Nat
      BY <2>1
    <3> HIDE DEF s
    <3>3. LET y == refresh_grow_markers([t EXCEPT !.size = s])
          IN  /\ y \in Shapes(t)
              /\ y.size = s /\ y.grow = (s * 2) \div 3
              /\ y.shrink = IF t.used <= INIT_SIZE THEN 0 ELSE y.grow \div 3
      BY <1>2, <3>2, Refreshed
    <3> QED
      BY <3>3 DEF s
  <2>3. Doubled(t) = x
    BY <1>6 DEF Doubled
  <2> HIDE DEF x
  <2>4. x.count = t.count /\ x.grow \in Nat
    BY <2>2 DEF Shapes
  <2>5. t.count <= x.grow /\ x.grow < x.size
    <3>1. t.grow + 1 <= x.grow /\ t.grow \in Nat
      BY <1>1, <2>2, GrowBounds
    <3>2. t.size * 2 >= 2
      BY <1>1
    <3>3. ((t.size * 2) * 2) \div 3 < t.size * 2
      BY <2>1, <3>2, GrowBounds
    <3> QED
      BY <1>2, <2>2, <2>4, <3>1, <3>3
  <2>6. Doubled(x) = x
    BY <1>2, <2>4, <2>5 DEF Doubled
  <2>7. 0 \in P /\ \A n \in Nat : n \in P => n + 1 \in P
    BY <1>3, <2>3, <2>6
  <2> HIDE DEF P
  <2>8. \A n \in Nat : n \in P
    BY <2>7, AllNumbers
  <2>9. r = x
    BY <1>1, <2>8 DEF P
  <2>10. SizeOK(x.size)
    BY <1>1, <2>2, Doubles
  <2>11. Marked(x)
    <3>1. x.size >= INIT_SIZE /\ x.size > INIT_SIZE
      BY <1>1, <2>2
    <3>2. x.shrink \in {0, x.grow \div 3}
      BY <2>2
    <3> QED
      BY <2>2, <2>10, <3>1, <3>2 DEF Marked
  <2>12. Resized(t, x)
    BY <1>1, <2>2, <2>10, InShapes
  <2>13. x.size > t.size
    BY <1>1, <2>2
  <2>14. ~(t.count <= t.grow)
    BY <1>1, <1>2, <1>6, GrowBounds
  <2> QED
    BY <1>4, <2>5, <2>9, <2>11, <2>12, <2>13, <2>14
<1>7. t.count <= t.grow \/ t.count > t.grow
  BY <1>1, <1>2, GrowBounds
<1> QED
  BY <1>5, <1>6, <1>7

LEMMA HalvedOnce ==
    ASSUME NEW t, t.used \in Nat, NEW x \in Shapes(t), Marked(x), t.used < x.shrink
    PROVE  LET y == Halved(x)
           IN  /\ y \in Shapes(t) /\ Marked(y)
               /\ t.used <= y.grow /\ y.size < x.size
<1> DEFINE h == x.size \div 2
           y == refresh_grow_markers([x EXCEPT !.size = x.size \div 2])
<1>1. /\ x.used = t.used /\ x.size \in Nat /\ x.shrink \in Nat
      /\ SizeOK(x.size) /\ x.size >= INIT_SIZE
      /\ x.grow = (x.size * 2) \div 3 /\ x.shrink \in {0, x.grow \div 3}
      /\ x.shrink > 0 => x.size > INIT_SIZE
  BY DEF Shapes, Marked
<1>2. x.shrink > 0 /\ x.shrink = x.grow \div 3
  BY <1>1
<1>3. SizeOK(h) /\ h >= INIT_SIZE /\ x.size = 2 * h
  <2>1. SizeOK(INIT_SIZE) /\ x.size > INIT_SIZE
    BY <1>1, <1>2, InitSize
  <2> QED
    BY <1>1, <2>1, Halves
<1>4. h \in Nat /\ INIT_SIZE \in Nat /\ INIT_SIZE >= 2 /\ h >= 2
  BY <1>1, <1>3, InitSize
<1>5. Halved(x) = y
  BY <1>1 DEF Halved
<1> HIDE DEF h
<1>6. /\ y \in Shapes(t) /\ y.size = h /\ y.grow = (h * 2) \div 3
      /\ y.shrink = IF t.used <= INIT_SIZE THEN 0 ELSE y.grow \div 3
  <2>1. y = refresh_grow_markers([x EXCEPT !.size = h])
    BY DEF h
  <2> HIDE DEF y
  <2>2. LET z == refresh_grow_markers([x EXCEPT !.size = h])
        IN  /\ z \in Shapes(t)
            /\ z.size = h /\ z.grow = (h * 2) \div 3
            /\ z.shrink = IF t.used <= INIT_SIZE THEN 0 ELSE z.grow \div 3
    BY <1>4, Refreshed
  <2> QED
    BY <2>1, <2>2
<1> HIDE DEF y
<1>7. t.used <= y.grow
  <2>1. t.used < (((2 * h) * 2) \div 3) \div 3
    BY <1>1, <1>2, <1>3
  <2> QED
    BY <1>4, <1>6, <2>1
<1>8. y.grow < h
  BY <1>4, <1>6, GrowBounds
<1>9. Marked(y)
  <2>1. y.shrink \in {0, y.grow \div 3}
    BY <1>6
  <2>2. y.shrink > 0 => y.size > INIT_SIZE
    <3>1. y.shrink > 0 => t.used > INIT_SIZE
      BY <1>4, <1>6
    <3>2. y.grow \in Nat
      BY <1>4, <1>6
    <3> QED
      BY <1>4, <1>6, <1>7, <1>8, <3>1, <3>2
  <2> QED
    BY <1>3, <1>6, <2>1, <2>2 DEF Marked
<1>10. y.size < x.size
  BY <1>3, <1>4, <1>6
<1> QED
  BY <1>5, <1>6, <1>7, <1>9, <1>10

(* maybe_shrink_table(): as many turns as the markers ask for, and never   *)
(* below INIT_SIZE, although it allows for that.                           *)
LEMMA Shrunk ==
    ASSUME NEW t, t \in Tables(t.size), Marked(t), t.used <= t.grow
    PROVE  \E r : /\ maybe_shrink_table(t) = IF r.size # t.size THEN transfer_table(r, t) ELSE r
                  /\ \/ r = t
                     \/ /\ t.used < t.shrink /\ Resized(t, r)
                        /\ r.size < t.size /\ r.grow < r.size
                  /\ Marked(r) /\ t.used <= r.grow /\ ~(t.used < r.shrink)
<1> DEFINE g == Halvings(t)
           r == g[t.size]
           Changed(x) == x = t \/ (t.used < t.shrink /\ x.size < t.size)
           P == {n \in Nat : /\ Marked(g[n]) /\ t.used <= g[n].grow
                             /\ Changed(g[n])
                             /\ g[n].size + n <= t.size \/ ~(t.used < g[n].shrink)}
<1>1. t.size \in Nat /\ INIT_SIZE \in Nat /\ INIT_SIZE >= 2
  BY SizeType, InitSize DEF Marked
<1>2. t \in Shapes(t) /\ t.used \in Nat
  BY <1>1, InShapes
<1>3. g[0] = t /\ \A n \in Nat : g[n] \in Shapes(t) /\ g[n + 1] = Halved(g[n])
  BY <1>2, Halving
<1> HIDE DEF g
<1>4. 0 \in P
  BY <1>1, <1>3
<1>5. ASSUME NEW n \in Nat, n \in P
      PROVE  n + 1 \in P
  <2> DEFINE x == g[n]
             y == g[n + 1]
  <2>1. /\ x \in Shapes(t) /\ y = Halved(x) /\ Marked(x) /\ t.used <= x.grow /\ Changed(x)
        /\ x.size + n <= t.size \/ ~(t.used < x.shrink)
    BY <1>3, <1>5
  <2>2. y \in Shapes(t)
    BY <1>3
  <2>3. /\ x.used = t.used /\ x.size \in Nat /\ y.size \in Nat
    BY <2>1, <2>2 DEF Shapes
  <2> HIDE DEF x, y
  <2>4. Marked(y) /\ t.used <= y.grow /\ Changed(y) /\ (y.size + (n + 1) <= t.size \/ ~(t.used < y.shrink))
    <3>1. CASE t.used < x.shrink
      <4>1. Marked(y) /\ t.used <= y.grow /\ y.size < x.size
        BY <1>2, <2>1, <3>1, HalvedOnce
      <4>2. Changed(y)
        BY <1>1, <2>1, <2>3, <3>1, <4>1
      <4>3. y.size + (n + 1) <= t.size
        BY <1>1, <2>1, <2>3, <3>1, <4>1
      <4> QED
        BY <4>1, <4>2, <4>3
    <3>2. CASE ~(t.used < x.shrink)
      <4>1. y = x
        BY <2>1, <2>3, <3>2 DEF Halved
      <4> QED
        BY <2>1, <3>2, <4>1
    <3> QED
      BY <3>1, <3>2
  <2> HIDE DEF Changed
  <2> QED
    BY <2>4 DEF y
<1> HIDE DEF P
<1>6. \A n \in Nat : n \in P
  BY <1>4, <1>5, AllNumbers
<1>7. /\ Marked(r) /\ t.used <= r.grow /\ Changed(r) /\ r \in Shapes(t)
      /\ r.size + t.size <= t.size \/ ~(t.used < r.shrink)
  BY <1>1, <1>3, <1>6 DEF P
<1> HIDE DEF r
<1>8. r.size \in Nat /\ r.size > 0 /\ r.size >= 2 /\ r.size >= INIT_SIZE /\ SizeOK(r.size)
      /\ r.grow = (r.size * 2) \div 3
  BY <1>1, <1>7, SizeType DEF Marked
<1>9. ~(t.used < r.shrink)
  BY <1>1, <1>7, <1>8
<1>10. r.grow < r.size
  BY <1>8, GrowBounds
<1>11. Resized(t, r)
  BY <1>1, <1>7, <1>8, InShapes
<1>12. maybe_shrink_table(t) = IF r.size # t.size THEN transfer_table(r, t) ELSE r
  <2>1. ~(r.size < INIT_SIZE)
    BY <1>1, <1>8
  <2> QED
    BY <2>1 DEF maybe_shrink_table, r, g
<1> QED
  BY <1>7, <1>9, <1>10, <1>11, <1>12

------------------------------------------------------------------------------
(* What each operation does to a table before its size is looked at.       *)
LEMMA OrderType ==
    ASSUME NEW t, Table(t)
    PROVE  /\ KeysUpTo(t, t.count) \in Seq(Keys)
           /\ Len(KeysUpTo(t, t.count)) = t.used
           /\ DOMAIN KeysUpTo(t, t.count) = 1..t.used
<1> DEFINE o == KeysUpTo(t, t.count)
           f == [r \in 1..t.used |-> t.keys[t.map[Ranked[Counted(t)][r]]]]
<1>1. t.used \in Nat
  BY TableType DEF Table
<1>2. o = f /\ \A r \in 1..t.used : o[r] \in Keys
  BY OrderIs
<1> HIDE DEF o
<1>3. o \in [1..t.used -> Keys]
  BY <1>2
<1> QED
  BY <1>1, <1>3 DEF o

\* What insert_common() and dict_insert() make of t.
Filled(t, k, v, j)   == [t EXCEPT !.map[t.count] = j, !.keys[j] = k, !.vals[j] = v,
                                  !.count = @ + 1, !.used = @ + 1]
Replaced(t, k, v, i) == [t EXCEPT !.keys[i] = k, !.vals[i] = v]

LEMMA AddTable ==
    ASSUME NEW t, Table(t), t.count < t.size, NEW k \in Keys, NEW v \in Vals, NEW j,
           j = seek_helper(t, k), t.keys[j] = NULL
    PROVE  LET u == Filled(t, k, v, j)
           IN  /\ Table(u) /\ Adds(t, u, k, v, j)
               /\ u.used = t.used + 1 /\ u.grow = t.grow /\ u.shrink = t.shrink
               /\ k \notin KeysOf(t) /\ KeysOf(u) = KeysOf(t) \cup {k}
               /\ Counted(u) = Counted(t) \cup {t.count}
               /\ t.count \in Buckets(t.size) /\ j \in Buckets(t.size)
               /\ \A m \in Counted(t) : m # t.count /\ t.map[m] # j
<1> DEFINE u == Filled(t, k, v, j)
<1>0. BucketsOK(t)
  BY DEF Table
<1>1. j \in Buckets(t.size) /\ k \notin KeysOf(t) /\ Reached(t.keys, t.size, hash[k], j)
  BY <1>0, SeekTable
<1>2. /\ t.size \in Nat /\ t.size > 0
      /\ t.used \in Nat /\ t.count \in Nat /\ t.grow \in Nat /\ t.shrink \in Nat
      /\ t.keys \in [Buckets(t.size) -> Keys \cup {NULL, DEAD}]
      /\ t.vals \in [Buckets(t.size) -> Vals \cup {NoVal}]
      /\ t.map \in [Buckets(t.size) -> {-1} \cup Buckets(t.size)]
  BY <1>0, TableType
<1>3. t \in Tables(t.size)
  BY <1>0 DEF BucketsOK
<1>4. /\ u.size = t.size /\ u.count = t.count + 1 /\ u.used = t.used + 1
      /\ u.grow = t.grow /\ u.shrink = t.shrink
      /\ u.keys = [t.keys EXCEPT ![j] = k]
      /\ u.vals = [t.vals EXCEPT ![j] = v]
      /\ u.map = [t.map EXCEPT ![t.count] = j]
  BY <1>3 DEF Tables, Filled
<1> HIDE DEF u
<1>5. u \in Tables(t.size)
  <2>1. u.keys \in [Buckets(t.size) -> Keys \cup {NULL, DEAD}]
    <3>1. k \in Keys \cup {NULL, DEAD}
      OBVIOUS
    <3> QED
      BY ONLY <1>1, <1>2, <1>4, <3>1
  <2>2. u.vals \in [Buckets(t.size) -> Vals \cup {NoVal}]
    <3>1. v \in Vals \cup {NoVal}
      OBVIOUS
    <3> QED
      BY ONLY <1>1, <1>2, <1>4, <3>1
  <2>3. u.map \in [Buckets(t.size) -> {-1} \cup Buckets(t.size)]
    <3>1. j \in {-1} \cup Buckets(t.size)
      BY <1>1
    <3> QED
      BY <1>2, <1>4, <3>1, ZenonT(60)
  <2>4. u.count \in Nat /\ u.used \in Nat
    BY <1>2, <1>4
  <2> QED
    BY <1>2, <1>3, <1>4, <2>1, <2>2, <2>3, <2>4 DEF Tables, u, Filled
<1>6. Adds(t, u, k, v, j)
  BY <1>4 DEF Adds
<1>7. /\ BucketsOK(u)
      /\ TakenIn(u) = TakenIn(t) \cup {j} /\ j \notin TakenIn(t)
      /\ KeysOf(u) = KeysOf(t) \cup {k}
      /\ Counted(u) = Counted(t) \cup {t.count}
      /\ t.count \in Buckets(t.size)
      /\ \A m \in Counted(t) : m # t.count /\ t.map[m] # j
  BY <1>0, <1>1, <1>5, <1>6, AddKeeps
<1>8. IsFiniteSet(TakenIn(t))
  <2>1. IsFiniteSet(Buckets(t.size))
    BY <1>2, RankedFull DEF Buckets
  <2>2. TakenIn(t) \subseteq Buckets(t.size)
    BY DEF TakenIn
  <2> QED
    BY <2>1, <2>2, FS_Subset
<1>9. u.used = Cardinality(TakenIn(u))
  <2>1. Cardinality(TakenIn(t) \cup {j}) = Cardinality(TakenIn(t)) + 1
    BY <1>7, <1>8, FS_AddElement
  <2> QED
    BY <1>4, <1>7, <2>1 DEF Table
<1> QED
  BY <1>1, <1>4, <1>6, <1>7, <1>9 DEF u, Table

(* The key comes last.                                                     *)
LEMMA AddMap ==
    ASSUME NEW t, Table(t), NEW u, Table(u), NEW k \in Keys, NEW v \in Vals,
           NEW j \in Buckets(t.size), t.count \in Buckets(t.size),
           Adds(t, u, k, v, j), u.used = t.used + 1, k \notin KeysOf(t),
           KeysOf(u) = KeysOf(t) \cup {k}, Counted(u) = Counted(t) \cup {t.count},
           \A m \in Counted(t) : m # t.count /\ t.map[m] # j
    PROVE  /\ KeysUpTo(u, u.count) = Append(KeysUpTo(t, t.count), k)
           /\ \A x \in Keys : ValueOf(u, x) = IF x = k THEN v ELSE ValueOf(t, x)
           /\ \A n \in Int : n <= t.count =>
                /\ KeysBefore(u, n) = KeysBefore(t, n)
                /\ \A m \in KeysBefore(t, n) : u.keys[u.map[m]] = t.keys[t.map[m]]
<1>1. /\ t.used \in Nat /\ t.count \in Nat
      /\ t.keys \in [Buckets(t.size) -> Keys \cup {NULL, DEAD}]
      /\ t.vals \in [Buckets(t.size) -> Vals \cup {NoVal}]
      /\ t.map \in [Buckets(t.size) -> {-1} \cup Buckets(t.size)]
  BY TableType DEF Table
<1>2. /\ u.keys[j] = k /\ u.vals[j] = v /\ u.map[t.count] = j
      /\ \A i \in Buckets(t.size) : i # j => u.keys[i] = t.keys[i] /\ u.vals[i] = t.vals[i]
      /\ \A m \in Buckets(t.size) : m # t.count => u.map[m] = t.map[m]
      /\ u.size = t.size /\ u.count = t.count + 1
  BY <1>1 DEF Adds
<1>3. /\ Counted(t) \in SUBSET Nat /\ IsFiniteSet(Counted(t)) /\ Cardinality(Counted(t)) = t.used
      /\ Counted(t) \in SUBSET (0..(t.count - 1))
      /\ \A m \in Counted(t) : t.map[m] \in TakenIn(t)
  BY UsedIsCounted
<1>4. \A m \in Counted(t) : /\ u.map[m] = t.map[m]
                            /\ u.keys[u.map[m]] = t.keys[t.map[m]]
                            /\ u.vals[u.map[m]] = t.vals[t.map[m]]
  <2> TAKE m \in Counted(t)
  <2>1. m \in Buckets(t.size) /\ m # t.count /\ t.map[m] # j /\ t.map[m] \in Buckets(t.size)
    BY <1>1, <1>3 DEF TakenIn, Counted, Leading
  <2> QED
    BY <1>2, <2>1
<1>5. KeysUpTo(u, u.count) = Append(KeysUpTo(t, t.count), k)
  <2> DEFINE o == KeysUpTo(t, t.count)
             w == KeysUpTo(u, u.count)
             c == t.used
             q == Ranked[Counted(t)]
             p == Ranked[Counted(u)]
  <2>1. o \in Seq(Keys) /\ Len(o) = c /\ DOMAIN o = 1..c
    BY OrderType
  <2>2. o = [r \in 1..c |-> t.keys[t.map[q[r]]]] /\ \A r \in 1..c : q[r] \in Counted(t)
    BY OrderIs
  <2>3. w = [r \in 1..u.used |-> u.keys[u.map[p[r]]]]
    BY OrderIs
  <2>4. p[c + 1] = t.count /\ \A r \in 1..c : p[r] = q[r]
    <3>1. \A y \in Counted(t) : y < t.count
      BY <1>1, <1>3
    <3> DEFINE S == Counted(t)
               x == t.count
    <3>2. x \in Nat /\ S \in SUBSET Nat /\ IsFiniteSet(S) /\ \A y \in S : y < x
      BY <1>1, <1>3, <3>1
    <3> HIDE DEF S, x
    <3>3. /\ \A r \in 1..Cardinality(S) : Ranked[S \cup {x}][r] = Ranked[S][r]
          /\ Ranked[S \cup {x}][Cardinality(S) + 1] = x
      BY <3>2, RankedAdd
    <3> QED
      BY <1>3, <3>3 DEF S, x
  <2> HIDE DEF o, w, p, q, c
  <2>5. c \in Nat /\ u.used = c + 1
    BY <1>1 DEF c
  <2>6. \A r \in 1..c : u.keys[u.map[p[r]]] = o[r]
    BY <1>4, <2>2, <2>4
  <2>7. u.keys[u.map[p[c + 1]]] = k
    BY <1>2, <2>4
  <2>8. w = [r \in 1..(c + 1) |-> IF r = c + 1 THEN k ELSE o[r]]
    <3>1. \A r \in 1..(c + 1) : r = c + 1 \/ r \in 1..c
      BY <2>5
    <3>2. \A r \in 1..c : r # c + 1
      BY <2>5
    <3> QED
      BY <2>3, <2>5, <2>6, <2>7, <3>1, <3>2
  <2>9. Append(o, k) = [r \in 1..(c + 1) |-> IF r = c + 1 THEN k ELSE o[r]]
    <3> DEFINE a == Append(o, k)
    <3>1. /\ a \in Seq(Keys) /\ Len(a) = c + 1 /\ a[c + 1] = k
          /\ \A r \in 1..c : a[r] = o[r]
      BY <2>1, AppendProperties
    <3> HIDE DEF a
    <3>2. a = [r \in 1..(c + 1) |-> a[r]]
      BY <3>1
    <3>3. \A r \in 1..(c + 1) : a[r] = IF r = c + 1 THEN k ELSE o[r]
      BY <2>5, <3>1
    <3> QED
      BY <3>2, <3>3 DEF a
  <2> QED
    BY <2>8, <2>9 DEF w, o
<1>6. ASSUME NEW x \in Keys
      PROVE  ValueOf(u, x) = IF x = k THEN v ELSE ValueOf(t, x)
  <2>1. \A i \in Buckets(t.size) : i # j => (Taken(u, i) <=> Taken(t, i))
    BY <1>1, <1>2 DEF Taken, Adds
  <2>2. CASE x = k
    <3>1. Taken(u, j)
      BY <1>1, <1>2, DictAssumption DEF Taken, Adds
    <3>2. j \in TakenIn(u)
      BY <1>2, <3>1 DEF TakenIn
    <3> QED
      BY <1>2, <2>2, <3>2, ValueIs
  <2>3. CASE x # k /\ x \in KeysOf(t)
    <3>1. PICK i \in TakenIn(t) : t.keys[i] = x
      BY <2>3 DEF KeysOf, TakenIn
    <3>2. PICK m \in Counted(t) : t.map[m] = i
      BY <3>1, UsedIsCounted
    <3>3. i # j /\ i \in Buckets(t.size) /\ Taken(t, i)
      BY <3>1, <3>2 DEF TakenIn
    <3>4. i \in TakenIn(u) /\ u.keys[i] = x /\ u.vals[i] = t.vals[i]
      BY <1>2, <2>1, <3>1, <3>3 DEF TakenIn
    <3>5. ValueOf(u, x) = u.vals[i] /\ ValueOf(t, x) = t.vals[i]
      BY <3>1, <3>4, ValueIs
    <3> QED
      BY <2>3, <3>4, <3>5
  <2>4. CASE x # k /\ x \notin KeysOf(t)
    <3>1. ValueOf(t, x) = NoVal /\ ValueOf(u, x) = NoVal
      BY <2>4, ValueIs
    <3> QED
      BY <2>4, <3>1
  <2> QED
    BY <2>2, <2>3, <2>4
<1>7. ASSUME NEW n \in Int, n <= t.count
      PROVE  /\ KeysBefore(u, n) = KeysBefore(t, n)
             /\ \A m \in KeysBefore(t, n) : u.keys[u.map[m]] = t.keys[t.map[m]]
  <2>1. Counted(u) \in SUBSET Nat
    BY UsedIsCounted
  <2>2. KeysBefore(t, n) = {m \in Counted(t) : m < n}
    <3>1. Leading(t) \subseteq Nat
      BY TableType DEF Table, Leading, Buckets
    <3> QED
      BY <1>1, <1>7, <3>1 DEF KeysBefore, Counted
  <2>3. KeysBefore(u, n) = {m \in Counted(u) : m < n}
    <3>1. Leading(u) \subseteq Nat
      BY TableType DEF Table, Leading, Buckets
    <3> QED
      BY <1>1, <1>2, <1>7, <3>1 DEF KeysBefore, Counted
  <2>4. ~(t.count < n)
    BY <1>1, <1>7
  <2> QED
    BY <1>4, <2>2, <2>3, <2>4
<1> QED
  BY <1>5, <1>6, <1>7

(* A list without its member p.                                            *)
LEMMA Without ==
    ASSUME NEW S, NEW o \in Seq(S), NEW p \in 1..Len(o)
    PROVE  SubSeq(o, 1, p - 1) \o SubSeq(o, p + 1, Len(o))
             = [r \in 1..(Len(o) - 1) |-> IF r < p THEN o[r] ELSE o[r + 1]]
<1> DEFINE c == Len(o)
           a == SubSeq(o, 1, p - 1)
           b == SubSeq(o, p + 1, c)
           w == a \o b
<1>1. c \in Nat /\ p \in 1..c /\ \A r \in 1..c : o[r] \in S
  BY LenProperties
<1> HIDE DEF c
<1>2. /\ p - 1 \in Int /\ p + 1 \in Int /\ c \in Int /\ 1 \in Int
      /\ \A r \in 1..(p - 1) : r \in 1..c
      /\ \A r \in (p + 1)..c : r \in 1..c
  BY <1>1
<1>3. /\ a \in Seq(S) /\ Len(a) = p - 1
      /\ \A r \in 1..(p - 1) : a[r] = o[r]
  <2>1. \A r \in 1..(p - 1) : o[r] \in S
    BY <1>1, <1>2
  <2>2. /\ a \in Seq(S) /\ Len(a) = IF 1 <= p - 1 THEN (p - 1) - 1 + 1 ELSE 0
        /\ \A r \in 1..((p - 1) - 1 + 1) : a[r] = o[1 + r - 1]
    BY <1>2, <2>1, SubSeqProperties
  <2> HIDE DEF a
  <2> QED
    BY <1>1, <2>2
<1>4. /\ b \in Seq(S) /\ Len(b) = c - p
      /\ \A r \in 1..(c - p) : b[r] = o[p + r]
  <2>1. \A r \in (p + 1)..c : o[r] \in S
    BY <1>1, <1>2
  <2>2. /\ b \in Seq(S) /\ Len(b) = IF p + 1 <= c THEN c - (p + 1) + 1 ELSE 0
        /\ \A r \in 1..(c - (p + 1) + 1) : b[r] = o[(p + 1) + r - 1]
    BY <1>2, <2>1, SubSeqProperties
  <2>3. \A r \in 1..(c - p) : r \in 1..(c - (p + 1) + 1) /\ (p + 1) + r - 1 = p + r
    BY <1>1
  <2> HIDE DEF b
  <2> QED
    BY <1>1, <2>2, <2>3
<1> HIDE DEF a, b
<1>5. /\ w \in Seq(S) /\ Len(w) = Len(a) + Len(b)
      /\ \A r \in 1..(Len(a) + Len(b)) : w[r] = IF r <= Len(a) THEN a[r] ELSE b[r - Len(a)]
  BY <1>3, <1>4, ConcatProperties
<1> HIDE DEF w
<1>6. Len(a) + Len(b) = c - 1
  BY <1>1, <1>3, <1>4
<1>7. w = [r \in 1..(c - 1) |-> w[r]]
  BY <1>5, <1>6
<1>8. ASSUME NEW r \in 1..(c - 1)
      PROVE  w[r] = IF r < p THEN o[r] ELSE o[r + 1]
  <2>1. w[r] = IF r <= p - 1 THEN a[r] ELSE b[r - (p - 1)]
    BY <1>3, <1>5, <1>6
  <2>2. CASE r < p
    <3>1. r <= p - 1 /\ r \in 1..(p - 1)
      BY <1>1, <2>2
    <3> QED
      BY <1>3, <2>1, <2>2, <3>1
  <2>3. CASE ~(r < p)
    <3>1. ~(r <= p - 1) /\ r - (p - 1) \in 1..(c - p) /\ p + (r - (p - 1)) = r + 1
      BY <1>1, <2>3
    <3> QED
      BY <1>4, <2>1, <2>3, <3>1
  <2> QED
    BY <2>2, <2>3
<1>9. w = [r \in 1..(c - 1) |-> IF r < p THEN o[r] ELSE o[r + 1]]
  BY <1>7, <1>8
<1> QED
  BY <1>9 DEF w, a, b, c

\* The keys before position n.
Given(t, n) == {t.keys[t.map[m]] : m \in KeysBefore(t, n)}

LEMMA GivenType ==
    ASSUME NEW t, Table(t), NEW n \in Int, n <= t.count
    PROVE  Given(t, n) \subseteq KeysOf(t) /\ KeysBefore(t, n) = {m \in Counted(t) : m < n}
<1>1. Leading(t) \subseteq Nat /\ t.count \in Nat
  BY TableType DEF Table, Leading, Buckets
<1>2. KeysBefore(t, n) = {m \in Counted(t) : m < n}
  BY <1>1 DEF KeysBefore, Counted
<1>3. \A m \in Counted(t) : t.keys[t.map[m]] \in KeysOf(t)
  <2>1. \A m \in Counted(t) : t.map[m] \in TakenIn(t)
    BY UsedIsCounted
  <2> QED
    BY <2>1 DEF KeysOf, TakenIn
<1> QED
  BY <1>2, <1>3 DEF Given

(* remove(): the bucket is DEAD, the map is as it was.                     *)
Removes(t, u, i) == /\ u.size = t.size /\ u.count = t.count
                    /\ u.grow = t.grow /\ u.shrink = t.shrink /\ u.map = t.map
                    /\ u.used = t.used - 1
                    /\ u.keys = [t.keys EXCEPT ![i] = DEAD]
                    /\ u.vals = [t.vals EXCEPT ![i] = NoVal]

LEMMA RemoveTable ==
    ASSUME NEW t, Table(t), NEW i \in TakenIn(t)
    PROVE  LET u == [t EXCEPT !.keys[i] = DEAD, !.vals[i] = NoVal, !.used = @ - 1]
           IN  /\ Table(u) /\ Removes(t, u, i)
               /\ TakenIn(u) = TakenIn(t) \ {i}
               /\ KeysOf(u) = KeysOf(t) \ {t.keys[i]}
<1> DEFINE u == [t EXCEPT !.keys[i] = DEAD, !.vals[i] = NoVal, !.used = @ - 1]
           k == t.keys[i]
<1>0. BucketsOK(t)
  BY DEF Table
<1>1. /\ t.size \in Nat /\ t.size > 0
      /\ t.used \in Nat /\ t.count \in Nat /\ t.grow \in Nat /\ t.shrink \in Nat
      /\ t.keys \in [Buckets(t.size) -> Keys \cup {NULL, DEAD}]
      /\ t.vals \in [Buckets(t.size) -> Vals \cup {NoVal}]
      /\ t.map \in [Buckets(t.size) -> {-1} \cup Buckets(t.size)]
      /\ \A n \in Buckets(t.size) : Taken(t, n) <=> t.keys[n] \notin {NULL, DEAD}
      /\ t \in Tables(t.size)
  BY <1>0, TableType DEF BucketsOK
<1>2. i \in Buckets(t.size) /\ Taken(t, i) /\ k \in Keys /\ k # NULL /\ k # DEAD
  BY <1>0, TableType, DictAssumption DEF TakenIn
<1>3. Removes(t, u, i)
  BY <1>1 DEF Tables, Removes
<1>4. t.used >= 1 /\ IsFiniteSet(TakenIn(t)) /\ Cardinality(TakenIn(t) \ {i}) = t.used - 1
  <2>1. IsFiniteSet(Buckets(t.size))
    BY <1>1, RankedFull DEF Buckets
  <2>2. TakenIn(t) \subseteq Buckets(t.size)
    BY DEF TakenIn
  <2>3. IsFiniteSet(TakenIn(t))
    BY <2>1, <2>2, FS_Subset
  <2>4. Cardinality(TakenIn(t)) = t.used
    BY DEF Table
  <2>5. Cardinality(TakenIn(t) \ {i}) = t.used - 1
    BY <2>3, <2>4, FS_RemoveElement
  <2>6. Cardinality(TakenIn(t) \ {i}) \in Nat
    BY <2>3, FS_RemoveElement, FS_CardinalityType
  <2> QED
    BY <1>1, <2>3, <2>5, <2>6
<1> HIDE DEF u, k
<1>5. u \in Tables(t.size)
  <2>1. u.keys \in [Buckets(t.size) -> Keys \cup {NULL, DEAD}]
    BY <1>1, <1>3 DEF Removes
  <2>2. u.vals \in [Buckets(t.size) -> Vals \cup {NoVal}]
    BY <1>1, <1>3, ZenonT(60) DEF Removes
  <2>3. u.used \in Nat
    BY <1>1, <1>3, <1>4 DEF Removes
  <2> QED
    BY <1>1, <1>3, <2>1, <2>2, <2>3 DEF Removes, Tables, u
<1>6. /\ u.size = t.size /\ u.count = t.count /\ u.map = t.map /\ u.used = t.used - 1
      /\ u.keys[i] = DEAD
      /\ \A n \in Buckets(t.size) : n # i => u.keys[n] = t.keys[n] /\ u.vals[n] = t.vals[n]
      /\ DOMAIN u.keys = Buckets(t.size)
  BY <1>1, <1>2, <1>3 DEF Removes
<1>7. \A n \in Buckets(t.size) : u.keys[n] = NULL <=> t.keys[n] = NULL
  BY <1>2, <1>6, DictAssumption DEF k
<1>8. \A n : Taken(u, n) <=> Taken(t, n) /\ n # i
  BY <1>1, <1>6 DEF Taken
<1>9. TakenIn(u) = TakenIn(t) \ {i}
  BY <1>6, <1>8 DEF TakenIn
<1>10. MapOK(u)
  BY <1>0, <1>6, <1>7 DEF BucketsOK, MapOK
<1>11. KeysOK(u)
  <2> SUFFICES ASSUME NEW n \in Buckets(t.size), Taken(u, n)
               PROVE  /\ \A j \in Buckets(t.size) : u.keys[j] = u.keys[n] => j = n
                      /\ Reached(u.keys, t.size, hash[u.keys[n]], n)
                      /\ u.vals[n] \in Vals
    BY <1>6 DEF KeysOK
  <2>1. Taken(t, n) /\ n # i /\ u.keys[n] = t.keys[n] /\ u.vals[n] = t.vals[n]
    BY <1>6, <1>8
  <2>2. /\ \A j \in Buckets(t.size) : t.keys[j] = t.keys[n] => j = n
        /\ Reached(t.keys, t.size, hash[t.keys[n]], n)
        /\ t.vals[n] \in Vals
    BY <1>0, <2>1 DEF BucketsOK, KeysOK
  <2>3. hash[t.keys[n]] \in Nat /\ SizeOK(t.size) /\ t.keys[n] # DEAD
    BY <1>0, <2>1, TableType, DictAssumption DEF BucketsOK
  <2>4. Reached(u.keys, t.size, hash[t.keys[n]], n)
    BY <1>7, <2>2, <2>3, StillReached
  <2>5. \A j \in Buckets(t.size) : u.keys[j] = t.keys[n] => j = n
    BY <1>6, <2>2, <2>3
  <2> QED
    BY <2>1, <2>2, <2>4, <2>5
<1>12. Table(u)
  BY <1>0, <1>4, <1>5, <1>6, <1>9, <1>10, <1>11 DEF Table, BucketsOK
<1>13. KeysOf(u) = KeysOf(t) \ {k}
  <2>1. KeysOf(u) = {u.keys[n] : n \in TakenIn(u)} /\ KeysOf(t) = {t.keys[n] : n \in TakenIn(t)}
    BY DEF KeysOf, TakenIn
  <2>2. \A n \in TakenIn(t) : n \in Buckets(t.size) /\ (n # i => u.keys[n] = t.keys[n])
    BY <1>6 DEF TakenIn
  <2>3. \A n \in TakenIn(t) : t.keys[n] = k => n = i
    BY <1>0, <1>2 DEF k, TakenIn, BucketsOK, KeysOK
  <2>4. i \in TakenIn(t) /\ t.keys[i] = k
    BY DEF k
  <2> QED
    BY <1>9, <2>1, <2>2, <2>3, <2>4
<1> QED
  BY <1>3, <1>9, <1>12, <1>13 DEF u, k

(* The key is gone from its place in the order.                            *)
LEMMA RemoveMap ==
    ASSUME NEW t, Table(t), NEW u, Table(u), NEW i \in TakenIn(t), Removes(t, u, i),
           TakenIn(u) = TakenIn(t) \ {i}, KeysOf(u) = KeysOf(t) \ {t.keys[i]}
    PROVE  LET o == KeysUpTo(t, t.count)
               k == t.keys[i]
           IN  /\ \E p \in DOMAIN o :
                    /\ o[p] = k
                    /\ KeysUpTo(u, u.count) = SubSeq(o, 1, p - 1) \o SubSeq(o, p + 1, Len(o))
               /\ \A x \in Keys : ValueOf(u, x) = IF x = k THEN NoVal ELSE ValueOf(t, x)
               /\ \A n \in Int : n <= t.count => Given(u, n) = Given(t, n) \cap KeysOf(u)
<1> DEFINE o == KeysUpTo(t, t.count)
           k == t.keys[i]
           S == Counted(t)
           q == Ranked[S]
<1>1. /\ t.used \in Nat /\ t.count \in Nat
      /\ t.keys \in [Buckets(t.size) -> Keys \cup {NULL, DEAD}]
      /\ t.vals \in [Buckets(t.size) -> Vals \cup {NoVal}]
      /\ \A n : Taken(t, n) => n \in Buckets(t.size)
      /\ \A n : Taken(u, n) => n \in Buckets(u.size)
  BY TableType DEF Table
<1>2. /\ u.size = t.size /\ u.count = t.count /\ u.map = t.map /\ u.used = t.used - 1
      /\ \A n \in Buckets(t.size) : n # i => u.keys[n] = t.keys[n] /\ u.vals[n] = t.vals[n]
  BY <1>1 DEF Removes
<1>3. /\ S \in SUBSET Nat /\ IsFiniteSet(S) /\ Cardinality(S) = t.used
      /\ \A m \in S : t.map[m] \in TakenIn(t)
      /\ \A m, n \in S : t.map[m] = t.map[n] => m = n
      /\ \A n \in TakenIn(t) : \E m \in S : t.map[m] = n
  BY UsedIsCounted
<1>4. PICK m0 \in S : t.map[m0] = i
  BY <1>3
<1>5. \A n : Taken(u, n) <=> Taken(t, n) /\ n # i
  BY <1>1, <1>2 DEF TakenIn
<1>6. Counted(u) = S \ {m0}
  <2>1. Counted(u) = {m \in S : t.map[m] # i}
    BY <1>2, <1>5 DEF Counted, Leading
  <2> HIDE DEF S
  <2>2. \A m \in S : t.map[m] # i <=> m # m0
    BY <1>3, <1>4
  <2> QED
    BY <2>1, <2>2
<1> DEFINE p == Rank(S, m0)
<1>7. /\ p \in 1..t.used /\ q[p] = m0 /\ t.used - 1 \in Nat
      /\ \A r \in 1..(t.used - 1) :
            Ranked[Counted(u)][r] = IF r < p THEN q[r] ELSE q[r + 1]
      /\ \A r \in 1..t.used : q[r] = m0 => r = p
  <2> HIDE DEF S
  <2>1. p \in 1..t.used /\ q[p] = m0 /\ \A r \in 1..t.used : Rank(S, q[r]) = r
    BY <1>3, <1>4, RankedInOrder
  <2>2. /\ t.used - 1 \in Nat
        /\ \A r \in 1..(t.used - 1) : Ranked[S \ {m0}][r] = IF r < p THEN q[r] ELSE q[r + 1]
    <3>1. /\ Cardinality(S) - 1 \in Nat
          /\ \A r \in 1..(Cardinality(S) - 1) :
                Ranked[S \ {m0}][r] = IF r < Rank(S, m0) THEN Ranked[S][r] ELSE Ranked[S][r + 1]
      BY <1>3, <1>4, RankedRemove
    <3> QED
      BY <1>3, <3>1
  <2> QED
    BY <1>6, <2>1, <2>2
<1>8. \A m \in S : m # m0 => u.keys[t.map[m]] = t.keys[t.map[m]]
  BY <1>2, <1>3, <1>4 DEF TakenIn
<1>9. \E r \in DOMAIN o : /\ o[r] = k
                          /\ KeysUpTo(u, u.count) = SubSeq(o, 1, r - 1) \o SubSeq(o, r + 1, Len(o))
  <2> DEFINE w == KeysUpTo(u, u.count)
             c == t.used
  <2>1. o \in Seq(Keys) /\ Len(o) = c /\ DOMAIN o = 1..c
    BY OrderType
  <2>2. o = [r \in 1..c |-> t.keys[t.map[q[r]]]] /\ \A r \in 1..c : q[r] \in S
    BY OrderIs
  <2>3. w = [r \in 1..(c - 1) |-> u.keys[t.map[Ranked[Counted(u)][r]]]]
    <3>1. w = [r \in 1..u.used |-> u.keys[u.map[Ranked[Counted(u)][r]]]]
      BY OrderIs
    <3> QED
      BY <1>2, <3>1
  <2> HIDE DEF S, o, w, q, p
  <2>4. SubSeq(o, 1, p - 1) \o SubSeq(o, p + 1, Len(o))
          = [r \in 1..(c - 1) |-> IF r < p THEN o[r] ELSE o[r + 1]]
    BY <1>7, <2>1, Without, SMTT(30)
  <2>5. ASSUME NEW r \in 1..(c - 1)
        PROVE  u.keys[t.map[Ranked[Counted(u)][r]]] = IF r < p THEN o[r] ELSE o[r + 1]
    <3>1. c \in Nat /\ p \in 1..c
      BY <1>1, <1>7 DEF c
    <3>2. CASE r < p
      <4>1. Ranked[Counted(u)][r] = q[r] /\ r \in 1..c /\ r # p
        BY <1>7, <3>1, <3>2
      <4>2. q[r] \in S /\ q[r] # m0
        BY <1>7, <2>2, <4>1
      <4>3. u.keys[t.map[q[r]]] = t.keys[t.map[q[r]]]
        BY <1>8, <4>2
      <4>4. t.keys[t.map[q[r]]] = o[r]
        BY <2>2, <4>1
      <4> QED
        BY <3>2, <4>1, <4>3, <4>4
    <3>3. CASE ~(r < p)
      <4>1. Ranked[Counted(u)][r] = q[r + 1] /\ r + 1 \in 1..c /\ r + 1 # p
        BY <1>7, <3>1, <3>3
      <4>2. q[r + 1] \in S /\ q[r + 1] # m0
        BY <1>7, <2>2, <4>1
      <4>3. u.keys[t.map[q[r + 1]]] = t.keys[t.map[q[r + 1]]]
        BY <1>8, <4>2
      <4>4. t.keys[t.map[q[r + 1]]] = o[r + 1]
        BY <2>2, <4>1
      <4> QED
        BY <3>3, <4>1, <4>3, <4>4
    <3> QED
      BY <3>2, <3>3
  <2>6. w = SubSeq(o, 1, p - 1) \o SubSeq(o, p + 1, Len(o))
    BY <2>3, <2>4, <2>5
  <2>7. p \in DOMAIN o /\ o[p] = k
    BY <1>4, <1>7, <2>1, <2>2
  <2> QED
    BY <2>6, <2>7 DEF w
<1>10. ASSUME NEW x \in Keys
       PROVE  ValueOf(u, x) = IF x = k THEN NoVal ELSE ValueOf(t, x)
  <2>1. CASE x \in KeysOf(u)
    <3>1. PICK n \in TakenIn(u) : u.keys[n] = x
      BY <2>1 DEF KeysOf, TakenIn
    <3>2. n \in TakenIn(t) /\ n \in Buckets(t.size) /\ n # i /\ x # k
      BY <2>1, <3>1 DEF TakenIn
    <3>3. t.keys[n] = x /\ u.vals[n] = t.vals[n]
      BY <1>2, <3>1, <3>2
    <3>4. ValueOf(u, x) = u.vals[n] /\ ValueOf(t, x) = t.vals[n]
      BY <3>1, <3>2, <3>3, ValueIs
    <3> QED
      BY <3>2, <3>3, <3>4
  <2>2. CASE x \notin KeysOf(u)
    <3>1. ValueOf(u, x) = NoVal
      BY <2>2, ValueIs
    <3>2. x # k => ValueOf(t, x) = NoVal
      BY <2>2, ValueIs
    <3> QED
      BY <3>1, <3>2
  <2> QED
    BY <2>1, <2>2
<1>11. ASSUME NEW n \in Int, n <= t.count
       PROVE  Given(u, n) = Given(t, n) \cap KeysOf(u)
  <2>1. KeysBefore(t, n) = {m \in S : m < n} /\ Given(t, n) \subseteq KeysOf(t)
    BY <1>11, GivenType
  <2>2. KeysBefore(u, n) = {m \in S : m < n /\ m # m0}
    <3>1. n <= u.count
      BY <1>2, <1>11
    <3>2. KeysBefore(u, n) = {m \in Counted(u) : m < n}
      BY <1>11, <3>1, GivenType
    <3> QED
      BY <1>6, <3>2
  <2>3. Given(t, n) = {t.keys[t.map[m]] : m \in {m \in S : m < n}}
    BY <2>1 DEF Given
  <2>4. Given(u, n) = {u.keys[t.map[m]] : m \in {m \in S : m < n /\ m # m0}}
    BY <1>2, <2>2 DEF Given
  <2>5. \A m \in S : m # m0 => t.keys[t.map[m]] # k
    <3>1. \A j \in TakenIn(t) : t.keys[j] = k => j = i
      BY DEF TakenIn, Table, BucketsOK, KeysOK
    <3> QED
      BY <1>3, <1>4, <3>1
  <2>6. t.keys[t.map[m0]] = k
    BY <1>4
  <2> HIDE DEF S, k
  <2>7. Given(u, n) = Given(t, n) \ {k}
    BY <1>8, <2>3, <2>4, <2>5, <2>6
  <2>8. KeysOf(u) = KeysOf(t) \ {k}
    BY DEF k
  <2> QED
    BY <2>1, <2>7, <2>8
<1> QED
  BY <1>9, <1>10, <1>11 DEF o, k

(* An insertion that replaces the value of a key that is there.            *)
LEMMA ReplaceTable ==
    ASSUME NEW t, Table(t), NEW i \in TakenIn(t), NEW k, k = t.keys[i], NEW v \in Vals
    PROVE  LET u == Replaced(t, k, v, i)
           IN  /\ Table(u)
               /\ u.size = t.size /\ u.used = t.used /\ u.count = t.count
               /\ u.grow = t.grow /\ u.shrink = t.shrink /\ u.map = t.map /\ u.keys = t.keys
               /\ \A x \in Keys : ValueOf(u, x) = IF x = k THEN v ELSE ValueOf(t, x)
<1> DEFINE u == Replaced(t, k, v, i)
<1>0. BucketsOK(t)
  BY DEF Table
<1>1. /\ t.size \in Nat /\ t.size > 0
      /\ t.keys \in [Buckets(t.size) -> Keys \cup {NULL, DEAD}]
      /\ t.vals \in [Buckets(t.size) -> Vals \cup {NoVal}]
      /\ t \in Tables(t.size)
  BY <1>0, TableType DEF BucketsOK
<1>2. i \in Buckets(t.size) /\ Taken(t, i) /\ k \in Keys
  BY <1>0, TableType DEF TakenIn
<1>3. /\ u.size = t.size /\ u.used = t.used /\ u.count = t.count
      /\ u.grow = t.grow /\ u.shrink = t.shrink /\ u.map = t.map
      /\ u.keys = [t.keys EXCEPT ![i] = k] /\ u.vals = [t.vals EXCEPT ![i] = v]
  BY <1>1 DEF Tables, Replaced
<1>4. u.keys = t.keys
  BY <1>1, <1>2, <1>3
<1> HIDE DEF u
<1>5. /\ u.vals \in [Buckets(t.size) -> Vals \cup {NoVal}]
      /\ u.vals[i] = v /\ \A n \in Buckets(t.size) : n # i => u.vals[n] = t.vals[n]
  <2>1. v \in Vals \cup {NoVal}
    OBVIOUS
  <2> QED
    BY ONLY <1>1, <1>2, <1>3, <2>1
<1>6. u \in Tables(t.size)
  BY <1>1, <1>3, <1>4, <1>5 DEF Tables, u, Replaced
<1>7. \A n : Taken(u, n) <=> Taken(t, n)
  BY <1>4 DEF Taken
<1>8. MapOK(u)
  BY <1>0, <1>3, <1>4 DEF BucketsOK, MapOK
<1>9. KeysOK(u)
  <2> SUFFICES ASSUME NEW n \in Buckets(t.size), Taken(t, n)
               PROVE  /\ \A j \in Buckets(t.size) : t.keys[j] = t.keys[n] => j = n
                      /\ Reached(t.keys, t.size, hash[t.keys[n]], n)
                      /\ u.vals[n] \in Vals
    BY <1>3, <1>4, <1>7 DEF KeysOK
  <2>1. /\ \A j \in Buckets(t.size) : t.keys[j] = t.keys[n] => j = n
        /\ Reached(t.keys, t.size, hash[t.keys[n]], n)
        /\ t.vals[n] \in Vals
    BY <1>0 DEF BucketsOK, KeysOK
  <2> QED
    BY <1>5, <2>1
<1>10. TakenIn(u) = TakenIn(t)
  BY <1>3, <1>7 DEF TakenIn
<1>11. Table(u)
  BY <1>0, <1>3, <1>6, <1>8, <1>9, <1>10 DEF Table, BucketsOK
<1>12. ASSUME NEW x \in Keys
       PROVE  ValueOf(u, x) = IF x = k THEN v ELSE ValueOf(t, x)
  <2>1. KeysOf(u) = KeysOf(t)
    BY <1>3, <1>4, <1>7 DEF KeysOf
  <2>2. CASE x \in KeysOf(t)
    <3>1. PICK n \in TakenIn(t) : t.keys[n] = x
      BY <2>2 DEF KeysOf, TakenIn
    <3>2. ValueOf(t, x) = t.vals[n] /\ ValueOf(u, x) = u.vals[n]
      BY <1>4, <1>10, <1>11, <3>1, ValueIs
    <3>3. x = k <=> n = i
      BY <1>0, <1>2, <3>1 DEF TakenIn, BucketsOK, KeysOK
    <3>4. n \in Buckets(t.size)
      BY <3>1 DEF TakenIn
    <3> QED
      BY <1>5, <3>2, <3>3, <3>4
  <2>3. CASE x \notin KeysOf(t)
    <3>1. ValueOf(t, x) = NoVal /\ ValueOf(u, x) = NoVal
      BY <1>11, <2>1, <2>3, ValueIs
    <3>2. k \in KeysOf(t)
      BY <1>2 DEF KeysOf
    <3> QED
      BY <2>3, <3>1, <3>2
  <2> QED
    BY <2>2, <2>3
<1> QED
  BY <1>3, <1>4, <1>11, <1>12 DEF u

(* dict_clear_noresize(): every bucket is empty; the map is as it was.     *)
LEMMA ClearTable ==
    ASSUME NEW t, Table(t)
    PROVE  LET u == dict_clear_noresize(t)
           IN  /\ Table(u) /\ Orderly(u)
               /\ u.size = t.size /\ u.used = 0 /\ u.count = 0
               /\ u.grow = t.grow /\ u.shrink = t.shrink /\ u.map = t.map
               /\ KeysOf(u) = {} /\ KeysUpTo(u, u.count) = << >>
               /\ \A x \in Keys : ValueOf(u, x) = NoVal
<1> DEFINE u == dict_clear_noresize(t)
           B == Buckets(t.size)
<1>0. BucketsOK(t)
  BY DEF Table
<1>1. t.size \in Nat /\ t.size > 0 /\ t \in Tables(t.size)
  BY <1>0, TableType DEF BucketsOK
<1>2. /\ u.size = t.size /\ u.used = 0 /\ u.count = 0
      /\ u.grow = t.grow /\ u.shrink = t.shrink /\ u.map = t.map
      /\ u.keys = [i \in B |-> NULL] /\ u.vals = [i \in B |-> NoVal]
  BY <1>1 DEF Tables, dict_clear_noresize
<1>3. u \in Tables(t.size)
  BY <1>1 DEF Tables, dict_clear_noresize
<1> HIDE DEF u
<1>4. \A i : ~Taken(u, i)
  BY <1>2 DEF Taken
<1>5. MapOK(u) /\ KeysOK(u) /\ TakenIn(u) = {} /\ KeysOf(u) = {} /\ Leading(u) = {}
  <2>1. \A i \in B : u.keys[i] = NULL
    BY <1>2
  <2>2. MapOK(u)
    BY <1>2, <2>1 DEF MapOK
  <2> QED
    BY <1>4, <2>2 DEF KeysOK, TakenIn, KeysOf, Leading
<1>6. Table(u)
  <2>1. u.used = Cardinality(TakenIn(u))
    BY <1>2, <1>5, FS_EmptySet
  <2> QED
    BY <1>0, <1>1, <1>2, <1>3, <1>5, <2>1 DEF Table, BucketsOK
<1>7. KeysUpTo(u, u.count) = << >>
  <2>1. KeysUpTo(u, u.count) \in Seq(Keys) /\ Len(KeysUpTo(u, u.count)) = 0
    BY <1>2, <1>6, OrderType
  <2> QED
    BY <2>1, EmptySeq
<1>8. \A x \in Keys : ValueOf(u, x) = NoVal
  BY <1>5, <1>6, ValueIs
<1> QED
  BY <1>2, <1>5, <1>6, <1>7, <1>8 DEF u, Orderly

------------------------------------------------------------------------------
(* Tables between two operations.                                          *)

\* Nothing stale in the map.
Clean(t) == \A m \in Buckets(t.size) : m >= t.count => t.map[m] = -1

\* What clear() leaves in the map is gone before the table can shrink, and
\* is never beyond the place where the table grows.
Rest(t) == /\ Table(t) /\ Marked(t)
           /\ t.count <= t.grow
           /\ \A m \in Buckets(t.size) : m >= t.grow => t.map[m] = -1
           /\ t.shrink > 0 => Clean(t)

LEMMA RestBounds ==
    ASSUME NEW t, Rest(t)
    PROVE  /\ t.size \in Nat /\ t.count \in Nat /\ t.used \in Nat /\ t.grow \in Nat
           /\ t.used <= t.count /\ t.count <= t.grow /\ t.grow < t.size /\ t.count < t.size
<1>1. /\ t.size \in Nat /\ t.count \in Nat /\ t.used \in Nat /\ t.grow \in Nat
      /\ t.used <= t.count /\ t.count <= t.grow
  BY TableType, UsedIsCounted DEF Rest, Table
<1>2. INIT_SIZE \in Nat /\ INIT_SIZE >= 2 /\ t.size >= INIT_SIZE /\ t.grow = (t.size * 2) \div 3
  BY InitSize DEF Rest, Marked
<1>3. t.grow < t.size
  BY <1>1, <1>2, GrowBounds
<1> QED
  BY <1>1, <1>3

LEMMA CleanOrderly ==
    ASSUME NEW t, Table(t), Clean(t)
    PROVE  Orderly(t)
<1>1. /\ t.count \in Nat /\ t.size \in Nat /\ DOMAIN t.map = Buckets(t.size)
      /\ \A i : Taken(t, i) => i \in Buckets(t.size)
  BY TableType DEF Table
<1>2. ASSUME NEW m \in Leading(t)
      PROVE  m < t.count
  <2>1. m \in Buckets(t.size) /\ t.map[m] \in Buckets(t.size)
    BY <1>1 DEF Leading
  <2>2. t.map[m] # -1 /\ m \in Nat
    BY <1>1, <2>1 DEF Buckets
  <2>3. ~(m >= t.count)
    BY <2>1, <2>2 DEF Clean
  <2> QED
    BY <1>1, <2>2, <2>3
<1> QED
  BY <1>2 DEF Orderly

(* A table that transfer_table() has made is at rest.                      *)
LEMMA Rebuilt ==
    ASSUME NEW t, Table(t), Orderly(t), NEW r, Resized(t, r), Marked(r),
           t.used <= r.grow, r.grow < r.size
    PROVE  LET u == transfer_table(r, t)
           IN  Rest(u) /\ Clean(u) /\ SameMap(t, u) /\ u.size = r.size /\ u.used = t.used
<1> DEFINE u == transfer_table(r, t)
<1>1. t.used \in Nat /\ r.grow \in Nat /\ r.size \in Nat
  BY TableType DEF Table, Resized
<1>2. t.used < r.size
  BY <1>1
<1>3. /\ Table(u) /\ SameMap(t, u)
      /\ u.size = r.size /\ u.grow = r.grow /\ u.shrink = r.shrink
      /\ u.used = t.used /\ u.count = t.used
      /\ \A m \in Buckets(u.size) : m >= u.count => u.map[m] = -1
  BY <1>2, Transfer
<1> HIDE DEF u
<1>4. Clean(u) /\ Marked(u) /\ u.count <= u.grow
  BY <1>3 DEF Clean, Marked
<1>5. \A m \in Buckets(u.size) : m >= u.grow => m >= u.count
  BY <1>1, <1>3 DEF Buckets
<1> QED
  BY <1>3, <1>4, <1>5 DEF Rest, u

\* What becomes of the iterators' place: nothing, unless the table is rebuilt.
Follows(t, w) == w.size = t.size =>
                    /\ t.count <= w.count
                    /\ \A n \in Int : n <= t.count => Given(w, n) = Given(t, n) \cap KeysOf(w)

LEMMA RestInsert ==
    ASSUME NEW t, Rest(t), NEW k \in Keys, NEW v \in Vals, NEW i,
           i = seek_helper(t, k), t.keys[i] = NULL
    PROVE  LET w == insert_common(t, k, v, i)
           IN  /\ Rest(w) /\ (Clean(t) => Clean(w)) /\ Follows(t, w)
               /\ k \notin KeysOf(t)
               /\ \A x \in Keys : ValueOf(w, x) = IF x = k THEN v ELSE ValueOf(t, x)
               /\ KeysUpTo(w, w.count) = Append(KeysUpTo(t, t.count), k)
<1> DEFINE u == Filled(t, k, v, i)
           w == insert_common(t, k, v, i)
<1>1. /\ t.size \in Nat /\ t.count \in Nat /\ t.used \in Nat /\ t.grow \in Nat
      /\ t.used <= t.count /\ t.count <= t.grow /\ t.grow < t.size /\ t.count < t.size
  BY RestBounds
<1>2. Table(t) /\ Marked(t)
  BY DEF Rest
<1>3. w = maybe_grow_table(u)
  BY DEF insert_common, Filled
<1>4. /\ Table(u) /\ Adds(t, u, k, v, i)
      /\ u.used = t.used + 1 /\ u.grow = t.grow /\ u.shrink = t.shrink
      /\ k \notin KeysOf(t) /\ KeysOf(u) = KeysOf(t) \cup {k}
      /\ Counted(u) = Counted(t) \cup {t.count}
      /\ t.count \in Buckets(t.size) /\ i \in Buckets(t.size)
      /\ \A m \in Counted(t) : m # t.count /\ t.map[m] # i
  BY <1>1, <1>2, AddTable
<1> HIDE DEF u, w
<1>5. /\ KeysUpTo(u, u.count) = Append(KeysUpTo(t, t.count), k)
      /\ \A x \in Keys : ValueOf(u, x) = IF x = k THEN v ELSE ValueOf(t, x)
      /\ \A n \in Int : n <= t.count =>
           /\ KeysBefore(u, n) = KeysBefore(t, n)
           /\ \A m \in KeysBefore(t, n) : u.keys[u.map[m]] = t.keys[t.map[m]]
  BY <1>2, <1>4, AddMap
<1>6. /\ u.size = t.size /\ u.count = t.count + 1
      /\ \A m \in Buckets(t.size) : m # t.count => u.map[m] = t.map[m]
  <2>1. t.map \in [Buckets(t.size) -> {-1} \cup Buckets(t.size)]
    BY <1>2, TableType DEF Table
  <2> QED
    BY <1>4, <2>1 DEF Adds
<1>7. Marked(u)
  BY <1>2, <1>4, <1>6 DEF Marked
<1>8. Clean(t) => Clean(u)
  <2>1. \A m \in Buckets(t.size) : m >= t.count + 1 => m >= t.count /\ m # t.count
    BY <1>1 DEF Buckets
  <2> QED
    BY <1>6, <2>1 DEF Clean
<1>9. u \in Tables(u.size) /\ u.count <= u.grow + 1
  BY <1>1, <1>4, <1>6 DEF Table, BucketsOK
<1>10. PICK r : /\ w = IF r.size # u.size THEN transfer_table(r, u) ELSE r
                /\ u.count <= u.grow => r = u
                /\ u.count > u.grow => /\ Resized(u, r) /\ Marked(r) /\ r.size > u.size
                                       /\ u.count <= r.grow /\ r.grow < r.size
  BY <1>3, <1>7, <1>9, Grown
<1>11. CASE u.count <= u.grow
  <2>1. w = u
    BY <1>10, <1>11
  <2>2. \A m \in Buckets(u.size) : m >= u.grow => u.map[m] = -1
    <3>1. \A m \in Buckets(t.size) : m >= t.grow => m # t.count /\ t.map[m] = -1
      BY <1>1, <1>4, <1>6, <1>11 DEF Rest, Buckets
    <3> QED
      BY <1>4, <1>6, <3>1
  <2>3. Rest(u)
    <3>1. u.shrink > 0 => Clean(u)
      BY <1>4, <1>8 DEF Rest
    <3> QED
      BY <1>4, <1>7, <1>11, <2>2, <3>1 DEF Rest
  <2>4. Follows(t, u)
    <3>1. t.count <= u.count
      BY <1>1, <1>6
    <3>2. ASSUME NEW n \in Int, n <= t.count
          PROVE  Given(u, n) = Given(t, n) \cap KeysOf(u)
      <4>1. Given(u, n) = Given(t, n)
        BY <1>5, <3>2 DEF Given
      <4>2. Given(t, n) \subseteq KeysOf(t)
        BY <1>2, <3>2, GivenType
      <4> QED
        BY <1>4, <4>1, <4>2
    <3> QED
      BY <3>1, <3>2 DEF Follows
  <2> QED
    BY <1>4, <1>5, <1>8, <2>1, <2>3, <2>4 DEF w
<1>12. CASE u.count > u.grow
  <2>1. /\ Resized(u, r) /\ Marked(r) /\ r.size > u.size
        /\ u.count <= r.grow /\ r.grow < r.size
    BY <1>10, <1>12
  <2>2. r.size \in Nat /\ r.grow \in Nat
    BY <2>1 DEF Resized
  <2>3. w = transfer_table(r, u)
    BY <1>1, <1>6, <1>10, <2>1, <2>2
  <2>4. Orderly(u)
    <3>1. \A m \in Buckets(t.size) : m >= u.count => u.map[m] = -1
      <4>1. \A m \in Buckets(t.size) : m >= t.count + 1 => m >= t.grow /\ m # t.count
        BY <1>1, <1>4, <1>6, <1>12 DEF Buckets
      <4> QED
        BY <1>6, <4>1 DEF Rest
    <3>2. Clean(u)
      BY <1>6, <3>1 DEF Clean
    <3> QED
      BY <1>4, <3>2, CleanOrderly
  <2>5. u.used <= r.grow
    BY <1>1, <1>4, <1>6, <2>1, <2>2
  <2>6. Rest(w) /\ Clean(w) /\ SameMap(u, w) /\ w.size = r.size
    BY <1>4, <2>1, <2>3, <2>4, <2>5, Rebuilt
  <2>7. Follows(t, w)
    BY <1>1, <1>6, <2>1, <2>2, <2>6 DEF Follows
  <2> QED
    BY <1>4, <1>5, <2>6, <2>7 DEF SameMap, w
<1>13. u.count <= u.grow \/ u.count > u.grow
  BY <1>1, <1>4, <1>6
<1> QED
  BY <1>11, <1>12, <1>13

LEMMA RestRemove ==
    ASSUME NEW t, Rest(t), NEW i \in TakenIn(t)
    PROVE  LET w == remove(t, i)
               o == KeysUpTo(t, t.count)
               k == t.keys[i]
           IN  /\ Rest(w) /\ (Clean(t) => Clean(w)) /\ Follows(t, w)
               /\ \A x \in Keys : ValueOf(w, x) = IF x = k THEN NoVal ELSE ValueOf(t, x)
               /\ \E p \in DOMAIN o :
                    /\ o[p] = k
                    /\ KeysUpTo(w, w.count) = SubSeq(o, 1, p - 1) \o SubSeq(o, p + 1, Len(o))
<1> DEFINE u == [t EXCEPT !.keys[i] = DEAD, !.vals[i] = NoVal, !.used = @ - 1]
           w == remove(t, i)
           o == KeysUpTo(t, t.count)
           k == t.keys[i]
<1>1. /\ t.size \in Nat /\ t.count \in Nat /\ t.used \in Nat /\ t.grow \in Nat
      /\ t.used <= t.count /\ t.count <= t.grow /\ t.grow < t.size
  BY RestBounds
<1>2. Table(t) /\ Marked(t)
  BY DEF Rest
<1>3. w = maybe_shrink_table(u)
  BY DEF remove
<1>4. /\ Table(u) /\ Removes(t, u, i)
      /\ TakenIn(u) = TakenIn(t) \ {i}
      /\ KeysOf(u) = KeysOf(t) \ {t.keys[i]}
  BY <1>2, RemoveTable
<1> HIDE DEF u, w
<1>5. /\ \E p \in DOMAIN o :
           /\ o[p] = k
           /\ KeysUpTo(u, u.count) = SubSeq(o, 1, p - 1) \o SubSeq(o, p + 1, Len(o))
      /\ \A x \in Keys : ValueOf(u, x) = IF x = k THEN NoVal ELSE ValueOf(t, x)
      /\ \A n \in Int : n <= t.count => Given(u, n) = Given(t, n) \cap KeysOf(u)
  BY <1>2, <1>4, RemoveMap
<1> HIDE DEF o, k
<1>6. /\ u.size = t.size /\ u.count = t.count /\ u.used = t.used - 1
      /\ u.grow = t.grow /\ u.shrink = t.shrink /\ u.map = t.map
  BY <1>4 DEF Removes
<1>7. Marked(u) /\ u \in Tables(u.size) /\ u.used <= u.grow /\ u.used \in Nat
  BY <1>1, <1>2, <1>4, <1>6, TableType DEF Marked, Table, BucketsOK
<1>8. (Clean(t) => Clean(u)) /\ (u.shrink > 0 => Clean(u))
  BY <1>6 DEF Clean, Rest
<1>9. PICK r : /\ w = IF r.size # u.size THEN transfer_table(r, u) ELSE r
               /\ \/ r = u
                  \/ /\ u.used < u.shrink /\ Resized(u, r)
                     /\ r.size < u.size /\ r.grow < r.size
               /\ Marked(r) /\ u.used <= r.grow /\ ~(u.used < r.shrink)
  BY <1>3, <1>7, Shrunk
<1>10. CASE r = u
  <2>1. w = u
    BY <1>9, <1>10
  <2>2. Rest(u)
    BY <1>4, <1>6, <1>7, <1>8 DEF Rest
  <2>3. Follows(t, u)
    BY <1>1, <1>5, <1>6 DEF Follows
  <2> QED
    BY <1>5, <1>8, <2>1, <2>2, <2>3 DEF w, o, k
<1>11. CASE u.used < u.shrink /\ Resized(u, r) /\ r.size < u.size /\ r.grow < r.size
  <2>1. r.size \in Nat /\ u.size \in Nat /\ u.shrink \in Nat
    BY <1>4, <1>11, TableType DEF Resized, Table
  <2>2. w = transfer_table(r, u)
    BY <1>9, <1>11, <2>1
  <2>3. Orderly(u)
    <3>1. u.shrink > 0
      BY <1>7, <1>11, <2>1
    <3> QED
      BY <1>4, <1>8, <3>1, CleanOrderly
  <2>4. Rest(w) /\ Clean(w) /\ SameMap(u, w) /\ w.size = r.size
    BY <1>4, <1>9, <1>11, <2>2, <2>3, Rebuilt
  <2>5. Follows(t, w)
    BY <1>6, <1>11, <2>1, <2>4 DEF Follows
  <2> QED
    BY <1>5, <2>4, <2>5 DEF SameMap, w, o, k
<1> QED
  BY <1>9, <1>10, <1>11

LEMMA RestClear ==
    ASSUME NEW t, Rest(t)
    PROVE  LET w == dict_clear(t)
           IN  /\ Rest(w)
               /\ \A x \in Keys : ValueOf(w, x) = NoVal
               /\ KeysUpTo(w, w.count) = << >>
<1> DEFINE u == dict_clear_noresize(t)
           w == dict_clear(t)
<1>1. Table(t) /\ Marked(t)
  BY DEF Rest
<1>2. /\ Table(u) /\ Orderly(u)
      /\ u.size = t.size /\ u.used = 0 /\ u.count = 0
      /\ u.grow = t.grow /\ u.shrink = t.shrink /\ u.map = t.map
      /\ KeysOf(u) = {} /\ KeysUpTo(u, u.count) = << >>
      /\ \A x \in Keys : ValueOf(u, x) = NoVal
  BY <1>1, ClearTable
<1>3. w = maybe_shrink_table(u)
  BY DEF dict_clear
<1> HIDE DEF u, w
<1>4. Marked(u) /\ u \in Tables(u.size) /\ u.used <= u.grow /\ u.grow \in Nat /\ u.shrink \in Nat
  BY <1>1, <1>2, TableType DEF Marked, Table, BucketsOK
<1>5. PICK r : /\ w = IF r.size # u.size THEN transfer_table(r, u) ELSE r
               /\ \/ r = u
                  \/ /\ u.used < u.shrink /\ Resized(u, r)
                     /\ r.size < u.size /\ r.grow < r.size
               /\ Marked(r) /\ u.used <= r.grow /\ ~(u.used < r.shrink)
  BY <1>3, <1>4, Shrunk
<1>6. CASE r = u
  <2>1. w = u
    BY <1>5, <1>6
  <2>2. ~(u.shrink > 0)
    BY <1>2, <1>4, <1>5, <1>6
  <2>3. Rest(u)
    BY <1>2, <1>4, <2>2 DEF Rest
  <2> QED
    BY <1>2, <2>1, <2>3 DEF w
<1>7. CASE u.used < u.shrink /\ Resized(u, r) /\ r.size < u.size /\ r.grow < r.size
  <2>1. r.size \in Nat /\ u.size \in Nat
    BY <1>2, <1>7, TableType DEF Resized, Table
  <2>2. w = transfer_table(r, u)
    BY <1>5, <1>7, <2>1
  <2>3. Rest(w) /\ SameMap(u, w)
    BY <1>2, <1>5, <1>7, <2>2, Rebuilt
  <2> QED
    BY <1>2, <2>3 DEF SameMap, w
<1> QED
  BY <1>5, <1>6, <1>7

LEMMA RestReplace ==
    ASSUME NEW t, Rest(t), NEW i \in TakenIn(t), NEW k, k = t.keys[i], NEW v \in Vals
    PROVE  LET w == Replaced(t, k, v, i)
           IN  /\ Rest(w) /\ (Clean(t) => Clean(w)) /\ Follows(t, w)
               /\ w.used = t.used
               /\ \A x \in Keys : ValueOf(w, x) = IF x = k THEN v ELSE ValueOf(t, x)
               /\ KeysUpTo(w, w.count) = KeysUpTo(t, t.count)
<1> DEFINE w == Replaced(t, k, v, i)
<1>1. Table(t)
  BY DEF Rest
<1>2. /\ Table(w)
      /\ w.size = t.size /\ w.used = t.used /\ w.count = t.count
      /\ w.grow = t.grow /\ w.shrink = t.shrink /\ w.map = t.map /\ w.keys = t.keys
      /\ \A x \in Keys : ValueOf(w, x) = IF x = k THEN v ELSE ValueOf(t, x)
  BY <1>1, ReplaceTable
<1> HIDE DEF w
<1>3. Clean(t) <=> Clean(w)
  BY <1>2 DEF Clean
<1>4. Rest(w)
  BY <1>2, <1>3 DEF Rest, Marked
<1>5. Leading(w) = Leading(t) /\ KeysOf(w) = KeysOf(t)
  BY <1>2 DEF Leading, Taken, KeysOf
<1>6. KeysUpTo(w, w.count) = KeysUpTo(t, t.count)
  BY <1>2, <1>5 DEF KeysUpTo
<1>7. Follows(t, w)
  <2>1. t.count <= w.count
    BY <1>1, <1>2, TableType DEF Table
  <2>2. ASSUME NEW n \in Int, n <= t.count
        PROVE  Given(w, n) = Given(t, n) \cap KeysOf(w)
    <3>1. Given(w, n) = Given(t, n)
      BY <1>2, <1>5 DEF Given, KeysBefore
    <3>2. Given(t, n) \subseteq KeysOf(t)
      BY <1>1, <2>2, GivenType
    <3> QED
      BY <1>5, <3>1, <3>2
  <2> QED
    BY <2>1, <2>2 DEF Follows
<1> QED
  BY <1>2, <1>3, <1>4, <1>6, <1>7 DEF w

LEMMA RestNew ==
    /\ Rest(dictvar_new) /\ Clean(dictvar_new) /\ dictvar_new.used = 0
    /\ \A x \in Keys : ValueOf(dictvar_new, x) = NoVal
    /\ KeysUpTo(dictvar_new, dictvar_new.count) = << >>
<1> DEFINE B == Buckets(INIT_SIZE)
           g == (INIT_SIZE * 2) \div 3
           t == dictvar_new
<1>1. INIT_SIZE \in Nat /\ INIT_SIZE >= 2 /\ SizeOK(INIT_SIZE) /\ g \in Nat
  BY InitSize, GrowBounds
<1> DEFINE R(h) == [size : {INIT_SIZE}, used : {0}, count : {0}, grow : {h}, shrink : {0},
                    keys : {<< >>}, vals : {<< >>}, map : {<< >>}]
           e == [size |-> INIT_SIZE, used |-> 0, count |-> 0, grow |-> 0, shrink |-> 0,
                 keys |-> << >>, vals |-> << >>, map |-> << >>]
           x == refresh_grow_markers(e)
<1>2. t = bucket_alloc(x)
  BY DEF dictvar_new
<1>3. x \in R(g)
  <2>1. e \in R(0) /\ e.size = INIT_SIZE /\ e.used = 0
    OBVIOUS
  <2> HIDE DEF e
  <2>2. x = [e EXCEPT !.grow = g, !.shrink = 0]
    BY <1>1, <2>1 DEF refresh_grow_markers
  <2> HIDE DEF x, g
  <2> QED
    BY <2>1, <2>2
<1> HIDE DEF x, g, t
<1>4. /\ t.size = INIT_SIZE /\ t.used = 0 /\ t.count = 0 /\ t.grow = g /\ t.shrink = 0
      /\ t.keys = [i \in B |-> NULL] /\ t.vals = [i \in B |-> NoVal] /\ t.map = [i \in B |-> -1]
  BY <1>2, <1>3 DEF bucket_alloc
<1>5. t \in Tables(INIT_SIZE)
  <2>1. /\ t.keys \in [B -> Keys \cup {NULL, DEAD}]
        /\ t.vals \in [B -> Vals \cup {NoVal}]
        /\ t.map \in [B -> {-1} \cup B]
    BY <1>4
  <2>2. t = [x EXCEPT !.keys = t.keys, !.vals = t.vals, !.map = t.map]
    BY <1>2, <1>3, <1>4 DEF bucket_alloc
  <2>3. g \in Nat /\ 0 \in Nat
    BY <1>1
  <2> QED
    BY <1>3, <2>1, <2>2, <2>3 DEF Tables
<1>6. \A i : ~Taken(t, i)
  BY <1>4 DEF Taken
<1>7. MapOK(t) /\ KeysOK(t) /\ TakenIn(t) = {} /\ KeysOf(t) = {}
  <2>1. \A i \in B : t.keys[i] = NULL
    BY <1>4
  <2>2. MapOK(t)
    BY <1>4, <2>1 DEF MapOK
  <2> QED
    BY <1>6, <2>2 DEF KeysOK, TakenIn, KeysOf
<1>8. Table(t)
  <2>1. t.used = Cardinality(TakenIn(t))
    BY <1>4, <1>7, FS_EmptySet
  <2>2. t.count <= t.size
    BY <1>1, <1>4
  <2> QED
    BY <1>1, <1>4, <1>5, <1>7, <2>1, <2>2 DEF Table, BucketsOK
<1>9. Clean(t) /\ \A m \in Buckets(t.size) : m >= t.grow => t.map[m] = -1
  BY <1>4 DEF Clean
<1>10. Marked(t)
  BY <1>1, <1>4 DEF Marked, g
<1>11. t.count <= t.grow
  BY <1>1, <1>4
<1>12. KeysUpTo(t, t.count) = << >>
  <2>1. KeysUpTo(t, t.count) \in Seq(Keys) /\ Len(KeysUpTo(t, t.count)) = 0
    BY <1>4, <1>8, OrderType
  <2> QED
    BY <2>1, EmptySeq
<1> QED
  BY <1>4, <1>7, <1>8, <1>9, <1>10, <1>11, <1>12, ValueIs DEF t, Rest

LEMMA RestSame ==
    ASSUME NEW t, Rest(t)
    PROVE  Follows(t, t)
<1>1. Table(t) /\ t.count \in Nat
  BY RestBounds DEF Rest
<1>2. t.count <= t.count
  BY <1>1
<1>3. \A n \in Int : n <= t.count => Given(t, n) = Given(t, n) \cap KeysOf(t)
  BY <1>1, GivenType
<1> QED
  BY <1>2, <1>3 DEF Follows

------------------------------------------------------------------------------
(* The inductive invariant.  What an iterator has given are the keys behind*)
(* its place, which is never beyond the first count entries of the map.    *)
IInv ==
    /\ Rest(d) /\ len = d.used
    /\ clears \in Nat
    /\ clears = 0 => Clean(d)
    /\ iter \in [i : Int, given : SUBSET KeysOf(d)]
    /\ iter.i >= -1
    /\ iter.i >= 0 => clears = 0 /\ iter.i <= d.count /\ iter.given = Given(d, iter.i)

LEMMA InitIInv == Init => IInv
<1> SUFFICES ASSUME Init PROVE IInv
  OBVIOUS
<1>1. /\ d = dictvar_new /\ len = 0 /\ clears = 0
      /\ iter = [i |-> -1, given |-> {}]
  BY DEF Init, NoIterator
<1>2. Rest(d) /\ Clean(d) /\ d.used = 0
  BY <1>1, RestNew
<1>3. iter \in [i : Int, given : SUBSET KeysOf(d)] /\ iter.i = -1
  BY <1>1
<1> QED
  BY <1>1, <1>2, <1>3 DEF IInv

\* What an operation on the table does, but for clear().
Operation == /\ Rest(d') /\ (Clean(d) => Clean(d')) /\ Follows(d, d')
             /\ len' = d'.used
             /\ AsMap!Next

LEMMA MapOf ==
    /\ \A k \in Keys : AsMap!Absent(k) <=> ValueOf(d, k) = NoVal
    /\ \A k \in Keys : [x \in Keys |-> ValueOf(d, x)][k] = ValueOf(d, k)
BY DEF AsMap!Absent

LEMMA RefusedIs ==
    ASSUME IInv, Refused
    PROVE  Operation
<1>1. UNCHANGED <<d, len>> /\ res' = "error"
  BY DEF Refused
<1>2. Rest(d) /\ len = d.used /\ Follows(d, d)
  BY RestSame DEF IInv
<1>3. AsMap!Refuse
  BY <1>1 DEF AsMap!Refuse, Ordered
<1> QED
  BY <1>1, <1>2, <1>3 DEF Operation, AsMap!Next

LEMMA InsertIs ==
    ASSUME IInv, NEW flag, Insert(flag)
    PROVE  Operation
<1>1. PICK k \in Keys :
         LET i == seek_helper(d, k)
         IN  \/ Refused
             \/ /\ d.keys[i] # NULL
                /\ \E v \in Vals : d' = [d EXCEPT !.keys[i] = k, !.vals[i] = v]
                /\ res' = "ok" /\ UNCHANGED len
             \/ /\ d.keys[i] = NULL
                /\ \E v \in Vals : Done(insert_common(d, k, v, i), "ok")
  BY DEF Insert
<1> DEFINE i == seek_helper(d, k)
<1>2. Rest(d) /\ Table(d) /\ BucketsOK(d) /\ d.count < d.size /\ len = d.used
  BY RestBounds DEF IInv, Rest, Table
<1>3. /\ d.keys[i] = NULL \/ d.keys[i] = k
      /\ d.keys[i] = k => i \in TakenIn(d)
  BY <1>2, SeekTable
<1>4. CASE Refused
  BY <1>4, RefusedIs
<1>5. CASE d.keys[i] # NULL /\ ~Refused
  <2>1. d.keys[i] = k /\ i \in TakenIn(d)
    BY <1>3, <1>5
  <2>2. PICK v \in Vals : d' = Replaced(d, k, v, i) /\ res' = "ok" /\ UNCHANGED len
    BY <1>1, <1>5 DEF Replaced
  <2> HIDE DEF i
  <2>3. /\ Rest(d') /\ (Clean(d) => Clean(d')) /\ Follows(d, d')
        /\ d'.used = d.used
        /\ \A x \in Keys : ValueOf(d', x) = IF x = k THEN v ELSE ValueOf(d, x)
        /\ KeysUpTo(d', d'.count) = KeysUpTo(d, d.count)
    BY <1>2, <2>1, <2>2, RestReplace
  <2>4. ValueOf(d, k) # NoVal
    <3>1. ValueOf(d, k) = d.vals[i] /\ d.vals[i] \in Vals
      BY <1>2, <2>1, ValueIs
    <3> QED
      BY <3>1, DictAssumption
  <2>5. [x \in Keys |-> ValueOf(d', x)] = [[x \in Keys |-> ValueOf(d, x)] EXCEPT ![k] = v]
    BY <2>3
  <2>6. AsMap!Replace(k, v)
    BY <2>2, <2>3, <2>4, <2>5, MapOf DEF AsMap!Replace, Ordered
  <2> QED
    BY <1>2, <2>2, <2>3, <2>6 DEF Operation, AsMap!Next
<1>6. CASE d.keys[i] = NULL /\ ~Refused
  <2>1. PICK v \in Vals : /\ d' = insert_common(d, k, v, i)
                          /\ len' = insert_common(d, k, v, i).used
                          /\ res' = "ok"
    BY <1>1, <1>6 DEF Done
  <2>2. d.keys[i] = NULL /\ i = seek_helper(d, k)
    BY <1>6
  <2> HIDE DEF i
  <2>3. /\ Rest(d') /\ (Clean(d) => Clean(d')) /\ Follows(d, d')
        /\ k \notin KeysOf(d)
        /\ \A x \in Keys : ValueOf(d', x) = IF x = k THEN v ELSE ValueOf(d, x)
        /\ KeysUpTo(d', d'.count) = Append(KeysUpTo(d, d.count), k)
    BY <1>2, <2>1, <2>2, RestInsert
  <2>4. ValueOf(d, k) = NoVal
    BY <1>2, <2>3, ValueIs
  <2>5. [x \in Keys |-> ValueOf(d', x)] = [[x \in Keys |-> ValueOf(d, x)] EXCEPT ![k] = v]
    BY <2>3
  <2>6. AsMap!Add(k, v)
    BY <2>1, <2>3, <2>4, <2>5, MapOf DEF AsMap!Add, Ordered
  <2> QED
    BY <2>1, <2>3, <2>6 DEF Operation, AsMap!Next
<1> QED
  BY <1>4, <1>5, <1>6

LEMMA RemoveIs ==
    ASSUME IInv, dict_delitem
    PROVE  Operation
<1>1. PICK k \in Keys :
         LET i == seek_helper(d, k)
         IN  IF d.keys[i] = NULL THEN Refused ELSE Done(remove(d, i), "ok")
  BY DEF dict_delitem
<1> DEFINE i == seek_helper(d, k)
<1>2. Rest(d) /\ Table(d) /\ BucketsOK(d) /\ d.count < d.size
  BY RestBounds DEF IInv, Rest, Table
<1>3. /\ d.keys[i] = NULL \/ d.keys[i] = k
      /\ d.keys[i] = k => i \in TakenIn(d)
  BY <1>2, SeekTable
<1>4. CASE d.keys[i] = NULL
  BY <1>1, <1>4, RefusedIs
<1>5. CASE d.keys[i] # NULL
  <2>1. d.keys[i] = k /\ i \in TakenIn(d)
    BY <1>3, <1>5
  <2>2. d' = remove(d, i) /\ len' = remove(d, i).used /\ res' = "ok"
    BY <1>1, <1>5 DEF Done
  <2> HIDE DEF i
  <2> DEFINE o == KeysUpTo(d, d.count)
  <2>3. /\ Rest(d') /\ (Clean(d) => Clean(d')) /\ Follows(d, d')
        /\ \A x \in Keys : ValueOf(d', x) = IF x = k THEN NoVal ELSE ValueOf(d, x)
        /\ \E p \in DOMAIN o :
             /\ o[p] = k
             /\ KeysUpTo(d', d'.count) = SubSeq(o, 1, p - 1) \o SubSeq(o, p + 1, Len(o))
    BY <1>2, <2>1, <2>2, RestRemove
  <2>4. ValueOf(d, k) # NoVal
    <3>1. ValueOf(d, k) = d.vals[i] /\ d.vals[i] \in Vals
      BY <1>2, <2>1, ValueIs
    <3> QED
      BY <3>1, DictAssumption
  <2>5. [x \in Keys |-> ValueOf(d', x)] = [[x \in Keys |-> ValueOf(d, x)] EXCEPT ![k] = NoVal]
    BY <2>3
  <2>6. AsMap!Remove(k)
    BY <2>2, <2>3, <2>4, <2>5, MapOf DEF AsMap!Remove, Ordered
  <2> QED
    BY <2>2, <2>3, <2>6 DEF Operation, AsMap!Next
<1> QED
  BY <1>4, <1>5

LEMMA GetIs ==
    ASSUME IInv, dict_getitem
    PROVE  Operation
<1>1. PICK k \in Keys :
         LET i == seek_helper(d, k)
         IN  /\ res' = IF d.keys[i] = NULL THEN NoVal ELSE d.vals[i]
             /\ UNCHANGED <<d, len>>
  BY DEF dict_getitem
<1> DEFINE i == seek_helper(d, k)
<1>2. Rest(d) /\ Table(d) /\ BucketsOK(d) /\ d.count < d.size /\ len = d.used /\ Follows(d, d)
  BY RestBounds, RestSame DEF IInv, Rest, Table
<1>3. /\ d.keys[i] = NULL \/ d.keys[i] = k
      /\ d.keys[i] = k => i \in TakenIn(d)
      /\ d.keys[i] = NULL => k \notin KeysOf(d)
  BY <1>2, SeekTable
<1>4. res' = ValueOf(d, k)
  <2>1. d.keys[i] = NULL => ValueOf(d, k) = NoVal
    BY <1>2, <1>3, ValueIs
  <2>2. d.keys[i] # NULL => ValueOf(d, k) = d.vals[i]
    BY <1>2, <1>3, ValueIs
  <2> QED
    BY <1>1, <2>1, <2>2
<1> HIDE DEF i
<1>5. UNCHANGED <<d, len>>
  BY <1>1
<1>6. AsMap!Get(k)
  BY <1>4, <1>5 DEF AsMap!Get, Ordered
<1> QED
  BY <1>2, <1>5, <1>6 DEF Operation, AsMap!Next

LEMMA ClearIs ==
    ASSUME IInv, do_dict_clear
    PROVE  Rest(d') /\ len' = d'.used /\ clears' = clears + 1 /\ AsMap!Next
<1>1. d' = dict_clear(d) /\ len' = d'.used /\ res' = "ok" /\ clears' = clears + 1
  BY DEF do_dict_clear, Done
<1>2. /\ Rest(d')
      /\ \A x \in Keys : ValueOf(d', x) = NoVal
      /\ KeysUpTo(d', d'.count) = << >>
  BY <1>1, RestClear DEF IInv
<1>3. AsMap!Clear
  BY <1>1, <1>2 DEF AsMap!Clear, Ordered
<1> QED
  BY <1>1, <1>2, <1>3 DEF AsMap!Next

(* Iterators are followed through every operation.                         *)
LEMMA OperationKeeps ==
    ASSUME IInv, Operation, UNCHANGED clears, IteratorFollows
    PROVE  IInv'
<1>1. /\ Rest(d) /\ clears \in Nat /\ (clears = 0 => Clean(d))
      /\ iter \in [i : Int, given : SUBSET KeysOf(d)] /\ iter.i >= -1
      /\ iter.i >= 0 => clears = 0 /\ iter.i <= d.count /\ iter.given = Given(d, iter.i)
  BY DEF IInv
<1>2. Rest(d') /\ (Clean(d) => Clean(d')) /\ Follows(d, d') /\ len' = d'.used /\ clears' = clears
  BY DEF Operation
<1>3. iter' = IF d'.size # d.size THEN NoIterator
              ELSE [iter EXCEPT !.given = @ \cap KeysOf(d')]
  BY <1>2 DEF IteratorFollows
<1>4. /\ iter' \in [i : Int, given : SUBSET KeysOf(d')] /\ iter'.i >= -1
      /\ iter'.i >= 0 => /\ clears' = 0 /\ iter'.i <= d'.count
                         /\ iter'.given = Given(d', iter'.i)
  <2>1. CASE d'.size # d.size
    BY <1>3, <2>1 DEF NoIterator
  <2>2. CASE d'.size = d.size
    <3>1. /\ iter' \in [i : Int, given : SUBSET KeysOf(d')]
          /\ iter'.i = iter.i /\ iter'.given = iter.given \cap KeysOf(d')
      BY <1>1, <1>3, <2>2
    <3>2. /\ d.count <= d'.count
          /\ \A n \in Int : n <= d.count => Given(d', n) = Given(d, n) \cap KeysOf(d')
      BY <1>2, <2>2 DEF Follows
    <3>3. d.count \in Nat /\ d'.count \in Nat /\ iter.i \in Int
      BY <1>1, <1>2, RestBounds
    <3> QED
      BY <1>1, <1>2, <3>1, <3>2, <3>3
  <2> QED
    BY <2>1, <2>2
<1> QED
  BY <1>1, <1>2, <1>4 DEF IInv

LEMMA NextKeeps ==
    ASSUME IInv, dict_iter_next
    PROVE  IInv'
<1> DEFINE L == Leading(d)
           ahead == {n \in L : n >= iter.i}
           m == Min(ahead)
<1>1. /\ iter.i >= 0 /\ UNCHANGED <<d, len, res, clears>>
      /\ iter' = IF ahead = {} THEN NoIterator
                 ELSE [i |-> m + 1, given |-> iter.given \cup {d.keys[d.map[m]]}]
  BY DEF dict_iter_next
<1>2. /\ Rest(d) /\ clears = 0 /\ Clean(d)
      /\ iter \in [i : Int, given : SUBSET KeysOf(d)] /\ iter.i >= 0
      /\ iter.i <= d.count /\ iter.given = Given(d, iter.i)
  BY <1>1 DEF IInv
<1>3. CASE ahead = {}
  <2>1. iter' \in [i : Int, given : SUBSET KeysOf(d)] /\ iter'.i = -1
    BY <1>1, <1>3 DEF NoIterator
  <2> QED
    BY <1>1, <2>1 DEF IInv
<1>4. CASE ahead # {}
  <2>1. /\ L \in SUBSET Nat /\ d.count \in Nat
        /\ \A n \in L : n < d.count /\ d.keys[d.map[n]] \in KeysOf(d)
    <3>1. Table(d) /\ Orderly(d)
      BY <1>2, CleanOrderly DEF Rest
    <3>2. L = Counted(d)
      BY <3>1 DEF Orderly, Counted
    <3>3. Given(d, d.count) \subseteq KeysOf(d) /\ d.count \in Nat
      <4>1. d.count \in Nat /\ d.count <= d.count
        BY <1>2, RestBounds
      <4> QED
        BY <3>1, <4>1, GivenType
    <3>4. KeysBefore(d, d.count) = L
      BY <3>2 DEF KeysBefore, Counted
    <3> QED
      BY <3>1, <3>2, <3>3, <3>4, UsedIsCounted DEF Given, Orderly
  <2>2. ahead \in SUBSET Nat
    BY <2>1
  <2> HIDE DEF L
  <2>3. \E n \in ahead : \A x \in ahead : n <= x
    <3> HIDE DEF ahead
    <3> QED
      BY <1>4, <2>2, LeastIn
  <2>4. m \in ahead /\ \A x \in ahead : m <= x
    BY <2>3 DEF Min
  <2> HIDE DEF m
  <2>5. /\ m \in L /\ m >= iter.i /\ m \in Nat /\ iter.i \in Nat
        /\ \A x \in L : x >= iter.i => m <= x
    BY <1>2, <2>1, <2>4
  <2>6. {n \in L : n < m + 1} = {n \in L : n < iter.i} \cup {m}
    <3>1. \A x \in L : x < m + 1 <=> x < iter.i \/ x = m
      BY <2>1, <2>5
    <3> QED
      BY <2>5, <3>1
  <2>7. Given(d, m + 1) = Given(d, iter.i) \cup {d.keys[d.map[m]]}
    BY <2>6 DEF Given, KeysBefore, L
  <2>8. m + 1 <= d.count /\ m + 1 \in Int /\ m + 1 >= 0 /\ m + 1 >= -1
    BY <2>1, <2>5
  <2>9. /\ iter' \in [i : Int, given : SUBSET KeysOf(d)]
        /\ iter'.i = m + 1 /\ iter'.given = Given(d, m + 1)
    BY <1>1, <1>2, <1>4, <2>1, <2>5, <2>7, <2>8
  <2> QED
    BY <1>1, <1>2, <2>8, <2>9 DEF IInv
<1> QED
  BY <1>3, <1>4

LEMMA NextIs ==
    ASSUME IInv, Next
    PROVE  IInv' /\ (AsMap!Next \/ UNCHANGED AsMap!vars)
<1>1. CASE /\ \/ dict_setitem \/ dict_setitem_exclusive \/ dict_setitem_replace
              \/ dict_delitem \/ dict_getitem
           /\ UNCHANGED clears
           /\ IteratorFollows
  <2>1. Operation
    BY <1>1, InsertIs, RemoveIs, GetIs
       DEF dict_setitem, dict_setitem_exclusive, dict_setitem_replace
  <2>2. IInv'
    BY <1>1, <2>1, OperationKeeps
  <2> QED
    BY <2>1, <2>2 DEF Operation
<1>2. CASE do_dict_clear /\ IteratorFollows
  <2>1. Rest(d') /\ len' = d'.used /\ clears' = clears + 1 /\ AsMap!Next
    BY <1>2, ClearIs
  <2>2. clears \in Nat /\ clears' \in Nat /\ clears' # clears /\ clears' # 0
    BY <2>1 DEF IInv
  <2>3. iter' \in [i : Int, given : SUBSET KeysOf(d')] /\ iter'.i = -1
    BY <1>2, <2>2 DEF IteratorFollows, NoIterator
  <2>4. IInv'
    BY <2>1, <2>2, <2>3 DEF IInv
  <2> QED
    BY <2>1, <2>4
<1>3. CASE dict_get_iter
  <2>1. /\ clears = 0 /\ UNCHANGED <<d, len, res, clears>>
        /\ iter' = [i |-> 0, given |-> {}]
    BY <1>3 DEF dict_get_iter
  <2>2. d.count \in Nat /\ Leading(d) \subseteq Nat
    BY RestBounds, TableType DEF IInv, Rest, Table, Leading, Buckets
  <2>3. Given(d, 0) = {}
    <3>1. KeysBefore(d, 0) = {}
      BY <2>2 DEF KeysBefore
    <3> QED
      BY <3>1 DEF Given
  <2>4. IInv'
    BY <2>1, <2>2, <2>3 DEF IInv
  <2> QED
    BY <2>1, <2>4 DEF AsMap!vars, Ordered
<1>4. CASE dict_iter_next
  <2>1. UNCHANGED <<d, len, res, clears>>
    BY <1>4 DEF dict_iter_next
  <2> QED
    BY <1>4, <2>1, NextKeeps DEF AsMap!vars, Ordered
<1> QED
  BY <1>1, <1>2, <1>3, <1>4 DEF Next

LEMMA StutterIs ==
    ASSUME IInv, UNCHANGED vars
    PROVE  IInv' /\ UNCHANGED AsMap!vars
BY DEF IInv, vars, AsMap!vars, Ordered

LEMMA IInvSound == IInv => TableSound
<1> SUFFICES ASSUME IInv PROVE TableSound
  OBVIOUS
<1>1. Rest(d) /\ Table(d) /\ BucketsOK(d) /\ Marked(d) /\ len = d.used /\ clears \in Nat
  BY DEF IInv, Rest, Table
<1>2. /\ d.size \in Nat /\ d.count \in Nat /\ d.used \in Nat /\ d.grow \in Nat
      /\ d.used <= d.count /\ d.count <= d.grow /\ d.grow < d.size /\ d.count < d.size
  BY <1>1, RestBounds
<1>3. TypeOK
  <2>1. d \in Tables(d.size)
    BY <1>1 DEF BucketsOK
  <2>2. iter.i \in -1..d.size /\ iter.given \subseteq Live
    BY <1>2 DEF IInv, Live
  <2> QED
    BY <1>1, <1>2, <2>1, <2>2 DEF TypeOK
<1>4. d.used = Cardinality({i \in Buckets(d.size) : Taken(d, i)})
  BY <1>1 DEF Table, TakenIn
<1>5. d.count = Cardinality({i \in Buckets(d.size) : d.keys[i] # NULL})
  BY <1>1, CountIsOccupied
<1>6. d.size >= INIT_SIZE /\ \E n \in 0..d.size : d.size = PowerOf2[n]
  <2>1. PICK n \in Nat : d.size = PowerOf2[n]
    BY <1>1 DEF Marked, SizeOK
  <2>2. n \in 0..d.size
    BY <1>2, <2>1, PowersOrdered
  <2> QED
    BY <1>1, <2>1, <2>2 DEF Marked
<1>7. \A k \in Keys : /\ seek_helper(d, k) \in Buckets(d.size)
                      /\ d.keys[seek_helper(d, k)] \in {NULL, k}
  BY <1>1, <1>2, SeekTable
<1> QED
  BY <1>1, <1>2, <1>3, <1>4, <1>5, <1>6, <1>7 DEF TableSound

LEMMA IInvExact == IInv => IteratorsExact
<1> SUFFICES ASSUME IInv PROVE IteratorsExact
  OBVIOUS
<1>1. Rest(d) /\ Table(d) /\ iter.i \in Int
  BY DEF IInv, Rest
<1>2. d.count \in Nat /\ d.size \in Nat /\ d.count < d.size /\ d.used \in Nat
  BY <1>1, RestBounds
<1>3. ASSUME clears = 0
      PROVE  IterationExact
  <2>1. Orderly(d)
    BY <1>1, <1>3, CleanOrderly DEF IInv
  <2>2. {m \in Leading(d) : m < d.size} = {m \in Leading(d) : m < d.count}
    <3>1. Leading(d) \subseteq Nat
      BY <1>1, TableType DEF Table, Leading, Buckets
    <3> QED
      BY <1>2, <2>1, <3>1 DEF Orderly
  <2>3. Iterated = KeysUpTo(d, d.count)
    BY <2>2 DEF Iterated, KeysUpTo
  <2>4. /\ DOMAIN Iterated = 1..d.used
        /\ \A r \in 1..d.used : Iterated[r] \in KeysOf(d)
        /\ \A p, r \in 1..d.used : Iterated[p] = Iterated[r] => p = r
        /\ \A k \in KeysOf(d) : \E r \in 1..d.used : Iterated[r] = k
    BY <1>1, <2>3, OrderType, OrderHasAll
  <2> QED
    BY <2>4 DEF IterationExact, IsInjective, ToSet, Live
<1>4. ASSUME iter.i >= 0
      PROVE  /\ iter.given = ToSet(KeysUpTo(d, iter.i))
             /\ Len(KeysUpTo(d, iter.i)) = Cardinality(iter.given)
  <2> DEFINE n == iter.i
             S == KeysBefore(d, n)
             c == Cardinality(S)
             o == KeysUpTo(d, n)
             G == Given(d, n)
  <2>1. n \in Int /\ n <= d.count /\ iter.given = G
    BY <1>1, <1>4 DEF IInv
  <2>2. /\ c \in Nat
        /\ o = [r \in 1..c |-> d.keys[d.map[Ranked[S][r]]]]
        /\ \A r \in 1..c : Ranked[S][r] \in S
        /\ \A p, r \in 1..c : o[p] = o[r] => p = r
        /\ \A m \in S : \E r \in 1..c : o[r] = d.keys[d.map[m]]
    <3> HIDE DEF n
    <3> QED
      BY <1>1, <2>1, KeysAre
  <2>3. G = {d.keys[d.map[m]] : m \in S}
    BY DEF Given
  <2> HIDE DEF n, S, c, o, G
  <2>4. /\ DOMAIN o = 1..c
        /\ \A r \in 1..c : o[r] \in G
        /\ \A k \in G : \E r \in 1..c : o[r] = k
    BY <2>2, <2>3
  <2>5. G = ToSet(o)
    BY <2>4 DEF ToSet
  <2>6. Len(o) = c
    BY <2>2, <2>4
  <2>7. Cardinality(G) = c
    <3>1. IsFiniteSet(1..c) /\ Cardinality(1..c) = c
      BY <2>2, FS_Interval
    <3>2. o \in [1..c -> G]
      BY <2>2, <2>4
    <3> DEFINE I == 1..c
    <3>3. /\ o \in [I -> G] /\ IsFiniteSet(I) /\ Cardinality(I) = c
          /\ \A p, r \in I : o[p] = o[r] => p = r
          /\ \A k \in G : \E r \in I : o[r] = k
      BY <2>2, <2>4, <3>1, <3>2
    <3> HIDE DEF I
    <3> QED
      BY ONLY <3>3, SameSize
  <2> QED
    BY <2>1, <2>5, <2>6, <2>7 DEF o, n
<1> QED
  BY <1>3, <1>4 DEF IteratorsExact

LEMMA Invariant == Spec => []IInv
<1>1. IInv /\ [Next]_vars => IInv'
  BY NextIs, StutterIs
<1> QED
  BY <1>1, InitIInv, PTL DEF Spec

(* The counts of a dictionary, its size and its markers, and that every    *)
(* search in it ends: TableSound holds in every state.                     *)
THEOREM TableAlwaysSound == Spec => []TableSound
BY Invariant, IInvSound, PTL

(* Iterators yield each key once, even while keys come and go.             *)
THEOREM IteratorsAlwaysExact == Spec => []IteratorsExact
BY Invariant, IInvExact, PTL

(* Dictionaries implement the map of module Mapping.                       *)
THEOREM DictImplementsMap == Spec => ImplementsMap
<1>1. Init => AsMap!Init
  <2> SUFFICES ASSUME Init PROVE AsMap!Init
    OBVIOUS
  <2>1. d = dictvar_new /\ res = "ok"
    BY DEF Init
  <2>2. /\ \A x \in Keys : ValueOf(d, x) = NoVal
        /\ KeysUpTo(d, d.count) = << >>
    BY <2>1, RestNew
  <2> QED
    BY <2>1, <2>2 DEF AsMap!Init, Ordered
<1>2. IInv /\ [Next]_vars => [AsMap!Next]_(AsMap!vars)
  BY NextIs, StutterIs
<1> QED
  BY <1>1, <1>2, Invariant, PTL DEF Spec, ImplementsMap, AsMap!Spec
==============================================================================
