--------------------------- MODULE VarPool_proofs ---------------------------
(***************************************************************************)
(* Proofs about VarPool, for any number of addresses, any limit of the     *)
(* free lists and any bound on roots and items.                            *)
(*                                                                         *)
(* What is said of references (References, FreeLists) does not depend on   *)
(* counts; Counted ties the counts, the objects that wait to be deleted    *)
(* and the C stack to how many references there are (Held).                *)
(***************************************************************************)
EXTENDS VarPool, SequenceTheorems, FiniteSetTheorems, TLAPS

-----------------------------------------------------------------------------
(* Sequences that stand for the free lists.                                *)

(* What is listed in a sequence is what is at one of its indices.          *)
LEMMA ListedIn ==
    ASSUME NEW S, NEW s \in Seq(S)
    PROVE  /\ Len(s) \in Nat /\ DOMAIN s = 1..Len(s) /\ ToSet(s) \subseteq S
           /\ \A i \in 1..Len(s) : s[i] \in ToSet(s)
           /\ \A x \in ToSet(s) : \E i \in 1..Len(s) : s[i] = x
<1>1. Len(s) \in Nat /\ DOMAIN s = 1..Len(s) /\ \A i \in 1..Len(s) : s[i] \in S
  BY LenProperties, ElementOfSeq
<1> QED
  BY <1>1 DEF ToSet

(* An item more at the end (list_add_tail) or at the front (list_add_front). *)
LEMMA ListedLast ==
    ASSUME NEW S, NEW s \in Seq(S), NEW x \in S
    PROVE  /\ Append(s, x) \in Seq(S) /\ Len(Append(s, x)) = Len(s) + 1
           /\ \A i \in 1..Len(s) : Append(s, x)[i] = s[i]
           /\ Append(s, x)[Len(s) + 1] = x
           /\ ToSet(Append(s, x)) = ToSet(s) \cup {x}
           /\ IsInjective(s) /\ x \notin ToSet(s) => IsInjective(Append(s, x))
<1> DEFINE t == Append(s, x)
           n == Len(s)
<1>1. /\ t \in Seq(S) /\ Len(t) = n + 1 /\ t[n + 1] = x
      /\ \A i \in 1..n : t[i] = s[i]
  BY AppendProperties
<1>2. n \in Nat /\ DOMAIN s = 1..n /\ DOMAIN t = 1..(n + 1) /\ 1..(n + 1) = 1..n \cup {n + 1}
  BY <1>1, LenProperties
<1> HIDE DEF t, n
<1>3. ToSet(t) = ToSet(s) \cup {x}
  BY <1>1, <1>2 DEF ToSet
<1>4. IsInjective(s) /\ x \notin ToSet(s) => IsInjective(t)
  BY <1>1, <1>2 DEF ToSet, IsInjective
<1> QED
  BY <1>1, <1>3, <1>4 DEF t, n

LEMMA ListedNew ==
    ASSUME NEW S, NEW s \in Seq(S), NEW x \in S
    PROVE  /\ <<x>> \o s \in Seq(S) /\ <<x>> \o s # << >>
           /\ Len(<<x>> \o s) = Len(s) + 1
           /\ ToSet(<<x>> \o s) = ToSet(s) \cup {x}
           /\ IsInjective(s) /\ x \notin ToSet(s) => IsInjective(<<x>> \o s)
<1> DEFINE t == <<x>> \o s
           n == Len(s)
<1>1. /\ t \in Seq(S) /\ Len(t) = n + 1 /\ n \in Nat
      /\ \A i \in 1..(n + 1) : t[i] = IF i = 1 THEN x ELSE s[i - 1]
  <2>1. <<x>> \in Seq(S) /\ Len(<<x>>) = 1 /\ <<x>>[1] = x /\ n \in Nat
    BY LenProperties
  <2>2. /\ t \in Seq(S) /\ Len(t) = 1 + n
        /\ \A i \in 1..(1 + n) : t[i] = IF i <= 1 THEN <<x>>[i] ELSE s[i - 1]
    BY <2>1, ConcatProperties
  <2> QED
    BY <2>1, <2>2
<1>2. DOMAIN s = 1..n /\ DOMAIN t = 1..(n + 1) /\ t # << >>
  BY <1>1, LenProperties, EmptySeq
<1> HIDE DEF t, n
<1>3. t[1] = x /\ 1 \in 1..(n + 1)
  BY <1>1
<1>4. \A i \in 1..n : i + 1 \in 1..(n + 1) /\ t[i + 1] = s[i]
  <2> TAKE i \in 1..n
  <2>1. i + 1 \in 1..(n + 1) /\ i + 1 # 1 /\ i + 1 - 1 = i
    BY <1>1
  <2> QED
    BY <1>1, <2>1
<1>5. \A i \in 1..(n + 1) : i # 1 => i - 1 \in 1..n /\ t[i] = s[i - 1]
  BY <1>1
<1>6. ToSet(t) = ToSet(s) \cup {x}
  BY <1>2, <1>3, <1>4, <1>5 DEF ToSet
<1>7. ASSUME IsInjective(s), x \notin ToSet(s) PROVE IsInjective(t)
  <2> SUFFICES ASSUME NEW i \in 1..(n + 1), NEW j \in 1..(n + 1), t[i] = t[j] PROVE i = j
    BY <1>2 DEF IsInjective
  <2>1. i # 1 => i - 1 \in DOMAIN s /\ t[i] = s[i - 1] /\ t[i] # x
    BY <1>2, <1>5, <1>7 DEF ToSet
  <2>2. j # 1 => j - 1 \in DOMAIN s /\ t[j] = s[j - 1] /\ t[j] # x
    BY <1>2, <1>5, <1>7 DEF ToSet
  <2>3. i # 1 /\ j # 1 => i - 1 = j - 1
    BY <1>7, <2>1, <2>2 DEF IsInjective
  <2> QED
    BY <1>1, <1>3, <2>1, <2>2, <2>3
<1> QED
  BY <1>1, <1>2, <1>6, <1>7 DEF t, n

(* The first item taken off.                                               *)
LEMMA ListedFirst ==
    ASSUME NEW S, NEW s \in Seq(S), s # << >>
    PROVE  /\ Head(s) \in S /\ Head(s) \in ToSet(s)
           /\ Tail(s) \in Seq(S) /\ Len(Tail(s)) = Len(s) - 1
           /\ IsInjective(s) => /\ ToSet(Tail(s)) = ToSet(s) \ {Head(s)}
                                /\ IsInjective(Tail(s))
<1> DEFINE t == Tail(s)
           n == Len(s)
<1>1. /\ n \in Nat /\ n >= 1 /\ DOMAIN s = 1..n /\ Head(s) = s[1] /\ s[1] \in S
  BY EmptySeq, LenProperties, ElementOfSeq, HeadTailProperties
<1>2. /\ t \in Seq(S) /\ Len(t) = n - 1 /\ \A i \in 1..(n - 1) : t[i] = s[i + 1]
  BY HeadTailProperties
<1>3. DOMAIN t = 1..(n - 1)
  BY <1>2, LenProperties
<1> HIDE DEF t, n
<1>4. /\ \A i \in 1..(n - 1) : i + 1 \in 1..n /\ i + 1 # 1
      /\ \A i \in 1..n : i # 1 => i - 1 \in 1..(n - 1) /\ i - 1 + 1 = i
      /\ \A i, j \in 1..(n - 1) : i + 1 = j + 1 => i = j
  BY <1>1
<1>5. ASSUME IsInjective(s) PROVE ToSet(t) = ToSet(s) \ {s[1]} /\ IsInjective(t)
  <2>1. ASSUME NEW i \in 1..(n - 1) PROVE t[i] \in ToSet(s) \ {s[1]}
    <3>1. i + 1 \in DOMAIN s /\ 1 \in DOMAIN s /\ i + 1 # 1 /\ t[i] = s[i + 1]
      BY <1>1, <1>2, <1>4
    <3>2. s[i + 1] # s[1]
      BY <1>5, <3>1 DEF IsInjective
    <3> QED
      BY <3>1, <3>2 DEF ToSet
  <2>2. ASSUME NEW i \in 1..n, s[i] # s[1] PROVE s[i] \in ToSet(t)
    <3>1. i - 1 \in DOMAIN t /\ t[i - 1] = s[i]
      BY <1>1, <1>2, <1>3, <1>4, <2>2
    <3> QED
      BY <3>1 DEF ToSet
  <2>3. IsInjective(t)
    <3> SUFFICES ASSUME NEW i \in 1..(n - 1), NEW j \in 1..(n - 1), t[i] = t[j] PROVE i = j
      BY <1>3 DEF IsInjective
    <3>1. s[i + 1] = s[j + 1] /\ i + 1 \in DOMAIN s /\ j + 1 \in DOMAIN s
      BY <1>1, <1>2, <1>4
    <3> QED
      BY <1>4, <1>5, <3>1 DEF IsInjective
  <2> QED
    BY <1>1, <1>3, <2>1, <2>2, <2>3 DEF ToSet
<1> QED
  BY <1>1, <1>2, <1>5 DEF t, n, ToSet

(* A sequence that is not empty is what is before its last item and that.  *)
LEMMA FrontAndLast ==
    ASSUME NEW S, NEW s \in Seq(S), s # << >>
    PROVE  /\ Front(s) \in Seq(S) /\ s[Len(s)] \in S /\ s = Append(Front(s), s[Len(s)])
           /\ Len(s) \in Nat /\ Len(s) >= 1 /\ Len(Front(s)) = Len(s) - 1
<1>1. PICK t \in Seq(S), x \in S : s = Append(t, x)
  BY SequenceEmptyOrAppend
<1>2. /\ Len(t) \in Nat /\ Len(s) = Len(t) + 1 /\ s[Len(t) + 1] = x
      /\ \A i \in 1..Len(t) : s[i] = t[i]
  BY <1>1, AppendProperties, LenProperties
<1>3. Front(s) = t
  <2>1. Front(s) = SubSeq(s, 1, Len(t))
    BY <1>2 DEF Front
  <2>2. 1 \in Int /\ Len(t) \in Int /\ (\A i \in 1..Len(t) : s[i] \in S)
    BY <1>2, ElementOfSeq
  <2>3. /\ SubSeq(s, 1, Len(t)) \in Seq(S)
        /\ Len(SubSeq(s, 1, Len(t))) = IF 1 <= Len(t) THEN Len(t) - 1 + 1 ELSE 0
        /\ \A i \in 1..(Len(t) - 1 + 1) : SubSeq(s, 1, Len(t))[i] = s[1 + i - 1]
    BY <2>2, SubSeqProperties
  <2>4. Len(SubSeq(s, 1, Len(t))) = Len(t) /\ \A i \in 1..Len(t) : SubSeq(s, 1, Len(t))[i] = t[i]
    <3>1. Len(t) - 1 + 1 = Len(t) /\ \A i \in 1..Len(t) : 1 + i - 1 = i
      BY <1>2
    <3> QED
      BY <1>2, <2>3, <3>1
  <2> QED
    BY <2>1, <2>3, <2>4, SeqEqual
<1> QED
  BY <1>1, <1>2, <1>3

(* The last item taken off.                                                *)
LEMMA ListedRest ==
    ASSUME NEW S, NEW s \in Seq(S), s # << >>
    PROVE  /\ s[Len(s)] \in ToSet(s) /\ ToSet(s) = ToSet(Front(s)) \cup {s[Len(s)]}
           /\ IsInjective(s) => IsInjective(Front(s)) /\ s[Len(s)] \notin ToSet(Front(s))
           /\ \/ Front(s) = << >> /\ Len(s) = 1
              \/ Front(s) # << >> /\ Front(s)[1] = s[1]
<1> DEFINE t == Front(s)
           x == s[Len(s)]
           n == Len(t)
<1>1. t \in Seq(S) /\ x \in S /\ s = Append(t, x) /\ Len(s) \in Nat /\ n = Len(s) - 1
  BY FrontAndLast
<1>2. /\ ToSet(Append(t, x)) = ToSet(t) \cup {x} /\ n \in Nat /\ DOMAIN t = 1..n
      /\ \A i \in 1..n : Append(t, x)[i] = t[i]
  BY <1>1, ListedIn, ListedLast
<1>3. DOMAIN s = 1..(n + 1) /\ s[n + 1] = x /\ \A i \in 1..n : s[i] = t[i] /\ i \in 1..(n + 1)
  BY <1>1, <1>2, LenProperties
<1>4. n + 1 \in 1..(n + 1) /\ \A i \in 1..n : i # n + 1
  BY <1>2
<1>5. t = << >> => Len(s) = 1
  BY <1>1, <1>2, EmptySeq
<1>6. t # << >> => t[1] = s[1]
  <2>1. t # << >> => 1 \in 1..n
    BY <1>1, <1>2, EmptySeq
  <2> QED
    BY <1>3, <2>1
<1>7. ToSet(s) = ToSet(t) \cup {x}
  BY <1>1, <1>2
<1> HIDE DEF t, x, n
<1>8. IsInjective(s) => IsInjective(t)
  BY <1>2, <1>3 DEF IsInjective
<1>9. IsInjective(s) => x \notin ToSet(t)
  BY <1>2, <1>3, <1>4 DEF IsInjective, ToSet
<1> QED
  BY <1>5, <1>6, <1>7, <1>8, <1>9 DEF t, x
-----------------------------------------------------------------------------

Objects == {v \in Addr : IsObject(v)}

\* How many references there are to each address from objs with these types and
\* items, and from outside.
HoldersOf(objs, it, v) ==
    {h \in Addr \X (1..MaxItems) : h[1] \in objs /\ h[2] <= Len(it[h[1]]) /\ it[h[1]][h[2]] = v}
InstancesOf(objs, ty, v) == {w \in objs : ty[w] = v}
HeldOf(objs, ty, it, ro) ==
    [v \in Addr |-> ro[v] + Cardinality(HoldersOf(objs, it, v))
                          + Cardinality(InstancesOf(objs, ty, v))]

Held == HeldOf(Objects, type, items, roots)

References ==
    \A v \in Addr :
        /\ roots[v] > 0 => IsObject(v)
        /\ IsObject(v) => /\ Len(items[v]) <= MaxItems
                          /\ \A w \in ToSet(items[v]) : IsObject(w)
                          /\ type[v] \in Addr => IsClass(type[v])

FreeLists ==
    \A t \in Types :
       /\ IsInjective(freelist[t])
       /\ Len(freelist[t]) <= MAX_FREELIST_SIZE
       /\ \A v \in ToSet(freelist[t]) : use[v] = "list" /\ type[v] = t
       /\ freelist[t] # << >> => t \notin Addr \/ IsClass(t)

\* Deletion of v is under way on the C stack wk.
On(wk, v) == \E i \in DOMAIN wk : wk[i].do = "delete" /\ wk[i].v = v

(* Of objs with counts rc, to each of which there are held references: the *)
(* objects in p and in wk are doomed, nothing refers to them any more; and *)
(* what is pending without a lock is in the hands of var_unlock().         *)
Counted(objs, held, rc, p, lk, wk) ==
    /\ rc \in [Addr -> Nat] /\ p \in Seq(Addr) /\ wk \in Seq(Task) /\ lk \in Nat
    /\ \A v \in objs : rc[v] = held[v] + (IF On(wk, v) THEN 1 ELSE 0)
    /\ \A v \in Addr : On(wk, v) \/ v \in ToSet(p) => v \in objs /\ held[v] = 0
    /\ \A v \in ToSet(p) : ~On(wk, v)
    /\ IsInjective(p) /\ IsInjective(wk)
    /\ wk # << >> => lk = 0
    /\ p # << >> => lk > 0 \/ (wk # << >> /\ wk[1].do = "unlock")

Inv == /\ TypeOK
       /\ References
       /\ FreeLists
       /\ Counted(Objects, Held, refcnt, pending, locked, work)
------------------------------------------------------------------------------
(* The C stack, pending objects and counts. *)

Deletion(v) == [do |-> "delete", v |-> v]

LEMMA TaskParts ==
    /\ \A v \in Addr : Deletion(v) \in Task
    /\ [do |-> "unlock"] \in Task
    /\ \A t \in Task : \/ t.do = "delete" /\ t.v \in Addr /\ t = Deletion(t.v)
                       \/ t.do = "unlock" /\ t = [do |-> "unlock"]
BY DEF Task, Deletion

LEMMA OnListed ==
    ASSUME NEW wk \in Seq(Task), NEW v
    PROVE  On(wk, v) <=> Deletion(v) \in ToSet(wk)
<1>1. \A i \in DOMAIN wk : wk[i] \in Task
  BY ElementOfSeq, LenProperties
<1>2. \A i \in DOMAIN wk : wk[i].do = "delete" /\ wk[i].v = v <=> wk[i] = Deletion(v)
  BY <1>1, TaskParts DEF Deletion
<1> QED
  BY <1>2 DEF On, ToSet

(* One task more on the C stack.                                           *)
LEMMA OnMore ==
    ASSUME NEW wk \in Seq(Task), NEW t \in Task, NEW v
    PROVE  On(Append(wk, t), v) <=> On(wk, v) \/ t = Deletion(v)
<1>1. Append(wk, t) \in Seq(Task) /\ ToSet(Append(wk, t)) = ToSet(wk) \cup {t}
  BY ListedLast
<1> QED
  BY <1>1, OnListed

LEMMA OnNone ==
    ASSUME NEW v
    PROVE  ~On(<< >>, v) /\ << >> \in Seq(Task) /\ IsInjective(<< >>)
BY DEF On, IsInjective

\* What was h becomes h2: one more, or one less, if x is y.
More(h, h2, x, y) == h2 = h + (IF x = y THEN 1 ELSE 0)
Less(h, h2, x, y) == h2 = h - (IF x = y THEN 1 ELSE 0)

(* What a consumed reference does to counts.                               *)
Decr(x, rc, p, lk, wk, rc2, p2, wk2) ==
    \/ rc[x] > 1 /\ rc2 = [rc EXCEPT ![x] = @ - 1] /\ p2 = p /\ wk2 = wk
    \/ ~(rc[x] > 1) /\ lk > 0 /\ rc2 = [rc EXCEPT ![x] = 0] /\ p2 = <<x>> \o p /\ wk2 = wk
    \/ ~(rc[x] > 1) /\ ~(lk > 0) /\ rc2 = [rc EXCEPT ![x] = 1] /\ p2 = p
       /\ wk2 = Append(wk, Deletion(x))

LEMMA DecrRef ==
    ASSUME NEW x, NEW rc, NEW c, VAR_DECR_REF(x, rc, c)
    PROVE  Decr(x, rc, pending, locked, c, refcnt', pending', work')
BY DEF VAR_DECR_REF, Decr, Deletion

(* Doomed(p, wk, v): the last reference to v is gone.                      *)
Doomed(p, wk, v) == On(wk, v) \/ v \in ToSet(p)

ReferenceLess(objs, p, lk, wk, x, held2, rc2, p2, wk2) ==
    /\ Counted(objs, held2, rc2, p2, lk, wk2)
    /\ \A v \in Addr : Doomed(p2, wk2, v) <=> Doomed(p, wk, v) \/ (v = x /\ held2[x] = 0)

(* The last reference of an object dooms it, another does not; no other    *)
(* object notices.                                                         *)
LEMMA ReferenceGone ==
    ASSUME NEW objs \in SUBSET Addr, NEW held, NEW rc, NEW p, NEW lk, NEW wk,
           Counted(objs, held, rc, p, lk, wk), held \in [Addr -> Nat],
           NEW x \in objs, held[x] # 0,
           NEW held2 \in [Addr -> Nat], \A w \in Addr : Less(held[w], held2[w], w, x),
           NEW rc2, NEW p2, NEW wk2, Decr(x, rc, p, lk, wk, rc2, p2, wk2)
    PROVE  ReferenceLess(objs, p, lk, wk, x, held2, rc2, p2, wk2)
<1> USE DEF Doomed
<1>1. /\ rc \in [Addr -> Nat] /\ p \in Seq(Addr) /\ wk \in Seq(Task) /\ lk \in Nat /\ x \in Addr
      /\ held[x] \in Nat /\ held[x] > 0
  BY DEF Counted
<1>0. held2[x] = held[x] - 1 /\ \A w \in Addr : w # x => held2[w] = held[w]
  BY <1>1 DEF Less
<1>2. ~On(wk, x) /\ x \notin ToSet(p) /\ rc[x] = held[x] /\ rc[x] \in Nat
  BY <1>1 DEF Counted
<1>3. CASE rc[x] > 1 /\ rc2 = [rc EXCEPT ![x] = @ - 1] /\ p2 = p /\ wk2 = wk
  <2>1. rc2 \in [Addr -> Nat] /\ rc2[x] = held2[x] /\ held2[x] # 0
    BY <1>0, <1>1, <1>2, <1>3
  <2>2. \A w \in Addr : w # x => rc2[w] = rc[w]
    BY <1>1, <1>3
  <2> HIDE DEF Doomed
  <2>3. \A v \in objs : rc2[v] = held2[v] + (IF On(wk, v) THEN 1 ELSE 0)
    <3> TAKE v \in objs
    <3>1. v \in Addr /\ held[v] \in Nat /\ rc[v] = held[v] + (IF On(wk, v) THEN 1 ELSE 0)
      BY DEF Counted
    <3>2. CASE v = x
      <4>1. ~On(wk, v) /\ rc2[v] = held2[v] /\ held2[v] \in Nat
        BY <1>0, <1>1, <1>2, <2>1, <3>2
      <4> QED
        BY <4>1
    <3>3. CASE v # x
      BY <1>0, <2>2, <3>1, <3>3
    <3> QED
      BY <3>2, <3>3
  <2> QED
    BY <1>0, <1>2, <1>3, <2>1, <2>2, <2>3 DEF Counted, Doomed, ReferenceLess
<1>4. CASE ~(rc[x] > 1) /\ lk > 0 /\ rc2 = [rc EXCEPT ![x] = 0] /\ p2 = <<x>> \o p /\ wk2 = wk
  <2>1. rc2 \in [Addr -> Nat] /\ rc2[x] = 0 /\ held2[x] = 0
    BY <1>0, <1>1, <1>2, <1>4
  <2>2. \A w \in Addr : w # x => rc2[w] = rc[w]
    BY <1>1, <1>4
  <2>3. /\ p2 \in Seq(Addr) /\ ToSet(p2) = ToSet(p) \cup {x} /\ IsInjective(p2)
    BY <1>0, <1>1, <1>2, <1>4, ListedNew DEF Counted
  <2>4. \A v \in objs : rc2[v] = held2[v] + (IF On(wk, v) THEN 1 ELSE 0)
    <3> TAKE v \in objs
    <3>1. v \in Addr /\ held[v] \in Nat /\ rc[v] = held[v] + (IF On(wk, v) THEN 1 ELSE 0)
      BY DEF Counted
    <3>2. CASE v = x
      <4>1. ~On(wk, v) /\ rc2[v] = 0 /\ held2[v] = 0
        BY <1>2, <2>1, <3>2
      <4> QED
        BY <4>1
    <3>3. CASE v # x
      BY <1>0, <2>2, <3>1, <3>3
    <3> QED
      BY <3>2, <3>3
  <2>5. \A v \in Addr : On(wk2, v) \/ v \in ToSet(p2) => v \in objs /\ held2[v] = 0
    BY <1>0, <1>4, <2>1, <2>3 DEF Counted
  <2>6. \A v \in ToSet(p2) : ~On(wk2, v)
    BY <1>2, <1>4, <2>3 DEF Counted
  <2> QED
    BY <1>4, <2>1, <2>3, <2>4, <2>5, <2>6 DEF Counted, ReferenceLess
<1>5. CASE ~(rc[x] > 1) /\ ~(lk > 0) /\ rc2 = [rc EXCEPT ![x] = 1] /\ p2 = p
           /\ wk2 = Append(wk, Deletion(x))
  <2>1. rc2 \in [Addr -> Nat] /\ rc2[x] = 1 /\ held2[x] = 0
    BY <1>0, <1>1, <1>2, <1>5
  <2>2. \A w \in Addr : w # x => rc2[w] = rc[w]
    BY <1>1, <1>5
  <2>3. Deletion(x) \in Task /\ \A v : Deletion(x) = Deletion(v) <=> v = x
    BY <1>1, TaskParts DEF Deletion
  <2>4. \A v : On(wk2, v) <=> On(wk, v) \/ v = x
    BY <1>1, <1>5, <2>3, OnMore
  <2>5. wk2 \in Seq(Task) /\ IsInjective(wk2) /\ wk2 # << >>
    BY <1>0, <1>1, <1>2, <1>5, <2>3, ListedLast, OnListed, AppendProperties DEF Counted
  <2>6. wk # << >> => wk2[1] = wk[1]
    <3>1. wk # << >> => 1 \in 1..Len(wk)
      BY <1>1, EmptySeq, LenProperties
    <3> QED
      BY <1>1, <1>5, <2>3, <3>1, ListedLast
  <2>7. \A v \in objs : rc2[v] = held2[v] + (IF On(wk2, v) THEN 1 ELSE 0)
    <3> TAKE v \in objs
    <3>1. v \in Addr /\ held[v] \in Nat /\ rc[v] = held[v] + (IF On(wk, v) THEN 1 ELSE 0)
      BY DEF Counted
    <3>2. CASE v = x
      <4>1. On(wk2, v) /\ rc2[v] = 1 /\ held2[v] = 0
        BY <2>1, <2>4, <3>2
      <4> QED
        BY <4>1
    <3>3. CASE v # x
      BY <1>0, <2>2, <2>4, <3>1, <3>3
    <3> QED
      BY <3>2, <3>3
  <2>8. \A v \in Addr : On(wk2, v) \/ v \in ToSet(p2) => v \in objs /\ held2[v] = 0
    BY <1>0, <1>5, <2>1, <2>4 DEF Counted
  <2>9. \A v \in ToSet(p2) : ~On(wk2, v)
    BY <1>2, <1>5, <2>4 DEF Counted
  <2>10. lk = 0 /\ (p2 # << >> => wk2[1].do = "unlock")
    BY <1>1, <1>5, <2>6 DEF Counted
  <2> QED
    BY <1>1, <1>5, <2>1, <2>4, <2>5, <2>7, <2>8, <2>9, <2>10 DEF Counted, ReferenceLess
<1> QED
  BY <1>3, <1>4, <1>5 DEF Decr

Kept(rc, rc2, v) == \A w \in Addr : w # v => rc2[w] = rc[w]

DeletionDone(objs, held, p, lk, wk, v, rc2) ==
    /\ Counted(objs \ {v}, held, rc2, p, lk, Front(wk))
    /\ \A w \in Addr : Doomed(p, Front(wk), w) <=> Doomed(p, wk, w) /\ w # v

(* var_delete__() comes to its end: the object is one no more.             *)
LEMMA DeletionOver ==
    ASSUME NEW objs \in SUBSET Addr, NEW held, NEW rc, NEW p, NEW lk, NEW wk,
           Counted(objs, held, rc, p, lk, wk), wk # << >>,
           NEW v \in Addr, wk[Len(wk)] = Deletion(v),
           NEW rc2 \in [Addr -> Nat], Kept(rc, rc2, v)
    PROVE  DeletionDone(objs, held, p, lk, wk, v, rc2)
<1> DEFINE c == Front(wk)
<1>1. /\ p \in Seq(Addr) /\ wk \in Seq(Task) /\ lk \in Nat /\ IsInjective(wk) /\ IsInjective(p)
  BY DEF Counted
<1>2. /\ c \in Seq(Task) /\ ToSet(wk) = ToSet(c) \cup {Deletion(v)}
      /\ IsInjective(c) /\ Deletion(v) \notin ToSet(c)
      /\ (c = << >> /\ Len(wk) = 1) \/ (c # << >> /\ c[1] = wk[1])
  <2>1. c \in Seq(Task)
    BY <1>1, FrontAndLast
  <2>2. /\ ToSet(wk) = ToSet(c) \cup {wk[Len(wk)]}
        /\ IsInjective(wk) => IsInjective(c) /\ wk[Len(wk)] \notin ToSet(c)
        /\ (c = << >> /\ Len(wk) = 1) \/ (c # << >> /\ c[1] = wk[1])
    BY <1>1, ListedRest
  <2> QED
    BY <1>1, <2>1, <2>2
<1> HIDE DEF c
<1>3. \A w : Deletion(w) = Deletion(v) <=> w = v
  BY DEF Deletion
<1>4. \A w : On(c, w) <=> On(wk, w) /\ w # v
  BY <1>1, <1>2, <1>3, OnListed
<1>5. On(wk, v) /\ v \in objs /\ held[v] = 0 /\ v \notin ToSet(p)
  <2>1. On(wk, v)
    BY <1>1, <1>2, OnListed
  <2> QED
    BY <2>1 DEF Counted
<1>6. \A w \in Addr : Doomed(p, c, w) <=> Doomed(p, wk, w) /\ w # v
  BY <1>4, <1>5 DEF Doomed
<1>7. \A w \in objs \ {v} : rc2[w] = held[w] + (IF On(c, w) THEN 1 ELSE 0)
  <2> TAKE w \in objs \ {v}
  <2>1. w \in Addr /\ w # v /\ rc[w] = held[w] + (IF On(wk, w) THEN 1 ELSE 0) /\ rc2[w] = rc[w]
    BY DEF Counted, Kept
  <2> QED
    BY <1>4, <2>1
<1>8. \A w \in Addr : On(c, w) \/ w \in ToSet(p) => w \in objs \ {v} /\ held[w] = 0
  BY <1>4, <1>5 DEF Counted
<1>9. \A w \in ToSet(p) : ~On(c, w)
  BY <1>4 DEF Counted
<1>10. p # << >> => lk > 0 \/ (c # << >> /\ c[1].do = "unlock")
  <2>1. c = << >> => Len(wk) = 1
    BY <1>2
  <2>2. Deletion(v).do = "delete" /\ "delete" # "unlock"
    BY DEF Deletion
  <2>3. c = << >> => wk[1].do # "unlock"
    BY <2>1, <2>2
  <2> QED
    BY <1>2, <2>3 DEF Counted
<1>11. c # << >> => lk = 0
  BY DEF Counted
<1>12. Counted(objs \ {v}, held, rc2, p, lk, c)
  BY <1>1, <1>2, <1>7, <1>8, <1>9, <1>10, <1>11 DEF Counted
<1> QED
  BY <1>6, <1>12 DEF c, DeletionDone

(* var_unlock() takes the next object that is pending.                     *)
LEMMA PendingTaken ==
    ASSUME NEW objs \in SUBSET Addr, NEW held, NEW rc, NEW p, NEW lk, NEW wk,
           Counted(objs, held, rc, p, lk, wk), p # << >>, wk # << >>,
           NEW rc2, rc2 = [rc EXCEPT ![Head(p)] = 1]
    PROVE  /\ Counted(objs, held, rc2, Tail(p), lk, Append(wk, Deletion(Head(p))))
           /\ \A w \in Addr : Doomed(Tail(p), Append(wk, Deletion(Head(p))), w) <=> Doomed(p, wk, w)
<1> DEFINE x == Head(p)
           q == Tail(p)
           c == Append(wk, Deletion(x))
<1>1. /\ p \in Seq(Addr) /\ wk \in Seq(Task) /\ lk = 0 /\ IsInjective(wk) /\ IsInjective(p)
      /\ rc \in [Addr -> Nat]
  BY DEF Counted
<1>2. /\ x \in Addr /\ x \in ToSet(p) /\ q \in Seq(Addr) /\ ToSet(q) = ToSet(p) \ {x}
      /\ IsInjective(q)
  BY <1>1, ListedFirst
<1> HIDE DEF x, q
<1>3. /\ Deletion(x) \in Task /\ (\A w : Deletion(x) = Deletion(w) <=> w = x)
  BY <1>2, TaskParts DEF Deletion
<1>4. ~On(wk, x) /\ x \in objs /\ held[x] = 0 /\ \A w : On(c, w) <=> On(wk, w) \/ w = x
  BY <1>1, <1>2, <1>3, OnMore DEF Counted
<1>5. c \in Seq(Task) /\ c # << >> /\ IsInjective(c)
  BY <1>1, <1>3, <1>4, ListedLast, OnListed, AppendProperties
<1>6. c[1] = wk[1]
  <2>1. 1 \in 1..Len(wk)
    BY <1>1, EmptySeq, LenProperties
  <2> QED
    BY <1>1, <1>3, <2>1, ListedLast
<1> HIDE DEF c
<1>7. rc2 \in [Addr -> Nat] /\ rc2[x] = 1 /\ \A w \in Addr : w # x => rc2[w] = rc[w]
  BY <1>1, <1>2 DEF x
<1>8. \A w \in objs : rc2[w] = held[w] + (IF On(c, w) THEN 1 ELSE 0)
  <2> TAKE w \in objs
  <2>1. w \in Addr /\ rc[w] = held[w] + (IF On(wk, w) THEN 1 ELSE 0)
    BY DEF Counted
  <2>2. CASE w = x
    <3>1. On(c, w) /\ rc2[w] = 1 /\ held[w] = 0
      BY <1>4, <1>7, <2>2
    <3> QED
      BY <3>1
  <2> QED
    BY <1>4, <1>7, <2>1, <2>2
<1>9. \A w \in Addr : On(c, w) \/ w \in ToSet(q) => w \in objs /\ held[w] = 0
  BY <1>2, <1>4 DEF Counted
<1>10. \A w \in ToSet(q) : ~On(c, w)
  BY <1>2, <1>4 DEF Counted
<1>11. wk[1].do = "unlock"
  BY <1>1 DEF Counted
<1>12. Counted(objs, held, rc2, q, lk, c)
  BY <1>1, <1>2, <1>5, <1>6, <1>7, <1>8, <1>9, <1>10, <1>11 DEF Counted
<1>13. \A w \in Addr : Doomed(q, c, w) <=> Doomed(p, wk, w)
  BY <1>2, <1>4 DEF Doomed
<1> QED
  BY <1>12, <1>13 DEF c, x, q

(* The loop of var_unlock() ends when nothing is pending.                  *)
LEMMA UnlockOver ==
    ASSUME NEW objs \in SUBSET Addr, NEW held, NEW rc, NEW p, NEW lk, NEW wk,
           Counted(objs, held, rc, p, lk, wk), wk # << >>, p = << >>,
           wk[Len(wk)] = [do |-> "unlock"]
    PROVE  /\ Counted(objs, held, rc, p, lk, Front(wk))
           /\ \A w \in Addr : Doomed(p, Front(wk), w) <=> Doomed(p, wk, w)
<1> DEFINE c == Front(wk)
<1>1. wk \in Seq(Task) /\ IsInjective(wk)
  BY DEF Counted
<1>2. /\ c \in Seq(Task) /\ ToSet(wk) = ToSet(c) \cup {[do |-> "unlock"]} /\ IsInjective(c)
  BY <1>1, FrontAndLast, ListedRest
<1> HIDE DEF c
<1>3. \A w : Deletion(w) # [do |-> "unlock"]
  <2> TAKE w
  <2>1. Deletion(w).do # [do |-> "unlock"].do
    BY DEF Deletion
  <2> QED
    BY <2>1
<1>4. \A w : On(c, w) <=> On(wk, w)
  BY <1>1, <1>2, <1>3, OnListed
<1> QED
  BY <1>2, <1>4 DEF Counted, Doomed, c

(* While no lock is held and nothing is deleted, counts tell references.   *)
LEMMA CountedIdle ==
    ASSUME NEW objs \in SUBSET Addr, NEW held \in [Addr -> Nat], NEW rc, NEW p
    PROVE  Counted(objs, held, rc, p, 0, << >>) <=>
              /\ rc \in [Addr -> Nat] /\ p = << >>
              /\ \A v \in objs : rc[v] = held[v]
<1>1. /\ \A v : ~On(<< >>, v)
      /\ << >> \in Seq(Task) /\ IsInjective(<< >>) /\ ToSet(<< >>) = {}
  BY OnNone DEF ToSet
<1>2. << >> \in Seq(Addr) /\ 0 \in Nat /\ ~(0 > 0)
  OBVIOUS
<1>3. p = << >> => ToSet(p) = {} /\ IsInjective(p)
  BY <1>1 DEF IsInjective
<1>4. \A v \in objs : rc[v] = held[v] + (IF On(<< >>, v) THEN 1 ELSE 0) <=> rc[v] = held[v]
  BY <1>1
<1> QED
  BY <1>1, <1>2, <1>3, <1>4 DEF Counted

(* var_lock() and var_unlock() count.                                      *)
LEMMA CountedLocked ==
    ASSUME NEW objs, NEW held, NEW rc, NEW p, NEW lk, Counted(objs, held, rc, p, lk, << >>)
    PROVE  /\ Counted(objs, held, rc, p, lk + 1, << >>)
           /\ lk > 1 => Counted(objs, held, rc, p, lk - 1, << >>)
           /\ lk = 1 => /\ Counted(objs, held, rc, p, lk - 1, <<[do |-> "unlock"]>>)
                        /\ \A w \in Addr : Doomed(p, <<[do |-> "unlock"]>>, w) <=> Doomed(p, << >>, w)
<1>1. lk \in Nat /\ \A v : ~On(<< >>, v)
  BY OnNone DEF Counted
<1>2. Counted(objs, held, rc, p, lk + 1, << >>)
  BY <1>1 DEF Counted
<1>3. lk > 1 => Counted(objs, held, rc, p, lk - 1, << >>)
  BY <1>1 DEF Counted
<1> DEFINE u == <<[do |-> "unlock"]>>
<1>4. /\ u \in Seq(Task) /\ u # << >> /\ u[1].do = "unlock" /\ IsInjective(u)
      /\ \A v : ~On(u, v)
  BY TaskParts DEF On, IsInjective
<1> HIDE DEF u
<1>5. lk = 1 => Counted(objs, held, rc, p, lk - 1, u)
  BY <1>1, <1>4 DEF Counted
<1> QED
  BY <1>1, <1>2, <1>3, <1>4, <1>5 DEF u, Doomed
------------------------------------------------------------------------------
(* How many references there are. *)

LEMMA HoldersFinite ==
    ASSUME NEW objs \in SUBSET Addr, NEW it, NEW ty, NEW v
    PROVE  /\ IsFiniteSet(HoldersOf(objs, it, v)) /\ Cardinality(HoldersOf(objs, it, v)) \in Nat
           /\ IsFiniteSet(InstancesOf(objs, ty, v)) /\ Cardinality(InstancesOf(objs, ty, v)) \in Nat
<1>1. IsFiniteSet(Addr) /\ IsFiniteSet(1..MaxItems)
  BY PoolAssumption, FS_Interval
<1>2. IsFiniteSet(Addr \X (1..MaxItems))
  BY <1>1, FS_Product
<1>3. HoldersOf(objs, it, v) \in SUBSET (Addr \X (1..MaxItems))
  BY DEF HoldersOf
<1>4. InstancesOf(objs, ty, v) \in SUBSET Addr
  BY DEF InstancesOf
<1>5. IsFiniteSet(HoldersOf(objs, it, v)) /\ IsFiniteSet(InstancesOf(objs, ty, v))
  BY <1>1, <1>2, <1>3, <1>4, FS_Subset
<1> QED
  BY <1>5, FS_CardinalityType

\* A root, an item or a type leads to v.
Led(objs, ty, it, ro, v) == ro[v] > 0 \/ \E w \in objs : ty[w] = v \/ v \in ToSet(it[w])

LEMMA HeldWhenNeeded ==
    ASSUME NEW objs \in SUBSET Addr, NEW ty, NEW it \in [Addr -> Seq(Addr)],
           NEW ro \in [Addr -> Nat], \A w \in objs : Len(it[w]) <= MaxItems
    PROVE  /\ HeldOf(objs, ty, it, ro) \in [Addr -> Nat]
           /\ \A v \in Addr : HeldOf(objs, ty, it, ro)[v] = 0 <=> ~Led(objs, ty, it, ro, v)
<1>1. \A v \in Addr : /\ ro[v] \in Nat /\ Cardinality(HoldersOf(objs, it, v)) \in Nat
                      /\ Cardinality(InstancesOf(objs, ty, v)) \in Nat
  BY HoldersFinite
<1>2. \A v \in Addr : HeldOf(objs, ty, it, ro)[v] =
            ro[v] + Cardinality(HoldersOf(objs, it, v)) + Cardinality(InstancesOf(objs, ty, v))
  BY DEF HeldOf
<1>3. HeldOf(objs, ty, it, ro) \in [Addr -> Nat]
  BY <1>1 DEF HeldOf
<1> SUFFICES ASSUME NEW v \in Addr
             PROVE  HeldOf(objs, ty, it, ro)[v] = 0 <=>
                       ro[v] = 0 /\ \A w \in objs : ty[w] # v /\ v \notin ToSet(it[w])
  <2>1. \A v \in Addr : ro[v] = 0 <=> ~(ro[v] > 0)
    OBVIOUS
  <2> QED
    BY <1>3, <2>1 DEF Led
<1>4. HeldOf(objs, ty, it, ro)[v] = 0 <=>
         ro[v] = 0 /\ HoldersOf(objs, it, v) = {} /\ InstancesOf(objs, ty, v) = {}
  <2>1. HeldOf(objs, ty, it, ro)[v] = 0 <=>
           /\ ro[v] = 0 /\ Cardinality(HoldersOf(objs, it, v)) = 0
           /\ Cardinality(InstancesOf(objs, ty, v)) = 0
    <3>1. \A a, b, c \in Nat : a + b + c = 0 <=> a = 0 /\ b = 0 /\ c = 0
      OBVIOUS
    <3> DEFINE b == Cardinality(HoldersOf(objs, it, v))
               c == Cardinality(InstancesOf(objs, ty, v))
    <3>2. ro[v] \in Nat /\ b \in Nat /\ c \in Nat /\ HeldOf(objs, ty, it, ro)[v] = ro[v] + b + c
      BY <1>1, <1>2
    <3> HIDE DEF b, c
    <3>3. HeldOf(objs, ty, it, ro)[v] = 0 <=> ro[v] = 0 /\ b = 0 /\ c = 0
      BY <3>1, <3>2
    <3> QED
      BY <3>3 DEF b, c
  <2> QED
    BY <2>1, HoldersFinite, FS_EmptySet
<1>5. InstancesOf(objs, ty, v) = {} <=> \A w \in objs : ty[w] # v
  BY DEF InstancesOf
<1>6. ASSUME HoldersOf(objs, it, v) = {}, NEW w \in objs, v \in ToSet(it[w]) PROVE FALSE
  <2>1. it[w] \in Seq(Addr) /\ w \in Addr
    OBVIOUS
  <2>2. PICK i \in 1..Len(it[w]) : it[w][i] = v
    BY <1>6, <2>1, ListedIn
  <2>3. i \in 1..MaxItems /\ i <= Len(it[w])
    <3>1. Len(it[w]) \in Nat /\ Len(it[w]) <= MaxItems
      BY <2>1, LenProperties
    <3> QED
      BY <3>1, PoolAssumption
  <2>4. <<w, i>> \in HoldersOf(objs, it, v)
    BY <2>1, <2>2, <2>3 DEF HoldersOf
  <2> QED
    BY <1>6, <2>4
<1>7. ASSUME \A w \in objs : v \notin ToSet(it[w]), NEW h \in HoldersOf(objs, it, v) PROVE FALSE
  <2>1. h[1] \in objs /\ h[2] \in 1..MaxItems /\ h[2] <= Len(it[h[1]]) /\ it[h[1]][h[2]] = v
    BY DEF HoldersOf
  <2>2. it[h[1]] \in Seq(Addr)
    BY <2>1
  <2>3. h[2] \in 1..Len(it[h[1]])
    BY <2>1, <2>2, LenProperties
  <2>4. v \in ToSet(it[h[1]])
    BY <2>1, <2>2, <2>3, ListedIn
  <2> QED
    BY <1>7, <2>1, <2>4
<1> QED
  BY <1>4, <1>5, <1>6, <1>7

(* An item more is a reference more, to that item.                         *)
LEMMA HoldersMore ==
    ASSUME NEW objs \in SUBSET Addr, NEW it \in [Addr -> Seq(Addr)],
           NEW v \in objs, NEW x \in Addr, Len(it[v]) < MaxItems,
           NEW it2, it2 = [it EXCEPT ![v] = Append(@, x)], NEW w \in Addr
    PROVE  More(Cardinality(HoldersOf(objs, it, w)), Cardinality(HoldersOf(objs, it2, w)), w, x)
<1> DEFINE n == Len(it[v])
           new == <<v, n + 1>>
<1>1. /\ it[v] \in Seq(Addr) /\ v \in Addr /\ n \in Nat /\ n < MaxItems
      /\ it2[v] = Append(it[v], x) /\ \A u \in Addr : u # v => it2[u] = it[u]
  BY LenProperties
<1>2. /\ Len(it2[v]) = n + 1 /\ it2[v][n + 1] = x
      /\ \A i \in 1..n : it2[v][i] = it[v][i]
  BY <1>1, AppendProperties
<1>3. new \in Addr \X (1..MaxItems)
  BY <1>1, PoolAssumption
<1> HIDE DEF n
<1>4. \A i \in 1..MaxItems : /\ i <= n => i \in 1..n
                             /\ i <= n + 1 <=> i <= n \/ i = n + 1
                             /\ i = n + 1 => ~(i <= n)
  BY <1>1
<1>5. ASSUME NEW h \in Addr \X (1..MaxItems)
      PROVE  h \in HoldersOf(objs, it2, w) <=>
                h \in HoldersOf(objs, it, w) \/ (h = new /\ w = x)
  <2>1. h[1] \in Addr /\ h[2] \in 1..MaxItems /\ h = <<h[1], h[2]>>
    OBVIOUS
  <2>2. CASE h[1] # v
    BY <1>1, <2>1, <2>2 DEF HoldersOf
  <2>3. CASE h[1] = v
    <3>1. h \in HoldersOf(objs, it2, w) <=> h[2] <= n + 1 /\ it2[v][h[2]] = w
      BY <1>2, <2>1, <2>3 DEF HoldersOf
    <3>2. h \in HoldersOf(objs, it, w) <=> h[2] <= n /\ it[v][h[2]] = w
      BY <1>1, <2>1, <2>3 DEF HoldersOf, n
    <3>3. h = new <=> h[2] = n + 1
      BY <2>1, <2>3
    <3> QED
      BY <1>2, <1>4, <2>1, <3>1, <3>2, <3>3
  <2> QED
    BY <2>2, <2>3
<1>6. /\ \A h \in HoldersOf(objs, it2, w) : h \in Addr \X (1..MaxItems)
      /\ \A h \in HoldersOf(objs, it, w) : h \in Addr \X (1..MaxItems)
  BY DEF HoldersOf
<1>7. new \notin HoldersOf(objs, it, w)
  <2>1. new[1] = v /\ new[2] = n + 1 /\ ~(n + 1 <= n)
    BY <1>1
  <2> QED
    BY <2>1 DEF HoldersOf, n
<1>8. HoldersOf(objs, it2, w) = HoldersOf(objs, it, w) \cup (IF w = x THEN {new} ELSE {})
  BY <1>3, <1>5, <1>6
<1> SUFFICES Cardinality(HoldersOf(objs, it2, w)) =
                Cardinality(HoldersOf(objs, it, w)) + (IF w = x THEN 1 ELSE 0)
  BY DEF More
<1> QED
  <2>1. IsFiniteSet(HoldersOf(objs, it, w)) /\ Cardinality(HoldersOf(objs, it, w)) \in Nat
    BY HoldersFinite
  <2>2. CASE w = x
    <3>1. HoldersOf(objs, it2, w) = HoldersOf(objs, it, w) \cup {new}
      BY <1>8, <2>2
    <3> HIDE DEF new
    <3>2. Cardinality(HoldersOf(objs, it, w) \cup {new}) = Cardinality(HoldersOf(objs, it, w)) + 1
      BY <1>7, <2>1, FS_AddElement
    <3> QED
      BY <2>2, <3>1, <3>2
  <2>3. CASE w # x
    <3>1. HoldersOf(objs, it2, w) = HoldersOf(objs, it, w)
      BY <1>8, <2>3
    <3> QED
      BY <2>1, <2>3, <3>1
  <2> QED
    BY <2>2, <2>3

(* The first item taken is a reference less, to that item; the others move *)
(* to other indices.                                                       *)
LEMMA HoldersLess ==
    ASSUME NEW objs \in SUBSET Addr, NEW it \in [Addr -> Seq(Addr)],
           NEW v \in objs, it[v] # << >>, Len(it[v]) <= MaxItems,
           NEW it2, it2 = [it EXCEPT ![v] = Tail(@)], NEW w \in Addr
    PROVE  Less(Cardinality(HoldersOf(objs, it, w)), Cardinality(HoldersOf(objs, it2, w)), w,
                Head(it[v]))
<1> DEFINE n == Len(it[v])
           first == <<v, 1>>
           A == HoldersOf(objs, it2, w)
           B == HoldersOf(objs, it, w) \ {first}
           f == [h \in A |-> IF h[1] = v THEN <<v, h[2] + 1>> ELSE h]
<1>1. /\ it[v] \in Seq(Addr) /\ v \in Addr /\ n \in Nat /\ n >= 1 /\ n <= MaxItems
      /\ it2[v] = Tail(it[v]) /\ \A u \in Addr : u # v => it2[u] = it[u]
  BY LenProperties, EmptySeq
<1>2. /\ Len(it2[v]) = n - 1 /\ Head(it[v]) = it[v][1]
      /\ \A i \in 1..(n - 1) : it2[v][i] = it[v][i + 1]
  BY <1>1, HeadTailProperties
<1> HIDE DEF n
<1>3. /\ \A i \in 1..MaxItems : i <= n - 1 => i \in 1..(n - 1) /\ i + 1 \in 1..MaxItems /\ i + 1 <= n /\ i + 1 # 1
      /\ \A i \in 1..MaxItems : i <= n /\ i # 1 => i - 1 \in 1..MaxItems /\ i - 1 <= n - 1 /\ i - 1 \in 1..(n - 1) /\ i - 1 + 1 = i
      /\ \A i, j \in 1..MaxItems : i + 1 = j + 1 => i = j
      /\ 1 \in 1..MaxItems
  BY <1>1, PoolAssumption
<1>4. ASSUME NEW h
      PROVE  /\ h \in A <=> /\ h \in Addr \X (1..MaxItems) /\ h[1] \in objs /\ h[2] <= Len(it2[h[1]])
                            /\ it2[h[1]][h[2]] = w
             /\ h \in B <=> /\ h \in Addr \X (1..MaxItems) /\ h[1] \in objs /\ h[2] <= Len(it[h[1]])
                            /\ it[h[1]][h[2]] = w /\ h # first
  BY DEF HoldersOf
<1>5. ASSUME NEW h \in Addr \X (1..MaxItems), h[1] = v
      PROVE  /\ h \in A <=> h[2] \in 1..(n - 1) /\ it[v][h[2] + 1] = w
             /\ h \in B <=> h[2] <= n /\ it[v][h[2]] = w /\ h[2] # 1
             /\ h = <<v, h[2]>> /\ h[2] \in 1..MaxItems
  <2>1. h = <<v, h[2]>> /\ h[2] \in 1..MaxItems
    BY <1>5
  <2>2. h \in A <=> h[2] <= n - 1 /\ it2[v][h[2]] = w
    BY <1>2, <1>4, <1>5
  <2>3. h[2] <= n - 1 <=> h[2] \in 1..(n - 1)
    BY <1>1, <2>1
  <2>4. h \in B <=> h[2] <= n /\ it[v][h[2]] = w /\ h # first
    BY <1>4, <1>5 DEF n
  <2>5. h # first <=> h[2] # 1
    BY <2>1
  <2> QED
    BY <1>2, <2>1, <2>2, <2>3, <2>4, <2>5
<1>6. ASSUME NEW h \in Addr \X (1..MaxItems), h[1] # v
      PROVE  h \in A <=> h \in B
  <2>1. h # first /\ it2[h[1]] = it[h[1]]
    BY <1>1, <1>6
  <2> QED
    BY <1>4, <2>1
<1> HIDE DEF A, B
<1>7. \A h : (h \in A \/ h \in B) => h \in Addr \X (1..MaxItems)
  BY <1>4
<1>8. ASSUME NEW h \in A
      PROVE  /\ f[h] \in B
             /\ h[1] = v => f[h] = <<v, h[2] + 1>> /\ h = <<v, h[2]>> /\ h[2] \in 1..MaxItems
             /\ h[1] # v => f[h] = h
  <2>1. h \in Addr \X (1..MaxItems)
    BY <1>7
  <2>2. CASE h[1] = v
    <3>1. h[2] \in 1..(n - 1) /\ it[v][h[2] + 1] = w /\ h = <<v, h[2]>> /\ h[2] \in 1..MaxItems
      BY <1>5, <2>1, <2>2
    <3>2. /\ h[2] + 1 \in 1..MaxItems /\ h[2] + 1 <= n /\ h[2] + 1 # 1
      <4>1. h[2] <= n - 1
        BY <1>1, <3>1
      <4> QED
        BY <1>3, <3>1, <4>1
    <3> DEFINE g == <<v, h[2] + 1>>
    <3>3. g \in Addr \X (1..MaxItems) /\ g[1] = v /\ g[2] = h[2] + 1
      BY <1>1, <3>2
    <3>4. g \in B
      BY <1>5, <3>1, <3>2, <3>3
    <3> QED
      BY <2>2, <3>1, <3>4
  <2>3. CASE h[1] # v
    BY <1>6, <2>1, <2>3
  <2> QED
    BY <2>2, <2>3
<1>9. ASSUME NEW g \in B PROVE \E h \in A : f[h] = g
  <2>1. g \in Addr \X (1..MaxItems)
    BY <1>7
  <2>2. CASE g[1] = v
    <3>1. g[2] <= n /\ it[v][g[2]] = w /\ g[2] # 1 /\ g = <<v, g[2]>> /\ g[2] \in 1..MaxItems
      BY <1>5, <2>1, <2>2
    <3>2. g[2] - 1 \in 1..MaxItems /\ g[2] - 1 \in 1..(n - 1) /\ g[2] - 1 + 1 = g[2]
      BY <1>3, <3>1
    <3> DEFINE h == <<v, g[2] - 1>>
    <3>3. h \in Addr \X (1..MaxItems) /\ h[1] = v /\ h[2] = g[2] - 1
      BY <1>1, <3>2
    <3>4. h \in A
      BY <1>5, <3>1, <3>2, <3>3
    <3>5. f[h] = g
      BY <1>8, <3>1, <3>2, <3>3, <3>4
    <3> QED
      BY <3>4, <3>5
  <2>3. CASE g[1] # v
    BY <1>6, <1>8, <2>1, <2>3
  <2> QED
    BY <2>2, <2>3
<1>10. ASSUME NEW g \in A, NEW h \in A, f[g] = f[h] PROVE g = h
  <2>1. g[1] = v => f[g][1] = v /\ f[g][2] = g[2] + 1
    BY <1>8
  <2>2. h[1] = v => f[h][1] = v /\ f[h][2] = h[2] + 1
    BY <1>8
  <2>3. CASE g[1] = v /\ h[1] = v
    <3>1. g[2] + 1 = h[2] + 1 /\ g[2] \in 1..MaxItems /\ h[2] \in 1..MaxItems
      BY <1>8, <1>10, <2>1, <2>2, <2>3
    <3>2. g[2] = h[2]
      BY <1>3, <3>1
    <3>3. g = <<v, g[2]>> /\ h = <<v, h[2]>>
      BY <1>8, <2>3
    <3> QED
      BY <3>2, <3>3
  <2>4. CASE g[1] # v /\ h[1] # v
    BY <1>8, <1>10, <2>4
  <2> QED
    BY <1>8, <1>10, <2>1, <2>2, <2>3, <2>4
<1>11. f \in [A -> B] /\ DOMAIN f = A
  BY <1>8
<1> HIDE DEF f
<1>12. ExistsBijection(A, B)
  <2>1. f \in Injection(A, B)
    BY <1>10, <1>11 DEF Injection, IsInjective
  <2>2. f \in Surjection(A, B)
    BY <1>9, <1>11 DEF Surjection
  <2> QED
    BY <2>1, <2>2 DEF ExistsBijection, Bijection
<1>13. Cardinality(A) = Cardinality(B)
  <2>1. IsFiniteSet(A)
    BY HoldersFinite DEF A
  <2> QED
    BY <1>12, <2>1, FS_Bijection
<1>14. first \in HoldersOf(objs, it, w) <=> w = Head(it[v])
  <2>1. first \in Addr \X (1..MaxItems) /\ first[1] = v /\ first[2] = 1 /\ 1 <= n
    BY <1>1, <1>3
  <2> QED
    BY <1>2, <2>1 DEF HoldersOf, n
<1> HIDE DEF first
<1>15. Cardinality(B) = IF w = Head(it[v]) THEN Cardinality(HoldersOf(objs, it, w)) - 1
                        ELSE Cardinality(HoldersOf(objs, it, w))
  <2>1. IsFiniteSet(HoldersOf(objs, it, w))
    BY HoldersFinite
  <2>2. Cardinality(HoldersOf(objs, it, w) \ {first}) =
           IF first \in HoldersOf(objs, it, w) THEN Cardinality(HoldersOf(objs, it, w)) - 1
           ELSE Cardinality(HoldersOf(objs, it, w))
    BY <2>1, FS_RemoveElement
  <2> QED
    BY <1>14, <2>2 DEF B
<1>16. Cardinality(HoldersOf(objs, it, w)) \in Nat
  BY HoldersFinite
<1> QED
  BY <1>13, <1>15, <1>16 DEF A, Less

\* The part of TypeOK that Counted does not say.
Typed == /\ use \in [Addr -> {"heap", "list", "object"}]
         /\ type \in [Addr -> Types]
         /\ items \in [Addr -> Seq(Addr)]
         /\ roots \in [Addr -> Nat]
         /\ freelist \in [Types -> Seq(Addr)]

LEMMA InvParts ==
    /\ Inv <=> /\ Typed /\ References /\ FreeLists
               /\ Counted(Objects, Held, refcnt, pending, locked, work)
    /\ Inv' <=> /\ Typed' /\ References' /\ FreeLists'
                /\ Counted(Objects', Held', refcnt', pending', locked', work')
<1>1. Inv <=> /\ Typed /\ References /\ FreeLists
              /\ Counted(Objects, Held, refcnt, pending, locked, work)
  BY DEF Inv, TypeOK, Typed, Counted
<1>2. Inv' <=> /\ Typed' /\ References' /\ FreeLists'
               /\ Counted(Objects', Held', refcnt', pending', locked', work')
  BY DEF Inv, TypeOK, Typed, Counted
<1> QED
  BY <1>1, <1>2

(* Nobody refers to an object exactly when its Held is 0.                  *)
LEMMA HeldMeans ==
    ASSUME Typed, References
    PROVE  /\ Objects \in SUBSET Addr /\ Held \in [Addr -> Nat]
           /\ \A v \in Addr : Held[v] = 0 <=> ~Led(Objects, type, items, roots, v)
<1>1. Objects \in SUBSET Addr
  BY DEF Objects
<1>2. \A w \in Objects : Len(items[w]) <= MaxItems
  BY DEF Objects, References
<1>3. items \in [Addr -> Seq(Addr)] /\ roots \in [Addr -> Nat]
  BY DEF Typed
<1>4. /\ HeldOf(Objects, type, items, roots) \in [Addr -> Nat]
      /\ \A v \in Addr : HeldOf(Objects, type, items, roots)[v] = 0
                          <=> ~Led(Objects, type, items, roots, v)
  BY <1>1, <1>2, <1>3, HeldWhenNeeded
<1> QED
  BY <1>1, <1>4 DEF Held

LEMMA HeldMeansNext ==
    ASSUME Typed', References'
    PROVE  /\ Objects' \in SUBSET Addr /\ Held' \in [Addr -> Nat]
           /\ \A v \in Addr : Held'[v] = 0 <=> ~Led(Objects', type', items', roots', v)
<1>1. Objects' \in SUBSET Addr
  BY DEF Objects
<1>2. \A w \in Objects' : Len(items'[w]) <= MaxItems
  BY DEF Objects, References
<1>3. items' \in [Addr -> Seq(Addr)] /\ roots' \in [Addr -> Nat]
  BY DEF Typed
<1>4. /\ HeldOf(Objects', type', items', roots') \in [Addr -> Nat]
      /\ \A v \in Addr : HeldOf(Objects', type', items', roots')[v] = 0
                          <=> ~Led(Objects', type', items', roots', v)
  BY <1>1, <1>2, <1>3, HeldWhenNeeded
<1> QED
  BY <1>1, <1>4 DEF Held

(* What a new object of type t adds, and what the last of v takes away.    *)
\* What was h becomes h2: one more for each of the two that x is.
Adds(h, h2, x, t, v) == h2 = h + (IF x = t THEN 1 ELSE 0) + (IF x = v THEN 1 ELSE 0)

LEMMA HeldNew ==
    ASSUME NEW objs \in SUBSET Addr, NEW ty \in [Addr -> Types], NEW it \in [Addr -> Seq(Addr)],
           NEW ro \in [Addr -> Nat], NEW v \in Addr \ objs, NEW t, ro[v] = 0, NEW x \in Addr,
           NEW objs2, objs2 = objs \cup {v}, NEW ty2, ty2 = [ty EXCEPT ![v] = t],
           NEW it2, it2 = [it EXCEPT ![v] = << >>], NEW ro2, ro2 = [ro EXCEPT ![v] = 1]
    PROVE  Adds(HeldOf(objs, ty, it, ro)[x], HeldOf(objs2, ty2, it2, ro2)[x], x, t, v)
<1> DEFINE a == Cardinality(HoldersOf(objs, it, x))
           b == Cardinality(InstancesOf(objs, ty, x))
<1>1. /\ ro2 \in [Addr -> Nat] /\ ro2[x] = ro[x] + (IF x = v THEN 1 ELSE 0) /\ objs2 \in SUBSET Addr
      /\ ty2[v] = t /\ it2[v] = << >>
      /\ \A u \in Addr : u # v => ty2[u] = ty[u] /\ it2[u] = it[u]
  OBVIOUS
<1>2. HoldersOf(objs2, it2, x) = HoldersOf(objs, it, x)
  <2>1. ASSUME NEW h \in Addr \X (1..MaxItems)
        PROVE  h \in HoldersOf(objs2, it2, x) <=> h \in HoldersOf(objs, it, x)
    <3>1. CASE h[1] = v
      <4>1. ~(h[2] <= Len(it2[h[1]]))
        BY <1>1, <3>1, PoolAssumption
      <4>2. h[1] \notin objs
        BY <3>1
      <4> QED
        BY <4>1, <4>2 DEF HoldersOf
    <3>2. CASE h[1] # v
      BY <1>1, <3>2 DEF HoldersOf
    <3> QED
      BY <3>1, <3>2
  <2> QED
    BY <2>1 DEF HoldersOf
<1>3. InstancesOf(objs2, ty2, x) = InstancesOf(objs, ty, x) \cup (IF x = t THEN {v} ELSE {})
  BY <1>1 DEF InstancesOf
<1>4. v \notin InstancesOf(objs, ty, x) /\ IsFiniteSet(InstancesOf(objs, ty, x))
  <2>1. v \notin InstancesOf(objs, ty, x)
    BY DEF InstancesOf
  <2> QED
    BY <2>1, HoldersFinite
<1>5. /\ a \in Nat /\ b \in Nat /\ ro[x] \in Nat
      /\ HeldOf(objs, ty, it, ro)[x] = ro[x] + a + b
  BY HoldersFinite DEF HeldOf
<1>6. Cardinality(InstancesOf(objs2, ty2, x)) = b + (IF x = t THEN 1 ELSE 0)
  <2>1. CASE x = t
    <3>1. InstancesOf(objs2, ty2, x) = InstancesOf(objs, ty, x) \cup {v}
      BY <1>3, <2>1
    <3>2. Cardinality(InstancesOf(objs, ty, x) \cup {v}) = b + 1
      BY <1>4, FS_AddElement
    <3> QED
      BY <2>1, <3>1, <3>2
  <2>2. CASE x # t
    <3>1. InstancesOf(objs2, ty2, x) = InstancesOf(objs, ty, x)
      BY <1>3, <2>2
    <3> QED
      BY <1>5, <2>2, <3>1
  <2> QED
    BY <2>1, <2>2
<1> HIDE DEF a, b
<1>7. HeldOf(objs2, ty2, it2, ro2)[x] = ro2[x] + a + (b + (IF x = t THEN 1 ELSE 0))
  BY <1>2, <1>6 DEF HeldOf, a
<1>8. HeldOf(objs2, ty2, it2, ro2)[x] =
         HeldOf(objs, ty, it, ro)[x] + (IF x = t THEN 1 ELSE 0) + (IF x = v THEN 1 ELSE 0)
  BY <1>1, <1>5, <1>7
<1> QED
  BY <1>8 DEF Adds

LEMMA HeldLess ==
    ASSUME NEW objs \in SUBSET Addr, NEW ty \in [Addr -> Types], NEW it \in [Addr -> Seq(Addr)],
           NEW ro \in [Addr -> Nat], NEW v \in objs, it[v] = << >>, NEW x \in Addr,
           NEW objs2, objs2 = objs \ {v}
    PROVE  Less(HeldOf(objs, ty, it, ro)[x], HeldOf(objs2, ty, it, ro)[x], x, ty[v])
<1> DEFINE a == Cardinality(HoldersOf(objs, it, x))
           b == Cardinality(InstancesOf(objs, ty, x))
<1>1. HoldersOf(objs2, it, x) = HoldersOf(objs, it, x)
  <2>1. ASSUME NEW h \in Addr \X (1..MaxItems), h[1] = v
        PROVE  ~(h[2] <= Len(it[h[1]]))
    BY <2>1, PoolAssumption
  <2> QED
    BY <2>1 DEF HoldersOf
<1>2. /\ a \in Nat /\ b \in Nat /\ ro[x] \in Nat
      /\ HeldOf(objs, ty, it, ro)[x] = ro[x] + a + b
  BY HoldersFinite DEF HeldOf
<1>3. Cardinality(InstancesOf(objs2, ty, x)) = b - (IF x = ty[v] THEN 1 ELSE 0)
  <2>1. InstancesOf(objs2, ty, x) = InstancesOf(objs, ty, x) \ {v}
    BY DEF InstancesOf
  <2>2. v \in InstancesOf(objs, ty, x) <=> x = ty[v]
    BY DEF InstancesOf
  <2>3. IsFiniteSet(InstancesOf(objs, ty, x))
    BY HoldersFinite
  <2>4. Cardinality(InstancesOf(objs, ty, x) \ {v}) =
           IF v \in InstancesOf(objs, ty, x) THEN b - 1 ELSE b
    BY <2>3, FS_RemoveElement
  <2> QED
    <3>1. Cardinality(InstancesOf(objs2, ty, x)) = IF x = ty[v] THEN b - 1 ELSE b
      BY <2>1, <2>2, <2>4
    <3> HIDE DEF a, b
    <3> QED
      BY <1>2, <3>1
<1> HIDE DEF a, b
<1>4. HeldOf(objs2, ty, it, ro)[x] = ro[x] + a + (b - (IF x = ty[v] THEN 1 ELSE 0))
  BY <1>1, <1>3 DEF HeldOf, a
<1> QED
  BY <1>2, <1>4 DEF Less
------------------------------------------------------------------------------
(* The steps. *)

\* Nobody leads to a doomed object.
LEMMA DoomedAlone ==
    ASSUME Inv, NEW v \in Addr, Doomed(pending, work, v)
    PROVE  /\ IsObject(v) /\ roots[v] = 0
           /\ \A w \in Objects : type[w] # v /\ v \notin ToSet(items[w])
<1>1. v \in Objects /\ Held[v] = 0
  BY InvParts DEF Counted, Doomed
<1>2. ~Led(Objects, type, items, roots, v) /\ roots[v] \in Nat
  BY <1>1, InvParts, HeldMeans DEF Typed
<1> QED
  BY <1>1, <1>2 DEF Led, Objects

LEMMA AliveIs ==
    /\ Alive = {v \in Objects : ~Doomed(pending, work, v)}
    /\ Alive' = {v \in Objects' : ~Doomed(pending', work', v)}
BY DEF Alive, Objects, Doomed, Deleting, On

(* While ordinary code runs nothing is doomed.                             *)
LEMMA ProgramCounts ==
    ASSUME Inv, Program
    PROVE  /\ refcnt \in [Addr -> Nat] /\ pending = << >> /\ work = << >> /\ locked = 0
           /\ \A v \in Objects : refcnt[v] = Held[v]
           /\ Alive = Objects
<1>1. Objects \in SUBSET Addr /\ Held \in [Addr -> Nat] /\ work = << >> /\ locked = 0
  BY InvParts, HeldMeans DEF Program
<1>2. /\ refcnt \in [Addr -> Nat] /\ pending = << >> /\ \A v \in Objects : refcnt[v] = Held[v]
  <2>1. Counted(Objects, Held, refcnt, pending, 0, << >>)
    BY <1>1, InvParts
  <2> QED
    BY <1>1, <2>1, CountedIdle
<1>3. \A v : ~Doomed(pending, work, v)
  BY <1>1, <1>2, OnNone DEF Doomed, ToSet
<1> QED
  BY <1>1, <1>2, <1>3, AliveIs

LEMMA ProgramGoesOn ==
    ASSUME Typed', References', FreeLists', refcnt' \in [Addr -> Nat],
           UNCHANGED <<pending, locked, work>>, pending = << >>, work = << >>, locked = 0,
           \A v \in Objects' : refcnt'[v] = Held'[v]
    PROVE  Inv' /\ Alive' = Objects'
<1>1. Objects' \in SUBSET Addr /\ Held' \in [Addr -> Nat]
  BY HeldMeansNext
<1>2. Counted(Objects', Held', refcnt', pending', locked', work')
  <2>1. Counted(Objects', Held', refcnt', << >>, 0, << >>)
    BY <1>1, CountedIdle
  <2> QED
    BY <2>1
<1>3. \A v : ~Doomed(pending', work', v)
  BY OnNone DEF Doomed, ToSet
<1>4. Inv'
  BY <1>2, InvParts
<1>5. Alive' = {v \in Objects' : ~Doomed(pending', work', v)}
  BY AliveIs
<1> QED
  BY <1>3, <1>4, <1>5

(* Storage that is given out is nobody's.                                  *)
LEMMA NewStep ==
    ASSUME Inv, New
    PROVE  /\ Inv' /\ Alive = Objects /\ Alive' = Objects'
           /\ \E v \in Addr \ Objects, t \in Types :
                 /\ t \in Addr => t \in Objects
                 /\ Objects' = Objects \cup {v}
                 /\ type' = [type EXCEPT ![v] = t] /\ items' = [items EXCEPT ![v] = << >>]
                 /\ roots' = [roots EXCEPT ![v] = 1]
<1>1. Typed /\ References /\ FreeLists
  BY InvParts
<1>2. PICK v \in Addr, t \in Types : (t \in Addr => Rooted(t) /\ IsClass(t)) /\ var_new(t, v)
  BY DEF New
<1>3. /\ Program /\ UNCHANGED <<pending, locked, work>>
  BY DEF New
<1>4. /\ use' = [use EXCEPT ![v] = "object"]
      /\ freelist' = [freelist EXCEPT ![t] = IF @ = << >> THEN @ ELSE Tail(@)]
      /\ type' = [type EXCEPT ![v] = t]
      /\ refcnt' = [w \in Addr |-> IF w = v THEN 1 ELSE refcnt[w] + (IF w = t THEN 1 ELSE 0)]
      /\ items' = [items EXCEPT ![v] = << >>]
      /\ roots' = [roots EXCEPT ![v] = 1]
  BY <1>2 DEF var_new
<1>5. \A u \in Types : /\ freelist[u] \in Seq(Addr) /\ IsInjective(freelist[u])
                       /\ Len(freelist[u]) <= MAX_FREELIST_SIZE
                       /\ \A w \in ToSet(freelist[u]) : w \in Addr /\ use[w] = "list" /\ type[w] = u
                       /\ freelist[u] # << >> => u \notin Addr \/ IsClass(u)
  <2>1. \A u \in Types : freelist[u] \in Seq(Addr)
    BY <1>1 DEF Typed
  <2>2. \A u \in Types : ToSet(freelist[u]) \subseteq Addr
    BY <2>1, ListedIn
  <2> QED
    BY <1>1, <2>1, <2>2 DEF FreeLists
<1>6. v \notin Objects /\ (freelist[t] # << >> => v = Head(freelist[t]))
  <2>1. CASE freelist[t] # << >>
    <3>1. v = Head(freelist[t]) /\ Head(freelist[t]) \in ToSet(freelist[t])
      BY <1>2, <1>5, <2>1, ListedFirst DEF var_new, CanAlloc
    <3>2. use[v] = "list"
      BY <1>5, <3>1
    <3> QED
      BY <3>1, <3>2 DEF Objects, IsObject
  <2>2. CASE freelist[t] = << >>
    BY <1>2, <2>2 DEF var_new, CanAlloc, Objects, IsObject
  <2> QED
    BY <2>1, <2>2
<1>7. Objects' = Objects \cup {v}
  <2>1. use \in [Addr -> {"heap", "list", "object"}]
    BY <1>1 DEF Typed
  <2> QED
    BY <1>4, <2>1 DEF Objects, IsObject
<1>8. (t \in Addr => t \in Objects) /\ t # v
  BY <1>2, <1>6 DEF Objects, Rooted
<1>9. roots[v] = 0 /\ \A w \in Objects : type[w] # v /\ v \notin ToSet(items[w]) /\ w # v
  <2>1. ~(roots[v] > 0) /\ roots[v] \in Nat
    BY <1>1, <1>6 DEF References, Objects, Typed
  <2>2. \A w \in Objects : type[w] # v /\ v \notin ToSet(items[w])
    BY <1>1, <1>6 DEF References, Objects, IsClass
  <2> QED
    BY <1>6, <2>1, <2>2
<1>10. Typed'
  <2>1. use' \in [Addr -> {"heap", "list", "object"}] /\ type' \in [Addr -> Types]
    BY <1>1, <1>4 DEF Typed
  <2>2. items' \in [Addr -> Seq(Addr)] /\ roots' \in [Addr -> Nat]
    BY <1>1, <1>4 DEF Typed
  <2>3. freelist[t] # << >> => Tail(freelist[t]) \in Seq(Addr)
    BY <1>5, ListedFirst
  <2>4. freelist' \in [Types -> Seq(Addr)]
    BY <1>1, <1>4, <1>5, <2>3 DEF Typed
  <2> QED
    BY <2>1, <2>2, <2>4 DEF Typed
<1>11. References'
  <2>1. \A w \in Addr : w # v => items'[w] = items[w] /\ roots'[w] = roots[w] /\ type'[w] = type[w]
    BY <1>1, <1>4 DEF Typed
  <2>2. items'[v] = << >> /\ type'[v] = t /\ Len(items'[v]) <= MaxItems /\ ToSet(items'[v]) = {}
    BY <1>1, <1>4, PoolAssumption DEF Typed, ToSet
  <2>3. \A w \in Addr : IsObject(w)' <=> w \in Objects \/ w = v
    BY <1>7 DEF Objects
  <2>4. \A w \in Addr : w \in Objects <=> IsObject(w)
    BY DEF Objects
  <2>5. \A w \in Addr : IsClass(w) => w # v /\ IsClass(w)'
    BY <1>6, <2>1, <2>3, <2>4 DEF IsClass
  <2> SUFFICES ASSUME NEW w \in Addr
               PROVE  /\ roots'[w] > 0 => IsObject(w)'
                      /\ IsObject(w)' => /\ Len(items'[w]) <= MaxItems
                                         /\ \A x \in ToSet(items'[w]) : IsObject(x)'
                                         /\ (type[w])' \in Addr => IsClass(type[w])'
    BY DEF References, IsClass, IsObject
  <2>6. CASE w = v
    BY <1>2, <2>2, <2>3, <2>5, <2>6
  <2>7. CASE w # v
    <3>1. roots[w] > 0 => IsObject(w)
      BY <1>1 DEF References
    <3>2. IsObject(w) => /\ Len(items[w]) <= MaxItems
                         /\ \A x \in ToSet(items[w]) : x \in Addr /\ IsObject(x)
                         /\ type[w] \in Addr => IsClass(type[w])
      <4>1. items[w] \in Seq(Addr)
        BY <1>1 DEF Typed
      <4>2. ToSet(items[w]) \subseteq Addr
        BY <4>1, ListedIn
      <4> QED
        BY <1>1, <4>2 DEF References
    <3> QED
      BY <2>1, <2>3, <2>4, <2>5, <2>7, <3>1, <3>2
  <2> QED
    BY <2>6, <2>7
<1>12. FreeLists'
  <2>1. \A u \in Types : u # t => freelist'[u] = freelist[u]
    BY <1>1, <1>4 DEF Typed
  <2>2. freelist[t] = << >> => freelist'[t] = << >>
    BY <1>1, <1>4 DEF Typed
  <2>3. freelist[t] # << >> =>
           /\ IsInjective(freelist'[t]) /\ Len(freelist'[t]) <= MAX_FREELIST_SIZE
           /\ ToSet(freelist'[t]) = ToSet(freelist[t]) \ {v}
    <3>1. freelist[t] # << >> =>
             /\ freelist'[t] = Tail(freelist[t]) /\ IsInjective(Tail(freelist[t]))
             /\ Len(Tail(freelist[t])) = Len(freelist[t]) - 1
             /\ ToSet(Tail(freelist[t])) = ToSet(freelist[t]) \ {v}
      <4>1. freelist[t] # << >> => freelist'[t] = Tail(freelist[t]) /\ v = Head(freelist[t])
        BY <1>1, <1>4, <1>5, <1>6 DEF Typed
      <4>2. freelist[t] \in Seq(Addr) /\ IsInjective(freelist[t])
        BY <1>5
      <4>3. freelist[t] # << >> =>
               /\ IsInjective(Tail(freelist[t]))
               /\ Len(Tail(freelist[t])) = Len(freelist[t]) - 1
               /\ ToSet(Tail(freelist[t])) = ToSet(freelist[t]) \ {Head(freelist[t])}
        BY ONLY <4>2, ListedFirst
      <4> QED
        BY <4>1, <4>3
    <3>2. Len(freelist[t]) \in Nat /\ Len(freelist[t]) <= MAX_FREELIST_SIZE
      BY <1>5, LenProperties
    <3>3. freelist[t] # << >> => Len(freelist'[t]) <= MAX_FREELIST_SIZE
      <4>1. freelist[t] # << >> => Len(freelist'[t]) = Len(freelist[t]) - 1
        BY <3>1
      <4> QED
        BY <3>2, <4>1, PoolAssumption
    <3> QED
      BY <3>1, <3>3
  <2>4. ASSUME NEW u \in Types, NEW w \in ToSet(freelist[u]), u # t \/ w # v
        PROVE  w # v /\ use'[w] = "list" /\ type'[w] = u
    <3>1. w \in Addr /\ use[w] = "list" /\ type[w] = u
      BY <1>5
    <3>2. w # v
      <4>1. CASE freelist[t] # << >>
        <5>1. v \in ToSet(freelist[t])
          BY <1>5, <1>6, <4>1, ListedFirst
        <5> QED
          BY <1>5, <2>4, <3>1, <5>1
      <4>2. CASE freelist[t] = << >>
        BY <1>2, <3>1, <4>2 DEF var_new, CanAlloc
      <4> QED
        BY <4>1, <4>2
    <3> QED
      BY <1>1, <1>4, <3>1, <3>2 DEF Typed
  <2>5. \A u \in Addr : IsClass(u) => IsClass(u)'
    <3>1. \A u \in Addr : IsClass(u) => u # v
      BY <1>6 DEF IsClass, Objects
    <3> QED
      BY <1>1, <1>4, <3>1 DEF IsClass, IsObject, Typed
  <2> SUFFICES ASSUME NEW u \in Types
               PROVE  /\ IsInjective(freelist'[u]) /\ Len(freelist'[u]) <= MAX_FREELIST_SIZE
                      /\ \A w \in ToSet(freelist'[u]) : use'[w] = "list" /\ type'[w] = u
                      /\ freelist'[u] # << >> => u \notin Addr \/ IsClass(u)'
    BY DEF FreeLists, IsClass, IsObject
  <2>6. CASE u # t
    BY <1>5, <2>1, <2>4, <2>5, <2>6
  <2>7. CASE u = t /\ freelist[t] # << >>
    BY <1>5, <2>3, <2>4, <2>5, <2>7
  <2>8. CASE u = t /\ freelist[t] = << >>
    <3>1. freelist'[u] = << >> /\ Len(<< >>) = 0 /\ ToSet(<< >>) = {} /\ IsInjective(<< >>)
      BY <2>2, <2>8 DEF ToSet, IsInjective
    <3> QED
      BY <3>1, PoolAssumption
  <2> QED
    BY <2>6, <2>7, <2>8
<1>13. /\ refcnt \in [Addr -> Nat] /\ pending = << >> /\ work = << >> /\ locked = 0
       /\ (\A w \in Objects : refcnt[w] = Held[w]) /\ Alive = Objects
  BY <1>3, ProgramCounts
<1>14. refcnt' \in [Addr -> Nat]
  BY <1>4, <1>13
<1>15. /\ Objects \in SUBSET Addr /\ Held \in [Addr -> Nat] /\ Held[v] = 0
  <2>1. ~Led(Objects, type, items, roots, v)
    BY <1>9 DEF Led
  <2> QED
    BY <1>1, <2>1, HeldMeans
<1>16. ASSUME NEW w \in Addr
       PROVE  Held'[w] = Held[w] + (IF w = t THEN 1 ELSE 0) + (IF w = v THEN 1 ELSE 0)
  <2>1. /\ type \in [Addr -> Types] /\ items \in [Addr -> Seq(Addr)] /\ roots \in [Addr -> Nat]
        /\ v \in Addr \ Objects /\ roots[v] = 0
        /\ Objects' = Objects \cup {v} /\ type' = [type EXCEPT ![v] = t]
        /\ items' = [items EXCEPT ![v] = << >>] /\ roots' = [roots EXCEPT ![v] = 1]
        /\ Objects \in SUBSET Addr
    BY <1>1, <1>4, <1>6, <1>7, <1>9, <1>15 DEF Typed
  <2>2. Adds(HeldOf(Objects, type, items, roots)[w], HeldOf(Objects', type', items', roots')[w],
             w, t, v)
    BY ONLY <2>1, HeldNew, w \in Addr
  <2> QED
    BY <2>2 DEF Held, Adds
<1>17. \A w \in Objects' : refcnt'[w] = Held'[w]
  <2> SUFFICES ASSUME NEW w \in Addr, w \in Objects \/ w = v PROVE refcnt'[w] = Held'[w]
    BY <1>7, <1>15
  <2>1. CASE w = v
    <3>1. refcnt'[v] = 1
      BY <1>4
    <3>2. Held'[v] = Held[v] + 0 + 1
      BY <1>8, <1>16
    <3> QED
      BY <1>15, <2>1, <3>1, <3>2
  <2>2. CASE w # v
    <3>1. refcnt[w] = Held[w] /\ Held[w] \in Nat
      BY <1>13, <1>15, <2>2
    <3> QED
      BY <1>4, <1>16, <2>2, <3>1
  <2> QED
    BY <2>1, <2>2
<1>18. Inv' /\ Alive' = Objects'
  BY <1>3, <1>10, <1>11, <1>12, <1>13, <1>14, <1>17, ProgramGoesOn
<1> QED
  BY <1>4, <1>6, <1>7, <1>8, <1>13, <1>18

(* Roots and items that come and go while the objects stay.                *)
Moved(h, h2, r, r2) == h2 = h + r2 - r

LEMMA HeldRooted ==
    ASSUME NEW objs \in SUBSET Addr, NEW ty, NEW it, NEW ro \in [Addr -> Nat],
           NEW ro2 \in [Addr -> Nat], NEW x \in Addr
    PROVE  Moved(HeldOf(objs, ty, it, ro)[x], HeldOf(objs, ty, it, ro2)[x], ro[x], ro2[x])
<1> DEFINE a == Cardinality(HoldersOf(objs, it, x))
           b == Cardinality(InstancesOf(objs, ty, x))
<1>1. /\ a \in Nat /\ b \in Nat /\ ro[x] \in Nat /\ ro2[x] \in Nat
      /\ HeldOf(objs, ty, it, ro)[x] = ro[x] + a + b
      /\ HeldOf(objs, ty, it, ro2)[x] = ro2[x] + a + b
  BY HoldersFinite DEF HeldOf
<1> HIDE DEF a, b
<1> QED
  BY <1>1 DEF Moved

\* The bounds of Store and of References.
Room(s) == Len(s) < MaxItems
Fits(s) == Len(s) <= MaxItems

Stored(objs, ty, it, ro, v, x, it2, ro2, w) ==
    HeldOf(objs, ty, it2, ro2)[w] = HeldOf(objs, ty, it, ro)[w]

LEMMA HeldStored ==
    ASSUME NEW objs \in SUBSET Addr, NEW ty, NEW it \in [Addr -> Seq(Addr)],
           NEW ro \in [Addr -> Nat], NEW v \in objs, NEW x \in Addr, Room(it[v]),
           NEW it2, it2 = [it EXCEPT ![v] = Append(@, x)],
           NEW ro2 \in [Addr -> Nat], NEW w \in Addr, Less(ro[w], ro2[w], w, x)
    PROVE  Stored(objs, ty, it, ro, v, x, it2, ro2, w)
<1> DEFINE a == Cardinality(HoldersOf(objs, it, w))
           a2 == Cardinality(HoldersOf(objs, it2, w))
           b == Cardinality(InstancesOf(objs, ty, w))
<1>1. /\ a \in Nat /\ a2 \in Nat /\ b \in Nat /\ ro[w] \in Nat
      /\ HeldOf(objs, ty, it, ro)[w] = ro[w] + a + b
      /\ HeldOf(objs, ty, it2, ro2)[w] = ro2[w] + a2 + b
  BY HoldersFinite DEF HeldOf
<1>2. More(a, a2, w, x)
  BY HoldersMore DEF Room
<1>3. ro2[w] = ro[w] - (IF w = x THEN 1 ELSE 0)
  BY DEF Less
<1> HIDE DEF a, a2, b
<1> QED
  BY <1>1, <1>2, <1>3 DEF More, Stored

LEMMA HeldTaken ==
    ASSUME NEW objs \in SUBSET Addr, NEW ty, NEW it \in [Addr -> Seq(Addr)],
           NEW ro \in [Addr -> Nat], NEW v \in objs, it[v] # << >>, Fits(it[v]),
           NEW it2, it2 = [it EXCEPT ![v] = Tail(@)], NEW x, x = Head(it[v]), NEW w \in Addr
    PROVE  Less(HeldOf(objs, ty, it, ro)[w], HeldOf(objs, ty, it2, ro)[w], w, x)
<1> DEFINE a == Cardinality(HoldersOf(objs, it, w))
           a2 == Cardinality(HoldersOf(objs, it2, w))
           b == Cardinality(InstancesOf(objs, ty, w))
<1>1. /\ a \in Nat /\ a2 \in Nat /\ b \in Nat /\ ro[w] \in Nat
      /\ HeldOf(objs, ty, it, ro)[w] = ro[w] + a + b
      /\ HeldOf(objs, ty, it2, ro)[w] = ro[w] + a2 + b
  BY HoldersFinite DEF HeldOf
<1>2. Less(a, a2, w, x)
  BY HoldersLess DEF Fits
<1> HIDE DEF a, a2, b
<1> QED
  BY <1>1, <1>2 DEF Less

(* What is said of references stays true while the objects stay.           *)
LEMMA SameObjects ==
    ASSUME Inv, UNCHANGED <<use, type, freelist>>,
           items' \in [Addr -> Seq(Addr)], roots' \in [Addr -> Nat],
           \A w \in Addr : roots'[w] > 0 => w \in Objects,
           \A w \in Objects : Len(items'[w]) <= MaxItems /\ ToSet(items'[w]) \subseteq Objects
    PROVE  Typed' /\ References' /\ FreeLists' /\ Objects' = Objects
<1>1. Typed /\ References /\ FreeLists
  BY InvParts
<1>2. Objects' = Objects
  BY DEF Objects, IsObject
<1>3. Typed'
  BY <1>1 DEF Typed
<1>4. \A w \in Addr : (IsObject(w)' <=> IsObject(w)) /\ (IsClass(w)' <=> IsClass(w))
  BY DEF IsObject, IsClass
<1>5. References'
  <2> SUFFICES ASSUME NEW w \in Addr
               PROVE  /\ roots'[w] > 0 => IsObject(w)'
                      /\ IsObject(w)' => /\ Len(items'[w]) <= MaxItems
                                         /\ \A x \in ToSet(items'[w]) : IsObject(x)'
                                         /\ (type[w])' \in Addr => IsClass(type[w])'
    BY DEF References, IsClass, IsObject
  <2>1. \A x \in Objects : IsObject(x)'
    BY <1>2 DEF Objects
  <2>2. IsObject(w)' => w \in Objects
    BY <1>4 DEF Objects
  <2>3. IsObject(w)' => ((type[w])' \in Addr => IsClass(type[w])')
    BY <1>1, <1>4 DEF References, IsClass, IsObject
  <2> QED
    BY <2>1, <2>2, <2>3
<1>6. FreeLists'
  BY <1>1 DEF FreeLists, IsClass, IsObject
<1> QED
  BY <1>2, <1>3, <1>5, <1>6

\* The items of objects, as far as they are known.
LEMMA ItemsKnown ==
    ASSUME Inv, NEW v \in Objects
    PROVE  /\ v \in Addr /\ items[v] \in Seq(Addr) /\ Len(items[v]) \in Nat
           /\ Len(items[v]) <= MaxItems /\ ToSet(items[v]) \subseteq Objects
<1>1. v \in Addr /\ items[v] \in Seq(Addr)
  BY InvParts DEF Objects, Typed
<1>2. Len(items[v]) \in Nat /\ ToSet(items[v]) \subseteq Addr
  BY <1>1, ListedIn
<1>3. Len(items[v]) <= MaxItems /\ \A x \in ToSet(items[v]) : IsObject(x)
  BY InvParts DEF Objects, References
<1> QED
  BY <1>1, <1>2, <1>3 DEF Objects

LEMMA RootsKnown ==
    ASSUME Inv
    PROVE  /\ Typed /\ References /\ roots \in [Addr -> Nat] /\ items \in [Addr -> Seq(Addr)]
           /\ \A w \in Addr : roots[w] > 0 => w \in Objects
           /\ Objects \in SUBSET Addr /\ Held \in [Addr -> Nat]
           /\ \A v \in Addr : Held[v] = 0 <=> ~Led(Objects, type, items, roots, v)
<1>1. Typed /\ References
  BY InvParts
<1> QED
  BY <1>1, HeldMeans DEF Typed, References, Objects

LEMMA NewRefStep ==
    ASSUME Inv, NewRef
    PROVE  /\ Inv' /\ Alive = Objects /\ Alive' = Objects
           /\ UNCHANGED <<type, items>>
           /\ \E v \in Objects : /\ Led(Objects, type, items, roots, v)
                                 /\ roots' = [roots EXCEPT ![v] = @ + 1]
<1>1. PICK v \in Addr : /\ Rooted(v) \/ \E w \in Addr : Rooted(w) /\ v \in ToSet(items[w])
                        /\ refcnt' = [refcnt EXCEPT ![v] = @ + 1]
                        /\ roots' = [roots EXCEPT ![v] = @ + 1]
  BY DEF NewRef
<1>2. Program /\ UNCHANGED <<use, type, items, freelist, pending, locked, work>>
  BY DEF NewRef
<1>3. /\ refcnt \in [Addr -> Nat] /\ pending = << >> /\ work = << >> /\ locked = 0
      /\ (\A w \in Objects : refcnt[w] = Held[w]) /\ Alive = Objects
  BY <1>2, ProgramCounts
<1>4. v \in Objects /\ Led(Objects, type, items, roots, v)
  <2>1. \A w \in Addr : Rooted(w) => w \in Objects /\ roots[w] > 0
    BY DEF Rooted, Objects
  <2>2. \A w \in Objects : ToSet(items[w]) \subseteq Objects
    BY ItemsKnown
  <2> QED
    BY <1>1, <2>1, <2>2 DEF Led
<1>5. /\ refcnt' \in [Addr -> Nat] /\ roots' \in [Addr -> Nat]
      /\ \A w \in Addr : /\ w = v => roots'[w] = roots[w] + 1 /\ refcnt'[w] = refcnt[w] + 1
                         /\ w # v => roots'[w] = roots[w] /\ refcnt'[w] = refcnt[w]
  BY <1>1, <1>3, RootsKnown
<1>6. /\ Typed' /\ References' /\ FreeLists' /\ Objects' = Objects
  <2>1. \A w \in Addr : roots'[w] > 0 => w \in Objects
    BY <1>4, <1>5, RootsKnown
  <2>2. \A w \in Objects : Len(items'[w]) <= MaxItems /\ ToSet(items'[w]) \subseteq Objects
    BY <1>2, ItemsKnown
  <2>3. items' \in [Addr -> Seq(Addr)]
    BY <1>2, RootsKnown
  <2> QED
    BY <1>2, <1>5, <2>1, <2>2, <2>3, SameObjects
<1>7. ASSUME NEW w \in Addr PROVE Held'[w] = Held[w] + roots'[w] - roots[w]
  <2>1. Objects \in SUBSET Addr /\ roots \in [Addr -> Nat] /\ roots' \in [Addr -> Nat]
    BY <1>5, RootsKnown
  <2>2. Moved(HeldOf(Objects, type, items, roots)[w], HeldOf(Objects, type, items, roots')[w],
              roots[w], roots'[w])
    BY <2>1, HeldRooted
  <2> QED
    BY <1>2, <1>6, <2>2 DEF Held, Moved
<1>8. \A w \in Objects' : refcnt'[w] = Held'[w]
  <2> SUFFICES ASSUME NEW w \in Objects PROVE refcnt'[w] = Held'[w]
    BY <1>6
  <2>1. w \in Addr /\ refcnt[w] = Held[w] /\ Held[w] \in Nat /\ roots[w] \in Nat
    BY <1>3, RootsKnown
  <2> QED
    BY <1>5, <1>7, <2>1
<1>9. Inv' /\ Alive' = Objects'
  BY <1>2, <1>3, <1>5, <1>6, <1>8, ProgramGoesOn
<1> QED
  BY <1>1, <1>2, <1>3, <1>4, <1>6, <1>9

(* A reference that moves into an object is no other.                      *)
LEMMA StoreStep ==
    ASSUME Inv, Store
    PROVE  /\ Inv' /\ Alive = Objects /\ Alive' = Objects /\ UNCHANGED type
           /\ \E v, w \in Objects : /\ roots[v] > 0 /\ roots[w] > 0
                                    /\ items' = [items EXCEPT ![v] = Append(@, w)]
                                    /\ roots' = [roots EXCEPT ![w] = @ - 1]
<1>1. PICK v \in Addr, x \in Addr : /\ Rooted(v) /\ Rooted(x) /\ Len(items[v]) < MaxItems
                                    /\ items' = [items EXCEPT ![v] = Append(@, x)]
                                    /\ roots' = [roots EXCEPT ![x] = @ - 1]
  BY DEF Store
<1>2. Program /\ UNCHANGED <<use, type, refcnt, freelist, pending, locked, work>>
  BY DEF Store
<1>3. /\ refcnt \in [Addr -> Nat] /\ pending = << >> /\ work = << >> /\ locked = 0
      /\ (\A w \in Objects : refcnt[w] = Held[w]) /\ Alive = Objects
  BY <1>2, ProgramCounts
<1>4. v \in Objects /\ x \in Objects /\ roots[v] > 0 /\ roots[x] > 0
  BY <1>1 DEF Rooted, Objects
<1>5. /\ roots' \in [Addr -> Nat] /\ \A w \in Addr : roots'[w] > 0 => roots[w] > 0
  BY <1>1, <1>4, RootsKnown
<1>6. /\ items[v] \in Seq(Addr) /\ Append(items[v], x) \in Seq(Addr)
      /\ Len(Append(items[v], x)) <= MaxItems /\ ToSet(Append(items[v], x)) \subseteq Objects
  <2>1. /\ items[v] \in Seq(Addr) /\ Len(items[v]) \in Nat /\ ToSet(items[v]) \subseteq Objects
    BY <1>4, ItemsKnown
  <2>2. /\ Append(items[v], x) \in Seq(Addr) /\ Len(Append(items[v], x)) = Len(items[v]) + 1
        /\ ToSet(Append(items[v], x)) = ToSet(items[v]) \cup {x}
    BY <2>1, ListedLast
  <2>3. Len(items[v]) + 1 <= MaxItems
    BY <1>1, <2>1, PoolAssumption
  <2> QED
    BY <1>4, <2>1, <2>2, <2>3
<1>7. items' \in [Addr -> Seq(Addr)]
  BY <1>1, <1>6, RootsKnown
<1>8. /\ Typed' /\ References' /\ FreeLists' /\ Objects' = Objects
  <2>1. \A w \in Addr : roots'[w] > 0 => w \in Objects
    BY <1>5, RootsKnown
  <2>2. \A w \in Objects : Len(items'[w]) <= MaxItems /\ ToSet(items'[w]) \subseteq Objects
    <3> TAKE w \in Objects
    <3>1. w \in Addr /\ Len(items[w]) <= MaxItems /\ ToSet(items[w]) \subseteq Objects
      BY ItemsKnown
    <3>2. items'[v] = Append(items[v], x) /\ (w # v => items'[w] = items[w])
      BY <1>1, <3>1, RootsKnown
    <3> QED
      BY <1>6, <3>1, <3>2
  <2> QED
    BY <1>2, <1>5, <1>7, <2>1, <2>2, SameObjects
<1>9. ASSUME NEW w \in Addr PROVE Held'[w] = Held[w]
  <2>1. HeldOf(Objects, type, items', roots')[w] = HeldOf(Objects, type, items, roots)[w]
    <3>1. /\ Objects \in SUBSET Addr /\ items \in [Addr -> Seq(Addr)] /\ roots \in [Addr -> Nat]
          /\ v \in Objects /\ x \in Addr /\ Room(items[v])
          /\ items' = [items EXCEPT ![v] = Append(@, x)] /\ roots' \in [Addr -> Nat]
      BY <1>1, <1>4, <1>5, RootsKnown DEF Room
    <3>2. Less(roots[w], roots'[w], w, x)
      BY <1>1, <1>4, RootsKnown DEF Less
    <3>3. Stored(Objects, type, items, roots, v, x, items', roots', w)
      BY ONLY <3>1, <3>2, w \in Addr, HeldStored
    <3> QED
      BY <3>3 DEF Stored
  <2> QED
    BY <1>2, <1>8, <2>1 DEF Held
<1>10. \A w \in Objects' : refcnt'[w] = Held'[w]
  BY <1>2, <1>3, <1>8, <1>9, RootsKnown
<1>11. Inv' /\ Alive' = Objects'
  BY <1>2, <1>3, <1>8, <1>10, ProgramGoesOn
<1> QED
  BY <1>1, <1>2, <1>3, <1>4, <1>8, <1>11

(* A consumed reference, after what was done to items and roots.           *)
LEMMA Consumed ==
    ASSUME Inv, Typed', References', FreeLists', Objects' = Objects, locked' = locked,
           NEW x \in Objects, Held[x] # 0,
           \A w \in Addr : Less(Held[w], Held'[w], w, x),
           VAR_DECR_REF(x, refcnt, work)
    PROVE  /\ Inv'
           /\ \A w \in Addr : w \in Alive' <=> w \in Alive /\ ~(w = x /\ Held'[x] = 0)
<1>1. Objects \in SUBSET Addr /\ Held \in [Addr -> Nat] /\ Held' \in [Addr -> Nat]
  BY RootsKnown, HeldMeansNext
<1>2. Counted(Objects, Held, refcnt, pending, locked, work)
  BY InvParts
<1>3. Decr(x, refcnt, pending, locked, work, refcnt', pending', work')
  BY DecrRef
<1>4. ReferenceLess(Objects, pending, locked, work, x, Held', refcnt', pending', work')
  BY <1>1, <1>2, <1>3, ReferenceGone
<1>5. Inv'
  BY <1>4, InvParts DEF ReferenceLess
<1>6. \A w \in Addr : Doomed(pending', work', w)
                         <=> Doomed(pending, work, w) \/ (w = x /\ Held'[x] = 0)
  BY <1>4 DEF ReferenceLess
<1> QED
  BY <1>5, <1>6, AliveIs

LEMMA ItemTaken ==
    ASSUME Inv, NEW v \in Objects, items[v] # << >>, items' = [items EXCEPT ![v] = Tail(@)],
           NEW x, x = Head(items[v]), VAR_DECR_REF(x, refcnt, work),
           UNCHANGED <<use, type, roots, freelist, locked>>
    PROVE  /\ Inv' /\ x \in Objects /\ Objects' = Objects
           /\ \A w \in Addr : w \in Alive' <=> w \in Alive /\ ~(w = x /\ Held'[x] = 0)
<1>1. /\ v \in Addr /\ items[v] \in Seq(Addr) /\ Len(items[v]) \in Nat /\ Len(items[v]) <= MaxItems
      /\ ToSet(items[v]) \subseteq Objects
  BY ItemsKnown
<1>2. /\ x \in ToSet(items[v]) /\ Tail(items[v]) \in Seq(Addr)
      /\ Len(Tail(items[v])) = Len(items[v]) - 1
  BY <1>1, ListedFirst
<1>3. ToSet(Tail(items[v])) \subseteq ToSet(items[v])
  <2>1. \A i \in 1..Len(Tail(items[v])) : Tail(items[v])[i] = items[v][i + 1] /\ i + 1 \in 1..Len(items[v])
    BY <1>1, <1>2, HeadTailProperties
  <2>2. \A i \in 1..Len(Tail(items[v])) : Tail(items[v])[i] \in ToSet(items[v])
    BY <1>1, <2>1, ListedIn
  <2>3. \A y \in ToSet(Tail(items[v])) : \E i \in 1..Len(Tail(items[v])) : Tail(items[v])[i] = y
    BY <1>2, ListedIn
  <2> QED
    BY <2>2, <2>3
<1>4. items' \in [Addr -> Seq(Addr)] /\ roots' \in [Addr -> Nat]
  BY <1>2, RootsKnown
<1>5. \A w \in Objects : Len(items'[w]) <= MaxItems /\ ToSet(items'[w]) \subseteq Objects
  <2> TAKE w \in Objects
  <2>1. w \in Addr /\ Len(items[w]) <= MaxItems /\ ToSet(items[w]) \subseteq Objects
    BY ItemsKnown
  <2>2. items'[v] = Tail(items[v]) /\ (w # v => items'[w] = items[w])
    BY <1>1, <2>1, RootsKnown
  <2>3. Len(Tail(items[v])) <= MaxItems /\ ToSet(Tail(items[v])) \subseteq Objects
    BY <1>1, <1>2, <1>3, PoolAssumption
  <2> QED
    BY <2>1, <2>2, <2>3
<1>6. Typed' /\ References' /\ FreeLists' /\ Objects' = Objects
  <2>1. \A w \in Addr : roots'[w] > 0 => w \in Objects
    BY RootsKnown
  <2> QED
    BY <1>4, <1>5, <2>1, SameObjects
<1>7. x \in Objects /\ x \in Addr /\ Held[x] # 0
  <2>1. x \in Objects
    BY <1>1, <1>2
  <2>2. Led(Objects, type, items, roots, x)
    BY <1>2 DEF Led
  <2> QED
    BY <2>1, <2>2, RootsKnown
<1>8. \A w \in Addr : Less(Held[w], Held'[w], w, x)
  <2> TAKE w \in Addr
  <2>1. /\ Objects \in SUBSET Addr /\ items \in [Addr -> Seq(Addr)] /\ roots \in [Addr -> Nat]
        /\ v \in Objects /\ items[v] # << >> /\ items' = [items EXCEPT ![v] = Tail(@)]
        /\ Fits(items[v]) /\ x = Head(items[v])
    BY <1>1, RootsKnown DEF Fits
  <2>2. Less(HeldOf(Objects, type, items, roots)[w], HeldOf(Objects, type, items', roots)[w], w, x)
    BY ONLY <2>1, w \in Addr, HeldTaken
  <2> QED
    BY <1>6, <2>2 DEF Held
<1> QED
  BY <1>6, <1>7, <1>8, Consumed

LEMMA TakeOutStep ==
    ASSUME Inv, TakeOut
    PROVE  /\ Inv' /\ UNCHANGED <<type, roots>>
           /\ \E v, x \in Objects :
                 /\ v \in Alive /\ roots[v] > 0 /\ items[v] # << >>
                 /\ items' = [items EXCEPT ![v] = Tail(@)]
                 /\ \A w \in Addr : w \in Alive' <=> w \in Alive /\ ~(w = x /\ Held'[x] = 0)
<1>1. PICK v \in Addr : /\ Rooted(v) /\ items[v] # << >> /\ items' = [items EXCEPT ![v] = Tail(@)]
                        /\ VAR_DECR_REF(Head(items[v]), refcnt, work)
  BY DEF TakeOut
<1>2. v \in Objects /\ v \in Alive /\ roots[v] > 0
  <2>1. v \in Objects /\ roots[v] > 0 /\ Alive = Objects
    BY <1>1, ProgramCounts DEF Rooted, Objects, TakeOut
  <2> QED
    BY <2>1
<1>3. UNCHANGED <<use, type, roots, freelist, locked>>
  BY DEF TakeOut
<1>4. PICK x : x = Head(items[v])
  OBVIOUS
<1>5. /\ Inv' /\ x \in Objects
      /\ \A w \in Addr : w \in Alive' <=> w \in Alive /\ ~(w = x /\ Held'[x] = 0)
  BY <1>1, <1>2, <1>3, <1>4, ItemTaken
<1> QED
  BY <1>1, <1>2, <1>3, <1>5

LEMMA DropStep ==
    ASSUME Inv, Drop
    PROVE  /\ Inv' /\ UNCHANGED <<type, items>>
           /\ \E x \in Objects :
                 /\ x \in Alive /\ roots[x] > 0 /\ roots' = [roots EXCEPT ![x] = @ - 1]
                 /\ \A w \in Addr : w \in Alive' <=> w \in Alive /\ ~(w = x /\ Held'[x] = 0)
<1>1. PICK x \in Addr : /\ Rooted(x) /\ roots' = [roots EXCEPT ![x] = @ - 1]
                        /\ VAR_DECR_REF(x, refcnt, work)
  BY DEF Drop
<1>2. UNCHANGED <<use, type, items, freelist, locked>>
  BY DEF Drop
<1>3. x \in Objects /\ roots[x] > 0
  BY <1>1 DEF Rooted, Objects
<1>4. Led(Objects, type, items, roots, x) /\ Held[x] # 0
  <2>1. Led(Objects, type, items, roots, x)
    BY <1>3 DEF Led
  <2> QED
    BY <2>1, RootsKnown
<1>5. x \in Alive
  <2>1. ~Doomed(pending, work, x)
    <3>1. Doomed(pending, work, x) => roots[x] = 0
      BY DoomedAlone
    <3> QED
      BY <1>3, <3>1
  <2> QED
    BY <1>3, <2>1, AliveIs
<1>6. /\ roots' \in [Addr -> Nat] /\ \A w \in Addr : Less(roots[w], roots'[w], w, x)
      /\ \A w \in Addr : roots'[w] > 0 => roots[w] > 0
  <2>1. roots \in [Addr -> Nat]
    BY RootsKnown
  <2> QED
    BY <1>1, <1>3, <2>1 DEF Less
<1>7. Typed' /\ References' /\ FreeLists' /\ Objects' = Objects
  <2>1. \A w \in Addr : roots'[w] > 0 => w \in Objects
    BY <1>6, RootsKnown
  <2>2. \A w \in Objects : Len(items'[w]) <= MaxItems /\ ToSet(items'[w]) \subseteq Objects
    BY <1>2, ItemsKnown
  <2>3. items' \in [Addr -> Seq(Addr)]
    BY <1>2, RootsKnown
  <2> QED
    BY <1>2, <1>6, <2>1, <2>2, <2>3, SameObjects
<1>8. \A w \in Addr : Less(Held[w], Held'[w], w, x)
  <2> TAKE w \in Addr
  <2>1. Objects \in SUBSET Addr /\ roots \in [Addr -> Nat] /\ roots' \in [Addr -> Nat]
    BY <1>6, RootsKnown
  <2>2. Moved(HeldOf(Objects, type, items, roots)[w], HeldOf(Objects, type, items, roots')[w],
              roots[w], roots'[w])
    BY <2>1, HeldRooted
  <2>3. Held[w] \in Nat /\ roots[w] \in Nat /\ Moved(Held[w], Held'[w], roots[w], roots'[w])
    BY <1>2, <1>7, <2>2, RootsKnown DEF Held
  <2> QED
    BY <1>6, <2>3 DEF Less, Moved
<1>9. /\ Inv'
      /\ \A w \in Addr : w \in Alive' <=> w \in Alive /\ ~(w = x /\ Held'[x] = 0)
  BY <1>1, <1>2, <1>3, <1>4, <1>7, <1>8, Consumed
<1> QED
  BY <1>1, <1>2, <1>3, <1>5, <1>9

(* Steps that leave every reference as it is.                              *)
LEMMA QuietStep ==
    ASSUME Inv, UNCHANGED <<use, type, items, roots, freelist>>,
           Counted(Objects, Held, refcnt', pending', locked', work'),
           \A w \in Addr : Doomed(pending', work', w) <=> Doomed(pending, work, w)
    PROVE  Inv' /\ Alive' = Alive
<1>1. Objects' = Objects
  BY DEF Objects, IsObject
<1>2. Held' = Held
  BY <1>1 DEF Held
<1>3. Typed' /\ References' /\ FreeLists'
  <2>1. \A w \in Addr : (IsObject(w)' <=> IsObject(w)) /\ (IsClass(w)' <=> IsClass(w))
    BY DEF IsObject, IsClass
  <2>2. References' /\ FreeLists'
    BY InvParts DEF References, FreeLists, IsClass, IsObject
  <2> QED
    BY <2>2, InvParts DEF Typed
<1>4. Inv'
  BY <1>1, <1>2, <1>3, InvParts
<1>5. Alive' = Alive
  <2>1. Objects \in SUBSET Addr
    BY RootsKnown
  <2> QED
    BY <1>1, <2>1, AliveIs
<1> QED
  BY <1>4, <1>5

LEMMA LockStep ==
    ASSUME Inv, Lock \/ Unlock
    PROVE  Inv' /\ Alive' = Alive /\ UNCHANGED <<type, items, roots>>
<1>1. /\ UNCHANGED <<use, type, refcnt, items, roots, freelist, pending>> /\ work = << >>
      /\ \/ locked' = locked + 1 /\ work' = << >>
         \/ locked > 0 /\ locked' = locked - 1
            /\ work' = IF locked = 1 THEN <<[do |-> "unlock"]>> ELSE << >>
  BY DEF Lock, Unlock
<1>2. Counted(Objects, Held, refcnt, pending, locked, << >>) /\ locked \in Nat
  BY <1>1, InvParts DEF Counted
<1>3. /\ Counted(Objects, Held, refcnt, pending, locked + 1, << >>)
      /\ locked > 1 => Counted(Objects, Held, refcnt, pending, locked - 1, << >>)
      /\ locked = 1 =>
            /\ Counted(Objects, Held, refcnt, pending, locked - 1, <<[do |-> "unlock"]>>)
            /\ \A w \in Addr : Doomed(pending, <<[do |-> "unlock"]>>, w) <=> Doomed(pending, << >>, w)
  BY <1>2, CountedLocked
<1>4. /\ Counted(Objects, Held, refcnt, pending, locked', work')
      /\ \A w \in Addr : Doomed(pending, work', w) <=> Doomed(pending, work, w)
  <2>1. CASE locked' = locked + 1 /\ work' = << >>
    BY <1>1, <1>3, <2>1
  <2>2. CASE /\ locked > 0 /\ locked' = locked - 1
             /\ work' = IF locked = 1 THEN <<[do |-> "unlock"]>> ELSE << >>
    <3>1. CASE locked = 1
      <4>1. work' = <<[do |-> "unlock"]>> /\ locked' = locked - 1
        BY <2>2, <3>1
      <4> QED
        BY <1>1, <1>3, <3>1, <4>1
    <3>2. CASE locked # 1
      <4>1. work' = << >> /\ locked' = locked - 1 /\ locked > 1
        BY <1>2, <2>2, <3>2
      <4> QED
        BY <1>1, <1>3, <4>1
    <3> QED
      BY <3>1, <3>2
  <2> QED
    BY <1>1, <2>1, <2>2
<1> QED
  BY <1>1, <1>4, QuietStep

\* The innermost call on the C stack.
LEMMA InnermostIs ==
    ASSUME Inv, work # << >>
    PROVE  /\ work \in Seq(Task) /\ Task1 \in Task /\ Task1 = work[Len(work)]
           /\ Task1.do = "unlock" => Task1 = [do |-> "unlock"]
           /\ Task1.do = "delete" => /\ Task1 = Deletion(Task1.v) /\ Task1.v \in Objects
                                     /\ On(work, Task1.v) /\ Doomed(pending, work, Task1.v)
                                     /\ Held[Task1.v] = 0
<1>1. work \in Seq(Task) /\ Counted(Objects, Held, refcnt, pending, locked, work)
  BY InvParts DEF Counted
<1>2. work[Len(work)] \in Task /\ work[Len(work)] \in ToSet(work)
  BY <1>1, ListedRest, FrontAndLast
<1>3. Task1.do = "unlock" => Task1 = [do |-> "unlock"]
  <2>1. \A t \in Task : t.do = "unlock" => t = [do |-> "unlock"]
    <3> TAKE t \in Task
    <3>1. t.do = "delete" => t.do # "unlock"
      OBVIOUS
    <3> QED
      BY <3>1, TaskParts
  <2> QED
    BY <1>2, <2>1 DEF Task1
<1>4. ASSUME Task1.do = "delete"
      PROVE  Task1 = Deletion(Task1.v) /\ Task1.v \in Addr
  BY <1>2, <1>4, TaskParts DEF Task1
<1>5. ASSUME Task1.do = "delete"
      PROVE  /\ Task1.v \in Objects /\ On(work, Task1.v) /\ Doomed(pending, work, Task1.v)
             /\ Held[Task1.v] = 0
  <2>1. On(work, Task1.v)
    BY <1>1, <1>2, <1>4, <1>5, OnListed DEF Task1
  <2> QED
    BY <1>1, <1>4, <1>5, <2>1 DEF Counted, Doomed
<1> QED
  BY <1>1, <1>2, <1>3, <1>4, <1>5 DEF Task1

LEMMA UnlockNextStep ==
    ASSUME Inv, UnlockNext
    PROVE  Inv' /\ Alive' = Alive /\ UNCHANGED <<type, items, roots>>
<1>1. /\ work # << >> /\ Task1.do = "unlock"
      /\ UNCHANGED <<use, type, items, roots, freelist, locked>>
      /\ \/ pending = << >> /\ work' = Front(work) /\ UNCHANGED <<refcnt, pending>>
         \/ /\ pending # << >> /\ pending' = Tail(pending)
            /\ refcnt' = [refcnt EXCEPT ![Head(pending)] = 1]
            /\ work' = Append(work, Deletion(Head(pending)))
  BY DEF UnlockNext, Below, Deletion
<1>2. Counted(Objects, Held, refcnt, pending, locked, work) /\ Objects \in SUBSET Addr
  BY InvParts, RootsKnown
<1>3. work[Len(work)] = [do |-> "unlock"]
  BY <1>1, InnermostIs
<1>4. /\ Counted(Objects, Held, refcnt', pending', locked', work')
      /\ \A w \in Addr : Doomed(pending', work', w) <=> Doomed(pending, work, w)
  <2>1. CASE pending = << >> /\ work' = Front(work) /\ UNCHANGED <<refcnt, pending>>
    <3>1. /\ Counted(Objects, Held, refcnt, pending, locked, Front(work))
          /\ \A w \in Addr : Doomed(pending, Front(work), w) <=> Doomed(pending, work, w)
      BY <1>1, <1>2, <1>3, <2>1, UnlockOver
    <3> QED
      BY <1>1, <2>1, <3>1
  <2>2. CASE /\ pending # << >> /\ pending' = Tail(pending)
             /\ refcnt' = [refcnt EXCEPT ![Head(pending)] = 1]
             /\ work' = Append(work, Deletion(Head(pending)))
    <3>1. /\ Counted(Objects, Held, refcnt', Tail(pending), locked,
                     Append(work, Deletion(Head(pending))))
          /\ \A w \in Addr : Doomed(Tail(pending), Append(work, Deletion(Head(pending))), w)
                                <=> Doomed(pending, work, w)
      BY <1>1, <1>2, <2>2, PendingTaken
    <3> QED
      BY <1>1, <2>2, <3>1
  <2> QED
    BY <1>1, <2>1, <2>2
<1> QED
  BY <1>1, <1>4, QuietStep

(* What a class that goes leaves on its free list is no object.            *)
LEMMA ResetClassStep ==
    ASSUME Inv, ResetClass
    PROVE  Inv' /\ Alive' = Alive /\ UNCHANGED <<type, items, roots>>
<1> DEFINE v == Task1.v
<1>1. /\ work # << >> /\ Task1.do = "delete" /\ type[v] = TypeType
      /\ use' = [w \in Addr |-> IF w \in ToSet(freelist[v]) THEN "heap" ELSE use[w]]
      /\ freelist' = [freelist EXCEPT ![v] = << >>]
      /\ UNCHANGED <<type, refcnt, items, roots, pending, locked, work>>
  BY DEF ResetClass, var_type_clear_freelist
<1>2. v \in Addr /\ v \in Types
  BY <1>1, InnermostIs DEF Objects, Types
<1> HIDE DEF v
<1>3. Typed /\ References /\ FreeLists
  BY InvParts
<1>4. \A w \in Addr : (IsObject(w)' <=> IsObject(w)) /\ (IsClass(w)' <=> IsClass(w))
  <2>1. \A w \in ToSet(freelist[v]) : use[w] = "list"
    BY <1>2, <1>3 DEF FreeLists
  <2>2. \A w \in Addr : use'[w] = "object" <=> use[w] = "object"
    BY <1>1, <2>1
  <2> QED
    BY <1>1, <2>2 DEF IsObject, IsClass
<1>5. Objects' = Objects
  BY <1>4 DEF Objects
<1>6. Held' = Held
  BY <1>1, <1>5 DEF Held
<1>7. Typed'
  <2>1. << >> \in Seq(Addr)
    OBVIOUS
  <2>2. use' \in [Addr -> {"heap", "list", "object"}] /\ freelist' \in [Types -> Seq(Addr)]
    BY <1>1, <1>2, <1>3, <2>1 DEF Typed
  <2> QED
    BY <1>1, <1>3, <2>2 DEF Typed
<1>8. References'
  <2> SUFFICES ASSUME NEW w \in Addr
               PROVE  /\ roots[w] > 0 => IsObject(w)'
                      /\ IsObject(w)' => /\ Len(items[w]) <= MaxItems
                                         /\ \A x \in ToSet(items[w]) : IsObject(x)'
                                         /\ type[w] \in Addr => IsClass(type[w])'
    BY <1>1 DEF References, IsClass, IsObject
  <2>1. ToSet(items[w]) \subseteq Addr
    <3>1. items[w] \in Seq(Addr)
      BY <1>3 DEF Typed
    <3> QED
      BY <3>1, ListedIn
  <2>2. /\ roots[w] > 0 => IsObject(w)
        /\ IsObject(w) => /\ Len(items[w]) <= MaxItems
                          /\ \A x \in ToSet(items[w]) : IsObject(x)
                          /\ type[w] \in Addr => IsClass(type[w])
    BY <1>3 DEF References
  <2>3. type[w] \in Addr /\ IsClass(type[w]) => IsClass(type[w])'
    BY <1>1, <1>4
  <2> QED
    BY <1>4, <2>1, <2>2, <2>3
<1>9. FreeLists'
  <2> SUFFICES ASSUME NEW u \in Types
               PROVE  /\ IsInjective(freelist'[u]) /\ Len(freelist'[u]) <= MAX_FREELIST_SIZE
                      /\ \A w \in ToSet(freelist'[u]) : use'[w] = "list" /\ type[w] = u
                      /\ freelist'[u] # << >> => u \notin Addr \/ IsClass(u)'
    BY <1>1 DEF FreeLists, IsClass, IsObject
  <2>1. CASE u = v
    <3>1. freelist'[u] = << >> /\ Len(<< >>) = 0 /\ ToSet(<< >>) = {} /\ IsInjective(<< >>)
      BY <1>1, <1>2, <1>3, <2>1 DEF ToSet, IsInjective, Typed
    <3> QED
      BY <3>1, PoolAssumption
  <2>2. CASE u # v
    <3>1. freelist'[u] = freelist[u] /\ freelist[u] \in Seq(Addr)
      BY <1>1, <1>3, <2>2 DEF Typed
    <3>2. \A w \in ToSet(freelist[u]) : w \in Addr /\ use[w] = "list" /\ type[w] = u
      BY <1>3, <3>1, ListedIn DEF FreeLists
    <3>3. \A w \in ToSet(freelist[u]) : w \notin ToSet(freelist[v])
      BY <1>2, <1>3, <2>2, <3>2 DEF FreeLists
    <3>4. \A w \in ToSet(freelist[u]) : use'[w] = "list" /\ type[w] = u
      BY <1>1, <3>2, <3>3
    <3> QED
      BY <1>3, <1>4, <3>1, <3>4 DEF FreeLists
  <2> QED
    BY <2>1, <2>2
<1>10. Inv'
  BY <1>1, <1>5, <1>6, <1>7, <1>8, <1>9, InvParts
<1> QED
  BY <1>1, <1>5, <1>10, AliveIs

\* Objects that go: none but x, and x only if nothing refers to it any more.
Gone(x) == \A w \in Addr : w \in Alive' <=> w \in Alive /\ ~(w = x /\ Held'[x] = 0)

LEMMA ResetItemStep ==
    ASSUME Inv, ResetItem
    PROVE  /\ Inv' /\ UNCHANGED <<type, roots>> /\ \A w \in Alive : items'[w] = items[w]
           /\ \E x : Gone(x)
<1> DEFINE v == Task1.v
<1>1. /\ work # << >> /\ Task1.do = "delete" /\ items[v] # << >>
      /\ items' = [items EXCEPT ![v] = Tail(@)]
      /\ VAR_DECR_REF(Head(items[v]), refcnt, work)
      /\ UNCHANGED <<use, type, roots, freelist, locked>>
  BY DEF ResetItem
<1>2. v \in Objects /\ v \notin Alive
  <2>1. v \in Objects /\ Doomed(pending, work, v)
    BY <1>1, InnermostIs
  <2> QED
    BY <2>1, AliveIs
<1> HIDE DEF v
<1>3. PICK x : x = Head(items[v])
  OBVIOUS
<1>4. /\ Inv' /\ \A w \in Addr : w \in Alive' <=> w \in Alive /\ ~(w = x /\ Held'[x] = 0)
  BY <1>1, <1>2, <1>3, ItemTaken
<1>5. \A w \in Alive : items'[w] = items[w]
  BY <1>1, <1>2
<1> QED
  BY <1>1, <1>4, <1>5 DEF Gone

(* Storage given back is on one list only and leaves nothing behind.       *)
LEMMA FreedStorage ==
    ASSUME Inv, NEW v \in Objects, Doomed(pending, work, v),
           type[v] = TypeType => freelist[v] = << >>, items[v] = << >>, var_free(v),
           UNCHANGED <<type, items, roots>>
    PROVE  Typed' /\ References' /\ FreeLists' /\ Objects' = Objects \ {v}
<1> DEFINE t == type[v]
           full == Len(freelist[t]) >= MAX_FREELIST_SIZE
<1>1. /\ use' = [use EXCEPT ![v] = IF full THEN "heap" ELSE "list"]
      /\ freelist' = [freelist EXCEPT ![t] = IF full THEN @ ELSE <<v>> \o @]
  BY DEF var_free
<1>2. Typed /\ References /\ FreeLists
  BY InvParts
<1>3. /\ v \in Addr /\ IsObject(v) /\ t \in Types /\ t # v /\ roots[v] = 0
      /\ \A w \in Objects : type[w] # v /\ v \notin ToSet(items[w])
  BY <1>2, DoomedAlone DEF Objects, Typed
<1> HIDE DEF full
<1>4. Objects' = Objects \ {v}
  <2>1. use'[v] # "object" /\ \A w \in Addr : w # v => use'[w] = use[w]
    BY <1>1, <1>2, <1>3 DEF Typed
  <2> QED
    BY <2>1 DEF Objects, IsObject
<1>5. \A w \in Addr : /\ IsObject(w)' <=> IsObject(w) /\ w # v
                      /\ IsClass(w)' <=> IsClass(w) /\ w # v
  <2>1. \A w \in Addr : IsObject(w)' <=> IsObject(w) /\ w # v
    BY <1>4 DEF Objects
  <2> QED
    BY <2>1 DEF IsClass
<1>6. freelist[t] \in Seq(Addr) /\ Len(freelist[t]) \in Nat
  <2>1. freelist[t] \in Seq(Addr)
    BY <1>2, <1>3 DEF Typed
  <2> QED
    BY <2>1, LenProperties
<1> DEFINE l == <<v>> \o freelist[t]
<1>7. /\ l \in Seq(Addr) /\ Len(l) = Len(freelist[t]) + 1 /\ ToSet(l) = ToSet(freelist[t]) \cup {v}
      /\ IsInjective(l)
  <2>1. v \notin ToSet(freelist[t]) /\ IsInjective(freelist[t])
    BY <1>2, <1>3 DEF FreeLists, IsObject
  <2> QED
    BY <1>3, <1>6, <2>1, ListedNew
<1> HIDE DEF l
<1>8. /\ freelist'[t] = IF full THEN freelist[t] ELSE l
      /\ \A u \in Types : u # t => freelist'[u] = freelist[u]
  BY <1>1, <1>2, <1>3 DEF Typed, l
<1>9. Typed'
  <2>1. use' \in [Addr -> {"heap", "list", "object"}]
    BY <1>1, <1>2 DEF Typed
  <2>2. freelist' \in [Types -> Seq(Addr)]
    BY <1>1, <1>2, <1>7 DEF Typed, l
  <2> QED
    BY <1>2, <2>1, <2>2 DEF Typed
<1>10. References'
  <2> SUFFICES ASSUME NEW w \in Addr
               PROVE  /\ roots[w] > 0 => IsObject(w)'
                      /\ IsObject(w)' => /\ Len(items[w]) <= MaxItems
                                         /\ \A x \in ToSet(items[w]) : IsObject(x)'
                                         /\ type[w] \in Addr => IsClass(type[w])'
    BY DEF References, IsClass, IsObject
  <2>1. roots[w] > 0 => IsObject(w)'
    BY <1>2, <1>3, <1>5 DEF References
  <2>2. ASSUME IsObject(w)'
        PROVE  /\ Len(items[w]) <= MaxItems
               /\ \A x \in ToSet(items[w]) : IsObject(x)'
               /\ type[w] \in Addr => IsClass(type[w])'
    <3>1. w \in Objects
      BY <1>5, <2>2 DEF Objects
    <3>2. Len(items[w]) <= MaxItems /\ ToSet(items[w]) \subseteq Objects
      BY <3>1, ItemsKnown
    <3>3. \A x \in ToSet(items[w]) : x \in Addr /\ x # v /\ IsObject(x)
      BY <1>3, <3>1, <3>2 DEF Objects
    <3>4. type[w] # v /\ (type[w] \in Addr => IsClass(type[w]))
      BY <1>2, <1>3, <3>1 DEF References, Objects
    <3> QED
      BY <1>5, <3>2, <3>3, <3>4
  <2> QED
    BY <2>1, <2>2
<1>11. FreeLists'
  <2> SUFFICES ASSUME NEW u \in Types
               PROVE  /\ IsInjective(freelist'[u]) /\ Len(freelist'[u]) <= MAX_FREELIST_SIZE
                      /\ \A w \in ToSet(freelist'[u]) : use'[w] = "list" /\ type[w] = u
                      /\ freelist'[u] # << >> => u \notin Addr \/ IsClass(u)'
    BY DEF FreeLists, IsClass, IsObject
  <2>1. \A w \in ToSet(freelist[u]) : w \in Addr /\ w # v /\ use'[w] = "list" /\ type[w] = u
    <3>1. \A w \in ToSet(freelist[u]) : w \in Addr /\ w # v /\ use[w] = "list" /\ type[w] = u
      <4>1. freelist[u] \in Seq(Addr)
        BY <1>2 DEF Typed
      <4> QED
        BY <1>2, <1>3, <4>1, ListedIn DEF FreeLists, IsObject
    <3> QED
      BY <1>1, <1>2, <3>1 DEF Typed
  <2>2. freelist[u] # << >> => u \notin Addr \/ IsClass(u)'
    <3>1. freelist[u] # << >> => u \notin Addr \/ IsClass(u)
      BY <1>2 DEF FreeLists
    <3>2. freelist[u] # << >> => u # v
      BY <1>3, <3>1 DEF IsClass
    <3> QED
      BY <1>5, <3>1, <3>2
  <2>3. IsInjective(freelist[u]) /\ Len(freelist[u]) <= MAX_FREELIST_SIZE
    BY <1>2 DEF FreeLists
  <2>4. CASE u # t \/ full
    <3>1. freelist'[u] = freelist[u]
      BY <1>8, <2>4
    <3> QED
      BY <2>1, <2>2, <2>3, <3>1
  <2>5. CASE u = t /\ ~full
    <3>1. freelist'[u] = l /\ use'[v] = "list"
      BY <1>1, <1>2, <1>3, <1>8, <2>5 DEF Typed
    <3>2. Len(l) <= MAX_FREELIST_SIZE
      BY <1>6, <1>7, <2>5, PoolAssumption DEF full
    <3>3. t \notin Addr \/ IsClass(t)'
      <4>1. t \in Addr => IsClass(t)
        BY <1>2, <1>3 DEF References
      <4> QED
        BY <1>3, <1>5, <4>1
    <3> QED
      BY <1>7, <2>1, <2>5, <3>1, <3>2, <3>3
  <2> QED
    BY <2>4, <2>5
<1> QED
  BY <1>4, <1>9, <1>10, <1>11

LEMMA FreeStep ==
    ASSUME Inv, Free
    PROVE  Inv' /\ UNCHANGED <<type, items, roots>> /\ \E x : Gone(x)
<1> DEFINE v == Task1.v
           t == type[v]
           zero == [refcnt EXCEPT ![v] = 0]
<1>1. /\ work # << >> /\ Task1.do = "delete" /\ items[v] = << >> /\ var_free(v)
      /\ type[v] = TypeType => freelist[v] = << >>
      /\ UNCHANGED <<type, items, roots, locked>>
      /\ \/ t \in Addr /\ VAR_DECR_REF(t, zero, Front(work))
         \/ t \notin Addr /\ refcnt' = zero /\ work' = Front(work) /\ pending' = pending
  BY DEF Free, Below
<1>2. /\ v \in Objects /\ v \in Addr /\ Doomed(pending, work, v) /\ Held[v] = 0
      /\ work[Len(work)] = Deletion(v)
  <2>1. /\ Task1 = Deletion(v) /\ v \in Objects /\ Doomed(pending, work, v) /\ Held[v] = 0
        /\ Task1 = work[Len(work)]
    BY <1>1, InnermostIs
  <2> QED
    BY <2>1 DEF Objects
<1> HIDE DEF v
<1>3. Typed' /\ References' /\ FreeLists' /\ Objects' = Objects \ {v}
  BY <1>1, <1>2, FreedStorage
<1>4. /\ Counted(Objects, Held, refcnt, pending, locked, work) /\ Objects \in SUBSET Addr
      /\ zero \in [Addr -> Nat] /\ \A w \in Addr : w # v => zero[w] = refcnt[w]
  <2>1. refcnt \in [Addr -> Nat] /\ Counted(Objects, Held, refcnt, pending, locked, work)
    BY InvParts DEF Counted
  <2> QED
    BY <1>2, <2>1, RootsKnown
<1> HIDE DEF zero
<1>5. /\ Counted(Objects \ {v}, Held, zero, pending, locked, Front(work))
      /\ \A w \in Addr : Doomed(pending, Front(work), w) <=> Doomed(pending, work, w) /\ w # v
  <2>1. /\ Counted(Objects, Held, refcnt, pending, locked, work) /\ work # << >>
        /\ work[Len(work)] = Deletion(v) /\ Kept(refcnt, zero, v)
        /\ v \in Addr /\ Objects \in SUBSET Addr /\ zero \in [Addr -> Nat]
    BY <1>1, <1>2, <1>4 DEF Kept
  <2>2. DeletionDone(Objects, Held, pending, locked, work, v, zero)
    BY ONLY <2>1, DeletionOver
  <2> QED
    BY <2>2 DEF DeletionDone
<1>6. \A w \in Addr : Less(Held[w], Held'[w], w, t)
  <2> TAKE w \in Addr
  <2>1. /\ Objects \in SUBSET Addr /\ type \in [Addr -> Types] /\ items \in [Addr -> Seq(Addr)]
        /\ roots \in [Addr -> Nat] /\ v \in Objects /\ items[v] = << >>
        /\ Objects' = Objects \ {v}
    BY <1>1, <1>2, <1>3, RootsKnown DEF Typed
  <2>2. Less(HeldOf(Objects, type, items, roots)[w], HeldOf(Objects', type, items, roots)[w],
             w, type[v])
    BY ONLY <2>1, w \in Addr, HeldLess
  <2> QED
    BY <1>1, <2>2 DEF Held
<1>7. Held \in [Addr -> Nat] /\ Held' \in [Addr -> Nat]
  BY <1>3, RootsKnown, HeldMeansNext
<1>8. /\ Counted(Objects', Held', refcnt', pending', locked', work')
      /\ \A w \in Addr : Doomed(pending', work', w)
                            <=> (Doomed(pending, work, w) /\ w # v) \/ (w = t /\ Held'[t] = 0)
  <2>1. CASE t \in Addr /\ VAR_DECR_REF(t, zero, Front(work))
    <3>1. Decr(t, zero, pending, locked, Front(work), refcnt', pending', work')
      BY <2>1, DecrRef
    <3>2. t \in Objects \ {v} /\ Held[t] # 0
      <4>1. Led(Objects, type, items, roots, t)
        BY <1>2 DEF Led
      <4>2. Held[t] # 0
        BY <2>1, <4>1, RootsKnown
      <4>3. IsClass(t)
        BY <1>2, <2>1, RootsKnown DEF References, Objects
      <4> QED
        BY <1>2, <2>1, <4>2, <4>3 DEF IsClass, Objects
    <3>3. Objects \ {v} \in SUBSET Addr
      BY <1>4
    <3>4. ReferenceLess(Objects \ {v}, pending, locked, Front(work), t, Held', refcnt', pending',
                        work')
      BY <1>5, <1>6, <1>7, <3>1, <3>2, <3>3, ReferenceGone
    <3> QED
      BY <1>1, <1>3, <1>5, <3>4 DEF ReferenceLess
  <2>2. CASE t \notin Addr /\ refcnt' = zero /\ work' = Front(work) /\ pending' = pending
    <3>1. Held' = Held
      <4>1. \A w \in Addr : Held'[w] = Held[w]
        BY <1>6, <1>7, <2>2 DEF Less
      <4> QED
        BY <1>7, <4>1
    <3> QED
      BY <1>1, <1>3, <1>5, <2>2, <3>1
  <2> QED
    BY <1>1, <2>1, <2>2
<1>9. Inv'
  BY <1>3, <1>8, InvParts
<1>10. Gone(t)
  BY <1>2, <1>3, <1>8, AliveIs DEF Gone
<1> QED
  BY <1>1, <1>9, <1>10
------------------------------------------------------------------------------
(* The invariant and what follows from it. *)

LEMMA InitHolds == Init => Inv
<1> SUFFICES ASSUME Init PROVE Inv
  OBVIOUS
<1>1. Objects = {} /\ pending = << >> /\ work = << >> /\ locked = 0 /\ refcnt \in [Addr -> Nat]
  BY DEF Init, Objects, IsObject
<1>2. Typed
  BY DEF Init, Typed, Types
<1>3. References
  BY <1>1 DEF Init, References, Objects
<1>4. FreeLists
  <2>1. \A t \in Types : freelist[t] = << >>
    BY DEF Init
  <2>2. Len(<< >>) = 0 /\ ToSet(<< >>) = {} /\ IsInjective(<< >>)
    BY DEF ToSet, IsInjective
  <2> QED
    BY <2>1, <2>2, PoolAssumption DEF FreeLists
<1>5. Counted(Objects, Held, refcnt, pending, locked, work)
  <2>1. Objects \in SUBSET Addr /\ Held \in [Addr -> Nat]
    BY <1>2, <1>3, HeldMeans
  <2>2. Counted(Objects, Held, refcnt, << >>, 0, << >>)
    BY <1>1, <2>1, CountedIdle
  <2> QED
    BY <1>1, <2>2
<1> QED
  BY <1>2, <1>3, <1>4, <1>5, InvParts

LEMMA StutterStep == ASSUME Inv, UNCHANGED vars
                     PROVE  Inv' /\ Alive' = Alive /\ UNCHANGED <<type, items, roots>>
<1>1. UNCHANGED <<use, type, items, roots, freelist, refcnt, pending, locked, work>>
  BY DEF vars
<1>2. /\ Counted(Objects, Held, refcnt', pending', locked', work')
      /\ \A w \in Addr : Doomed(pending', work', w) <=> Doomed(pending, work, w)
  BY <1>1, InvParts
<1> QED
  BY <1>1, <1>2, QuietStep

LEMMA StepHolds == Inv /\ [Next]_vars => Inv'
<1> SUFFICES ASSUME Inv, [Next]_vars PROVE Inv'
  OBVIOUS
<1>1. CASE New
  BY <1>1, NewStep
<1>2. CASE NewRef
  BY <1>2, NewRefStep
<1>3. CASE Store
  BY <1>3, StoreStep
<1>4. CASE TakeOut
  BY <1>4, TakeOutStep
<1>5. CASE Drop
  BY <1>5, DropStep
<1>6. CASE Lock \/ Unlock
  BY <1>6, LockStep
<1>7. CASE UnlockNext
  BY <1>7, UnlockNextStep
<1>8. CASE ResetClass
  BY <1>8, ResetClassStep
<1>9. CASE ResetItem
  BY <1>9, ResetItemStep
<1>10. CASE Free
  BY <1>10, FreeStep
<1>11. CASE UNCHANGED vars
  BY <1>11, StutterStep
<1> QED
  BY <1>1, <1>2, <1>3, <1>4, <1>5, <1>6, <1>7, <1>8, <1>9, <1>10, <1>11 DEF Next, Delete

LEMMA Invariance == Spec => []Inv
BY InitHolds, StepHolds, PTL DEF Spec

LEMMA CountsAreExact == Inv => RefcountsExact
<1> SUFFICES ASSUME Inv, NEW v \in Addr, IsObject(v)
             PROVE  refcnt[v] = roots[v] + Cardinality(Holders(v)) + Cardinality(Instances(v))
                                + (IF Deleting(v) THEN 1 ELSE 0)
  BY DEF RefcountsExact
<1>1. v \in Objects /\ (Deleting(v) <=> On(work, v))
  BY DEF Objects, Deleting, On
<1>2. refcnt[v] = Held[v] + (IF On(work, v) THEN 1 ELSE 0)
  BY <1>1, InvParts DEF Counted
<1>3. Holders(v) = HoldersOf(Objects, items, v) /\ Instances(v) = InstancesOf(Objects, type, v)
  BY DEF Holders, HoldersOf, Instances, InstancesOf, Objects
<1>4. Held[v] = roots[v] + Cardinality(Holders(v)) + Cardinality(Instances(v))
  BY <1>3 DEF Held, HeldOf
<1> QED
  BY <1>1, <1>2, <1>4

LEMMA NoneDangles == Inv => NothingDangles
<1> SUFFICES ASSUME Inv, NEW v \in Addr
             PROVE  /\ roots[v] > 0 => IsObject(v) /\ v \notin ToSet(pending) /\ ~Deleting(v)
                    /\ IsObject(v) =>
                          /\ \A w \in ToSet(items[v]) : IsObject(w) /\ ~Deleting(w)
                          /\ type[v] \in Addr => IsClass(type[v]) /\ ~Deleting(type[v])
  BY DEF NothingDangles
<1>1. \A w \in Addr : /\ Doomed(pending, work, w) <=> Deleting(w) \/ w \in ToSet(pending)
                      /\ Doomed(pending, work, w) =>
                            /\ roots[w] = 0
                            /\ \A u \in Objects : type[u] # w /\ w \notin ToSet(items[u])
  BY DoomedAlone DEF Doomed, Deleting, On
<1>2. roots[v] > 0 => IsObject(v) /\ roots[v] # 0
  BY RootsKnown DEF References
<1>3. ASSUME IsObject(v)
      PROVE  /\ \A w \in ToSet(items[v]) : w \in Addr /\ IsObject(w)
             /\ type[v] \in Addr => IsClass(type[v])
             /\ v \in Objects
  <2>1. v \in Objects
    BY <1>3 DEF Objects
  <2> QED
    BY <1>3, <2>1, ItemsKnown, RootsKnown DEF Objects, References
<1> QED
  BY <1>1, <1>2, <1>3

LEMMA ListsAreDisjoint == Inv => ListsDisjoint
<1> SUFFICES ASSUME Inv PROVE ListsDisjoint
  OBVIOUS
<1>1. IsInjective(pending) /\ IsInjective(work) /\ pending \in Seq(Addr) /\ locked \in Nat
  BY InvParts DEF Counted
<1>2. \A v \in ToSet(pending) : IsObject(v) /\ refcnt[v] = 0 /\ ~Deleting(v)
  <2> TAKE v \in ToSet(pending)
  <2>1. v \in Addr
    BY <1>1, ListedIn
  <2>2. v \in Objects /\ Held[v] = 0 /\ ~On(work, v)
    BY <2>1, InvParts DEF Counted
  <2>3. refcnt[v] = Held[v] + (IF On(work, v) THEN 1 ELSE 0)
    BY <2>2, InvParts DEF Counted
  <2>4. refcnt[v] = 0
    BY <2>2, <2>3
  <2> QED
    BY <2>2, <2>4 DEF Objects, Deleting, On
<1>3. \A i, j \in DOMAIN work : work[i] = work[j] => i = j
  BY <1>1 DEF IsInjective
<1>4. pending # << >> => locked > 0 \/ work # << >>
  BY InvParts DEF Counted
<1>5. FreeLists
  BY InvParts
<1> QED
  BY <1>1, <1>2, <1>3, <1>4, <1>5 DEF ListsDisjoint, FreeLists

(* Counts are exact, whatever can be reached is there and free storage is  *)
(* in one place, in every order of deletions, locks and resets.            *)
THEOREM StorageAlwaysSound == Spec => []StorageSound
<1>1. Inv => StorageSound
  BY CountsAreExact, NoneDangles, ListsAreDisjoint DEF StorageSound, Inv
<1> QED
  BY <1>1, Invariance, PTL
------------------------------------------------------------------------------
(* The abstract heap. *)

\* What VarPool shows ObjectHeap.
ClassOf(v) == IF type[v] \in Addr THEN type[v] ELSE Static
Classes == [v \in Alive |-> ClassOf(v)]
AliveItems == [v \in Alive |-> items[v]]

LEMMA HeapNew == ASSUME Inv, New PROVE Heap!Next
<1>1. PICK v \in Addr \ Objects, t \in Types :
         /\ t \in Addr => t \in Objects
         /\ Objects' = Objects \cup {v}
         /\ type' = [type EXCEPT ![v] = t] /\ items' = [items EXCEPT ![v] = << >>]
         /\ roots' = [roots EXCEPT ![v] = 1]
  BY NewStep
<1>2. Alive = Objects /\ Alive' = Objects' /\ Alive \in SUBSET Addr
  BY NewStep, RootsKnown
<1>3. type \in [Addr -> Types] /\ items \in [Addr -> Seq(Addr)]
  BY RootsKnown DEF Typed
<1> DEFINE c == IF t \in Addr THEN t ELSE Static
<1>4. /\ c \in Addr \cup {Static} /\ (c \in Addr => c \in Alive)
      /\ ClassOf(v)' = c /\ items'[v] = << >>
      /\ \A w \in Alive : ClassOf(w)' = ClassOf(w) /\ items'[w] = items[w]
  BY <1>1, <1>2, <1>3, PoolAssumption DEF ClassOf
<1> HIDE DEF c
<1>5. /\ Classes' = [w \in Alive' |-> IF w = v THEN c ELSE Classes[w]]
      /\ AliveItems' = [w \in Alive' |-> IF w = v THEN << >> ELSE AliveItems[w]]
  BY <1>1, <1>2, <1>4 DEF Classes, AliveItems
<1>6. Heap!Create(v, c)
  BY <1>1, <1>2, <1>4, <1>5 DEF Heap!Create, Classes, AliveItems, ClassOf
<1> QED
  BY <1>4, <1>6 DEF Heap!Next

\* An object that is not Led to is not needed in the heap either.
LEMMA HeapNeeded ==
    /\ \A x \in Addr : Inv /\ Alive = Objects /\ Led(Objects, type, items, roots, x)
                          => Heap!Needed(x)
    /\ \A x \in Addr : Inv' /\ Held'[x] = 0 => ~Heap!Needed(x)'
<1>1. ASSUME NEW x \in Addr, Inv, Alive = Objects, Led(Objects, type, items, roots, x)
      PROVE  Heap!Needed(x)
  <2>1. CASE roots[x] > 0
    BY <2>1 DEF Heap!Needed
  <2>2. CASE \E w \in Objects : type[w] = x \/ x \in ToSet(items[w])
    <3>1. PICK w \in Objects : type[w] = x \/ x \in ToSet(items[w])
      BY <2>2
    <3>2. CASE type[w] = x
      <4>1. Classes[w] = x
        BY <1>1, <3>1, <3>2 DEF Classes, ClassOf
      <4> QED
        BY <1>1, <3>1, <4>1 DEF Heap!Needed, Classes, ClassOf
    <3>3. CASE x \in ToSet(items[w])
      <4>1. AliveItems[w] = items[w] /\ \E i \in DOMAIN items[w] : items[w][i] = x
        BY <1>1, <3>1, <3>3 DEF AliveItems, ToSet
      <4> QED
        BY <1>1, <3>1, <4>1 DEF Heap!Needed, AliveItems
    <3> QED
      BY <3>1, <3>2, <3>3
  <2> QED
    BY <1>1, <2>1, <2>2 DEF Led
<1>2. ASSUME NEW x \in Addr, Inv', Held'[x] = 0
      PROVE  ~Heap!Needed(x)'
  <2>1. Typed' /\ References'
    BY <1>2, InvParts
  <2>2. ~Led(Objects', type', items', roots', x)
    BY <1>2, <2>1, HeldMeansNext
  <2>3. \A w \in Alive' : w \in Objects'
    BY AliveIs
  <2>4. \A w \in Alive' : Classes'[w] # x
    <3> TAKE w \in Alive'
    <3>1. type'[w] # x /\ Static # x
      BY <2>2, <2>3, PoolAssumption DEF Led
    <3> QED
      BY <3>1 DEF Classes, ClassOf
  <2>5. \A w \in Alive' : ~ \E i \in DOMAIN AliveItems'[w] : AliveItems'[w][i] = x
    BY <2>2, <2>3 DEF Led, ToSet, AliveItems
  <2>6. ~(roots'[x] > 0)
    BY <2>2 DEF Led
  <2> QED
    BY <2>4, <2>5, <2>6 DEF Heap!Needed, Classes, ClassOf, AliveItems
<1> QED
  BY <1>1, <1>2

LEMMA HeapNewRef == ASSUME Inv, NewRef PROVE Heap!Next
<1>1. PICK v \in Objects : /\ Led(Objects, type, items, roots, v)
                           /\ roots' = [roots EXCEPT ![v] = @ + 1]
  BY NewRefStep
<1>2. Alive = Objects /\ Alive' = Objects /\ UNCHANGED <<type, items>> /\ v \in Addr
  BY NewRefStep, RootsKnown
<1>3. Heap!Needed(v)
  BY <1>1, <1>2, HeapNeeded
<1>4. Classes' = Classes /\ AliveItems' = AliveItems
  BY <1>2 DEF Classes, AliveItems, ClassOf
<1>5. Heap!Refer(v)
  BY <1>1, <1>2, <1>3, <1>4 DEF Heap!Refer, Classes, AliveItems, ClassOf
<1> QED
  BY <1>2, <1>5 DEF Heap!Next

LEMMA HeapStore == ASSUME Inv, Store PROVE Heap!Next
<1>1. PICK v \in Objects, x \in Objects :
         /\ roots[v] > 0 /\ roots[x] > 0 /\ items' = [items EXCEPT ![v] = Append(@, x)]
         /\ roots' = [roots EXCEPT ![x] = @ - 1]
  BY StoreStep
<1>2. /\ Alive = Objects /\ Alive' = Objects /\ UNCHANGED type /\ v \in Addr /\ x \in Addr
      /\ items \in [Addr -> Seq(Addr)] /\ Objects \in SUBSET Addr
  BY StoreStep, RootsKnown
<1>3. Classes' = Classes
  BY <1>2 DEF Classes, ClassOf
<1>4. AliveItems' = [AliveItems EXCEPT ![v] = Append(@, x)]
  BY <1>1, <1>2 DEF AliveItems
<1>5. Heap!Put(v, x)
  BY <1>1, <1>2, <1>3, <1>4 DEF Heap!Put, Classes, AliveItems, ClassOf
<1> QED
  BY <1>2, <1>5 DEF Heap!Next

\* The objects that vanish with x, and what the others keep.
LEMMA HeapGone ==
    ASSUME Inv, Inv', UNCHANGED type, NEW x, Gone(x)
    PROVE  \E gone \in SUBSET Alive :
              /\ Heap!Vanish(gone)
              /\ \A w \in gone : ~Heap!Needed(w)'
<1>0. PICK gone : gone = {w \in Alive : w = x /\ Held'[x] = 0}
  OBVIOUS
<1>1. Objects \in SUBSET Addr /\ Alive \subseteq Addr /\ Alive' \subseteq Addr
  BY RootsKnown DEF Alive
<1>2. Alive' = Alive \ gone
  BY <1>0, <1>1 DEF Gone
<1>3. \A w \in gone : ~Heap!Needed(w)'
  BY <1>0, <1>1, HeapNeeded
<1>4. Classes' = [w \in Alive' |-> Classes[w]]
  BY <1>2 DEF Classes, ClassOf
<1>5. Heap!Vanish(gone)
  BY <1>2, <1>4 DEF Heap!Vanish, Classes, ClassOf
<1>6. gone \in SUBSET Alive
  BY <1>0
<1> QED
  BY <1>3, <1>5, <1>6

LEMMA HeapTakeOut == ASSUME Inv, TakeOut PROVE Heap!Next
<1>1. PICK v \in Objects, x \in Objects :
         /\ v \in Alive /\ roots[v] > 0 /\ items[v] # << >> /\ items' = [items EXCEPT ![v] = Tail(@)]
         /\ \A w \in Addr : w \in Alive' <=> w \in Alive /\ ~(w = x /\ Held'[x] = 0)
  BY TakeOutStep
<1>2. /\ Inv' /\ UNCHANGED <<type, roots>> /\ v \in Addr /\ items \in [Addr -> Seq(Addr)]
      /\ Objects \in SUBSET Addr
  BY TakeOutStep, RootsKnown
<1>3. PICK gone \in SUBSET Alive : Heap!Vanish(gone) /\ \A w \in gone : ~Heap!Needed(w)'
  BY <1>1, <1>2, HeapGone DEF Gone
<1>4. Alive' \subseteq Alive /\ Alive \subseteq Addr
  BY <1>3 DEF Heap!Vanish, Alive
<1>5. AliveItems' = [w \in Alive' |-> IF w = v THEN Tail(AliveItems[v]) ELSE AliveItems[w]]
  <2>1. \A w \in Alive' : items'[w] = IF w = v THEN Tail(items[v]) ELSE items[w]
    BY <1>1, <1>2, <1>4
  <2> QED
    BY <1>1, <1>4, <2>1 DEF AliveItems
<1>6. Heap!Take(v)
  <2>1. AliveItems[v] # << >>
    BY <1>1 DEF AliveItems
  <2> QED
    BY <1>1, <1>2, <1>3, <1>5, <2>1 DEF Heap!Take, AliveItems
<1> QED
  BY <1>2, <1>6 DEF Heap!Next

LEMMA HeapDrop == ASSUME Inv, Drop PROVE Heap!Next
<1>1. PICK x \in Objects :
         /\ x \in Alive /\ roots[x] > 0 /\ roots' = [roots EXCEPT ![x] = @ - 1]
         /\ \A w \in Addr : w \in Alive' <=> w \in Alive /\ ~(w = x /\ Held'[x] = 0)
  BY DropStep
<1>2. Inv' /\ UNCHANGED <<type, items>> /\ x \in Addr
  BY DropStep, RootsKnown
<1>3. PICK gone \in SUBSET Alive : Heap!Vanish(gone) /\ \A w \in gone : ~Heap!Needed(w)'
  BY <1>1, <1>2, HeapGone DEF Gone
<1>4. Alive' \subseteq Alive
  BY <1>3 DEF Heap!Vanish
<1>5. AliveItems' = [w \in Alive' |-> AliveItems[w]]
  BY <1>2, <1>4 DEF AliveItems
<1>6. Heap!Unrefer(x)
  BY <1>1, <1>3, <1>5 DEF Heap!Unrefer, AliveItems
<1> QED
  BY <1>2, <1>6 DEF Heap!Next

LEMMA HeapCollect == ASSUME Inv, ResetItem \/ Free PROVE Heap!Next
<1>1. /\ Inv' /\ UNCHANGED <<type, roots>> /\ \A w \in Alive : items'[w] = items[w]
      /\ \E x : Gone(x)
  BY ResetItemStep, FreeStep
<1>2. PICK gone \in SUBSET Alive : Heap!Vanish(gone) /\ \A w \in gone : ~Heap!Needed(w)'
  BY <1>1, HeapGone
<1>3. Alive' \subseteq Alive
  BY <1>2 DEF Heap!Vanish
<1>4. AliveItems' = [w \in Alive' |-> AliveItems[w]]
  BY <1>1, <1>3 DEF AliveItems
<1>5. Heap!Collect
  BY <1>1, <1>2, <1>4 DEF Heap!Collect, AliveItems
<1> QED
  BY <1>5 DEF Heap!Next

LEMMA HeapStep == Inv /\ [Next]_vars => [Heap!Next]_(Heap!vars)
<1> SUFFICES ASSUME Inv, [Next]_vars PROVE Heap!Next \/ UNCHANGED Heap!vars
  OBVIOUS
<1>1. CASE New \/ NewRef \/ Store \/ TakeOut \/ Drop \/ ResetItem \/ Free
  BY <1>1, HeapNew, HeapNewRef, HeapStore, HeapTakeOut, HeapDrop, HeapCollect
<1>2. CASE Lock \/ Unlock \/ UnlockNext \/ ResetClass \/ UNCHANGED vars
  <2>1. Alive' = Alive /\ UNCHANGED <<type, items, roots>>
    BY <1>2, LockStep, UnlockNextStep, ResetClassStep, StutterStep
  <2>2. Classes' = Classes /\ AliveItems' = AliveItems
    BY <2>1 DEF Classes, ClassOf, AliveItems
  <2> QED
    BY <2>1, <2>2 DEF Heap!vars, Classes, ClassOf, AliveItems
<1> QED
  BY <1>1, <1>2 DEF Next, Delete

(* Storage keeps what the rest of the interpreter takes it for: an object  *)
(* stays, with its class and items, while anything refers to it, and no    *)
(* storage is given out that still holds one.                              *)
THEOREM StorageImplementsHeap == Spec => ImplementsHeap
<1>1. Init => Heap!Init
  <2> SUFFICES ASSUME Init PROVE Heap!Init
    OBVIOUS
  <2>1. Alive = {}
    BY DEF Init, Alive, IsObject
  <2>2. roots = [v \in Addr |-> 0]
    BY DEF Init
  <2> QED
    BY <2>1, <2>2 DEF Heap!Init
<1> QED
  BY <1>1, HeapStep, Invariance, PTL DEF Spec, ImplementsHeap, Heap!Spec
=============================================================================
