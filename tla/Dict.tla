-------------------------------- MODULE Dict --------------------------------
(***************************************************************************)
(* Dictionaries (src/src/types/dict.c): an open-addressed hash table whose *)
(* buckets are NULL, DEAD or taken, and beside it d_map, which lists the   *)
(* buckets in the order they were taken and is what iterators walk.        *)
(*                                                                         *)
(* Bucket numbers and map positions count from 0, as in the code.  -1 in   *)
(* the map is "nothing here".  Keys are those that can be hashed: a call   *)
(* with another fails before it looks at the table.                        *)
(***************************************************************************)
EXTENDS Integers, Sequences, FiniteSets, SequencesExt

CONSTANTS Keys, Vals, NoVal,
          hash,          \* key -> what var_hash() gives
          INIT_SIZE,     \* buckets of a new dictionary, a power of 2
          MaxCount,      \* bound: buckets in use or DEAD
          MaxClears,     \* bound: calls of clear()
          NULL, DEAD     \* no key, and BUCKET_DEAD

PowerOf2[n \in Nat] == IF n = 0 THEN 1 ELSE 2 * PowerOf2[n - 1]

ASSUME DictAssumption == /\ hash \in [Keys -> Nat]
                         /\ \E n \in 1..16 : INIT_SIZE = PowerOf2[n]
                         /\ MaxCount \in Nat
                         /\ MaxClears \in Nat
                         /\ NULL \notin Keys /\ DEAD \notin Keys /\ NULL # DEAD
                         /\ NoVal \notin Vals

VARIABLES
    d,      \* the dictionary: [size, used, count, grow, shrink, keys, vals, map]
    len,    \* its length as the language sees it (seqvar_size)
    res,    \* what the last operation returned
    clears, \* calls of clear() so far, for the bound
    iter    \* [i, given]: an iterator's place in the map, -1 when there is none,
            \* and, as history, which of the keys present it has yielded

vars == <<d, len, res, clears, iter>>

Buckets(size) == 0..(size - 1)
Taken(t, i)   == i \in DOMAIN t.keys /\ t.keys[i] \notin {NULL, DEAD}

(* The positions of the map that lead to a key.                            *)
Leading(t) == {m \in DOMAIN t.map : Taken(t, t.map[m])}

------------------------------------------------------------------------------
(* The buckets that a search for hash h tries, in seek_helper() and in     *)
(* transfer_table(), and what is left of the hash at each of them.         *)
Probes(size, h) ==
    LET at[n \in Nat] ==
            IF n = 0 THEN [i |-> h % size, perturb |-> h]
            ELSE LET last    == at[n - 1]
                     perturb == last.perturb \div 32
                 IN  [i |-> (last.i * 5 + perturb + 1) % size, perturb |-> perturb]
    IN  at

(* The first of them that holds one of stops.                              *)
FirstBucket(t, k, stops) ==
    LET at       == Probes(t.size, hash[k])
        Stops(n) == t.keys[at[n].i] \in stops
    IN  at[CHOOSE n \in 0..(hash[k] + t.size) :
              Stops(n) /\ \A m \in 0..(n - 1) : ~Stops(m)].i

seek_helper(t, k) == FirstBucket(t, k, {NULL, k})

refresh_grow_markers(t) ==
    LET grow == (t.size * 2) \div 3
    IN  [t EXCEPT !.grow = grow, !.shrink = IF t.used <= INIT_SIZE THEN 0 ELSE grow \div 3]

bucket_alloc(t) == [t EXCEPT !.keys = [i \in Buckets(t.size) |-> NULL],
                             !.vals = [i \in Buckets(t.size) |-> NoVal],
                             !.map  = [n \in Buckets(t.size) |-> -1]]

(* The key of an old bucket is put into the first empty one.               *)
put(t, old, i) ==
    LET j == FirstBucket(t, old.keys[i], {NULL})
    IN  [t EXCEPT !.keys[j] = old.keys[i], !.vals[j] = old.vals[i],
                  !.map[t.count] = j, !.count = @ + 1]

(* Seeded fault: the new map in the order of the old buckets.              *)
transfer_table_ByBucket(t, old) ==
    LET moved[m \in Nat] ==
            IF m = 0 THEN [bucket_alloc(t) EXCEPT !.count = 0]
            ELSE IF Taken(old, m - 1) THEN put(moved[m - 1], old, m - 1)
            ELSE moved[m - 1]
        new == moved[old.size]
    IN  [new EXCEPT !.used = new.count]

(* The keys the old map leads to, in its order, into new buckets.          *)
transfer_table(t, old) ==
    LET moved[m \in Nat] ==
            IF m = 0 THEN [bucket_alloc(t) EXCEPT !.count = 0]
            ELSE IF m - 1 \in Leading(old) THEN put(moved[m - 1], old, old.map[m - 1])
            ELSE moved[m - 1]
        new == moved[old.size]
    IN  [new EXCEPT !.used = new.count]

(* Sizes are doubled, or halved, until the markers allow it; that takes    *)
(* fewer than t.size turns.                                                *)
Doubled(t) == IF t.count > t.grow THEN refresh_grow_markers([t EXCEPT !.size = @ * 2]) ELSE t
Halved(t)  == IF t.used < t.shrink THEN refresh_grow_markers([t EXCEPT !.size = @ \div 2]) ELSE t

Doublings(t) ==
    LET step[n \in Nat] == IF n = 0 THEN t ELSE Doubled(step[n - 1]) IN step
Halvings(t) ==
    LET step[n \in Nat] == IF n = 0 THEN t ELSE Halved(step[n - 1]) IN step

maybe_grow_table(t) ==
    LET r == Doublings(t)[t.size]
    IN  IF r.size # t.size THEN transfer_table(r, t) ELSE r

maybe_shrink_table(t) ==
    LET r == Halvings(t)[t.size]
        s == IF r.size < INIT_SIZE THEN [r EXCEPT !.size = INIT_SIZE] ELSE r
    IN  IF s.size # t.size THEN transfer_table(s, t) ELSE s

(* Seeded fault: a removed key's place in the map is taken again.          *)
insert_common_FillsHole(t, k, v, i) ==
    LET hole(m) == t.map[m] >= 0 /\ t.keys[t.map[m]] = DEAD
        holes == {m \in 0..(t.count - 1) : hole(m)} \cup {t.count}
    IN  maybe_grow_table([t EXCEPT !.map[Min(holes)] = i, !.keys[i] = k, !.vals[i] = v,
                                   !.count = @ + 1, !.used = @ + 1])

(* append_to_map and insert_common.                                        *)
insert_common(t, k, v, i) ==
    maybe_grow_table([t EXCEPT !.map[t.count] = i, !.keys[i] = k, !.vals[i] = v,
                               !.count = @ + 1, !.used = @ + 1])

(* Seeded fault: a DEAD bucket is no longer counted as occupied.           *)
remove_Uncounts(t, i) ==
    maybe_shrink_table([t EXCEPT !.keys[i] = DEAD, !.vals[i] = NoVal,
                                 !.used = @ - 1, !.count = @ - 1])

remove(t, i) ==
    maybe_shrink_table([t EXCEPT !.keys[i] = DEAD, !.vals[i] = NoVal, !.used = @ - 1])

dict_clear_noresize(t) ==
    [t EXCEPT !.keys = [i \in Buckets(t.size) |-> NULL],
              !.vals = [i \in Buckets(t.size) |-> NoVal],
              !.count = 0, !.used = 0]

dict_clear(t) == maybe_shrink_table(dict_clear_noresize(t))

dictvar_new ==
    bucket_alloc(refresh_grow_markers(
        [size |-> INIT_SIZE, used |-> 0, count |-> 0, grow |-> 0, shrink |-> 0,
         keys |-> << >>, vals |-> << >>, map |-> << >>]))

------------------------------------------------------------------------------
NoIterator == [i |-> -1, given |-> {}]

Init == d = dictvar_new /\ len = 0 /\ res = "ok" /\ clears = 0 /\ iter = NoIterator

Done(t, r) == d' = t /\ len' = t.used /\ res' = r
Refused    == res' = "error" /\ UNCHANGED <<d, len>>

(* dict_insert() with a value: flag is 0, DF_EXCL or DF_SWAP.              *)
Insert(flag) ==
    \E k \in Keys :
        LET i       == seek_helper(d, k)
            present == d.keys[i] # NULL
        IN  \/ /\ flag = IF present THEN "DF_EXCL" ELSE "DF_SWAP"
               /\ Refused
            \/ /\ present /\ flag # "DF_EXCL"
               /\ \E v \in Vals : d' = [d EXCEPT !.keys[i] = k, !.vals[i] = v]
               /\ res' = "ok"
               /\ UNCHANGED len
            \/ /\ ~present /\ flag # "DF_SWAP"
               /\ \E v \in Vals : LET t == insert_common(d, k, v, i)
                                  IN  t.count <= MaxCount /\ Done(t, "ok")

dict_setitem           == Insert("0")
dict_setitem_exclusive == Insert("DF_EXCL")
dict_setitem_replace   == Insert("DF_SWAP")

(* dict_insert() without a value.                                          *)
dict_delitem ==
    \E k \in Keys :
        LET i == seek_helper(d, k)
        IN  IF d.keys[i] = NULL THEN Refused ELSE Done(remove(d, i), "ok")

dict_getitem ==
    \E k \in Keys :
        LET i == seek_helper(d, k)
        IN  /\ res' = IF d.keys[i] = NULL THEN NoVal ELSE d.vals[i]
            /\ UNCHANGED <<d, len>>

do_dict_clear ==
    /\ clears < MaxClears
    /\ Done(dict_clear(d), "ok")
    /\ clears' = clears + 1

(* An iterator is followed until the table is rebuilt or cleared under it, *)
(* from when on its place means nothing; and only over a dictionary that   *)
(* has not been cleared before (see IterationExact).                       *)
KeysOf(t) == {t.keys[i] : i \in {x \in Buckets(t.size) : Taken(t, x)}}
IteratorFollows ==
    iter' = IF d'.size # d.size \/ clears' # clears THEN NoIterator
            ELSE [iter EXCEPT !.given = @ \cap KeysOf(d')]

dict_get_iter ==
    /\ iter = NoIterator /\ clears = 0
    /\ iter' = [i |-> 0, given |-> {}]
    /\ UNCHANGED <<d, len, res, clears>>

dict_iter_next ==
    /\ iter.i >= 0
    /\ LET ahead == {m \in Leading(d) : m >= iter.i}
           m == Min(ahead)
       IN  iter' = IF ahead = {} THEN NoIterator
                   ELSE [i |-> m + 1, given |-> iter.given \cup {d.keys[d.map[m]]}]
    /\ UNCHANGED <<d, len, res, clears>>

Next == \/ /\ \/ dict_setitem \/ dict_setitem_exclusive \/ dict_setitem_replace
              \/ dict_delitem \/ dict_getitem
           /\ UNCHANGED clears
           /\ IteratorFollows
        \/ do_dict_clear /\ IteratorFollows
        \/ dict_get_iter
        \/ dict_iter_next

Spec == Init /\ [][Next]_vars
------------------------------------------------------------------------------
(* S's members in order, smallest first: each stands where its rank is.    *)
Rank(S, m) == Cardinality({x \in S : x <= m})
Ranked[S \in SUBSET Nat] == [r \in 1..Cardinality(S) |-> CHOOSE m \in S : Rank(S, m) = r]

(* The keys the map leads to up to position n, in its order.  Iterators go *)
(* over the whole map (dict_iter_next, dict_items_iterator_next); its first*)
(* count entries are those of this table.                                  *)
KeysUpTo(t, n) ==
    LET at == Ranked[{m \in Leading(t) : m < n}]
    IN  [r \in DOMAIN at |-> t.keys[t.map[at[r]]]]

Iterated == KeysUpTo(d, d.size)
Ordered  == KeysUpTo(d, d.count)

Live == KeysOf(d)

Tables(size) == [size : {size}, used : Nat, count : Nat, grow : Nat, shrink : Nat,
                 keys : [Buckets(size) -> Keys \cup {NULL, DEAD}],
                 vals : [Buckets(size) -> Vals \cup {NoVal}],
                 map  : [Buckets(size) -> {-1} \cup Buckets(size)]]

TypeOK ==
    /\ d.size \in Nat /\ d \in Tables(d.size)
    /\ len \in Nat /\ clears \in Nat
    /\ iter.i \in -1..d.size /\ iter.given \subseteq Live

(* The counts are those of the buckets, the size is a power of 2, and an   *)
(* empty bucket is left: so every search ends, at its key or at an empty   *)
(* bucket (what seek_helper() says of its loop and takes on trust).        *)
TableSound ==
    /\ TypeOK
    /\ d.used = Cardinality({i \in Buckets(d.size) : Taken(d, i)})
    /\ d.count = Cardinality({i \in Buckets(d.size) : d.keys[i] # NULL})
    /\ len = d.used
    /\ d.count <= d.grow /\ d.grow < d.size
    /\ d.size >= INIT_SIZE /\ \E n \in 0..d.size : d.size = PowerOf2[n]
    /\ \A k \in Keys : /\ seek_helper(d, k) \in Buckets(d.size)
                       /\ d.keys[seek_helper(d, k)] \in {NULL, k}

(* Lookups, insertions, removals and clear() are those of a map that keeps *)
(* its keys in the order they came, whatever collides, dies and moves.     *)
ValueOf(t, k) == LET at == {i \in Buckets(t.size) : t.keys[i] = k}
                 IN  IF at = {} THEN NoVal ELSE t.vals[CHOOSE i \in at : TRUE]

AsMap == INSTANCE Mapping WITH map <- [k \in Keys |-> ValueOf(d, k)], order <- Ordered

ImplementsMap == AsMap!Spec

(* An iterator yields each key of the dictionary once.                     *)
IterationExact == IsInjective(Iterated) /\ ToSet(Iterated) = Live

(* As long as the dictionary was never cleared, iterators yield each of    *)
(* its keys once; and one that keys come and go under, without the table   *)
(* being rebuilt, still yields once what is there (dict_iter_next): the    *)
(* keys behind its place are those it gave and no others, and none of them *)
(* is ahead of it again.                                                   *)
IteratorsExact ==
    /\ clears = 0 => IterationExact
    /\ iter.i >= 0 =>
         /\ iter.given = ToSet(KeysUpTo(d, iter.i))
         /\ Len(KeysUpTo(d, iter.i)) = Cardinality(iter.given)
=============================================================================
