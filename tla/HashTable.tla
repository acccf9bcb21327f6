------------------------------ MODULE HashTable ------------------------------
(***************************************************************************)
(* The chained hash table of lib/std/src/collections/map.zn, as operators  *)
(* on tables: buckets from 0, each a list of entries, searched from its    *)
(* start. The hash an entry caches is that of its key.                     *)
(***************************************************************************)
EXTENDS Naturals, Sequences, FiniteSetsExt

CONSTANTS Keys, Values,
          None,                 \* no value
          Hash,                 \* of each key
          InitialMapCapacity

ASSUME HashTableAssumption ==
  /\ Hash \in [Keys -> Nat] /\ None \notin Values
  /\ InitialMapCapacity \in Nat \ {0}

Entries == [key : Keys, value : Values]

\* The capacities next_pow2 tries.
Doubled(n) ==
  LET cap[i \in 0 .. n] == IF i = 0 THEN 1 ELSE 2 * cap[i - 1]
  IN cap

NextPow2(n) == Min({c \in {Doubled(n)[i] : i \in 0 .. n} : c >= n})
BucketIndex(k, cap) == Hash[k] % cap

EmptyTable(cap) == [buckets |-> [i \in 0 .. cap - 1 |-> <<>>], len |-> 0, capacity |-> cap]
WithCapacity(n) == EmptyTable(NextPow2(Max({n, InitialMapCapacity})))

BucketOf(t, k) == t.buckets[BucketIndex(k, t.capacity)]

\* Mutant of FindInBucket: keys with one hash are taken for one key.
FindByHash(bucket, k) ==
  LET found == {i \in DOMAIN bucket : Hash[bucket[i].key] = Hash[k]} IN IF found = {} THEN 0 ELSE Min(found)

\* The position of a key in a bucket, or 0.
FindInBucket(bucket, k) ==
  LET found == {i \in DOMAIN bucket : bucket[i].key = k} IN IF found = {} THEN 0 ELSE Min(found)

\* get, get_mut: the value the pointer they return points to; contains_key.
Lookup(t, k) ==
  LET pos == FindInBucket(BucketOf(t, k), k) IN IF pos = 0 THEN None ELSE BucketOf(t, k)[pos].value

\* Mutant of Rehashed: each entry stays under the index it had.
RehashedInPlace(t, j) == IF j < t.capacity THEN t.buckets[j] ELSE <<>>

\* What popping the n last entries of an old bucket pushes on bucket j, for a capacity.
Popped(old, cap, j) ==
  LET pushed[n \in 0 .. Len(old)] ==
        IF n = 0 THEN <<>>
        ELSE LET e == old[Len(old) + 1 - n] IN
               IF BucketIndex(e.key, cap) = j THEN Append(pushed[n - 1], e) ELSE pushed[n - 1]
  IN pushed

\* Bucket j of the table of twice the size: one old bucket has entries for it.
Rehashed(t, j) ==
  LET old == t.buckets[j % t.capacity] IN Popped(old, 2 * t.capacity, j)[Len(old)]

Grow(t) == [buckets |-> [j \in 0 .. 2 * t.capacity - 1 |-> Rehashed(t, j)],
            len |-> t.len, capacity |-> 2 * t.capacity]

Crowded(t) == t.len * 4 > t.capacity * 3

\* Mutant of Replace: the new value goes after the old one, which is returned.
ReplaceBehind(t, k, pos, v) ==
  [t EXCEPT !.buckets[BucketIndex(k, t.capacity)] = 
      SubSeq(@, 1, pos) \o <<[key |-> k, value |-> v]>> \o SubSeq(@, pos + 1, Len(@))]

\* insert of a key that is there: the entry keeps its key and gets the value.
Replace(t, k, pos, v) == [t EXCEPT !.buckets[BucketIndex(k, t.capacity)][pos].value = v]

\* insert of one that is not.
Push(t, k, v) ==
  LET pushed == [t EXCEPT !.buckets[BucketIndex(k, t.capacity)] = Append(@, [key |-> k, value |-> v]),
                          !.len = @ + 1] IN
    IF Crowded(pushed) THEN Grow(pushed) ELSE pushed

InsertInto(t, k, v) ==
  LET pos == FindInBucket(BucketOf(t, k), k) IN IF pos = 0 THEN Push(t, k, v) ELSE Replace(t, k, pos, v)

\* remove, remove_entry.
RemoveFrom(t, k) ==
  LET pos == FindInBucket(BucketOf(t, k), k) IN
    IF pos = 0 THEN t
    ELSE [t EXCEPT !.buckets[BucketIndex(k, t.capacity)] = SubSeq(@, 1, pos - 1) \o SubSeq(@, pos + 1, Len(@)),
                   !.len = @ - 1]

\* clear empties the buckets and keeps them.
ClearOf(t) == EmptyTable(t.capacity)

\* clone: an insert for each of the first n entries of a bucket, and for those of
\* the first n buckets, into a table with room for as many buckets.
Copied(out, bucket) ==
  LET after[n \in 0 .. Len(bucket)] ==
        IF n = 0 THEN out ELSE InsertInto(after[n - 1], bucket[n].key, bucket[n].value)
  IN after

Cloned(t) ==
  LET after[n \in 0 .. t.capacity] ==
        IF n = 0 THEN WithCapacity(t.capacity)
        ELSE LET bucket == t.buckets[n - 1] IN Copied(after[n - 1], bucket)[Len(bucket)]
  IN after

CloneOf(t) == Cloned(t)[t.capacity]

\* Where the entries are, and which.
Slots(t) == UNION {{<<i, j>> : j \in DOMAIN t.buckets[i]} : i \in 0 .. t.capacity - 1}
EntryIn(t, s) == t.buckets[s[1]][s[2]]
=============================================================================
