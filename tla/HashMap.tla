------------------------------- MODULE HashMap -------------------------------
(***************************************************************************)
(* HashMap[K, V] of lib/std/src/collections/map.zn: the calls on one map,  *)
(* and where the values its caller hands in are. A value is owned once:    *)
(* by the caller, by the map, or by nobody, when it was dropped.           *)
(***************************************************************************)
EXTENDS HashTable

VARIABLES table,     \* the HashMap
          hands,     \* the values the caller owns
          gone,      \* those that do not exist, not made or dropped
          answer     \* what the last call returned

vars == <<table, hands, gone, answer>>

Held(t) == {EntryIn(t, s).value : s \in Slots(t)}

Init ==
  /\ table = EmptyTable(InitialMapCapacity)
  /\ hands = {} /\ gone = Values
  /\ answer = None

\* The caller makes a value.
Make(v) ==
  /\ v \in gone
  /\ hands' = hands \cup {v} /\ gone' = gone \ {v}
  /\ UNCHANGED <<table, answer>>

Returned(v) == {v} \ {None}

\* insert: the value is moved in, the one it replaces is returned.
Insert(k, v) ==
  /\ v \in hands
  /\ table' = InsertInto(table, k, v)
  /\ answer' = Lookup(table, k)
  /\ hands' = (hands \ {v}) \cup Returned(answer')
  /\ UNCHANGED gone

\* remove, remove_entry: the value is moved out.
Remove(k) ==
  /\ table' = RemoveFrom(table, k)
  /\ answer' = Lookup(table, k)
  /\ hands' = hands \cup Returned(answer')
  /\ UNCHANGED gone

\* get, get_mut, contains_key
Get(k) == answer' = Lookup(table, k) /\ UNCHANGED <<table, hands, gone>>

\* len, is_empty
Count == answer' = table.len /\ UNCHANGED <<table, hands, gone>>

\* Every value in the map is dropped.
Clear ==
  /\ table' = ClearOf(table)
  /\ gone' = gone \cup Held(table)
  /\ answer' = None
  /\ UNCHANGED hands

\* The map is cloned and dropped; the clones of its values are called like them.
CloneAndDrop ==
  /\ table' = CloneOf(table)
  /\ UNCHANGED <<hands, gone, answer>>

Next ==
  \/ \E k \in Keys : Remove(k) \/ Get(k) \/ \E v \in Values : Insert(k, v)
  \/ \E v \in Values : Make(v)
  \/ Count \/ Clear \/ CloneAndDrop

Spec == Init /\ [][Next]_vars

-----------------------------------------------------------------------------
\* A value that went into the map is in it once, or was returned, or dropped:
\* growing, replacing, removing and cloning neither lose nor copy one.
ValuesConserved ==
  \A v \in Values :
    Cardinality({s \in Slots(table) : EntryIn(table, s).value = v})
      + Cardinality({v} \cap hands) + Cardinality({v} \cap gone) = 1

\* The shape every call relies on: an entry is in the bucket of its hash under the
\* capacity of now, a key once, len counts them, and the table is not overfull,
\* whatever it grew from or was cloned from.
WellFormed ==
  /\ \A i \in 0 .. table.capacity - 1 : \A j \in DOMAIN table.buckets[i] :
       BucketIndex(table.buckets[i][j].key, table.capacity) = i
  /\ \A r, s \in Slots(table) : r # s => EntryIn(table, r).key # EntryIn(table, s).key
  /\ table.len = Cardinality(Slots(table)) /\ ~Crowded(table)

Present == {k \in Keys : Lookup(table, k) # None}
AsMap == INSTANCE Dictionary WITH map <- [k \in Present |-> Lookup(table, k)]

\* A HashMap is a map: whatever order of calls, collisions and growth, each answer
\* is the one of a function from keys to values, and a clone is the same function.
ImplementsDictionary == AsMap!Spec
=============================================================================
