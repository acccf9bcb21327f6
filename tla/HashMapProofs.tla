---------------------------- MODULE HashMapProofs ----------------------------
(***************************************************************************)
(* Proofs about HashMap: its shape, where its values are, and that it      *)
(* implements Dictionary, for any keys, hashes and order of calls.         *)
(***************************************************************************)
EXTENDS HashMap, FiniteSetTheorems, SequenceTheorems, WellFoundedInduction, TLAPS

-----------------------------------------------------------------------------
(* Numbers *)

LEMMA Least ==
  ASSUME NEW T, T \subseteq Nat, T # {}
  PROVE  \E x \in T : \A y \in T : x <= y
<1>1. PICK x \in T : \A y \in T : ~(<<y, x>> \in OpToRel(<, Nat))
  BY WFMin, NatLessThanWellFounded, Zenon
<1>2. \A y \in T : ~(y < x)
  BY <1>1 DEF OpToRel
<1> QED
  BY <1>2

\* What holds of 0 and of the successor of what it holds of, up to a bound.
LEMMA CountUp ==
  ASSUME NEW N \in Nat, NEW T, 0 \in T, \A n \in 1 .. N : n - 1 \in T => n \in T
  PROVE  0 .. N \subseteq T
<1> DEFINE Left == {n \in 0 .. N : n \notin T}
<1> SUFFICES ASSUME Left # {} PROVE FALSE
  OBVIOUS
<1>1. Left \subseteq Nat
  OBVIOUS
<1>2. PICK n \in Left : \A m \in Left : n <= m
  BY <1>1, Least
<1>3. n \in 1 .. N
  BY <1>2
<1>4. n - 1 \in 0 .. N /\ ~(n <= n - 1)
  BY <1>3
<1>5. n - 1 \in T
  BY <1>2, <1>4
<1> QED
  BY <1>2, <1>3, <1>5

\* A loop of N steps has a trace.
LEMMA Iterate ==
  ASSUME NEW S, NEW x0 \in S, NEW N \in Nat, NEW F \in [1 .. N -> [S -> S]]
  PROVE  \E g \in [0 .. N -> S] : g[0] = x0 /\ \A n \in 1 .. N : g[n] = F[n][g[n - 1]]
<1> DEFINE Trace(n, g) == g[0] = x0 /\ \A m \in 1 .. n : g[m] = F[m][g[m - 1]]
           T == {n \in 0 .. N : \E g \in [0 .. N -> S] : Trace(n, g)}
<1>1. 0 \in T
  <2>1. PICK g : g = [i \in 0 .. N |-> x0]
    OBVIOUS
  <2>2. g \in [0 .. N -> S]
    BY <2>1
  <2>3. Trace(0, g)
    BY <2>1
  <2>4. 0 \in 0 .. N
    OBVIOUS
  <2> HIDE DEF Trace
  <2> QED
    BY <2>2, <2>3, <2>4
<1>2. ASSUME NEW n \in 1 .. N, n - 1 \in T PROVE n \in T
  <2>1. PICK g \in [0 .. N -> S] : Trace(n - 1, g)
    BY <1>2
  <2> DEFINE y == F[n][g[n - 1]]
             h == [g EXCEPT ![n] = y]
  <2>2. n - 1 \in 0 .. N
    OBVIOUS
  <2>3. y \in S
    <3>1. F[n] \in [S -> S] /\ g[n - 1] \in S
      BY <2>2
    <3> QED
      BY <3>1
  <2>4. h \in [0 .. N -> S] /\ h[n] = y /\ \A i \in 0 .. N : i # n => h[i] = g[i]
    BY <2>3
  <2>5. h[0] = x0
    BY <2>1, <2>4
  <2>6. ASSUME NEW m \in 1 .. n PROVE h[m] = F[m][h[m - 1]]
    <3>1. m - 1 \in 0 .. N /\ m - 1 # n /\ m \in 0 .. N
      OBVIOUS
    <3>2. h[m - 1] = g[m - 1]
      BY <3>1, <2>4
    <3>3. CASE m = n
      BY <3>2, <3>3, <2>4
    <3>4. CASE m # n
      <4>1. m \in 1 .. n - 1
        BY <3>4
      <4>2. h[m] = g[m] /\ g[m] = F[m][g[m - 1]]
        BY <4>1, <3>1, <3>4, <2>1, <2>4
      <4> QED
        BY <4>2, <3>2
    <3> QED
      BY <3>3, <3>4
  <2> HIDE DEF h
  <2>7. Trace(n, h)
    BY <2>5, <2>6
  <2>8. n \in 0 .. N /\ h \in [0 .. N -> S]
    BY <2>4
  <2> HIDE DEF Trace
  <2> QED
    BY <2>7, <2>8
<1> HIDE DEF T
<1>3. \A n \in 1 .. N : n - 1 \in T => n \in T
  BY <1>2
<1>4. 0 .. N \subseteq T
  BY <1>1, <1>3, CountUp
<1>5. N \in 0 .. N
  OBVIOUS
<1>6. N \in T
  BY <1>4, <1>5
<1> QED
  BY <1>6 DEF T

\* A remainder by twice a number leaves its remainder by the number.
LEMMA OneQuotient ==
  ASSUME NEW c \in Nat \ {0}, NEW a \in Int, NEW b \in Int, NEW r \in 0 .. c - 1, NEW s \in 0 .. c - 1,
         a * c + r = b * c + s
  PROVE  r = s
<1>1. (a - b) * c = s - r
  OBVIOUS
<1>2. s - r < c /\ r - s < c
  OBVIOUS
<1>3. CASE a = b
  BY <1>3
<1>4. CASE a - b >= 1
  <2>1. (a - b) * c >= c
    BY <1>4
  <2> QED
    BY <2>1, <1>1, <1>2
<1>5. CASE b - a >= 1
  <2>1. (b - a) * c >= c
    BY <1>5
  <2>2. (b - a) * c = r - s
    OBVIOUS
  <2> QED
    BY <2>1, <2>2, <1>2
<1> QED
  BY <1>3, <1>4, <1>5

LEMMA Division ==
  ASSUME NEW h \in Nat, NEW c \in Nat \ {0}
  PROVE  h % c \in 0 .. c - 1 /\ h \div c \in Int /\ h = (h \div c) * c + (h % c)
OBVIOUS

LEMMA HalfRemainder ==
  ASSUME NEW h \in Nat, NEW c \in Nat \ {0}
  PROVE  (h % (2 * c)) % c = h % c
<1>1. 2 * c \in Nat \ {0}
  OBVIOUS
<1>2. PICK d : d = 2 * c
  OBVIOUS
<1>3. PICK q : q = h \div d
  OBVIOUS
<1>4. PICK r : r = h % d
  OBVIOUS
<1>5. r \in Nat /\ q \in Int /\ h = q * d + r
  <2>1. d \in Nat \ {0}
    BY <1>1, <1>2
  <2>2. h % d \in 0 .. d - 1 /\ h \div d \in Int /\ h = (h \div d) * d + (h % d)
    BY <2>1, Division
  <2> QED
    BY <2>1, <2>2, <1>3, <1>4
<1>6. PICK q2 : q2 = r \div c
  OBVIOUS
<1>7. PICK s : s = r % c
  OBVIOUS
<1>8. s \in 0 .. c - 1 /\ q2 \in Int /\ r = q2 * c + s
  BY <1>5, <1>6, <1>7, Division
<1>9. q * d = (2 * q) * c
  BY <1>2, <1>5
<1>10. h = (2 * q + q2) * c + s
  BY <1>5, <1>8, <1>9
<1>11. PICK p : p = h \div c
  OBVIOUS
<1>12. PICK u : u = h % c
  OBVIOUS
<1>13. u \in 0 .. c - 1 /\ p \in Int /\ h = p * c + u
  BY <1>11, <1>12, Division
<1>14. 2 * q + q2 \in Int
  BY <1>5, <1>8
<1>15. s = u
  BY <1>8, <1>10, <1>13, <1>14, OneQuotient
<1> QED
  BY <1>2, <1>4, <1>7, <1>12, <1>15

-----------------------------------------------------------------------------
(* Buckets *)

Bucket == Seq(Entries)

\* No key twice.
Unique(b) == \A i, j \in 1 .. Len(b) : b[i].key = b[j].key => i = j

HasKey(b, k) == \E i \in 1 .. Len(b) : b[i].key = k
Holds(b, k, v) == \E i \in 1 .. Len(b) : b[i].key = k /\ b[i].value = v

\* What Lookup finds in a bucket.
ValueIn(b, k) == LET pos == FindInBucket(b, k) IN IF pos = 0 THEN None ELSE b[pos].value

LEMMA EntryFacts ==
  ASSUME NEW b \in Bucket
  PROVE  /\ Len(b) \in Nat /\ DOMAIN b = 1 .. Len(b)
         /\ \A i \in 1 .. Len(b) : b[i] \in Entries /\ b[i].key \in Keys /\ b[i].value \in Values
<1>1. b \in Seq(Entries)
  BY DEF Bucket
<1>2. Len(b) \in Nat /\ DOMAIN b = 1 .. Len(b)
  BY <1>1, LenProperties
<1>3. ASSUME NEW i \in 1 .. Len(b) PROVE b[i] \in Entries
  BY <1>1, ElementOfSeq
<1>4. \A e \in Entries : e.key \in Keys /\ e.value \in Values
  BY DEF Entries
<1> QED
  BY <1>2, <1>3, <1>4

\* A key that is there is found where it is, another one at 0.
LEMMA Found ==
  ASSUME NEW b \in Bucket, NEW k
  PROVE  IF HasKey(b, k) THEN /\ FindInBucket(b, k) \in 1 .. Len(b)
                              /\ b[FindInBucket(b, k)].key = k
                         ELSE FindInBucket(b, k) = 0
<1> DEFINE found == {i \in DOMAIN b : b[i].key = k}
<1>1. DOMAIN b = 1 .. Len(b) /\ Len(b) \in Nat
  BY EntryFacts
<1>2. FindInBucket(b, k) = IF found = {} THEN 0 ELSE Min(found)
  BY DEF FindInBucket
<1>3. found # {} <=> HasKey(b, k)
  BY <1>1 DEF HasKey
<1>4. ASSUME found # {} PROVE Min(found) \in found
  <2>1. found \subseteq Nat
    BY <1>1
  <2> HIDE DEF found
  <2>2. \E x \in found : \A y \in found : x <= y
    BY <1>4, <2>1, Least
  <2> QED
    BY <2>2 DEF Min
<1>5. CASE found # {}
  <2> HIDE DEF found
  <2>1. FindInBucket(b, k) \in found
    BY <1>2, <1>4, <1>5
  <2> QED
    BY <2>1, <1>1, <1>3, <1>5 DEF found
<1>6. CASE found = {}
  BY <1>2, <1>3, <1>6
<1> QED
  BY <1>5, <1>6

LEMMA ValueFacts ==
  ASSUME NEW b \in Bucket, NEW k
  PROVE  /\ ValueIn(b, k) \in Values \cup {None}
         /\ HasKey(b, k) => ValueIn(b, k) \in Values /\ Holds(b, k, ValueIn(b, k))
         /\ ~HasKey(b, k) => ValueIn(b, k) = None
         /\ ValueIn(b, k) # None <=> HasKey(b, k)
<1>1. CASE HasKey(b, k)
  <2>1. PICK p : p = FindInBucket(b, k)
    OBVIOUS
  <2>2. p \in 1 .. Len(b) /\ b[p].key = k
    BY <1>1, <2>1, Found
  <2>3. b[p].value \in Values /\ Len(b) \in Nat
    BY <2>2, EntryFacts
  <2>4. ValueIn(b, k) = b[p].value
    BY <2>1, <2>2, <2>3 DEF ValueIn
  <2>5. Holds(b, k, ValueIn(b, k))
    BY <2>2, <2>4 DEF Holds
  <2> QED
    BY <1>1, <2>3, <2>4, <2>5, HashTableAssumption
<1>2. CASE ~HasKey(b, k)
  <2>1. FindInBucket(b, k) = 0
    BY <1>2, Found
  <2>2. ValueIn(b, k) = None
    BY <2>1 DEF ValueIn
  <2> QED
    BY <1>2, <2>2
<1> QED
  BY <1>1, <1>2

\* In a bucket with no key twice, the value of a key is that of any entry with it.
LEMMA ValueOf ==
  ASSUME NEW b \in Bucket, Unique(b), NEW k, NEW v, Holds(b, k, v)
  PROVE  HasKey(b, k) /\ ValueIn(b, k) = v
<1>1. PICK i \in 1 .. Len(b) : b[i].key = k /\ b[i].value = v
  BY DEF Holds
<1>2. HasKey(b, k)
  BY <1>1 DEF HasKey
<1>3. Holds(b, k, ValueIn(b, k))
  BY <1>2, ValueFacts
<1>4. PICK j \in 1 .. Len(b) : b[j].key = k /\ b[j].value = ValueIn(b, k)
  BY <1>3 DEF Holds
<1>5. i = j
  BY <1>1, <1>4 DEF Unique
<1> QED
  BY <1>1, <1>2, <1>4, <1>5

\* Two buckets that hold the same for a key agree on it.
LEMMA SameValue ==
  ASSUME NEW b \in Bucket, NEW c \in Bucket, Unique(b), Unique(c), NEW k,
         \A v \in Values : Holds(b, k, v) <=> Holds(c, k, v)
  PROVE  ValueIn(b, k) = ValueIn(c, k)
<1>1. CASE HasKey(b, k)
  <2>1. ValueIn(b, k) \in Values /\ Holds(b, k, ValueIn(b, k))
    BY <1>1, ValueFacts
  <2>2. Holds(c, k, ValueIn(b, k))
    BY <2>1
  <2>3. PICK v : v = ValueIn(b, k)
    OBVIOUS
  <2> QED
    BY <2>2, <2>3, ValueOf
<1>2. CASE HasKey(c, k)
  <2>1. ValueIn(c, k) \in Values /\ Holds(c, k, ValueIn(c, k))
    BY <1>2, ValueFacts
  <2>2. Holds(b, k, ValueIn(c, k))
    BY <2>1
  <2>3. PICK v : v = ValueIn(c, k)
    OBVIOUS
  <2> QED
    BY <2>2, <2>3, ValueOf
<1>3. CASE ~HasKey(b, k) /\ ~HasKey(c, k)
  <2>1. ValueIn(b, k) = None /\ ValueIn(c, k) = None
    BY <1>3, ValueFacts
  <2> QED
    BY <2>1
<1> QED
  BY <1>1, <1>2, <1>3

-----------------------------------------------------------------------------
(* What the operations do to a bucket *)

LEMMA EmptyBucket ==
  /\ <<>> \in Bucket /\ Len(<<>>) = 0 /\ Unique(<<>>)
  /\ \A k : ~HasKey(<<>>, k) /\ ValueIn(<<>>, k) = None
<1>1. <<>> \in Bucket /\ Len(<<>>) = 0
  BY EmptySeq DEF Bucket
<1>2. Unique(<<>>) /\ \A k : ~HasKey(<<>>, k)
  BY <1>1 DEF Unique, HasKey
<1> QED
  BY <1>1, <1>2, ValueFacts

LEMMA AppendedBucket ==
  ASSUME NEW b \in Bucket, Unique(b), NEW e \in Entries, ~HasKey(b, e.key)
  PROVE  /\ Append(b, e) \in Bucket /\ Unique(Append(b, e)) /\ Len(Append(b, e)) = Len(b) + 1
         /\ Append(b, e)[Len(b) + 1] = e
         /\ \A i \in 1 .. Len(b) : Append(b, e)[i] = b[i]
         /\ ValueIn(Append(b, e), e.key) = e.value
         /\ \A k : k # e.key => ValueIn(Append(b, e), k) = ValueIn(b, k)
<1>1. PICK c : c = Append(b, e)
  OBVIOUS
<1>2. Len(b) \in Nat
  BY EntryFacts
<1>3. /\ c \in Bucket /\ Len(c) = Len(b) + 1
      /\ c[Len(b) + 1] = e
      /\ \A i \in 1 .. Len(b) : c[i] = b[i]
  <2>1. b \in Seq(Entries)
    BY DEF Bucket
  <2>2. /\ c \in Seq(Entries) /\ Len(c) = Len(b) + 1
        /\ \A i \in 1 .. Len(b) : c[i] = b[i]
        /\ c[Len(b) + 1] = e
    BY <1>1, <2>1, AppendProperties
  <2> QED
    BY <2>2 DEF Bucket
<1>4. Unique(c)
  <2> SUFFICES ASSUME NEW i \in 1 .. Len(c), NEW j \in 1 .. Len(c), c[i].key = c[j].key PROVE i = j
    BY DEF Unique
  <2>1. CASE i \in 1 .. Len(b) /\ j \in 1 .. Len(b)
    BY <2>1, <1>3 DEF Unique
  <2>2. CASE i \in 1 .. Len(b) /\ j = Len(b) + 1
    BY <2>2, <1>3 DEF HasKey
  <2>3. CASE i = Len(b) + 1 /\ j \in 1 .. Len(b)
    BY <2>3, <1>3 DEF HasKey
  <2> QED
    BY <1>2, <1>3, <2>1, <2>2, <2>3
<1>5. ValueIn(c, e.key) = e.value
  <2>1. Len(b) + 1 \in 1 .. Len(c)
    BY <1>2, <1>3
  <2>2. Holds(c, e.key, e.value)
    BY <1>3, <2>1 DEF Holds
  <2>3. PICK k, v : k = e.key /\ v = e.value
    OBVIOUS
  <2> QED
    BY <1>3, <1>4, <2>2, <2>3, ValueOf
<1>6. ASSUME NEW k, k # e.key PROVE ValueIn(c, k) = ValueIn(b, k)
  <2>1. ASSUME NEW v \in Values PROVE Holds(c, k, v) <=> Holds(b, k, v)
    <3>1. \A i \in 1 .. Len(b) : i \in 1 .. Len(c) /\ c[i] = b[i]
      BY <1>2, <1>3
    <3>2. \A i \in 1 .. Len(c) : c[i].key = k => i \in 1 .. Len(b)
      BY <1>2, <1>3, <1>6
    <3> QED
      BY <3>1, <3>2 DEF Holds
  <2> QED
    BY <1>3, <1>4, <2>1, SameValue
<1> QED
  BY <1>1, <1>3, <1>4, <1>5, <1>6

LEMMA ReplacedBucket ==
  ASSUME NEW b \in Bucket, Unique(b), NEW pos \in 1 .. Len(b), NEW v \in Values,
         NEW c \in Bucket, Len(c) = Len(b), c[pos].key = b[pos].key, c[pos].value = v,
         \A i \in 1 .. Len(b) : i # pos => c[i] = b[i]
  PROVE  /\ Unique(c)
         /\ \A i \in 1 .. Len(b) : c[i].key = b[i].key
         /\ ValueIn(c, b[pos].key) = v
         /\ \A k : k # b[pos].key => ValueIn(c, k) = ValueIn(b, k)
<1>1. \A i \in 1 .. Len(b) : c[i].key = b[i].key
  OBVIOUS
<1>2. Unique(c)
  BY <1>1 DEF Unique
<1>3. ValueIn(c, b[pos].key) = v
  <2>1. Holds(c, b[pos].key, v)
    BY DEF Holds
  <2>2. PICK k : k = b[pos].key
    OBVIOUS
  <2> QED
    BY <1>2, <2>1, <2>2, ValueOf
<1>4. ASSUME NEW k, k # b[pos].key PROVE ValueIn(c, k) = ValueIn(b, k)
  <2>1. \A i \in 1 .. Len(b) : (c[i].key = k \/ b[i].key = k) => c[i] = b[i]
    BY <1>1, <1>4
  <2>2. \A x \in Values : Holds(c, k, x) <=> Holds(b, k, x)
    BY <2>1 DEF Holds
  <2> QED
    BY <1>2, <2>2, SameValue
<1> QED
  BY <1>1, <1>2, <1>3, <1>4

\* The list without the element at a position.
Skip(pos, i) == IF i < pos THEN i ELSE i + 1

LEMMA SkipFacts ==
  ASSUME NEW n \in Nat, NEW pos \in 1 .. n
  PROVE  /\ \A i \in 1 .. n - 1 : Skip(pos, i) \in 1 .. n /\ Skip(pos, i) # pos
         /\ \A i, j \in 1 .. n - 1 : Skip(pos, i) = Skip(pos, j) => i = j
         /\ \A j \in 1 .. n : j # pos => \E i \in 1 .. n - 1 : Skip(pos, i) = j
<1>1. ASSUME NEW j \in 1 .. n, j # pos PROVE \E i \in 1 .. n - 1 : Skip(pos, i) = j
  <2>1. CASE j < pos
    <3>1. j \in 1 .. n - 1 /\ Skip(pos, j) = j
      BY <2>1 DEF Skip
    <3> QED
      BY <3>1
  <2>2. CASE j > pos
    <3>1. j - 1 \in 1 .. n - 1 /\ Skip(pos, j - 1) = j
      BY <2>2 DEF Skip
    <3> QED
      BY <3>1
  <2> QED
    BY <1>1, <2>1, <2>2
<1>2. \A i \in 1 .. n - 1 : Skip(pos, i) \in 1 .. n /\ Skip(pos, i) # pos
  BY DEF Skip
<1>3. \A i, j \in 1 .. n - 1 : Skip(pos, i) = Skip(pos, j) => i = j
  BY DEF Skip
<1> QED
  BY <1>1, <1>2, <1>3

LEMMA Cut ==
  ASSUME NEW b \in Bucket, NEW pos \in 1 .. Len(b)
  PROVE  LET c == SubSeq(b, 1, pos - 1) \o SubSeq(b, pos + 1, Len(b)) IN
           /\ c \in Bucket /\ Len(c) = Len(b) - 1
           /\ \A i \in 1 .. Len(b) - 1 : c[i] = b[Skip(pos, i)]
<1>1. Len(b) \in Nat /\ \A i \in 1 .. Len(b) : b[i] \in Entries
  BY EntryFacts
<1>2. PICK n : n = Len(b)
  OBVIOUS
<1>3. PICK f : f = SubSeq(b, 1, pos - 1)
  OBVIOUS
<1>4. PICK g : g = SubSeq(b, pos + 1, Len(b))
  OBVIOUS
<1>5. n \in Nat /\ pos \in 1 .. n
  BY <1>1, <1>2
<1>6. f \in Seq(Entries) /\ Len(f) = pos - 1 /\ \A i \in 1 .. pos - 1 : f[i] = b[i]
  <2>1. pos - 1 \in Int /\ 1 \in Int /\ \A i \in 1 .. pos - 1 : b[i] \in Entries
    BY <1>1
  <2>2. /\ f \in Seq(Entries)
        /\ Len(f) = IF 1 <= pos - 1 THEN pos - 1 - 1 + 1 ELSE 0
        /\ \A i \in 1 .. pos - 1 - 1 + 1 : f[i] = b[1 + i - 1]
    BY <1>3, <2>1, SubSeqProperties
  <2>3. \A i \in 1 .. pos - 1 : i \in 1 .. pos - 1 - 1 + 1 /\ 1 + i - 1 = i
    OBVIOUS
  <2>4. \A i \in 1 .. pos - 1 : f[i] = b[i]
    BY <2>2, <2>3
  <2> QED
    BY <2>2, <2>4
<1>7. g \in Seq(Entries) /\ Len(g) = n - pos /\ \A i \in 1 .. n - pos : g[i] = b[pos + i]
  <2>1. pos + 1 \in Int /\ Len(b) \in Int /\ \A i \in pos + 1 .. Len(b) : b[i] \in Entries
    BY <1>1
  <2>2. /\ g \in Seq(Entries)
        /\ Len(g) = IF pos + 1 <= Len(b) THEN Len(b) - (pos + 1) + 1 ELSE 0
        /\ \A i \in 1 .. Len(b) - (pos + 1) + 1 : g[i] = b[(pos + 1) + i - 1]
    BY <1>4, <2>1, SubSeqProperties
  <2>3. \A i \in 1 .. n - pos : i \in 1 .. n - (pos + 1) + 1 /\ (pos + 1) + i - 1 = pos + i
    BY <1>5
  <2>4. \A i \in 1 .. n - pos : g[i] = b[pos + i]
    BY <1>2, <2>2, <2>3
  <2>5. Len(g) = n - pos
    <3>1. Len(g) = IF pos + 1 <= n THEN n - (pos + 1) + 1 ELSE 0
      BY <1>2, <2>2
    <3> QED
      BY <3>1, <1>5
  <2> QED
    BY <2>2, <2>4, <2>5
<1>8. /\ f \o g \in Seq(Entries) /\ Len(f \o g) = Len(f) + Len(g)
      /\ \A i \in 1 .. Len(f) + Len(g) : (f \o g)[i] = IF i <= Len(f) THEN f[i] ELSE g[i - Len(f)]
  BY <1>6, <1>7, ConcatProperties
<1>9. Len(f) + Len(g) = n - 1
  BY <1>5, <1>6, <1>7
<1>10. ASSUME NEW i \in 1 .. n - 1 PROVE (f \o g)[i] = b[Skip(pos, i)]
  <2>1. (f \o g)[i] = IF i <= pos - 1 THEN f[i] ELSE g[i - (pos - 1)]
    BY <1>6, <1>8, <1>9
  <2>2. CASE i < pos
    <3>1. i \in 1 .. pos - 1 /\ i <= pos - 1 /\ Skip(pos, i) = i
      BY <1>5, <2>2 DEF Skip
    <3> QED
      BY <2>1, <3>1, <1>6
  <2>3. CASE ~(i < pos)
    <3>1. /\ i - (pos - 1) \in 1 .. n - pos /\ ~(i <= pos - 1)
          /\ pos + (i - (pos - 1)) = Skip(pos, i)
      BY <1>5, <2>3 DEF Skip
    <3> QED
      BY <2>1, <3>1, <1>7
  <2> QED
    BY <2>2, <2>3
<1>11. f \o g = SubSeq(b, 1, pos - 1) \o SubSeq(b, pos + 1, Len(b))
  BY <1>3, <1>4
<1>12. /\ f \o g \in Bucket /\ Len(f \o g) = Len(b) - 1
       /\ \A i \in 1 .. Len(b) - 1 : (f \o g)[i] = b[Skip(pos, i)]
  BY <1>2, <1>8, <1>9, <1>10 DEF Bucket
<1> QED
  BY <1>11, <1>12

LEMMA ShortenedBucket ==
  ASSUME NEW b \in Bucket, Unique(b), NEW pos \in 1 .. Len(b), NEW c \in Bucket,
         Len(c) = Len(b) - 1, \A i \in 1 .. Len(b) - 1 : c[i] = b[Skip(pos, i)]
  PROVE  /\ Unique(c)
         /\ ValueIn(c, b[pos].key) = None
         /\ \A k : k # b[pos].key => ValueIn(c, k) = ValueIn(b, k)
<1>1. PICK n : n = Len(b)
  OBVIOUS
<1>2. n \in Nat /\ pos \in 1 .. n
  BY <1>1, EntryFacts
<1>3. Len(c) = n - 1 /\ \A i \in 1 .. n - 1 : c[i] = b[Skip(pos, i)]
  BY <1>1
<1>4. /\ \A i \in 1 .. n - 1 : Skip(pos, i) \in 1 .. n /\ Skip(pos, i) # pos
      /\ \A i, j \in 1 .. n - 1 : Skip(pos, i) = Skip(pos, j) => i = j
      /\ \A j \in 1 .. n : j # pos => \E i \in 1 .. n - 1 : Skip(pos, i) = j
  BY <1>2, SkipFacts
<1>5. \A i, j \in 1 .. n : b[i].key = b[j].key => i = j
  BY <1>1 DEF Unique
<1>6. Unique(c)
  <2> SUFFICES ASSUME NEW i \in 1 .. n - 1, NEW j \in 1 .. n - 1, c[i].key = c[j].key PROVE i = j
    BY <1>3 DEF Unique
  <2>1. Skip(pos, i) = Skip(pos, j)
    BY <1>3, <1>4, <1>5
  <2> QED
    BY <2>1, <1>4
<1>7. ValueIn(c, b[pos].key) = None
  <2>1. PICK k : k = b[pos].key
    OBVIOUS
  <2>2. ASSUME NEW i \in 1 .. n - 1, c[i].key = k PROVE FALSE
    <3>1. Skip(pos, i) \in 1 .. n /\ b[Skip(pos, i)].key = b[pos].key /\ Skip(pos, i) # pos
      BY <1>3, <1>4, <2>1, <2>2
    <3> QED
      BY <3>1, <1>2, <1>5
  <2>3. ~HasKey(c, k)
    BY <1>3, <2>2 DEF HasKey
  <2> QED
    BY <2>1, <2>3, ValueFacts
<1>8. ASSUME NEW k, k # b[pos].key PROVE ValueIn(c, k) = ValueIn(b, k)
  <2>1. ASSUME NEW v \in Values PROVE Holds(c, k, v) <=> Holds(b, k, v)
    <3>1. Holds(c, k, v) <=> \E i \in 1 .. n - 1 : b[Skip(pos, i)].key = k /\ b[Skip(pos, i)].value = v
      BY <1>3 DEF Holds
    <3>2. Holds(b, k, v) <=> \E j \in 1 .. n : b[j].key = k /\ b[j].value = v
      BY <1>1 DEF Holds
    <3>3. ASSUME NEW j \in 1 .. n, b[j].key = k, b[j].value = v
          PROVE  \E i \in 1 .. n - 1 : b[Skip(pos, i)].key = k /\ b[Skip(pos, i)].value = v
      <4>1. j # pos
        BY <1>8, <3>3
      <4>2. PICK i \in 1 .. n - 1 : Skip(pos, i) = j
        BY <4>1, <1>4
      <4> QED
        BY <4>2, <3>3
    <3> QED
      BY <3>1, <3>2, <3>3, <1>4
  <2> QED
    BY <1>6, <2>1, SameValue
<1> QED
  BY <1>6, <1>7, <1>8

-----------------------------------------------------------------------------
(* Tables *)

Tables ==
  UNION {[buckets : [0 .. c - 1 -> Bucket], len : Nat, capacity : {c}] : c \in Nat \ {0}}

PresentIn(t) == {k \in Keys : Lookup(t, k) # None}

\* What every operation keeps: entries in the bucket of their hash, no key twice,
\* len the number of keys.
Good(t) ==
  /\ t \in Tables
  /\ \A i \in 0 .. t.capacity - 1 :
       /\ Unique(t.buckets[i])
       /\ \A j \in 1 .. Len(t.buckets[i]) : BucketIndex(t.buckets[i][j].key, t.capacity) = i
  /\ IsFiniteSet(PresentIn(t)) /\ t.len = Cardinality(PresentIn(t))

Maps == {t \in Tables : Good(t) /\ ~Crowded(t)}

LEMMA TableForm ==
  ASSUME NEW t \in Tables
  PROVE  /\ t = [buckets |-> t.buckets, len |-> t.len, capacity |-> t.capacity]
         /\ t.buckets \in [0 .. t.capacity - 1 -> Bucket]
         /\ t.len \in Nat /\ t.capacity \in Nat \ {0}
<1>1. PICK c \in Nat \ {0} : t \in [buckets : [0 .. c - 1 -> Bucket], len : Nat, capacity : {c}]
  BY DEF Tables
<1>2. t.capacity = c
  BY <1>1
<1> QED
  BY <1>1, <1>2

LEMMA TableOf ==
  ASSUME NEW c \in Nat \ {0}, NEW f \in [0 .. c - 1 -> Bucket], NEW n \in Nat
  PROVE  [buckets |-> f, len |-> n, capacity |-> c] \in Tables
<1>1. [buckets |-> f, len |-> n, capacity |-> c]
        \in [buckets : [0 .. c - 1 -> Bucket], len : Nat, capacity : {c}]
  OBVIOUS
<1> QED
  BY <1>1 DEF Tables

LEMMA Index ==
  ASSUME NEW k \in Keys, NEW c \in Nat \ {0}
  PROVE  BucketIndex(k, c) \in 0 .. c - 1
<1>1. PICK h : h = Hash[k]
  OBVIOUS
<1>2. h \in Nat
  BY <1>1, HashTableAssumption
<1>3. h % c \in 0 .. c - 1
  BY <1>2, Division
<1> QED
  BY <1>1, <1>3 DEF BucketIndex

LEMMA LookupIs ==
  ASSUME NEW t, NEW k
  PROVE  Lookup(t, k) = ValueIn(t.buckets[BucketIndex(k, t.capacity)], k)
BY DEF Lookup, ValueIn, BucketOf

\* A key of a good table is in its bucket, with its value; an entry is found by its key.
LEMMA GoodFacts ==
  ASSUME NEW t, Good(t), NEW k \in Keys
  PROVE  LET b == t.buckets[BucketIndex(k, t.capacity)] IN
           /\ BucketIndex(k, t.capacity) \in 0 .. t.capacity - 1
           /\ b \in Bucket /\ Unique(b)
           /\ Lookup(t, k) = ValueIn(b, k) /\ Lookup(t, k) \in Values \cup {None}
           /\ Lookup(t, k) # None <=> HasKey(b, k)
<1>1. PICK i : i = BucketIndex(k, t.capacity)
  OBVIOUS
<1>2. t \in Tables /\ t.buckets \in [0 .. t.capacity - 1 -> Bucket] /\ t.capacity \in Nat \ {0}
  BY TableForm DEF Good
<1>3. i \in 0 .. t.capacity - 1
  BY <1>1, <1>2, Index
<1>4. t.buckets[i] \in Bucket /\ Unique(t.buckets[i])
  BY <1>2, <1>3 DEF Good
<1>5. Lookup(t, k) = ValueIn(t.buckets[i], k)
  BY <1>1, LookupIs
<1>6. PICK b : b = t.buckets[i]
  OBVIOUS
<1>7. ValueIn(b, k) \in Values \cup {None} /\ (ValueIn(b, k) # None <=> HasKey(b, k))
  BY <1>4, <1>6, ValueFacts
<1> QED
  BY <1>1, <1>3, <1>4, <1>5, <1>6, <1>7

\* u is t with c for the bucket of k, and differs in k only.
BucketOfChanged(t, k, u, c) ==
  /\ u \in Tables /\ u.capacity = t.capacity
  /\ \A j \in 0 .. t.capacity - 1 : j # BucketIndex(k, t.capacity) => u.buckets[j] = t.buckets[j]
  /\ c \in Bucket /\ c = u.buckets[BucketIndex(k, t.capacity)] /\ Unique(c)
  /\ \A j \in 1 .. Len(c) : BucketIndex(c[j].key, t.capacity) = BucketIndex(k, t.capacity)
  /\ \A x : x # k => ValueIn(c, x) = ValueIn(t.buckets[BucketIndex(k, t.capacity)], x)
  /\ ValueIn(c, k) = None => u.len = Cardinality(PresentIn(t) \ {k})
  /\ ValueIn(c, k) # None => u.len = Cardinality(PresentIn(t) \cup {k})

LEMMA BucketChanged ==
  ASSUME NEW t, Good(t), NEW k \in Keys, NEW u, NEW c, BucketOfChanged(t, k, u, c)
  PROVE  /\ Good(u)
         /\ \A x \in Keys : Lookup(u, x) = IF x = k THEN ValueIn(c, k) ELSE Lookup(t, x)
<1> USE DEF BucketOfChanged
<1>1. PICK i : i = BucketIndex(k, t.capacity)
  OBVIOUS
<1>2. PICK cap, f, g : cap = t.capacity /\ f = t.buckets /\ g = u.buckets
  OBVIOUS
<1>3. cap \in Nat \ {0} /\ i \in 0 .. cap - 1
  <2>1. t \in Tables
    BY DEF Good
  <2>2. cap \in Nat \ {0}
    BY <1>2, <2>1, TableForm
  <2> QED
    BY <1>1, <1>2, <2>2, Index
<1>4. /\ g[i] = c /\ \A j \in 0 .. cap - 1 : j # i => g[j] = f[j]
      /\ u.buckets = g /\ u.capacity = cap
  BY <1>1, <1>2
<1>5. ASSUME NEW x \in Keys
      PROVE  Lookup(u, x) = IF x = k THEN ValueIn(c, k) ELSE Lookup(t, x)
  <2>1. PICK y : y = BucketIndex(x, cap)
    OBVIOUS
  <2>2. y \in 0 .. cap - 1
    BY <2>1, <1>3, Index
  <2>3. Lookup(u, x) = ValueIn(g[y], x) /\ Lookup(t, x) = ValueIn(f[y], x)
    BY <1>2, <1>4, <2>1, LookupIs
  <2>4. CASE x = k
    BY <1>1, <1>2, <1>4, <2>1, <2>3, <2>4
  <2>5. CASE x # k /\ y = i
    <3>1. ValueIn(c, x) = ValueIn(f[i], x)
      BY <1>1, <1>2, <2>5
    <3> QED
      BY <1>4, <2>3, <2>5, <3>1
  <2>6. CASE x # k /\ y # i
    BY <1>4, <2>2, <2>3, <2>6
  <2> QED
    BY <2>4, <2>5, <2>6
<1>6. IsFiniteSet(PresentIn(u)) /\ u.len = Cardinality(PresentIn(u))
  <2>1. IsFiniteSet(PresentIn(t))
    BY DEF Good
  <2>2. PICK p : p = PresentIn(t)
    OBVIOUS
  <2>3. IsFiniteSet(p \ {k}) /\ IsFiniteSet(p \cup {k})
    BY <2>1, <2>2, FS_RemoveElement, FS_AddElement
  <2>4. CASE ValueIn(c, k) = None
    <3>1. PresentIn(u) = p \ {k}
      BY <1>5, <2>2, <2>4 DEF PresentIn
    <3> QED
      BY <2>2, <2>3, <2>4, <3>1
  <2>5. CASE ValueIn(c, k) # None
    <3>1. PresentIn(u) = p \cup {k}
      BY <1>5, <2>2, <2>5 DEF PresentIn
    <3> QED
      BY <2>2, <2>3, <2>5, <3>1
  <2> QED
    BY <2>4, <2>5
<1>7. ASSUME NEW m \in 0 .. cap - 1
      PROVE  Unique(g[m]) /\ \A j \in 1 .. Len(g[m]) : BucketIndex(g[m][j].key, cap) = m
  <2>1. CASE m = i
    BY <1>1, <1>2, <1>4, <2>1
  <2>2. CASE m # i
    BY <1>2, <1>4, <2>2 DEF Good
  <2> QED
    BY <2>1, <2>2
<1>8. Good(u)
  BY <1>4, <1>6, <1>7 DEF Good
<1> QED
  BY <1>5, <1>8

LEMMA KeyHome ==
  ASSUME NEW t, Good(t), NEW k \in Keys,
         NEW j \in 1 .. Len(t.buckets[BucketIndex(k, t.capacity)])
  PROVE  LET e == t.buckets[BucketIndex(k, t.capacity)][j] IN
           e.key \in Keys /\ e.value \in Values
             /\ BucketIndex(e.key, t.capacity) = BucketIndex(k, t.capacity)
<1>1. PICK i : i = BucketIndex(k, t.capacity)
  OBVIOUS
<1>2. PICK b : b = t.buckets[i]
  OBVIOUS
<1>3. i \in 0 .. t.capacity - 1 /\ b \in Bucket
  BY <1>1, <1>2, GoodFacts
<1>4. j \in 1 .. Len(b)
  BY <1>1, <1>2
<1>5. b[j].key \in Keys /\ b[j].value \in Values
  BY <1>3, <1>4, EntryFacts
<1>6. BucketIndex(b[j].key, t.capacity) = i
  BY <1>2, <1>3, <1>4 DEF Good
<1> QED
  BY <1>1, <1>2, <1>5, <1>6

\* A table with another bucket in one place.
LEMMA WithBucket ==
  ASSUME NEW t \in Tables, NEW i \in 0 .. t.capacity - 1, NEW c \in Bucket, NEW n \in Nat
  PROVE  LET u == [buckets |-> [t.buckets EXCEPT ![i] = c], len |-> n, capacity |-> t.capacity] IN
           /\ u \in Tables /\ u.capacity = t.capacity /\ u.len = n /\ u.buckets[i] = c
           /\ \A j \in 0 .. t.capacity - 1 : j # i => u.buckets[j] = t.buckets[j]
<1>1. PICK cap, f : cap = t.capacity /\ f = t.buckets
  OBVIOUS
<1>2. cap \in Nat \ {0} /\ f \in [0 .. cap - 1 -> Bucket] /\ i \in 0 .. cap - 1
  BY <1>1, TableForm
<1>3. PICK g : g = [f EXCEPT ![i] = c]
  OBVIOUS
<1>4. /\ g \in [0 .. cap - 1 -> Bucket] /\ g[i] = c
      /\ \A j \in 0 .. cap - 1 : j # i => g[j] = f[j]
  BY <1>2, <1>3
<1>5. [buckets |-> g, len |-> n, capacity |-> cap] \in Tables
  BY <1>2, <1>4, TableOf
<1> QED
  BY <1>1, <1>3, <1>4, <1>5

LEMMA ReplaceCorrect ==
  ASSUME NEW t, Good(t), NEW k \in Keys, NEW v \in Values, Lookup(t, k) # None
  PROVE  LET u == Replace(t, k, FindInBucket(BucketOf(t, k), k), v) IN
           /\ Good(u) /\ u.len = t.len /\ u.capacity = t.capacity
           /\ \A x \in Keys : Lookup(u, x) = IF x = k THEN v ELSE Lookup(t, x)
<1>1. PICK i : i = BucketIndex(k, t.capacity)
  OBVIOUS
<1>2. PICK b : b = t.buckets[i]
  OBVIOUS
<1>3. b \in Bucket /\ Unique(b) /\ HasKey(b, k) /\ i \in 0 .. t.capacity - 1
  BY <1>1, <1>2, GoodFacts
<1>4. PICK pos : pos = FindInBucket(b, k)
  OBVIOUS
<1>5. pos \in 1 .. Len(b) /\ b[pos].key = k /\ FindInBucket(BucketOf(t, k), k) = pos
  BY <1>1, <1>2, <1>3, <1>4, Found DEF BucketOf
<1>6. PICK e : e = [b[pos] EXCEPT !.value = v]
  OBVIOUS
<1>7. e \in Entries /\ e.key = k /\ e.value = v
  <2>1. b[pos] \in Entries
    BY <1>3, <1>5, EntryFacts
  <2> QED
    BY <2>1, <1>5, <1>6 DEF Entries
<1>8. PICK c : c = [b EXCEPT ![pos] = e]
  OBVIOUS
<1>9. c \in Bucket /\ Len(c) = Len(b) /\ \A j \in 1 .. Len(b) : c[j] = IF j = pos THEN e ELSE b[j]
  <2>1. b \in Seq(Entries)
    BY <1>3 DEF Bucket
  <2>2. /\ c \in Seq(Entries) /\ Len(c) = Len(b)
        /\ \A j \in 1 .. Len(b) : c[j] = IF j = pos THEN e ELSE b[j]
    BY <1>5, <1>7, <1>8, <2>1, ExceptSeq
  <2> QED
    BY <2>2 DEF Bucket
<1>10. /\ Unique(c)
       /\ \A j \in 1 .. Len(b) : c[j].key = b[j].key
       /\ ValueIn(c, k) = v
       /\ \A x : x # k => ValueIn(c, x) = ValueIn(b, x)
  <2>1. c[pos].key = b[pos].key /\ c[pos].value = v /\ \A j \in 1 .. Len(b) : j # pos => c[j] = b[j]
    BY <1>5, <1>7, <1>9
  <2>2. /\ Unique(c)
        /\ \A j \in 1 .. Len(b) : c[j].key = b[j].key
        /\ ValueIn(c, b[pos].key) = v
        /\ \A x : x # b[pos].key => ValueIn(c, x) = ValueIn(b, x)
    BY <1>3, <1>5, <1>9, <2>1, ReplacedBucket
  <2> QED
    BY <2>2, <1>5
<1>11. PICK u : u = Replace(t, k, pos, v)
  OBVIOUS
<1>12. u = [buckets |-> [t.buckets EXCEPT ![i] = c], len |-> t.len, capacity |-> t.capacity]
  <2>1. t = [buckets |-> t.buckets, len |-> t.len, capacity |-> t.capacity]
    BY TableForm DEF Good
  <2>2. u = [t EXCEPT !.buckets[i][pos].value = v]
    BY <1>1, <1>11 DEF Replace
  <2>3. u = [t EXCEPT !.buckets = [t.buckets EXCEPT ![i] = c]]
    BY <1>2, <1>6, <1>8, <2>2
  <2> QED
    BY <2>1, <2>3
<1>13. t \in Tables /\ t.len \in Nat
  BY TableForm DEF Good
<1>14. /\ u \in Tables /\ u.capacity = t.capacity /\ u.len = t.len /\ u.buckets[i] = c
       /\ \A j \in 0 .. t.capacity - 1 : j # i => u.buckets[j] = t.buckets[j]
  BY <1>3, <1>9, <1>12, <1>13, WithBucket
<1>15. \A j \in 1 .. Len(c) : BucketIndex(c[j].key, t.capacity) = i
  <2> SUFFICES ASSUME NEW j \in 1 .. Len(b)
               PROVE  BucketIndex(b[j].key, t.capacity) = i
    BY <1>9, <1>10
  <2> QED
    BY <1>1, <1>2, KeyHome
<1>16. u.len = Cardinality(PresentIn(t) \cup {k})
  <2>1. k \in PresentIn(t)
    BY DEF PresentIn
  <2>2. PresentIn(t) \cup {k} = PresentIn(t)
    BY <2>1
  <2> QED
    BY <2>2, <1>14 DEF Good
<1>17. ValueIn(c, k) # None
  BY <1>10, HashTableAssumption
<1>18. /\ Good(u)
       /\ \A x \in Keys : Lookup(u, x) = IF x = k THEN ValueIn(c, k) ELSE Lookup(t, x)
  <2>1. \A x : x # k => ValueIn(c, x) = ValueIn(t.buckets[i], x)
    BY <1>2, <1>10
  <2>2. BucketOfChanged(t, k, u, c)
    BY <2>1, <1>1, <1>9, <1>10, <1>14, <1>15, <1>16, <1>17 DEF BucketOfChanged
  <2> QED
    BY <2>2, BucketChanged
<1> QED
  BY <1>5, <1>10, <1>11, <1>14, <1>18

LEMMA RemoveCorrect ==
  ASSUME NEW t, Good(t), NEW k \in Keys
  PROVE  LET u == RemoveFrom(t, k) IN
           /\ Good(u) /\ u.len <= t.len /\ u.capacity = t.capacity
           /\ \A x \in Keys : Lookup(u, x) = IF x = k THEN None ELSE Lookup(t, x)
<1>1. PICK i : i = BucketIndex(k, t.capacity)
  OBVIOUS
<1>2. PICK b : b = t.buckets[i]
  OBVIOUS
<1>3. b \in Bucket /\ Unique(b) /\ (Lookup(t, k) # None <=> HasKey(b, k)) /\ i \in 0 .. t.capacity - 1
  BY <1>1, <1>2, GoodFacts
<1>4. PICK pos : pos = FindInBucket(b, k)
  OBVIOUS
<1>5. FindInBucket(BucketOf(t, k), k) = pos
  BY <1>1, <1>2, <1>4 DEF BucketOf
<1>6. PICK u : u = RemoveFrom(t, k)
  OBVIOUS
<1>7. t \in Tables /\ t.len \in Nat
  BY TableForm DEF Good
<1>8. CASE ~HasKey(b, k)
  <2>1. pos = 0
    BY <1>3, <1>4, <1>8, Found
  <2>2. u = t
    BY <1>5, <1>6, <2>1 DEF RemoveFrom
  <2> QED
    BY <1>3, <1>6, <1>7, <1>8, <2>2
<1>9. CASE HasKey(b, k)
  <2>1. pos \in 1 .. Len(b) /\ b[pos].key = k
    BY <1>3, <1>4, <1>9, Found
  <2>2. PICK c : c = SubSeq(b, 1, pos - 1) \o SubSeq(b, pos + 1, Len(b))
    OBVIOUS
  <2>3. c \in Bucket /\ Len(c) = Len(b) - 1 /\ \A j \in 1 .. Len(b) - 1 : c[j] = b[Skip(pos, j)]
    BY <1>3, <2>1, <2>2, Cut
  <2>4. /\ Unique(c)
        /\ ValueIn(c, k) = None
        /\ \A x : x # k => ValueIn(c, x) = ValueIn(b, x)
    <3>1. /\ Unique(c)
          /\ ValueIn(c, b[pos].key) = None
          /\ \A x : x # b[pos].key => ValueIn(c, x) = ValueIn(b, x)
      BY <1>3, <2>1, <2>3, ShortenedBucket
    <3> QED
      BY <3>1, <2>1
  <2>5. u = [buckets |-> [t.buckets EXCEPT ![i] = c], len |-> t.len - 1, capacity |-> t.capacity]
    <3>1. t = [buckets |-> t.buckets, len |-> t.len, capacity |-> t.capacity]
      BY <1>7, TableForm
    <3>2. pos # 0
      BY <2>1
    <3>3. u = [t EXCEPT !.buckets[i] = SubSeq(@, 1, pos - 1) \o SubSeq(@, pos + 1, Len(@)), !.len = @ - 1]
      BY <1>1, <1>5, <1>6, <3>2 DEF RemoveFrom
    <3>4. u = [t EXCEPT !.buckets = [t.buckets EXCEPT ![i] = c], !.len = @ - 1]
      BY <1>2, <2>2, <3>3
    <3> QED
      BY <3>1, <3>4
  <2>6. k \in PresentIn(t)
    BY <1>3, <1>9 DEF PresentIn
  <2>7. t.len - 1 \in Nat /\ t.len - 1 = Cardinality(PresentIn(t) \ {k})
    <3>1. IsFiniteSet(PresentIn(t)) /\ t.len = Cardinality(PresentIn(t))
      BY DEF Good
    <3>2. PICK p : p = PresentIn(t)
      OBVIOUS
    <3>3. IsFiniteSet(p \ {k}) /\ Cardinality(p \ {k}) = Cardinality(p) - 1
      BY <2>6, <3>1, <3>2, FS_RemoveElement
    <3>4. Cardinality(p \ {k}) \in Nat
      BY <3>3, FS_CardinalityType
    <3> QED
      BY <3>1, <3>2, <3>3, <3>4
  <2>8. /\ u \in Tables /\ u.capacity = t.capacity /\ u.len = t.len - 1 /\ u.buckets[i] = c
        /\ \A j \in 0 .. t.capacity - 1 : j # i => u.buckets[j] = t.buckets[j]
    <3>1. PICK n : n = t.len - 1
      OBVIOUS
    <3> QED
      BY <1>3, <1>7, <2>3, <2>5, <2>7, <3>1, WithBucket
  <2>9. \A j \in 1 .. Len(c) : BucketIndex(c[j].key, t.capacity) = i
    <3> SUFFICES ASSUME NEW j \in 1 .. Len(b) - 1
                 PROVE  BucketIndex(b[Skip(pos, j)].key, t.capacity) = i
      BY <2>3
    <3>1. Len(b) \in Nat
      BY <1>3, EntryFacts
    <3>2. Skip(pos, j) \in 1 .. Len(b)
      BY <2>1, <3>1, SkipFacts
    <3> QED
      BY <1>1, <1>2, <3>2, KeyHome
  <2>10. /\ Good(u)
         /\ \A x \in Keys : Lookup(u, x) = IF x = k THEN ValueIn(c, k) ELSE Lookup(t, x)
    <3>1. \A x : x # k => ValueIn(c, x) = ValueIn(t.buckets[i], x)
      BY <1>2, <2>4
    <3>2. u.len = Cardinality(PresentIn(t) \ {k})
      BY <2>7, <2>8
    <3>3. BucketOfChanged(t, k, u, c)
      BY <1>1, <2>3, <2>4, <2>8, <2>9, <3>1, <3>2 DEF BucketOfChanged
    <3> QED
      BY <3>3, BucketChanged
  <2> QED
    BY <1>6, <1>7, <2>4, <2>8, <2>10
<1> QED
  BY <1>8, <1>9

-----------------------------------------------------------------------------
(* Growing *)

\* What the loop over an old bucket has pushed on the bucket of an index after n pops:
\* the entries of the n last places whose index it is.
Moved(old, cap, j, n, c) ==
  /\ c \in Bucket /\ Unique(c)
  /\ \A i \in 1 .. Len(c) : BucketIndex(c[i].key, cap) = j
       /\ \E m \in Len(old) + 1 - n .. Len(old) : c[i] = old[m]
  /\ \A m \in Len(old) + 1 - n .. Len(old) :
       BucketIndex(old[m].key, cap) = j => \E i \in 1 .. Len(c) : c[i] = old[m]

\* The n-th of these pops.
Pushed(old, cap, j, n, c) ==
  LET e == old[Len(old) + 1 - n] IN IF BucketIndex(e.key, cap) = j THEN Append(c, e) ELSE c

LEMMA PoppedTrace ==
  ASSUME NEW old \in Bucket, NEW cap, NEW j
  PROVE  /\ Popped(old, cap, j)[0] = <<>>
         /\ \A n \in 1 .. Len(old) :
              Popped(old, cap, j)[n] = Pushed(old, cap, j, n, Popped(old, cap, j)[n - 1])
<1>1. PICK N : N = Len(old)
  OBVIOUS
<1>2. N \in Nat /\ \A i \in 1 .. N : old[i] \in Entries
  BY <1>1, EntryFacts
<1> DEFINE Step(n, c) == Pushed(old, cap, j, n, c)
           F == [n \in 1 .. N |-> [c \in Bucket |-> Step(n, c)]]
<1>3. ASSUME NEW n \in 1 .. N, NEW c \in Bucket PROVE Step(n, c) \in Bucket
  <2>1. old[Len(old) + 1 - n] \in Entries
    BY <1>1, <1>2
  <2>2. Append(c, old[Len(old) + 1 - n]) \in Bucket
    BY <2>1, AppendProperties DEF Bucket
  <2> QED
    BY <2>2 DEF Pushed
<1> HIDE DEF Step
<1>4. F \in [1 .. N -> [Bucket -> Bucket]]
  BY <1>3
<1>5. PICK f : f = F
  OBVIOUS
<1>6. PICK g \in [0 .. N -> Bucket] : g[0] = <<>> /\ \A n \in 1 .. N : g[n] = f[n][g[n - 1]]
  <2>1. f \in [1 .. N -> [Bucket -> Bucket]]
    BY <1>4, <1>5
  <2>2. PICK B, empty : B = Bucket /\ empty = <<>>
    OBVIOUS
  <2>3. f \in [1 .. N -> [B -> B]] /\ N \in Nat /\ empty \in B
    BY <1>2, <2>1, <2>2, EmptyBucket
  <2>4. \E g \in [0 .. N -> B] : g[0] = empty /\ \A n \in 1 .. N : g[n] = f[n][g[n - 1]]
    BY <2>3, Iterate
  <2> QED
    BY <2>2, <2>4
<1>7. \A n \in 1 .. N : g[n] = Step(n, g[n - 1])
  <2> TAKE n \in 1 .. N
  <2>1. n - 1 \in 0 .. N
    BY <1>2
  <2>2. g[n - 1] \in Bucket
    BY <2>1
  <2>3. f[n][g[n - 1]] = Step(n, g[n - 1])
    BY <1>5, <2>2
  <2> QED
    BY <1>6, <2>3
<1> DEFINE Body(h) == [n \in 0 .. N |-> IF n = 0 THEN <<>> ELSE Step(n, h[n - 1])]
<1>8. g = Body(g)
  <2>1. \A n \in 0 .. N : g[n] = Body(g)[n]
    BY <1>2, <1>6, <1>7
  <2>2. g = [n \in 0 .. N |-> g[n]]
    BY <1>6
  <2> QED
    BY <2>1, <2>2
<1>9. Popped(old, cap, j) = CHOOSE h : h = Body(h)
  BY <1>1 DEF Popped, Step, Pushed
<1> HIDE DEF Body
<1>10. PICK h : h = Popped(old, cap, j)
  OBVIOUS
<1>11. h = Body(h)
  BY <1>8, <1>9, <1>10
<1>12. h[0] = <<>> /\ \A n \in 1 .. N : h[n] = Step(n, h[n - 1])
  BY <1>2, <1>11 DEF Body
<1> QED
  BY <1>1, <1>10, <1>12 DEF Step

LEMMA MovedStep ==
  ASSUME NEW old \in Bucket, Unique(old), NEW cap, NEW j, NEW n \in 1 .. Len(old), NEW c,
         Moved(old, cap, j, n - 1, c)
  PROVE  Moved(old, cap, j, n, Pushed(old, cap, j, n, c))
<1>1. PICK N : N = Len(old)
  OBVIOUS
<1>2. N \in Nat /\ n \in 1 .. N /\ \A i \in 1 .. N : old[i] \in Entries
  BY <1>1, EntryFacts
<1>3. PICK p : p = N + 1 - n
  OBVIOUS
<1>4. p \in 1 .. N /\ N + 1 - (n - 1) = p + 1 /\ p .. N = {p} \cup (p + 1 .. N) /\ p + 1 .. N \subseteq 1 .. N
  BY <1>2, <1>3
<1>14. PICK e : e = old[p]
  OBVIOUS
<1>5. e = old[p] /\ e \in Entries
  BY <1>2, <1>4, <1>14
<1>15. Pushed(old, cap, j, n, c) = IF BucketIndex(e.key, cap) = j THEN Append(c, e) ELSE c
  BY <1>1, <1>3, <1>5 DEF Pushed
<1>6. /\ c \in Bucket /\ Unique(c)
      /\ \A i \in 1 .. Len(c) : BucketIndex(c[i].key, cap) = j /\ \E m \in p + 1 .. N : c[i] = old[m]
      /\ \A m \in p + 1 .. N : BucketIndex(old[m].key, cap) = j => \E i \in 1 .. Len(c) : c[i] = old[m]
  BY <1>1, <1>4 DEF Moved
<1>7. CASE BucketIndex(e.key, cap) # j
  <2>1. /\ \A i \in 1 .. Len(c) : BucketIndex(c[i].key, cap) = j /\ \E m \in p .. N : c[i] = old[m]
        /\ \A m \in p .. N : BucketIndex(old[m].key, cap) = j => \E i \in 1 .. Len(c) : c[i] = old[m]
    BY <1>4, <1>5, <1>6, <1>7
  <2> QED
    BY <1>1, <1>3, <1>6, <1>7, <1>15, <2>1 DEF Moved
<1>8. CASE BucketIndex(e.key, cap) = j
  <2>1. PICK d : d = Append(c, e)
    OBVIOUS
  <2>2. ~HasKey(c, e.key)
    <3> SUFFICES ASSUME NEW i \in 1 .. Len(c), c[i].key = e.key PROVE FALSE
      BY DEF HasKey
    <3>1. PICK m \in p + 1 .. N : c[i] = old[m]
      BY <1>6
    <3>2. m = p
      BY <1>1, <1>4, <1>5, <3>1 DEF Unique
    <3> QED
      BY <1>4, <3>2
  <2>3. /\ d \in Bucket /\ Unique(d) /\ Len(d) = Len(c) + 1 /\ d[Len(c) + 1] = e
        /\ \A i \in 1 .. Len(c) : d[i] = c[i]
    BY <1>5, <1>6, <2>1, <2>2, AppendedBucket
  <2>4. Len(c) \in Nat
    BY <1>6, EntryFacts
  <2>5. ASSUME NEW i \in 1 .. Len(d)
        PROVE  BucketIndex(d[i].key, cap) = j /\ \E m \in p .. N : d[i] = old[m]
    <3>1. CASE i \in 1 .. Len(c)
      <4>1. d[i] = c[i] /\ BucketIndex(c[i].key, cap) = j
        BY <1>6, <2>3, <3>1
      <4>2. PICK m \in p + 1 .. N : c[i] = old[m]
        BY <1>6, <3>1
      <4>3. m \in p .. N
        BY <1>4
      <4> QED
        BY <4>1, <4>2, <4>3
    <3>2. CASE i = Len(c) + 1
      BY <1>4, <1>5, <1>8, <2>3, <3>2
    <3> QED
      BY <2>3, <2>4, <3>1, <3>2
  <2>6. ASSUME NEW m \in p .. N, BucketIndex(old[m].key, cap) = j
        PROVE  \E i \in 1 .. Len(d) : d[i] = old[m]
    <3>1. CASE m = p
      <4>1. Len(c) + 1 \in 1 .. Len(d)
        BY <2>3, <2>4
      <4> QED
        BY <1>5, <2>3, <3>1, <4>1
    <3>2. CASE m \in p + 1 .. N
      <4>1. PICK i \in 1 .. Len(c) : c[i] = old[m]
        BY <1>6, <2>6, <3>2
      <4>2. i \in 1 .. Len(d) /\ d[i] = old[m]
        BY <2>3, <2>4, <4>1
      <4> QED
        BY <4>2
    <3> QED
      BY <1>4, <3>1, <3>2
  <2>7. Moved(old, cap, j, n, d)
    BY <1>1, <1>3, <2>3, <2>5, <2>6 DEF Moved
  <2> QED
    BY <1>8, <1>15, <2>1, <2>7
<1> QED
  BY <1>7, <1>8

LEMMA PoppedCorrect ==
  ASSUME NEW old \in Bucket, Unique(old), NEW cap, NEW j
  PROVE  Moved(old, cap, j, Len(old), Popped(old, cap, j)[Len(old)])
<1>1. PICK g : g = Popped(old, cap, j)
  OBVIOUS
<1>2. PICK N : N = Len(old)
  OBVIOUS
<1>3. N \in Nat
  BY <1>2, EntryFacts
<1>4. g[0] = <<>> /\ \A n \in 1 .. N : g[n] = Pushed(old, cap, j, n, g[n - 1])
  BY <1>1, <1>2, PoppedTrace
<1> DEFINE T == {n \in 0 .. N : Moved(old, cap, j, n, g[n])}
<1>5. 0 \in T
  <2>1. Moved(old, cap, j, 0, <<>>)
    <3>1. N + 1 - 0 .. N = {}
      BY <1>3
    <3>2. <<>> \in Bucket /\ 1 .. Len(<<>>) = {} /\ Unique(<<>>)
      BY EmptyBucket
    <3> QED
      BY <1>2, <3>1, <3>2 DEF Moved
  <2>2. 0 \in 0 .. N
    BY <1>3
  <2> QED
    BY <1>4, <2>1, <2>2
<1>6. ASSUME NEW n \in 1 .. N, n - 1 \in T PROVE n \in T
  <2>1. PICK c : c = g[n - 1]
    OBVIOUS
  <2>2. Moved(old, cap, j, n - 1, c) /\ n \in 1 .. Len(old)
    BY <1>2, <1>6, <2>1
  <2>3. Moved(old, cap, j, n, Pushed(old, cap, j, n, c))
    BY <2>2, MovedStep
  <2> QED
    BY <1>3, <1>4, <2>1, <2>3
<1> HIDE DEF T
<1>7. N \in 0 .. N /\ 0 .. N \subseteq T
  BY <1>3, <1>5, <1>6, CountUp
<1>8. N \in T
  BY <1>7
<1> QED
  BY <1>1, <1>2, <1>8 DEF T

\* A table of twice the size has the same keys with the same values.
LEMMA GrowCorrect ==
  ASSUME NEW t, Good(t)
  PROVE  LET u == Grow(t) IN
           /\ Good(u) /\ u.len = t.len /\ u.capacity = 2 * t.capacity
           /\ \A x \in Keys : Lookup(u, x) = Lookup(t, x)
<1>1. PICK c, f : c = t.capacity /\ f = t.buckets
  OBVIOUS
<1>2. PICK d : d = 2 * c
  OBVIOUS
<1>3. t \in Tables
  BY DEF Good
<1>4. c \in Nat \ {0} /\ d \in Nat \ {0} /\ f \in [0 .. c - 1 -> Bucket] /\ t.len \in Nat
  <2>1. c \in Nat \ {0} /\ f \in [0 .. c - 1 -> Bucket] /\ t.len \in Nat
    BY <1>1, <1>3, TableForm
  <2> QED
    BY <1>2, <2>1
<1>5. \A i \in 0 .. c - 1 : /\ f[i] \in Bucket /\ Unique(f[i])
                            /\ \A m \in 1 .. Len(f[i]) : BucketIndex(f[i][m].key, c) = i
  BY <1>1, <1>4 DEF Good
<1>6. PICK g : g = [j \in 0 .. d - 1 |-> Rehashed(t, j)]
  OBVIOUS
<1>7. PICK u : u = Grow(t)
  OBVIOUS
<1>8. u = [buckets |-> g, len |-> t.len, capacity |-> d]
  BY <1>1, <1>2, <1>6, <1>7 DEF Grow
<1>9. ASSUME NEW j \in 0 .. d - 1
      PROVE  j % c \in 0 .. c - 1 /\ Moved(f[j % c], d, j, Len(f[j % c]), g[j])
  <2>1. j \in Nat
    BY <1>4
  <2>2. j % c \in 0 .. c - 1
    BY <1>4, <2>1, Division
  <2>3. PICK old : old = f[j % c]
    OBVIOUS
  <2>4. old \in Bucket /\ Unique(old)
    BY <1>5, <2>2, <2>3
  <2>5. g[j] = Popped(old, d, j)[Len(old)]
    BY <1>1, <1>2, <1>6, <2>3 DEF Rehashed
  <2>6. Moved(old, d, j, Len(old), g[j])
    BY <2>4, <2>5, PoppedCorrect
  <2> QED
    BY <2>2, <2>3, <2>6
<1>10. \A j \in 0 .. d - 1 : /\ g[j] \in Bucket /\ Unique(g[j])
                             /\ \A i \in 1 .. Len(g[j]) : BucketIndex(g[j][i].key, d) = j
  BY <1>9 DEF Moved
<1>11. u \in Tables
  <2>1. g \in [0 .. d - 1 -> Bucket]
    BY <1>6, <1>10
  <2> QED
    BY <1>4, <1>8, <2>1, TableOf
<1>12. ASSUME NEW k \in Keys PROVE Lookup(u, k) = Lookup(t, k)
  <2>1. PICK j : j = BucketIndex(k, d)
    OBVIOUS
  <2>2. PICK i : i = BucketIndex(k, c)
    OBVIOUS
  <2>3. j \in 0 .. d - 1 /\ i \in 0 .. c - 1
    BY <1>4, <2>1, <2>2, Index
  <2>4. j % c = i
    <3>1. PICK h : h = Hash[k]
      OBVIOUS
    <3>2. h \in Nat
      BY <3>1, HashTableAssumption
    <3>3. (h % (2 * c)) % c = h % c
      BY <1>4, <3>2, HalfRemainder
    <3> QED
      BY <1>2, <2>1, <2>2, <3>1, <3>3 DEF BucketIndex
  <2>5. Moved(f[i], d, j, Len(f[i]), g[j])
    BY <1>9, <2>3, <2>4
  <2>6. PICK a : a = f[i]
    OBVIOUS
  <2>7. PICK b : b = g[j]
    OBVIOUS
  <2>8. a \in Bucket /\ b \in Bucket /\ Unique(a) /\ Unique(b)
    BY <1>5, <1>10, <2>3, <2>6, <2>7
  <2>9. /\ \A m \in 1 .. Len(b) : \E n \in 1 .. Len(a) : b[m] = a[n]
        /\ \A n \in 1 .. Len(a) : BucketIndex(a[n].key, d) = j => \E m \in 1 .. Len(b) : b[m] = a[n]
    <3>1. Len(a) \in Nat
      BY <2>8, EntryFacts
    <3>2. Len(a) + 1 - Len(a) = 1
      BY <3>1
    <3>3. Moved(a, d, j, Len(a), b)
      BY <2>5, <2>6, <2>7
    <3> QED
      BY <3>2, <3>3 DEF Moved
  <2>10. ASSUME NEW v \in Values PROVE Holds(b, k, v) <=> Holds(a, k, v)
    <3>1. \A n \in 1 .. Len(a) : a[n].key = k => \E m \in 1 .. Len(b) : b[m] = a[n]
      BY <2>1, <2>9
    <3> QED
      BY <2>9, <3>1 DEF Holds
  <2>11. ValueIn(b, k) = ValueIn(a, k)
    BY <2>8, <2>10, SameValue
  <2>12. Lookup(u, k) = ValueIn(b, k) /\ Lookup(t, k) = ValueIn(a, k)
    BY <1>1, <1>8, <2>1, <2>2, <2>6, <2>7, LookupIs
  <2> QED
    BY <2>11, <2>12
<1>13. PresentIn(u) = PresentIn(t)
  BY <1>12 DEF PresentIn
<1>14. IsFiniteSet(PresentIn(t)) /\ t.len = Cardinality(PresentIn(t))
  BY DEF Good
<1>15. Good(u)
  BY <1>8, <1>10, <1>11, <1>13, <1>14 DEF Good
<1> QED
  BY <1>1, <1>2, <1>7, <1>8, <1>12, <1>15

\* An insert of a key that is not there, before and after the table grows.
LEMMA PushCorrect ==
  ASSUME NEW t \in Maps, NEW k \in Keys, NEW v \in Values, Lookup(t, k) = None
  PROVE  LET u == Push(t, k, v) IN
           /\ u \in Maps
           /\ \A x \in Keys : Lookup(u, x) = IF x = k THEN v ELSE Lookup(t, x)
<1>1. Good(t) /\ ~Crowded(t) /\ t \in Tables
  BY DEF Maps
<1>2. PICK i : i = BucketIndex(k, t.capacity)
  OBVIOUS
<1>3. PICK b : b = t.buckets[i]
  OBVIOUS
<1>4. b \in Bucket /\ Unique(b) /\ ~HasKey(b, k) /\ i \in 0 .. t.capacity - 1
  BY <1>1, <1>2, <1>3, GoodFacts
<1>5. PICK e : e = [key |-> k, value |-> v]
  OBVIOUS
<1>6. e \in Entries /\ e.key = k /\ e.value = v
  BY <1>5 DEF Entries
<1>7. PICK c : c = Append(b, e)
  OBVIOUS
<1>8. /\ c \in Bucket /\ Unique(c) /\ Len(c) = Len(b) + 1 /\ c[Len(b) + 1] = e
      /\ \A j \in 1 .. Len(b) : c[j] = b[j]
      /\ ValueIn(c, k) = v
      /\ \A x : x # k => ValueIn(c, x) = ValueIn(b, x)
  <2>1. ~HasKey(b, e.key)
    BY <1>4, <1>6
  <2>2. /\ c \in Bucket /\ Unique(c) /\ Len(c) = Len(b) + 1 /\ c[Len(b) + 1] = e
        /\ \A j \in 1 .. Len(b) : c[j] = b[j]
        /\ ValueIn(c, e.key) = e.value
        /\ \A x : x # e.key => ValueIn(c, x) = ValueIn(b, x)
    BY <1>4, <1>6, <1>7, <2>1, AppendedBucket
  <2> QED
    BY <2>2, <1>6
<1>9. PICK u : u = [t EXCEPT !.buckets[BucketIndex(k, t.capacity)] = Append(@, [key |-> k, value |-> v]),
                             !.len = @ + 1]
  OBVIOUS
<1>10. u = [buckets |-> [t.buckets EXCEPT ![i] = c], len |-> t.len + 1, capacity |-> t.capacity]
  <2>1. t = [buckets |-> t.buckets, len |-> t.len, capacity |-> t.capacity]
    BY <1>1, TableForm
  <2>2. u = [t EXCEPT !.buckets = [t.buckets EXCEPT ![i] = c], !.len = @ + 1]
    BY <1>2, <1>3, <1>5, <1>7, <1>9
  <2> QED
    BY <2>1, <2>2
<1>11. t.len \in Nat /\ t.len + 1 \in Nat /\ t.capacity \in Nat \ {0}
  BY <1>1, TableForm
<1>12. /\ u \in Tables /\ u.capacity = t.capacity /\ u.len = t.len + 1 /\ u.buckets[i] = c
       /\ \A j \in 0 .. t.capacity - 1 : j # i => u.buckets[j] = t.buckets[j]
  <2>1. PICK n : n = t.len + 1
    OBVIOUS
  <2> QED
    BY <1>1, <1>4, <1>8, <1>10, <1>11, <2>1, WithBucket
<1>13. \A j \in 1 .. Len(c) : BucketIndex(c[j].key, t.capacity) = i
  <2> TAKE j \in 1 .. Len(c)
  <2>1. Len(b) \in Nat
    BY <1>4, EntryFacts
  <2>2. CASE j \in 1 .. Len(b)
    <3>1. BucketIndex(b[j].key, t.capacity) = i
      BY <1>1, <1>2, <1>3, <2>2, KeyHome
    <3> QED
      BY <1>8, <2>2, <3>1
  <2>3. CASE j = Len(b) + 1
    BY <1>2, <1>6, <1>8, <2>3
  <2> QED
    BY <1>8, <2>1, <2>2, <2>3
<1>14. u.len = Cardinality(PresentIn(t) \cup {k})
  <2>1. IsFiniteSet(PresentIn(t)) /\ t.len = Cardinality(PresentIn(t)) /\ k \notin PresentIn(t)
    BY <1>1 DEF Good, PresentIn
  <2>2. PICK p : p = PresentIn(t)
    OBVIOUS
  <2>3. Cardinality(p \cup {k}) = Cardinality(p) + 1
    BY <2>1, <2>2, FS_AddElement
  <2> QED
    BY <1>12, <2>1, <2>2, <2>3
<1>15. ValueIn(c, k) # None
  BY <1>8, HashTableAssumption
<1>16. BucketOfChanged(t, k, u, c)
  BY <1>2, <1>3, <1>8, <1>12, <1>13, <1>14, <1>15 DEF BucketOfChanged
<1>17. /\ Good(u)
       /\ \A x \in Keys : Lookup(u, x) = IF x = k THEN v ELSE Lookup(t, x)
  <2>1. /\ Good(u)
        /\ \A x \in Keys : Lookup(u, x) = IF x = k THEN ValueIn(c, k) ELSE Lookup(t, x)
    BY <1>1, <1>16, BucketChanged
  <2> QED
    BY <1>8, <2>1
<1>18. Push(t, k, v) = IF Crowded(u) THEN Grow(u) ELSE u
  BY <1>9 DEF Push
<1>19. CASE ~Crowded(u)
  <2>1. u \in Maps
    BY <1>12, <1>17, <1>19 DEF Maps
  <2> QED
    BY <1>17, <1>18, <1>19, <2>1
<1>20. CASE Crowded(u)
  <2>1. PICK w : w = Grow(u)
    OBVIOUS
  <2>2. /\ Good(w) /\ w.len = u.len /\ w.capacity = 2 * u.capacity
        /\ \A x \in Keys : Lookup(w, x) = Lookup(u, x)
    BY <1>17, <2>1, GrowCorrect
  <2>3. ~Crowded(w)
    <3>1. w.len = t.len + 1 /\ w.capacity = 2 * t.capacity
      BY <1>12, <2>2
    <3>2. PICK n, m : n = t.len /\ m = t.capacity
      OBVIOUS
    <3>3. n \in Nat /\ m \in Nat \ {0} /\ ~(n * 4 > m * 3)
      BY <1>1, <1>11, <3>2 DEF Crowded
    <3>4. ~((n + 1) * 4 > (2 * m) * 3)
      BY <3>3
    <3> QED
      BY <3>1, <3>2, <3>4 DEF Crowded
  <2>4. w \in Maps
    BY <2>2, <2>3 DEF Maps, Good
  <2> QED
    BY <1>17, <1>18, <1>20, <2>1, <2>2, <2>4
<1> QED
  BY <1>19, <1>20

LEMMA InsertCorrect ==
  ASSUME NEW t \in Maps, NEW k \in Keys, NEW v \in Values
  PROVE  /\ InsertInto(t, k, v) \in Maps
         /\ \A x \in Keys : Lookup(InsertInto(t, k, v), x) = IF x = k THEN v ELSE Lookup(t, x)
<1>1. PICK pos : pos = FindInBucket(BucketOf(t, k), k)
  OBVIOUS
<1>2. Good(t) /\ ~Crowded(t)
  BY DEF Maps
<1>3. Lookup(t, k) = None <=> pos = 0
  <2>1. PICK b : b = t.buckets[BucketIndex(k, t.capacity)]
    OBVIOUS
  <2>2. b \in Bucket /\ (Lookup(t, k) # None <=> HasKey(b, k)) /\ pos = FindInBucket(b, k)
    BY <1>1, <1>2, <2>1, GoodFacts DEF BucketOf
  <2>3. Len(b) \in Nat
    BY <2>2, EntryFacts
  <2>4. IF HasKey(b, k) THEN pos \in 1 .. Len(b) ELSE pos = 0
    BY <2>2, Found
  <2> QED
    BY <2>2, <2>3, <2>4
<1>4. CASE pos = 0
  <2>1. InsertInto(t, k, v) = Push(t, k, v)
    BY <1>1, <1>4 DEF InsertInto
  <2> QED
    BY <1>3, <1>4, <2>1, PushCorrect
<1>5. CASE pos # 0
  <2>1. PICK u : u = Replace(t, k, pos, v)
    OBVIOUS
  <2>2. InsertInto(t, k, v) = u
    BY <1>1, <1>5, <2>1 DEF InsertInto
  <2>3. /\ Good(u) /\ u.len = t.len /\ u.capacity = t.capacity
        /\ \A x \in Keys : Lookup(u, x) = IF x = k THEN v ELSE Lookup(t, x)
    BY <1>1, <1>2, <1>3, <1>5, <2>1, ReplaceCorrect
  <2>4. u \in Maps
    BY <1>2, <2>3 DEF Maps, Crowded, Good
  <2> QED
    BY <2>2, <2>3, <2>4
<1> QED
  BY <1>4, <1>5

-----------------------------------------------------------------------------
(* Empty tables and clones *)

LEMMA EmptyCorrect ==
  ASSUME NEW c \in Nat \ {0}
  PROVE  EmptyTable(c) \in Maps /\ \A k \in Keys : Lookup(EmptyTable(c), k) = None
<1>1. PICK f : f = [i \in 0 .. c - 1 |-> <<>>]
  OBVIOUS
<1>2. PICK t : t = EmptyTable(c)
  OBVIOUS
<1>3. t = [buckets |-> f, len |-> 0, capacity |-> c]
  BY <1>1, <1>2 DEF EmptyTable
<1>4. t \in Tables
  <2>1. f \in [0 .. c - 1 -> Bucket]
    BY <1>1, EmptyBucket
  <2>2. PICK n : n = 0
    OBVIOUS
  <2>3. n \in Nat /\ t = [buckets |-> f, len |-> n, capacity |-> c]
    BY <1>3, <2>2
  <2> QED
    BY <2>1, <2>3, TableOf
<1>5. ASSUME NEW k \in Keys PROVE Lookup(t, k) = None
  <2>1. BucketIndex(k, c) \in 0 .. c - 1
    BY Index
  <2>2. Lookup(t, k) = ValueIn(<<>>, k)
    BY <1>1, <1>3, <2>1, LookupIs
  <2> QED
    BY <2>2, EmptyBucket
<1>6. PresentIn(t) = {}
  BY <1>5 DEF PresentIn
<1>7. IsFiniteSet(PresentIn(t)) /\ t.len = Cardinality(PresentIn(t))
  BY <1>3, <1>6, FS_EmptySet
<1>8. \A i \in 0 .. c - 1 : Unique(f[i]) /\ 1 .. Len(f[i]) = {}
  BY <1>1, EmptyBucket
<1>9. Good(t)
  BY <1>3, <1>4, <1>7, <1>8 DEF Good
<1>10. ~Crowded(t)
  BY <1>3 DEF Crowded
<1> QED
  BY <1>2, <1>4, <1>5, <1>9, <1>10 DEF Maps

LEMMA DoubledTrace ==
  ASSUME NEW n \in Nat
  PROVE  Doubled(n)[0] = 1 /\ \A i \in 1 .. n : Doubled(n)[i] = 2 * Doubled(n)[i - 1]
<1> DEFINE F == [i \in 1 .. n |-> [x \in Nat |-> 2 * x]]
<1>1. PICK f : f = F
  OBVIOUS
<1>2. PICK one : one = 1
  OBVIOUS
<1>3. f \in [1 .. n -> [Nat -> Nat]] /\ one \in Nat
  BY <1>1, <1>2
<1>4. PICK g \in [0 .. n -> Nat] : g[0] = one /\ \A i \in 1 .. n : g[i] = f[i][g[i - 1]]
  <2>1. PICK B : B = Nat
    OBVIOUS
  <2>2. f \in [1 .. n -> [B -> B]] /\ one \in B
    BY <1>3, <2>1
  <2>3. \E g \in [0 .. n -> B] : g[0] = one /\ \A i \in 1 .. n : g[i] = f[i][g[i - 1]]
    BY <2>2, Iterate
  <2> QED
    BY <2>1, <2>3
<1>5. \A i \in 1 .. n : g[i] = 2 * g[i - 1]
  <2> TAKE i \in 1 .. n
  <2>1. i - 1 \in 0 .. n
    OBVIOUS
  <2>2. g[i - 1] \in Nat
    BY <2>1
  <2> QED
    BY <1>1, <1>4, <2>2
<1> DEFINE Body(h) == [i \in 0 .. n |-> IF i = 0 THEN 1 ELSE 2 * h[i - 1]]
<1>6. g = Body(g)
  <2>1. \A i \in 0 .. n : g[i] = Body(g)[i]
    BY <1>2, <1>4, <1>5
  <2>2. g = [i \in 0 .. n |-> g[i]]
    BY <1>4
  <2> QED
    BY <2>1, <2>2
<1>7. Doubled(n) = CHOOSE h : h = Body(h)
  BY DEF Doubled
<1> HIDE DEF Body
<1>8. PICK h : h = Doubled(n)
  OBVIOUS
<1>9. h = Body(h)
  BY <1>6, <1>7, <1>8
<1>10. h[0] = 1 /\ \A i \in 1 .. n : h[i] = 2 * h[i - 1]
  BY <1>9 DEF Body
<1> QED
  BY <1>8, <1>10

LEMMA NextPow2Facts ==
  ASSUME NEW n \in Nat
  PROVE  NextPow2(n) \in Nat \ {0} /\ NextPow2(n) >= n
<1>1. PICK g : g = Doubled(n)
  OBVIOUS
<1>2. g[0] = 1 /\ \A i \in 1 .. n : g[i] = 2 * g[i - 1]
  BY <1>1, DoubledTrace
<1> DEFINE T == {i \in 0 .. n : g[i] \in Nat /\ g[i] >= i + 1}
<1>3. 0 \in T
  BY <1>2
<1>4. \A i \in 1 .. n : i - 1 \in T => i \in T
  <2> TAKE i \in 1 .. n
  <2> HAVE i - 1 \in T
  <2>1. PICK x : x = g[i - 1]
    OBVIOUS
  <2>2. x \in Nat /\ x >= i - 1 + 1 /\ g[i] = 2 * x
    BY <1>2, <2>1
  <2>3. 2 * x \in Nat /\ 2 * x >= i + 1
    BY <2>2
  <2> QED
    BY <2>2, <2>3
<1> HIDE DEF T
<1>5. 0 .. n \subseteq T
  BY <1>3, <1>4, CountUp
<1>6. \A i \in 0 .. n : g[i] \in Nat /\ g[i] >= i + 1
  BY <1>5 DEF T
<1> DEFINE C == {c \in {g[i] : i \in 0 .. n} : c >= n}
<1>7. g[n] \in C
  BY <1>6
<1>8. \A c \in C : c \in Nat \ {0} /\ c >= n
  BY <1>6
<1>9. NextPow2(n) = Min(C)
  BY <1>1 DEF NextPow2
<1> HIDE DEF C
<1>10. C \subseteq Nat /\ C # {}
  BY <1>7, <1>8
<1>11. \E x \in C : \A y \in C : x <= y
  BY <1>10, Least
<1>12. Min(C) \in C
  BY <1>11 DEF Min
<1> QED
  BY <1>8, <1>9, <1>12

LEMMA WithCapacityCorrect ==
  ASSUME NEW n \in Nat
  PROVE  WithCapacity(n) \in Maps /\ \A k \in Keys : Lookup(WithCapacity(n), k) = None
<1>1. PICK s : s = {n, InitialMapCapacity}
  OBVIOUS
<1>2. \E x \in s : \A y \in s : x >= y
  BY <1>1, HashTableAssumption
<1>3. PICK m : m = Max(s)
  OBVIOUS
<1>4. m \in Nat
  BY <1>1, <1>2, <1>3, HashTableAssumption DEF Max
<1>5. PICK c : c = NextPow2(m)
  OBVIOUS
<1>6. c \in Nat \ {0}
  BY <1>4, <1>5, NextPow2Facts
<1>7. WithCapacity(n) = EmptyTable(c)
  BY <1>1, <1>3, <1>5 DEF WithCapacity
<1> QED
  BY <1>6, <1>7, EmptyCorrect

\* The inner loop of clone.
LEMMA CopiedTrace ==
  ASSUME NEW out \in Maps, NEW b \in Bucket
  PROVE  LET g == Copied(out, b) IN
           /\ g[0] = out
           /\ \A n \in 1 .. Len(b) : g[n] = InsertInto(g[n - 1], b[n].key, b[n].value)
<1>1. PICK N : N = Len(b)
  OBVIOUS
<1>2. N \in Nat /\ \A i \in 1 .. N : b[i].key \in Keys /\ b[i].value \in Values
  BY <1>1, EntryFacts
<1> DEFINE Step(n, m) == InsertInto(m, b[n].key, b[n].value)
           F == [n \in 1 .. N |-> [m \in Maps |-> Step(n, m)]]
<1>3. ASSUME NEW n \in 1 .. N, NEW m \in Maps PROVE Step(n, m) \in Maps
  <2>1. PICK k, v : k = b[n].key /\ v = b[n].value
    OBVIOUS
  <2>2. k \in Keys /\ v \in Values
    BY <1>2, <2>1
  <2>3. InsertInto(m, k, v) \in Maps
    BY <2>2, InsertCorrect
  <2> QED
    BY <2>1, <2>3
<1> HIDE DEF Step
<1>4. F \in [1 .. N -> [Maps -> Maps]]
  BY <1>3
<1>5. PICK f : f = F
  OBVIOUS
<1>6. PICK g \in [0 .. N -> Maps] : g[0] = out /\ \A n \in 1 .. N : g[n] = f[n][g[n - 1]]
  <2>1. PICK B : B = Maps
    OBVIOUS
  <2>2. f \in [1 .. N -> [B -> B]] /\ N \in Nat /\ out \in B
    BY <1>2, <1>4, <1>5, <2>1
  <2>3. \E g \in [0 .. N -> B] : g[0] = out /\ \A n \in 1 .. N : g[n] = f[n][g[n - 1]]
    BY <2>2, Iterate
  <2> QED
    BY <2>1, <2>3
<1>7. \A n \in 1 .. N : g[n] = Step(n, g[n - 1])
  <2> TAKE n \in 1 .. N
  <2>1. n - 1 \in 0 .. N
    BY <1>2
  <2>2. g[n - 1] \in Maps
    BY <2>1
  <2>3. f[n][g[n - 1]] = Step(n, g[n - 1])
    BY <1>5, <2>2
  <2> QED
    BY <1>6, <2>3
<1> DEFINE Body(h) == [n \in 0 .. N |-> IF n = 0 THEN out ELSE Step(n, h[n - 1])]
<1>8. g = Body(g)
  <2>1. \A n \in 0 .. N : g[n] = Body(g)[n]
    BY <1>2, <1>6, <1>7
  <2>2. g = [n \in 0 .. N |-> g[n]]
    BY <1>6
  <2> QED
    BY <2>1, <2>2
<1>9. Copied(out, b) = CHOOSE h : h = Body(h)
  BY <1>1 DEF Copied, Step
<1> HIDE DEF Body
<1>10. PICK h : h = Copied(out, b)
  OBVIOUS
<1>11. h = Body(h)
  BY <1>8, <1>9, <1>10
<1>12. h[0] = out /\ \A n \in 1 .. N : h[n] = Step(n, h[n - 1])
  BY <1>2, <1>11 DEF Body
<1> QED
  BY <1>1, <1>10, <1>12 DEF Step

\* It adds the keys of the bucket, with their values.
LEMMA CopiedCorrect ==
  ASSUME NEW out \in Maps, NEW b \in Bucket, Unique(b)
  PROVE  /\ Copied(out, b)[Len(b)] \in Maps
         /\ \A k \in Keys : Lookup(Copied(out, b)[Len(b)], k) =
              IF HasKey(b, k) THEN ValueIn(b, k) ELSE Lookup(out, k)
<1>1. PICK g, N : g = Copied(out, b) /\ N = Len(b)
  OBVIOUS
<1>2. N \in Nat /\ \A i \in 1 .. N : b[i].key \in Keys /\ b[i].value \in Values
  BY <1>1, EntryFacts
<1>3. g[0] = out /\ \A n \in 1 .. N : g[n] = InsertInto(g[n - 1], b[n].key, b[n].value)
  BY <1>1, CopiedTrace
<1> DEFINE Seen(n, k) == \E i \in 1 .. n : b[i].key = k
           T == {n \in 0 .. N :
                   /\ g[n] \in Maps
                   /\ \A k \in Keys : Lookup(g[n], k) =
                        IF Seen(n, k) THEN ValueIn(b, k) ELSE Lookup(out, k)}
<1>4. 0 \in T
  BY <1>2, <1>3
<1>5. \A n \in 1 .. N : n - 1 \in T => n \in T
  <2> TAKE n \in 1 .. N
  <2> HAVE n - 1 \in T
  <2>1. PICK m : m = g[n - 1]
    OBVIOUS
  <2>2. m \in Maps /\ \A k \in Keys : Lookup(m, k) = IF Seen(n - 1, k) THEN ValueIn(b, k) ELSE Lookup(out, k)
    BY <2>1
  <2>3. PICK x, v : x = b[n].key /\ v = b[n].value
    OBVIOUS
  <2>4. x \in Keys /\ v \in Values /\ g[n] = InsertInto(m, x, v)
    BY <1>2, <1>3, <2>1, <2>3
  <2>5. g[n] \in Maps /\ \A k \in Keys : Lookup(g[n], k) = IF k = x THEN v ELSE Lookup(m, k)
    BY <2>2, <2>4, InsertCorrect
  <2>6. ValueIn(b, x) = v
    <3>1. Holds(b, x, v)
      BY <1>1, <2>3 DEF Holds
    <3> QED
      BY <3>1, ValueOf
  <2>7. \A k : Seen(n, k) <=> Seen(n - 1, k) \/ k = x
    <3>1. 1 .. n = (1 .. n - 1) \cup {n}
      BY <1>2
    <3> QED
      BY <2>3, <3>1
  <2> HIDE DEF Seen
  <2>8. \A k \in Keys : Lookup(g[n], k) = IF Seen(n, k) THEN ValueIn(b, k) ELSE Lookup(out, k)
    BY <2>2, <2>5, <2>6, <2>7
  <2>9. n \in 0 .. N
    BY <1>2
  <2> QED
    BY <2>5, <2>8, <2>9
<1> HIDE DEF T
<1>6. 0 .. N \subseteq T
  BY <1>2, <1>4, <1>5, CountUp
<1>7. N \in 0 .. N
  BY <1>2
<1>8. N \in T
  BY <1>6, <1>7
<1>9. /\ g[N] \in Maps
      /\ \A k \in Keys : Lookup(g[N], k) = IF Seen(N, k) THEN ValueIn(b, k) ELSE Lookup(out, k)
  BY <1>8 DEF T
<1>10. \A k : Seen(N, k) <=> HasKey(b, k)
  BY <1>1 DEF HasKey
<1> QED
  BY <1>1, <1>9, <1>10

\* The outer loop of clone.
LEMMA ClonedTrace ==
  ASSUME NEW t, Good(t)
  PROVE  LET g == Cloned(t) IN
           /\ g[0] = WithCapacity(t.capacity)
           /\ \A n \in 1 .. t.capacity :
                g[n] = Copied(g[n - 1], t.buckets[n - 1])[Len(t.buckets[n - 1])]
<1>1. PICK N, f : N = t.capacity /\ f = t.buckets
  OBVIOUS
<1>2. N \in Nat /\ \A i \in 0 .. N - 1 : f[i] \in Bucket /\ Unique(f[i])
  <2>1. t \in Tables
    BY DEF Good
  <2>2. N \in Nat /\ f \in [0 .. N - 1 -> Bucket]
    BY <1>1, <2>1, TableForm
  <2> QED
    BY <1>1, <2>2 DEF Good
<1> DEFINE Step(n, m) == Copied(m, f[n - 1])[Len(f[n - 1])]
           F == [n \in 1 .. N |-> [m \in Maps |-> Step(n, m)]]
<1>3. ASSUME NEW n \in 1 .. N, NEW m \in Maps PROVE Step(n, m) \in Maps
  <2>1. n - 1 \in 0 .. N - 1
    BY <1>2
  <2>2. PICK b : b = f[n - 1]
    OBVIOUS
  <2>3. b \in Bucket /\ Unique(b)
    BY <1>2, <2>1, <2>2
  <2>4. Copied(m, b)[Len(b)] \in Maps
    BY <2>3, CopiedCorrect
  <2> QED
    BY <2>2, <2>4
<1> HIDE DEF Step
<1>4. F \in [1 .. N -> [Maps -> Maps]]
  BY <1>3
<1>5. PICK h : h = F
  OBVIOUS
<1>6. PICK out : out = WithCapacity(N)
  OBVIOUS
<1>7. PICK g \in [0 .. N -> Maps] : g[0] = out /\ \A n \in 1 .. N : g[n] = h[n][g[n - 1]]
  <2>1. PICK B : B = Maps
    OBVIOUS
  <2>2. h \in [1 .. N -> [B -> B]] /\ N \in Nat /\ out \in B
    BY <1>2, <1>4, <1>5, <1>6, <2>1, WithCapacityCorrect
  <2>3. \E g \in [0 .. N -> B] : g[0] = out /\ \A n \in 1 .. N : g[n] = h[n][g[n - 1]]
    BY <2>2, Iterate
  <2> QED
    BY <2>1, <2>3
<1>8. \A n \in 1 .. N : g[n] = Step(n, g[n - 1])
  <2> TAKE n \in 1 .. N
  <2>1. n - 1 \in 0 .. N
    BY <1>2
  <2>2. g[n - 1] \in Maps
    BY <2>1
  <2>3. h[n][g[n - 1]] = Step(n, g[n - 1])
    BY <1>5, <2>2
  <2> QED
    BY <1>7, <2>3
<1> DEFINE Body(a) == [n \in 0 .. N |-> IF n = 0 THEN out ELSE Step(n, a[n - 1])]
<1>9. g = Body(g)
  <2>1. \A n \in 0 .. N : g[n] = Body(g)[n]
    BY <1>2, <1>7, <1>8
  <2>2. g = [n \in 0 .. N |-> g[n]]
    BY <1>7
  <2> QED
    BY <2>1, <2>2
<1>10. Cloned(t) = CHOOSE a : a = Body(a)
  BY <1>1, <1>6 DEF Cloned, Step
<1> HIDE DEF Body
<1>11. PICK a : a = Cloned(t)
  OBVIOUS
<1>12. a = Body(a)
  BY <1>9, <1>10, <1>11
<1>13. a[0] = out /\ \A n \in 1 .. N : a[n] = Step(n, a[n - 1])
  BY <1>2, <1>12 DEF Body
<1> QED
  BY <1>1, <1>6, <1>11, <1>13 DEF Step

\* A clone is a table of its own with the same keys and values.
LEMMA CloneCorrect ==
  ASSUME NEW t, Good(t)
  PROVE  CloneOf(t) \in Maps /\ \A k \in Keys : Lookup(CloneOf(t), k) = Lookup(t, k)
<1>1. PICK N, f, g : N = t.capacity /\ f = t.buckets /\ g = Cloned(t)
  OBVIOUS
<1>2. N \in Nat \ {0} /\ \A i \in 0 .. N - 1 : f[i] \in Bucket /\ Unique(f[i])
  <2>1. t \in Tables
    BY DEF Good
  <2>2. N \in Nat \ {0} /\ f \in [0 .. N - 1 -> Bucket]
    BY <1>1, <2>1, TableForm
  <2> QED
    BY <1>1, <2>2 DEF Good
<1>3. g[0] = WithCapacity(N) /\ \A n \in 1 .. N : g[n] = Copied(g[n - 1], f[n - 1])[Len(f[n - 1])]
  BY <1>1, ClonedTrace
<1> DEFINE T == {n \in 0 .. N :
                   /\ g[n] \in Maps
                   /\ \A k \in Keys : Lookup(g[n], k) =
                        IF BucketIndex(k, N) < n THEN Lookup(t, k) ELSE None}
<1>4. \A k \in Keys : BucketIndex(k, N) \in 0 .. N - 1
  BY <1>2, Index
<1>5. 0 \in T
  <2>1. N \in Nat
    BY <1>2
  <2>2. g[0] \in Maps /\ \A k \in Keys : Lookup(g[0], k) = None
    BY <1>3, <2>1, WithCapacityCorrect
  <2>3. \A k \in Keys : ~(BucketIndex(k, N) < 0)
    BY <1>4
  <2>4. 0 \in 0 .. N
    BY <1>2
  <2> QED
    BY <2>2, <2>3, <2>4
<1>6. \A n \in 1 .. N : n - 1 \in T => n \in T
  <2> TAKE n \in 1 .. N
  <2> HAVE n - 1 \in T
  <2>1. PICK m, b : m = g[n - 1] /\ b = f[n - 1]
    OBVIOUS
  <2>2. m \in Maps /\ \A k \in Keys : Lookup(m, k) = IF BucketIndex(k, N) < n - 1 THEN Lookup(t, k) ELSE None
    BY <2>1
  <2>3. n - 1 \in 0 .. N - 1
    BY <1>2
  <2>4. b \in Bucket /\ Unique(b)
    BY <1>2, <2>1, <2>3
  <2>5. g[n] = Copied(m, b)[Len(b)]
    BY <1>3, <2>1
  <2>6. /\ g[n] \in Maps
        /\ \A k \in Keys : Lookup(g[n], k) = IF HasKey(b, k) THEN ValueIn(b, k) ELSE Lookup(m, k)
    BY <2>2, <2>4, <2>5, CopiedCorrect
  <2>7. ASSUME NEW k \in Keys
        PROVE  Lookup(g[n], k) = IF BucketIndex(k, N) < n THEN Lookup(t, k) ELSE None
    <3>1. PICK i : i = BucketIndex(k, N)
      OBVIOUS
    <3>2. i \in 0 .. N - 1
      BY <1>4, <3>1
    <3>3. CASE i = n - 1
      <4>1. Lookup(t, k) = ValueIn(b, k) /\ (Lookup(t, k) # None <=> HasKey(b, k))
        BY <1>1, <2>1, <3>1, <3>3, GoodFacts
      <4>2. ~(i < n - 1) /\ i < n
        BY <1>2, <3>3
      <4>3. Lookup(m, k) = None
        BY <2>2, <3>1, <4>2
      <4> QED
        BY <2>6, <3>1, <4>1, <4>2, <4>3
    <3>4. CASE i # n - 1
      <4>1. ~HasKey(b, k)
        <5> SUFFICES ASSUME NEW j \in 1 .. Len(b), b[j].key = k PROVE FALSE
          BY DEF HasKey
        <5>1. BucketIndex(b[j].key, N) = n - 1
          BY <1>1, <2>1, <2>3 DEF Good
        <5> QED
          BY <3>1, <3>4, <5>1
      <4>2. i < n <=> i < n - 1
        BY <1>2, <3>2, <3>4
      <4>3. Lookup(g[n], k) = Lookup(m, k)
        BY <2>6, <4>1
      <4> QED
        BY <2>2, <3>1, <4>2, <4>3
    <3> QED
      BY <3>3, <3>4
  <2>8. n \in 0 .. N
    BY <1>2
  <2> QED
    BY <2>6, <2>7, <2>8
<1> HIDE DEF T
<1>7. N \in Nat /\ N \in 0 .. N
  BY <1>2
<1>8. 0 .. N \subseteq T
  BY <1>5, <1>6, <1>7, CountUp
<1>9. N \in T
  BY <1>7, <1>8
<1>10. /\ g[N] \in Maps
       /\ \A k \in Keys : Lookup(g[N], k) = IF BucketIndex(k, N) < N THEN Lookup(t, k) ELSE None
  BY <1>9 DEF T
<1>11. \A k \in Keys : BucketIndex(k, N) < N
  BY <1>2, <1>4
<1>12. CloneOf(t) = g[N]
  BY <1>1 DEF CloneOf
<1> QED
  BY <1>10, <1>11, <1>12

-----------------------------------------------------------------------------
(* Slots *)

LEMMA SlotFacts ==
  ASSUME NEW t, Good(t), NEW s \in Slots(t)
  PROVE  LET e == EntryIn(t, s) IN
           /\ s = <<s[1], s[2]>>
           /\ s[1] \in 0 .. t.capacity - 1 /\ s[2] \in 1 .. Len(t.buckets[s[1]])
           /\ e.key \in Keys /\ e.value \in Values
           /\ BucketIndex(e.key, t.capacity) = s[1] /\ Unique(t.buckets[s[1]])
           /\ Lookup(t, e.key) = e.value /\ e.key \in PresentIn(t)
<1>1. t \in Tables /\ t.buckets \in [0 .. t.capacity - 1 -> Bucket]
  BY TableForm DEF Good
<1>2. PICK i \in 0 .. t.capacity - 1 : \E j \in DOMAIN t.buckets[i] : s = <<i, j>>
  BY DEF Slots
<1>3. PICK b : b = t.buckets[i]
  OBVIOUS
<1>4. b \in Bucket /\ Unique(b)
  BY <1>1, <1>2, <1>3 DEF Good
<1>5. PICK j \in 1 .. Len(b) : s = <<i, j>>
  BY <1>2, <1>3, <1>4, EntryFacts
<1>6. PICK e : e = b[j]
  OBVIOUS
<1>7. EntryIn(t, s) = e
  BY <1>3, <1>5, <1>6 DEF EntryIn
<1>8. PICK k, v : k = e.key /\ v = e.value
  OBVIOUS
<1>9. k \in Keys /\ v \in Values
  BY <1>4, <1>6, <1>8, EntryFacts
<1>10. BucketIndex(k, t.capacity) = i
  BY <1>2, <1>3, <1>6, <1>8 DEF Good
<1>11. Holds(b, k, v)
  BY <1>6, <1>8 DEF Holds
<1>12. ValueIn(b, k) = v
  BY <1>4, <1>11, ValueOf
<1>13. Lookup(t, k) = v
  BY <1>3, <1>10, <1>12, LookupIs
<1>14. k \in PresentIn(t)
  BY <1>9, <1>13, HashTableAssumption DEF PresentIn
<1> QED
  BY <1>3, <1>4, <1>5, <1>7, <1>8, <1>9, <1>10, <1>13, <1>14

LEMMA SlotOf ==
  ASSUME NEW t, Good(t), NEW k \in Keys, Lookup(t, k) # None
  PROVE  \E s \in Slots(t) : EntryIn(t, s).key = k /\ EntryIn(t, s).value = Lookup(t, k)
<1>1. PICK i : i = BucketIndex(k, t.capacity)
  OBVIOUS
<1>2. PICK b : b = t.buckets[i]
  OBVIOUS
<1>3. i \in 0 .. t.capacity - 1 /\ b \in Bucket /\ Lookup(t, k) = ValueIn(b, k) /\ HasKey(b, k)
  BY <1>1, <1>2, GoodFacts
<1>4. Holds(b, k, Lookup(t, k))
  BY <1>3, ValueFacts
<1>5. PICK j \in 1 .. Len(b) : b[j].key = k /\ b[j].value = Lookup(t, k)
  BY <1>4 DEF Holds
<1>6. j \in DOMAIN t.buckets[i]
  BY <1>2, <1>3, EntryFacts
<1>7. <<i, j>> \in Slots(t)
  BY <1>3, <1>6 DEF Slots
<1>8. EntryIn(t, <<i, j>>) = b[j]
  BY <1>2 DEF EntryIn
<1> QED
  BY <1>5, <1>7, <1>8

\* Two slots with one key are one.
LEMMA SlotUnique ==
  ASSUME NEW t, Good(t), NEW r \in Slots(t), NEW s \in Slots(t),
         EntryIn(t, r).key = EntryIn(t, s).key
  PROVE  r = s
<1>1. /\ r = <<r[1], r[2]>> /\ r[2] \in 1 .. Len(t.buckets[r[1]])
      /\ BucketIndex(EntryIn(t, r).key, t.capacity) = r[1] /\ Unique(t.buckets[r[1]])
  BY SlotFacts
<1>2. /\ s = <<s[1], s[2]>> /\ s[2] \in 1 .. Len(t.buckets[s[1]])
      /\ BucketIndex(EntryIn(t, s).key, t.capacity) = s[1]
  BY SlotFacts
<1>3. PICK b : b = t.buckets[r[1]]
  OBVIOUS
<1>4. r[1] = s[1] /\ b = t.buckets[s[1]]
  BY <1>1, <1>2, <1>3
<1>5. b[r[2]].key = b[s[2]].key
  BY <1>3, <1>4 DEF EntryIn
<1>6. r[2] = s[2]
  BY <1>1, <1>2, <1>3, <1>4, <1>5 DEF Unique
<1> QED
  BY <1>1, <1>2, <1>4, <1>6

LEMMA SlotCount ==
  ASSUME NEW t, Good(t)
  PROVE  IsFiniteSet(Slots(t)) /\ Cardinality(Slots(t)) = Cardinality(PresentIn(t))
<1>1. PICK p, q : p = PresentIn(t) /\ q = Slots(t)
  OBVIOUS
<1>2. PICK f : f = [s \in q |-> EntryIn(t, s).key]
  OBVIOUS
<1>3. f \in [q -> p]
  BY <1>1, <1>2, SlotFacts
<1>4. \A r, s \in q : f[r] = f[s] => r = s
  BY <1>1, <1>2, SlotUnique
<1>5. \A k \in p : \E s \in q : f[s] = k
  <2> TAKE k \in p
  <2>1. k \in Keys /\ Lookup(t, k) # None
    BY <1>1 DEF PresentIn
  <2>2. PICK s \in Slots(t) : EntryIn(t, s).key = k
    BY <2>1, SlotOf
  <2> QED
    BY <1>1, <1>2, <2>2
<1>6. f \in Injection(q, p) /\ f \in Surjection(q, p)
  BY <1>3, <1>4, <1>5 DEF Injection, IsInjective, Surjection
<1>7. IsFiniteSet(p)
  BY <1>1 DEF Good
<1>8. IsFiniteSet(q) /\ Cardinality(q) = Cardinality(p)
  BY <1>6, <1>7, FS_Injection
<1> QED
  BY <1>1, <1>8

LEMMA HeldIs ==
  ASSUME NEW t, Good(t)
  PROVE  Held(t) = {v \in Values : \E k \in Keys : Lookup(t, k) = v}
<1>1. ASSUME NEW v \in Held(t) PROVE v \in Values /\ \E k \in Keys : Lookup(t, k) = v
  <2>1. PICK s \in Slots(t) : v = EntryIn(t, s).value
    BY <1>1 DEF Held
  <2>2. PICK k : k = EntryIn(t, s).key
    OBVIOUS
  <2>3. k \in Keys /\ v \in Values /\ Lookup(t, k) = v
    BY <2>1, <2>2, SlotFacts
  <2> QED
    BY <2>3
<1>2. ASSUME NEW v \in Values, NEW k \in Keys, Lookup(t, k) = v PROVE v \in Held(t)
  <2>1. Lookup(t, k) # None
    BY <1>2, HashTableAssumption
  <2>2. PICK s \in Slots(t) : EntryIn(t, s).value = Lookup(t, k)
    BY <2>1, SlotOf
  <2> QED
    BY <1>2, <2>2 DEF Held
<1> QED
  BY <1>1, <1>2

-----------------------------------------------------------------------------
(* The state of the map and its caller *)

\* A value is in the map under one key, or with the caller, or gone.
OwnedOnce(t, mine, dropped) ==
  /\ mine \subseteq Values /\ dropped \subseteq Values /\ mine \cap dropped = {}
  /\ \A v \in Values : v \in mine \cup dropped <=> \A k \in Keys : Lookup(t, k) # v
  /\ \A k, l \in Keys : Lookup(t, k) = Lookup(t, l) /\ Lookup(t, k) # None => k = l

MapInv == table \in Maps /\ OwnedOnce(table, hands, gone)

LEMMA MapsFacts ==
  ASSUME NEW t \in Maps
  PROVE  Good(t) /\ ~Crowded(t) /\ \A k \in Keys : Lookup(t, k) \in Values \cup {None}
BY GoodFacts DEF Maps

LEMMA MapInit == Init => MapInv
<1> SUFFICES ASSUME Init PROVE MapInv
  OBVIOUS
<1>1. PICK c : c = InitialMapCapacity
  OBVIOUS
<1>2. c \in Nat \ {0}
  BY <1>1, HashTableAssumption
<1>3. table \in Maps /\ \A k \in Keys : Lookup(table, k) = None
  BY <1>1, <1>2, EmptyCorrect DEF Init
<1> QED
  BY <1>3, HashTableAssumption DEF Init, MapInv, OwnedOnce

LEMMA MapInsert ==
  ASSUME MapInv, NEW k \in Keys, NEW v \in Values, Insert(k, v)
  PROVE  MapInv'
<1>1. table \in Maps /\ table' = InsertInto(table, k, v)
  BY DEF MapInv, Insert
<1>2. /\ table' \in Maps
      /\ \A x \in Keys : Lookup(table', x) = IF x = k THEN v ELSE Lookup(table, x)
  BY <1>1, InsertCorrect
<1>3. PICK old : old = Lookup(table, k)
  OBVIOUS
<1>4. /\ v \in hands /\ hands' = (hands \ {v}) \cup ({old} \ {None}) /\ gone' = gone
      /\ old \in Values \cup {None}
  BY <1>1, <1>3, MapsFacts DEF Insert, Returned
<1>5. PICK t, u : t = table /\ u = table'
  OBVIOUS
<1>6. OwnedOnce(t, hands, gone)
  BY <1>5 DEF MapInv
<1>7. \A x \in Keys : Lookup(u, x) = IF x = k THEN v ELSE Lookup(t, x)
  BY <1>2, <1>5
<1>8. v # None /\ \A x \in Keys : Lookup(t, x) # v
  BY <1>4, <1>6, HashTableAssumption DEF OwnedOnce
<1>9. old = Lookup(t, k) /\ \A x \in Keys : x # k /\ old # None => Lookup(t, x) # old
  BY <1>3, <1>5, <1>6 DEF OwnedOnce
<1>10. hands' \subseteq Values /\ gone' \subseteq Values /\ hands' \cap gone' = {}
  <2>1. old # None => old \notin gone
    BY <1>4, <1>6, <1>9 DEF OwnedOnce
  <2> QED
    BY <1>4, <1>6, <2>1 DEF OwnedOnce
<1>11. ASSUME NEW x \in Values
       PROVE  x \in hands' \cup gone' <=> \A y \in Keys : Lookup(u, y) # x
  <2>1. x \in hands \cup gone <=> \A y \in Keys : Lookup(t, y) # x
    BY <1>6 DEF OwnedOnce
  <2>2. x # None
    BY HashTableAssumption
  <2>3. CASE x = v
    <3>1. x \notin hands' \cup gone'
      BY <1>4, <1>6, <1>8, <1>9, <2>3 DEF OwnedOnce
    <3> QED
      BY <1>7, <2>3, <3>1
  <2>4. CASE x = old
    <3>1. x \in hands' /\ x # v
      BY <1>4, <1>8, <1>9, <2>2, <2>4
    <3>2. \A y \in Keys : Lookup(u, y) # x
      BY <1>7, <1>9, <2>2, <2>4, <3>1
    <3> QED
      BY <3>1, <3>2
  <2>5. CASE x # v /\ x # old
    <3>1. x \in hands' \cup gone' <=> x \in hands \cup gone
      BY <1>4, <2>5
    <3>2. \A y \in Keys : Lookup(u, y) = x <=> Lookup(t, y) = x
      BY <1>7, <1>9, <2>5
    <3> QED
      BY <2>1, <3>1, <3>2
  <2> QED
    BY <2>3, <2>4, <2>5
<1>12. \A x, y \in Keys : Lookup(u, x) = Lookup(u, y) /\ Lookup(u, x) # None => x = y
  BY <1>6, <1>7, <1>8 DEF OwnedOnce
<1>13. OwnedOnce(u, hands', gone')
  BY <1>10, <1>11, <1>12 DEF OwnedOnce
<1> QED
  BY <1>2, <1>5, <1>13 DEF MapInv

LEMMA MapRemove ==
  ASSUME MapInv, NEW k \in Keys, Remove(k)
  PROVE  MapInv'
<1>1. table \in Maps /\ table' = RemoveFrom(table, k)
  BY DEF MapInv, Remove
<1>2. PICK t, u : t = table /\ u = table'
  OBVIOUS
<1>3. Good(t) /\ ~Crowded(t) /\ t \in Maps
  BY <1>1, <1>2, MapsFacts
<1>4. /\ Good(u) /\ u.len <= t.len /\ u.capacity = t.capacity
      /\ \A x \in Keys : Lookup(u, x) = IF x = k THEN None ELSE Lookup(t, x)
  BY <1>1, <1>2, <1>3, RemoveCorrect
<1>5. u \in Maps
  <2>1. t \in Tables /\ u \in Tables
    BY <1>3, <1>4 DEF Good
  <2>2. t.len \in Nat /\ u.len \in Nat /\ t.capacity \in Nat
    BY <2>1, TableForm
  <2>3. ~(t.len * 4 > t.capacity * 3)
    BY <1>3 DEF Crowded
  <2>4. ~(u.len * 4 > t.capacity * 3)
    BY <1>4, <2>2, <2>3
  <2>5. ~Crowded(u)
    BY <1>4, <2>4 DEF Crowded
  <2> QED
    BY <1>4, <2>1, <2>5 DEF Maps
<1>6. PICK old : old = Lookup(t, k)
  OBVIOUS
<1>7. /\ hands' = hands \cup ({old} \ {None}) /\ gone' = gone
      /\ old \in Values \cup {None}
  BY <1>2, <1>3, <1>6, MapsFacts DEF Remove, Returned
<1>8. OwnedOnce(t, hands, gone)
  BY <1>2 DEF MapInv
<1>9. \A x \in Keys : x # k /\ old # None => Lookup(t, x) # old
  BY <1>6, <1>8 DEF OwnedOnce
<1>10. hands' \subseteq Values /\ gone' \subseteq Values /\ hands' \cap gone' = {}
  <2>1. old # None => old \notin gone
    BY <1>6, <1>7, <1>8 DEF OwnedOnce
  <2> QED
    BY <1>7, <1>8, <2>1 DEF OwnedOnce
<1>11. ASSUME NEW x \in Values
       PROVE  x \in hands' \cup gone' <=> \A y \in Keys : Lookup(u, y) # x
  <2>1. x \in hands \cup gone <=> \A y \in Keys : Lookup(t, y) # x
    BY <1>8 DEF OwnedOnce
  <2>2. x # None
    BY HashTableAssumption
  <2>3. CASE x = old
    <3>1. x \in hands'
      BY <1>7, <2>2, <2>3
    <3>2. \A y \in Keys : Lookup(u, y) # x
      BY <1>4, <1>9, <2>2, <2>3
    <3> QED
      BY <3>1, <3>2
  <2>4. CASE x # old
    <3>1. x \in hands' \cup gone' <=> x \in hands \cup gone
      BY <1>7, <2>4
    <3>2. \A y \in Keys : Lookup(u, y) = x <=> Lookup(t, y) = x
      BY <1>4, <1>6, <2>2, <2>4
    <3> QED
      BY <2>1, <3>1, <3>2
  <2> QED
    BY <2>3, <2>4
<1>12. \A x, y \in Keys : Lookup(u, x) = Lookup(u, y) /\ Lookup(u, x) # None => x = y
  BY <1>4, <1>8 DEF OwnedOnce
<1>13. OwnedOnce(u, hands', gone')
  BY <1>10, <1>11, <1>12 DEF OwnedOnce
<1> QED
  BY <1>2, <1>5, <1>13 DEF MapInv

\* A map with the same answers, for the same owners.
LEMMA SameOwners ==
  ASSUME NEW t, NEW u, NEW mine, NEW dropped, OwnedOnce(t, mine, dropped),
         \A k \in Keys : Lookup(u, k) = Lookup(t, k)
  PROVE  OwnedOnce(u, mine, dropped)
BY DEF OwnedOnce

LEMMA MapClear ==
  ASSUME MapInv, Clear
  PROVE  MapInv'
<1>1. table \in Maps /\ table' = EmptyTable(table.capacity)
  BY DEF MapInv, Clear, ClearOf
<1>2. Good(table)
  BY <1>1, MapsFacts
<1>3. PICK c : c = table.capacity
  OBVIOUS
<1>4. c \in Nat \ {0}
  BY <1>1, <1>3, TableForm DEF Maps
<1>5. table' \in Maps /\ \A k \in Keys : Lookup(table', k) = None
  BY <1>1, <1>3, <1>4, EmptyCorrect
<1>6. PICK t, u : t = table /\ u = table'
  OBVIOUS
<1>7. /\ hands' = hands
      /\ gone' = gone \cup {v \in Values : \E k \in Keys : Lookup(t, k) = v}
  BY <1>2, <1>6, HeldIs DEF Clear
<1>8. OwnedOnce(t, hands, gone)
  BY <1>6 DEF MapInv
<1>9. OwnedOnce(u, hands', gone')
  BY <1>5, <1>6, <1>7, <1>8, HashTableAssumption DEF OwnedOnce
<1> QED
  BY <1>5, <1>6, <1>9 DEF MapInv

LEMMA MapClone ==
  ASSUME MapInv, CloneAndDrop
  PROVE  MapInv' /\ \A k \in Keys : Lookup(table', k) = Lookup(table, k)
<1>1. Good(table) /\ table' = CloneOf(table) /\ hands' = hands /\ gone' = gone
  BY MapsFacts DEF MapInv, CloneAndDrop
<1>2. PICK t, u : t = table /\ u = table'
  OBVIOUS
<1>3. u \in Maps /\ \A k \in Keys : Lookup(u, k) = Lookup(t, k)
  BY <1>1, <1>2, CloneCorrect
<1>4. OwnedOnce(t, hands, gone)
  BY <1>2 DEF MapInv
<1>5. OwnedOnce(u, hands, gone)
  BY <1>3, <1>4, SameOwners
<1> QED
  BY <1>1, <1>2, <1>3, <1>5 DEF MapInv

LEMMA MapStep == MapInv /\ [Next]_vars => MapInv'
<1> SUFFICES ASSUME MapInv, [Next]_vars PROVE MapInv'
  OBVIOUS
<1>1. ASSUME NEW k \in Keys, Remove(k) PROVE MapInv'
  BY <1>1, MapRemove
<1>2. ASSUME NEW k \in Keys, Get(k) PROVE MapInv'
  BY <1>2 DEF Get, MapInv
<1>3. ASSUME NEW k \in Keys, NEW v \in Values, Insert(k, v) PROVE MapInv'
  BY <1>3, MapInsert
<1>4. ASSUME NEW v \in Values, Make(v) PROVE MapInv'
  <2>1. table' = table /\ v \in gone /\ hands' = hands \cup {v} /\ gone' = gone \ {v}
    BY <1>4 DEF Make
  <2> QED
    BY <2>1 DEF MapInv, OwnedOnce
<1>5. CASE Count
  BY <1>5 DEF Count, MapInv
<1>6. CASE Clear
  BY <1>6, MapClear
<1>7. CASE CloneAndDrop
  BY <1>7, MapClone
<1>8. CASE UNCHANGED vars
  BY <1>8 DEF vars, MapInv
<1> QED
  BY <1>1, <1>2, <1>3, <1>4, <1>5, <1>6, <1>7, <1>8 DEF Next

LEMMA MapInvariant == Spec => []MapInv
BY MapInit, MapStep, PTL DEF Spec

-----------------------------------------------------------------------------
(* The theorems *)

\* After any calls, whatever the hashes: each entry is in the bucket of its hash under
\* the capacity of now, no key is there twice, len is the number of entries, and the
\* load stays under three quarters.
THEOREM HashMapWellFormed == Spec => []WellFormed
<1>1. MapInv => WellFormed
  <2> SUFFICES ASSUME MapInv PROVE WellFormed
    OBVIOUS
  <2>1. Good(table) /\ ~Crowded(table) /\ table \in Tables
    BY MapsFacts DEF MapInv, Maps
  <2>2. \A i \in 0 .. table.capacity - 1 : \A j \in DOMAIN table.buckets[i] :
          BucketIndex(table.buckets[i][j].key, table.capacity) = i
    <3> TAKE i \in 0 .. table.capacity - 1
    <3>1. table.buckets[i] \in Bucket
      BY <2>1, TableForm
    <3>2. DOMAIN table.buckets[i] = 1 .. Len(table.buckets[i])
      BY <3>1, EntryFacts
    <3> QED
      BY <2>1, <3>2 DEF Good
  <2>3. \A r, s \in Slots(table) : r # s => EntryIn(table, r).key # EntryIn(table, s).key
    BY <2>1, SlotUnique
  <2>4. table.len = Cardinality(Slots(table))
    BY <2>1, SlotCount DEF Good
  <2> QED
    BY <2>1, <2>2, <2>3, <2>4 DEF WellFormed
<1> QED
  BY <1>1, MapInvariant, PTL

\* Every value is at any time in the map once, with the caller, or dropped.
THEOREM HashMapConserves == Spec => []ValuesConserved
<1>1. MapInv => ValuesConserved
  <2> SUFFICES ASSUME MapInv, NEW v \in Values
               PROVE  Cardinality({s \in Slots(table) : EntryIn(table, s).value = v})
                        + Cardinality({v} \cap hands) + Cardinality({v} \cap gone) = 1
    BY DEF ValuesConserved
  <2>1. Good(table) /\ OwnedOnce(table, hands, gone)
    BY MapsFacts DEF MapInv
  <2>2. PICK places : places = {s \in Slots(table) : EntryIn(table, s).value = v}
    OBVIOUS
  <2>3. \A s \in places : \E k \in Keys : EntryIn(table, s).key = k /\ Lookup(table, k) = v
    BY <2>1, <2>2, SlotFacts
  <2>4. CASE v \in hands \cup gone
    <3>1. places = {}
      BY <2>1, <2>3, <2>4 DEF OwnedOnce
    <3>2. Cardinality(places) = 0
      BY <3>1, FS_EmptySet
    <3>3. \/ {v} \cap hands = {v} /\ {v} \cap gone = {}
          \/ {v} \cap hands = {} /\ {v} \cap gone = {v}
      BY <2>1, <2>4 DEF OwnedOnce
    <3>4. Cardinality({v}) = 1 /\ Cardinality({}) = 0
      BY FS_EmptySet, FS_Singleton
    <3>5. \/ Cardinality({v} \cap hands) = 1 /\ Cardinality({v} \cap gone) = 0
          \/ Cardinality({v} \cap hands) = 0 /\ Cardinality({v} \cap gone) = 1
      BY <3>3, <3>4
    <3> QED
      BY <2>2, <3>2, <3>5
  <2>5. CASE v \notin hands \cup gone
    <3>1. PICK k \in Keys : Lookup(table, k) = v
      BY <2>1, <2>5 DEF OwnedOnce
    <3>2. v # None
      BY HashTableAssumption
    <3>3. PICK s \in Slots(table) : EntryIn(table, s).key = k /\ EntryIn(table, s).value = v
      BY <2>1, <3>1, <3>2, SlotOf
    <3>4. ASSUME NEW r \in places PROVE r = s
      <4>1. PICK l \in Keys : EntryIn(table, r).key = l /\ Lookup(table, l) = v
        BY <2>3
      <4>2. l = k
        BY <2>1, <3>1, <3>2, <4>1 DEF OwnedOnce
      <4> QED
        BY <2>1, <2>2, <3>3, <4>1, <4>2, SlotUnique
    <3>5. places = {s}
      BY <2>2, <3>3, <3>4
    <3>6. Cardinality(places) = 1
      BY <3>5, FS_Singleton
    <3>7. {v} \cap hands = {} /\ {v} \cap gone = {} /\ Cardinality({}) = 0
      BY <2>5, FS_EmptySet
    <3> QED
      BY <2>2, <3>6, <3>7
  <2> QED
    BY <2>4, <2>5
<1> QED
  BY <1>1, MapInvariant, PTL

\* The map of a step, as a function of its keys.
LEMMA MapOf == Present = PresentIn(table)
BY DEF Present, PresentIn

\* Every behaviour of the hash table is one of a function from keys to values:
\* collisions, growth and cloning never show in an answer.
THEOREM HashMapIsMap == Spec => ImplementsDictionary
<1> DEFINE M == [k \in Present |-> Lookup(table, k)]
<1>1. Init => AsMap!Init
  <2> SUFFICES ASSUME Init PROVE AsMap!Init
    OBVIOUS
  <2>1. PICK c : c = InitialMapCapacity
    OBVIOUS
  <2>2. c \in Nat \ {0}
    BY <2>1, HashTableAssumption
  <2>3. \A k \in Keys : Lookup(table, k) = None
    BY <2>1, <2>2, EmptyCorrect DEF Init
  <2>4. Present = {}
    BY <2>3 DEF Present
  <2> QED
    BY <2>4 DEF Init, AsMap!Init
<1>2. MapInv /\ [Next]_vars => [AsMap!Next]_(AsMap!vars)
  <2> SUFFICES ASSUME MapInv, [Next]_vars PROVE [AsMap!Next]_(AsMap!vars)
    OBVIOUS
  <2>1. Good(table) /\ table \in Maps
    BY MapsFacts DEF MapInv
  <2>2. \A k \in Keys : AsMap!At(k) = Lookup(table, k)
    BY DEF AsMap!At, Present
  <2>3. ASSUME \A k \in Keys : Lookup(table', k) = Lookup(table, k)
        PROVE  M' = M
    <3>1. Present' = Present
      BY <2>3 DEF Present
    <3> QED
      BY <2>3, <3>1 DEF Present
  <2>4. ASSUME NEW k \in Keys, Remove(k) PROVE AsMap!Next
    <3>1. \A x \in Keys : Lookup(table', x) = IF x = k THEN None ELSE Lookup(table, x)
      BY <2>1, <2>4, RemoveCorrect DEF Remove
    <3>2. Present' = Present \ {k}
      BY <3>1 DEF Present
    <3>3. M' = [x \in Present \ {k} |-> M[x]]
      BY <3>1, <3>2 DEF Present
    <3>4. answer' = AsMap!At(k)
      BY <2>2, <2>4 DEF Remove
    <3>5. AsMap!Remove(k)
      BY <3>3, <3>4 DEF AsMap!Remove, AsMap!Restrict
    <3> QED
      BY <3>5 DEF AsMap!Next
  <2>5. ASSUME NEW k \in Keys, Get(k) PROVE AsMap!Next
    <3>1. answer' = AsMap!At(k) /\ table' = table
      BY <2>2, <2>5 DEF Get
    <3>2. M' = M
      BY <2>3, <3>1
    <3>3. AsMap!Get(k)
      BY <3>1, <3>2 DEF AsMap!Get
    <3> QED
      BY <3>3 DEF AsMap!Next
  <2>6. ASSUME NEW k \in Keys, NEW v \in Values, Insert(k, v) PROVE AsMap!Next
    <3>1. \A x \in Keys : Lookup(table', x) = IF x = k THEN v ELSE Lookup(table, x)
      BY <2>1, <2>6, InsertCorrect DEF Insert
    <3>2. Present' = Present \cup {k}
      BY <3>1, HashTableAssumption DEF Present
    <3>3. M' = [x \in Present \cup {k} |-> IF x = k THEN v ELSE M[x]]
      BY <3>1, <3>2 DEF Present
    <3>4. answer' = AsMap!At(k)
      BY <2>2, <2>6 DEF Insert
    <3>5. AsMap!Insert(k, v)
      BY <3>3, <3>4 DEF AsMap!Insert
    <3> QED
      BY <3>5 DEF AsMap!Next
  <2>7. ASSUME NEW v \in Values, Make(v) PROVE UNCHANGED AsMap!vars
    <3>1. table' = table /\ answer' = answer
      BY <2>7 DEF Make
    <3>2. M' = M
      BY <2>3, <3>1
    <3> QED
      BY <3>1, <3>2 DEF AsMap!vars
  <2>8. CASE Count
    <3>1. table' = table /\ answer' = table.len
      BY <2>8 DEF Count
    <3>2. M' = M
      BY <2>3, <3>1
    <3>3. table.len = Cardinality(Present)
      BY <2>1, MapOf DEF Good
    <3>4. AsMap!Cardinality(Present) = Cardinality(Present)
      BY DEF AsMap!Cardinality, Cardinality
    <3>5. DOMAIN M = Present
      OBVIOUS
    <3>6. answer' = AsMap!Cardinality(DOMAIN M)
      BY <3>1, <3>3, <3>4, <3>5
    <3>7. AsMap!Count
      BY <3>2, <3>6 DEF AsMap!Count
    <3> QED
      BY <3>7 DEF AsMap!Next
  <2>9. CASE Clear
    <3>1. PICK c : c = table.capacity
      OBVIOUS
    <3>2. c \in Nat \ {0}
      BY <2>1, <3>1, TableForm DEF Maps
    <3>3. \A k \in Keys : Lookup(table', k) = None
      BY <2>9, <3>1, <3>2, EmptyCorrect DEF Clear, ClearOf
    <3>4. Present' = {}
      BY <3>3 DEF Present
    <3>5. M' = [k \in {} |-> None]
      BY <3>4
    <3>6. AsMap!Clear
      BY <2>9, <3>5 DEF Clear, AsMap!Clear
    <3> QED
      BY <3>6 DEF AsMap!Next
  <2>10. CASE CloneAndDrop
    <3>1. answer' = answer
      BY <2>10 DEF CloneAndDrop
    <3>2. M' = M
      BY <2>3, <2>10, MapClone
    <3> QED
      BY <3>1, <3>2 DEF AsMap!vars
  <2>11. CASE UNCHANGED vars
    <3>1. table' = table /\ answer' = answer
      BY <2>11 DEF vars
    <3>2. M' = M
      BY <2>3, <3>1
    <3> QED
      BY <3>1, <3>2 DEF AsMap!vars
  <2> QED
    BY <2>4, <2>5, <2>6, <2>7, <2>8, <2>9, <2>10, <2>11 DEF Next
<1> QED
  BY <1>1, <1>2, MapInvariant, PTL DEF Spec, ImplementsDictionary, AsMap!Spec
=============================================================================
