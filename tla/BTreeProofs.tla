------------------------------ MODULE BTreeProofs ------------------------------
(***************************************************************************)
(* Proofs about the operators of BTree for every B. build() makes nodes of *)
(* legal size, findch follows the separators, a split on the way down      *)
(* leaves every key on the path that it had, and a leaf that overflows     *)
(* goes into two.  The second part is about the copies that overlapping    *)
(* tickets make: what the nodes of all versions are as a graph, what the   *)
(* handlers of one ticket do to it while others are still copying, and why *)
(* each leaves the bookkeeping Good as it was.                             *)
(***************************************************************************)
EXTENDS BTree, FiniteSetTheorems, WellFoundedInduction, TLAPS

\* Induction: what would refute a claim about numbers has a least element.
LEMMA LeastNumber ==
  ASSUME NEW T \in SUBSET Nat, T # {}
  PROVE  \E x \in T : \A y \in T : x <= y
<1>1. PICK x \in T : \A y \in T : ~ (<<y, x>> \in OpToRel(<, Nat))
  BY NatLessThanWellFounded, WFMin
<1>2. \A y \in T : ~ (y < x)
  BY <1>1 DEF OpToRel
<1>3. QED
  BY <1>2

(***************************************************************************)
(* build: m = n / B groups share the rest r = n % B evenly.                *)
(***************************************************************************)

\* (i + 1) r / q and i r / q differ by r / q, rounded up or down.
LEMMA ShareGrows ==
  ASSUME NEW q \in Nat \ {0}, NEW r \in Nat, NEW b \in Nat, r < b, q >= 2, NEW i \in Nat
  PROVE  ((i + 1) * r) \div q - (i * r) \div q \in 0 .. b - 1
<1> DEFINE d1 == (i * r) \div q
           s1 == (i * r) % q
           d2 == ((i + 1) * r) \div q
           s2 == ((i + 1) * r) % q
<1>1. i * r \in Int /\ (i + 1) * r \in Int /\ (i + 1) * r = (i * r) + r
  OBVIOUS
<1>2. /\ d1 \in Int /\ s1 \in 0 .. q - 1 /\ i * r = (q * d1) + s1
      /\ d2 \in Int /\ s2 \in 0 .. q - 1 /\ (i + 1) * r = (q * d2) + s2
  BY <1>1
<1> HIDE DEF d1, s1, d2, s2
<1>3. PICK d \in Int : d = d2 - d1
  BY <1>2
<1>4. q * d = (q * d2) - (q * d1)
  BY <1>2, <1>3
<1>5. r = (q * d) + (s2 - s1)
  BY <1>1, <1>2, <1>4
<1>6. ASSUME d < 0 PROVE FALSE
  <2>1. q * d <= - q
    BY <1>6
  <2>2. QED
    BY <1>2, <1>5, <2>1
<1>7. ASSUME d >= b PROVE FALSE
  <2>1. q * d >= q * b
    BY <1>7
  <2>2. PICK c \in Nat, p \in Nat : b = c + 1 /\ q = p + 2
    <3>1. b - 1 \in Nat /\ q - 2 \in Nat
      OBVIOUS
    <3>2. QED
      BY <3>1
  <2>3. q * b = (p * c) + p + (2 * c) + 2 /\ p * c >= 0
    BY <2>2
  <2>4. r >= q * b - (q - 1)
    BY <1>2, <1>5, <2>1
  <2>5. r >= (p * c) + (2 * c) + 1 /\ p * c \in Int
    BY <2>2, <2>3, <2>4
  <2>6. QED
    BY <2>2, <2>3, <2>5
<1>8. QED
  BY <1>3, <1>6, <1>7 DEF d1, d2

\* build_internal and build_sorted: from 2 B items on, the nodes of a level take all
\* items, each at least B and at most 2 B - 1 of them.
THEOREM BuildSizes ==
  ASSUME NEW n \in Nat, n >= 2 * Half
  PROVE  /\ Groups(n) \in Nat \ {0, 1} /\ GroupStart(n, 0) = 0 /\ GroupStart(n, Groups(n)) = n
         /\ \A i \in 0 .. Groups(n) - 1 : GroupStart(n, i + 1) - GroupStart(n, i) \in Half .. MaxKeys
<1> DEFINE q == n \div Half
           r == n % Half
<1>1. Half \in Nat /\ Half >= 2
  BY NodeAssumption
<1>2. q \in Int /\ r \in 0 .. Half - 1 /\ n = (Half * q) + r
  BY <1>1
<1>3. Groups(n) = q
  BY <1>1 DEF Groups
<1>4. \A i : GroupStart(n, i) = IF i = q THEN n ELSE i * Half + (i * r) \div q
  BY <1>3 DEF GroupStart
<1> HIDE DEF q, r
<1>5. q >= 2
  <2>1. SUFFICES ASSUME q <= 1 PROVE FALSE
    BY <1>2
  <2>2. Half * q <= Half
    BY <1>1, <1>2, <2>1
  <2>3. QED
    BY <1>1, <1>2, <2>2
<1>6. (0 * r) \div q = 0 /\ (q * r) \div q = r
  BY <1>2, <1>5
<1>7. \A i \in 0 .. q : GroupStart(n, i) = i * Half + (i * r) \div q
  BY <1>1, <1>2, <1>4, <1>6
<1>8. ASSUME NEW i \in 0 .. q - 1
      PROVE  GroupStart(n, i + 1) - GroupStart(n, i) \in Half .. MaxKeys
  <2>1. ((i + 1) * r) \div q - (i * r) \div q \in 0 .. Half - 1
    BY <1>1, <1>2, <1>5, ShareGrows
  <2>2. i \in 0 .. q /\ i + 1 \in 0 .. q
    BY <1>2, <1>5
  <2>3. GroupStart(n, i + 1) - GroupStart(n, i)
          = ((i + 1) * Half - i * Half) + (((i + 1) * r) \div q - (i * r) \div q)
    <3>1. (i + 1) * Half \in Int /\ i * Half \in Int
          /\ ((i + 1) * r) \div q \in Int /\ (i * r) \div q \in Int
      BY <1>1, <1>2, <1>5
    <3>2. QED
      BY <1>7, <2>2, <3>1
  <2>4. (i + 1) * Half - i * Half = Half
    BY <1>1
  <2>5. QED
    BY <1>1, <2>1, <2>3, <2>4 DEF MaxKeys
<1>9. GroupStart(n, 0) = 0
  BY <1>1, <1>2, <1>5, <1>6, <1>7
<1>10. QED
  BY <1>2, <1>3, <1>4, <1>5, <1>8, <1>9

-----------------------------------------------------------------------------
(***************************************************************************)
(* Routing: findch in a node whose separators are in order.                *)
(***************************************************************************)
Ascending(s) == \A i, j \in DOMAIN s : i < j => s[i] < s[j]

\* Internal nodes whose children are in S.
InternalNodes(S) ==
  [ver : Int, leaf : {FALSE}, keys : Seq(Int), vals : {<<>>}, chs : Seq(S),
   ready : BOOLEAN, slots : {<<>>}]

\* The separators in order, and one child more.
Routes(n) == Ascending(n.keys) /\ Len(n.chs) = Len(n.keys) + 1

\* j is the child of n for key x: after the separators up to x, before the others.
Between(n, x, j) ==
  /\ j \in 1 .. Len(n.keys) + 1
  /\ \A i \in 1 .. Len(n.keys) : n.keys[i] <= x <=> i < j

\* At most one child is that one.
LEMMA BetweenUnique ==
  ASSUME NEW n, n.keys \in Seq(Int), NEW x, NEW j, NEW k, Between(n, x, j), Between(n, x, k)
  PROVE  j = k
<1>1. j \in Int /\ k \in Int /\ Len(n.keys) \in Nat
  BY DEF Between
<1>2. ASSUME j < k PROVE FALSE
  <2>1. j \in 1 .. Len(n.keys)
    BY <1>1, <1>2 DEF Between
  <2>2. QED
    BY <1>1, <1>2, <2>1 DEF Between
<1>3. ASSUME k < j PROVE FALSE
  <2>1. k \in 1 .. Len(n.keys)
    BY <1>1, <1>3 DEF Between
  <2>2. QED
    BY <1>1, <1>3, <2>1 DEF Between
<1>4. QED
  BY <1>1, <1>2, <1>3

\* findch counts the separators up to x; in order, they are the first ones.
LEMMA FindchBetween ==
  ASSUME NEW n, n.keys \in Seq(Int), Ascending(n.keys), NEW x \in Int
  PROVE  Between(n, x, Findch(n, x))
<1> DEFINE l == Len(n.keys)
           upTo == {i \in DOMAIN n.keys : n.keys[i] <= x}
           beyond == {i \in 1 .. l + 1 : i = l + 1 \/ n.keys[i] > x}
<1>1. l \in Nat /\ DOMAIN n.keys = 1 .. l /\ \A i \in 1 .. l : n.keys[i] \in Int
  OBVIOUS
<1>2. PICK j \in beyond : \A i \in beyond : j <= i
  <2>1. beyond \in SUBSET Nat /\ l + 1 \in beyond
    BY <1>1
  <2>2. beyond # {}
    BY <2>1
  <2>3. QED
    BY <2>1, <2>2, LeastNumber
<1>3. j \in 1 .. l + 1 /\ \A i \in 1 .. l : n.keys[i] <= x <=> i < j
  <2>1. ASSUME NEW i \in 1 .. l, i < j PROVE n.keys[i] <= x
    <3>1. i \notin beyond
      BY <1>1, <1>2, <2>1
    <3>2. QED
      BY <1>1, <3>1
  <2>2. ASSUME NEW i \in 1 .. l, i >= j PROVE ~ (n.keys[i] <= x)
    <3>1. j \in 1 .. l /\ n.keys[j] > x
      BY <1>1, <1>2, <2>2
    <3>2. i = j \/ n.keys[j] < n.keys[i]
      <4>1. j \in DOMAIN n.keys /\ i \in DOMAIN n.keys /\ (i = j \/ j < i)
        BY <1>1, <2>2, <3>1
      <4>2. QED
        BY <4>1 DEF Ascending
    <3>3. n.keys[i] \in Int /\ n.keys[j] \in Int
      BY <1>1, <3>1
    <3>4. QED
      BY <3>1, <3>2, <3>3
  <2>3. QED
    BY <1>1, <1>2, <2>1, <2>2
<1>4. upTo = 1 .. j - 1
  BY <1>1, <1>3
<1>5. Cardinality(upTo) = j - 1
  <2>1. Cardinality(1 .. j - 1) = IF 1 > j - 1 THEN 0 ELSE (j - 1) - 1 + 1
    BY <1>3, FS_Interval
  <2>2. j \in Int /\ j >= 1
    BY <1>1, <1>3
  <2>3. Cardinality(1 .. j - 1) = j - 1
    BY <2>1, <2>2
  <2>4. QED
    BY <1>4, <2>3
<1>6. Findch(n, x) = j
  BY <1>1, <1>3, <1>5 DEF Findch
<1>7. QED
  BY <1>3, <1>6 DEF Between

\* So findch is known from that place.
LEMMA ChildOf ==
  ASSUME NEW n, n.keys \in Seq(Int), Ascending(n.keys), NEW x \in Int, NEW j, Between(n, x, j)
  PROVE  Findch(n, x) = j
BY FindchBetween, BetweenUnique

-----------------------------------------------------------------------------
(***************************************************************************)
(* Splitting a child: one element is inserted among the separators and the *)
(* child is replaced by two.                                               *)
(***************************************************************************)
\* The elements of x \o y.
LEMMA ConcatenationIs ==
  ASSUME NEW S, NEW x \in Seq(S), NEW y \in Seq(S)
  PROVE  /\ x \o y \in Seq(S) /\ Len(x \o y) = Len(x) + Len(y)
         /\ \A j \in 1 .. Len(x) + Len(y) : (x \o y)[j] = IF j <= Len(x) THEN x[j] ELSE y[j - Len(x)]
OBVIOUS

\* keys is ks, of length l, with sep put at place i.
With(ks, l, i, sep, keys) ==
  \A k \in 1 .. l + 1 : /\ k < i => keys[k] = ks[k]
                        /\ k = i => keys[k] = sep
                        /\ k > i => keys[k] = ks[k - 1]

\* chs is cs, of length l, with a and b for its place i.
WithBoth(cs, l, i, a, b, chs) ==
  \A k \in 1 .. l + 1 : /\ k < i => chs[k] = cs[k]
                        /\ k = i => chs[k] = a
                        /\ k = i + 1 => chs[k] = b
                        /\ k > i + 1 => chs[k] = cs[k - 1]

\* What insert of arrayops leaves in the array of separators.
LEMMA InsertedIs ==
  ASSUME NEW S, NEW s \in Seq(S), NEW i \in 1 .. Len(s) + 1, NEW e \in S
  PROVE  /\ InsertAt(s, i, e) \in Seq(S)
         /\ Len(InsertAt(s, i, e)) = Len(s) + 1
         /\ With(s, Len(s), i, e, InsertAt(s, i, e))
<1> DEFINE f == SubSeq(s, 1, i - 1)
           g == SubSeq(s, i, Len(s))
           h == f \o <<e>>
<1>1. f \in Seq(S) /\ Len(f) = i - 1 /\ \A j \in 1 .. i - 1 : f[j] = s[j]
  OBVIOUS
<1>2. g \in Seq(S) /\ Len(g) = Len(s) + 1 - i /\ \A j \in 1 .. Len(s) + 1 - i : g[j] = s[i + j - 1]
  OBVIOUS
<1>3. InsertAt(s, i, e) = h \o g
  BY DEF InsertAt
<1> HIDE DEF f, g
<1>4. /\ h \in Seq(S) /\ Len(h) = i
      /\ \A j \in 1 .. i : h[j] = IF j < i THEN s[j] ELSE e
  BY <1>1
<1> HIDE DEF h
<1>6. InsertAt(s, i, e) \in Seq(S) /\ Len(InsertAt(s, i, e)) = Len(s) + 1
  <2>1. h \o g \in Seq(S) /\ Len(h \o g) = Len(h) + Len(g)
    BY <1>2, <1>4, ConcatenationIs
  <2>2. Len(h) + Len(g) = Len(s) + 1
    BY <1>2, <1>4
  <2>3. QED
    BY <1>3, <2>1, <2>2
<1>7. \A j \in 1 .. Len(s) + 1 : InsertAt(s, i, e)[j] = IF j <= i THEN h[j] ELSE g[j - i]
  BY <1>2, <1>3, <1>4, <1>6, ConcatenationIs
<1>8. \A j \in 1 .. Len(s) + 1 : j > i => g[j - i] = s[j - 1]
  <2> SUFFICES ASSUME NEW j \in 1 .. Len(s) + 1, j > i PROVE g[j - i] = s[j - 1]
    OBVIOUS
  <2>1. j - i \in 1 .. Len(s) + 1 - i /\ i + (j - i) - 1 = j - 1
    OBVIOUS
  <2>2. QED
    BY <1>2, <2>1
<1>9. ASSUME NEW j \in 1 .. Len(s) + 1
      PROVE  InsertAt(s, i, e)[j] = IF j < i THEN s[j] ELSE IF j = i THEN e ELSE s[j - 1]
  <2>1. CASE j <= i
    BY <1>4, <1>7, <2>1
  <2>2. CASE j > i
    BY <1>7, <1>8, <2>2
  <2>3. QED
    BY <2>1, <2>2
<1>10. QED
  BY <1>6, <1>9 DEF With

\* The array of children after Install: a and b for place i.
Doubled(s, i, a, b) == SubSeq(s, 1, i - 1) \o <<a, b>> \o SubSeq(s, i + 1, Len(s))

\* What insert_child leaves in it.
LEMMA DoubledIs ==
  ASSUME NEW S, NEW s \in Seq(S), NEW i \in 1 .. Len(s), NEW a \in S, NEW b \in S
  PROVE  /\ Doubled(s, i, a, b) \in Seq(S)
         /\ Len(Doubled(s, i, a, b)) = Len(s) + 1
         /\ WithBoth(s, Len(s), i, a, b, Doubled(s, i, a, b))
<1> DEFINE f == SubSeq(s, 1, i - 1)
           g == SubSeq(s, i + 1, Len(s))
           h == f \o <<a, b>>
<1>1. f \in Seq(S) /\ Len(f) = i - 1 /\ \A j \in 1 .. i - 1 : f[j] = s[j]
  OBVIOUS
<1>2. g \in Seq(S) /\ Len(g) = Len(s) - i /\ \A j \in 1 .. Len(s) - i : g[j] = s[i + j]
  OBVIOUS
<1>3. Doubled(s, i, a, b) = h \o g
  BY DEF Doubled
<1> HIDE DEF f, g
<1>4. /\ h \in Seq(S) /\ Len(h) = i + 1
      /\ \A j \in 1 .. i + 1 : h[j] = IF j < i THEN s[j] ELSE IF j = i THEN a ELSE b
  BY <1>1
<1> HIDE DEF h
<1>6. Doubled(s, i, a, b) \in Seq(S) /\ Len(Doubled(s, i, a, b)) = Len(s) + 1
  <2>1. h \o g \in Seq(S) /\ Len(h \o g) = Len(h) + Len(g)
    BY <1>2, <1>4, ConcatenationIs
  <2>2. Len(h) + Len(g) = Len(s) + 1
    BY <1>2, <1>4
  <2>3. QED
    BY <1>3, <2>1, <2>2
<1>7. \A j \in 1 .. Len(s) + 1 : Doubled(s, i, a, b)[j] = IF j <= i + 1 THEN h[j] ELSE g[j - (i + 1)]
  BY <1>2, <1>3, <1>4, <1>6, ConcatenationIs
<1>8. \A j \in 1 .. Len(s) + 1 : j > i + 1 => g[j - (i + 1)] = s[j - 1]
  <2> SUFFICES ASSUME NEW j \in 1 .. Len(s) + 1, j > i + 1 PROVE g[j - (i + 1)] = s[j - 1]
    OBVIOUS
  <2>1. j - (i + 1) \in 1 .. Len(s) - i /\ i + (j - (i + 1)) = j - 1
    OBVIOUS
  <2>2. QED
    BY <1>2, <2>1
<1>9. ASSUME NEW j \in 1 .. Len(s) + 1
      PROVE  Doubled(s, i, a, b)[j] = IF j < i THEN s[j] ELSE IF j = i THEN a
                                      ELSE IF j = i + 1 THEN b ELSE s[j - 1]
  <2>1. CASE j <= i + 1
    BY <1>4, <1>7, <2>1
  <2>2. CASE j > i + 1
    BY <1>7, <1>8, <2>2
  <2>3. QED
    BY <2>1, <2>2
<1>10. QED
  BY <1>6, <1>9 DEF WithBoth

\* Arrays of l and l + 1 numbers, ks and keys: keys is ks with sep at place i.
InOrder(ks, l) == \A u, v \in 1 .. l : u < v => ks[u] < ks[v]

Separates(ks, l, i, sep) ==
  \A k \in 1 .. l : ks[k] \in Int /\ (k < i => ks[k] < sep) /\ (k >= i => sep < ks[k])

\* The separators stay in order.
LEMMA InsertOrdered ==
  ASSUME NEW l \in Nat, NEW ks, NEW keys, NEW i \in 1 .. l + 1, NEW sep \in Int,
         InOrder(ks, l), Separates(ks, l, i, sep), With(ks, l, i, sep, keys)
  PROVE  InOrder(keys, l + 1)
<1> SUFFICES ASSUME NEW j \in 1 .. l + 1, NEW k \in 1 .. l + 1, j < k PROVE keys[j] < keys[k]
  BY DEF InOrder
<1>1. CASE k < i
  <2>1. j \in 1 .. l /\ k \in 1 .. l /\ j < i
    BY <1>1
  <2>2. keys[j] = ks[j] /\ keys[k] = ks[k]
    BY <1>1, <2>1 DEF With
  <2>3. QED
    BY <2>1, <2>2 DEF InOrder
<1>2. CASE k = i
  <2>1. j \in 1 .. l /\ j < i
    BY <1>2
  <2>2. keys[j] = ks[j] /\ keys[k] = sep
    BY <1>2, <2>1 DEF With
  <2>3. QED
    BY <2>1, <2>2 DEF Separates
<1>3. CASE k > i /\ j < i
  <2>1. j \in 1 .. l /\ k - 1 \in 1 .. l /\ j < k - 1
    BY <1>3
  <2>2. keys[j] = ks[j] /\ keys[k] = ks[k - 1]
    BY <1>3 DEF With
  <2>3. QED
    BY <2>1, <2>2 DEF InOrder
<1>4. CASE k > i /\ j = i
  <2>1. k - 1 \in 1 .. l /\ k - 1 >= i
    BY <1>4
  <2>2. keys[j] = sep /\ keys[k] = ks[k - 1]
    BY <1>4 DEF With
  <2>3. QED
    BY <2>1, <2>2 DEF Separates
<1>5. CASE j > i
  <2>1. j - 1 \in 1 .. l /\ k - 1 \in 1 .. l /\ j - 1 < k - 1 /\ k > i
    BY <1>5
  <2>2. keys[j] = ks[j - 1] /\ keys[k] = ks[k - 1]
    BY <1>5, <2>1 DEF With
  <2>3. QED
    BY <2>1, <2>2 DEF InOrder
<1>6. QED
  BY <1>1, <1>2, <1>3, <1>4, <1>5

UpTo(ks, l, x, j) == \A k \in 1 .. l : ks[k] <= x <=> k < j

\* The place of x moves on by one if sep is put before it.
LEMMA InsertBetween ==
  ASSUME NEW l \in Nat, NEW ks, NEW keys, NEW i \in 1 .. l + 1, NEW sep \in Int, NEW x \in Int,
         Separates(ks, l, i, sep), With(ks, l, i, sep, keys),
         NEW j \in 1 .. l + 1, UpTo(ks, l, x, j),
         NEW g, g = IF j < i \/ (j = i /\ x < sep) THEN j ELSE j + 1
  PROVE  UpTo(keys, l + 1, x, g)
<1>1. j < i => x < sep
  <2> SUFFICES ASSUME j < i PROVE x < sep
    OBVIOUS
  <2>1. j \in 1 .. l
    OBVIOUS
  <2>2. ~ (ks[j] <= x) /\ ks[j] < sep /\ ks[j] \in Int
    BY <2>1 DEF Separates, UpTo
  <2>3. QED
    BY <2>2
<1>2. j > i => sep < x
  <2> SUFFICES ASSUME j > i PROVE sep < x
    OBVIOUS
  <2>1. i \in 1 .. l
    OBVIOUS
  <2>2. ks[i] <= x /\ sep < ks[i] /\ ks[i] \in Int
    BY <2>1 DEF Separates, UpTo
  <2>3. QED
    BY <2>2
<1>3. SUFFICES ASSUME NEW k \in 1 .. l + 1 PROVE keys[k] <= x <=> k < g
  BY DEF UpTo
<1>4. CASE k < i
  <2>1. k \in 1 .. l /\ keys[k] = ks[k]
    BY <1>4 DEF With
  <2>2. keys[k] <= x <=> k < j
    BY <2>1 DEF UpTo
  <2>3. k < j + 1 <=> k <= j
    OBVIOUS
  <2>4. j >= i => k < j
    BY <1>4
  <2>5. QED
    BY <1>4, <2>2, <2>3, <2>4
<1>5. CASE k = i
  <2>1. keys[k] = sep
    BY <1>5 DEF With
  <2>2. QED
    BY <1>1, <1>2, <1>5, <2>1
<1>6. CASE k > i
  <2>1. k - 1 \in 1 .. l /\ keys[k] = ks[k - 1]
    BY <1>6 DEF With
  <2>2. keys[k] <= x <=> k - 1 < j
    BY <2>1 DEF UpTo
  <2>3. j <= i => ~ (k < j) /\ ~ (k - 1 < j)
    BY <1>6
  <2>4. QED
    BY <1>6, <2>2, <2>3
<1>7. QED
  BY <1>4, <1>5, <1>6

\* Place i of n lies between its separators around sep.
Fits(n, i, sep) == i \in 1 .. Len(n.keys) + 1 /\ Separates(n.keys, Len(n.keys), i, sep)

\* A child given to insert_child takes its keys below sep, the other one the rest.
LEMMA InstallRoutes ==
  ASSUME NEW S, NEW n \in InternalNodes(S), Routes(n), NEW i \in Nat, NEW sep \in Int,
         Fits(n, i, sep), NEW a \in S, NEW b \in S
  PROVE  LET m == Install(n, i, sep, <<a, b>>) IN
         /\ m \in InternalNodes(S) /\ Routes(m) /\ Len(m.keys) = Len(n.keys) + 1
         /\ \A x \in Int :
              m.chs[Findch(m, x)] = IF Findch(n, x) # i THEN n.chs[Findch(n, x)]
                                    ELSE IF x < sep THEN a ELSE b
<1> DEFINE l == Len(n.keys)
           keys == InsertAt(n.keys, i, sep)
           chs == Doubled(n.chs, i, a, b)
           m == Install(n, i, sep, <<a, b>>)
<1>1. n.keys \in Seq(Int) /\ n.chs \in Seq(S)
  BY DEF InternalNodes
<1>2. l \in Nat /\ Len(n.chs) = l + 1 /\ i \in 1 .. l + 1
  BY <1>1 DEF Routes, Fits
<1>3. Ascending(n.keys) /\ Separates(n.keys, l, i, sep)
  BY DEF Routes, Fits
<1>4. InOrder(n.keys, l)
  <2>1. DOMAIN n.keys = 1 .. l
    BY <1>1
  <2>2. QED
    BY <1>3, <2>1 DEF Ascending, InOrder
<1>5. keys \in Seq(Int) /\ Len(keys) = l + 1 /\ With(n.keys, l, i, sep, keys)
  <2>1. i \in 1 .. Len(n.keys) + 1
    BY <1>2
  <2>2. QED
    BY <1>1, <2>1, InsertedIs
<1>6. chs \in Seq(S) /\ Len(chs) = l + 2 /\ WithBoth(n.chs, l + 1, i, a, b, chs)
  <2>1. n.chs \in Seq(S) /\ i \in 1 .. Len(n.chs) /\ Len(n.chs) + 1 = l + 2
    BY <1>1, <1>2
  <2>2. /\ Doubled(n.chs, i, a, b) \in Seq(S)
        /\ Len(Doubled(n.chs, i, a, b)) = Len(n.chs) + 1
        /\ WithBoth(n.chs, Len(n.chs), i, a, b, Doubled(n.chs, i, a, b))
    <3> HIDE DEF l, keys, chs, m
    <3>1. QED
      BY <2>1, DoubledIs
  <2> HIDE DEF chs
  <2>3. QED
    BY <1>2, <2>1, <2>2 DEF chs
<1>7. m = [n EXCEPT !.chs = chs, !.keys = keys]
  <2>1. Len(<<a, b>>) = 2
    OBVIOUS
  <2>2. QED
    BY <2>1 DEF Install, Doubled
<1> HIDE DEF keys, chs, m
<1>8. m.keys = keys /\ m.chs = chs /\ m \in InternalNodes(S)
  BY <1>5, <1>6, <1>7 DEF InternalNodes
<1>9. Ascending(keys)
  <2>1. DOMAIN keys = 1 .. l + 1
    BY <1>5
  <2>2. InOrder(keys, l + 1)
    BY <1>2, <1>3, <1>4, <1>5, InsertOrdered
  <2>3. QED
    BY <2>1, <2>2 DEF Ascending, InOrder
<1>10. Routes(m)
  <2>1. l + 2 = (l + 1) + 1
    BY <1>2
  <2>2. QED
    BY <1>5, <1>6, <1>8, <1>9, <2>1 DEF Routes
<1>11. ASSUME NEW x \in Int
       PROVE  m.chs[Findch(m, x)] = IF Findch(n, x) # i THEN n.chs[Findch(n, x)]
                                    ELSE IF x < sep THEN a ELSE b
  <2> DEFINE j == Findch(n, x)
             g == IF j < i \/ (j = i /\ x < sep) THEN j ELSE j + 1
  <2>1. j \in 1 .. l + 1 /\ UpTo(n.keys, l, x, j)
    BY <1>1, <1>3, FindchBetween DEF Between, UpTo
  <2> HIDE DEF j
  <2>2. g \in 1 .. l + 2
    BY <1>2, <2>1
  <2>3. UpTo(keys, l + 1, x, g)
    BY <1>2, <1>3, <1>5, <2>1, InsertBetween
  <2>4. chs[g] = IF j # i THEN n.chs[j] ELSE IF x < sep THEN a ELSE b
    <3>1. CASE j < i
      <4>1. j \in 1 .. (l + 1) + 1 /\ g = j /\ j # i
        BY <1>2, <2>1, <3>1
      <4>2. QED
        BY <1>6, <3>1, <4>1 DEF WithBoth
    <3>2. CASE j > i
      <4>1. /\ g = j + 1 /\ j + 1 \in 1 .. (l + 1) + 1 /\ ~ (j + 1 < i) /\ j + 1 # i /\ j + 1 # i + 1
            /\ (j + 1) - 1 = j /\ j # i
        BY <1>2, <2>1, <3>2
      <4>2. QED
        BY <1>6, <4>1 DEF WithBoth
    <3>3. CASE j = i /\ x < sep
      <4>1. g = i /\ i \in 1 .. (l + 1) + 1 /\ ~ (i < i)
        BY <1>2, <3>3
      <4>2. QED
        BY <1>6, <3>3, <4>1 DEF WithBoth
    <3>4. CASE j = i /\ ~ (x < sep)
      <4>1. g = i + 1 /\ i + 1 \in 1 .. (l + 1) + 1 /\ ~ (i + 1 < i) /\ i + 1 # i
        BY <1>2, <3>4
      <4>2. QED
        BY <1>6, <3>4, <4>1 DEF WithBoth
    <3>5. j \in Int /\ i \in Int
      BY <2>1
    <3>6. QED
      BY <3>1, <3>2, <3>3, <3>4, <3>5
  <2> HIDE DEF g
  <2>5. Between(m, x, g)
    <3>1. Len(m.keys) = l + 1 /\ g \in 1 .. (l + 1) + 1
      BY <1>2, <1>5, <1>8, <2>2
    <3>2. QED
      BY <1>8, <2>3, <3>1 DEF Between, UpTo
  <2>6. Findch(m, x) = g
    BY <1>5, <1>8, <1>9, <2>5, ChildOf
  <2>7. QED
    BY <1>8, <2>4, <2>6 DEF j
<1>12. QED
  BY <1>5, <1>8, <1>10, <1>11 DEF m

\* The halves of a full node p, whose middle separator is the key of neither.
Left(p, ver)  == Internal(ver, SplitKeys(p.keys)[1], SplitChs(p.chs)[1])
Right(p, ver) == Internal(ver, SplitKeys(p.keys)[2], SplitChs(p.chs)[2])

\* split and copych_split: each half keeps its part of the order and of the children.
LEMMA HalvesRoute ==
  ASSUME NEW S, NEW p \in InternalNodes(S), Routes(p), Len(p.keys) = MaxKeys, NEW ver \in Int
  PROVE  /\ Left(p, ver) \in InternalNodes(S) /\ Routes(Left(p, ver))
         /\ Right(p, ver) \in InternalNodes(S) /\ Routes(Right(p, ver))
         /\ p.keys[Half] \in Int
         /\ \A x \in Int :
              IF x < p.keys[Half]
              THEN Left(p, ver).chs[Findch(Left(p, ver), x)] = p.chs[Findch(p, x)]
              ELSE Right(p, ver).chs[Findch(Right(p, ver), x)] = p.chs[Findch(p, x)]
<1> DEFINE lk == SubSeq(p.keys, 1, Half - 1)
           rk == SubSeq(p.keys, Half + 1, MaxKeys)
           lc == SubSeq(p.chs, 1, Half)
           rc == SubSeq(p.chs, Half + 1, 2 * Half)
           l == Left(p, ver)
           r == Right(p, ver)
<1>1. Half \in Nat /\ Half >= 2 /\ MaxKeys = 2 * Half - 1
  BY NodeAssumption DEF MaxKeys
<1>2. /\ p.keys \in Seq(Int) /\ Len(p.keys) = 2 * Half - 1
      /\ p.chs \in Seq(S) /\ Len(p.chs) = 2 * Half
  BY <1>1 DEF InternalNodes, Routes
<1>3. \A k \in 1 .. 2 * Half - 1 : p.keys[k] \in Int
  BY <1>1, <1>2
<1>4. \A u, v \in 1 .. 2 * Half - 1 : u < v => p.keys[u] < p.keys[v]
  <2>1. DOMAIN p.keys = 1 .. 2 * Half - 1
    BY <1>1, <1>2
  <2>2. QED
    BY <2>1 DEF Routes, Ascending
<1>5. /\ lk \in Seq(Int) /\ Len(lk) = Half - 1 /\ DOMAIN lk = 1 .. Half - 1
      /\ \A k \in 1 .. Half - 1 : lk[k] = p.keys[k]
  BY <1>1, <1>2
<1>6. /\ rk \in Seq(Int) /\ Len(rk) = Half - 1 /\ DOMAIN rk = 1 .. Half - 1
      /\ \A k \in 1 .. Half - 1 : rk[k] = p.keys[Half + k]
  BY <1>1, <1>2
<1>7. lc \in Seq(S) /\ Len(lc) = Half /\ \A k \in 1 .. Half : lc[k] = p.chs[k]
  BY <1>1, <1>2
<1>8. rc \in Seq(S) /\ Len(rc) = Half /\ \A k \in 1 .. Half : rc[k] = p.chs[Half + k]
  BY <1>1, <1>2
<1>9. l.keys = lk /\ l.chs = lc /\ r.keys = rk /\ r.chs = rc
  BY DEF Left, Right, Internal, SplitKeys, SplitChs
<1> HIDE DEF lk, rk, lc, rc
<1>10. l \in InternalNodes(S) /\ r \in InternalNodes(S)
  BY <1>5, <1>6, <1>7, <1>8, <1>9 DEF Left, Right, Internal, InternalNodes
<1> HIDE DEF l, r
<1>11. Ascending(lk)
  <2> SUFFICES ASSUME NEW u \in 1 .. Half - 1, NEW v \in 1 .. Half - 1, u < v PROVE lk[u] < lk[v]
    BY <1>5 DEF Ascending
  <2>1. u \in 1 .. 2 * Half - 1 /\ v \in 1 .. 2 * Half - 1
    BY <1>1
  <2>2. QED
    BY <1>4, <1>5, <2>1
<1>12. Ascending(rk)
  <2> SUFFICES ASSUME NEW u \in 1 .. Half - 1, NEW v \in 1 .. Half - 1, u < v PROVE rk[u] < rk[v]
    BY <1>6 DEF Ascending
  <2>1. Half + u \in 1 .. 2 * Half - 1 /\ Half + v \in 1 .. 2 * Half - 1 /\ Half + u < Half + v
    BY <1>1
  <2>2. QED
    BY <1>4, <1>6, <2>1
<1>13. Routes(l) /\ Routes(r)
  BY <1>1, <1>5, <1>6, <1>7, <1>8, <1>9, <1>11, <1>12 DEF Routes
<1>14. ASSUME NEW x \in Int
       PROVE  IF x < p.keys[Half] THEN l.chs[Findch(l, x)] = p.chs[Findch(p, x)]
              ELSE r.chs[Findch(r, x)] = p.chs[Findch(p, x)]
  <2> DEFINE j == Findch(p, x)
  <2>1. j \in 1 .. 2 * Half /\ \A k \in 1 .. 2 * Half - 1 : p.keys[k] <= x <=> k < j
    <3>1. Between(p, x, j)
      BY <1>2, FindchBetween DEF Routes
    <3>2. (2 * Half - 1) + 1 = 2 * Half
      BY <1>1
    <3>3. QED
      BY <1>2, <3>1, <3>2 DEF Between
  <2> HIDE DEF j
  <2>2. Half \in 1 .. 2 * Half - 1 /\ p.keys[Half] \in Int
    BY <1>1, <1>3
  <2>3. CASE x < p.keys[Half]
    <3>1. ~ (p.keys[Half] <= x)
      BY <2>2, <2>3
    <3>2. j \in 1 .. Half
      BY <1>1, <2>1, <2>2, <3>1
    <3>3. \A k \in 1 .. Half - 1 : lk[k] <= x <=> k < j
      BY <1>1, <1>5, <2>1
    <3>4. Between(l, x, j)
      <4>1. Len(l.keys) = Half - 1 /\ j \in 1 .. (Half - 1) + 1
        BY <1>1, <1>5, <1>9, <3>2
      <4>2. QED
        BY <1>9, <3>3, <4>1 DEF Between
    <3>5. Findch(l, x) = j
      BY <1>5, <1>9, <1>11, <3>4, ChildOf
    <3>6. QED
      BY <1>7, <1>9, <2>3, <3>2, <3>5 DEF j
  <2>4. CASE ~ (x < p.keys[Half])
    <3>1. p.keys[Half] <= x
      BY <2>2, <2>4
    <3>2. j - Half \in 1 .. Half /\ Half + (j - Half) = j
      BY <1>1, <2>1, <2>2, <3>1
    <3>3. ASSUME NEW k \in 1 .. Half - 1 PROVE rk[k] <= x <=> k < j - Half
      <4>1. Half + k \in 1 .. 2 * Half - 1 /\ (Half + k < j <=> k < j - Half)
        BY <1>1, <2>1
      <4>2. QED
        BY <1>6, <2>1, <4>1
    <3>4. Between(r, x, j - Half)
      <4>1. Len(r.keys) = Half - 1 /\ j - Half \in 1 .. (Half - 1) + 1
        BY <1>1, <1>6, <1>9, <3>2
      <4>2. QED
        BY <1>9, <3>3, <4>1 DEF Between
    <3>5. Findch(r, x) = j - Half
      BY <1>6, <1>9, <1>12, <3>4, ChildOf
    <3>6. QED
      BY <1>8, <1>9, <2>4, <3>2, <3>5 DEF j
  <2>5. QED
    BY <2>3, <2>4
<1>15. QED
  BY <1>10, <1>13, <1>14, <1>1, <1>3 DEF l, r

\* update_cow before SEARCH_SPLIT, and handle_search_split: child i of n, the full node p,
\* becomes the two halves a and b around its middle separator.  In the node above and in the
\* halves separators stay in order, and every key reaches the grandchild that it reached
\* before.
THEOREM SplitKeepsRoutes ==
  ASSUME NEW S, NEW n \in InternalNodes(S), Routes(n), NEW i \in Nat,
         NEW p \in InternalNodes(S), Routes(p), Len(p.keys) = MaxKeys,
         \A k \in 1 .. MaxKeys : Fits(n, i, p.keys[k]),
         NEW a \in S, NEW b \in S, NEW ver \in Int
  PROVE  LET m == Install(n, i, p.keys[Half], <<a, b>>)
             l == Left(p, ver)
             r == Right(p, ver)
         IN
         /\ {m, l, r} \subseteq InternalNodes(S) /\ Routes(m) /\ Routes(l) /\ Routes(r)
         /\ \A x \in Int :
              IF Findch(n, x) # i THEN m.chs[Findch(m, x)] = n.chs[Findch(n, x)]
              ELSE IF x < p.keys[Half]
                   THEN m.chs[Findch(m, x)] = a /\ l.chs[Findch(l, x)] = p.chs[Findch(p, x)]
                   ELSE m.chs[Findch(m, x)] = b /\ r.chs[Findch(r, x)] = p.chs[Findch(p, x)]
<1> DEFINE sep == p.keys[Half]
           m == Install(n, i, sep, <<a, b>>)
           l == Left(p, ver)
           r == Right(p, ver)
<1>1. Half \in 1 .. MaxKeys
  BY NodeAssumption DEF MaxKeys
<1>2. sep \in Int /\ Fits(n, i, sep)
  BY <1>1, HalvesRoute
<1> HIDE DEF sep
<1>3. /\ m \in InternalNodes(S) /\ Routes(m)
      /\ \A x \in Int : m.chs[Findch(m, x)] = IF Findch(n, x) # i THEN n.chs[Findch(n, x)]
                                              ELSE IF x < sep THEN a ELSE b
  BY <1>2, InstallRoutes
<1>4. /\ l \in InternalNodes(S) /\ Routes(l) /\ r \in InternalNodes(S) /\ Routes(r)
      /\ \A x \in Int : IF x < sep THEN l.chs[Findch(l, x)] = p.chs[Findch(p, x)]
                        ELSE r.chs[Findch(r, x)] = p.chs[Findch(p, x)]
  BY HalvesRoute DEF sep
<1> HIDE DEF m, l, r
<1>5. QED
  BY <1>2, <1>3, <1>4 DEF sep, m, l, r

\* Leaves h of legal size, one or two, with the keys of an overflowing one between them.
LegalHalves(keys, h) ==
  /\ Len(h) \in 1 .. 2
  /\ \A j \in 1 .. Len(h) : h[j] \in Seq(Int) /\ Len(h[j]) \in 1 .. MaxKeys /\ Ascending(h[j])
  /\ \A k \in DOMAIN keys : \E j \in 1 .. Len(h) : \E u \in DOMAIN h[j] : h[j][u] = keys[k]
  /\ Len(h) = 2 => \A u \in DOMAIN h[1] : h[1][u] < h[2][1]

\* materialize_leaf_cow and prepare_leaf_cow: keys that two leaves can hold are put into one
\* or two of legal size that lose no key, and the first key of the right leaf, the separator
\* that insert_child gets, lies above all keys on the left.
THEOREM LeafHalves ==
  ASSUME NEW keys \in Seq(Int), Len(keys) \in 1 .. 2 * MaxKeys, Ascending(keys)
  PROVE  LegalHalves(keys, Halves(keys))
<1> DEFINE c == Len(keys)
           d == c \div 2
           f == SubSeq(keys, 1, d)
           g == SubSeq(keys, d + 1, c)
<1>1. MaxKeys \in Nat /\ MaxKeys >= 3
  BY NodeAssumption DEF MaxKeys
<1>2. c \in Nat /\ DOMAIN keys = 1 .. c /\ c \in 1 .. 2 * MaxKeys
  BY <1>1
<1>3. CASE c <= MaxKeys
  <2>1. PICK h : h = Halves(keys) /\ h = <<keys>>
    BY <1>3 DEF Halves
  <2>2. Len(h) = 1 /\ h[1] = keys /\ \A j \in 1 .. Len(h) : j = 1
    BY ONLY <2>1
  <2>3. LegalHalves(keys, h)
    BY <1>1, <1>2, <1>3, <2>2 DEF LegalHalves
  <2>4. QED
    BY ONLY <2>1, <2>3
<1>4. CASE c > MaxKeys
  <2>1. Halves(keys) = <<f, g>>
    BY <1>1, <1>2, <1>4 DEF Halves
  <2>2. d \in 1 .. MaxKeys /\ c - d \in 1 .. MaxKeys
    BY <1>1, <1>2, <1>4
  <2> HIDE DEF d
  <2>3. f \in Seq(Int) /\ Len(f) = d /\ DOMAIN f = 1 .. d /\ \A u \in 1 .. d : f[u] = keys[u]
    BY <1>2, <2>2
  <2>4. /\ g \in Seq(Int) /\ Len(g) = c - d /\ DOMAIN g = 1 .. c - d
        /\ \A u \in 1 .. c - d : g[u] = keys[d + u]
    <3> HIDE DEF c
    <3>1. d + 1 \in Nat /\ c - (d + 1) + 1 = c - d /\ c - d > 0 /\ c <= Len(keys)
      BY <1>2, <2>2 DEF c
    <3>2. g \in Seq(Int) /\ Len(g) = c - (d + 1) + 1
      BY <1>2, <2>2, <3>1
    <3>3. \A u \in 1 .. c - d : g[u] = keys[(d + 1) + u - 1] /\ (d + 1) + u - 1 = d + u
      BY <1>2, <2>2, <3>1
    <3>4. QED
      BY <3>1, <3>2, <3>3
  <2> HIDE DEF f, g
  <2>5. \A u, v \in 1 .. c : u < v => keys[u] < keys[v]
    BY <1>2 DEF Ascending
  <2>6. Ascending(f)
    <3> SUFFICES ASSUME NEW u \in 1 .. d, NEW v \in 1 .. d, u < v PROVE f[u] < f[v]
      BY <2>3 DEF Ascending
    <3>1. u \in 1 .. c /\ v \in 1 .. c
      BY <1>2, <2>2
    <3>2. QED
      BY <2>3, <2>5, <3>1
  <2>7. Ascending(g)
    <3> SUFFICES ASSUME NEW u \in 1 .. c - d, NEW v \in 1 .. c - d, u < v PROVE g[u] < g[v]
      BY <2>4 DEF Ascending
    <3>1. d + u \in 1 .. c /\ d + v \in 1 .. c /\ d + u < d + v
      BY <1>2, <2>2
    <3>2. QED
      BY <2>4, <2>5, <3>1
  <2>8. ASSUME NEW u \in 1 .. d PROVE f[u] < g[1]
    <3>1. u \in 1 .. c /\ d + 1 \in 1 .. c /\ u < d + 1 /\ 1 \in 1 .. c - d
      BY <1>2, <2>2
    <3>2. QED
      BY <2>3, <2>4, <2>5, <3>1
  <2>9. ASSUME NEW k \in 1 .. c
        PROVE  (\E u \in DOMAIN f : f[u] = keys[k]) \/ (\E u \in DOMAIN g : g[u] = keys[k])
    <3>1. CASE k <= d
      <4>1. k \in 1 .. d
        BY <1>2, <2>2, <3>1
      <4>2. QED
        BY <2>3, <4>1
    <3>2. CASE k > d
      <4>1. k - d \in 1 .. c - d /\ d + (k - d) = k
        BY <1>2, <2>2, <3>2
      <4>2. QED
        BY <2>4, <4>1
    <3>3. QED
      BY <1>2, <2>2, <3>1, <3>2
  <2>10. PICK h : h = Halves(keys) /\ h = <<f, g>>
    BY <2>1
  <2>11. Len(h) = 2 /\ h[1] = f /\ h[2] = g
    BY <2>10
  <2>12. \A j \in 1 .. Len(h) : j = 1 \/ j = 2
    BY <2>11
  <2>13. \A j \in 1 .. Len(h) : h[j] \in Seq(Int) /\ Len(h[j]) \in 1 .. MaxKeys /\ Ascending(h[j])
    BY <2>2, <2>3, <2>4, <2>6, <2>7, <2>11, <2>12
  <2>14. \A k \in DOMAIN keys : \E j \in 1 .. Len(h) : \E u \in DOMAIN h[j] : h[j][u] = keys[k]
    <3>1. 1 \in 1 .. Len(h) /\ 2 \in 1 .. Len(h)
      BY <2>11
    <3>2. QED
      BY <1>2, <2>9, <2>11, <3>1
  <2>15. \A u \in DOMAIN h[1] : h[1][u] < h[2][1]
    BY <2>3, <2>8, <2>11
  <2>16. LegalHalves(keys, h)
    BY ONLY <2>11, <2>13, <2>14, <2>15 DEF LegalHalves
  <2>17. QED
    BY ONLY <2>10, <2>16
<1>5. c <= MaxKeys \/ c > MaxKeys
  BY <1>1, <1>2
<1> HIDE DEF c, d, f, g
<1>6. QED
  BY ONLY <1>3, <1>4, <1>5

-----------------------------------------------------------------------------
(***************************************************************************)
(* The nodes of all versions as a graph.  C[n] are the children of n, U    *)
(* the nodes whose children are still to be copied, R[x] the nodes that    *)
(* ticket x has replaced and L[x] those of them whose children its own     *)
(* nodes have by now.                                                      *)
(***************************************************************************)
Edge(C, p, i) == p \in DOMAIN C /\ i \in DOMAIN C[p]

\* A child is not newer than its parent; what is unfinished has no children yet,
\* and only nodes of its own ticket above it.
Nodes(C, U) ==
  /\ None \in DOMAIN C /\ C[None] = <<>> /\ None \notin U /\ U \subseteq DOMAIN C
  /\ \A p \in DOMAIN C : C[p] \in Seq(DOMAIN C) /\ p[1] \in Nat
  /\ \A p, i : Edge(C, p, i) =>
       /\ C[p][i][1] <= p[1]
       /\ C[p][i] = None <=> p \in U
       /\ C[p][i] \in U => C[p][i][1] = p[1]

\* One ticket at most replaces a node, a later one than made it.
Retirements(C, R, L, U) ==
  /\ \A x \in Nat : L[x] \subseteq R[x] /\ R[x] \subseteq DOMAIN C
  /\ \A x \in Nat : \A n \in R[x] : n # None /\ n[1] < x
  /\ \A x, y \in Nat : \A n : n \in R[x] /\ n \in R[y] => x = y
  /\ \A x \in Nat : \A n : n \in L[x] => n \notin U

\* Above a replaced node all is replaced, not later, and left.
GoneAbove(C, R, L) ==
  \A u \in Nat : \A p, i : Edge(C, p, i) /\ C[p][i] \in R[u] => \E x \in Nat : x <= u /\ p \in L[x]

\* Of two parents of a node the older one was left by a ticket not after the newer.
OneParent(C, L) ==
  \A p, i, q, j : Edge(C, p, i) /\ Edge(C, q, j) /\ C[p][i] = C[q][j] /\ C[p][i] # None =>
    \/ p = q /\ i = j
    \/ p # q /\ \E x \in Nat : x <= p[1] /\ q \in L[x]
    \/ p # q /\ \E x \in Nat : x <= q[1] /\ p \in L[x]

Forest(C, R, L, U) == Nodes(C, U) /\ Retirements(C, R, L, U) /\ GoneAbove(C, R, L) /\ OneParent(C, L)

\* The root of version t: finished, nobody's child, replaced by none up to t.
Top(C, R, U, r, t) ==
  /\ r \in DOMAIN C /\ r # None /\ r \notin U /\ r[1] <= t
  /\ \A p, i : Edge(C, p, i) => C[p][i] # r
  /\ \A x \in Nat : x <= t => r \notin R[x]

\* Ticket t replaces, or leaves, the nodes S.
Adds(R, R1, t, S) == \A x \in Nat : R1[x] = IF x = t THEN R[t] \cup S ELSE R[x]

\* New nodes F of ticket t, with children among themselves or, those in V, none yet.
Grown(C, C1, F, V, t) ==
  /\ DOMAIN C1 = DOMAIN C \cup F /\ F \cap DOMAIN C = {} /\ V \subseteq F /\ t \in Nat
  /\ \A p \in DOMAIN C : C1[p] = C[p]
  /\ \A f \in F : f[1] = t /\ C1[f] \in Seq(F \cup {None})
  /\ \A f, i : f \in F /\ Edge(C1, f, i) => (C1[f][i] = None <=> f \in V)
  /\ \A f, g, i, j : f \in F /\ g \in F /\ Edge(C1, f, i) /\ Edge(C1, g, j) /\ C1[f][i] = C1[g][j]
       /\ C1[f][i] # None => f = g /\ i = j

LEMMA GrowForest ==
  ASSUME NEW C, NEW R, NEW L, NEW U, NEW C1, NEW F, NEW V, NEW t,
         Forest(C, R, L, U), Grown(C, C1, F, V, t)
  PROVE  Forest(C1, R, L, U \cup V)
<1>1. \A p, i : p \in DOMAIN C => (Edge(C1, p, i) <=> Edge(C, p, i))
  BY DEF Grown, Edge
<1>2. \A p, i : Edge(C1, p, i) => \/ p \in DOMAIN C /\ Edge(C, p, i) /\ C1[p][i] = C[p][i]
                                  \/ p \in F
  BY DEF Grown, Edge
<1>3. \A p, i : Edge(C, p, i) => C[p][i] \in DOMAIN C
  BY DEF Forest, Nodes, Edge
<1>4. \A p, i : p \in F /\ Edge(C1, p, i) => C1[p][i] \in F \cup {None}
  BY DEF Grown, Edge
<1>5. None[1] = 0
  BY DEF None
<1>6. Nodes(C1, U \cup V)
  <2>1. None \in DOMAIN C1 /\ C1[None] = <<>> /\ None \notin U \cup V /\ U \cup V \subseteq DOMAIN C1
    BY DEF Forest, Nodes, Grown
  <2>2. ASSUME NEW p \in DOMAIN C1 PROVE C1[p] \in Seq(DOMAIN C1) /\ p[1] \in Nat
    <3>1. CASE p \in DOMAIN C
      BY <3>1 DEF Forest, Nodes, Grown
    <3>2. CASE p \in F
      <4>1. F \cup {None} \subseteq DOMAIN C1
        BY <2>1 DEF Grown
      <4>2. QED
        BY <3>2, <4>1 DEF Grown
    <3>3. QED
      BY <3>1, <3>2 DEF Grown
  <2>3. ASSUME NEW p, NEW i, Edge(C1, p, i)
        PROVE  /\ C1[p][i][1] <= p[1]
               /\ C1[p][i] = None <=> p \in U \cup V
               /\ C1[p][i] \in U \cup V => C1[p][i][1] = p[1]
    <3>1. CASE p \in DOMAIN C
      <4>1. Edge(C, p, i) /\ C1[p][i] = C[p][i] /\ C[p][i] \in DOMAIN C
        BY <1>1, <1>3, <2>3, <3>1 DEF Grown
      <4>2. p \notin V /\ C[p][i] \notin V
        BY <3>1, <4>1 DEF Grown
      <4>3. QED
        BY <4>1, <4>2 DEF Forest, Nodes
    <3>2. CASE p \in F
      <4>1. C1[p][i] \in F \cup {None} /\ p[1] = t /\ t \in Nat
        BY <1>4, <2>3, <3>2 DEF Grown
      <4>2. \A f \in F : f[1] = t
        BY DEF Grown
      <4>3. p \notin U /\ (C1[p][i] = None <=> p \in V)
        BY <2>3, <3>2 DEF Grown, Forest, Nodes
      <4>4. None \notin U \cup V
        BY <2>1
      <4>5. QED
        BY <1>5, <4>1, <4>2, <4>3, <4>4
    <3>3. QED
      BY <2>3, <3>1, <3>2 DEF Edge, Grown
  <2>4. QED
    BY <2>1, <2>2, <2>3 DEF Nodes
<1>7. Retirements(C1, R, L, U \cup V)
  BY DEF Forest, Retirements, Grown
<1>8. GoneAbove(C1, R, L)
  <2>1. SUFFICES ASSUME NEW u \in Nat, NEW p, NEW i, Edge(C1, p, i), C1[p][i] \in R[u]
                 PROVE  \E x \in Nat : x <= u /\ p \in L[x]
    BY DEF GoneAbove
  <2>2. C1[p][i] \in DOMAIN C /\ C1[p][i] # None
    BY <2>1 DEF Forest, Retirements
  <2>3. p \notin F
    BY <1>4, <2>1, <2>2 DEF Grown
  <2>4. QED
    BY <1>2, <2>1, <2>3 DEF Forest, GoneAbove
<1>9. OneParent(C1, L)
  <2>1. SUFFICES ASSUME NEW p, NEW i, NEW q, NEW j, Edge(C1, p, i), Edge(C1, q, j),
                        C1[p][i] = C1[q][j], C1[p][i] # None
                 PROVE  \/ p = q /\ i = j
                        \/ p # q /\ \E x \in Nat : x <= p[1] /\ q \in L[x]
                        \/ p # q /\ \E x \in Nat : x <= q[1] /\ p \in L[x]
    BY DEF OneParent
  <2>2. CASE p \in F /\ q \in F
    BY <2>1, <2>2 DEF Grown
  <2>3. CASE p \in DOMAIN C /\ q \in DOMAIN C
    <3>1. Edge(C, p, i) /\ Edge(C, q, j) /\ C[p][i] = C[q][j] /\ C[p][i] # None
      BY <1>1, <2>1, <2>3 DEF Grown
    <3>2. QED
      BY <3>1 DEF Forest, OneParent
  <2>4. CASE p \in F /\ q \in DOMAIN C
    BY <1>2, <1>3, <1>4, <2>1, <2>4 DEF Grown
  <2>5. CASE p \in DOMAIN C /\ q \in F
    BY <1>2, <1>3, <1>4, <2>1, <2>5 DEF Grown
  <2>6. QED
    BY <2>1, <2>2, <2>3, <2>4, <2>5 DEF Edge, Grown
<1>10. QED
  BY <1>6, <1>7, <1>8, <1>9 DEF Forest

\* The unfinished nodes K of ticket t get the children of q, each of them its own.
Filled(C, C1, q, K, off, t) ==
  /\ DOMAIN C1 = DOMAIN C /\ K \subseteq DOMAIN C /\ q \in DOMAIN C /\ q \notin K /\ t \in Nat
  /\ \A p \in DOMAIN C \ K : C1[p] = C[p]
  /\ \A p \in K : p[1] = t /\ C1[p] \in Seq(DOMAIN C)
  /\ \A p, i : p \in K /\ Edge(C1, p, i) => off[p] + i \in DOMAIN C[q] /\ C1[p][i] = C[q][off[p] + i]
  /\ \A p, r, i, j : p \in K /\ r \in K /\ Edge(C1, p, i) /\ Edge(C1, r, j)
       /\ off[p] + i = off[r] + j => p = r /\ i = j

LEMMA FillForest ==
  ASSUME NEW C, NEW R, NEW L, NEW U, NEW C1, NEW q, NEW K, NEW off, NEW t, NEW R1, NEW L1,
         Forest(C, R, L, U), Filled(C, C1, q, K, off, t),
         K \subseteq U, q \notin U, q # None, q[1] < t,
         \A x \in Nat : q \notin L[x],
         \A x \in Nat : q \in R[x] => x = t,
         q \in R[t] \/ \A p, i : Edge(C, p, i) => C[p][i] # q,
         Adds(R, R1, t, {q}), Adds(L, L1, t, {q}),
         \A i : Edge(C, q, i) => C[q][i] \notin U
  PROVE  Forest(C1, R1, L1, U \ K)
<1> USE DEF Adds
<1>1. \A p, i : Edge(C1, p, i) => \/ p \in DOMAIN C \ K /\ Edge(C, p, i) /\ C1[p][i] = C[p][i]
                                  \/ p \in K
  BY DEF Filled, Edge
<1>2. \A p, i : p \in K /\ Edge(C1, p, i) => Edge(C, q, off[p] + i) /\ C1[p][i] = C[q][off[p] + i]
  BY DEF Filled, Edge
<1>3. \A p, i : Edge(C, p, i) => C[p][i] \in DOMAIN C
  BY DEF Forest, Nodes, Edge
<1>4. \A x \in Nat : \A n : n \in L[x] => n \in R[x] /\ n \notin U
  BY DEF Forest, Retirements
<1>5. t \in Nat /\ q \in DOMAIN C /\ \A p \in K : p[1] = t /\ p \in U
  BY DEF Filled
<1>6. Nodes(C1, U \ K)
  <2>1. None \in DOMAIN C1 /\ C1[None] = <<>> /\ None \notin U \ K /\ U \ K \subseteq DOMAIN C1
    <3>1. None \notin K
      BY DEF Forest, Nodes
    <3>2. QED
      BY <3>1 DEF Forest, Nodes, Filled
  <2>2. ASSUME NEW p \in DOMAIN C1 PROVE C1[p] \in Seq(DOMAIN C1) /\ p[1] \in Nat
    BY DEF Forest, Nodes, Filled
  <2>3. ASSUME NEW p, NEW i, Edge(C1, p, i)
        PROVE  /\ C1[p][i][1] <= p[1]
               /\ C1[p][i] = None <=> p \in U \ K
               /\ C1[p][i] \in U \ K => C1[p][i][1] = p[1]
    <3>1. CASE p \in DOMAIN C \ K
      <4>1. Edge(C, p, i) /\ C1[p][i] = C[p][i]
        BY <1>1, <2>3, <3>1
      <4>2. /\ C[p][i][1] <= p[1]
            /\ C[p][i] = None <=> p \in U
            /\ C[p][i] \in U => C[p][i][1] = p[1]
        BY <4>1 DEF Forest, Nodes
      <4>3. QED
        BY <3>1, <4>1, <4>2
    <3>2. CASE p \in K
      <4>1. PICK j : Edge(C, q, j) /\ C1[p][i] = C[q][j]
        BY <1>2, <2>3, <3>2
      <4>2. C[q][j][1] <= q[1] /\ C[q][j] # None /\ C[q][j] \notin U
        BY <4>1 DEF Forest, Nodes
      <4>3. C[q][j][1] \in Nat /\ q[1] \in Nat
        BY <1>3, <1>5, <4>1 DEF Forest, Nodes
      <4>4. QED
        BY <1>5, <3>2, <4>1, <4>2, <4>3
    <3>3. QED
      BY <1>1, <2>3, <3>1, <3>2
  <2>4. QED
    BY <2>1, <2>2, <2>3 DEF Nodes
<1>7. Retirements(C1, R1, L1, U \ K)
  <2>1. ASSUME NEW x \in Nat PROVE L1[x] \subseteq R1[x] /\ R1[x] \subseteq DOMAIN C1
    BY <1>5 DEF Forest, Retirements, Filled
  <2>2. ASSUME NEW x \in Nat, NEW n \in R1[x] PROVE n # None /\ n[1] < x
    BY <1>5 DEF Forest, Retirements
  <2>3. ASSUME NEW x \in Nat, NEW y \in Nat, NEW n, n \in R1[x], n \in R1[y] PROVE x = y
    BY <1>5, <2>3 DEF Forest, Retirements
  <2>4. ASSUME NEW x \in Nat, NEW n, n \in L1[x] PROVE n \notin U \ K
    BY <1>4, <1>5, <2>4
  <2>5. QED
    BY <2>1, <2>2, <2>3, <2>4 DEF Retirements
\* No child of q is retired: q would have been left.
<1>8. ASSUME NEW u \in Nat, NEW j, Edge(C, q, j) PROVE C[q][j] \notin R1[u]
  <2>1. C[q][j] \notin R[u]
    BY <1>8 DEF Forest, GoneAbove
  <2>2. C[q][j] # q
    <3>1. CASE q \in R[t]
      <4>1. \A x \in Nat : x = t => C[q][j] \notin R[x]
        BY <1>8 DEF Forest, GoneAbove
      <4>2. QED
        BY <1>5, <3>1, <4>1
    <3>2. QED
      BY <1>8, <3>1
  <2>3. QED
    BY <2>1, <2>2
<1>9. GoneAbove(C1, R1, L1)
  <2>1. SUFFICES ASSUME NEW u \in Nat, NEW p, NEW i, Edge(C1, p, i), C1[p][i] \in R1[u]
                 PROVE  \E x \in Nat : x <= u /\ p \in L1[x]
    BY DEF GoneAbove
  <2>2. p \in DOMAIN C \ K /\ Edge(C, p, i) /\ C1[p][i] = C[p][i]
    BY <1>1, <1>2, <1>8, <2>1
  <2>3. CASE C[p][i] \in R[u]
    <3>1. PICK x \in Nat : x <= u /\ p \in L[x]
      BY <2>2, <2>3 DEF Forest, GoneAbove
    <3>2. p \in L1[x]
      BY <3>1, <1>5
    <3>3. QED
      BY <3>1, <3>2
  <2>4. CASE C[p][i] \notin R[u]
    <3>1. u = t /\ C[p][i] = q
      BY <1>5, <2>1, <2>2, <2>4
    <3>2. q \in R[t]
      BY <2>2, <3>1
    <3>3. PICK x \in Nat : x <= u /\ p \in L[x]
      BY <1>5, <2>2, <3>1, <3>2 DEF Forest, GoneAbove
    <3>4. p \in L1[x]
      BY <3>3, <1>5
    <3>5. QED
      BY <3>3, <3>4
  <2>5. QED
    BY <2>3, <2>4
<1>10. OneParent(C1, L1)
  <2>1. ASSUME NEW p, NEW i, NEW r, NEW j, Edge(C1, p, i), Edge(C1, r, j),
               C1[p][i] = C1[r][j], C1[p][i] # None, p \in K
        PROVE  \/ p = r /\ i = j
               \/ p # r /\ \E x \in Nat : x <= p[1] /\ r \in L1[x]
               \/ p # r /\ \E x \in Nat : x <= r[1] /\ p \in L1[x]
    <3>1. PICK a : a = off[p] + i /\ Edge(C, q, a) /\ C1[p][i] = C[q][a] /\ p[1] = t
      BY <1>2, <1>5, <2>1
    <3>2. CASE r \in K
      <4>1. PICK b : b = off[r] + j /\ Edge(C, q, b) /\ C1[r][j] = C[q][b]
        BY <1>2, <2>1, <3>2
      <4>2. a = b
        <5>1. C[q][a] = C[q][b] /\ C[q][a] # None
          BY <2>1, <3>1, <4>1
        <5>2. OneParent(C, L)
          BY DEF Forest
        <5>3. \/ q = q /\ a = b
              \/ q # q
          BY <3>1, <4>1, <5>1, <5>2, Zenon DEF OneParent
        <5>4. QED
          BY <5>3
      <4>3. QED
        BY <2>1, <3>1, <3>2, <4>1, <4>2 DEF Filled
    <3>3. CASE r = q
      <4>1. r \in L1[t] /\ t <= p[1] /\ p # r
        BY <1>5, <2>1, <3>1, <3>3 DEF Filled
      <4>2. QED
        BY <1>5, <4>1
    <3>4. CASE r \notin K /\ r # q
      <4>1. Edge(C, r, j) /\ C1[r][j] = C[r][j]
        BY <1>1, <2>1, <3>4
      <4>2. PICK x \in Nat : x <= q[1] /\ r \in L[x]
        <5>1. \E x \in Nat : x <= q[1] /\ r \in L[x]
          BY <2>1, <3>1, <3>4, <4>1 DEF Forest, OneParent
        <5>2. QED
          BY <5>1
      <4>3. q[1] \in Nat
        BY <1>5 DEF Forest, Nodes
      <4>4. x <= p[1] /\ r \in L1[x] /\ p # r
        BY <1>5, <2>1, <3>1, <3>4, <4>2, <4>3
      <4>5. QED
        BY <4>4
    <3>5. QED
      BY <3>2, <3>3, <3>4
  <2>2. ASSUME NEW p, NEW i, NEW r, NEW j, Edge(C1, p, i), Edge(C1, r, j),
               C1[p][i] = C1[r][j], C1[p][i] # None, p \notin K, r \notin K
        PROVE  \/ p = r /\ i = j
               \/ p # r /\ \E x \in Nat : x <= p[1] /\ r \in L1[x]
               \/ p # r /\ \E x \in Nat : x <= r[1] /\ p \in L1[x]
    <3>1. Edge(C, p, i) /\ Edge(C, r, j) /\ C[p][i] = C[r][j] /\ C[p][i] # None
      BY <1>1, <2>2
    <3>2. \A x \in Nat : L[x] \subseteq L1[x]
      BY <1>5
    <3>3. \/ p = r /\ i = j
          \/ p # r /\ \E x \in Nat : x <= p[1] /\ r \in L[x]
          \/ p # r /\ \E x \in Nat : x <= r[1] /\ p \in L[x]
      BY <3>1 DEF Forest, OneParent
    <3>4. QED
      BY <3>2, <3>3
  <2>3. ASSUME NEW p, NEW i, NEW r, NEW j, Edge(C1, p, i), Edge(C1, r, j),
               C1[p][i] = C1[r][j], C1[p][i] # None
        PROVE  \/ p = r /\ i = j
               \/ p # r /\ \E x \in Nat : x <= p[1] /\ r \in L1[x]
               \/ p # r /\ \E x \in Nat : x <= r[1] /\ p \in L1[x]
    <3>1. CASE p \in K
      BY <2>1, <2>3, <3>1
    <3>2. CASE r \in K
      <4>1. \/ r = p /\ j = i
            \/ r # p /\ \E x \in Nat : x <= r[1] /\ p \in L1[x]
            \/ r # p /\ \E x \in Nat : x <= p[1] /\ r \in L1[x]
        BY <2>1, <2>3, <3>2
      <4>2. QED
        BY <4>1
    <3>3. QED
      BY <2>2, <2>3, <3>1, <3>2
  <2>4. QED
    BY <2>3 DEF OneParent
<1>11. QED
  BY <1>6, <1>7, <1>9, <1>10 DEF Forest

\* Child i of cur gives way to nodes of M.
Swapped(C, C1, cur, i, M) ==
  /\ DOMAIN C1 = DOMAIN C /\ Edge(C, cur, i) /\ M \subseteq DOMAIN C /\ C1[cur] \in Seq(DOMAIN C)
  /\ \A p \in DOMAIN C : p # cur => C1[p] = C[p]
  /\ \A k : Edge(C1, cur, k) => \/ C1[cur][k] \in M
                                \/ \E j : j # i /\ Edge(C, cur, j) /\ C1[cur][k] = C[cur][j]
  /\ \A k, l : Edge(C1, cur, k) /\ Edge(C1, cur, l) /\ C1[cur][k] = C1[cur][l] => k = l

\* Nodes of ticket t with no parent yet.
Orphans(C, R, M, t) ==
  /\ \A m \in M : m # None /\ m[1] = t
  /\ \A m \in M : \A p, i : Edge(C, p, i) => C[p][i] # m
  /\ \A m \in M : \A x \in Nat : m \notin R[x]

LEMMA SwapForest ==
  ASSUME NEW C, NEW R, NEW L, NEW U, NEW C1, NEW cur, NEW i, NEW n, NEW M, NEW t \in Nat,
         NEW R1, NEW L1, NEW Z,
         Forest(C, R, L, U), Swapped(C, C1, cur, i, M), Orphans(C, R, M, t),
         n = C[cur][i], n[1] < t, n \notin U,
         cur \notin U, cur[1] = t, \A x \in Nat : cur \notin L[x],
         Z \subseteq {n}, Adds(R, R1, t, {n}), Adds(L, L1, t, Z)
  PROVE  Forest(C1, R1, L1, U)
<1> USE DEF Adds
<1>1. \A p, k : Edge(C1, p, k) => \/ p # cur /\ Edge(C, p, k) /\ C1[p][k] = C[p][k]
                                  \/ p = cur
  BY DEF Swapped, Edge
<1>2. Edge(C, cur, i) /\ \A p, k : Edge(C, p, k) => C[p][k] \in DOMAIN C
  BY DEF Forest, Nodes, Edge, Swapped
<1>3. \A k : Edge(C, cur, k) => C[cur][k] # None /\ \A x \in Nat : C[cur][k] \notin R[x]
  BY <1>2 DEF Forest, Nodes, GoneAbove
<1>4. ASSUME NEW k, Edge(C1, cur, k)
      PROVE  /\ C1[cur][k] # n
             /\ C1[cur][k] # None
             /\ \A x \in Nat : C1[cur][k] \notin R[x]
  <2>1. CASE C1[cur][k] \in M
    BY <1>2, <2>1 DEF Orphans
  <2>2. CASE \E j : j # i /\ Edge(C, cur, j) /\ C1[cur][k] = C[cur][j]
    <3>1. PICK j : j # i /\ Edge(C, cur, j) /\ C1[cur][k] = C[cur][j]
      BY <2>2
    <3>2. C[cur][j] # C[cur][i]
      <4>1. OneParent(C, L)
        BY DEF Forest
      <4>2. SUFFICES ASSUME C[cur][j] = C[cur][i] PROVE FALSE
        OBVIOUS
      <4>3. \/ cur = cur /\ j = i
            \/ cur # cur
        BY <1>2, <1>3, <3>1, <4>1, <4>2, Zenon DEF OneParent
      <4>4. QED
        BY <3>1, <4>3
    <3>3. QED
      BY <1>3, <3>1, <3>2
  <2>3. QED
    BY <1>4, <2>1, <2>2 DEF Swapped
<1>5. n # None /\ n \in DOMAIN C /\ \A x \in Nat : n \notin R[x]
  BY <1>2, <1>3
<1>6. Nodes(C1, U)
  <2>1. None \in DOMAIN C1 /\ C1[None] = <<>> /\ None \notin U /\ U \subseteq DOMAIN C1
    <3>1. cur # None
      BY <1>2 DEF Forest, Nodes, Edge
    <3>2. QED
      BY <3>1 DEF Forest, Nodes, Swapped
  <2>2. ASSUME NEW p \in DOMAIN C1 PROVE C1[p] \in Seq(DOMAIN C1) /\ p[1] \in Nat
    BY DEF Forest, Nodes, Swapped
  <2>3. ASSUME NEW p, NEW k, Edge(C1, p, k)
        PROVE  /\ C1[p][k][1] <= p[1]
               /\ C1[p][k] = None <=> p \in U
               /\ C1[p][k] \in U => C1[p][k][1] = p[1]
    <3>1. CASE p # cur
      <4>1. Edge(C, p, k) /\ C1[p][k] = C[p][k]
        BY <1>1, <2>3, <3>1
      <4>2. QED
        BY <4>1 DEF Forest, Nodes
    <3>2. CASE p = cur
      <4>1. C1[cur][k] # None
        BY <1>4, <2>3, <3>2
      <4>2. CASE C1[cur][k] \in M
        BY <3>2, <4>1, <4>2 DEF Orphans
      <4>3. CASE \E j : j # i /\ Edge(C, cur, j) /\ C1[cur][k] = C[cur][j]
        BY <3>2, <4>1, <4>3 DEF Forest, Nodes
      <4>4. QED
        BY <2>3, <3>2, <4>2, <4>3 DEF Swapped
    <3>3. QED
      BY <3>1, <3>2
  <2>4. QED
    BY <2>1, <2>2, <2>3 DEF Nodes
<1>7. Retirements(C1, R1, L1, U)
  <2>1. ASSUME NEW x \in Nat PROVE L1[x] \subseteq R1[x] /\ R1[x] \subseteq DOMAIN C1
    BY <1>5 DEF Forest, Retirements, Swapped
  <2>2. ASSUME NEW x \in Nat, NEW m \in R1[x] PROVE m # None /\ m[1] < x
    BY <1>5 DEF Forest, Retirements
  <2>3. ASSUME NEW x \in Nat, NEW y \in Nat, NEW m, m \in R1[x], m \in R1[y] PROVE x = y
    BY <1>5, <2>3 DEF Forest, Retirements
  <2>4. ASSUME NEW x \in Nat, NEW m, m \in L1[x] PROVE m \notin U
    BY <2>4 DEF Forest, Retirements
  <2>5. QED
    BY <2>1, <2>2, <2>3, <2>4 DEF Retirements
<1>8. \A x \in Nat : L[x] \subseteq L1[x]
  OBVIOUS
<1>9. GoneAbove(C1, R1, L1)
  <2>1. SUFFICES ASSUME NEW u \in Nat, NEW p, NEW k, Edge(C1, p, k), C1[p][k] \in R1[u]
                 PROVE  \E x \in Nat : x <= u /\ p \in L1[x]
    BY DEF GoneAbove
  <2>2. p # cur /\ Edge(C, p, k) /\ C1[p][k] = C[p][k]
    BY <1>1, <1>4, <2>1
  <2>3. CASE C[p][k] \in R[u]
    <3>1. PICK x \in Nat : x <= u /\ p \in L[x]
      BY <2>2, <2>3 DEF Forest, GoneAbove
    <3>2. QED
      BY <1>8, <3>1
  <2>4. CASE C[p][k] \notin R[u]
    <3>1. u = t /\ C[p][k] = n
      BY <2>1, <2>2, <2>4
    <3>2. OneParent(C, L) /\ C[p][k] = C[cur][i] /\ C[p][k] # None
      BY <1>5, <3>1 DEF Forest
    <3>3. \/ \E x \in Nat : x <= p[1] /\ cur \in L[x]
          \/ \E x \in Nat : x <= cur[1] /\ p \in L[x]
      BY <1>2, <2>2, <3>2, Zenon DEF OneParent
    <3>4. PICK x \in Nat : x <= t /\ p \in L[x]
      BY <3>3
    <3>5. QED
      BY <1>8, <3>1, <3>4
  <2>5. QED
    BY <2>3, <2>4
<1>10. ASSUME NEW p, NEW k, NEW r, NEW j, Edge(C1, p, k), Edge(C, r, j), r # cur,
              C1[p][k] = C[r][j], C1[p][k] # None,
              p # cur => Edge(C, p, k) /\ C1[p][k] = C[p][k]
       PROVE  \/ p = r /\ k = j
              \/ p # r /\ \E x \in Nat : x <= p[1] /\ r \in L1[x]
              \/ p # r /\ \E x \in Nat : x <= r[1] /\ p \in L1[x]
  <2>1. C1[p][k] \notin M
    BY <1>10 DEF Orphans
  <2>2. PICK j2 : Edge(C, p, j2) /\ C1[p][k] = C[p][j2] /\ (p # cur => j2 = k)
    BY <1>1, <1>10, <2>1 DEF Swapped
  <2>3. OneParent(C, L) /\ C[p][j2] = C[r][j] /\ C[p][j2] # None
    BY <1>10, <2>2 DEF Forest
  <2>4. \/ p = r /\ j2 = j
        \/ p # r /\ \E x \in Nat : x <= p[1] /\ r \in L[x]
        \/ p # r /\ \E x \in Nat : x <= r[1] /\ p \in L[x]
    BY <1>10, <2>2, <2>3, Zenon DEF OneParent
  <2>5. QED
    BY <1>8, <1>10, <2>2, <2>4
<1>11. OneParent(C1, L1)
  <2>1. ASSUME NEW p, NEW k, NEW r, NEW j, Edge(C1, p, k), Edge(C1, r, j),
               C1[p][k] = C1[r][j], C1[p][k] # None
        PROVE  \/ p = r /\ k = j
               \/ p # r /\ \E x \in Nat : x <= p[1] /\ r \in L1[x]
               \/ p # r /\ \E x \in Nat : x <= r[1] /\ p \in L1[x]
    <3>1. CASE r # cur
      <4>1. Edge(C, r, j) /\ C1[p][k] = C[r][j] /\ (p # cur => Edge(C, p, k) /\ C1[p][k] = C[p][k])
        BY <1>1, <2>1, <3>1
      <4>2. QED
        BY <1>10, <2>1, <3>1, <4>1
    <3>2. CASE r = cur /\ p # cur
      <4> Edge(C, p, k) /\ C1[r][j] = C[p][k] /\ r = cur /\ C1[r][j] # None
        BY <1>1, <2>1, <3>2
      <4>1. \/ r = p /\ j = k
            \/ r # p /\ \E x \in Nat : x <= r[1] /\ p \in L1[x]
            \/ r # p /\ \E x \in Nat : x <= p[1] /\ r \in L1[x]
        BY <1>1, <1>10, <2>1, <3>2
      <4>2. QED
        BY <4>1
    <3>3. CASE r = cur /\ p = cur
      BY <2>1, <3>3 DEF Swapped
    <3>4. QED
      BY <3>1, <3>2, <3>3
  <2>2. QED
    BY <2>1 DEF OneParent
<1>12. QED
  BY <1>6, <1>7, <1>9, <1>11 DEF Forest

-----------------------------------------------------------------------------
(***************************************************************************)
(* What a handler does to the nodes.                                       *)
(***************************************************************************)
IsSeq(s) == \E S : s \in Seq(S)

IsNode(n) ==
  /\ n = [ver |-> n.ver, leaf |-> n.leaf, keys |-> n.keys, vals |-> n.vals, chs |-> n.chs,
          ready |-> n.ready, slots |-> n.slots]
  /\ n.leaf \in BOOLEAN /\ n.ready \in BOOLEAN /\ IsSeq(n.slots) /\ IsSeq(n.chs)
  /\ n.leaf => n.chs = <<>>
  /\ ~ n.leaf => IsSeq(n.keys) /\ Len(n.chs) = Len(n.keys) + 1

LEMMA LengthIs ==
  ASSUME NEW s, IsSeq(s)
  PROVE  Len(s) \in Nat /\ DOMAIN s = 1 .. Len(s)
BY DEF IsSeq

LEMMA SequenceIs ==
  ASSUME NEW m \in Nat, NEW f, f = [i \in 1 .. m |-> f[i]]
  PROVE  IsSeq(f) /\ Len(f) = m
<1> DEFINE T == {f[i] : i \in 1 .. m}
<1>1. \A i \in 1 .. m : f[i] \in T
  OBVIOUS
<1> HIDE DEF T
<1>2. f \in Seq(T) /\ Len(f) = m
  BY <1>1
<1>3. QED
  BY <1>2 DEF IsSeq

\* findch finds a child.
LEMMA FindchIs ==
  ASSUME NEW n, IsNode(n), ~ n.leaf, NEW key
  PROVE  Findch(n, key) \in DOMAIN n.chs
<1> DEFINE S == {i \in DOMAIN n.keys : n.keys[i] <= key}
<1>1. /\ Len(n.keys) \in Nat /\ DOMAIN n.keys = 1 .. Len(n.keys)
      /\ Len(n.chs) = Len(n.keys) + 1 /\ DOMAIN n.chs = 1 .. Len(n.chs)
  BY LengthIs DEF IsNode
<1>2. /\ S \in SUBSET (1 .. Len(n.keys))
      /\ IsFiniteSet(1 .. Len(n.keys)) /\ Cardinality(1 .. Len(n.keys)) = Len(n.keys)
  <2>1. Len(n.keys) \in Int
    BY <1>1
  <2>2. IsFiniteSet(1 .. Len(n.keys)) /\ Cardinality(1 .. Len(n.keys)) = Len(n.keys)
    BY <1>1, <2>1, FS_Interval
  <2>3. QED
    BY <1>1, <2>2
<1>3. IsFiniteSet(S) /\ Cardinality(S) \in Nat /\ Cardinality(S) <= Len(n.keys)
  BY <1>2, FS_Subset, FS_CardinalityType
<1>4. Findch(n, key) = 1 + Cardinality(S)
  BY DEF Findch
<1> HIDE DEF S
<1>5. QED
  BY <1>1, <1>3, <1>4

\* s with N in the place of element i.
Replaced(s, i, N) == SubSeq(s, 1, i - 1) \o N \o SubSeq(s, i + 1, Len(s))

Places(s, i, N, r) ==
  /\ Len(r) = Len(s) + Len(N) - 1
  /\ \A k \in 1 .. Len(r) : /\ k < i => r[k] = s[k]
                            /\ k >= i /\ k < i + Len(N) => r[k] = N[k - i + 1]
                            /\ k >= i + Len(N) => r[k] = s[k - Len(N) + 1]

LEMMA ReplacedIs ==
  ASSUME NEW S, NEW s \in Seq(S), NEW i \in 1 .. Len(s), NEW N \in Seq(S)
  PROVE  Replaced(s, i, N) \in Seq(S) /\ Places(s, i, N, Replaced(s, i, N))
<1> DEFINE f == SubSeq(s, 1, i - 1)
           g == SubSeq(s, i + 1, Len(s))
           h == f \o N
<1>0. PICK l \in Nat, m \in Nat : l = Len(s) /\ m = Len(N)
  OBVIOUS
<1>1. f \in Seq(S) /\ Len(f) = i - 1 /\ \A j \in 1 .. i - 1 : f[j] = s[j]
  OBVIOUS
<1>2. g \in Seq(S) /\ Len(g) = l - i /\ \A j \in 1 .. l - i : g[j] = s[i + j]
  BY <1>0
<1>3. Replaced(s, i, N) = h \o g
  BY DEF Replaced
<1>i. i \in 1 .. l
  BY <1>0
<1> HIDE DEF f, g
<1>4. /\ h \in Seq(S) /\ Len(h) = i - 1 + m
      /\ \A j \in 1 .. i - 1 + m : h[j] = IF j <= i - 1 THEN f[j] ELSE N[j - (i - 1)]
  <2>1. /\ h \in Seq(S) /\ Len(h) = Len(f) + Len(N)
        /\ \A j \in 1 .. Len(f) + Len(N) : h[j] = IF j <= Len(f) THEN f[j] ELSE N[j - Len(f)]
    BY <1>1, ConcatenationIs
  <2>2. Len(f) = i - 1 /\ Len(N) = m
    BY <1>0, <1>1
  <2>3. QED
    BY <2>1, <2>2
<1> HIDE DEF h
<1>5. /\ h \o g \in Seq(S) /\ Len(h \o g) = l + m - 1
      /\ \A j \in 1 .. l + m - 1 : (h \o g)[j] = IF j <= i - 1 + m THEN h[j] ELSE g[j - (i - 1 + m)]
  <2>1. /\ h \o g \in Seq(S) /\ Len(h \o g) = Len(h) + Len(g)
        /\ \A j \in 1 .. Len(h) + Len(g) : (h \o g)[j] = IF j <= Len(h) THEN h[j] ELSE g[j - Len(h)]
    BY <1>2, <1>4, ConcatenationIs
  <2>2. Len(h) + Len(g) = l + m - 1 /\ Len(h) = i - 1 + m
    BY <1>2, <1>4, <1>0, <1>i
  <2>3. QED
    BY <2>1, <2>2
<1>7. ASSUME NEW j \in 1 .. l + m - 1
      PROVE  /\ j < i => (h \o g)[j] = s[j]
             /\ j >= i /\ j < i + m => (h \o g)[j] = N[j - i + 1]
             /\ j >= i + m => (h \o g)[j] = s[j - m + 1]
  <2>1. CASE j < i
    <3>1. j \in 1 .. i - 1 /\ j \in 1 .. i - 1 + m /\ j <= i - 1 /\ j <= i - 1 + m
      BY <1>0, <1>i, <2>1
    <3>2. (h \o g)[j] = s[j]
      BY <1>1, <1>4, <1>5, <3>1
    <3>3. QED
      BY <1>0, <1>i, <2>1, <3>2
  <2>2. CASE j >= i /\ j < i + m
    <3>1. j \in 1 .. i - 1 + m /\ j <= i - 1 + m /\ ~ (j <= i - 1) /\ j - (i - 1) = j - i + 1
      BY <1>0, <1>i, <2>2
    <3>2. (h \o g)[j] = N[j - (i - 1)]
      BY <1>4, <1>5, <3>1
    <3>3. (h \o g)[j] = N[j - i + 1]
      BY <3>1, <3>2
    <3>4. QED
      BY <1>0, <1>i, <2>2, <3>3
  <2>3. CASE j >= i + m
    <3>1. /\ j - (i - 1 + m) \in 1 .. l - i /\ i + (j - (i - 1 + m)) = j - m + 1
          /\ ~ (j <= i - 1 + m)
      BY <1>0, <1>i, <2>3
    <3>2. (h \o g)[j] = g[j - (i - 1 + m)]
      BY <1>5, <3>1
    <3>3. g[j - (i - 1 + m)] = s[i + (j - (i - 1 + m))]
      BY <1>2, <3>1
    <3>4. (h \o g)[j] = s[j - m + 1]
      BY <3>1, <3>2, <3>3
    <3>5. QED
      BY <1>0, <1>i, <2>3, <3>4
  <2>4. QED
    BY <1>0, <1>i, <2>1, <2>2, <2>3
<1>8. QED
  BY <1>0, <1>3, <1>5, <1>7 DEF Places

\* insert_child: a node stays one, its children change in one place.
LEMMA InstallIs ==
  ASSUME NEW S, NEW n, IsNode(n), ~ n.leaf, n.chs \in Seq(S), NEW i \in DOMAIN n.chs, NEW sep,
         NEW N \in Seq(S), Len(N) \in {1, 2}
  PROVE  LET r == [Install(n, i, sep, N) EXCEPT !.ready = TRUE]
         IN  /\ IsNode(r) /\ r.ver = n.ver /\ ~ r.leaf /\ r.ready /\ r.slots = n.slots
             /\ r.chs \in Seq(S) /\ Places(n.chs, i, N, r.chs)
<1> DEFINE r  == [Install(n, i, sep, N) EXCEPT !.ready = TRUE]
           ks == IF Len(N) = 1 THEN n.keys ELSE InsertAt(n.keys, i, sep)
           cs == Replaced(n.chs, i, N)
<1>1. r = [ver |-> n.ver, leaf |-> n.leaf, keys |-> ks, vals |-> n.vals, chs |-> cs,
           ready |-> TRUE, slots |-> n.slots]
  <2>1. n = [ver |-> n.ver, leaf |-> n.leaf, keys |-> n.keys, vals |-> n.vals, chs |-> n.chs,
             ready |-> n.ready, slots |-> n.slots]
    BY DEF IsNode
  <2>2. Install(n, i, sep, N) = [[n EXCEPT !.chs = cs] EXCEPT !.keys = ks]
    BY DEF Install, Replaced
  <2> HIDE DEF ks, cs
  <2>3. [n EXCEPT !.chs = cs] = [ver |-> n.ver, leaf |-> n.leaf, keys |-> n.keys, vals |-> n.vals,
                                 chs |-> cs, ready |-> n.ready, slots |-> n.slots]
    BY <2>1
  <2>4. Install(n, i, sep, N) = [ver |-> n.ver, leaf |-> n.leaf, keys |-> ks, vals |-> n.vals,
                                 chs |-> cs, ready |-> n.ready, slots |-> n.slots]
    BY <2>2, <2>3
  <2>5. PICK x : x = Install(n, i, sep, N)
    OBVIOUS
  <2>6. x = [ver |-> n.ver, leaf |-> n.leaf, keys |-> ks, vals |-> n.vals,
             chs |-> cs, ready |-> n.ready, slots |-> n.slots]
    BY <2>4, <2>5
  <2>7. [x EXCEPT !.ready = TRUE] = [ver |-> n.ver, leaf |-> n.leaf, keys |-> ks, vals |-> n.vals,
                                     chs |-> cs, ready |-> TRUE, slots |-> n.slots]
    <3>1. \A b : [x EXCEPT !.ready = b] = [ver |-> n.ver, leaf |-> n.leaf, keys |-> ks,
                    vals |-> n.vals, chs |-> cs, ready |-> b, slots |-> n.slots]
      BY <2>6
    <3>2. QED
      BY <3>1
  <2>8. QED
    BY <2>5, <2>7
<1>2. Len(n.keys) \in Nat /\ Len(n.chs) = Len(n.keys) + 1 /\ i \in 1 .. Len(n.chs)
  BY LengthIs DEF IsNode
<1>3. cs \in Seq(S) /\ Places(n.chs, i, N, cs)
  BY <1>2, ReplacedIs
<1>4. IsSeq(ks) /\ Len(ks) = Len(n.keys) + Len(N) - 1
  <2>1. PICK K : n.keys \in Seq(K)
    BY DEF IsNode, IsSeq
  <2>2. CASE Len(N) = 1
    BY <1>2, <2>1, <2>2 DEF IsSeq
  <2>3. CASE Len(N) = 2
    <3>1. n.keys \in Seq(K \cup {sep}) /\ i \in 1 .. Len(n.keys) + 1
      BY <1>2, <2>1
    <3>2. InsertAt(n.keys, i, sep) \in Seq(K \cup {sep}) /\ Len(InsertAt(n.keys, i, sep)) = Len(n.keys) + 1
      BY <3>1, InsertedIs
    <3>3. QED
      BY <1>2, <2>3, <3>2 DEF IsSeq
  <2>4. QED
    BY <2>2, <2>3
<1>5. Len(cs) = Len(ks) + 1
  BY <1>2, <1>3, <1>4 DEF Places
<1>6. /\ r.ver = n.ver /\ r.leaf = n.leaf /\ r.keys = ks /\ r.vals = n.vals /\ r.chs = cs
      /\ r.ready = TRUE /\ r.slots = n.slots
  BY <1>1
<1>7. IsSeq(cs) /\ IsSeq(n.slots)
  BY <1>3 DEF IsSeq, IsNode
<1> HIDE DEF ks, cs, r
<1>8. r = [ver |-> r.ver, leaf |-> r.leaf, keys |-> r.keys, vals |-> r.vals, chs |-> r.chs,
           ready |-> r.ready, slots |-> r.slots]
  BY <1>1, <1>6
<1>9. IsNode(r)
  BY <1>4, <1>5, <1>6, <1>7, <1>8 DEF IsNode
<1>10. QED
  BY <1>3, <1>6, <1>9 DEF r

LEMMA LeafIs ==
  ASSUME NEW ver, NEW keys, NEW vals
  PROVE  LET n == Leaf(ver, keys, vals)
         IN  /\ IsNode(n) /\ n.ver = ver /\ n.leaf /\ n.keys = keys /\ n.chs = <<>>
             /\ ~ n.ready /\ n.slots = <<>>
BY DEF Leaf, IsNode, IsSeq

LEMMA InternalIs ==
  ASSUME NEW ver, NEW keys, NEW chs, IsSeq(keys), IsSeq(chs), Len(chs) = Len(keys) + 1
  PROVE  LET n == Internal(ver, keys, chs)
         IN  /\ IsNode(n) /\ n.ver = ver /\ ~ n.leaf /\ n.keys = keys /\ n.chs = chs
             /\ ~ n.ready /\ n.slots = <<>>
<1> DEFINE n == Internal(ver, keys, chs)
<1>1. n = [ver |-> ver, leaf |-> FALSE, keys |-> keys, vals |-> <<>>, chs |-> chs,
           ready |-> FALSE, slots |-> <<>>]
  BY DEF Internal
<1>2. IsSeq(<<>>)
  BY DEF IsSeq
<1>3. /\ n.ver = ver /\ n.leaf = FALSE /\ n.keys = keys /\ n.chs = chs
      /\ n.ready = FALSE /\ n.slots = <<>> /\ n.vals = <<>>
  BY <1>1
<1>4. n = [ver |-> n.ver, leaf |-> n.leaf, keys |-> n.keys, vals |-> n.vals, chs |-> n.chs,
           ready |-> n.ready, slots |-> n.slots]
  BY <1>1, <1>3
<1> HIDE DEF n
<1>5. IsNode(n)
  BY <1>2, <1>3, <1>4 DEF IsNode
<1>6. QED
  BY <1>3, <1>5 DEF n

LEMMA UnbuiltIs ==
  ASSUME NEW keys, IsSeq(keys)
  PROVE  /\ IsSeq(Unbuilt(keys)) /\ Len(Unbuilt(keys)) = Len(keys) + 1
         /\ Unbuilt(keys) \in Seq({None})
         /\ \A i \in DOMAIN Unbuilt(keys) : Unbuilt(keys)[i] = None
<1>1. Len(keys) \in Nat
  BY LengthIs
<1>2. Unbuilt(keys) \in Seq({None})
  BY <1>1 DEF Unbuilt
<1>3. Len(Unbuilt(keys)) = Len(keys) + 1
  BY <1>1 DEF Unbuilt
<1>4. \A i \in DOMAIN Unbuilt(keys) : Unbuilt(keys)[i] = None
  BY DEF Unbuilt
<1>5. QED
  BY <1>2, <1>3, <1>4 DEF IsSeq

LEMMA SplitKeysIs ==
  ASSUME NEW keys, IsSeq(keys), Len(keys) = MaxKeys, NEW j \in {1, 2}
  PROVE  IsSeq(SplitKeys(keys)[j]) /\ Len(SplitKeys(keys)[j]) = Half - 1
<1>1. PICK S : keys \in Seq(S)
  BY DEF IsSeq
<1>2. Half \in Nat /\ Half >= 2 /\ MaxKeys = 2 * Half - 1
  BY NodeAssumption DEF MaxKeys
<1>3. /\ SubSeq(keys, 1, Half - 1) \in Seq(S) /\ Len(SubSeq(keys, 1, Half - 1)) = Half - 1
      /\ SubSeq(keys, Half + 1, MaxKeys) \in Seq(S) /\ Len(SubSeq(keys, Half + 1, MaxKeys)) = Half - 1
  BY <1>1, <1>2
<1>4. CASE j = 1
  BY <1>3, <1>4 DEF SplitKeys, IsSeq
<1>5. CASE j = 2
  BY <1>3, <1>5 DEF SplitKeys, IsSeq
<1>6. QED
  BY <1>4, <1>5

LEMMA SplitChsIs ==
  ASSUME NEW S, NEW chs \in Seq(S), Len(chs) = MaxKeys + 1, NEW j \in {1, 2}
  PROVE  /\ SplitChs(chs)[j] \in Seq(S) /\ Len(SplitChs(chs)[j]) = Half
         /\ \A k \in 1 .. Half : /\ (j - 1) * Half + k \in 1 .. MaxKeys + 1
                                 /\ SplitChs(chs)[j][k] = chs[(j - 1) * Half + k]
<1>1. Half \in Nat /\ Half >= 2 /\ MaxKeys = 2 * Half - 1
  BY NodeAssumption DEF MaxKeys
<1>2. CASE j = 1
  <2>1. SplitChs(chs)[j] = SubSeq(chs, 1, Half) /\ (j - 1) * Half = 0
    BY <1>1, <1>2 DEF SplitChs
  <2>2. QED
    BY <1>1, <2>1
<1>3. CASE j = 2
  <2>1. SplitChs(chs)[j] = SubSeq(chs, Half + 1, 2 * Half) /\ (j - 1) * Half = Half
    BY <1>1, <1>3 DEF SplitChs
  <2>2. QED
    BY <1>1, <2>1
<1>4. QED
  BY <1>2, <1>3

\* update_leaf_cow makes one leaf or two.
LEMMA NewLeavesIs ==
  ASSUME NEW n, NEW sno, NEW key, NEW val, NEW later
  PROVE  LET ls == NewLeaves(n, sno, key, val, later)
         IN  /\ Len(ls) \in {1, 2} /\ DOMAIN ls = 1 .. Len(ls)
             /\ \A j \in DOMAIN ls : /\ IsNode(ls[j]) /\ ls[j].ver = sno /\ ls[j].leaf
                                     /\ ls[j].chs = <<>> /\ ~ ls[j].ready /\ ls[j].slots = <<>>
<1> DEFINE ls == NewLeaves(n, sno, key, val, later)
           keys == NewKeys(n, sno, key)
<1>1. PICK s : keys = Halves(s)
  BY DEF NewKeys
<1>2. Halves(s) = <<s>> \/ \E a, b : Halves(s) = <<a, b>>
  <2>1. CASE Len(s) <= MaxKeys
    BY <2>1 DEF Halves
  <2>2. CASE ~ (Len(s) <= MaxKeys)
    BY <2>2 DEF Halves
  <2>3. QED
    BY <2>1, <2>2
<1> HIDE DEF keys
<1>3. DOMAIN keys = 1 .. 1 \/ DOMAIN keys = 1 .. 2
  BY <1>1, <1>2
<1>4. DOMAIN ls = DOMAIN keys /\ ls = [i \in DOMAIN ls |-> ls[i]]
  BY DEF NewLeaves, keys
<1>5. ASSUME NEW j \in DOMAIN ls PROVE \E v : ls[j] = Leaf(sno, keys[j], v)
  BY DEF NewLeaves, keys
<1> HIDE DEF ls
<1>6. Len(ls) \in {1, 2} /\ DOMAIN ls = 1 .. Len(ls)
  <2>1. CASE DOMAIN ls = 1 .. 1
    <3>1. Len(ls) = 1
      BY <1>4, <2>1, SequenceIs
    <3>2. QED
      BY <2>1, <3>1
  <2>2. CASE DOMAIN ls = 1 .. 2
    <3>1. Len(ls) = 2
      BY <1>4, <2>2, SequenceIs
    <3>2. QED
      BY <2>2, <3>1
  <2>3. QED
    BY <1>3, <1>4, <2>1, <2>2
<1>7. ASSUME NEW j \in DOMAIN ls
      PROVE  /\ IsNode(ls[j]) /\ ls[j].ver = sno /\ ls[j].leaf
             /\ ls[j].chs = <<>> /\ ~ ls[j].ready /\ ls[j].slots = <<>>
  <2>1. PICK v : ls[j] = Leaf(sno, keys[j], v)
    BY <1>5
  <2>2. QED
    BY <2>1, LeafIs
<1>8. QED
  BY <1>6, <1>7 DEF ls

\* A context, and what no handler changes in it.
Fields == {"sno", "key", "op", "root", "cur", "past", "idx", "pair", "later", "retired", "made", "pos", "at"}
IsContext(c) == DOMAIN c = Fields
SameTicket(c, d) ==
  /\ IsContext(d) /\ d.sno = c.sno /\ d.key = c.key /\ d.later = c.later
  /\ d.pos = c.pos /\ d.at = c.at

LEMMA RetireIs ==
  ASSUME NEW c, IsContext(c), NEW q
  PROVE  LET d == Retire([c EXCEPT !.past = q], q)
         IN  /\ SameTicket(c, d) /\ d.root = c.root /\ d.past = q /\ d.retired = Append(c.retired, q)
             /\ d.made = c.made /\ d.cur = c.cur /\ d.idx = c.idx /\ d.pair = c.pair /\ d.op = c.op
<1>1. PICK e : e = [c EXCEPT !.past = q]
  OBVIOUS
<1>2. /\ SameTicket(c, e) /\ e.root = c.root /\ e.past = q /\ e.retired = c.retired
      /\ e.made = c.made /\ e.cur = c.cur /\ e.idx = c.idx /\ e.pair = c.pair /\ e.op = c.op
  BY <1>1 DEF SameTicket, IsContext, Fields
<1>3. PICK r : r = Append(c.retired, q)
  OBVIOUS
<1>4. PICK d : d = [e EXCEPT !.retired = r]
  OBVIOUS
<1>5. /\ SameTicket(c, d) /\ d.root = c.root /\ d.past = q /\ d.retired = r
      /\ d.made = c.made /\ d.cur = c.cur /\ d.idx = c.idx /\ d.pair = c.pair /\ d.op = c.op
  BY <1>2, <1>4 DEF SameTicket, IsContext, Fields
<1>6. Retire([c EXCEPT !.past = q], q) = d
  BY <1>1, <1>2, <1>3, <1>4 DEF Retire
<1>7. QED
  BY <1>3, <1>5, <1>6

\* What update_cow makes of heap h and context c: child i of the current node gives
\* way to the nodes N, which replace it.
Updated(h, c, r, i, N) ==
  LET q == h[c.cur].chs[i] IN
  /\ i \in DOMAIN h[c.cur].chs
  /\ N = <<New(c, 1)>> \/ N = <<New(c, 1), New(c, 2)>>
  /\ DOMAIN r.heap = DOMAIN h \cup Range(N)
  /\ \A n \in DOMAIN h : n # c.cur => r.heap[n] = h[n]
  /\ IsNode(r.heap[c.cur]) /\ r.heap[c.cur].ver = h[c.cur].ver /\ ~ r.heap[c.cur].leaf
  /\ r.heap[c.cur].ready /\ r.heap[c.cur].slots = h[c.cur].slots
  /\ r.heap[c.cur].chs \in Seq(DOMAIN r.heap) /\ Places(h[c.cur].chs, i, N, r.heap[c.cur].chs)
  /\ \A n \in Range(N) : /\ IsNode(r.heap[n]) /\ r.heap[n].ver = c.sno /\ ~ r.heap[n].ready
                         /\ r.heap[n].slots = <<>> /\ r.heap[n].chs \in Seq({None})
                         /\ \A k \in DOMAIN r.heap[n].chs : r.heap[n].chs[k] = None
  /\ SameTicket(c, r.c) /\ r.c.root = c.root /\ r.c.past = q
  /\ r.c.retired = Append(c.retired, q) /\ r.c.made = c.made + Len(N)
  /\ \/ /\ h[q].leaf /\ \A n \in Range(N) : r.heap[n].leaf
        /\ r.c.op = (IF c.later THEN "materialize" ELSE "done")
        /\ r.c.cur = c.cur /\ r.c.idx = i /\ r.c.pair = (Len(N) = 2)
     \/ /\ ~ h[q].leaf /\ Len(h[q].keys) = MaxKeys /\ Len(N) = 2
        /\ \A n \in Range(N) : ~ r.heap[n].leaf /\ Len(r.heap[n].keys) = Half - 1
        /\ r.c.op = "split" /\ r.c.cur = c.cur /\ r.c.idx = i
     \/ /\ ~ h[q].leaf /\ Len(h[q].keys) # MaxKeys /\ Len(N) = 1 /\ ~ r.heap[N[1]].leaf
        /\ Len(r.heap[N[1]].keys) = Len(h[q].keys)
        /\ r.c.op = "down" /\ r.c.cur = N[1]

\* The part of it that is the same in all three cases.
PutInPlace(h, c, r, i, N) ==
  /\ i \in DOMAIN h[c.cur].chs
  /\ N = <<New(c, 1)>> \/ N = <<New(c, 1), New(c, 2)>>
  /\ DOMAIN r.heap = DOMAIN h \cup Range(N)
  /\ \A n \in DOMAIN h : n # c.cur => r.heap[n] = h[n]
  /\ IsNode(r.heap[c.cur]) /\ r.heap[c.cur].ver = h[c.cur].ver /\ ~ r.heap[c.cur].leaf
  /\ r.heap[c.cur].ready /\ r.heap[c.cur].slots = h[c.cur].slots
  /\ r.heap[c.cur].chs \in Seq(DOMAIN r.heap) /\ Places(h[c.cur].chs, i, N, r.heap[c.cur].chs)
  /\ \A n \in Range(N) : /\ IsNode(r.heap[n]) /\ r.heap[n].ver = c.sno /\ ~ r.heap[n].ready
                         /\ r.heap[n].slots = <<>> /\ r.heap[n].chs \in Seq({None})
                         /\ \A k \in DOMAIN r.heap[n].chs : r.heap[n].chs[k] = None

CanUpdate(h, c) ==
  /\ IsContext(c) /\ c.made \in Nat
  /\ \A n \in DOMAIN h : IsNode(h[n]) /\ h[n].chs \in Seq(DOMAIN h)
  /\ c.cur \in DOMAIN h /\ ~ h[c.cur].leaf
  /\ New(c, 1) \notin DOMAIN h /\ New(c, 2) \notin DOMAIN h

LEMMA NewDiffer == ASSUME NEW c, c.made \in Nat PROVE New(c, 1) # New(c, 2)
BY DEF New

\* The heap of update_cow, whatever the new nodes are.
Put(h, c, i, N, g, new) ==
  /\ DOMAIN g = DOMAIN h \cup Range(N)
  /\ \A n \in DOMAIN h : n # c.cur => g[n] = h[n]
  /\ IsNode(g[c.cur]) /\ g[c.cur].ver = h[c.cur].ver /\ ~ g[c.cur].leaf
  /\ g[c.cur].ready /\ g[c.cur].slots = h[c.cur].slots
  /\ g[c.cur].chs \in Seq(DOMAIN g) /\ Places(h[c.cur].chs, i, N, g[c.cur].chs)
  /\ \A n \in Range(N) : g[n] = new[n]

LEMMA PutIs ==
  ASSUME NEW h, NEW c, CanUpdate(h, c), NEW i \in DOMAIN h[c.cur].chs, NEW sep, NEW N, NEW new, NEW g,
         N = <<New(c, 1)>> \/ N = <<New(c, 1), New(c, 2)>>, DOMAIN new = Range(N),
         g = Over([h EXCEPT ![c.cur] = [Install(h[c.cur], i, sep, N) EXCEPT !.ready = TRUE]], new)
  PROVE  Put(h, c, i, N, g, new)
<1> DEFINE S == DOMAIN h \cup Range(N)
<1>1. N \in Seq(Range(N)) /\ Len(N) \in {1, 2}
  <2>1. CASE N = <<New(c, 1)>>
    <3>1. PICK a : a = New(c, 1)
      OBVIOUS
    <3>2. QED
      BY <2>1, <3>1 DEF Range
  <2>2. CASE N = <<New(c, 1), New(c, 2)>>
    <3>1. PICK a, b : a = New(c, 1) /\ b = New(c, 2)
      OBVIOUS
    <3>2. QED
      BY <2>2, <3>1 DEF Range
  <2>3. QED
    BY <2>1, <2>2
<1>2. Range(N) \cap DOMAIN h = {}
  <2>1. PICK a, b : a = New(c, 1) /\ b = New(c, 2)
    OBVIOUS
  <2>2. a \notin DOMAIN h /\ b \notin DOMAIN h
    BY <2>1 DEF CanUpdate
  <2>3. N = <<a>> \/ N = <<a, b>>
    BY <2>1
  <2>4. \A n \in Range(N) : n = a \/ n = b
    BY <2>3 DEF Range
  <2>5. QED
    BY <2>2, <2>4
<1> HIDE DEF S
<1>3. /\ IsNode(h[c.cur]) /\ ~ h[c.cur].leaf /\ h[c.cur].chs \in Seq(S)
      /\ N \in Seq(S) /\ c.cur \in DOMAIN h
  BY <1>1 DEF CanUpdate, S
<1>4. PICK m : m = [Install(h[c.cur], i, sep, N) EXCEPT !.ready = TRUE]
  OBVIOUS
<1>5. /\ IsNode(m) /\ m.ver = h[c.cur].ver /\ ~ m.leaf /\ m.ready /\ m.slots = h[c.cur].slots
      /\ m.chs \in Seq(S) /\ Places(h[c.cur].chs, i, N, m.chs)
  <2>1. LET r == [Install(h[c.cur], i, sep, N) EXCEPT !.ready = TRUE]
        IN  /\ IsNode(r) /\ r.ver = h[c.cur].ver /\ ~ r.leaf /\ r.ready /\ r.slots = h[c.cur].slots
            /\ r.chs \in Seq(S) /\ Places(h[c.cur].chs, i, N, r.chs)
    BY <1>1, <1>3, InstallIs
  <2>2. QED
    BY <1>4, <2>1
<1>6. PICK f : f = [h EXCEPT ![c.cur] = m]
  OBVIOUS
<1>7. DOMAIN f = DOMAIN h /\ f[c.cur] = m /\ \A n \in DOMAIN h : n # c.cur => f[n] = h[n]
  BY <1>3, <1>6
<1>8. g = Over(f, new)
  BY <1>4, <1>6
<1>9. /\ DOMAIN g = DOMAIN f \cup DOMAIN new
      /\ \A n \in DOMAIN new : g[n] = new[n]
      /\ \A n \in DOMAIN f : n \notin DOMAIN new => g[n] = f[n]
  BY <1>8 DEF Over
<1>10. DOMAIN g = DOMAIN h \cup Range(N) /\ DOMAIN g = S
  BY <1>7, <1>9 DEF S
<1>11. g[c.cur] = m
  BY <1>2, <1>3, <1>7, <1>9
<1>12. \A n \in DOMAIN h : n # c.cur => g[n] = h[n]
  BY <1>2, <1>7, <1>9
<1>13. QED
  BY <1>5, <1>9, <1>10, <1>11, <1>12 DEF Put

\* New nodes without children.
Blank(c, n) ==
  /\ IsNode(n) /\ n.ver = c.sno /\ ~ n.ready /\ n.slots = <<>> /\ n.chs \in Seq({None})
  /\ \A k \in DOMAIN n.chs : n.chs[k] = None

LEMMA BlankLeaf ==
  ASSUME NEW c, NEW n, IsNode(n), n.ver = c.sno, ~ n.ready, n.slots = <<>>, n.chs = <<>>
  PROVE  Blank(c, n)
<1>1. <<>> \in Seq({None}) /\ DOMAIN <<>> = {}
  OBVIOUS
<1>2. QED
  BY <1>1 DEF Blank

LEMMA BlankInternal ==
  ASSUME NEW c, NEW keys, IsSeq(keys), NEW n, n = Internal(c.sno, keys, Unbuilt(keys))
  PROVE  Blank(c, n) /\ ~ n.leaf /\ n.keys = keys
<1>1. PICK chs : chs = Unbuilt(keys)
  OBVIOUS
<1>2. /\ IsSeq(chs) /\ Len(chs) = Len(keys) + 1 /\ chs \in Seq({None})
      /\ \A i \in DOMAIN chs : chs[i] = None
  BY <1>1, UnbuiltIs
<1>3. n = Internal(c.sno, keys, chs)
  BY <1>1
<1>4. /\ IsNode(n) /\ n.ver = c.sno /\ ~ n.leaf /\ n.keys = keys /\ n.chs = chs
      /\ ~ n.ready /\ n.slots = <<>>
  BY <1>2, <1>3, InternalIs
<1>5. QED
  BY <1>2, <1>4 DEF Blank

LEMMA UpdateCowIs ==
  ASSUME NEW h, NEW c, CanUpdate(h, c)
  PROVE  \E i, N : Updated(h, c, UpdateCow(h, c), i, N)
<1>1. PICK i : i = Findch(h[c.cur], c.key)
  OBVIOUS
<1>2. i \in DOMAIN h[c.cur].chs
  BY <1>1, FindchIs DEF CanUpdate
<1>3. PICK q : q = h[c.cur].chs[i]
  OBVIOUS
<1>4. q \in DOMAIN h /\ IsNode(h[q]) /\ c.made \in Nat /\ IsContext(c)
  BY <1>2, <1>3 DEF CanUpdate
<1>5. PICK d : d = Retire([c EXCEPT !.past = q], q)
  OBVIOUS
<1>6. /\ SameTicket(c, d) /\ d.root = c.root /\ d.past = q /\ d.retired = Append(c.retired, q)
      /\ d.made = c.made /\ d.cur = c.cur /\ d.idx = c.idx /\ d.pair = c.pair /\ d.op = c.op
  BY <1>4, <1>5, RetireIs
<1>7. New(c, 1) # New(c, 2) /\ New(c, 1)[2] - c.made = 1 /\ New(c, 2)[2] - c.made = 2
  BY <1>4, NewDiffer DEF New
<1>8. PICK a, b : a = New(c, 1) /\ b = New(c, 2)
  OBVIOUS
<1>9. CASE h[q].leaf
  <2>1. PICK ls : ls = NewLeaves(h[q], c.sno, c.key, c.sno, c.later)
    OBVIOUS
  <2>2. /\ Len(ls) \in {1, 2} /\ DOMAIN ls = 1 .. Len(ls)
        /\ \A j \in DOMAIN ls : /\ IsNode(ls[j]) /\ ls[j].ver = c.sno /\ ls[j].leaf
                                /\ ls[j].chs = <<>> /\ ~ ls[j].ready /\ ls[j].slots = <<>>
    BY <2>1, NewLeavesIs
  <2>3. PICK N : N = [j \in DOMAIN ls |-> New(c, j)]
    OBVIOUS
  <2>4. N = <<a>> \/ N = <<a, b>>
    <3>1. CASE Len(ls) = 1
      <4>1. DOMAIN ls = {1}
        BY <2>2, <3>1
      <4>2. N = [j \in {1} |-> a]
        BY <1>8, <2>3, <4>1
      <4>3. QED
        BY <4>2
    <3>2. CASE Len(ls) = 2
      <4>1. DOMAIN ls = {1, 2}
        BY <2>2, <3>2
      <4>2. N = [j \in {1, 2} |-> IF j = 1 THEN a ELSE b]
        BY <1>8, <2>3, <4>1
      <4>3. QED
        BY <4>2
    <3>3. QED
      BY <2>2, <3>1, <3>2
  <2>5. Len(N) = Len(ls) /\ DOMAIN N = DOMAIN ls
    BY <2>2, <2>3, <2>4
  <2>6. PICK new : new = [n \in Range(N) |-> ls[n[2] - c.made]]
    OBVIOUS
  <2>7. \A n \in Range(N) : Blank(c, new[n]) /\ new[n].leaf
    <3>1. ASSUME NEW n \in Range(N) PROVE Blank(c, new[n]) /\ new[n].leaf
      <4>1. PICK j \in DOMAIN ls : n = New(c, j)
        BY <2>3, <2>5 DEF Range
      <4>2. n[2] - c.made = j
        BY <1>4, <2>2, <4>1 DEF New
      <4>3. new[n] = ls[j]
        BY <2>6, <4>2
      <4>4. QED
        BY <2>2, <4>1, <4>3, BlankLeaf
    <3>2. QED
      BY <3>1
  <2>8. PICK sep : sep = ls[Len(ls)].keys[1]
    OBVIOUS
  <2>9. PICK g : g = Over([h EXCEPT ![c.cur] = [Install(h[c.cur], i, sep, N) EXCEPT !.ready = TRUE]], new)
    OBVIOUS
  <2>10. Put(h, c, i, N, g, new)
    <3>1. DOMAIN new = Range(N)
      BY <2>6
    <3>2. N = <<New(c, 1)>> \/ N = <<New(c, 1), New(c, 2)>>
      BY <1>8, <2>4
    <3>3. QED
      BY <1>2, <2>9, <3>1, <3>2, PutIs
  <2>11. PICK m, o, p : /\ m = c.made + Len(ls) /\ o = (IF c.later THEN "materialize" ELSE "done")
                        /\ p = (Len(ls) = 2)
    OBVIOUS
  <2>12. PICK e : e = [d EXCEPT !.made = m, !.idx = i, !.pair = p, !.op = o]
    OBVIOUS
  <2>13. /\ SameTicket(c, e) /\ e.root = c.root /\ e.past = q /\ e.retired = Append(c.retired, q)
         /\ e.made = m /\ e.cur = c.cur /\ e.idx = i /\ e.pair = p /\ e.op = o
    BY <1>6, <2>12 DEF SameTicket, IsContext, Fields
  <2>14. UpdateCow(h, c).heap = g
    BY <1>1, <1>3, <1>9, <2>1, <2>3, <2>6, <2>8, <2>9 DEF UpdateCow
  <2>15. UpdateCow(h, c).c = e
    BY <1>1, <1>3, <1>5, <1>6, <1>9, <2>1, <2>11, <2>12 DEF UpdateCow
  <2>16. Updated(h, c, UpdateCow(h, c), i, N)
    <3>1. PICK r : r = UpdateCow(h, c)
      OBVIOUS
    <3>2. r.heap = g /\ r.c = e
      BY <2>14, <2>15, <3>1
    <3>3. \A n \in Range(N) : Blank(c, g[n]) /\ g[n].leaf
      BY <2>7, <2>10 DEF Put
    <3>4. PutInPlace(h, c, r, i, N)
      BY ONLY <1>2, <1>3, <1>8, <2>4, <2>10, <3>2, <3>3 DEF PutInPlace, Put, Blank
    <3>5. Updated(h, c, r, i, N)
      BY ONLY <3>4, <1>2, <1>3, <1>9, <2>4, <2>5, <2>11, <2>13, <3>2, <3>3 DEF Updated, PutInPlace
    <3>6. QED
      BY <3>1, <3>5
  <2>17. QED
    BY <2>16
<1>10. ASSUME ~ h[q].leaf PROVE IsSeq(h[q].keys) /\ Len(h[q].keys) \in Nat
  BY <1>4, <1>10, LengthIs DEF IsNode
<1>11. CASE ~ h[q].leaf /\ Len(h[q].keys) = MaxKeys
  <2>1. PICK N : N = <<a, b>>
    OBVIOUS
  <2>2. Range(N) = {a, b} /\ Len(N) = 2
    BY <2>1 DEF Range
  <2>3. PICK ks : ks = SplitKeys(h[q].keys)
    OBVIOUS
  <2>4. \A j \in {1, 2} : IsSeq(ks[j]) /\ Len(ks[j]) = Half - 1
    BY <1>10, <1>11, <2>3, SplitKeysIs
  <2>5. PICK new : new = [n \in {a, b} |-> Internal(c.sno, ks[n[2] - c.made], Unbuilt(ks[n[2] - c.made]))]
    OBVIOUS
  <2>6. \A n \in {a, b} : Blank(c, new[n]) /\ ~ new[n].leaf /\ Len(new[n].keys) = Half - 1
    <3>1. ASSUME NEW n \in {a, b} PROVE Blank(c, new[n]) /\ ~ new[n].leaf /\ Len(new[n].keys) = Half - 1
      <4>1. PICK j \in {1, 2} : j = n[2] - c.made
        BY <1>7, <1>8
      <4>2. new[n] = Internal(c.sno, ks[j], Unbuilt(ks[j]))
        BY <2>5, <4>1
      <4>3. PICK k : k = ks[j] /\ IsSeq(k) /\ Len(k) = Half - 1
        BY <2>4
      <4>4. new[n] = Internal(c.sno, k, Unbuilt(k))
        BY <4>2, <4>3
      <4>5. Blank(c, new[n]) /\ ~ new[n].leaf /\ new[n].keys = k
        BY <4>3, <4>4, BlankInternal
      <4>6. QED
        BY <4>3, <4>5
    <3>2. QED
      BY <3>1
  <2>7. PICK sep : sep = h[q].keys[Half]
    OBVIOUS
  <2>8. PICK g : g = Over([h EXCEPT ![c.cur] = [Install(h[c.cur], i, sep, N) EXCEPT !.ready = TRUE]], new)
    OBVIOUS
  <2>9. Put(h, c, i, N, g, new)
    <3>1. DOMAIN new = Range(N)
      BY <2>2, <2>5
    <3>2. N = <<New(c, 1)>> \/ N = <<New(c, 1), New(c, 2)>>
      BY <1>8, <2>1
    <3>3. QED
      BY <1>2, <2>8, <3>1, <3>2, PutIs
  <2>10. PICK m : m = c.made + 2
    OBVIOUS
  <2>11. PICK e : e = [d EXCEPT !.made = m, !.idx = i, !.op = "split"]
    OBVIOUS
  <2>12. /\ SameTicket(c, e) /\ e.root = c.root /\ e.past = q /\ e.retired = Append(c.retired, q)
         /\ e.made = m /\ e.cur = c.cur /\ e.idx = i /\ e.op = "split"
    BY <1>6, <2>11 DEF SameTicket, IsContext, Fields
  <2>13. UpdateCow(h, c).heap = g
    BY <1>1, <1>3, <1>8, <1>11, <2>1, <2>3, <2>5, <2>7, <2>8 DEF UpdateCow
  <2>14. UpdateCow(h, c).c = e
    BY <1>1, <1>3, <1>5, <1>6, <1>11, <2>10, <2>11 DEF UpdateCow
  <2>15. Updated(h, c, UpdateCow(h, c), i, N)
    <3>1. PICK r : r = UpdateCow(h, c)
      OBVIOUS
    <3>2. r.heap = g /\ r.c = e
      BY <2>13, <2>14, <3>1
    <3>3. \A n \in Range(N) : Blank(c, g[n]) /\ ~ g[n].leaf /\ Len(g[n].keys) = Half - 1
      BY <2>2, <2>6, <2>9 DEF Put
    <3>4. PutInPlace(h, c, r, i, N)
      BY ONLY <1>2, <1>3, <1>8, <2>1, <2>9, <3>2, <3>3 DEF PutInPlace, Put, Blank
    <3>5. Updated(h, c, r, i, N)
      BY ONLY <3>4, <1>2, <1>3, <1>11, <2>1, <2>2, <2>10, <2>12, <3>2, <3>3 DEF Updated, PutInPlace
    <3>6. QED
      BY <3>1, <3>5
  <2>16. QED
    BY <2>15
<1>12. CASE ~ h[q].leaf /\ Len(h[q].keys) # MaxKeys
  <2>1. PICK N : N = <<a>>
    OBVIOUS
  <2>2. Range(N) = {a} /\ Len(N) = 1 /\ N[1] = a
    BY <2>1 DEF Range
  <2>3. PICK new : new = [n \in {a} |-> Internal(c.sno, h[q].keys, Unbuilt(h[q].keys))]
    OBVIOUS
  <2>4. Blank(c, new[a]) /\ ~ new[a].leaf /\ new[a].keys = h[q].keys
    BY <1>10, <1>12, <2>3, BlankInternal
  <2>5. PICK g : g = Over([h EXCEPT ![c.cur] = [Install(h[c.cur], i, 0, N) EXCEPT !.ready = TRUE]], new)
    OBVIOUS
  <2>6. Put(h, c, i, N, g, new)
    <3>1. DOMAIN new = Range(N)
      BY <2>2, <2>3
    <3>2. N = <<New(c, 1)>> \/ N = <<New(c, 1), New(c, 2)>>
      BY <1>8, <2>1
    <3>3. QED
      BY <1>2, <2>5, <3>1, <3>2, PutIs
  <2>7. PICK m : m = c.made + 1
    OBVIOUS
  <2>8. PICK e : e = [d EXCEPT !.made = m, !.cur = a, !.op = "down"]
    OBVIOUS
  <2>9. /\ SameTicket(c, e) /\ e.root = c.root /\ e.past = q /\ e.retired = Append(c.retired, q)
        /\ e.made = m /\ e.cur = a /\ e.op = "down"
    BY <1>6, <2>8 DEF SameTicket, IsContext, Fields
  <2>10. UpdateCow(h, c).heap = g
    BY <1>1, <1>3, <1>8, <1>12, <2>1, <2>3, <2>5 DEF UpdateCow
  <2>11. UpdateCow(h, c).c = e
    BY <1>1, <1>3, <1>5, <1>6, <1>8, <1>12, <2>7, <2>8 DEF UpdateCow
  <2>12. Updated(h, c, UpdateCow(h, c), i, N)
    <3>1. PICK r : r = UpdateCow(h, c)
      OBVIOUS
    <3>2. r.heap = g /\ r.c = e
      BY <2>10, <2>11, <3>1
    <3>3. \A n \in Range(N) : Blank(c, g[n])
      BY <2>2, <2>4, <2>6 DEF Put
    <3>4. g[a] = new[a]
      BY <2>2, <2>6 DEF Put
    <3>5. PutInPlace(h, c, r, i, N)
      BY ONLY <1>2, <1>3, <1>8, <2>1, <2>6, <3>2, <3>3 DEF PutInPlace, Put, Blank
    <3>6. Updated(h, c, r, i, N)
      BY ONLY <3>5, <1>2, <1>3, <1>12, <2>1, <2>2, <2>4, <2>7, <2>9, <3>2, <3>4 DEF Updated, PutInPlace
    <3>7. QED
      BY <3>1, <3>6
  <2>13. QED
    BY <2>12
<1>13. QED
  BY <1>9, <1>11, <1>12

Kids(h) == [n \in DOMAIN h |-> h[n].chs]

\* Two numbers of a node: a height, and how far a ticket was when it made the node.
Ranked(C, rk) ==
  /\ rk \in [DOMAIN C -> Nat] /\ rk[None] = 0
  /\ \A p, i : Edge(C, p, i) => rk[C[p][i]] < rk[p]
Marked(C, mk) ==
  /\ mk \in [DOMAIN C -> Nat] /\ mk[None] = 0
  /\ \A p, i : Edge(C, p, i) => mk[C[p][i]] <= mk[p] + 1

\* Heap h is as update_cow expects it: the current node has its children, older than
\* ticket sno and finished, and nobody has replaced it.
Copies(h, c, R, L, U, mk, rk, k) ==
  /\ CanUpdate(h, c) /\ Forest(Kids(h), R, L, U) /\ Ranked(Kids(h), rk) /\ Marked(Kids(h), mk)
  /\ c.sno \in Nat /\ k \in Nat
  /\ c.cur \notin U /\ c.cur[1] = c.sno /\ \A x \in Nat : c.cur \notin L[x]
  /\ k <= mk[c.cur] + 1
  /\ \A i \in DOMAIN h[c.cur].chs :
       LET q == h[c.cur].chs[i] IN q[1] < c.sno /\ q \notin U /\ mk[q] <= k

\* The nodes of update_cow whose children come later.
Later(h, q, N) == IF h[q].leaf THEN {} ELSE Range(N)

LEMMA NewNodes ==
  ASSUME NEW c, c.made \in Nat, NEW N, N = <<New(c, 1)>> \/ N = <<New(c, 1), New(c, 2)>>
  PROVE  /\ Len(N) \in {1, 2} /\ DOMAIN N = 1 .. Len(N)
         /\ \A n \in Range(N) : n[1] = c.sno /\ (n = New(c, 1) \/ n = New(c, 2))
         /\ \A j \in 1 .. Len(N) : N[j] \in Range(N)
         /\ \A j, l \in 1 .. Len(N) : N[j] = N[l] => j = l
         /\ Range(N) = {N[j] : j \in 1 .. Len(N)}
<1>1. PICK a, b : a = New(c, 1) /\ b = New(c, 2)
  OBVIOUS
<1>2. a # b /\ a[1] = c.sno /\ b[1] = c.sno
  BY <1>1 DEF New
<1>3. N = <<a>> \/ N = <<a, b>>
  BY <1>1
<1>4. Len(N) \in {1, 2} /\ DOMAIN N = 1 .. Len(N)
  BY <1>3
<1>5. \A n \in Range(N) : n = a \/ n = b
  BY <1>3 DEF Range
<1>6. \A j, l \in 1 .. Len(N) : N[j] = N[l] => j = l
  <2>1. CASE N = <<a>>
    BY <2>1
  <2>2. CASE N = <<a, b>>
    BY <1>2, <2>2
  <2>3. QED
    BY <1>3, <2>1, <2>2
<1>7. Range(N) = {N[j] : j \in 1 .. Len(N)}
  BY <1>4 DEF Range
<1>8. QED
  BY <1>1, <1>2, <1>4, <1>5, <1>6, <1>7

\* update_cow adds the nodes N and puts them in the place of child i.
LEMMA CopySteps ==
  ASSUME NEW h, NEW c, NEW R, NEW L, NEW U, NEW mk, NEW rk, NEW k, Copies(h, c, R, L, U, mk, rk, k),
         NEW r, NEW i, NEW N, Updated(h, c, r, i, N), NEW q, q = h[c.cur].chs[i]
  PROVE  /\ q \in DOMAIN h /\ DOMAIN r.heap = DOMAIN h \cup Range(N)
         /\ \A n \in Range(N) : n \notin DOMAIN h /\ n[1] = c.sno
         /\ \E C1 : /\ Grown(Kids(h), C1, Range(N), Later(h, q, N), c.sno)
                   /\ Swapped(C1, Kids(r.heap), c.cur, i, Range(N))
                   /\ Orphans(C1, R, Range(N), c.sno)
                   /\ q = C1[c.cur][i]
<1> DEFINE C == Kids(h)
           F == Range(N)
           V == Later(h, q, N)
           C1 == [n \in DOMAIN h \cup F |-> IF n \in DOMAIN h THEN h[n].chs ELSE r.heap[n].chs]
           C2 == Kids(r.heap)
           t == c.sno
<1>1. /\ Forest(C, R, L, U) /\ t \in Nat /\ c.cur \in DOMAIN h
      /\ DOMAIN C = DOMAIN h /\ \A n \in DOMAIN h : C[n] = h[n].chs
      /\ DOMAIN C2 = DOMAIN r.heap /\ \A n \in DOMAIN r.heap : C2[n] = r.heap[n].chs
      /\ DOMAIN C1 = DOMAIN h \cup F /\ \A n \in DOMAIN h : C1[n] = h[n].chs
  BY DEF Copies, CanUpdate, Kids
<1>2. /\ Len(N) \in {1, 2} /\ \A n \in F : n[1] = t /\ n \notin DOMAIN h
      /\ \A j \in 1 .. Len(N) : N[j] \in F
      /\ \A j, l \in 1 .. Len(N) : N[j] = N[l] => j = l
      /\ Range(N) = {N[j] : j \in 1 .. Len(N)}
  <2>1. N = <<New(c, 1)>> \/ N = <<New(c, 1), New(c, 2)>>
    BY DEF Updated
  <2>2. c.made \in Nat /\ New(c, 1) \notin DOMAIN h /\ New(c, 2) \notin DOMAIN h
    BY DEF Copies, CanUpdate
  <2>3. /\ Len(N) \in {1, 2}
        /\ \A n \in F : n[1] = t /\ (n = New(c, 1) \/ n = New(c, 2))
        /\ \A j \in 1 .. Len(N) : N[j] \in F
        /\ \A j, l \in 1 .. Len(N) : N[j] = N[l] => j = l
        /\ F = {N[j] : j \in 1 .. Len(N)}
    BY <2>1, <2>2, NewNodes
  <2> HIDE DEF F
  <2>4. \A n \in F : n \notin DOMAIN h
    BY <2>2, <2>3
  <2>5. QED
    BY <2>3, <2>4 DEF F
<1>3. /\ i \in DOMAIN h[c.cur].chs /\ DOMAIN r.heap = DOMAIN h \cup F
      /\ \A n \in DOMAIN h : n # c.cur => r.heap[n] = h[n]
      /\ r.heap[c.cur].chs \in Seq(DOMAIN r.heap) /\ Places(h[c.cur].chs, i, N, r.heap[c.cur].chs)
      /\ \A n \in F : /\ IsNode(r.heap[n]) /\ r.heap[n].chs \in Seq({None})
                      /\ \A j \in DOMAIN r.heap[n].chs : r.heap[n].chs[j] = None
                      /\ h[q].leaf => r.heap[n].leaf
                      /\ ~ h[q].leaf => ~ r.heap[n].leaf
  <2>1. \A n \in F : h[q].leaf => r.heap[n].leaf
    BY DEF Updated
  <2>2. \A n \in F : ~ h[q].leaf => ~ r.heap[n].leaf
    <3> SUFFICES ASSUME NEW n \in F, ~ h[q].leaf PROVE ~ r.heap[n].leaf
      OBVIOUS
    <3>1. CASE Len(N) = 2 /\ \A m \in F : ~ r.heap[m].leaf
      BY <3>1
    <3>2. CASE Len(N) = 1 /\ ~ r.heap[N[1]].leaf
      BY <1>2, <3>2
    <3>3. QED
      BY <3>1, <3>2 DEF Updated
  <2>3. QED
    BY <2>1, <2>2 DEF Updated
<1>4. \A n \in F : C1[n] = r.heap[n].chs /\ C1[n] \in Seq({None}) /\ \A j \in DOMAIN C1[n] : C1[n][j] = None
  BY <1>2, <1>3
<1>5. V = IF h[q].leaf THEN {} ELSE F
  BY DEF Later
<1> HIDE DEF V, C1, C2, C, F
<1>6. Grown(C, C1, F, V, t)
  <2>1. \A f \in F : f[1] = t /\ C1[f] \in Seq(F \cup {None})
    BY <1>2, <1>4
  <2>2. \A f, j : f \in F /\ Edge(C1, f, j) => (C1[f][j] = None <=> f \in V)
    <3> SUFFICES ASSUME NEW f \in F, NEW j \in DOMAIN C1[f] PROVE C1[f][j] = None /\ f \in V
      BY DEF Edge
    <3>1. C1[f][j] = None
      BY <1>4
    <3>2. ASSUME h[q].leaf PROVE FALSE
      <4>1. r.heap[f].leaf /\ IsNode(r.heap[f])
        BY <1>3, <3>2
      <4>2. C1[f] = <<>>
        BY <1>4, <4>1 DEF IsNode
      <4>3. QED
        BY <4>2
    <3>3. QED
      BY <1>5, <3>1, <3>2
  <2>3. \A f, j : f \in F /\ Edge(C1, f, j) => C1[f][j] = None
    BY <1>4 DEF Edge
  <2>4. V \subseteq F /\ F \cap DOMAIN C = {}
    BY <1>1, <1>2, <1>5
  <2>5. QED
    BY <1>1, <2>1, <2>2, <2>3, <2>4 DEF Grown
<1>7. Forest(C1, R, L, U \cup V)
  BY <1>1, <1>6, GrowForest
<1>8. /\ C[c.cur] = h[c.cur].chs /\ C1[c.cur] = C[c.cur] /\ Edge(C, c.cur, i) /\ c.cur \notin U
      /\ c.cur \notin F /\ q = C[c.cur][i] /\ Edge(C1, c.cur, i) /\ q = C1[c.cur][i]
  BY <1>1, <1>2, <1>3 DEF Copies, Edge
<1>9. \A j, l : Edge(C, c.cur, j) /\ Edge(C, c.cur, l) /\ C[c.cur][j] = C[c.cur][l] => j = l
  <2> SUFFICES ASSUME NEW j, NEW l, Edge(C, c.cur, j), Edge(C, c.cur, l), C[c.cur][j] = C[c.cur][l]
               PROVE  j = l
    OBVIOUS
  <2>1. C[c.cur][j] # None
    BY <1>1, <1>8 DEF Forest, Nodes
  <2>2. OneParent(C, L)
    BY <1>1 DEF Forest
  <2>3. \/ c.cur = c.cur /\ j = l
        \/ c.cur # c.cur
    BY <2>1, <2>2, Zenon DEF OneParent
  <2>4. QED
    BY <2>3
<1>10. PICK s, z, l, m : /\ s = h[c.cur].chs /\ z = r.heap[c.cur].chs /\ l = Len(s) /\ m = Len(N)
  OBVIOUS
<1>11. /\ l \in Nat /\ DOMAIN s = 1 .. l /\ i \in 1 .. l /\ m \in {1, 2} /\ s \in Seq(DOMAIN h)
       /\ Len(z) = l + m - 1 /\ DOMAIN z = 1 .. l + m - 1 /\ C2[c.cur] = z
       /\ \A a \in 1 .. l + m - 1 : /\ a < i => z[a] = s[a]
                                    /\ a >= i /\ a < i + m => z[a] = N[a - i + 1]
                                    /\ a >= i + m => z[a] = s[a - m + 1]
  <2>1. s \in Seq(DOMAIN h)
    BY <1>1, <1>10 DEF Copies, CanUpdate
  <2>2. z \in Seq(DOMAIN r.heap) /\ Places(s, i, N, z)
    BY <1>3, <1>10
  <2>3. l \in Nat /\ DOMAIN s = 1 .. l /\ i \in 1 .. l /\ m \in {1, 2}
    BY <1>2, <1>3, <1>10, <2>1
  <2>4. Len(z) = l + m - 1 /\ DOMAIN z = 1 .. Len(z)
    BY <1>10, <2>2 DEF Places
  <2>5. \A a \in 1 .. l + m - 1 : /\ a < i => z[a] = s[a]
                                  /\ a >= i /\ a < i + m => z[a] = N[a - i + 1]
                                  /\ a >= i + m => z[a] = s[a - m + 1]
    BY <1>10, <2>2, <2>4 DEF Places
  <2>6. C2[c.cur] = z
    BY <1>1, <1>3, <1>10
  <2>7. QED
    BY <2>1, <2>3, <2>4, <2>5, <2>6
<1>12. \A a \in 1 .. l : s[a] \in DOMAIN h
  BY <1>11
\* A place of the new child array holds a new node or an old child, not child i.
<1>13. ASSUME NEW a \in 1 .. l + m - 1
       PROVE  \/ \E j \in 1 .. m : a = i + j - 1 /\ z[a] = N[j]
              \/ \E b \in 1 .. l : b # i /\ (a = IF b < i THEN b ELSE b + m - 1) /\ z[a] = s[b]
  <2>1. CASE a < i
    <3>1. a \in 1 .. l /\ a # i /\ z[a] = s[a]
      BY <1>11, <2>1
    <3>2. QED
      BY <2>1, <3>1
  <2>2. CASE a >= i /\ a < i + m
    <3>1. a - i + 1 \in 1 .. m /\ a = i + (a - i + 1) - 1 /\ z[a] = N[a - i + 1]
      BY <1>11, <2>2
    <3>2. QED
      BY <3>1
  <2>3. CASE a >= i + m
    <3>1. /\ a - m + 1 \in 1 .. l /\ ~ (a - m + 1 <= i) /\ a = (a - m + 1) + m - 1 /\ z[a] = s[a - m + 1]
      BY <1>11, <2>3
    <3>2. PICK b \in 1 .. l : b = a - m + 1
      BY <3>1
    <3>3. b # i /\ ~ (b < i) /\ a = b + m - 1 /\ z[a] = s[b]
      BY <1>11, <3>1, <3>2
    <3>4. QED
      BY <3>3
  <2>4. QED
    BY <1>11, <2>1, <2>2, <2>3
<1>14. Swapped(C1, C2, c.cur, i, F)
  <2>1. DOMAIN C2 = DOMAIN C1 /\ F \subseteq DOMAIN C1 /\ C2[c.cur] \in Seq(DOMAIN C1)
    BY <1>1, <1>3
  <2>2. \A p \in DOMAIN C1 : p # c.cur => C2[p] = C1[p]
    BY <1>1, <1>3, <1>4
  <2>3. \A a : Edge(C2, c.cur, a) => \/ C2[c.cur][a] \in F
                                     \/ \E j : j # i /\ Edge(C1, c.cur, j) /\ C2[c.cur][a] = C1[c.cur][j]
    <3> SUFFICES ASSUME NEW a, Edge(C2, c.cur, a)
                 PROVE  \/ C2[c.cur][a] \in F
                        \/ \E j : j # i /\ Edge(C1, c.cur, j) /\ C2[c.cur][a] = C1[c.cur][j]
      OBVIOUS
    <3>1. a \in 1 .. l + m - 1 /\ C2[c.cur][a] = z[a]
      BY <1>11 DEF Edge
    <3>2. CASE \E j \in 1 .. m : a = i + j - 1 /\ z[a] = N[j]
      BY <1>2, <1>10, <3>1, <3>2
    <3>3. CASE \E b \in 1 .. l : b # i /\ (a = IF b < i THEN b ELSE b + m - 1) /\ z[a] = s[b]
      <4>1. PICK b \in 1 .. l : b # i /\ z[a] = s[b]
        BY <3>3
      <4>2. Edge(C1, c.cur, b) /\ C1[c.cur][b] = s[b]
        BY <1>1, <1>8, <1>10, <1>11 DEF Edge
      <4>3. QED
        BY <3>1, <4>1, <4>2
    <3>4. QED
      BY <1>13, <3>1, <3>2, <3>3
  <2>4. ASSUME NEW a, NEW b, Edge(C2, c.cur, a), Edge(C2, c.cur, b), C2[c.cur][a] = C2[c.cur][b]
        PROVE  a = b
    <3>1. a \in 1 .. l + m - 1 /\ b \in 1 .. l + m - 1 /\ z[a] = z[b]
      BY <1>11, <2>4 DEF Edge
    <3>2. \A j \in 1 .. m : N[j] \notin DOMAIN h
      BY <1>2, <1>10
    <3>3. CASE \E j \in 1 .. m : a = i + j - 1 /\ z[a] = N[j]
      <4>1. PICK j \in 1 .. m : a = i + j - 1 /\ z[a] = N[j]
        BY <3>3
      <4>2. PICK j2 \in 1 .. m : b = i + j2 - 1 /\ z[b] = N[j2]
        BY <1>12, <1>13, <3>1, <3>2, <4>1
      <4>3. j = j2
        BY <1>2, <1>10, <3>1, <4>1, <4>2
      <4>4. QED
        BY <4>1, <4>2, <4>3
    <3>4. CASE \E x \in 1 .. l : x # i /\ (a = IF x < i THEN x ELSE x + m - 1) /\ z[a] = s[x]
      <4>1. PICK x \in 1 .. l : x # i /\ (a = IF x < i THEN x ELSE x + m - 1) /\ z[a] = s[x]
        BY <3>4
      <4>2. PICK y \in 1 .. l : y # i /\ (b = IF y < i THEN y ELSE y + m - 1) /\ z[b] = s[y]
        BY <1>12, <1>13, <3>1, <3>2, <4>1
      <4>3. Edge(C, c.cur, x) /\ Edge(C, c.cur, y) /\ C[c.cur][x] = C[c.cur][y]
        BY <1>1, <1>8, <1>10, <1>11, <3>1, <4>1, <4>2 DEF Edge
      <4>4. x = y
        BY <1>9, <4>3
      <4>5. QED
        BY <4>1, <4>2, <4>4
    <3>5. QED
      BY <1>13, <3>1, <3>3, <3>4
  <2>5. QED
    BY <1>8, <2>1, <2>2, <2>3, <2>4 DEF Swapped
<1>15. Orphans(C1, R, F, t)
  <2>1. \A n \in F : n # None /\ n[1] = t
    BY <1>1, <1>2 DEF Forest, Nodes
  <2>2. ASSUME NEW n \in F, NEW p, NEW j, Edge(C1, p, j) PROVE C1[p][j] # n
    <3>1. CASE p \in DOMAIN h
      <4>0. C1[p] = C[p] /\ C[p] \in Seq(DOMAIN h) /\ j \in DOMAIN C1[p]
        BY <1>1, <2>2, <3>1 DEF Edge, Forest, Nodes
      <4>1. C1[p][j] \in DOMAIN h
        BY <4>0
      <4>2. QED
        BY <1>2, <4>1
    <3>2. CASE p \in F
      BY <1>4, <2>1, <2>2, <3>2 DEF Edge
    <3>3. QED
      BY <1>1, <2>2, <3>1, <3>2 DEF Edge
  <2>3. \A n \in F : \A x \in Nat : n \notin R[x]
    BY <1>1, <1>2 DEF Forest, Retirements
  <2>4. QED
    BY <2>1, <2>2, <2>3 DEF Orphans
<1>16. q \in DOMAIN h
  BY <1>10, <1>11, <1>12
<1>17. QED
  BY <1>2, <1>3, <1>6, <1>8, <1>14, <1>15, <1>16 DEF C, C2, F, V

\* After update_cow the nodes are a forest again; q is replaced, and left if it is a leaf.
LEMMA CopyForest ==
  ASSUME NEW h, NEW c, NEW R, NEW L, NEW U, NEW mk, NEW rk, NEW k, Copies(h, c, R, L, U, mk, rk, k),
         NEW r, NEW i, NEW N, Updated(h, c, r, i, N), NEW q, q = h[c.cur].chs[i], NEW R1, NEW L1,
         Adds(R, R1, c.sno, {q}), Adds(L, L1, c.sno, IF h[q].leaf THEN {q} ELSE {})
  PROVE  Forest(Kids(r.heap), R1, L1, U \cup Later(h, q, N))
<1> DEFINE C == Kids(h)
           F == Range(N)
           V == Later(h, q, N)
           C2 == Kids(r.heap)
           t == c.sno
           Z == IF h[q].leaf THEN {q} ELSE {}
<1>1. PICK C1 : Grown(C, C1, F, V, t) /\ Swapped(C1, C2, c.cur, i, F) /\ Orphans(C1, R, F, t) /\ q = C1[c.cur][i]
  BY CopySteps
<1>2. q \in DOMAIN h /\ \A n \in F : n \notin DOMAIN h
  BY CopySteps
<1>3. /\ Forest(C, R, L, U) /\ t \in Nat /\ c.cur \in DOMAIN h /\ c.cur \notin U /\ c.cur[1] = t
      /\ \A x \in Nat : c.cur \notin L[x]
  BY DEF Copies, CanUpdate
<1>4. q[1] < t /\ q \notin U
  BY DEF Updated, Copies
<1>5. V \subseteq F
  BY DEF Later
<1>6. Z \subseteq {q} /\ Adds(R, R1, t, {q}) /\ Adds(L, L1, t, Z)
  OBVIOUS
<1> HIDE DEF Z, t, V, F, C, C2
<1>7. Forest(C1, R, L, U \cup V)
  BY <1>1, <1>3, GrowForest
<1>8. q \notin U \cup V /\ c.cur \notin U \cup V
  BY <1>2, <1>3, <1>4, <1>5
<1>9. Forest(C2, R1, L1, U \cup V)
  BY <1>1, <1>3, <1>4, <1>6, <1>7, <1>8, SwapForest
<1>10. QED
  BY <1>9 DEF C2, V

\* New nodes get the height of the node they replace.
LEMMA CopyLabels ==
  ASSUME NEW h, NEW c, NEW R, NEW L, NEW U, NEW mk, NEW rk, NEW k, Copies(h, c, R, L, U, mk, rk, k),
         NEW r, NEW i, NEW N, Updated(h, c, r, i, N), NEW q, q = h[c.cur].chs[i]
  PROVE  \E mk1, rk1 : /\ Ranked(Kids(r.heap), rk1) /\ Marked(Kids(r.heap), mk1)
                       /\ \A n \in DOMAIN h : mk1[n] = mk[n] /\ rk1[n] = rk[n]
                       /\ \A n \in Range(N) : mk1[n] = k /\ rk1[n] = rk[q]
<1> DEFINE C == Kids(h)
           F == Range(N)
           V == Later(h, q, N)
           C2 == Kids(r.heap)
<1>1. PICK C1 : Grown(C, C1, F, V, c.sno) /\ Swapped(C1, C2, c.cur, i, F) /\ Orphans(C1, R, F, c.sno) /\ q = C1[c.cur][i]
  BY CopySteps
<1>2. /\ q \in DOMAIN h /\ DOMAIN r.heap = DOMAIN h \cup F
      /\ \A n \in F : n \notin DOMAIN h
  BY CopySteps
<1>3. DOMAIN C = DOMAIN h /\ DOMAIN C2 = DOMAIN h \cup F /\ \A n \in DOMAIN h : C[n] = h[n].chs
  BY <1>2 DEF Kids
<1>4. /\ Forest(C, R, L, U) /\ Ranked(C, rk) /\ Marked(C, mk) /\ k \in Nat /\ k <= mk[c.cur] + 1
      /\ c.cur \in DOMAIN h
  BY DEF Copies, CanUpdate
<1>5. F # {} => (V = F \/ (V = {} /\ h[q].leaf)) 
  BY DEF Later
<1>6. rk[q] > 0 \/ V = {}
  <2> SUFFICES ASSUME ~ h[q].leaf PROVE rk[q] > 0
    BY DEF Later
  <2>1. IsNode(h[q]) /\ h[q].chs \in Seq(DOMAIN h)
    BY <1>2 DEF Copies, CanUpdate
  <2>2. 1 \in DOMAIN h[q].chs
    <3>1. IsSeq(h[q].keys) /\ Len(h[q].chs) = Len(h[q].keys) + 1 /\ IsSeq(h[q].chs)
      BY <2>1 DEF IsNode
    <3>2. PICK l \in Nat : l = Len(h[q].keys)
      BY <3>1, LengthIs
    <3>3. DOMAIN h[q].chs = 1 .. l + 1
      BY <3>1, <3>2, LengthIs
    <3>4. 1 \in 1 .. l + 1
      OBVIOUS
    <3>5. QED
      BY <3>3, <3>4, Zenon
  <2>3. Edge(C, q, 1)
    BY <1>2, <1>3, <2>2 DEF Edge
  <2>4. rk[C[q][1]] < rk[q] /\ C[q][1] \in DOMAIN C
    BY <1>2, <1>3, <1>4, <2>1, <2>2, <2>3 DEF Ranked
  <2>5. QED
    BY <1>2, <1>3, <1>4, <2>4 DEF Ranked
<1>7. \A p, a : Edge(C2, p, a) =>
        \/ p \in DOMAIN h /\ p # c.cur /\ Edge(C, p, a) /\ C2[p][a] = C[p][a]
        \/ p = c.cur /\ C2[p][a] \in F
        \/ p = c.cur /\ \E j : Edge(C, p, j) /\ C2[p][a] = C[p][j]
        \/ p \in V /\ C2[p][a] = None
  <2> HIDE DEF F, V, C, C2
  <2> SUFFICES ASSUME NEW p, NEW a, Edge(C2, p, a)
               PROVE  \/ p \in DOMAIN h /\ p # c.cur /\ Edge(C, p, a) /\ C2[p][a] = C[p][a]
                      \/ p = c.cur /\ C2[p][a] \in F
                      \/ p = c.cur /\ \E j : Edge(C, p, j) /\ C2[p][a] = C[p][j]
                      \/ p \in V /\ C2[p][a] = None
    OBVIOUS
  <2>1. CASE p = c.cur
    <3>1. C1[c.cur] = C[c.cur] /\ \A j : Edge(C1, c.cur, j) => Edge(C, c.cur, j)
      BY <1>1, <1>3, <1>4 DEF Grown, Edge
    <3>2. QED
      BY <1>1, <2>1, <3>1 DEF Swapped
  <2>2. CASE p # c.cur /\ p \in DOMAIN h
    BY <1>1, <1>3, <2>2 DEF Grown, Swapped, Edge
  <2>3. CASE p # c.cur /\ p \in F
    <3>1. C2[p] = C1[p] /\ Edge(C1, p, a)
      BY <1>1, <1>3, <2>3 DEF Grown, Swapped, Edge
    <3>2. F \cap DOMAIN C = {} /\ C1[p] \in Seq(F \cup {None}) /\ (C1[p][a] = None <=> p \in V)
      BY <1>1, <2>3, <3>1 DEF Grown
    <3>3. \A m \in F : C1[p][a] # m
      BY <1>1, <3>1 DEF Orphans
    <3>4. C1[p][a] \in F \cup {None}
      BY <3>1, <3>2 DEF Edge
    <3>5. QED
      BY <3>1, <3>2, <3>3, <3>4
  <2>4. QED
    BY <1>3, <2>1, <2>2, <2>3 DEF Edge
<1>8. V \subseteq F /\ q = C[c.cur][i] /\ Edge(C, c.cur, i)
  <2>1. V \subseteq F
    BY DEF Later
  <2>2. QED
    BY <1>3, <1>4, <2>1 DEF Updated, Edge
<1> DEFINE mk1 == [n \in DOMAIN h \cup F |-> IF n \in DOMAIN h THEN mk[n] ELSE k]
           rk1 == [n \in DOMAIN h \cup F |-> IF n \in DOMAIN h THEN rk[n] ELSE rk[q]]
<1>9. /\ \A n \in DOMAIN h : mk1[n] = mk[n] /\ rk1[n] = rk[n]
      /\ \A n \in F : mk1[n] = k /\ rk1[n] = rk[q]
  BY <1>2
<1>10. None \in DOMAIN h /\ \A p, a : Edge(C, p, a) => C[p][a] \in DOMAIN h /\ p \in DOMAIN h
  BY <1>3, <1>4 DEF Forest, Nodes, Edge
<1>11. mk \in [DOMAIN h -> Nat] /\ rk \in [DOMAIN h -> Nat] /\ rk[None] = 0 /\ mk[None] = 0
  BY <1>3, <1>4 DEF Ranked, Marked
<1>12. mk1 \in [DOMAIN C2 -> Nat] /\ rk1 \in [DOMAIN C2 -> Nat]
  BY <1>2, <1>3, <1>4, <1>11
<1> HIDE DEF mk1, rk1, C, C2, F, V
<1>13. ASSUME NEW p, NEW a, Edge(C2, p, a) PROVE rk1[C2[p][a]] < rk1[p] /\ mk1[C2[p][a]] <= mk1[p] + 1
  <2>1. CASE p \in DOMAIN h /\ p # c.cur /\ Edge(C, p, a) /\ C2[p][a] = C[p][a]
    BY <1>4, <1>9, <1>10, <2>1 DEF Ranked, Marked
  <2>2. CASE p = c.cur /\ C2[p][a] \in F
    <3>1. rk[q] < rk[c.cur]
      BY <1>4, <1>8 DEF Ranked
    <3>2. QED
      BY <1>4, <1>9, <2>2, <3>1
  <2>3. CASE p = c.cur /\ \E j : Edge(C, p, j) /\ C2[p][a] = C[p][j]
    BY <1>4, <1>9, <1>10, <2>3 DEF Ranked, Marked
  <2>4. CASE p \in V /\ C2[p][a] = None
    <3>1. p \in F /\ rk[q] > 0
      BY <1>6, <1>8, <2>4
    <3>2. QED
      BY <1>4, <1>9, <1>10, <1>11, <2>4, <3>1
  <2>5. QED
    BY <1>7, <1>13, <2>1, <2>2, <2>3, <2>4
<1>14. Ranked(C2, rk1) /\ Marked(C2, mk1)
  BY <1>9, <1>10, <1>11, <1>12, <1>13 DEF Ranked, Marked
<1>15. QED
  BY <1>9, <1>14 DEF C2, F

\* The nodes K of ticket t get the children of past; then update_cow goes on with one of them.
CanFill(h, f, c, K, off, past, R, R1, L, L1, U, mk, rk, k) ==
  /\ k \in Nat
  /\ Forest(Kids(h), R, L, U)
  /\ Ranked(Kids(h), rk)
  /\ Marked(Kids(h), mk)
  /\ Filled(Kids(h), Kids(f), past, K, off, c.sno)
  /\ K \subseteq U
  /\ past \notin U
  /\ past # None
  /\ past[1] < c.sno
  /\ \A x \in Nat : past \notin L[x]
  /\ \A x \in Nat : past \in R[x] => x = c.sno
  /\ (past \in R[c.sno] \/ \A p, i : Edge(Kids(h), p, i) => Kids(h)[p][i] # past)
  /\ Adds(R, R1, c.sno, {past})
  /\ Adds(L, L1, c.sno, {past})
  /\ \A i : Edge(Kids(h), past, i) => Kids(h)[past][i] \notin U
  /\ \A n \in DOMAIN f : IsNode(f[n]) /\ f[n].chs \in Seq(DOMAIN f)
  /\ IsContext(c) /\ c.made \in Nat
  /\ New(c, 1) \notin DOMAIN f /\ New(c, 2) \notin DOMAIN f
  /\ c.cur \in K /\ ~ f[c.cur].leaf
  /\ \A n \in K : mk[n] + 1 = k /\ rk[n] = rk[past]
  /\ mk[past] + 1 <= k

LEMMA FillCopies ==
  ASSUME NEW h, NEW f, NEW c, NEW K, NEW off, NEW past, NEW R, NEW R1, NEW L, NEW L1, NEW U,
         NEW mk, NEW rk, NEW k, CanFill(h, f, c, K, off, past, R, R1, L, L1, U, mk, rk, k)
  PROVE  Copies(f, c, R1, L1, U \ K, mk, rk, k)
<1> /\ k \in Nat
    /\ Forest(Kids(h), R, L, U)
    /\ Ranked(Kids(h), rk)
    /\ Marked(Kids(h), mk)
    /\ Filled(Kids(h), Kids(f), past, K, off, c.sno)
    /\ K \subseteq U
    /\ past \notin U
    /\ past # None
    /\ past[1] < c.sno
    /\ \A x \in Nat : past \notin L[x]
    /\ \A x \in Nat : past \in R[x] => x = c.sno
    /\ (past \in R[c.sno] \/ \A p, i : Edge(Kids(h), p, i) => Kids(h)[p][i] # past)
    /\ Adds(R, R1, c.sno, {past})
    /\ Adds(L, L1, c.sno, {past})
    /\ \A i : Edge(Kids(h), past, i) => Kids(h)[past][i] \notin U
    /\ \A n \in DOMAIN f : IsNode(f[n]) /\ f[n].chs \in Seq(DOMAIN f)
    /\ IsContext(c) /\ c.made \in Nat
    /\ New(c, 1) \notin DOMAIN f /\ New(c, 2) \notin DOMAIN f
    /\ c.cur \in K /\ ~ f[c.cur].leaf
    /\ \A n \in K : mk[n] + 1 = k /\ rk[n] = rk[past]
    /\ mk[past] + 1 <= k
  BY DEF CanFill
<1> DEFINE C == Kids(h)
           F == Kids(f)
           t == c.sno
<1>1. Forest(F, R1, L1, U \ K)
  <2> HIDE DEF C, F, t
  <2>1. Forest(C, R, L, U) /\ Filled(C, F, past, K, off, t)
    BY DEF C, F, t
  <2>2. past[1] < t /\ (\A x \in Nat : past \in R[x] => x = t) /\ Adds(R, R1, t, {past}) /\ Adds(L, L1, t, {past})
    BY DEF t
  <2>3. past \in R[t] \/ \A p, i : Edge(C, p, i) => C[p][i] # past
    BY DEF t, C
  <2>4. \A i : Edge(C, past, i) => C[past][i] \notin U
    BY DEF C
  <2>5. K \subseteq U /\ past \notin U /\ past # None /\ \A x \in Nat : past \notin L[x]
    OBVIOUS
  <2>6. QED
    BY ONLY <2>1, <2>2, <2>3, <2>4, <2>5, FillForest
<1>2. /\ DOMAIN F = DOMAIN C /\ DOMAIN C = DOMAIN h /\ DOMAIN F = DOMAIN f
      /\ \A n \in DOMAIN f : F[n] = f[n].chs
      /\ past \in DOMAIN C /\ past \notin K /\ t \in Nat
  BY DEF Filled, Kids
<1>3. \A p, i : Edge(F, p, i) => \/ p \notin K /\ Edge(C, p, i) /\ F[p][i] = C[p][i]
                                 \/ p \in K /\ \E j : Edge(C, past, j) /\ F[p][i] = C[past][j]
  <2> HIDE DEF C, F
  <2> SUFFICES ASSUME NEW p, NEW i, Edge(F, p, i)
               PROVE  \/ p \notin K /\ Edge(C, p, i) /\ F[p][i] = C[p][i]
                      \/ p \in K /\ \E j : Edge(C, past, j) /\ F[p][i] = C[past][j]
    OBVIOUS
  <2>1. Filled(C, F, past, K, off, t)
    BY DEF C, F
  <2>2. CASE p \in K
    <3>1. off[p] + i \in DOMAIN C[past] /\ F[p][i] = C[past][off[p] + i]
      BY <2>1, <2>2 DEF Filled
    <3>2. QED
      BY <1>2, <2>2, <3>1 DEF Edge
  <2>3. CASE p \notin K
    BY <2>1, <2>3 DEF Filled, Edge
  <2>4. QED
    BY <2>2, <2>3
<1>3a. \A p, i : p \in K /\ Edge(F, p, i) => \E j : Edge(C, past, j) /\ F[p][i] = C[past][j]
  BY <1>3
<1>4. /\ mk \in [DOMAIN C -> Nat] /\ rk \in [DOMAIN C -> Nat] /\ rk[None] = 0 /\ mk[None] = 0
      /\ \A p, i : Edge(C, p, i) => rk[C[p][i]] < rk[p] /\ mk[C[p][i]] <= mk[p] + 1
      /\ \A p, i : Edge(C, p, i) => C[p][i] \in DOMAIN C
      /\ K \subseteq DOMAIN C
  BY DEF Ranked, Marked, Forest, Nodes, Edge
<1> HIDE DEF C, F
<1>5. Ranked(F, rk) /\ Marked(F, mk)
  <2>1. ASSUME NEW p, NEW i, Edge(F, p, i) PROVE rk[F[p][i]] < rk[p] /\ mk[F[p][i]] <= mk[p] + 1
    <3>1. CASE p \notin K /\ Edge(C, p, i) /\ F[p][i] = C[p][i]
      BY <1>4, <3>1
    <3>2. CASE p \in K /\ \E j : Edge(C, past, j) /\ F[p][i] = C[past][j]
      <4>1. PICK j : Edge(C, past, j) /\ F[p][i] = C[past][j]
        BY <3>2
      <4>2. rk[p] = rk[past] /\ mk[p] + 1 = k /\ mk[past] + 1 <= k
        BY <3>2
      <4>3. mk[C[past][j]] \in Nat /\ mk[p] \in Nat /\ mk[past] \in Nat
        BY <1>2, <1>4, <3>2, <4>1
      <4>4. QED
        BY <1>4, <4>1, <4>2, <4>3
    <3>3. QED
      BY <1>3, <2>1, <3>1, <3>2
  <2>2. QED
    BY <1>2, <1>4, <2>1 DEF Ranked, Marked
<1>6. /\ c.cur \notin U \ K /\ c.cur[1] = t /\ c.cur \in DOMAIN f
      /\ \A x \in Nat : c.cur \notin L1[x]
  <2>1. c.cur[1] = t /\ c.cur \in DOMAIN f /\ c.cur # past
    BY <1>2, <1>4 DEF Filled
  <2>2. \A x \in Nat : c.cur \notin L[x]
    BY DEF Forest, Retirements
  <2>3. ASSUME NEW x \in Nat PROVE c.cur \notin L1[x]
    <3>1. L1[x] = IF x = c.sno THEN L[c.sno] \cup {past} ELSE L[x]
      BY DEF Adds
    <3>2. QED
      BY <2>1, <2>2, <3>1
  <2>4. QED
    BY <2>1, <2>3
<1>7. k <= mk[c.cur] + 1
  BY <1>4
<1>8. ASSUME NEW i \in DOMAIN f[c.cur].chs, NEW q, q = f[c.cur].chs[i]
      PROVE  q[1] < t /\ q \notin U \ K /\ mk[q] <= k
  <2>0. PICK cur : cur = c.cur
    OBVIOUS
  <2>1. Edge(F, cur, i) /\ F[cur][i] = q /\ cur \in K
    BY <1>2, <1>6, <1>8, <2>0 DEF Edge
  <2>2. PICK j : Edge(C, past, j) /\ q = C[past][j]
    <3>0. \A a : cur \in K /\ Edge(F, cur, a) => \E j : Edge(C, past, j) /\ F[cur][a] = C[past][j]
      BY <1>3a
    <3>a. cur \in K
      BY <2>1
    <3>b. Edge(F, cur, i)
      BY <2>1
    <3>c. cur \in K /\ Edge(F, cur, i) => \E j : Edge(C, past, j) /\ F[cur][i] = C[past][j]
      BY <3>0
    <3>1. \E j : Edge(C, past, j) /\ F[cur][i] = C[past][j]
      BY <3>a, <3>b, <3>c
    <3>2. QED
      BY <2>1, <3>1
  <2>3. q[1] <= past[1] /\ q[1] \in Nat /\ past[1] \in Nat
    BY <1>2, <1>4, <2>2 DEF Forest, Nodes, C
  <2>4. q \notin U
    BY <2>2 DEF C
  <2>5. mk[q] <= mk[past] + 1 /\ mk[q] \in Nat /\ mk[past] \in Nat
    BY <1>2, <1>4, <2>2
  <2>6. QED
    BY <1>2, <2>3, <2>4, <2>5
<1>9. CanUpdate(f, c)
  BY <1>6 DEF CanUpdate
<1>10. QED
  BY <1>1, <1>2, <1>5, <1>6, <1>7, <1>8, <1>9 DEF Copies, F

-----------------------------------------------------------------------------
(***************************************************************************)
(* The graph of a state: h is a heap, cx the contexts.                     *)
(***************************************************************************)
Moving(c) == c.op \in {"down", "split"}

\* The nodes whose children the next handler of c copies, those that c has replaced, and
\* those of them whose children it has copied.
Opened(h, c) ==
  IF c.op = "down" THEN {c.cur}
  ELSE IF c.op = "split" THEN {h[c.cur].chs[c.idx], h[c.cur].chs[c.idx + 1]}
  ELSE {}
Gone(c) == Range(c.retired)
Quit(c) == IF Moving(c) THEN Gone(c) \ {c.past} ELSE Gone(c)

Open(h, cx)      == UNION {Opened(h, cx[t]) : t \in DOMAIN cx}
Others(h, cx, t) == UNION {Opened(h, cx[u]) : u \in DOMAIN cx \ {t}}
Retired(cx)      == [x \in Nat |-> IF x \in DOMAIN cx THEN Gone(cx[x]) ELSE {}]
Copied(cx)       == [x \in Nat |-> IF x \in DOMAIN cx THEN Quit(cx[x]) ELSE {}]

\* What a context of ticket t says about the nodes.
Targets(c) == {c.idx} \cup (IF c.pair THEN {c.idx + 1} ELSE {})
Filling(h, c) == IF c.cur = None THEN {c.root} ELSE {h[c.cur].chs[i] : i \in Targets(c)}
ShapeMoving(h, t, c) ==
  /\ c.past \in Gone(c) /\ c.past \in DOMAIN h /\ ~ h[c.past].leaf
  /\ c.cur \in DOMAIN h /\ c.cur[1] = t /\ ~ h[c.cur].leaf
ShapeSplit(h, t, c) ==
  /\ Len(h[c.past].keys) = MaxKeys
  /\ c.idx \in DOMAIN h[c.cur].chs /\ c.idx + 1 \in DOMAIN h[c.cur].chs
  /\ h[c.cur].chs[c.idx] # h[c.cur].chs[c.idx + 1]
  /\ \A n \in Opened(h, c) : n \in DOMAIN h /\ n[1] = t /\ ~ h[n].leaf /\ Len(h[n].keys) = Half - 1
ShapeMaterialize(h, t, c) ==
  /\ c.past \in Gone(c) /\ c.past \in DOMAIN h /\ h[c.past].leaf
  /\ c.cur = None => c.root \in DOMAIN h /\ c.root[1] = t /\ h[c.root].leaf /\ ~ c.pair
  /\ c.cur # None =>
       /\ c.cur \in DOMAIN h /\ c.cur[1] = t
       /\ \A i \in Targets(c) : /\ i \in DOMAIN h[c.cur].chs /\ h[c.cur].chs[i] \in DOMAIN h
                                /\ h[c.cur].chs[i][1] = t /\ h[h[c.cur].chs[i]].leaf
ShapeAppend(h, c) == c.cur \in DOMAIN h /\ h[c.cur].leaf /\ c.idx \in DOMAIN h[c.cur].slots /\ c.retired = <<>>

Shape(h, t, c) ==
  /\ IsContext(c) /\ c.sno = t /\ t \in Nat \ {0} /\ c.made \in Nat /\ IsSeq(c.retired)
  /\ c.op \in {"down", "split", "append", "materialize", "done"}
  /\ Moving(c) => ShapeMoving(h, t, c)
  /\ c.op = "down" => Len(h[c.cur].keys) = Len(h[c.past].keys)
  /\ c.op = "split" => ShapeSplit(h, t, c)
  /\ c.op = "materialize" => ShapeMaterialize(h, t, c)
  /\ c.op = "append" => ShapeAppend(h, c)

Shapes(h, cx)  == \A t \in DOMAIN cx : Shape(h, t, cx[t])
Settled(h, cx) == \A t \in DOMAIN cx : Moving(cx[t]) => cx[t].past \notin Open(h, cx)

\* Nodes K of ticket t change, and nodes F of ticket t are new.
Extended(h, f, t, K, F) ==
  /\ DOMAIN f = DOMAIN h \cup F /\ F \cap DOMAIN h = {} /\ K \subseteq DOMAIN h
  /\ \A n \in DOMAIN h \ K : /\ f[n].leaf = h[n].leaf /\ f[n].keys = h[n].keys /\ f[n].chs = h[n].chs
                             /\ DOMAIN h[n].slots \subseteq DOMAIN f[n].slots
  /\ \A n \in K : n[1] = t /\ ~ h[n].leaf
  /\ \A n \in F : n[1] = t

\* What is open belongs to its ticket.
LEMMA OpenedIs ==
  ASSUME NEW h, NEW t, NEW c, Shape(h, t, c), NEW n \in Opened(h, c)
  PROVE  Moving(c) /\ n \in DOMAIN h /\ n[1] = t /\ ~ h[n].leaf
<1>1. CASE c.op = "down"
  BY <1>1 DEF Opened, Shape, Moving, ShapeMoving
<1>2. CASE c.op = "split"
  BY <1>2 DEF Opened, Shape, Moving, ShapeSplit
<1>3. QED
  BY <1>1, <1>2 DEF Opened

\* The other tickets do not notice.
LEMMA ShapeKept ==
  ASSUME NEW h, NEW f, NEW t, NEW K, NEW F, Extended(h, f, t, K, F),
         NEW u, u # t, NEW c, Shape(h, u, c), Moving(c) => c.past \notin K
  PROVE  Shape(f, u, c) /\ Opened(f, c) = Opened(h, c)
<1> DEFINE Same(n) == /\ n \in DOMAIN f /\ f[n].leaf = h[n].leaf /\ f[n].keys = h[n].keys
                      /\ f[n].chs = h[n].chs /\ DOMAIN h[n].slots \subseteq DOMAIN f[n].slots
<1>1. \A n \in DOMAIN h : n[1] = u \/ h[n].leaf \/ n \notin K => Same(n)
  BY DEF Extended
<1> HIDE DEF Same
<1>2. IsContext(c) /\ c.sno = u /\ u \in Nat \ {0} /\ c.made \in Nat /\ IsSeq(c.retired)
      /\ c.op \in {"down", "split", "append", "materialize", "done"}
  BY DEF Shape
<1>3. ASSUME Moving(c) PROVE Same(c.past) /\ Same(c.cur) /\ ShapeMoving(h, u, c) /\ ShapeMoving(f, u, c)
  <2>1. ShapeMoving(h, u, c)
    BY <1>3 DEF Shape
  <2>2. Same(c.past) /\ Same(c.cur)
    BY <1>1, <1>3, <2>1 DEF ShapeMoving
  <2>3. QED
    BY <2>1, <2>2 DEF ShapeMoving, Same
<1>4. Opened(f, c) = Opened(h, c)
  BY <1>3 DEF Opened, Moving, Same
<1>5. c.op = "down" => Len(f[c.cur].keys) = Len(f[c.past].keys)
  BY <1>3 DEF Moving, Same, Shape
<1>6. ASSUME c.op = "split" PROVE ShapeSplit(f, u, c)
  <2>1. ShapeSplit(h, u, c) /\ Moving(c)
    BY <1>6 DEF Shape, Moving
  <2>2. \A n \in Opened(h, c) : n \in DOMAIN h /\ n[1] = u /\ ~ h[n].leaf /\ Len(h[n].keys) = Half - 1
    BY <2>1 DEF ShapeSplit
  <2>3. \A n \in Opened(f, c) : n \in DOMAIN f /\ n[1] = u /\ ~ f[n].leaf /\ Len(f[n].keys) = Half - 1
    BY <1>1, <1>4, <2>2 DEF Same
  <2>4. f[c.past].keys = h[c.past].keys /\ f[c.cur].chs = h[c.cur].chs
    BY <1>3, <2>1 DEF Same
  <2>5. QED
    BY <2>1, <2>3, <2>4 DEF ShapeSplit
<1>7. ASSUME c.op = "materialize" PROVE ShapeMaterialize(f, u, c)
  <2>1. ShapeMaterialize(h, u, c)
    BY <1>7 DEF Shape
  <2>2. Same(c.past)
    BY <1>1, <2>1 DEF ShapeMaterialize
  <2>3. c.cur = None => Same(c.root)
    BY <1>1, <2>1 DEF ShapeMaterialize
  <2>4. ASSUME c.cur # None PROVE Same(c.cur) /\ \A i \in Targets(c) : Same(h[c.cur].chs[i])
    BY <1>1, <2>1, <2>4 DEF ShapeMaterialize
  <2>5. ASSUME c.cur # None
        PROVE  /\ c.cur \in DOMAIN f /\ c.cur[1] = u
               /\ \A i \in Targets(c) : /\ i \in DOMAIN f[c.cur].chs /\ f[c.cur].chs[i] \in DOMAIN f
                                        /\ f[c.cur].chs[i][1] = u /\ f[f[c.cur].chs[i]].leaf
    <3>1. c.cur \in DOMAIN f /\ f[c.cur].chs = h[c.cur].chs
      BY <2>4, <2>5 DEF Same
    <3>2. ASSUME NEW i \in Targets(c)
          PROVE  h[c.cur].chs[i] \in DOMAIN f /\ f[h[c.cur].chs[i]].leaf = h[h[c.cur].chs[i]].leaf
      BY <2>4, <2>5 DEF Same
    <3>3. QED
      BY <2>1, <2>5, <3>1, <3>2 DEF ShapeMaterialize
  <2>6. QED
    BY <2>1, <2>2, <2>3, <2>5 DEF ShapeMaterialize, Same
<1>8. ASSUME c.op = "append" PROVE ShapeAppend(f, c)
  <2>1. ShapeAppend(h, c)
    BY <1>8 DEF Shape
  <2>2. Same(c.cur)
    BY <1>1, <2>1 DEF ShapeAppend
  <2>3. QED
    BY <2>1, <2>2 DEF ShapeAppend, Same
<1>9. QED
  BY <1>2, <1>3, <1>4, <1>5, <1>6, <1>7, <1>8 DEF Shape

\* Context d is c, maybe at another stage; cx1 is cx with d for ticket t.
AtStage(c, d) ==
  /\ IsContext(d) /\ d.sno = c.sno /\ d.key = c.key /\ d.op = c.op /\ d.root = c.root /\ d.cur = c.cur
  /\ d.past = c.past /\ d.idx = c.idx /\ d.pair = c.pair /\ d.later = c.later
  /\ d.retired = c.retired /\ d.made = c.made
Becomes(cx, cx1, t, d) ==
  /\ DOMAIN cx1 = DOMAIN cx \cup {t} /\ cx1[t] = d
  /\ \A u \in DOMAIN cx \ {t} : cx1[u] = cx[u]

\* What the tickets have replaced and left once ticket t has copied the children of the
\* last node it replaced.
GoneBut(cx, t, c) == [x \in Nat |-> IF x = t THEN Gone(c) ELSE Retired(cx)[x]]
QuitBut(cx, t, c) == [x \in Nat |-> IF x = t THEN Gone(c) ELSE Copied(cx)[x]]

\* Heap h and the contexts cx before a handler of ticket t, heap f and the context c when
\* it calls update_cow; r and cx1 when it returns.
Begins(h, cx, f, t, c, K, F, mk, rk, k) ==
  /\ Shapes(h, cx) /\ c.sno = t /\ IsSeq(c.retired)
  /\ Extended(h, f, t, K, F) /\ c.cur \in K \cup F
  /\ \A u \in DOMAIN cx \ {t} : Moving(cx[u]) => cx[u].past \notin K
  /\ Copies(f, c, GoneBut(cx, t, c), QuitBut(cx, t, c), Others(h, cx, t), mk, rk, k)
Returns(cx, f, t, c, r, i, N, d, cx1) ==
  /\ Updated(f, c, r, i, N) /\ AtStage(r.c, d) /\ Becomes(cx, cx1, t, d)

Moves(h, cx, f, t, c, K, F, mk, rk, k, r, i, N, d, cx1, q, g) ==
  /\ t \in Nat \ {0} /\ q = f[c.cur].chs[i] /\ g = r.heap
  /\ Begins(h, cx, f, t, c, K, F, mk, rk, k) /\ Returns(cx, f, t, c, r, i, N, d, cx1)

LEMMA MoveSpan ==
  ASSUME NEW h, NEW cx, NEW f, NEW t, NEW c, NEW K, NEW F, NEW mk, NEW rk, NEW k,
         NEW r, NEW i, NEW N, NEW d, NEW cx1, NEW q, NEW g,
         Moves(h, cx, f, t, c, K, F, mk, rk, k, r, i, N, d, cx1, q, g)
  PROVE  /\ Extended(h, g, t, K, F \cup Range(N))
         /\ \A n \in Range(N) : n \notin DOMAIN f
<1> /\ t \in Nat \ {0} /\ q = f[c.cur].chs[i] /\ g = r.heap
    /\ Begins(h, cx, f, t, c, K, F, mk, rk, k) /\ Returns(cx, f, t, c, r, i, N, d, cx1)
  BY DEF Moves
<1>1. /\ DOMAIN r.heap = DOMAIN f \cup Range(N)
      /\ \A n \in Range(N) : n \notin DOMAIN f /\ n[1] = t
  BY CopySteps DEF Begins, Returns
<1>2. /\ \A n \in DOMAIN f : n # c.cur => r.heap[n] = f[n]
  BY DEF Returns, Updated
<1>3. Extended(h, f, t, K, F) /\ c.cur \in K \cup F
  BY DEF Begins
<1>4. DOMAIN r.heap = DOMAIN h \cup (F \cup Range(N))
  BY <1>1, <1>3 DEF Extended
<1>5. (F \cup Range(N)) \cap DOMAIN h = {}
  BY <1>1, <1>3 DEF Extended
<1>6. \A n \in DOMAIN h \ K : r.heap[n] = f[n]
  BY <1>2, <1>3 DEF Extended
<1>7. \A n \in DOMAIN h \ K : /\ r.heap[n].leaf = h[n].leaf /\ r.heap[n].keys = h[n].keys /\ r.heap[n].chs = h[n].chs
                             /\ DOMAIN h[n].slots \subseteq DOMAIN r.heap[n].slots
  BY <1>3, <1>6 DEF Extended
<1>8. QED
  BY <1>1, <1>3, <1>4, <1>5, <1>7 DEF Extended

\* The current node after update_cow.
LEMMA InstalledIs ==
  ASSUME NEW f, NEW c, NEW r, NEW i, NEW N, Updated(f, c, r, i, N), CanUpdate(f, c)
  PROVE  /\ i \in Nat /\ Len(N) \in {1, 2}
         /\ \A l \in 1 .. Len(N) : /\ i + l - 1 \in DOMAIN r.heap[c.cur].chs
                                   /\ r.heap[c.cur].chs[i + l - 1] = N[l]
<1>1. PICK n \in Nat : n = Len(f[c.cur].chs) /\ DOMAIN f[c.cur].chs = 1 .. n
  BY LengthIs DEF CanUpdate, IsSeq
<1>2. PICK m \in Nat : m = Len(r.heap[c.cur].chs) /\ DOMAIN r.heap[c.cur].chs = 1 .. m
  BY LengthIs DEF Updated, IsSeq
<1>3. i \in 1 .. n /\ Places(f[c.cur].chs, i, N, r.heap[c.cur].chs)
  BY <1>1 DEF Updated
<1>4. PICK w \in {1, 2} : w = Len(N)
  BY NewNodes DEF Updated, CanUpdate
<1>5. m = n + w - 1 /\ \A k \in 1 .. m : k >= i /\ k < i + w => r.heap[c.cur].chs[k] = N[k - i + 1]
  BY <1>1, <1>2, <1>3, <1>4 DEF Places
<1>6. ASSUME NEW l \in 1 .. w PROVE i + l - 1 \in 1 .. m /\ r.heap[c.cur].chs[i + l - 1] = N[l]
  <2>1. i + l - 1 \in 1 .. m /\ i + l - 1 >= i /\ i + l - 1 < i + w /\ (i + l - 1) - i + 1 = l
    BY <1>3, <1>4, <1>5
  <2>2. QED
    BY <1>5, <2>1
<1>7. QED
  BY <1>2, <1>3, <1>4, <1>6

\* The context after update_cow.
Landed(f, t, c, N, d, q, g) ==
  /\ Shape(g, t, d) /\ Opened(g, d) = Later(f, q, N)
  /\ Gone(d) = Gone(c) \cup {q} /\ (Moving(d) <=> ~ f[q].leaf) /\ d.past = q
  /\ d.root = c.root /\ d.made = c.made + Len(N) /\ d.key = c.key /\ d.later = c.later
  /\ Moving(d) => Opened(g, d) = Range(N)

LEMMA MoveShape ==
  ASSUME NEW h, NEW cx, NEW f, NEW t, NEW c, NEW K, NEW F, NEW mk, NEW rk, NEW k,
         NEW r, NEW i, NEW N, NEW d, NEW cx1, NEW q, NEW g,
         Moves(h, cx, f, t, c, K, F, mk, rk, k, r, i, N, d, cx1, q, g)
  PROVE  Landed(f, t, c, N, d, q, g)
<1> USE DEF Landed
<1> /\ t \in Nat \ {0} /\ q = f[c.cur].chs[i] /\ g = r.heap
    /\ Begins(h, cx, f, t, c, K, F, mk, rk, k) /\ Returns(cx, f, t, c, r, i, N, d, cx1)
  BY DEF Moves
<1>1. CanUpdate(f, c) /\ c.cur[1] = t /\ c.cur \in DOMAIN f /\ c.sno = t /\ c.made \in Nat
  BY DEF Begins, Copies, CanUpdate
<1>2. Updated(f, c, r, i, N) /\ AtStage(r.c, d)
  BY DEF Returns
<1>3. PICK w \in {1, 2} : /\ w = Len(N) /\ DOMAIN N = 1 .. w /\ Range(N) = {N[j] : j \in 1 .. w}
                          /\ \A j \in 1 .. w : N[j] \in Range(N)
                          /\ \A j, l \in 1 .. w : N[j] = N[l] => j = l
  <2>1. N = <<New(c, 1)>> \/ N = <<New(c, 1), New(c, 2)>>
    BY <1>2 DEF Updated
  <2>2. /\ Len(N) \in {1, 2} /\ DOMAIN N = 1 .. Len(N)
        /\ \A j \in 1 .. Len(N) : N[j] \in Range(N)
        /\ \A j, l \in 1 .. Len(N) : N[j] = N[l] => j = l
        /\ Range(N) = {N[j] : j \in 1 .. Len(N)}
    BY NewNodes, <1>1, <2>1
  <2>3. QED
    BY <2>2, Zenon
<1>4. \A n \in Range(N) : n \notin DOMAIN f /\ n[1] = t /\ n \in DOMAIN g
  BY CopySteps DEF Begins, Returns
<1>5. i \in Nat /\ \A l \in 1 .. w : i + l - 1 \in DOMAIN g[c.cur].chs /\ g[c.cur].chs[i + l - 1] = N[l]
  BY InstalledIs, <1>1, <1>2, <1>3
<1>6. d.past = q /\ d.root = c.root /\ d.made = c.made + w /\ d.key = c.key /\ d.later = c.later
      /\ d.sno = t /\ IsContext(d) /\ d.retired = Append(c.retired, q)
  BY <1>1, <1>2, <1>3 DEF Updated, AtStage, SameTicket
<1>7. IsSeq(d.retired) /\ Gone(d) = Gone(c) \cup {q}
  <2>1. PICK S : c.retired \in Seq(S)
    BY DEF Begins, IsSeq
  <2>2. c.retired \in Seq(S \cup {q})
    BY <2>1
  <2>3. Append(c.retired, q) \in Seq(S \cup {q})
    BY <2>2
  <2>4. Range(Append(c.retired, q)) = Range(c.retired) \cup {q}
    <3>1. PICK l \in Nat : l = Len(c.retired) /\ DOMAIN c.retired = 1 .. l
      BY <2>2
    <3>2. DOMAIN Append(c.retired, q) = 1 .. l + 1
      BY <2>2, <3>1
    <3>3. Append(c.retired, q)[l + 1] = q /\ \A j \in 1 .. l : Append(c.retired, q)[j] = c.retired[j]
      BY <2>2, <3>1
    <3>4. 1 .. l + 1 = 1 .. l \cup {l + 1}
      OBVIOUS
    <3>5. QED
      BY <3>1, <3>2, <3>3, <3>4 DEF Range
  <2>5. QED
    BY <1>6, <2>3, <2>4 DEF IsSeq, Gone
<1>8. q \in DOMAIN f /\ q \in DOMAIN g /\ q # c.cur /\ g[q] = f[q]
  <2>1. q \in DOMAIN f /\ DOMAIN g = DOMAIN f \cup Range(N)
    BY CopySteps DEF Begins, Returns
  <2>2. q[1] < t
    BY <1>1, <1>2 DEF Begins, Copies, Updated
  <2>3. q # c.cur
    BY <1>1, <2>2
  <2>4. QED
    BY <1>2, <2>1, <2>3 DEF Updated
<1>9. c.cur \in DOMAIN g /\ ~ g[c.cur].leaf /\ c.cur # None
  BY <1>1, <1>2 DEF Updated, None
<1>10. CASE f[q].leaf
  <2>1. /\ \A n \in Range(N) : g[n].leaf
        /\ d.op = (IF c.later THEN "materialize" ELSE "done")
        /\ d.cur = c.cur /\ d.idx = i /\ d.pair = (w = 2)
    BY <1>2, <1>3, <1>10 DEF Updated, AtStage
  <2>2. ~ Moving(d) /\ d.op \notin {"down", "split", "append"}
    BY <2>1 DEF Moving
  <2>3. \A j \in Targets(d) : \E l \in 1 .. w : j = i + l - 1
    <3>1. CASE w = 1
      <4>0. d.pair = FALSE
        <5>1. (w = 2) = FALSE
          BY <3>1
        <5>2. QED
          BY <2>1, <5>1
      <4>1. Targets(d) = {i}
        BY <2>1, <4>0 DEF Targets
      <4>2. 1 \in 1 .. w /\ i = i + 1 - 1
        BY <1>5, <3>1
      <4>3. QED
        BY <4>1, <4>2
    <3>2. CASE w = 2
      <4>1. Targets(d) = {i, i + 1}
        BY <2>1, <3>2 DEF Targets
      <4>2. 1 \in 1 .. w /\ i = i + 1 - 1 /\ 2 \in 1 .. w /\ i + 1 = i + 2 - 1
        BY <1>5, <3>2
      <4>3. QED
        BY <4>1, <4>2
    <3>3. QED
      BY <3>1, <3>2
  <2>4. ShapeMaterialize(g, t, d)
    <3>1. \A j \in Targets(d) : \E l \in 1 .. w : j \in DOMAIN g[c.cur].chs /\ g[c.cur].chs[j] = N[l]
      BY <1>5, <2>3
    <3>2. ASSUME NEW j \in Targets(d)
          PROVE  /\ j \in DOMAIN g[c.cur].chs /\ g[c.cur].chs[j] \in DOMAIN g
                 /\ g[c.cur].chs[j][1] = t /\ g[g[c.cur].chs[j]].leaf
      <4>1. PICK l \in 1 .. w : j \in DOMAIN g[c.cur].chs /\ g[c.cur].chs[j] = N[l]
        BY <3>1
      <4>2. N[l] \in Range(N)
        BY <1>3
      <4>3. QED
        BY <1>4, <2>1, <4>1, <4>2
    <3>3. d.past \in Gone(d) /\ d.past \in DOMAIN g /\ g[d.past].leaf
      BY <1>6, <1>7, <1>8, <1>10
    <3>4. d.cur # None /\ d.cur \in DOMAIN g /\ d.cur[1] = t
      BY <1>1, <1>9, <2>1
    <3>5. QED
      BY <2>1, <3>2, <3>3, <3>4 DEF ShapeMaterialize
  <2>5. Shape(g, t, d)
    BY <1>1, <1>3, <1>6, <1>7, <2>1, <2>2, <2>4 DEF Shape
  <2>6. QED
    BY <1>3, <1>6, <1>7, <1>10, <2>2, <2>5 DEF Opened, Later
<1>11. CASE ~ f[q].leaf /\ Len(f[q].keys) = MaxKeys /\ w = 2 /\ d.op = "split" /\ d.cur = c.cur /\ d.idx = i
            /\ \A n \in Range(N) : ~ g[n].leaf /\ Len(g[n].keys) = Half - 1
  <2>1. /\ d.idx \in DOMAIN g[c.cur].chs /\ d.idx + 1 \in DOMAIN g[c.cur].chs
        /\ g[c.cur].chs[d.idx] = N[1] /\ g[c.cur].chs[d.idx + 1] = N[2] /\ N[1] # N[2]
    <3>1. 1 \in 1 .. w /\ 2 \in 1 .. w /\ i + 1 - 1 = i /\ i + 2 - 1 = i + 1
      BY <1>5, <1>11
    <3>2. QED
      BY <1>3, <1>5, <1>11, <3>1
  <2>2. Opened(g, d) = {N[1], N[2]} /\ Range(N) = {N[1], N[2]}
    <3>1. 1 .. w = {1, 2}
      BY <1>11
    <3>2. QED
      BY <1>3, <1>11, <2>1, <3>1 DEF Opened
  <2>3. Moving(d) /\ d.op \notin {"down", "append", "materialize"}
    BY <1>11 DEF Moving
  <2>4. ShapeMoving(g, t, d)
    BY <1>1, <1>6, <1>7, <1>8, <1>9, <1>11 DEF ShapeMoving
  <2>5. ShapeSplit(g, t, d)
    BY <1>4, <1>6, <1>8, <1>11, <2>1, <2>2 DEF ShapeSplit
  <2>6. Shape(g, t, d)
    BY <1>1, <1>3, <1>6, <1>7, <1>11, <2>3, <2>4, <2>5 DEF Shape
  <2>7. QED
    BY <1>3, <1>6, <1>7, <1>11, <2>2, <2>3, <2>6 DEF Later
<1>12. CASE ~ f[q].leaf /\ w = 1 /\ ~ g[N[1]].leaf /\ Len(g[N[1]].keys) = Len(f[q].keys)
            /\ d.op = "down" /\ d.cur = N[1]
  <2>1. Range(N) = {N[1]} /\ N[1] \in Range(N)
    <3>1. 1 .. w = {1} /\ 1 \in 1 .. w
      BY <1>12
    <3>2. Range(N) = {N[j] : j \in {1}}
      BY <1>3, <3>1
    <3>3. QED
      BY <3>2
  <2>2. Moving(d) /\ d.op \notin {"split", "append", "materialize"} /\ Opened(g, d) = Range(N)
    BY <1>12, <2>1 DEF Moving, Opened
  <2>3. ShapeMoving(g, t, d)
    BY <1>4, <1>6, <1>7, <1>8, <1>12, <2>1 DEF ShapeMoving
  <2>4. Shape(g, t, d)
    BY <1>1, <1>3, <1>6, <1>7, <1>8, <1>12, <2>2, <2>3 DEF Shape
  <2>5. QED
    BY <1>3, <1>6, <1>7, <1>12, <2>2, <2>4 DEF Later
<1>13. QED
  BY <1>2, <1>3, <1>10, <1>11, <1>12 DEF Updated, AtStage

\* The other tickets go on as they were.
Steady(h, g, cx, cx1, t) ==
  \A u \in DOMAIN cx \ {t} : /\ cx1[u] = cx[u] /\ Shape(g, u, cx1[u])
                             /\ Opened(g, cx1[u]) = Opened(h, cx[u])

Result(h, cx, f, t, c, N, cx1, q, g) ==
  /\ Forest(Kids(g), Retired(cx1), Copied(cx1), Open(g, cx1))
  /\ Open(g, cx1) = Others(h, cx, t) \cup Later(f, q, N)
  /\ Adds(GoneBut(cx, t, c), Retired(cx1), t, {q})
  /\ Steady(h, g, cx, cx1, t)

LEMMA MoveForest ==
  ASSUME NEW h, NEW cx, NEW f, NEW t, NEW c, NEW K, NEW F, NEW mk, NEW rk, NEW k,
         NEW r, NEW i, NEW N, NEW d, NEW cx1, NEW q, NEW g,
         Moves(h, cx, f, t, c, K, F, mk, rk, k, r, i, N, d, cx1, q, g)
  PROVE  Result(h, cx, f, t, c, N, cx1, q, g)
<1> /\ t \in Nat \ {0} /\ q = f[c.cur].chs[i] /\ g = r.heap
    /\ Begins(h, cx, f, t, c, K, F, mk, rk, k) /\ Returns(cx, f, t, c, r, i, N, d, cx1)
  BY DEF Moves
<1> DEFINE R == GoneBut(cx, t, c)
           L == QuitBut(cx, t, c)
           V == Others(h, cx, t)
<1>1. Copies(f, c, R, L, V, mk, rk, k) /\ Updated(f, c, r, i, N) /\ c.sno = t
  BY DEF Begins, Returns
<1>2. /\ Shape(g, t, d) /\ Opened(g, d) = Later(f, q, N)
      /\ Gone(d) = Gone(c) \cup {q} /\ (Moving(d) <=> ~ f[q].leaf) /\ d.past = q
  <2>1. Landed(f, t, c, N, d, q, g)
    BY MoveShape
  <2>2. QED
    BY <2>1 DEF Landed
<1>3. DOMAIN cx1 = DOMAIN cx \cup {t} /\ cx1[t] = d /\ \A u \in DOMAIN cx \ {t} : cx1[u] = cx[u]
  BY DEF Returns, Becomes
<1>4. q \notin Gone(c)
  <2>1. SUFFICES ASSUME q \in Gone(c) PROVE FALSE
    OBVIOUS
  <2>2. GoneAbove(Kids(f), R, L) /\ (\A x \in Nat : c.cur \notin L[x]) /\ c.cur \in DOMAIN f
    BY <1>1 DEF Copies, Forest, CanUpdate
  <2>3. q \in R[t]
    BY <2>1 DEF GoneBut
  <2>4. Edge(Kids(f), c.cur, i) /\ Kids(f)[c.cur][i] = q
    BY <1>1, <2>2 DEF Edge, Kids, Updated
  <2>5. \E x \in Nat : t <= x /\ c.cur \in L[x]
    BY <2>2, <2>3, <2>4 DEF GoneAbove
  <2>6. QED
    BY <2>2, <2>5
<1>5. Adds(R, Retired(cx1), t, {q})
  <2>1. SUFFICES ASSUME NEW x \in Nat
                 PROVE  Retired(cx1)[x] = IF x = t THEN R[t] \cup {q} ELSE R[x]
    BY DEF Adds
  <2>2. Retired(cx1)[x] = IF x \in DOMAIN cx1 THEN Gone(cx1[x]) ELSE {}
    BY DEF Retired
  <2>3. R[t] = Gone(c) /\ (x # t => R[x] = IF x \in DOMAIN cx THEN Gone(cx[x]) ELSE {})
    BY DEF GoneBut, Retired
  <2>4. QED
    BY <1>2, <1>3, <2>2, <2>3
<1>6. Adds(L, Copied(cx1), t, IF f[q].leaf THEN {q} ELSE {})
  <2>1. SUFFICES ASSUME NEW x \in Nat
                 PROVE  Copied(cx1)[x] = IF x = t THEN L[t] \cup (IF f[q].leaf THEN {q} ELSE {}) ELSE L[x]
    BY DEF Adds
  <2>2. Copied(cx1)[x] = IF x \in DOMAIN cx1 THEN Quit(cx1[x]) ELSE {}
    BY DEF Copied
  <2>3. L[t] = Gone(c) /\ (x # t => L[x] = IF x \in DOMAIN cx THEN Quit(cx[x]) ELSE {})
    BY DEF QuitBut, Copied
  <2>4. Quit(d) = Gone(c) \cup (IF f[q].leaf THEN {q} ELSE {})
    <3>1. CASE f[q].leaf
      BY <1>2, <3>1 DEF Quit
    <3>2. CASE ~ f[q].leaf
      BY <1>2, <1>4, <3>2 DEF Quit
    <3>3. QED
      BY <3>1, <3>2
  <2>5. QED
    BY <1>3, <2>2, <2>3, <2>4
<1>7. ASSUME NEW u \in DOMAIN cx \ {t}
      PROVE  Shape(g, u, cx1[u]) /\ Opened(g, cx1[u]) = Opened(h, cx[u])
  <2>1. Shape(h, u, cx[u]) /\ (Moving(cx[u]) => cx[u].past \notin K)
    BY DEF Begins, Shapes
  <2>2. Extended(h, g, t, K, F \cup Range(N)) /\ u # t
    BY MoveSpan
  <2>3. Shape(g, u, cx[u]) /\ Opened(g, cx[u]) = Opened(h, cx[u])
    BY ShapeKept, <2>1, <2>2
  <2>4. QED
    BY <1>3, <2>3
<1>8. Open(g, cx1) = V \cup Later(f, q, N)
  <2>1. Open(g, cx1) = UNION {Opened(g, cx1[u]) : u \in DOMAIN cx \cup {t}}
    BY <1>3 DEF Open
  <2>2. V = UNION {Opened(h, cx[u]) : u \in DOMAIN cx \ {t}}
    BY DEF Others
  <2>3. Opened(g, cx1[t]) = Later(f, q, N)
    BY <1>2, <1>3
  <2>4. QED
    BY <1>7, <2>1, <2>2, <2>3
<1>9. Forest(Kids(g), Retired(cx1), Copied(cx1), V \cup Later(f, q, N))
  BY CopyForest, <1>1, <1>5, <1>6
<1>10. Steady(h, g, cx, cx1, t)
  BY <1>3, <1>7 DEF Steady
<1>11. QED
  BY <1>5, <1>8, <1>9, <1>10 DEF Result

LEMMA MoveTop ==
  ASSUME NEW h, NEW cx, NEW f, NEW t, NEW c, NEW K, NEW F, NEW mk, NEW rk, NEW k,
         NEW r, NEW i, NEW N, NEW d, NEW cx1, NEW q, NEW g,
         Moves(h, cx, f, t, c, K, F, mk, rk, k, r, i, N, d, cx1, q, g), NEW o, NEW v,
         Top(Kids(f), GoneBut(cx, t, c), Others(h, cx, t), o, v)
  PROVE  Top(Kids(g), Retired(cx1), Open(g, cx1), o, v)
<1> /\ t \in Nat \ {0} /\ q = f[c.cur].chs[i] /\ g = r.heap
    /\ Begins(h, cx, f, t, c, K, F, mk, rk, k) /\ Returns(cx, f, t, c, r, i, N, d, cx1)
  BY DEF Moves
<1>1. /\ Open(g, cx1) = Others(h, cx, t) \cup Later(f, q, N)
      /\ Adds(GoneBut(cx, t, c), Retired(cx1), t, {q})
  <2>1. Result(h, cx, f, t, c, N, cx1, q, g)
    BY MoveForest
  <2>2. QED
    BY <2>1 DEF Result
<1>2. Updated(f, c, r, i, N) /\ CanUpdate(f, c)
  BY DEF Returns, Begins, Copies
<1>3. /\ DOMAIN g = DOMAIN f \cup Range(N)
      /\ \A n \in Range(N) : n \notin DOMAIN f
  BY CopySteps DEF Begins, Returns
<1>4. PICK C1 : /\ Grown(Kids(f), C1, Range(N), Later(f, q, N), c.sno)
                /\ Swapped(C1, Kids(g), c.cur, i, Range(N))
  BY CopySteps DEF Begins, Returns
<1>5. o \in DOMAIN f /\ o # None /\ o \notin Others(h, cx, t) /\ o[1] <= v
      /\ (\A p, j : Edge(Kids(f), p, j) => Kids(f)[p][j] # o)
      /\ \A x \in Nat : x <= v => o \notin GoneBut(cx, t, c)[x]
  BY DEF Top, Kids
<1>6. o \in DOMAIN Kids(g) /\ o \notin Open(g, cx1)
  BY <1>1, <1>3, <1>5 DEF Kids, Later
<1>7. ASSUME NEW p, NEW j, Edge(C1, p, j) PROVE C1[p][j] # o
  <2>1. CASE p \in DOMAIN Kids(f)
    BY <1>4, <1>5, <1>7, <2>1 DEF Grown, Edge
  <2>2. CASE p \in Range(N)
    <3>1. C1[p] \in Seq(Range(N) \cup {None})
      BY <1>4, <2>2 DEF Grown
    <3>2. C1[p][j] \in Range(N) \cup {None}
      BY <1>7, <3>1 DEF Edge
    <3>3. QED
      BY <1>3, <1>5, <3>2
  <2>3. QED
    BY <1>4, <1>7, <2>1, <2>2 DEF Grown, Edge
<1>8. ASSUME NEW p, NEW j, Edge(Kids(g), p, j) PROVE Kids(g)[p][j] # o
  <2>1. CASE p = c.cur
    <3>1. \/ Kids(g)[p][j] \in Range(N)
          \/ \E l : Edge(C1, c.cur, l) /\ Kids(g)[p][j] = C1[c.cur][l]
      BY <1>4, <1>8, <2>1 DEF Swapped
    <3>2. QED
      BY <1>3, <1>5, <1>7, <3>1
  <2>2. CASE p # c.cur
    BY <1>4, <1>7, <1>8, <2>2 DEF Swapped, Edge
  <2>3. QED
    BY <2>1, <2>2
<1>9. o # q
  BY <1>2, <1>5 DEF Edge, Kids, Updated, CanUpdate
<1>10. ASSUME NEW x \in Nat, x <= v PROVE o \notin Retired(cx1)[x]
  BY <1>1, <1>5, <1>9, <1>10 DEF Adds
<1>11. QED
  BY <1>5, <1>6, <1>8, <1>10 DEF Top

LEMMA MoveSettled ==
  ASSUME NEW h, NEW cx, NEW f, NEW t, NEW c, NEW K, NEW F, NEW mk, NEW rk, NEW k,
         NEW r, NEW i, NEW N, NEW d, NEW cx1, NEW q, NEW g,
         Moves(h, cx, f, t, c, K, F, mk, rk, k, r, i, N, d, cx1, q, g), Settled(h, cx)
  PROVE  Settled(g, cx1)
<1> /\ t \in Nat \ {0} /\ q = f[c.cur].chs[i] /\ g = r.heap
    /\ Begins(h, cx, f, t, c, K, F, mk, rk, k) /\ Returns(cx, f, t, c, r, i, N, d, cx1)
  BY DEF Moves
<1>1. /\ Open(g, cx1) = Others(h, cx, t) \cup Later(f, q, N)
      /\ \A u \in DOMAIN cx \ {t} : cx1[u] = cx[u]
  <2>1. Open(g, cx1) = Others(h, cx, t) \cup Later(f, q, N) /\ Steady(h, g, cx, cx1, t)
    <3>1. Result(h, cx, f, t, c, N, cx1, q, g)
      BY MoveForest
    <3>2. QED
      BY <3>1 DEF Result
  <2>2. QED
    BY <2>1 DEF Steady
<1>2. DOMAIN cx1 = DOMAIN cx \cup {t} /\ cx1[t] = d
  BY DEF Returns, Becomes
<1>3. /\ q \in DOMAIN f
      /\ \A n \in Range(N) : n \notin DOMAIN f
  BY CopySteps DEF Begins, Returns
<1>4. d.past = q /\ q \notin Others(h, cx, t)
  <2>1. d.past = q
    <3>1. Landed(f, t, c, N, d, q, g)
      BY MoveShape
    <3>2. QED
      BY <3>1 DEF Landed
  <2>2. q \notin Others(h, cx, t)
    BY DEF Begins, Returns, Copies, Updated
  <2>3. QED
    BY <2>1, <2>2
<1>5. ASSUME NEW u \in DOMAIN cx \ {t}, Moving(cx[u]) PROVE cx[u].past \notin Open(g, cx1)
  <2>1. cx[u].past \in DOMAIN h /\ cx[u].past \in DOMAIN f
    BY <1>5 DEF Begins, Shapes, Shape, ShapeMoving, Extended
  <2>2. cx[u].past \notin Others(h, cx, t)
    BY <1>5 DEF Settled, Others, Open
  <2>3. QED
    BY <1>1, <1>3, <2>1, <2>2 DEF Later
<1>6. d.past \notin Open(g, cx1)
  BY <1>1, <1>3, <1>4 DEF Later
<1>7. QED
  BY <1>1, <1>2, <1>5, <1>6 DEF Settled

\* The nodes are well formed and their tickets known, as is how many each has made.
Built(h)      == \A n \in DOMAIN h : IsNode(h[n]) /\ h[n].chs \in Seq(DOMAIN h) /\ h[n].ver = n[1]
Owned(h, cx)  == \A n \in DOMAIN h : n[1] # 0 => n[1] \in DOMAIN cx /\ n[2] \in Nat /\ n[2] <= cx[n[1]].made
Unready(h, cx) == \A n \in Open(h, cx) : ~ h[n].ready

\* How far a ticket is: a handler may run with the exit from the pipe as with a stage.
Place(c, np) == IF c.at = "pop" THEN np ELSE c.pos

\* The nodes of a ticket that moves are as high as those they replace.
Labelled(h, c, np, mk, rk) ==
  /\ mk[c.root] = 0
  /\ Moving(c) => /\ mk[c.past] <= Place(c, np)
                  /\ \A n \in Opened(h, c) : mk[n] = Place(c, np) /\ rk[n] = rk[c.past]
Labels(h, cx, fr, np) ==
  \E mk, rk : /\ Ranked(Kids(h), rk) /\ Marked(Kids(h), mk) /\ mk[fr] = 0
              /\ \A t \in DOMAIN cx : Labelled(h, cx[t], np, mk, rk)

RootOf(cx, fr, t) == IF t = 0 THEN fr ELSE cx[t].root
Rooted(h, cx, fr) ==
  \A t \in {0} \cup DOMAIN cx : Top(Kids(h), Retired(cx), Open(h, cx), RootOf(cx, fr, t), t)

Good(h, cx, fr, np) ==
  /\ IsSeq(cx) /\ Shapes(h, cx) /\ Settled(h, cx) /\ Built(h) /\ Owned(h, cx) /\ Unready(h, cx)
  /\ Forest(Kids(h), Retired(cx), Copied(cx), Open(h, cx))
  /\ Rooted(h, cx, fr) /\ Labels(h, cx, fr, np)

LEMMA MoveBuilt ==
  ASSUME NEW h, NEW cx, NEW f, NEW t, NEW c, NEW K, NEW F, NEW mk, NEW rk, NEW k,
         NEW r, NEW i, NEW N, NEW d, NEW cx1, NEW q, NEW g,
         Moves(h, cx, f, t, c, K, F, mk, rk, k, r, i, N, d, cx1, q, g), Built(f)
  PROVE  Built(g)
<1>1. Updated(f, c, r, i, N) /\ CanUpdate(f, c) /\ g = r.heap /\ c.sno = t /\ c.made \in Nat
  BY DEF Moves, Begins, Returns, Copies, CanUpdate
<1>2. /\ DOMAIN g = DOMAIN f \cup Range(N) /\ c.cur \in DOMAIN f
      /\ \A n \in DOMAIN f : n # c.cur => g[n] = f[n]
  BY <1>1 DEF Updated, CanUpdate
<1>3. None \in DOMAIN f /\ \A n \in Range(N) : n[1] = t
  <2>1. None \in DOMAIN f
    BY DEF Moves, Begins, Copies, Forest, Nodes, Kids
  <2>2. N = <<New(c, 1)>> \/ N = <<New(c, 1), New(c, 2)>>
    BY <1>1 DEF Updated
  <2>3. \A n \in Range(N) : n[1] = c.sno
    BY NewNodes, <1>1, <2>2
  <2>4. QED
    BY <1>1, <2>1, <2>3
<1>4. ASSUME NEW n \in DOMAIN g PROVE IsNode(g[n]) /\ g[n].chs \in Seq(DOMAIN g) /\ g[n].ver = n[1]
  <2>1. CASE n = c.cur
    BY <1>1, <1>2, <2>1 DEF Updated, Built
  <2>2. CASE n \in Range(N)
    <3>1. IsNode(g[n]) /\ g[n].ver = t /\ g[n].chs \in Seq({None})
      BY <1>1, <2>2 DEF Updated
    <3>2. g[n].chs \in Seq(DOMAIN g)
      BY <1>2, <1>3, <3>1
    <3>3. QED
      BY <1>3, <2>2, <3>1, <3>2
  <2>3. CASE n \in DOMAIN f /\ n # c.cur
    <3>1. g[n] = f[n] /\ IsNode(f[n]) /\ f[n].chs \in Seq(DOMAIN f) /\ f[n].ver = n[1]
      BY <1>2, <2>3 DEF Built
    <3>2. f[n].chs \in Seq(DOMAIN g)
      BY <1>2, <3>1
    <3>3. QED
      BY <3>1, <3>2
  <2>4. QED
    BY <1>2, <2>1, <2>2, <2>3
<1>5. QED
  BY <1>4 DEF Built

LEMMA MoveOwned ==
  ASSUME NEW h, NEW cx, NEW f, NEW t, NEW c, NEW K, NEW F, NEW mk, NEW rk, NEW k,
         NEW r, NEW i, NEW N, NEW d, NEW cx1, NEW q, NEW g,
         Moves(h, cx, f, t, c, K, F, mk, rk, k, r, i, N, d, cx1, q, g),
         Owned(h, cx), \A n \in DOMAIN f : n[1] = t => n[2] \in Nat /\ n[2] <= c.made
  PROVE  Owned(g, cx1)
<1>1. /\ Updated(f, c, r, i, N) /\ g = r.heap /\ c.sno = t /\ c.made \in Nat
      /\ Extended(h, f, t, K, F) /\ Becomes(cx, cx1, t, d)
  BY DEF Moves, Begins, Returns, Copies, CanUpdate
<1>2. DOMAIN g = DOMAIN f \cup Range(N)
  BY <1>1 DEF Updated
<1>3. N = <<New(c, 1)>> \/ N = <<New(c, 1), New(c, 2)>>
  BY <1>1 DEF Updated
<1>4. PICK w \in {1, 2} : w = Len(N) /\ (w = 1 => Range(N) = {New(c, 1)}) /\ Range(N) \subseteq {New(c, 1), New(c, 2)}
  <2>1. CASE N = <<New(c, 1)>>
    BY <2>1 DEF Range
  <2>2. CASE N = <<New(c, 1), New(c, 2)>>
    BY <2>2 DEF Range
  <2>3. QED
    BY <1>3, <2>1, <2>2
<1>5. d.made = c.made + w
  <2>1. Landed(f, t, c, N, d, q, g)
    BY MoveShape
  <2>2. QED
    BY <1>4, <2>1 DEF Landed
<1>6. ASSUME NEW n \in DOMAIN g, n[1] # 0
      PROVE  n[1] \in DOMAIN cx1 /\ n[2] \in Nat /\ n[2] <= cx1[n[1]].made
  <2>1. CASE n \in Range(N)
    <3>1. n = <<t, c.made + 1>> \/ (w = 2 /\ n = <<t, c.made + 2>>)
      BY <1>1, <1>4, <2>1 DEF New
    <3>2. n[1] = t /\ n[2] \in Nat /\ n[2] <= c.made + w
      <4>1. n[1] = t /\ (n[2] = c.made + 1 \/ (w = 2 /\ n[2] = c.made + 2))
        BY <3>1
      <4>2. PICK m \in Nat : m = c.made
        BY <1>1
      <4>3. m + 1 \in Nat /\ m + 2 \in Nat /\ m + 1 <= m + w /\ (w = 2 => m + 2 <= m + w)
        BY <1>4
      <4>4. QED
        BY <4>1, <4>2, <4>3
    <3>3. QED
      BY <1>1, <1>5, <3>2 DEF Becomes
  <2>2. CASE n \in DOMAIN f /\ n[1] = t
    <3>1. n[2] \in Nat /\ n[2] <= c.made + w
      BY <1>1, <1>4, <2>2
    <3>2. QED
      BY <1>1, <1>5, <2>2, <3>1 DEF Becomes
  <2>3. CASE n \in DOMAIN f /\ n[1] # t
    <3>1. n \in DOMAIN h
      BY <1>1, <2>3 DEF Extended
    <3>2. QED
      BY <1>1, <1>6, <2>3, <3>1 DEF Becomes, Owned
  <2>4. QED
    BY <1>2, <2>1, <2>2, <2>3
<1>7. QED
  BY <1>6 DEF Owned

LEMMA MoveUnready ==
  ASSUME NEW h, NEW cx, NEW f, NEW t, NEW c, NEW K, NEW F, NEW mk, NEW rk, NEW k,
         NEW r, NEW i, NEW N, NEW d, NEW cx1, NEW q, NEW g,
         Moves(h, cx, f, t, c, K, F, mk, rk, k, r, i, N, d, cx1, q, g),
         \A n \in Others(h, cx, t) : ~ f[n].ready
  PROVE  Unready(g, cx1)
<1>1. /\ Updated(f, c, r, i, N) /\ g = r.heap /\ c.cur \notin Others(h, cx, t)
      /\ \A n \in DOMAIN f : n # c.cur => g[n] = f[n]
  BY DEF Moves, Begins, Returns, Copies, Updated
<1>2. Open(g, cx1) = Others(h, cx, t) \cup Later(f, q, N)
  <2>1. Result(h, cx, f, t, c, N, cx1, q, g)
    BY MoveForest
  <2>2. QED
    BY <2>1 DEF Result
<1>3. Others(h, cx, t) \subseteq DOMAIN f
  BY DEF Moves, Begins, Copies, Forest, Nodes, Kids
<1>4. \A n \in Range(N) : ~ g[n].ready
  BY <1>1 DEF Updated
<1>5. QED
  BY <1>1, <1>2, <1>3, <1>4 DEF Unready, Later

LEMMA MoveLabels ==
  ASSUME NEW h, NEW cx, NEW f, NEW t, NEW c, NEW K, NEW F, NEW mk, NEW rk, NEW k,
         NEW r, NEW i, NEW N, NEW d, NEW cx1, NEW q, NEW g,
         Moves(h, cx, f, t, c, K, F, mk, rk, k, r, i, N, d, cx1, q, g),
         NEW fr \in DOMAIN f, NEW np, mk[fr] = 0, c.root \in DOMAIN f, mk[c.root] = 0, Place(d, np) = k,
         \A u \in DOMAIN cx \ {t} : Labelled(h, cx[u], np, mk, rk) /\ cx[u].root \in DOMAIN f
  PROVE  Labels(g, cx1, fr, np)
<1>1. /\ Updated(f, c, r, i, N) /\ g = r.heap /\ q = f[c.cur].chs[i] /\ Becomes(cx, cx1, t, d)
      /\ Copies(f, c, GoneBut(cx, t, c), QuitBut(cx, t, c), Others(h, cx, t), mk, rk, k)
      /\ Extended(h, f, t, K, F) /\ Shapes(h, cx)
  BY DEF Moves, Begins, Returns
<1>2. PICK mk1, rk1 : /\ Ranked(Kids(g), rk1) /\ Marked(Kids(g), mk1)
                      /\ \A n \in DOMAIN f : mk1[n] = mk[n] /\ rk1[n] = rk[n]
                      /\ \A n \in Range(N) : mk1[n] = k /\ rk1[n] = rk[q]
  BY CopyLabels, <1>1
<1>3. Steady(h, g, cx, cx1, t)
  <2>1. Result(h, cx, f, t, c, N, cx1, q, g)
    BY MoveForest
  <2>2. QED
    BY <2>1 DEF Result
<1>4. Landed(f, t, c, N, d, q, g)
  BY MoveShape
<1>5. q \in DOMAIN f /\ mk[q] <= k
  <2>1. q \in DOMAIN f
    BY <1>1, CopySteps
  <2>2. QED
    BY <1>1, <2>1 DEF Copies, Updated
<1>6. Labelled(g, d, np, mk1, rk1)
  <2>1. mk1[d.root] = 0
    BY <1>2, <1>4 DEF Landed
  <2>2. Moving(d) => /\ mk1[d.past] <= Place(d, np)
                     /\ \A n \in Opened(g, d) : mk1[n] = Place(d, np) /\ rk1[n] = rk1[d.past]
    BY <1>2, <1>4, <1>5 DEF Landed
  <2>3. QED
    BY <2>1, <2>2 DEF Labelled
<1>7. ASSUME NEW u \in DOMAIN cx \ {t} PROVE Labelled(g, cx1[u], np, mk1, rk1)
  <2>1. cx1[u] = cx[u] /\ Opened(g, cx1[u]) = Opened(h, cx[u]) /\ Labelled(h, cx[u], np, mk, rk)
        /\ cx[u].root \in DOMAIN f /\ Shape(h, u, cx[u])
    BY <1>1, <1>3 DEF Steady, Shapes
  <2>2. mk1[cx[u].root] = 0
    BY <1>2, <2>1 DEF Labelled
  <2>3. ASSUME Moving(cx[u])
        PROVE  /\ mk1[cx[u].past] <= Place(cx[u], np)
               /\ \A n \in Opened(h, cx[u]) : mk1[n] = Place(cx[u], np) /\ rk1[n] = rk1[cx[u].past]
    <3>1. cx[u].past \in DOMAIN f
      BY <1>1, <2>1, <2>3 DEF Shape, ShapeMoving, Extended
    <3>2. \A n \in Opened(h, cx[u]) : n \in DOMAIN f
      BY <1>1, <2>1, OpenedIs DEF Extended
    <3>3. QED
      BY <1>2, <2>1, <2>3, <3>1, <3>2 DEF Labelled
  <2>4. QED
    BY <2>1, <2>2, <2>3 DEF Labelled
<1>8. \A u \in DOMAIN cx1 : Labelled(g, cx1[u], np, mk1, rk1)
  BY <1>1, <1>6, <1>7 DEF Becomes
<1>9. QED
  BY <1>2, <1>8 DEF Labels

\* What a handler has to see to before it calls update_cow.
Prepared(h, cx, f, t, c, fr, np, mk, rk) ==
  /\ Built(f) /\ \A n \in DOMAIN f : n[1] = t => n[2] \in Nat /\ n[2] <= c.made
  /\ \A n \in Others(h, cx, t) : ~ f[n].ready
  /\ mk[fr] = 0 /\ mk[c.root] = 0 /\ \A u \in DOMAIN cx \ {t} : Labelled(h, cx[u], np, mk, rk)
  /\ \A u \in {0} \cup (DOMAIN cx \ {t}) :
       Top(Kids(f), GoneBut(cx, t, c), Others(h, cx, t), RootOf(cx, fr, u), u)
  /\ Top(Kids(f), GoneBut(cx, t, c), Others(h, cx, t), c.root, t)

LEMMA MoveGood ==
  ASSUME NEW h, NEW cx, NEW f, NEW t, NEW c, NEW K, NEW F, NEW mk, NEW rk, NEW k,
         NEW r, NEW i, NEW N, NEW d, NEW cx1, NEW q, NEW g, NEW fr, NEW np,
         Moves(h, cx, f, t, c, K, F, mk, rk, k, r, i, N, d, cx1, q, g),
         Good(h, cx, fr, np), Prepared(h, cx, f, t, c, fr, np, mk, rk), Place(d, np) = k, IsSeq(cx1)
  PROVE  Good(g, cx1, fr, np)
<1>1. /\ Updated(f, c, r, i, N) /\ g = r.heap /\ q = f[c.cur].chs[i] /\ Becomes(cx, cx1, t, d)
      /\ t \in Nat \ {0}
  BY DEF Moves, Begins, Returns
<1>2. Built(g)
  BY MoveBuilt DEF Prepared
<1>3. Owned(g, cx1)
  BY MoveOwned DEF Prepared, Good
<1>4. Unready(g, cx1)
  BY MoveUnready DEF Prepared
<1>5. Settled(g, cx1)
  BY MoveSettled DEF Good
<1>6. Landed(f, t, c, N, d, q, g)
  BY MoveShape
<1>7. Result(h, cx, f, t, c, N, cx1, q, g)
  BY MoveForest
<1>8. Shapes(g, cx1)
  BY <1>1, <1>6, <1>7 DEF Shapes, Becomes, Landed, Result, Steady
<1>9. Rooted(g, cx1, fr)
  <2>1. ASSUME NEW u \in {0} \cup (DOMAIN cx \ {t})
        PROVE  Top(Kids(g), Retired(cx1), Open(g, cx1), RootOf(cx, fr, u), u)
    <3>1. Top(Kids(f), GoneBut(cx, t, c), Others(h, cx, t), RootOf(cx, fr, u), u)
      BY DEF Prepared
    <3>2. QED
      BY <3>1, MoveTop
  <2>2. Top(Kids(g), Retired(cx1), Open(g, cx1), c.root, t)
    <3>1. Top(Kids(f), GoneBut(cx, t, c), Others(h, cx, t), c.root, t)
      BY DEF Prepared
    <3>2. QED
      BY <3>1, MoveTop
  <2>3. \A u \in {0} \cup (DOMAIN cx \ {t}) : RootOf(cx1, fr, u) = RootOf(cx, fr, u)
    BY <1>1 DEF RootOf, Becomes
  <2>4. RootOf(cx1, fr, t) = c.root
    BY <1>1, <1>6 DEF RootOf, Becomes, Landed
  <2>5. DOMAIN cx1 = DOMAIN cx \cup {t}
    BY <1>1 DEF Becomes
  <2>6. QED
    BY <2>1, <2>2, <2>3, <2>4, <2>5 DEF Rooted
<1>10. Labels(g, cx1, fr, np)
  <2>1. fr \in DOMAIN f /\ mk[fr] = 0
    <3>1. Top(Kids(f), GoneBut(cx, t, c), Others(h, cx, t), RootOf(cx, fr, 0), 0)
      BY DEF Prepared
    <3>2. QED
      BY <3>1 DEF Prepared, Top, Kids, RootOf
  <2>2. c.root \in DOMAIN f /\ mk[c.root] = 0
    BY DEF Prepared, Top, Kids
  <2>3. ASSUME NEW u \in DOMAIN cx \ {t} PROVE Labelled(h, cx[u], np, mk, rk) /\ cx[u].root \in DOMAIN f
    <3>1. Top(Kids(f), GoneBut(cx, t, c), Others(h, cx, t), RootOf(cx, fr, u), u)
      BY DEF Prepared
    <3>2. u # 0
      BY DEF Good, Shapes, Shape
    <3>3. QED
      BY <3>1, <3>2 DEF Prepared, Top, Kids, RootOf
  <2>4. QED
    BY <2>1, <2>2, <2>3, MoveLabels
<1>11. QED
  BY <1>2, <1>3, <1>4, <1>5, <1>7, <1>8, <1>9, <1>10 DEF Good, Result

Starts(h, cx, f, t, c, K, F, fr, np, k) ==
  \E mk, rk : Begins(h, cx, f, t, c, K, F, mk, rk, k) /\ Prepared(h, cx, f, t, c, fr, np, mk, rk)

\* The node to copy has all its children.
Free(h, cx, t) == \A i : Edge(Kids(h), cx[t].past, i) => Kids(h)[cx[t].past][i] \notin Open(h, cx)

\* Context e is c but for the current node.
Beside(c, e) ==
  /\ IsContext(e) /\ e.sno = c.sno /\ e.root = c.root /\ e.retired = c.retired /\ e.made = c.made

\* What is open has one owner.
LEMMA OpenParts ==
  ASSUME NEW h, NEW cx, Shapes(h, cx), NEW t \in DOMAIN cx
  PROVE  Open(h, cx) \ Opened(h, cx[t]) = Others(h, cx, t) /\ Opened(h, cx[t]) \subseteq Open(h, cx)
<1>1. \A u \in DOMAIN cx : \A n \in Opened(h, cx[u]) : n[1] = u
  BY OpenedIs DEF Shapes
<1>2. \A u \in DOMAIN cx \ {t} : Opened(h, cx[u]) \cap Opened(h, cx[t]) = {}
  BY <1>1
<1>3. QED
  BY <1>2 DEF Open, Others

\* What the ticket has retired does not change until update_cow is done.
SameGone(cx, t, e) ==
  /\ \A x \in Nat : GoneBut(cx, t, e)[x] = Retired(cx)[x]
  /\ Adds(Retired(cx), GoneBut(cx, t, e), t, {cx[t].past})
  /\ Adds(Copied(cx), QuitBut(cx, t, e), t, {cx[t].past})
  /\ Retired(cx)[t] = Gone(cx[t]) /\ Copied(cx)[t] = Gone(cx[t]) \ {cx[t].past}

LEMMA GoneSame ==
  ASSUME NEW cx, NEW t \in DOMAIN cx, NEW e, e.retired = cx[t].retired, Moving(cx[t]), cx[t].past \in Gone(cx[t]),
         t \in Nat
  PROVE  SameGone(cx, t, e)
<1>1. Retired(cx)[t] = Gone(cx[t]) /\ Copied(cx)[t] = Gone(cx[t]) \ {cx[t].past} /\ Gone(e) = Gone(cx[t])
  BY DEF Retired, Copied, Quit, Gone
<1>2. /\ \A x \in Nat : GoneBut(cx, t, e)[x] = IF x = t THEN Gone(e) ELSE Retired(cx)[x]
      /\ \A x \in Nat : QuitBut(cx, t, e)[x] = IF x = t THEN Gone(e) ELSE Copied(cx)[x]
  BY DEF GoneBut, QuitBut
<1>3. \A x \in Nat : GoneBut(cx, t, e)[x] = Retired(cx)[x]
  BY <1>1, <1>2
<1>4. Adds(Retired(cx), GoneBut(cx, t, e), t, {cx[t].past})
  BY <1>1, <1>2 DEF Adds
<1>5. Adds(Copied(cx), QuitBut(cx, t, e), t, {cx[t].past})
  BY <1>1, <1>2 DEF Adds
<1>6. QED
  BY <1>1, <1>3, <1>4, <1>5 DEF SameGone

\* The children of p are those of h.
LEMMA FillTop ==
  ASSUME NEW C, NEW C1, NEW q, NEW K, NEW off, NEW t, NEW R, NEW R1, NEW U, NEW V, NEW o, NEW v,
         Filled(C, C1, q, K, off, t), Top(C, R, U, o, v), V \subseteq U,
         \A x \in Nat : x <= v /\ o \in R1[x] => o \in R[x]
  PROVE  Top(C1, R1, V, o, v)
<1>1. o \in DOMAIN C1 /\ o # None /\ o \notin V /\ o[1] <= v
  BY DEF Top, Filled
<1>2. ASSUME NEW p, NEW i, Edge(C1, p, i) PROVE C1[p][i] # o
  <2>1. CASE p \in K
    BY <1>2, <2>1 DEF Filled, Top, Edge
  <2>2. CASE p \notin K
    BY <1>2, <2>2 DEF Filled, Top, Edge
  <2>3. QED
    BY <2>1, <2>2
<1>3. QED
  BY <1>1, <1>2 DEF Top

\* The handlers that go down.
CanStart(h, cx, f, t, c, e, K, off, fr, np, k) ==
  /\ t \in DOMAIN cx /\ c = cx[t] /\ K = Opened(h, c) /\ k = Place(c, np) + 1 /\ Place(c, np) \in Nat
  /\ Good(h, cx, fr, np) /\ Moving(c) /\ Beside(c, e) /\ Free(h, cx, t)
  /\ Filled(Kids(h), Kids(f), c.past, K, off, t)
  /\ DOMAIN f = DOMAIN h /\ (\A n \in DOMAIN h \ K : f[n] = h[n]) /\ Built(f)
  /\ e.cur \in K /\ ~ f[e.cur].leaf

LEMMA FillStarts ==
  ASSUME NEW h, NEW cx, NEW f, NEW t, NEW c, NEW e, NEW K, NEW off, NEW fr, NEW np, NEW k,
         CanStart(h, cx, f, t, c, e, K, off, fr, np, k)
  PROVE  Starts(h, cx, f, t, e, K, {}, fr, np, k)
<1> /\ t \in DOMAIN cx /\ c = cx[t] /\ K = Opened(h, c) /\ k = Place(c, np) + 1 /\ Place(c, np) \in Nat
    /\ Good(h, cx, fr, np) /\ Moving(c) /\ Beside(c, e) /\ Free(h, cx, t)
    /\ Filled(Kids(h), Kids(f), c.past, K, off, t)
    /\ DOMAIN f = DOMAIN h /\ (\A n \in DOMAIN h \ K : f[n] = h[n]) /\ Built(f)
    /\ e.cur \in K /\ ~ f[e.cur].leaf
  BY DEF CanStart
<1> DEFINE R == Retired(cx)
           L == Copied(cx)
           U == Open(h, cx)
<1>1. /\ Shapes(h, cx) /\ Settled(h, cx) /\ Built(h) /\ Owned(h, cx) /\ Unready(h, cx)
      /\ Forest(Kids(h), R, L, U) /\ Rooted(h, cx, fr) /\ Labels(h, cx, fr, np)
  BY DEF Good
<1>2. Shape(h, t, c) /\ ShapeMoving(h, t, c) /\ t \in Nat \ {0} /\ c.sno = t /\ c.made \in Nat /\ IsSeq(c.retired)
  BY <1>1 DEF Shapes, Shape
<1>3. /\ U \ K = Others(h, cx, t) /\ K \subseteq U
  BY <1>1, OpenParts
<1>4. e.sno = t /\ IsContext(e) /\ e.retired = c.retired /\ e.made = c.made /\ e.root = c.root
  BY <1>2 DEF Beside
<1>5. /\ \A x \in Nat : GoneBut(cx, t, e)[x] = R[x]
      /\ Adds(R, GoneBut(cx, t, e), t, {c.past})
      /\ Adds(L, QuitBut(cx, t, e), t, {c.past})
      /\ R[t] = Gone(c) /\ L[t] = Gone(c) \ {c.past}
  <2>1. c.past \in Gone(c)
    BY <1>2 DEF ShapeMoving
  <2>2. SameGone(cx, t, e)
    BY <1>2, <1>4, <2>1, GoneSame
  <2>3. QED
    BY <2>2 DEF SameGone
<1>6. PICK mk, rk : /\ Ranked(Kids(h), rk) /\ Marked(Kids(h), mk) /\ mk[fr] = 0
                    /\ \A u \in DOMAIN cx : Labelled(h, cx[u], np, mk, rk)
  BY <1>1 DEF Labels
<1>7. c.past \in R[t] /\ c.past \notin U /\ c.past # None /\ c.past[1] < t
  <2>1. c.past \in R[t]
    BY <1>2, <1>5 DEF ShapeMoving
  <2>2. c.past \notin U
    BY <1>1 DEF Settled
  <2>3. QED
    BY <1>1, <1>2, <2>1, <2>2 DEF Forest, Retirements
<1>8. \A x \in Nat : (c.past \in R[x] => x = t) /\ c.past \notin L[x]
  <2>1. ASSUME NEW x \in Nat, c.past \in R[x] PROVE x = t
    BY <1>1, <1>2, <1>7, <2>1 DEF Forest, Retirements
  <2>2. ASSUME NEW x \in Nat PROVE c.past \notin L[x]
    <3>1. L[x] \subseteq R[x]
      BY <1>1 DEF Forest, Retirements
    <3>2. QED
      BY <1>5, <2>1, <3>1
  <2>3. QED
    BY <2>1, <2>2
<1>9. \A n \in DOMAIN f : IsNode(f[n]) /\ f[n].chs \in Seq(DOMAIN f)
  BY DEF Built
<1>10. New(e, 1) \notin DOMAIN f /\ New(e, 2) \notin DOMAIN f
  <2>1. \A n \in DOMAIN f : n[1] = t => n[2] \in Nat /\ n[2] <= c.made
    BY <1>1, <1>2 DEF Owned
  <2>2. PICK m \in Nat : m = c.made
    BY <1>2
  <2>3. New(e, 1) = <<t, m + 1>> /\ New(e, 2) = <<t, m + 2>>
    BY <1>4, <2>2 DEF New
  <2>4. QED
    BY <2>1, <2>2, <2>3
<1>11. \A n \in K : mk[n] + 1 = k /\ rk[n] = rk[c.past]
  BY <1>6 DEF Labelled
<1>12. mk[c.past] + 1 <= k /\ k \in Nat
  <2>1. mk[c.past] <= Place(c, np)
    BY <1>6 DEF Labelled
  <2>2. mk[c.past] \in Nat
    BY <1>2, <1>6 DEF Marked, Kids, ShapeMoving
  <2>3. QED
    BY <2>1, <2>2
<1>13. \A i : Edge(Kids(h), c.past, i) => Kids(h)[c.past][i] \notin U
  BY DEF Free
<1>14. Copies(f, e, GoneBut(cx, t, e), QuitBut(cx, t, e), Others(h, cx, t), mk, rk, k)
  <2>1. /\ Filled(Kids(h), Kids(f), c.past, K, off, e.sno) /\ c.past[1] < e.sno
        /\ \A x \in Nat : c.past \in R[x] => x = e.sno
        /\ Adds(R, GoneBut(cx, t, e), e.sno, {c.past})
        /\ Adds(L, QuitBut(cx, t, e), e.sno, {c.past})
    BY <1>4, <1>5, <1>7, <1>8
  <2>2. e.made \in Nat /\ c.past \in R[e.sno] /\ \A x \in Nat : c.past \notin L[x]
    BY <1>2, <1>4, <1>7, <1>8
  <2>3. Copies(f, e, GoneBut(cx, t, e), QuitBut(cx, t, e), U \ K, mk, rk, k)
    <3>1. CanFill(h, f, e, K, off, c.past, R, GoneBut(cx, t, e), L, QuitBut(cx, t, e), U, mk, rk, k)
      BY <1>1, <1>3, <1>4, <1>6, <1>7, <1>9, <1>10, <1>11, <1>12, <1>13, <2>1, <2>2 DEF CanFill
    <3>2. QED
      BY <3>1, FillCopies
  <2>4. QED
    BY <1>3, <2>3
<1>15. Extended(h, f, t, K, {})
  <2>1. K \subseteq DOMAIN h /\ \A n \in K : n[1] = t /\ ~ h[n].leaf
    BY <1>2, OpenedIs
  <2>2. QED
    BY <2>1 DEF Extended
<1>16. \A u \in DOMAIN cx \ {t} : Moving(cx[u]) => cx[u].past \notin K
  BY <1>1, <1>3 DEF Settled
<1>17. Begins(h, cx, f, t, e, K, {}, mk, rk, k)
  BY <1>1, <1>2, <1>4, <1>14, <1>15, <1>16 DEF Begins
<1>18. Prepared(h, cx, f, t, e, fr, np, mk, rk)
  <2>1. \A n \in DOMAIN f : n[1] = t => n[2] \in Nat /\ n[2] <= e.made
    BY <1>1, <1>2, <1>4 DEF Owned
  <2>2. \A n \in Others(h, cx, t) : ~ f[n].ready
    <3>1. Others(h, cx, t) \subseteq U /\ Others(h, cx, t) \cap K = {} /\ U \subseteq DOMAIN h
      BY <1>1, <1>3 DEF Forest, Nodes, Kids
    <3>2. QED
      BY <1>1, <3>1 DEF Unready
  <2>3. mk[e.root] = 0 /\ \A u \in DOMAIN cx \ {t} : Labelled(h, cx[u], np, mk, rk)
    BY <1>4, <1>6 DEF Labelled
  <2>4. ASSUME NEW u \in {0} \cup DOMAIN cx
        PROVE  Top(Kids(f), GoneBut(cx, t, e), Others(h, cx, t), RootOf(cx, fr, u), u)
    <3>1. Top(Kids(h), R, U, RootOf(cx, fr, u), u)
      BY <1>1 DEF Rooted
    <3>2. Others(h, cx, t) \subseteq U
      BY <1>3
    <3>3. \A x \in Nat : x <= u /\ RootOf(cx, fr, u) \in GoneBut(cx, t, e)[x] => RootOf(cx, fr, u) \in R[x]
      BY <1>5
    <3>4. QED
      BY <3>1, <3>2, <3>3, FillTop
  <2>5. RootOf(cx, fr, t) = e.root
    BY <1>2, <1>4 DEF RootOf
  <2>6. Top(Kids(f), GoneBut(cx, t, e), Others(h, cx, t), e.root, t)
    BY <2>4, <2>5
  <2>7. QED
    BY <1>6, <2>1, <2>2, <2>3, <2>4, <2>6 DEF Prepared
<1>19. QED
  BY <1>17, <1>18 DEF Starts

\* A node that is not open keeps its children and does not become open.
Quiet(h, cx, g, cx1) ==
  /\ DOMAIN h \subseteq DOMAIN g
  /\ \A n \in DOMAIN h \ Open(h, cx) : g[n].chs = h[n].chs
  /\ Open(g, cx1) \cap DOMAIN h \subseteq Open(h, cx)

LEMMA MoveQuiet ==
  ASSUME NEW h, NEW cx, NEW f, NEW t, NEW c, NEW K, NEW F, NEW mk, NEW rk, NEW k,
         NEW r, NEW i, NEW N, NEW d, NEW cx1, NEW q, NEW g,
         Moves(h, cx, f, t, c, K, F, mk, rk, k, r, i, N, d, cx1, q, g), K \subseteq Open(h, cx)
  PROVE  Quiet(h, cx, g, cx1)
<1>1. Extended(h, g, t, K, F \cup Range(N)) /\ \A n \in Range(N) : n \notin DOMAIN f
  BY MoveSpan
<1>2. DOMAIN h \subseteq DOMAIN f
  BY DEF Moves, Begins, Extended
<1>3. Open(g, cx1) = Others(h, cx, t) \cup Later(f, q, N)
  <2>1. Result(h, cx, f, t, c, N, cx1, q, g)
    BY MoveForest
  <2>2. QED
    BY ONLY <2>1 DEF Result
<1>4. Others(h, cx, t) \subseteq Open(h, cx)
  BY DEF Others, Open
<1>5. Later(f, q, N) \cap DOMAIN h = {}
  BY ONLY <1>1, <1>2 DEF Later
<1>6. \A n \in DOMAIN h \ Open(h, cx) : g[n].chs = h[n].chs
  BY ONLY <1>1, K \subseteq Open(h, cx) DEF Extended
<1>7. DOMAIN h \subseteq DOMAIN g
  BY ONLY <1>1 DEF Extended
<1>8. QED
  BY ONLY <1>3, <1>4, <1>5, <1>6, <1>7 DEF Quiet

LEMMA StartsGood ==
  ASSUME NEW h, NEW cx, NEW f, NEW t \in Nat \ {0}, NEW e, NEW K, NEW F, NEW fr, NEW np, NEW k,
         Starts(h, cx, f, t, e, K, F, fr, np, k), Good(h, cx, fr, np),
         NEW r, r = UpdateCow(f, e), NEW d, AtStage(r.c, d), Place(d, np) = k,
         NEW cx1, Becomes(cx, cx1, t, d), IsSeq(cx1), K \subseteq Open(h, cx)
  PROVE  Good(r.heap, cx1, fr, np) /\ Quiet(h, cx, r.heap, cx1)
<1>1. PICK mk, rk : Begins(h, cx, f, t, e, K, F, mk, rk, k) /\ Prepared(h, cx, f, t, e, fr, np, mk, rk)
  BY DEF Starts
<1>2. CanUpdate(f, e)
  BY <1>1 DEF Begins, Copies
<1>3. PICK i, N : Updated(f, e, r, i, N)
  BY <1>2, UpdateCowIs
<1>4. Returns(cx, f, t, e, r, i, N, d, cx1)
  BY <1>3 DEF Returns
<1> DEFINE q == f[e.cur].chs[i]
           g == r.heap
<1>5. Moves(h, cx, f, t, e, K, F, mk, rk, k, r, i, N, d, cx1, q, g)
  BY <1>1, <1>4 DEF Moves
<1>6. Good(g, cx1, fr, np) /\ Quiet(h, cx, g, cx1)
  <2> HIDE DEF q, g
  <2>1. Good(g, cx1, fr, np)
    BY <1>1, <1>5, MoveGood
  <2>2. Quiet(h, cx, g, cx1)
    BY ONLY <1>5, K \subseteq Open(h, cx), MoveQuiet
  <2>3. QED
    BY ONLY <2>1, <2>2
<1>7. QED
  BY <1>6

\* A ticket that may go on.
Ready(h, cx, t, fr, np) ==
  /\ Good(h, cx, fr, np) /\ t \in DOMAIN cx /\ Moving(cx[t]) /\ Free(h, cx, t) /\ Place(cx[t], np) \in Nat

\* A node that gets its children.
LEMMA ChsIs ==
  ASSUME NEW n, IsNode(n), ~ n.leaf, NEW cs, IsSeq(cs), Len(cs) = Len(n.keys) + 1,
         NEW x, x = [n EXCEPT !.chs = cs]
  PROVE  IsNode(x) /\ x.chs = cs /\ x.ver = n.ver /\ ~ x.leaf /\ x.keys = n.keys
<1>1. n = [ver |-> n.ver, leaf |-> n.leaf, keys |-> n.keys, vals |-> n.vals, chs |-> n.chs,
           ready |-> n.ready, slots |-> n.slots]
  BY DEF IsNode
<1>2. x = [ver |-> n.ver, leaf |-> n.leaf, keys |-> n.keys, vals |-> n.vals,
           chs |-> cs, ready |-> n.ready, slots |-> n.slots]
  BY <1>1
<1>3. /\ n.leaf \in BOOLEAN /\ n.ready \in BOOLEAN /\ IsSeq(n.slots) /\ IsSeq(n.chs)
      /\ IsSeq(n.keys) /\ Len(n.chs) = Len(n.keys) + 1
  BY DEF IsNode
<1>4. x.ver = n.ver /\ x.leaf = n.leaf /\ x.keys = n.keys /\ x.vals = n.vals /\ x.chs = cs
      /\ x.ready = n.ready /\ x.slots = n.slots
  BY <1>2
<1>5. x = [ver |-> x.ver, leaf |-> x.leaf, keys |-> x.keys, vals |-> x.vals, chs |-> x.chs,
           ready |-> x.ready, slots |-> x.slots]
  BY <1>2, <1>4
<1>6. QED
  BY <1>3, <1>4, <1>5 DEF IsNode

LEMMA ReadyIs ==
  ASSUME NEW n, IsNode(n), ~ n.leaf, NEW b \in BOOLEAN,
         NEW x, x = [n EXCEPT !.ready = b]
  PROVE  IsNode(x) /\ x.chs = n.chs /\ x.ver = n.ver /\ ~ x.leaf /\ x.keys = n.keys
<1>1. n = [ver |-> n.ver, leaf |-> n.leaf, keys |-> n.keys, vals |-> n.vals, chs |-> n.chs,
           ready |-> n.ready, slots |-> n.slots]
  BY DEF IsNode
<1>2. x = [ver |-> n.ver, leaf |-> n.leaf, keys |-> n.keys, vals |-> n.vals,
           chs |-> n.chs, ready |-> b, slots |-> n.slots]
  BY <1>1
<1>3. /\ n.leaf \in BOOLEAN /\ n.ready \in BOOLEAN /\ IsSeq(n.slots) /\ IsSeq(n.chs)
      /\ IsSeq(n.keys) /\ Len(n.chs) = Len(n.keys) + 1
  BY DEF IsNode
<1>4. x.ver = n.ver /\ x.leaf = n.leaf /\ x.keys = n.keys /\ x.vals = n.vals /\ x.chs = n.chs
      /\ x.ready = b /\ x.slots = n.slots
  BY <1>2
<1>5. x = [ver |-> x.ver, leaf |-> x.leaf, keys |-> x.keys, vals |-> x.vals, chs |-> x.chs,
           ready |-> x.ready, slots |-> x.slots]
  BY <1>2, <1>4
<1>6. QED
  BY <1>3, <1>4, <1>5 DEF IsNode

LEMMA DownStarts ==
  ASSUME NEW h, NEW cx, NEW t, NEW fr, NEW np, Ready(h, cx, t, fr, np), NEW c, c = cx[t], c.op = "down",
         NEW f, f = [h EXCEPT ![c.cur].chs = h[c.past].chs]
  PROVE  Starts(h, cx, f, t, c, {c.cur}, {}, fr, np, Place(c, np) + 1)
<1>1. /\ Good(h, cx, fr, np) /\ t \in DOMAIN cx /\ Moving(c) /\ Free(h, cx, t) /\ Place(c, np) \in Nat
      /\ Shape(h, t, c) /\ Built(h) /\ Forest(Kids(h), Retired(cx), Copied(cx), Open(h, cx))
  BY DEF Ready, Good, Shapes
<1>2. /\ ShapeMoving(h, t, c) /\ Len(h[c.cur].keys) = Len(h[c.past].keys) /\ IsContext(c) /\ t \in Nat \ {0}
  BY <1>1 DEF Shape
<1>3. /\ c.cur \in DOMAIN h /\ c.past \in DOMAIN h /\ c.cur[1] = t /\ ~ h[c.cur].leaf /\ ~ h[c.past].leaf
  BY <1>2 DEF ShapeMoving
<1>4. c.past # c.cur
  BY <1>1, <1>2, <1>3 DEF Forest, Retirements, Retired, ShapeMoving
<1>5. /\ DOMAIN f = DOMAIN h /\ (\A n \in DOMAIN h \ {c.cur} : f[n] = h[n])
      /\ f[c.cur] = [h[c.cur] EXCEPT !.chs = h[c.past].chs]
  BY <1>3
<1>6. /\ IsNode(f[c.cur]) /\ f[c.cur].chs = h[c.past].chs /\ f[c.cur].ver = h[c.cur].ver /\ ~ f[c.cur].leaf
  <2>1. IsNode(h[c.cur]) /\ IsNode(h[c.past])
    BY <1>1, <1>3 DEF Built
  <2>2. PICK n : n = h[c.cur]
    OBVIOUS
  <2>3. IsSeq(h[c.past].chs) /\ Len(h[c.past].chs) = Len(n.keys) + 1
    BY <1>2, <1>3, <2>1, <2>2 DEF IsNode
  <2>4. PICK cs : cs = h[c.past].chs
    OBVIOUS
  <2>5. f[c.cur] = [n EXCEPT !.chs = cs]
    BY <1>5, <2>2, <2>4
  <2>6. IsNode(n) /\ ~ n.leaf /\ IsSeq(cs) /\ Len(cs) = Len(n.keys) + 1
    BY <1>3, <2>1, <2>2, <2>3, <2>4
  <2>7. PICK x : x = f[c.cur]
    OBVIOUS
  <2>8. IsNode(x) /\ x.chs = cs /\ x.ver = n.ver /\ ~ x.leaf
    BY <2>5, <2>6, <2>7, ChsIs
  <2>9. QED
    BY <2>2, <2>4, <2>7, <2>8
<1>7. Built(f)
  BY <1>1, <1>3, <1>5, <1>6 DEF Built
<1>8. Opened(h, c) = {c.cur}
  BY DEF Opened
<1> DEFINE off == [n \in {c.cur} |-> 0]
<1>9. Filled(Kids(h), Kids(f), c.past, {c.cur}, off, t)
  <2>1. /\ DOMAIN Kids(f) = DOMAIN Kids(h) /\ DOMAIN Kids(h) = DOMAIN h
        /\ (\A n \in DOMAIN h : Kids(h)[n] = h[n].chs /\ Kids(f)[n] = f[n].chs)
    BY <1>5 DEF Kids
  <2>2. Kids(f)[c.cur] = Kids(h)[c.past] /\ Kids(h)[c.past] \in Seq(DOMAIN h)
    BY <1>1, <1>3, <1>6, <2>1 DEF Built
  <2>3. \A i : Edge(Kids(f), c.cur, i) => i \in Nat /\ i \in DOMAIN Kids(h)[c.past]
    BY <2>2 DEF Edge
  <2>4. \A i, j : Edge(Kids(f), c.cur, i) /\ Edge(Kids(f), c.cur, j) /\ 0 + i = 0 + j => i = j
    BY <2>3
  <2>5. ASSUME NEW i, Edge(Kids(f), c.cur, i)
        PROVE  off[c.cur] + i \in DOMAIN Kids(h)[c.past] /\ Kids(f)[c.cur][i] = Kids(h)[c.past][off[c.cur] + i]
    <3>1. i \in Nat /\ i \in DOMAIN Kids(h)[c.past] /\ off[c.cur] = 0
      BY <2>3, <2>5
    <3>2. off[c.cur] + i = i
      BY <3>1
    <3>3. QED
      BY <2>2, <3>1, <3>2
  <2>6. off[c.cur] = 0
    OBVIOUS
  <2> HIDE DEF off
  <2>7. \A p \in {c.cur} : p[1] = t /\ Kids(f)[p] \in Seq(DOMAIN Kids(h))
    BY <1>3, <2>1, <2>2
  <2>8. /\ DOMAIN Kids(f) = DOMAIN Kids(h) /\ {c.cur} \subseteq DOMAIN Kids(h) /\ c.past \in DOMAIN Kids(h)
        /\ c.past \notin {c.cur} /\ t \in Nat /\ \A p \in DOMAIN Kids(h) \ {c.cur} : Kids(f)[p] = Kids(h)[p]
    BY <1>2, <1>3, <1>4, <1>5, <2>1
  <2>9. \A p, i : p \in {c.cur} /\ Edge(Kids(f), p, i) =>
           off[p] + i \in DOMAIN Kids(h)[c.past] /\ Kids(f)[p][i] = Kids(h)[c.past][off[p] + i]
    BY <2>5
  <2>10. \A p, r, i, j : p \in {c.cur} /\ r \in {c.cur} /\ Edge(Kids(f), p, i) /\ Edge(Kids(f), r, j)
            /\ off[p] + i = off[r] + j => p = r /\ i = j
    BY <2>4, <2>6
  <2>11. QED
    BY <2>7, <2>8, <2>9, <2>10 DEF Filled
<1>10. Beside(c, c)
  BY <1>2 DEF Beside
<1>11. QED
  <2> HIDE DEF off
  <2>1. Starts(h, cx, f, t, c, Opened(h, c), {}, fr, np, Place(c, np) + 1)
    <3>1. CanStart(h, cx, f, t, c, c, {c.cur}, off, fr, np, Place(c, np) + 1)
      BY <1>1, <1>3, <1>5, <1>6, <1>7, <1>8, <1>9, <1>10 DEF CanStart
    <3>2. QED
      BY <1>8, <3>1, FillStarts
  <2>2. QED
    BY <1>8, <2>1

\* The two halves of a full node get their children.
TwoHalves(h, n, m, a, b, x, f) ==
  /\ n \in DOMAIN h /\ m \in DOMAIN h /\ n # m
  /\ IsNode(h[n]) /\ IsNode(h[m]) /\ ~ h[n].leaf /\ ~ h[m].leaf /\ IsSeq(a) /\ IsSeq(b)
  /\ Len(a) = Len(h[n].keys) + 1 /\ Len(b) = Len(h[m].keys) + 1 /\ x \in {n, m}
  /\ f = [h EXCEPT ![n].chs = a, ![m].chs = b, ![x].ready = TRUE]
TwoFilled(h, n, m, a, b, f) ==
  /\ DOMAIN f = DOMAIN h /\ \A z \in DOMAIN h \ {n, m} : f[z] = h[z]
  /\ IsNode(f[n]) /\ f[n].ver = h[n].ver /\ ~ f[n].leaf /\ f[n].chs = a
  /\ IsNode(f[m]) /\ f[m].ver = h[m].ver /\ ~ f[m].leaf /\ f[m].chs = b

LEMMA HalvesAre ==
  ASSUME NEW h, NEW n, NEW m, NEW a, NEW b, NEW x, NEW f, TwoHalves(h, n, m, a, b, x, f)
  PROVE  TwoFilled(h, n, m, a, b, f)
<1> /\ n \in DOMAIN h /\ m \in DOMAIN h /\ n # m
    /\ IsNode(h[n]) /\ IsNode(h[m]) /\ ~ h[n].leaf /\ ~ h[m].leaf /\ IsSeq(a) /\ IsSeq(b)
    /\ Len(a) = Len(h[n].keys) + 1 /\ Len(b) = Len(h[m].keys) + 1 /\ x \in {n, m}
    /\ f = [h EXCEPT ![n].chs = a, ![m].chs = b, ![x].ready = TRUE]
  BY DEF TwoHalves
<1> USE DEF TwoFilled
<1> DEFINE h1 == [h EXCEPT ![n].chs = a]
           h2 == [h1 EXCEPT ![m].chs = b]
<1>1. f = [h2 EXCEPT ![x].ready = TRUE]
  OBVIOUS
<1>2. DOMAIN h1 = DOMAIN h /\ h1[n] = [h[n] EXCEPT !.chs = a] /\ \A z \in DOMAIN h : z # n => h1[z] = h[z]
  OBVIOUS
<1>3. IsNode(h1[n]) /\ h1[n].chs = a /\ h1[n].ver = h[n].ver /\ ~ h1[n].leaf
  <2>1. PICK u, v : u = h[n] /\ v = h1[n]
    OBVIOUS
  <2> HIDE DEF h1
  <2>2. IsNode(u) /\ ~ u.leaf /\ Len(a) = Len(u.keys) + 1 /\ v = [u EXCEPT !.chs = a]
    BY <1>2, <2>1
  <2>3. IsNode(v) /\ v.chs = a /\ v.ver = u.ver /\ ~ v.leaf
    BY <2>2, ChsIs
  <2>4. QED
    BY <2>1, <2>3
<1>4. DOMAIN h2 = DOMAIN h1 /\ h2[m] = [h1[m] EXCEPT !.chs = b] /\ \A z \in DOMAIN h : z # m => h2[z] = h1[z]
  BY <1>2 DEF h2
<1>5. IsNode(h2[m]) /\ h2[m].chs = b /\ h2[m].ver = h[m].ver /\ ~ h2[m].leaf
  <2>1. PICK u, v : u = h[m] /\ v = h2[m]
    OBVIOUS
  <2> HIDE DEF h1, h2
  <2>2. IsNode(u) /\ ~ u.leaf /\ Len(b) = Len(u.keys) + 1 /\ v = [u EXCEPT !.chs = b]
    BY <1>2, <1>4, <2>1
  <2>3. IsNode(v) /\ v.chs = b /\ v.ver = u.ver /\ ~ v.leaf
    BY <2>2, ChsIs
  <2>4. QED
    BY <2>1, <2>3
<1> HIDE DEF h1, h2
<1>6. DOMAIN h2 = DOMAIN h /\ h2[n] = h1[n] /\ \A z \in DOMAIN h \ {n, m} : h2[z] = h[z]
  BY <1>2, <1>4
<1>7. DOMAIN f = DOMAIN h2 /\ f[x] = [h2[x] EXCEPT !.ready = TRUE] /\ \A z \in DOMAIN h : z # x => f[z] = h2[z]
  BY <1>1, <1>6
<1>8. /\ IsNode(h2[n]) /\ h2[n].chs = a /\ h2[n].ver = h[n].ver /\ ~ h2[n].leaf
      /\ IsNode(h2[m]) /\ h2[m].chs = b /\ h2[m].ver = h[m].ver /\ ~ h2[m].leaf
  BY <1>3, <1>5, <1>6
<1>9. IsNode(f[x]) /\ f[x].chs = h2[x].chs /\ f[x].ver = h2[x].ver /\ ~ f[x].leaf
  <2>1. PICK u, v : u = h2[x] /\ v = f[x]
    OBVIOUS
  <2>2. IsNode(u) /\ ~ u.leaf /\ v = [u EXCEPT !.ready = TRUE]
    BY <1>7, <1>8, <2>1
  <2>3. IsNode(v) /\ v.chs = u.chs /\ v.ver = u.ver /\ ~ v.leaf
    BY <2>2, ReadyIs
  <2>4. QED
    BY <2>1, <2>3
<1>10. CASE x = n
  BY <1>6, <1>7, <1>8, <1>9, <1>10
<1>11. CASE x = m
  BY <1>6, <1>7, <1>8, <1>9, <1>11
<1>12. QED
  BY <1>10, <1>11

LEMMA FilledHalves ==
  ASSUME NEW C, NEW C1, NEW q, NEW n, NEW m, NEW t, n # m,
         \A p \in {n, m} : p[1] = t /\ C1[p] \in Seq(DOMAIN C),
         /\ DOMAIN C1 = DOMAIN C /\ {n, m} \subseteq DOMAIN C /\ q \in DOMAIN C
         /\ q \notin {n, m} /\ t \in Nat /\ \A p \in DOMAIN C \ {n, m} : C1[p] = C[p],
         \A i : Edge(C1, n, i) => i \in 1 .. Half /\ i \in DOMAIN C[q] /\ C1[n][i] = C[q][i],
         \A i : Edge(C1, m, i) => i \in 1 .. Half /\ Half + i \in DOMAIN C[q] /\ C1[m][i] = C[q][Half + i]
  PROVE  Filled(C, C1, q, {n, m}, [z \in {n, m} |-> IF z = n THEN 0 ELSE Half], t)
<1> DEFINE off == [z \in {n, m} |-> IF z = n THEN 0 ELSE Half]
<1>1. off[n] = 0 /\ off[m] = Half
  OBVIOUS
<1> HIDE DEF off
<1>2. ASSUME NEW p \in {n, m}, NEW i, Edge(C1, p, i)
      PROVE  off[p] + i \in DOMAIN C[q] /\ C1[p][i] = C[q][off[p] + i] /\ i \in 1 .. Half
  <2>1. CASE p = n
    <3>1. i \in 1 .. Half /\ i \in DOMAIN C[q] /\ C1[p][i] = C[q][i] /\ off[p] = 0
      BY <1>1, <1>2, <2>1
    <3>2. 0 + i = i
      BY <3>1
    <3>3. QED
      BY <3>1, <3>2
  <2>2. CASE p = m
    BY <1>1, <1>2, <2>2
  <2>3. QED
    BY <2>1, <2>2
<1>3. ASSUME NEW p \in {n, m}, NEW r \in {n, m}, NEW i, NEW j, Edge(C1, p, i), Edge(C1, r, j),
             off[p] + i = off[r] + j
      PROVE  p = r /\ i = j
  <2>1. PICK x \in 1 .. Half, y \in 1 .. Half : x = i /\ y = j
    BY <1>2, <1>3
  <2>2. x \in Nat /\ y \in Nat /\ x <= Half /\ y <= Half /\ x >= 1 /\ y >= 1 /\ Half \in Nat
    BY NodeAssumption
  <2>3. off[p] + x = off[r] + y
    BY <1>3, <2>1
  <2>4. CASE p = n /\ r = n
    BY <1>1, <2>1, <2>2, <2>3, <2>4
  <2>5. CASE p = n /\ r = m
    <3>1. 0 + x = Half + y
      BY <1>1, <2>3, <2>5
    <3>2. QED
      BY <2>2, <3>1
  <2>6. CASE p = m /\ r = n
    <3>1. Half + x = 0 + y
      BY <1>1, <2>3, <2>6
    <3>2. QED
      BY <2>2, <3>1
  <2>7. CASE p = m /\ r = m
    <3>1. Half + x = Half + y
      BY <1>1, <2>3, <2>7
    <3>2. QED
      BY <2>1, <2>2, <2>7, <3>1
  <2>8. QED
    BY <2>4, <2>5, <2>6, <2>7
<1>4. Filled(C, C1, q, {n, m}, off, t)
  BY <1>2, <1>3 DEF Filled
<1>5. QED
  BY <1>4 DEF off

\* The heap and the context with which handle_search_split calls update_cow.
Divided(h, c, n, m, a, b, x, y, f, e) ==
  /\ n = h[c.cur].chs[c.idx] /\ m = h[c.cur].chs[c.idx + 1] /\ x \in {n, m} /\ y \in {n, m}
  /\ a = SplitChs(h[c.past].chs)[1] /\ b = SplitChs(h[c.past].chs)[2]
  /\ f = [h EXCEPT ![n].chs = a, ![m].chs = b, ![x].ready = TRUE]
  /\ e = [c EXCEPT !.cur = y]

LEMMA SplitStarts ==
  ASSUME NEW h, NEW cx, NEW t, NEW fr, NEW np, NEW c, NEW n, NEW m, NEW a, NEW b, NEW x, NEW y, NEW f, NEW e,
         Ready(h, cx, t, fr, np), c = cx[t], c.op = "split", Divided(h, c, n, m, a, b, x, y, f, e)
  PROVE  Starts(h, cx, f, t, e, {n, m}, {}, fr, np, Place(c, np) + 1)
<1> /\ n = h[c.cur].chs[c.idx] /\ m = h[c.cur].chs[c.idx + 1] /\ x \in {n, m} /\ y \in {n, m}
    /\ a = SplitChs(h[c.past].chs)[1] /\ b = SplitChs(h[c.past].chs)[2]
    /\ f = [h EXCEPT ![n].chs = a, ![m].chs = b, ![x].ready = TRUE]
    /\ e = [c EXCEPT !.cur = y]
  BY DEF Divided
<1>1. /\ Good(h, cx, fr, np) /\ t \in DOMAIN cx /\ Moving(c) /\ Free(h, cx, t) /\ Place(c, np) \in Nat
      /\ Shape(h, t, c) /\ Built(h) /\ Forest(Kids(h), Retired(cx), Copied(cx), Open(h, cx)) /\ Settled(h, cx)
  BY DEF Ready, Good, Shapes
<1>2. /\ ShapeMoving(h, t, c) /\ ShapeSplit(h, t, c) /\ IsContext(c) /\ t \in Nat \ {0} /\ c.sno = t
  BY <1>1 DEF Shape
<1>3. Opened(h, c) = {n, m}
  BY DEF Opened
<1>4. /\ c.past \in DOMAIN h /\ ~ h[c.past].leaf /\ Len(h[c.past].keys) = MaxKeys /\ n # m
      /\ n \in DOMAIN h /\ n[1] = t /\ ~ h[n].leaf /\ Len(h[n].keys) = Half - 1
      /\ m \in DOMAIN h /\ m[1] = t /\ ~ h[m].leaf /\ Len(h[m].keys) = Half - 1
  BY <1>2, <1>3 DEF ShapeMoving, ShapeSplit
<1>5. c.past # n /\ c.past # m
  <2>1. {n, m} \subseteq Open(h, cx)
    BY <1>1, <1>3 DEF Open
  <2>2. c.past \notin Open(h, cx)
    BY <1>1 DEF Settled
  <2>3. QED
    BY <2>1, <2>2
<1> DEFINE ps == h[c.past].chs
<1>6. /\ IsNode(h[n]) /\ IsNode(h[m]) /\ IsNode(h[c.past]) /\ ps \in Seq(DOMAIN h)
      /\ \A z \in DOMAIN h : h[z].ver = z[1]
  BY <1>1, <1>4 DEF Built
<1>7. Len(ps) = MaxKeys + 1
  BY <1>4, <1>6 DEF IsNode
<1>8. /\ a \in Seq(DOMAIN h) /\ Len(a) = Half /\ \A k \in 1 .. Half : k \in 1 .. MaxKeys + 1 /\ a[k] = ps[k]
      /\ b \in Seq(DOMAIN h) /\ Len(b) = Half
      /\ \A k \in 1 .. Half : Half + k \in 1 .. MaxKeys + 1 /\ b[k] = ps[Half + k]
  <2> HIDE DEF ps
  <2>1. \A j \in {1, 2} : /\ SplitChs(ps)[j] \in Seq(DOMAIN h) /\ Len(SplitChs(ps)[j]) = Half
                          /\ \A k \in 1 .. Half : /\ (j - 1) * Half + k \in 1 .. MaxKeys + 1
                                                  /\ SplitChs(ps)[j][k] = ps[(j - 1) * Half + k]
    BY <1>6, <1>7, SplitChsIs
  <2>3. a = SplitChs(ps)[1] /\ b = SplitChs(ps)[2]
    BY DEF ps
  <2>4. \A k \in 1 .. Half : k \in Nat /\ (1 - 1) * Half + k = k /\ (2 - 1) * Half + k = Half + k
    BY ONLY NodeAssumption
  <2>5. 1 \in {1, 2} /\ 2 \in {1, 2}
    OBVIOUS
  <2>6. /\ a \in Seq(DOMAIN h) /\ Len(a) = Half
        /\ \A k \in 1 .. Half : (1 - 1) * Half + k \in 1 .. MaxKeys + 1 /\ a[k] = ps[(1 - 1) * Half + k]
    BY <2>1, <2>3, <2>5
  <2>7. /\ b \in Seq(DOMAIN h) /\ Len(b) = Half
        /\ \A k \in 1 .. Half : (2 - 1) * Half + k \in 1 .. MaxKeys + 1 /\ b[k] = ps[(2 - 1) * Half + k]
    BY <2>1, <2>3, <2>5
  <2>8. ASSUME NEW k \in 1 .. Half
        PROVE  k \in 1 .. MaxKeys + 1 /\ a[k] = ps[k] /\ Half + k \in 1 .. MaxKeys + 1 /\ b[k] = ps[Half + k]
    BY <2>4, <2>6, <2>7
  <2>9. QED
    BY <2>6, <2>7, <2>8
<1>9. /\ DOMAIN f = DOMAIN h /\ \A z \in DOMAIN h \ {n, m} : f[z] = h[z]
      /\ IsNode(f[n]) /\ f[n].ver = h[n].ver /\ ~ f[n].leaf /\ f[n].chs = a
      /\ IsNode(f[m]) /\ f[m].ver = h[m].ver /\ ~ f[m].leaf /\ f[m].chs = b
  <2>1. IsSeq(a) /\ IsSeq(b) /\ Len(a) = Len(h[n].keys) + 1 /\ Len(b) = Len(h[m].keys) + 1
    BY ONLY <1>4, <1>8, NodeAssumption DEF IsSeq
  <2>2. f = [h EXCEPT ![n].chs = a, ![m].chs = b, ![x].ready = TRUE] /\ x \in {n, m}
    OBVIOUS
  <2>3. TwoHalves(h, n, m, a, b, x, f)
    BY ONLY <1>4, <1>6, <2>1, <2>2 DEF TwoHalves
  <2>4. TwoFilled(h, n, m, a, b, f)
    BY ONLY <2>3, HalvesAre
  <2>5. QED
    BY ONLY <2>4 DEF TwoFilled
<1>10. Built(f)
  BY ONLY <1>1, <1>4, <1>8, <1>9 DEF Built
<1> DEFINE off == [z \in {n, m} |-> IF z = n THEN 0 ELSE Half]
<1>11. Filled(Kids(h), Kids(f), c.past, {n, m}, off, t)
  <2>1. /\ DOMAIN Kids(f) = DOMAIN Kids(h) /\ DOMAIN Kids(h) = DOMAIN h
        /\ (\A z \in DOMAIN h : Kids(h)[z] = h[z].chs /\ Kids(f)[z] = f[z].chs)
    BY ONLY <1>9 DEF Kids
  <2>2. Kids(f)[n] = a /\ Kids(f)[m] = b /\ Kids(h)[c.past] = ps
    BY ONLY <1>4, <1>9, <2>1
  <2>3. DOMAIN a = 1 .. Half /\ DOMAIN b = 1 .. Half /\ DOMAIN ps = 1 .. MaxKeys + 1
    BY ONLY <1>6, <1>7, <1>8, NodeAssumption DEF MaxKeys
  <2> HIDE DEF off, ps
  <2>5. \A p \in {n, m} : p[1] = t /\ Kids(f)[p] \in Seq(DOMAIN Kids(h))
    BY ONLY <1>4, <1>8, <2>1, <2>2
  <2>6. /\ DOMAIN Kids(f) = DOMAIN Kids(h) /\ {n, m} \subseteq DOMAIN Kids(h) /\ c.past \in DOMAIN Kids(h)
        /\ c.past \notin {n, m} /\ t \in Nat /\ \A p \in DOMAIN Kids(h) \ {n, m} : Kids(f)[p] = Kids(h)[p]
    BY ONLY <1>2, <1>4, <1>5, <1>9, <2>1
  <2>7. \A i : /\ Edge(Kids(f), n, i) => i \in 1 .. Half /\ i \in Nat
               /\ Edge(Kids(f), m, i) => i \in 1 .. Half /\ i \in Nat
    BY ONLY <2>2, <2>3 DEF Edge
  <2>8. QED
    <3>1. \A i : Edge(Kids(f), n, i) => i \in 1 .. Half /\ i \in DOMAIN Kids(h)[c.past] /\ Kids(f)[n][i] = Kids(h)[c.past][i]
      BY ONLY <1>8, <2>2, <2>3, <2>7
    <3>2. \A i : Edge(Kids(f), m, i) => /\ i \in 1 .. Half /\ Half + i \in DOMAIN Kids(h)[c.past]
                                       /\ Kids(f)[m][i] = Kids(h)[c.past][Half + i]
      BY ONLY <1>8, <2>2, <2>3, <2>7
    <3>3. n # m
      BY ONLY <1>4
    <3>4. QED
      BY ONLY <2>5, <2>6, <3>1, <3>2, <3>3, FilledHalves DEF off
<1>12. Beside(c, e) /\ e.cur = y
  BY <1>2 DEF Beside, IsContext, Fields
<1>13. CanStart(h, cx, f, t, c, e, {n, m}, off, fr, np, Place(c, np) + 1)
  <2> HIDE DEF off, ps
  <2>0. y \in {n, m}
    OBVIOUS
  <2>1. y \in {n, m} /\ ~ f[y].leaf
    BY ONLY <1>9, <2>0
  <2>2. QED
    BY ONLY c = cx[t], y \in {n, m}, <1>1, <1>3, <1>9, <1>10, <1>11, <1>12, <2>1 DEF CanStart
<1>14. QED
  <2> HIDE DEF off
  <2>1. QED
    BY ONLY <1>13, FillStarts

\* Ticket t, which copies nodes of the path, runs its next handler.
GoesOn(h, cx, t, fr, np, r, d, cx1) ==
  /\ Ready(h, cx, t, fr, np) /\ r = Handle(h, cx[t]) /\ AtStage(r.c, d)
  /\ Place(d, np) = Place(cx[t], np) + 1 /\ Becomes(cx, cx1, t, d) /\ IsSeq(cx1)

LEMMA SplitIs ==
  ASSUME NEW h, NEW c
  PROVE  \E n, m, a, b, x, y, f, e :
           Divided(h, c, n, m, a, b, x, y, f, e) /\ HandleSplit(h, c) = UpdateCow(f, e)
<1>1. PICK n, m, cs : n = h[c.cur].chs[c.idx] /\ m = h[c.cur].chs[c.idx + 1] /\ cs = SplitChs(h[c.past].chs)
  OBVIOUS
<1>2. PICK sel \in {1, 2} : sel = IF h[c.cur].keys[c.idx] <= c.key THEN 2 ELSE 1
  OBVIOUS
<1>3. <<n, m>>[sel] \in {n, m} /\ <<n, m>>[3 - sel] \in {n, m}
  BY <1>2
<1>4. PICK x \in {n, m}, y \in {n, m} : x = <<n, m>>[3 - sel] /\ y = <<n, m>>[sel]
  BY <1>3
<1>5. PICK a, b : a = cs[1] /\ b = cs[2]
  OBVIOUS
<1>6. PICK f, e : f = [h EXCEPT ![n].chs = a, ![m].chs = b, ![x].ready = TRUE] /\ e = [c EXCEPT !.cur = y]
  OBVIOUS
<1>7. HandleSplit(h, c) = UpdateCow(f, e)
  <2>1. <<n, m>>[1] = n /\ <<n, m>>[2] = m
    OBVIOUS
  <2>2. QED
    BY <1>1, <1>2, <1>4, <1>5, <1>6, <2>1, Zenon DEF HandleSplit
<1>8. Divided(h, c, n, m, a, b, x, y, f, e)
  BY ONLY <1>1, <1>4, <1>5, <1>6 DEF Divided
<1>9. QED
  BY ONLY <1>7, <1>8

LEMMA HandlersGoOn ==
  ASSUME NEW h, NEW cx, NEW t, NEW fr, NEW np, NEW r, NEW d, NEW cx1,
         GoesOn(h, cx, t, fr, np, r, d, cx1)
  PROVE  Good(r.heap, cx1, fr, np) /\ Quiet(h, cx, r.heap, cx1)
<1>1. /\ Ready(h, cx, t, fr, np) /\ r = Handle(h, cx[t]) /\ AtStage(r.c, d)
      /\ Place(d, np) = Place(cx[t], np) + 1 /\ Becomes(cx, cx1, t, d) /\ IsSeq(cx1)
  BY DEF GoesOn
<1>2. PICK c, k : c = cx[t] /\ k = Place(cx[t], np) + 1
  OBVIOUS
<1>3. Good(h, cx, fr, np) /\ Shapes(h, cx) /\ t \in DOMAIN cx /\ Moving(c)
  BY <1>1, <1>2 DEF Ready, Good
<1>4. t \in Nat \ {0}
  BY <1>3 DEF Shapes, Shape
<1>5. CASE c.op = "down"
  <2>1. PICK f : f = [h EXCEPT ![c.cur].chs = h[c.past].chs]
    OBVIOUS
  <2>2. r = UpdateCow(f, c)
    BY <1>1, <1>2, <1>5, <2>1 DEF Handle, HandleDown
  <2>3. Starts(h, cx, f, t, c, {c.cur}, {}, fr, np, k)
    <3>1. Starts(h, cx, f, t, c, {c.cur}, {}, fr, np, Place(c, np) + 1)
      BY <1>1, <1>2, <1>5, <2>1, DownStarts
    <3>2. QED
      BY <1>2, <3>1
  <2>4. {c.cur} \subseteq Open(h, cx)
    <3>1. Opened(h, c) = {c.cur}
      BY ONLY <1>5 DEF Opened
    <3>2. QED
      BY ONLY <1>2, <1>3, <3>1 DEF Open
  <2>5. QED
    BY <1>1, <1>2, <1>3, <1>4, <2>2, <2>3, <2>4, StartsGood
<1>6. CASE c.op = "split"
  <2>1. PICK n, m, a, b, x, y, f, e :
           Divided(h, c, n, m, a, b, x, y, f, e) /\ HandleSplit(h, c) = UpdateCow(f, e)
    BY SplitIs
  <2>3. r = UpdateCow(f, e)
    BY ONLY <1>1, <1>2, <1>6, <2>1 DEF Handle
  <2>6. Starts(h, cx, f, t, e, {n, m}, {}, fr, np, k)
    <3>1. Starts(h, cx, f, t, e, {n, m}, {}, fr, np, Place(c, np) + 1)
      BY <1>1, <1>2, <1>6, <2>1, SplitStarts
    <3>2. QED
      BY ONLY <1>2, <3>1
  <2>7. Place(d, np) = k
    BY <1>1, <1>2
  <2>8. {n, m} \subseteq Open(h, cx)
    <3>1. Opened(h, c) = {n, m}
      <4>1. c.op # "down" /\ n = h[c.cur].chs[c.idx] /\ m = h[c.cur].chs[c.idx + 1]
        BY ONLY <1>6, <2>1 DEF Divided
      <4>2. QED
        BY ONLY <1>6, <4>1 DEF Opened
    <3>2. QED
      BY ONLY <1>2, <1>3, <3>1 DEF Open
  <2>9. QED
    BY ONLY <1>1, <1>3, <1>4, <2>3, <2>6, <2>7, <2>8, StartsGood
<1>7. QED
  BY <1>3, <1>5, <1>6 DEF Moving

\* The entry of ticket t copies the root P of the ticket before: nodes F, those of V with
\* children that P had (h0: not yet, f: already); e is the context for update_cow.
Roots(h, cx, t, P, fr, np) ==
  /\ Good(h, cx, fr, np) /\ t \in Nat \ {0} /\ DOMAIN cx = 1 .. t - 1 /\ P = RootOf(cx, fr, t - 1)
Enters(h, cx, h0, f, t, e, F, V, off, P, fr, np) ==
  /\ Roots(h, cx, t, P, fr, np)
  /\ \A i : Edge(Kids(h), P, i) => Kids(h)[P][i] \notin Open(h, cx)
  /\ Edge(Kids(h), P, 1)
  /\ Grown(Kids(h), Kids(h0), F, V, t)
  /\ \A p, i : p \in F \ V /\ Edge(Kids(h0), p, i) => Kids(h0)[p][i] \in V
  /\ Filled(Kids(h0), Kids(f), P, V, off, t)
  /\ DOMAIN f = DOMAIN h \cup F /\ (\A n \in DOMAIN h : f[n] = h[n]) /\ Built(f)
  /\ e.cur \in V /\ ~ f[e.cur].leaf
  /\ IsContext(e) /\ e.sno = t /\ e.retired = <<P>> /\ e.made \in Nat
  /\ \A n \in F : n[2] \in Nat /\ n[2] <= e.made
  /\ e.root \in F /\ \A p, i : Edge(Kids(f), p, i) => Kids(f)[p][i] # e.root

\* Nobody has replaced the newest root.
Untouched(h, cx, t, P) ==
  /\ P \in DOMAIN h /\ P # None /\ P \notin Open(h, cx) /\ P[1] < t
  /\ \A p, i : Edge(Kids(h), p, i) => Kids(h)[p][i] # P
  /\ \A x \in Nat : P \notin Retired(cx)[x] /\ P \notin Copied(cx)[x]
  /\ Retired(cx)[t] = {} /\ Copied(cx)[t] = {}
  /\ Others(h, cx, t) = Open(h, cx)

LEMMA RootIs ==
  ASSUME NEW h, NEW cx, NEW t, NEW P, NEW fr, NEW np, Roots(h, cx, t, P, fr, np)
  PROVE  Untouched(h, cx, t, P)
<1>1. Good(h, cx, fr, np) /\ t \in Nat \ {0} /\ DOMAIN cx = 1 .. t - 1 /\ P = RootOf(cx, fr, t - 1)
  BY DEF Roots
<1>2. Top(Kids(h), Retired(cx), Open(h, cx), P, t - 1) /\ Forest(Kids(h), Retired(cx), Copied(cx), Open(h, cx))
  <2>1. t - 1 \in {0} \cup DOMAIN cx
    BY <1>1
  <2>2. QED
    BY <1>1, <2>1 DEF Good, Rooted
<1>3. P \in DOMAIN h /\ P # None /\ P \notin Open(h, cx) /\ P[1] < t
  <2>1. P \in DOMAIN h /\ P # None /\ P \notin Open(h, cx) /\ P[1] <= t - 1
    BY <1>2 DEF Top, Kids
  <2>2. P[1] \in Nat
    BY <1>2, <2>1 DEF Forest, Nodes, Kids
  <2>3. QED
    BY <1>1, <2>1, <2>2
<1>4. \A p, i : Edge(Kids(h), p, i) => Kids(h)[p][i] # P
  BY <1>2 DEF Top
<1>5. ASSUME NEW x \in Nat PROVE P \notin Retired(cx)[x] /\ P \notin Copied(cx)[x]
  <2>1. CASE x <= t - 1
    BY <1>2, <2>1 DEF Top, Forest, Retirements
  <2>2. CASE ~ (x <= t - 1)
    <3>1. x \notin DOMAIN cx
      BY <1>1, <2>2
    <3>2. QED
      BY <3>1 DEF Retired, Copied
  <2>3. QED
    BY <2>1, <2>2
<1>6. t \notin DOMAIN cx
  BY <1>1
<1>7. Retired(cx)[t] = {} /\ Copied(cx)[t] = {}
  BY <1>1, <1>6 DEF Retired, Copied
<1>8. Others(h, cx, t) = Open(h, cx)
  BY <1>6 DEF Others, Open
<1>9. QED
  BY <1>3, <1>4, <1>5, <1>7, <1>8 DEF Untouched

\* Labels of the new nodes.
LEMMA EnterLabels ==
  ASSUME NEW h, NEW cx, NEW t, NEW P, NEW fr, NEW np, Roots(h, cx, t, P, fr, np),
         NEW C1, NEW F, NEW V, Grown(Kids(h), C1, F, V, t), Edge(Kids(h), P, 1),
         \A p, i : p \in F \ V /\ Edge(C1, p, i) => C1[p][i] \in V
  PROVE  \E mk, rk : /\ Ranked(C1, rk) /\ Marked(C1, mk) /\ mk[P] = 0 /\ mk[fr] = 0
                     /\ \A n \in F : mk[n] = 0
                     /\ \A n \in V : rk[n] = rk[P]
                     /\ \A u \in DOMAIN cx : Labelled(h, cx[u], np, mk, rk)
<1>1. Good(h, cx, fr, np) /\ t \in Nat \ {0} /\ DOMAIN cx = 1 .. t - 1 /\ P = RootOf(cx, fr, t - 1)
  BY DEF Roots
<1> DEFINE C == Kids(h)
           U == Open(h, cx)
<1>2. PICK mk0, rk0 : /\ Ranked(C, rk0) /\ Marked(C, mk0) /\ mk0[fr] = 0
                      /\ \A u \in DOMAIN cx : Labelled(h, cx[u], np, mk0, rk0)
  BY <1>1 DEF Good, Labels
<1>3. /\ DOMAIN C = DOMAIN h /\ DOMAIN C1 = DOMAIN C \cup F /\ F \cap DOMAIN C = {} /\ V \subseteq F
      /\ \A p \in DOMAIN C : C1[p] = C[p]
      /\ Forest(C, Retired(cx), Copied(cx), U) /\ None \in DOMAIN C
  BY <1>1 DEF Grown, Kids, Good, Forest, Nodes
<1>4. P \in DOMAIN h /\ mk0[P] = 0
  <2>1. P \in DOMAIN h
    BY RootIs DEF Untouched
  <2>2. mk0[P] = 0
    <3>1. CASE t - 1 = 0
      BY <1>1, <1>2, <3>1 DEF RootOf
    <3>2. CASE t - 1 # 0
      <4>1. t - 1 \in DOMAIN cx /\ P = cx[t - 1].root
        BY <1>1, <3>2 DEF RootOf
      <4>2. QED
        BY <1>2, <4>1 DEF Labelled
    <3>3. QED
      BY <3>1, <3>2
  <2>3. QED
    BY <2>1, <2>2
<1>5. rk0 \in [DOMAIN C -> Nat] /\ mk0 \in [DOMAIN C -> Nat] /\ rk0[None] = 0 /\ mk0[None] = 0
  BY <1>2 DEF Ranked, Marked
<1>6. rk0[P] > 0
  <2>1. rk0[C[P][1]] < rk0[P] /\ P \in DOMAIN C
    BY <1>2 DEF Ranked, Edge
  <2>2. C[P][1] \in DOMAIN C
    BY <1>3 DEF Forest, Nodes, Edge
  <2>3. QED
    BY <1>5, <2>1, <2>2
<1> DEFINE mk == [n \in DOMAIN C1 |-> IF n \in DOMAIN C THEN mk0[n] ELSE 0]
           rk == [n \in DOMAIN C1 |-> IF n \in DOMAIN C THEN rk0[n] ELSE IF n \in V THEN rk0[P] ELSE rk0[P] + 1]
<1>7. /\ \A n \in DOMAIN C : mk[n] = mk0[n] /\ rk[n] = rk0[n]
      /\ \A n \in F : mk[n] = 0 /\ rk[n] = IF n \in V THEN rk0[P] ELSE rk0[P] + 1
      /\ rk \in [DOMAIN C1 -> Nat] /\ mk \in [DOMAIN C1 -> Nat]
  BY <1>3, <1>4, <1>5
<1> HIDE DEF mk, rk
<1>8. ASSUME NEW p, NEW i, Edge(C1, p, i)
      PROVE  rk[C1[p][i]] < rk[p] /\ mk[C1[p][i]] <= mk[p] + 1
  <2>1. CASE p \in DOMAIN C
    <3>1. Edge(C, p, i) /\ C1[p][i] = C[p][i] /\ C[p][i] \in DOMAIN C
      BY <1>3, <1>8, <2>1 DEF Edge, Forest, Nodes
    <3>2. rk0[C[p][i]] < rk0[p] /\ mk0[C[p][i]] <= mk0[p] + 1
      BY <1>2, <3>1 DEF Ranked, Marked
    <3>3. QED
      BY <1>7, <2>1, <3>1, <3>2
  <2>2. CASE p \in V
    <3>1. C1[p][i] = None
      BY <1>8, <2>2 DEF Grown
    <3>2. rk[None] = 0 /\ mk[None] = 0
      BY <1>3, <1>5, <1>7
    <3>3. p \in F
      BY <1>3, <2>2
    <3>4. rk[p] = rk0[P] /\ mk[p] = 0
      BY <1>7, <2>2, <3>3
    <3>5. QED
      BY <1>6, <3>1, <3>2, <3>4
  <2>3. CASE p \in F \ V
    <3>1. C1[p][i] \in V /\ C1[p][i] \in F
      BY <1>3, <1>8, <2>3
    <3>2. rk[p] = rk0[P] + 1 /\ mk[p] = 0 /\ rk[C1[p][i]] = rk0[P] /\ mk[C1[p][i]] = 0
      BY <1>7, <2>3, <3>1
    <3>3. rk0[P] \in Nat
      BY <1>3, <1>4, <1>5
    <3>4. QED
      BY <3>2, <3>3
  <2>4. QED
    BY <1>3, <1>8, <2>1, <2>2, <2>3 DEF Edge
<1>9. Ranked(C1, rk) /\ Marked(C1, mk)
  BY <1>3, <1>5, <1>7, <1>8 DEF Ranked, Marked
<1>10. mk[P] = 0 /\ mk[fr] = 0
  <2>1. fr \in DOMAIN C
    BY <1>1, <1>3 DEF Good, Rooted, Top, RootOf
  <2>2. QED
    BY <1>2, <1>3, <1>4, <1>7, <2>1
<1>11. \A n \in F : mk[n] = 0
  BY <1>7
<1>12. \A n \in V : rk[n] = rk[P]
  BY <1>3, <1>4, <1>7
<1>13. ASSUME NEW u \in DOMAIN cx PROVE Labelled(h, cx[u], np, mk, rk)
  <2>1. Labelled(h, cx[u], np, mk0, rk0) /\ Shape(h, u, cx[u])
    BY <1>1, <1>2 DEF Good, Shapes
  <2>2. cx[u].root \in DOMAIN C
    BY <1>1, <1>3 DEF Good, Rooted, Top, RootOf
  <2>3. Moving(cx[u]) => cx[u].past \in DOMAIN C
    BY <1>3, <2>1 DEF Shape, ShapeMoving
  <2>4. \A n \in Opened(h, cx[u]) : n \in DOMAIN C
    BY <1>3, <2>1, OpenedIs
  <2>5. QED
    BY <1>7, <2>1, <2>2, <2>3, <2>4 DEF Labelled
<1>14. QED
  BY <1>9, <1>10, <1>11, <1>12, <1>13

\* What the tickets have replaced and left when the entry of t has replaced P.
LEMMA EnterGone ==
  ASSUME NEW h, NEW cx, NEW t, NEW P, t \in Nat, Untouched(h, cx, t, P), NEW e, e.retired = <<P>>
  PROVE  /\ Adds(Retired(cx), GoneBut(cx, t, e), t, {P}) /\ Adds(Copied(cx), QuitBut(cx, t, e), t, {P})
         /\ Gone(e) = {P}
<1>1. Gone(e) = {P}
  BY DEF Gone, Range
<1>2. Retired(cx)[t] = {} /\ Copied(cx)[t] = {}
  BY DEF Untouched
<1>3. Adds(Retired(cx), GoneBut(cx, t, e), t, {P})
  BY <1>1, <1>2 DEF Adds, GoneBut
<1>4. Adds(Copied(cx), QuitBut(cx, t, e), t, {P})
  BY <1>1, <1>2 DEF Adds, QuitBut
<1>5. QED
  BY <1>1, <1>3, <1>4

LEMMA GrowTop ==
  ASSUME NEW C, NEW C1, NEW F, NEW V, NEW t, NEW R, NEW U, NEW o, NEW v,
         Grown(C, C1, F, V, t), Top(C, R, U, o, v)
  PROVE  Top(C1, R, U \cup V, o, v)
<1>1. o \in DOMAIN C1 /\ o \in DOMAIN C /\ o # None /\ o \notin U \cup V /\ o[1] <= v
  BY DEF Top, Grown
<1>2. ASSUME NEW p, NEW i, Edge(C1, p, i) PROVE C1[p][i] # o
  <2>1. CASE p \in DOMAIN C
    BY <1>2, <2>1 DEF Grown, Top, Edge
  <2>2. CASE p \in F
    <3>1. C1[p][i] \in F \cup {None}
      BY <1>2, <2>2 DEF Grown, Edge
    <3>2. QED
      BY <1>1, <3>1 DEF Grown
  <2>3. QED
    BY <1>2, <2>1, <2>2 DEF Grown, Edge
<1>3. QED
  BY <1>1, <1>2 DEF Top

LEMMA EnterCopies ==
  ASSUME NEW h, NEW cx, NEW h0, NEW f, NEW t, NEW e, NEW F, NEW V, NEW off, NEW P, NEW fr, NEW np,
         Enters(h, cx, h0, f, t, e, F, V, off, P, fr, np), NEW mk, NEW rk,
         Ranked(Kids(h0), rk), Marked(Kids(h0), mk), mk[P] = 0, \A n \in F : mk[n] = 0, \A n \in V : rk[n] = rk[P]
  PROVE  Copies(f, e, GoneBut(cx, t, e), QuitBut(cx, t, e), Others(h, cx, t), mk, rk, 1)
<1> DEFINE R == Retired(cx)
           L == Copied(cx)
           U == Open(h, cx)
           C0 == Kids(h0)
<1>1. /\ Roots(h, cx, t, P, fr, np) /\ Good(h, cx, fr, np) /\ t \in Nat \ {0}
      /\ Grown(Kids(h), C0, F, V, t) /\ Filled(C0, Kids(f), P, V, off, t)
      /\ DOMAIN f = DOMAIN h \cup F /\ (\A n \in DOMAIN h : f[n] = h[n]) /\ Built(f)
      /\ e.cur \in V /\ ~ f[e.cur].leaf
      /\ IsContext(e) /\ e.sno = t /\ e.retired = <<P>> /\ e.made \in Nat
  BY DEF Enters, Roots
<1>2. Untouched(h, cx, t, P)
  BY <1>1, RootIs
<1>3. /\ P \in DOMAIN h /\ P # None /\ P \notin U /\ P[1] < t
      /\ \A p, i : Edge(Kids(h), p, i) => Kids(h)[p][i] # P
      /\ \A x \in Nat : P \notin R[x] /\ P \notin L[x]
      /\ Others(h, cx, t) = U
  BY <1>2 DEF Untouched
<1>4. /\ Adds(R, GoneBut(cx, t, e), t, {P}) /\ Adds(L, QuitBut(cx, t, e), t, {P})
  BY <1>1, <1>2, EnterGone
<1>5. Forest(Kids(h), R, L, U)
  BY <1>1 DEF Good
<1>6. Forest(C0, R, L, U \cup V)
  <2> HIDE DEF R, L, U, C0
  <2>1. QED
    BY <1>1, <1>5, GrowForest
<1>7. /\ DOMAIN C0 = DOMAIN h \cup F /\ F \cap DOMAIN h = {} /\ V \subseteq F
      /\ \A p \in DOMAIN h : C0[p] = Kids(h)[p]
      /\ \A n \in F : n[1] = t
  BY <1>1 DEF Grown, Kids
<1>8. U \subseteq DOMAIN h
  BY <1>5 DEF Forest, Nodes, Kids
<1>9. V \subseteq U \cup V /\ P \notin U \cup V /\ (U \cup V) \ V = U
  BY <1>3, <1>7, <1>8
<1>10. \A p, i : Edge(C0, p, i) => C0[p][i] # P
  <2>1. Top(Kids(h), R, U, P, t)
    <3> HIDE DEF R, U, C0, L
    <3>1. P[1] <= t /\ P \in DOMAIN Kids(h)
      <4>1. P[1] \in Nat
        BY <1>3, <1>5 DEF Forest, Nodes, Kids
      <4>2. QED
        BY <1>1, <1>3, <4>1 DEF Kids
    <3>2. QED
      BY ONLY <1>3, <3>1 DEF Top
  <2>2. Top(C0, R, U \cup V, P, t)
    BY <1>1, <2>1, GrowTop
  <2>3. QED
    BY <2>2 DEF Top
<1>11. \A i : Edge(C0, P, i) => C0[P][i] \notin U \cup V
  <2>1. ASSUME NEW i, Edge(C0, P, i) PROVE C0[P][i] \notin U \cup V
    <3>1. Edge(Kids(h), P, i) /\ C0[P][i] = Kids(h)[P][i]
      BY <1>3, <1>7, <2>1 DEF Edge, Kids
    <3>2. Kids(h)[P][i] \notin U /\ Kids(h)[P][i] \in DOMAIN h
      BY <1>5, <3>1 DEF Enters, Forest, Nodes, Kids, Edge
    <3>3. QED
      BY <1>7, <3>1, <3>2
  <2>2. QED
    BY <2>1
<1>12. New(e, 1) \notin DOMAIN f /\ New(e, 2) \notin DOMAIN f
  <2>1. \A n \in DOMAIN h : n[1] # t
    BY <1>1 DEF Good, Owned, Roots
  <2>2. \A n \in F : n[2] \in Nat /\ n[2] <= e.made
    BY DEF Enters
  <2>3. PICK m \in Nat : m = e.made
    BY <1>1
  <2>4. New(e, 1) = <<t, m + 1>> /\ New(e, 2) = <<t, m + 2>>
    BY <1>1, <2>3 DEF New
  <2>5. QED
    BY <1>1, <2>1, <2>2, <2>3, <2>4
<1>13. \A n \in DOMAIN f : IsNode(f[n]) /\ f[n].chs \in Seq(DOMAIN f)
  BY <1>1 DEF Built
<1>14. \A n \in V : mk[n] + 1 = 1 /\ rk[n] = rk[P]
  BY <1>7
<1>15. CanFill(h0, f, e, V, off, P, R, GoneBut(cx, t, e), L, QuitBut(cx, t, e), U \cup V, mk, rk, 1)
  <2>1. mk[P] + 1 <= 1 /\ 1 \in Nat
    OBVIOUS
  <2> HIDE DEF R, L, U
  <2>2. \A x \in Nat : P \notin L[x] /\ (P \in R[x] => x = t)
    BY <1>3
  <2>3. QED
    BY <1>1, <1>3, <1>4, <1>6, <1>9, <1>10, <1>11, <1>12, <1>13, <1>14, <2>1, <2>2 DEF CanFill
<1>16. Copies(f, e, GoneBut(cx, t, e), QuitBut(cx, t, e), (U \cup V) \ V, mk, rk, 1)
  <2> HIDE DEF R, L, U
  <2>1. QED
    BY <1>15, FillCopies
<1>17. QED
  BY <1>3, <1>9, <1>16

LEMMA EnterStarts ==
  ASSUME NEW h, NEW cx, NEW h0, NEW f, NEW t, NEW e, NEW F, NEW V, NEW off, NEW P, NEW fr, NEW np,
         Enters(h, cx, h0, f, t, e, F, V, off, P, fr, np)
  PROVE  Starts(h, cx, f, t, e, {}, F, fr, np, 1)
<1> DEFINE R == Retired(cx)
           L == Copied(cx)
           U == Open(h, cx)
           C0 == Kids(h0)
           R1 == GoneBut(cx, t, e)
<1>1. /\ Roots(h, cx, t, P, fr, np) /\ Good(h, cx, fr, np) /\ t \in Nat \ {0} /\ DOMAIN cx = 1 .. t - 1
      /\ Grown(Kids(h), C0, F, V, t) /\ Filled(C0, Kids(f), P, V, off, t)
      /\ DOMAIN f = DOMAIN h \cup F /\ (\A n \in DOMAIN h : f[n] = h[n]) /\ Built(f)
      /\ e.cur \in V /\ ~ f[e.cur].leaf
      /\ IsContext(e) /\ e.sno = t /\ e.retired = <<P>> /\ e.made \in Nat
      /\ Edge(Kids(h), P, 1) /\ \A p, i : p \in F \ V /\ Edge(C0, p, i) => C0[p][i] \in V
      /\ e.root \in F /\ \A p, i : Edge(Kids(f), p, i) => Kids(f)[p][i] # e.root
      /\ \A n \in F : n[2] \in Nat /\ n[2] <= e.made
  BY DEF Enters, Roots
<1>2. Untouched(h, cx, t, P)
  BY <1>1, RootIs
<1>3. PICK mk, rk : /\ Ranked(C0, rk) /\ Marked(C0, mk) /\ mk[P] = 0 /\ mk[fr] = 0
                    /\ \A n \in F : mk[n] = 0
                    /\ \A n \in V : rk[n] = rk[P]
                    /\ \A u \in DOMAIN cx : Labelled(h, cx[u], np, mk, rk)
  <2> HIDE DEF C0
  <2>1. QED
    BY <1>1, EnterLabels
<1>4. Copies(f, e, R1, QuitBut(cx, t, e), Others(h, cx, t), mk, rk, 1)
  BY <1>3, EnterCopies
<1>5. /\ F \cap DOMAIN h = {} /\ V \subseteq F /\ \A n \in F : n[1] = t
  BY <1>1 DEF Grown, Kids
<1>6. Extended(h, f, t, {}, F)
  BY <1>1, <1>5 DEF Extended
<1>7. Begins(h, cx, f, t, e, {}, F, mk, rk, 1)
  <2>1. IsSeq(e.retired)
    <3>1. <<P>> \in Seq({P})
      OBVIOUS
    <3>2. QED
      BY <1>1, <3>1 DEF IsSeq
  <2>2. QED
    BY <1>1, <1>4, <1>5, <1>6, <2>1 DEF Begins, Good
<1>8. U \subseteq DOMAIN h /\ Others(h, cx, t) = U /\ V \cap U = {}
  BY <1>1, <1>2, <1>5 DEF Good, Forest, Nodes, Kids, Untouched
<1>9. Adds(R, R1, t, {P}) /\ Gone(e) = {P}
  <2> HIDE DEF R, R1
  <2>1. t \in Nat /\ e.retired = <<P>>
    BY <1>1
  <2>2. QED
    BY <1>2, <2>1, EnterGone DEF R, R1
<1>10. ASSUME NEW u \in {0} \cup DOMAIN cx PROVE Top(Kids(f), R1, U, RootOf(cx, fr, u), u)
  <2>1. Top(Kids(h), R, U, RootOf(cx, fr, u), u)
    BY <1>1 DEF Good, Rooted
  <2>2. Top(C0, R, U \cup V, RootOf(cx, fr, u), u)
    <3> HIDE DEF R, U, C0
    <3>1. QED
      BY <1>1, <2>1, GrowTop
  <2>3. \A x \in Nat : x <= u /\ RootOf(cx, fr, u) \in R1[x] => RootOf(cx, fr, u) \in R[x]
    BY <1>1, <1>9 DEF Adds
  <2>4. QED
    <3> HIDE DEF R, U, C0, R1
    <3>1. U \subseteq U \cup V
      OBVIOUS
    <3>2. QED
      BY <1>1, <2>2, <2>3, <3>1, FillTop
<1>11. Top(Kids(f), R1, U, e.root, t)
  <2>1. e.root \in DOMAIN f /\ e.root # None /\ e.root \notin U /\ e.root[1] = t
    BY <1>1, <1>5, <1>8 DEF None
  <2>2. \A x \in Nat : e.root \notin R1[x]
    <3>1. \A x \in Nat : R[x] \subseteq DOMAIN h
      BY <1>1 DEF Good, Forest, Retirements, Kids
    <3>2. P \in DOMAIN h
      BY <1>2 DEF Untouched
    <3>3. QED
      BY <1>1, <1>5, <1>9, <3>1, <3>2 DEF Adds
  <2>3. e.root \in DOMAIN Kids(f) /\ t <= t
    BY <1>1, <2>1 DEF Kids
  <2>4. QED
    <3> HIDE DEF R, U, C0, L, R1
    <3>1. QED
      BY ONLY <1>1, <2>1, <2>2, <2>3 DEF Top
<1>12. Prepared(h, cx, f, t, e, fr, np, mk, rk)
  <2>1. \A n \in DOMAIN f : n[1] = t => n[2] \in Nat /\ n[2] <= e.made
    BY <1>1 DEF Good, Owned
  <2>2. \A n \in Others(h, cx, t) : ~ f[n].ready
    BY <1>1, <1>8 DEF Good, Unready
  <2>3. mk[e.root] = 0
    BY <1>1, <1>3
  <2>4. QED
    BY <1>1, <1>3, <1>8, <1>10, <1>11, <2>1, <2>2, <2>3 DEF Prepared
<1>13. QED
  BY <1>7, <1>12 DEF Starts

\* The entry of ticket t, with a context c.
Enter(h, cx, c, t, P, fr, np) ==
  /\ Roots(h, cx, t, P, fr, np)
  /\ \A i : Edge(Kids(h), P, i) => Kids(h)[P][i] \notin Open(h, cx)
  /\ IsContext(c) /\ c.sno = t /\ c.past = P /\ c.retired = <<>> /\ c.made = 0 /\ c.later \in BOOLEAN

\* What an entry knows of the root and of the nodes it makes.
Ground(h, t, P) ==
  /\ t \in Nat \ {0} /\ P \in DOMAIN h /\ P[1] < t /\ None \in DOMAIN h
  /\ \A n \in DOMAIN h : /\ n[1] # t /\ IsNode(h[n]) /\ h[n].chs \in Seq(DOMAIN h) /\ h[n].ver = n[1]
                         /\ n[1] \in Nat

LEMMA GroundIs ==
  ASSUME NEW h, NEW cx, NEW t, NEW P, NEW fr, NEW np, Roots(h, cx, t, P, fr, np)
  PROVE  Ground(h, t, P)
<1>1. Good(h, cx, fr, np) /\ t \in Nat \ {0} /\ DOMAIN cx = 1 .. t - 1
  BY DEF Roots
<1>2. P \in DOMAIN h /\ P[1] < t
  BY RootIs DEF Untouched
<1>3. \A n \in DOMAIN h : n[1] # t
  BY <1>1 DEF Good, Owned
<1>4. \A n \in DOMAIN h : IsNode(h[n]) /\ h[n].chs \in Seq(DOMAIN h) /\ h[n].ver = n[1]
  BY <1>1 DEF Good, Built
<1>5. None \in DOMAIN h /\ \A n \in DOMAIN h : n[1] \in Nat
  BY <1>1 DEF Good, Forest, Nodes, Kids
<1>6. QED
  BY <1>1, <1>2, <1>3, <1>4, <1>5 DEF Ground

\* A context that replaces the root.
NewRoot(c, P, m, o, u, e)   == e = [Retire(c, P) EXCEPT !.made = m, !.root = o, !.cur = u]
IsNewRoot(c, P, m, o, u, e) ==
  SameTicket(c, e) /\ e.root = o /\ e.cur = u /\ e.made = m /\ e.retired = <<P>>

LEMMA RootRetired ==
  ASSUME NEW c, IsContext(c), c.retired = <<>>, NEW P, NEW m, NEW o, NEW u,
         NEW e, NewRoot(c, P, m, o, u, e)
  PROVE  IsNewRoot(c, P, m, o, u, e)
<1> USE DEF NewRoot, IsNewRoot
<1>1. PICK r : r = Append(c.retired, P)
  OBVIOUS
<1>2. r = <<P>>
  BY <1>1
<1>3. PICK d : d = [c EXCEPT !.retired = r]
  OBVIOUS
<1>4. SameTicket(c, d) /\ d.retired = r
  BY <1>3 DEF SameTicket, IsContext, Fields
<1>5. Retire(c, P) = d
  BY <1>1, <1>3 DEF Retire
<1>6. e = [d EXCEPT !.made = m, !.root = o, !.cur = u]
  BY <1>5
<1>7. SameTicket(c, e) /\ e.retired = r /\ e.root = o /\ e.cur = u /\ e.made = m
  BY <1>4, <1>6 DEF SameTicket, IsContext, Fields
<1>8. QED
  BY <1>2, <1>7

\* An inner root that is not full.
OneNode(h, t, P, f, h0) ==
  /\ f = Over(h, [n \in {<<t, 1>>} |-> Internal(t, h[P].keys, h[P].chs)])
  /\ h0 = Over(h, [n \in {<<t, 1>>} |-> Internal(t, h[P].keys, Unbuilt(h[P].keys))])
OneGrown(h, t, P, f, h0) ==
  /\ Grown(Kids(h), Kids(h0), {<<t, 1>>}, {<<t, 1>>}, t)
  /\ Filled(Kids(h0), Kids(f), P, {<<t, 1>>}, [n \in {<<t, 1>>} |-> 0], t)
  /\ DOMAIN f = DOMAIN h \cup {<<t, 1>>} /\ (\A n \in DOMAIN h : f[n] = h[n]) /\ Built(f)
  /\ ~ f[<<t, 1>>].leaf /\ \A p, i : Edge(Kids(f), p, i) => Kids(f)[p][i] # <<t, 1>>
  /\ Edge(Kids(h), P, 1) /\ f[<<t, 1>>].chs = h[P].chs

LEMMA OneIs ==
  ASSUME NEW h, NEW t, NEW P, NEW f, NEW h0, Ground(h, t, P), OneNode(h, t, P, f, h0), ~ h[P].leaf
  PROVE  OneGrown(h, t, P, f, h0)
<1>1. PICK A : A = <<t, 1>>
  OBVIOUS
<1>2. /\ t \in Nat \ {0} /\ P \in DOMAIN h /\ P[1] < t /\ None \in DOMAIN h
      /\ \A n \in DOMAIN h : /\ n[1] # t /\ IsNode(h[n]) /\ h[n].chs \in Seq(DOMAIN h) /\ h[n].ver = n[1]
  BY DEF Ground
<1>3. A[1] = t /\ A \notin DOMAIN h /\ A # P
  BY <1>1, <1>2
<1>4. PICK ks, cs : ks = h[P].keys /\ cs = h[P].chs
  OBVIOUS
<1>5. IsSeq(ks) /\ IsSeq(cs) /\ Len(cs) = Len(ks) + 1 /\ cs \in Seq(DOMAIN h)
  BY <1>2, <1>4 DEF IsNode
<1>6. PICK u : u = Unbuilt(ks)
  OBVIOUS
<1>7. IsSeq(u) /\ Len(u) = Len(ks) + 1 /\ u \in Seq({None}) /\ \A i \in DOMAIN u : u[i] = None
  BY <1>5, <1>6, UnbuiltIs
<1>8. PICK a, b : a = Internal(t, ks, cs) /\ b = Internal(t, ks, u)
  OBVIOUS
<1>9. IsNode(a) /\ a.ver = t /\ ~ a.leaf /\ a.chs = cs
  BY <1>5, <1>8, InternalIs
<1>10. b.chs = u
  BY <1>5, <1>7, <1>8, InternalIs
<1>11. f = Over(h, [n \in {A} |-> a]) /\ h0 = Over(h, [n \in {A} |-> b])
  BY <1>1, <1>4, <1>6, <1>8 DEF OneNode
<1>12. /\ DOMAIN f = DOMAIN h \cup {A} /\ f[A] = a /\ (\A n \in DOMAIN h : f[n] = h[n])
       /\ DOMAIN h0 = DOMAIN h \cup {A} /\ h0[A] = b /\ (\A n \in DOMAIN h : h0[n] = h[n])
  BY <1>3, <1>11 DEF Over
<1>13. /\ DOMAIN Kids(f) = DOMAIN h \cup {A} /\ Kids(f)[A] = cs /\ DOMAIN Kids(h) = DOMAIN h
       /\ (\A n \in DOMAIN h : Kids(f)[n] = h[n].chs /\ Kids(h)[n] = h[n].chs /\ Kids(h0)[n] = h[n].chs)
       /\ DOMAIN Kids(h0) = DOMAIN h \cup {A} /\ Kids(h0)[A] = u
  BY ONLY <1>9, <1>10, <1>12 DEF Kids
<1>14. Grown(Kids(h), Kids(h0), {A}, {A}, t)
  <2>1. u \in Seq({A} \cup {None})
    BY <1>7
  <2>2. \A i : Edge(Kids(h0), A, i) => Kids(h0)[A][i] = None
    BY ONLY <1>7, <1>13 DEF Edge
  <2>3. QED
    BY ONLY <1>2, <1>3, <1>13, <2>1, <2>2 DEF Grown
<1>15. Filled(Kids(h0), Kids(f), P, {A}, [n \in {A} |-> 0], t)
  <2> DEFINE off == [n \in {A} |-> 0]
  <2>1. off[A] = 0
    OBVIOUS
  <2> HIDE DEF off
  <2>2. cs \in Seq(DOMAIN h \cup {A})
    BY <1>5
  <2>3. ASSUME NEW i, Edge(Kids(f), A, i)
        PROVE  off[A] + i = i /\ i \in DOMAIN Kids(h0)[P] /\ Kids(f)[A][i] = Kids(h0)[P][i]
    <3>1. i \in DOMAIN cs /\ Kids(h0)[P] = cs
      BY ONLY <1>2, <1>4, <1>13, <2>3 DEF Edge
    <3>2. i \in Nat
      BY ONLY <1>5, <3>1
    <3>3. off[A] + i = i
      BY ONLY <2>1, <3>2
    <3>4. QED
      BY ONLY <1>13, <3>1, <3>3
  <2>4. /\ DOMAIN Kids(f) = DOMAIN Kids(h0) /\ {A} \subseteq DOMAIN Kids(h0) /\ P \in DOMAIN Kids(h0)
        /\ P \notin {A} /\ t \in Nat /\ \A p \in DOMAIN Kids(h0) \ {A} : Kids(f)[p] = Kids(h0)[p]
    BY ONLY <1>2, <1>3, <1>13
  <2>5. \A p \in {A} : p[1] = t /\ Kids(f)[p] \in Seq(DOMAIN Kids(h0))
    BY ONLY <1>3, <1>13, <2>2
  <2>6. \A p, i : p \in {A} /\ Edge(Kids(f), p, i) =>
           off[p] + i \in DOMAIN Kids(h0)[P] /\ Kids(f)[p][i] = Kids(h0)[P][off[p] + i]
    BY ONLY <2>3
  <2>7. \A p, r, i, j : p \in {A} /\ r \in {A} /\ Edge(Kids(f), p, i) /\ Edge(Kids(f), r, j)
            /\ off[p] + i = off[r] + j => p = r /\ i = j
    <3>1. ASSUME NEW i, NEW j, Edge(Kids(f), A, i), Edge(Kids(f), A, j), off[A] + i = off[A] + j PROVE i = j
      BY ONLY <2>3, <3>1
    <3>2. QED
      BY ONLY <3>1
  <2>8. Filled(Kids(h0), Kids(f), P, {A}, off, t)
    BY ONLY <2>4, <2>5, <2>6, <2>7 DEF Filled
  <2>9. QED
    BY <2>8 DEF off
<1>16. Built(f)
  <2>1. cs \in Seq(DOMAIN f)
    BY ONLY <1>5, <1>12
  <2>2. ASSUME NEW n \in DOMAIN h PROVE h[n].chs \in Seq(DOMAIN f)
    BY ONLY <1>2, <1>12, <2>2
  <2>3. QED
    BY ONLY <1>2, <1>3, <1>9, <1>12, <2>1, <2>2 DEF Built
<1>17. ASSUME NEW p, NEW i, Edge(Kids(f), p, i) PROVE Kids(f)[p][i] # A
  <2>1. Kids(f)[p] \in Seq(DOMAIN h) /\ i \in DOMAIN Kids(f)[p]
    BY ONLY <1>2, <1>5, <1>13, <1>17 DEF Edge
  <2>2. Kids(f)[p][i] \in DOMAIN h
    BY ONLY <2>1
  <2>3. QED
    BY <1>3, <2>2
<1>18. Edge(Kids(h), P, 1)
  <2>1. Len(ks) \in Nat
    BY <1>5, LengthIs
  <2>2. 1 \in DOMAIN cs
    BY ONLY <1>5, <2>1
  <2>3. QED
    BY ONLY <1>2, <1>4, <1>13, <2>2 DEF Edge
<1>19. QED
  BY ONLY <1>1, <1>4, <1>9, <1>12, <1>14, <1>15, <1>16, <1>17, <1>18 DEF OneGrown

\* The new nodes F are small; those of V, the new root or its children, have what root P had.
RootParts(h, t, P, f, e, F, V) ==
  /\ V \subseteq F /\ e.root \in F /\ e.cur \in V /\ e.retired = <<P>>
  /\ DOMAIN f = DOMAIN h \cup F /\ F \cap DOMAIN h = {} /\ \A n \in DOMAIN h : f[n] = h[n]
  /\ \A n \in F : n[1] = t /\ Len(f[n].chs) \in Nat /\ Len(f[n].chs) <= MaxKeys
  /\ \A z \in V : z = e.root \/ \E j : Edge(Kids(f), e.root, j) /\ Kids(f)[e.root][j] = z
  /\ \A z, i : z \in V /\ Edge(Kids(f), z, i) => \E j : Edge(Kids(h), P, j) /\ Kids(f)[z][i] = Kids(h)[P][j]
  /\ Len(h[P].chs) <= MaxKeys + 1 =>
       \A i : Edge(Kids(h), P, i) => \E z, j : z \in V /\ Edge(Kids(f), z, j) /\ Kids(f)[z][j] = Kids(h)[P][i]
RootCopied(h, t, P, f, e, F) == (\E V : RootParts(h, t, P, f, e, F, V)) /\ \A n \in F : ~ f[n].leaf

\* The entry calls update_cow, and all is prepared.
Goes(h, cx, c, t, fr, np) ==
  \E f, e, F : /\ Starts(h, cx, f, t, e, {}, F, fr, np, 1) /\ HandleInit(h, c) = UpdateCow(f, e)
               /\ SameTicket(c, e) /\ RootCopied(h, t, c.past, f, e, F)

LEMMA InnerRoot ==
  ASSUME NEW h, NEW cx, NEW c, NEW t, NEW P, NEW fr, NEW np, Enter(h, cx, c, t, P, fr, np),
         ~ h[P].leaf, Len(h[P].keys) < MaxKeys
  PROVE  Goes(h, cx, c, t, fr, np)
<1>1. /\ Roots(h, cx, t, P, fr, np) /\ IsContext(c) /\ c.sno = t /\ c.past = P /\ c.retired = <<>> /\ c.made = 0
      /\ \A i : Edge(Kids(h), P, i) => Kids(h)[P][i] \notin Open(h, cx)
  BY DEF Enter
<1>2. PICK A : A = <<t, 1>>
  OBVIOUS
<1>3. PICK f, h0 : OneNode(h, t, P, f, h0)
  BY DEF OneNode
<1>4. Ground(h, t, P)
  BY <1>1, GroundIs
<1>5. OneGrown(h, t, P, f, h0)
  BY <1>3, <1>4, OneIs
<1>6. PICK e : NewRoot(c, P, 1, A, A, e)
  BY DEF NewRoot
<1>7. SameTicket(c, e) /\ e.root = A /\ e.cur = A /\ e.made = 1 /\ e.retired = <<P>>
  <2>1. IsNewRoot(c, P, 1, A, A, e)
    BY ONLY <1>1, <1>6, RootRetired
  <2>2. QED
    BY ONLY <2>1 DEF IsNewRoot
<1>8. New(c, 1) = A
  <2>1. PICK m \in Nat : m = c.made /\ m = 0
    BY <1>1
  <2>2. QED
    BY <1>1, <1>2, <2>1 DEF New
<1>9. HandleInit(h, c) = UpdateCow(f, e)
  BY <1>1, <1>2, <1>3, <1>6, <1>8 DEF HandleInit, OneNode, NewRoot
<1>10. Enters(h, cx, h0, f, t, e, {A}, {A}, [n \in {A} |-> 0], P, fr, np)
  <2>1. A[2] \in Nat /\ A[2] <= 1
    BY <1>2
  <2>2. IsContext(e) /\ e.sno = t
    BY <1>1, <1>7 DEF SameTicket
  <2>3. /\ Grown(Kids(h), Kids(h0), {A}, {A}, t)
        /\ Filled(Kids(h0), Kids(f), P, {A}, [n \in {A} |-> 0], t)
        /\ DOMAIN f = DOMAIN h \cup {A} /\ (\A n \in DOMAIN h : f[n] = h[n]) /\ Built(f)
        /\ ~ f[A].leaf /\ (\A p, i : Edge(Kids(f), p, i) => Kids(f)[p][i] # A) /\ Edge(Kids(h), P, 1)
    BY ONLY <1>2, <1>5 DEF OneGrown
  <2>4. QED
    BY ONLY <1>1, <1>7, <2>1, <2>2, <2>3 DEF Enters
<1>11. Starts(h, cx, f, t, e, {}, {A}, fr, np, 1)
  BY <1>10, EnterStarts
<1>12. RootParts(h, t, P, f, e, {A}, {A})
  <2>1. /\ DOMAIN f = DOMAIN h \cup {A} /\ (\A n \in DOMAIN h : f[n] = h[n]) /\ Edge(Kids(h), P, 1)
        /\ f[A].chs = h[P].chs
    BY ONLY <1>2, <1>5 DEF OneGrown
  <2>2. A[1] = t /\ {A} \cap DOMAIN h = {} /\ P \in DOMAIN h /\ IsNode(h[P])
    BY ONLY <1>2, <1>4 DEF Ground
  <2>3. Len(f[A].chs) \in Nat /\ Len(f[A].chs) <= MaxKeys
    <3>1. PICK n : n = h[P]
      OBVIOUS
    <3>2. IsSeq(n.chs) /\ IsSeq(n.keys) /\ Len(n.chs) = Len(n.keys) + 1 /\ Len(n.keys) < MaxKeys
      BY ONLY <2>2, <3>1, ~ h[P].leaf, Len(h[P].keys) < MaxKeys DEF IsNode
    <3>3. Len(n.chs) \in Nat /\ Len(n.keys) \in Nat /\ MaxKeys \in Nat
      BY ONLY <3>2, LengthIs, NodeAssumption DEF MaxKeys
    <3>4. QED
      BY ONLY <2>1, <3>1, <3>2, <3>3
  <2>4. DOMAIN Kids(f) = DOMAIN f /\ DOMAIN Kids(h) = DOMAIN h /\ Kids(f)[A] = Kids(h)[P]
    BY ONLY <2>1, <2>2 DEF Kids
  <2>5. \A i : Edge(Kids(f), A, i) => Edge(Kids(h), P, i) /\ Kids(f)[A][i] = Kids(h)[P][i]
    BY ONLY <2>2, <2>4 DEF Edge
  <2>6. \A i : Edge(Kids(h), P, i) => Edge(Kids(f), A, i) /\ Kids(f)[A][i] = Kids(h)[P][i]
    BY ONLY <2>1, <2>4 DEF Edge
  <2>7. QED
    BY ONLY <1>7, <2>1, <2>2, <2>3, <2>5, <2>6 DEF RootParts
<1>13. RootCopied(h, t, P, f, e, {A})
  <2>1. ~ f[A].leaf
    BY ONLY <1>2, <1>5 DEF OneGrown
  <2>2. QED
    BY ONLY <1>12, <2>1 DEF RootCopied
<1>14. QED
  BY ONLY <1>1, <1>7, <1>9, <1>11, <1>13 DEF Goes

\* A full root: two halves and a node above them.
ThreeNodes(h, t, P, A, B, O, a, b, o, u, v, f, h0) ==
  /\ A = <<t, 1>> /\ B = <<t, 2>> /\ O = <<t, 3>>
  /\ \E ra, rb \in BOOLEAN :
       /\ a = [Internal(t, SplitKeys(h[P].keys)[1], SplitChs(h[P].chs)[1]) EXCEPT !.ready = ra]
       /\ b = [Internal(t, SplitKeys(h[P].keys)[2], SplitChs(h[P].chs)[2]) EXCEPT !.ready = rb]
  /\ o = [Internal(t, <<h[P].keys[Half]>>, <<A, B>>) EXCEPT !.ready = TRUE]
  /\ u = Unbuilt(SplitKeys(h[P].keys)[1]) /\ v = Unbuilt(SplitKeys(h[P].keys)[2])
  /\ f = Over(h, [n \in {A, B, O} |-> IF n = O THEN o ELSE IF n = A THEN a ELSE b])
  /\ h0 = [n \in DOMAIN h \cup {A, B, O} |->
             IF n = O THEN o ELSE IF n = A THEN [a EXCEPT !.chs = u]
             ELSE IF n = B THEN [b EXCEPT !.chs = v] ELSE h[n]]
ThreeAre(h, t, P, A, B, O, a, b, o, u, v, f, h0) ==
  /\ A \notin DOMAIN h /\ B \notin DOMAIN h /\ O \notin DOMAIN h
  /\ A[1] = t /\ B[1] = t /\ O[1] = t /\ A # B /\ A # O /\ B # O
  /\ DOMAIN f = DOMAIN h \cup {A, B, O} /\ f[A] = a /\ f[B] = b /\ f[O] = o /\ \A n \in DOMAIN h : f[n] = h[n]
  /\ IsNode(a) /\ a.ver = t /\ ~ a.leaf /\ IsNode(b) /\ b.ver = t /\ ~ b.leaf /\ IsNode(o) /\ o.ver = t
  /\ a.chs \in Seq(DOMAIN h) /\ Len(a.chs) = Half /\ b.chs \in Seq(DOMAIN h) /\ Len(b.chs) = Half
  /\ h[P].chs \in Seq(DOMAIN h) /\ Len(h[P].chs) >= MaxKeys + 1
  /\ \A k \in 1 .. Half : a.chs[k] = h[P].chs[k] /\ b.chs[k] = h[P].chs[Half + k]
  /\ o.chs = <<A, B>>
  /\ DOMAIN h0 = DOMAIN h \cup {A, B, O} /\ h0[A].chs = u /\ h0[B].chs = v /\ h0[O].chs = o.chs
  /\ \A n \in DOMAIN h : h0[n] = h[n]
  /\ u \in Seq({None}) /\ v \in Seq({None})

HalfOf(t, n, S, j, r, a, u) ==
  /\ IsNode(n) /\ ~ n.leaf /\ Len(n.keys) >= MaxKeys /\ n.chs \in Seq(S) /\ j \in {1, 2} /\ r \in BOOLEAN
  /\ a = [Internal(t, SplitKeys(n.keys)[j], SplitChs(n.chs)[j]) EXCEPT !.ready = r]
  /\ u = Unbuilt(SplitKeys(n.keys)[j])
IsHalf(t, n, S, j, a, u) ==
  /\ IsNode(a) /\ a.ver = t /\ ~ a.leaf /\ a.chs \in Seq(S) /\ Len(a.chs) = Half /\ u \in Seq({None})
  /\ Len(n.chs) >= MaxKeys + 1
  /\ \A k \in 1 .. Half : a.chs[k] = n.chs[(j - 1) * Half + k]

LEMMA LongSplitKeys ==
  ASSUME NEW keys, IsSeq(keys), Len(keys) >= MaxKeys, NEW j \in {1, 2}
  PROVE  IsSeq(SplitKeys(keys)[j]) /\ Len(SplitKeys(keys)[j]) = Half - 1
<1>1. PICK S : keys \in Seq(S)
  BY DEF IsSeq
<1>2. Half \in Nat /\ Half >= 2 /\ MaxKeys = 2 * Half - 1 /\ Len(keys) \in Nat
  BY <1>1, NodeAssumption DEF MaxKeys
<1>3. /\ SubSeq(keys, 1, Half - 1) \in Seq(S) /\ Len(SubSeq(keys, 1, Half - 1)) = Half - 1
      /\ SubSeq(keys, Half + 1, MaxKeys) \in Seq(S) /\ Len(SubSeq(keys, Half + 1, MaxKeys)) = Half - 1
  BY <1>1, <1>2
<1>4. CASE j = 1
  BY <1>3, <1>4 DEF SplitKeys, IsSeq
<1>5. CASE j = 2
  BY <1>3, <1>5 DEF SplitKeys, IsSeq
<1>6. QED
  BY <1>4, <1>5

LEMMA LongSplitChs ==
  ASSUME NEW S, NEW chs \in Seq(S), Len(chs) >= MaxKeys + 1, NEW j \in {1, 2}
  PROVE  /\ SplitChs(chs)[j] \in Seq(S) /\ Len(SplitChs(chs)[j]) = Half
         /\ \A k \in 1 .. Half : /\ (j - 1) * Half + k \in 1 .. MaxKeys + 1
                                 /\ SplitChs(chs)[j][k] = chs[(j - 1) * Half + k]
<1>1. Half \in Nat /\ Half >= 2 /\ MaxKeys = 2 * Half - 1 /\ Len(chs) \in Nat
  BY NodeAssumption DEF MaxKeys
<1>2. CASE j = 1
  <2>1. SplitChs(chs)[j] = SubSeq(chs, 1, Half) /\ (j - 1) * Half = 0
    BY <1>1, <1>2 DEF SplitChs
  <2>2. QED
    BY <1>1, <2>1
<1>3. CASE j = 2
  <2>1. SplitChs(chs)[j] = SubSeq(chs, Half + 1, 2 * Half) /\ (j - 1) * Half = Half
    BY <1>1, <1>3 DEF SplitChs
  <2>2. QED
    BY <1>1, <2>1
<1>4. QED
  BY <1>2, <1>3

LEMMA HalfIs ==
  ASSUME NEW t, NEW n, NEW S, NEW j, NEW r, NEW a, NEW u, HalfOf(t, n, S, j, r, a, u)
  PROVE  IsHalf(t, n, S, j, a, u)
<1> USE DEF IsHalf
<1> /\ IsNode(n) /\ ~ n.leaf /\ Len(n.keys) >= MaxKeys /\ n.chs \in Seq(S) /\ j \in {1, 2} /\ r \in BOOLEAN
    /\ a = [Internal(t, SplitKeys(n.keys)[j], SplitChs(n.chs)[j]) EXCEPT !.ready = r]
    /\ u = Unbuilt(SplitKeys(n.keys)[j])
  BY DEF HalfOf
<1>1. PICK ks, cs : ks = SplitKeys(n.keys)[j] /\ cs = SplitChs(n.chs)[j]
  OBVIOUS
<1>2. IsSeq(n.keys) /\ Len(n.chs) >= MaxKeys + 1
  <2>1. IsSeq(n.keys) /\ Len(n.chs) = Len(n.keys) + 1
    BY ONLY IsNode(n), ~ n.leaf DEF IsNode
  <2>2. Len(n.keys) \in Nat
    BY ONLY <2>1, LengthIs
  <2>3. MaxKeys \in Nat
    BY ONLY NodeAssumption DEF MaxKeys
  <2>4. QED
    BY ONLY <2>1, <2>2, <2>3, Len(n.keys) >= MaxKeys
<1>3. IsSeq(ks) /\ Len(ks) = Half - 1
  BY ONLY <1>1, <1>2, Len(n.keys) >= MaxKeys, j \in {1, 2}, LongSplitKeys
<1>4. cs \in Seq(S) /\ Len(cs) = Half /\ \A k \in 1 .. Half : cs[k] = n.chs[(j - 1) * Half + k]
  <2>1. PICK x : x = n.chs
    OBVIOUS
  <2>2. x \in Seq(S) /\ Len(x) >= MaxKeys + 1 /\ j \in {1, 2} /\ cs = SplitChs(x)[j]
    BY ONLY <1>1, <1>2, <2>1, n.chs \in Seq(S), j \in {1, 2}
  <2>3. /\ SplitChs(x)[j] \in Seq(S) /\ Len(SplitChs(x)[j]) = Half
        /\ \A k \in 1 .. Half : /\ (j - 1) * Half + k \in 1 .. MaxKeys + 1
                                /\ SplitChs(x)[j][k] = x[(j - 1) * Half + k]
    BY ONLY <2>2, LongSplitChs
  <2>4. QED
    BY ONLY <2>1, <2>2, <2>3
<1>5. IsSeq(cs) /\ Len(cs) = Len(ks) + 1
  BY ONLY <1>3, <1>4, NodeAssumption DEF IsSeq
<1>6. PICK i : i = Internal(t, ks, cs)
  OBVIOUS
<1>7. IsNode(i) /\ i.ver = t /\ ~ i.leaf /\ i.chs = cs
  BY ONLY <1>3, <1>5, <1>6, InternalIs
<1>8. a = [i EXCEPT !.ready = r]
  BY <1>1, <1>6
<1>9. IsNode(a) /\ a.chs = cs /\ a.ver = t /\ ~ a.leaf
  <2>1. IsNode(a) /\ a.chs = i.chs /\ a.ver = i.ver /\ ~ a.leaf
    BY ONLY <1>7, <1>8, r \in BOOLEAN, ReadyIs
  <2>2. QED
    BY ONLY <1>7, <2>1
<1>10. u \in Seq({None})
  <2>1. u = Unbuilt(ks)
    BY <1>1
  <2>2. QED
    BY ONLY <1>3, <2>1, UnbuiltIs
<1>11. QED
  BY ONLY <1>2, <1>4, <1>9, <1>10

LEMMA ThreeIs ==
  ASSUME NEW h, NEW t, NEW P, NEW A, NEW B, NEW O, NEW a, NEW b, NEW o, NEW u, NEW v, NEW f, NEW h0,
         Ground(h, t, P), ThreeNodes(h, t, P, A, B, O, a, b, o, u, v, f, h0), ~ h[P].leaf,
         Len(h[P].keys) >= MaxKeys
  PROVE  ThreeAre(h, t, P, A, B, O, a, b, o, u, v, f, h0)
<1>1. /\ t \in Nat \ {0} /\ P \in DOMAIN h
      /\ \A n \in DOMAIN h : n[1] # t /\ IsNode(h[n]) /\ h[n].chs \in Seq(DOMAIN h)
  BY DEF Ground
<1>2. A = <<t, 1>> /\ B = <<t, 2>> /\ O = <<t, 3>>
  BY DEF ThreeNodes
<1>3. /\ A \notin DOMAIN h /\ B \notin DOMAIN h /\ O \notin DOMAIN h
      /\ A[1] = t /\ B[1] = t /\ O[1] = t /\ A # B /\ A # O /\ B # O
  BY ONLY <1>1, <1>2
<1>4. PICK n : n = h[P]
  OBVIOUS
<1>5. IsNode(n) /\ ~ n.leaf /\ Len(n.keys) >= MaxKeys /\ n.chs \in Seq(DOMAIN h)
  BY <1>1, <1>4
<1>6. PICK ra \in BOOLEAN, rb \in BOOLEAN :
        /\ a = [Internal(t, SplitKeys(n.keys)[1], SplitChs(n.chs)[1]) EXCEPT !.ready = ra]
        /\ b = [Internal(t, SplitKeys(n.keys)[2], SplitChs(n.chs)[2]) EXCEPT !.ready = rb]
  BY <1>4 DEF ThreeNodes
<1>7. u = Unbuilt(SplitKeys(n.keys)[1]) /\ v = Unbuilt(SplitKeys(n.keys)[2])
  BY <1>4 DEF ThreeNodes
<1>8. /\ IsNode(a) /\ a.ver = t /\ ~ a.leaf /\ a.chs \in Seq(DOMAIN h) /\ Len(a.chs) = Half /\ u \in Seq({None})
      /\ Len(n.chs) >= MaxKeys + 1 /\ \A k \in 1 .. Half : a.chs[k] = n.chs[(1 - 1) * Half + k]
  <2>1. HalfOf(t, n, DOMAIN h, 1, ra, a, u)
    BY ONLY <1>5, <1>6, <1>7 DEF HalfOf
  <2>2. IsHalf(t, n, DOMAIN h, 1, a, u)
    BY ONLY <2>1, HalfIs
  <2>3. QED
    BY ONLY <2>2 DEF IsHalf
<1>9. /\ IsNode(b) /\ b.ver = t /\ ~ b.leaf /\ b.chs \in Seq(DOMAIN h) /\ Len(b.chs) = Half /\ v \in Seq({None})
      /\ \A k \in 1 .. Half : b.chs[k] = n.chs[(2 - 1) * Half + k]
  <2>1. HalfOf(t, n, DOMAIN h, 2, rb, b, v)
    BY ONLY <1>5, <1>6, <1>7 DEF HalfOf
  <2>2. IsHalf(t, n, DOMAIN h, 2, b, v)
    BY ONLY <2>1, HalfIs
  <2>3. QED
    BY ONLY <2>2 DEF IsHalf
<1>10. \A k \in 1 .. Half : (1 - 1) * Half + k = k /\ (2 - 1) * Half + k = Half + k
  BY ONLY NodeAssumption
<1>11. \A k \in 1 .. Half : a.chs[k] = n.chs[k] /\ b.chs[k] = n.chs[Half + k]
  BY ONLY <1>8, <1>9, <1>10
<1>12. IsNode(o) /\ o.ver = t /\ o.chs = <<A, B>>
  <2>0. PICK key : key = n.keys[Half]
    OBVIOUS
  <2>a. PICK ks, cs : ks = <<key>> /\ cs = <<A, B>>
    OBVIOUS
  <2>1. PICK i : key = n.keys[Half] /\ ks = <<key>> /\ cs = <<A, B>> /\ i = Internal(t, ks, cs)
    BY <2>0, <2>a
  <2>2. ks \in Seq({key}) /\ cs \in Seq({A, B}) /\ Len(ks) = 1 /\ Len(cs) = 2
    BY ONLY <2>1
  <2>3. IsNode(i) /\ i.ver = t /\ ~ i.leaf /\ i.chs = cs
    <3>1. IsSeq(ks) /\ IsSeq(cs) /\ Len(cs) = Len(ks) + 1
      BY ONLY <2>2 DEF IsSeq
    <3>2. i = Internal(t, ks, cs)
      BY <2>1
    <3>3. QED
      BY ONLY <3>1, <3>2, InternalIs
  <2>4. o = [i EXCEPT !.ready = TRUE]
    BY <1>4, <2>1 DEF ThreeNodes
  <2>5. TRUE \in BOOLEAN
    OBVIOUS
  <2>6. IsNode(o) /\ o.chs = i.chs /\ o.ver = i.ver /\ ~ o.leaf
    BY ONLY <2>3, <2>4, <2>5, ReadyIs
  <2>7. QED
    BY ONLY <2>1, <2>3, <2>6
<1>13. /\ DOMAIN f = DOMAIN h \cup {A, B, O} /\ f[A] = a /\ f[B] = b /\ f[O] = o /\ \A m \in DOMAIN h : f[m] = h[m]
  <2>1. f = Over(h, [m \in {A, B, O} |-> IF m = O THEN o ELSE IF m = A THEN a ELSE b])
    BY DEF ThreeNodes
  <2>2. QED
    BY ONLY <1>3, <2>1 DEF Over
<1>14. /\ DOMAIN h0 = DOMAIN h \cup {A, B, O} /\ h0[A].chs = u /\ h0[B].chs = v /\ h0[O].chs = o.chs
       /\ \A m \in DOMAIN h : h0[m] = h[m]
  <2>1. h0 = [m \in DOMAIN h \cup {A, B, O} |->
             IF m = O THEN o ELSE IF m = A THEN [a EXCEPT !.chs = u]
             ELSE IF m = B THEN [b EXCEPT !.chs = v] ELSE h[m]]
    BY DEF ThreeNodes
  <2>2. /\ DOMAIN h0 = DOMAIN h \cup {A, B, O} /\ h0[A] = [a EXCEPT !.chs = u] /\ h0[B] = [b EXCEPT !.chs = v]
        /\ h0[O] = o /\ \A m \in DOMAIN h : h0[m] = h[m]
    BY ONLY <1>3, <2>1
  <2>3. "chs" \in DOMAIN a /\ "chs" \in DOMAIN b
    BY ONLY <1>8, <1>9 DEF IsNode
  <2>4. h0[A].chs = u /\ h0[B].chs = v
    BY ONLY <2>2, <2>3
  <2>5. QED
    BY ONLY <2>2, <2>4
<1>15. QED
  BY ONLY <1>3, <1>4, <1>5, <1>8, <1>9, <1>11, <1>12, <1>13, <1>14 DEF ThreeAre

Offsets(A, B) == [z \in {A, B} |-> IF z = A THEN 0 ELSE Half]
ThreeGrown(h, t, P, A, B, O, f, h0) ==
  /\ Grown(Kids(h), Kids(h0), {A, B, O}, {A, B}, t)
  /\ \A p, i : p \in {A, B, O} \ {A, B} /\ Edge(Kids(h0), p, i) => Kids(h0)[p][i] \in {A, B}
  /\ Filled(Kids(h0), Kids(f), P, {A, B}, Offsets(A, B), t)
  /\ DOMAIN f = DOMAIN h \cup {A, B, O} /\ (\A n \in DOMAIN h : f[n] = h[n]) /\ Built(f)
  /\ ~ f[A].leaf /\ ~ f[B].leaf /\ \A p, i : Edge(Kids(f), p, i) => Kids(f)[p][i] # O
  /\ Edge(Kids(h), P, 1)
Halved(h, t, P, A, B, O, f) ==
  /\ P \in DOMAIN h /\ A \notin DOMAIN h /\ B \notin DOMAIN h /\ O \notin DOMAIN h /\ A[1] = t /\ B[1] = t /\ O[1] = t
  /\ DOMAIN f = DOMAIN h \cup {A, B, O} /\ \A n \in DOMAIN h : f[n] = h[n]
  /\ f[O].chs = <<A, B>> /\ h[P].chs \in Seq(DOMAIN h) /\ Len(h[P].chs) >= MaxKeys + 1
  /\ f[A].chs \in Seq(DOMAIN h) /\ Len(f[A].chs) = Half /\ f[B].chs \in Seq(DOMAIN h) /\ Len(f[B].chs) = Half
  /\ \A k \in 1 .. Half : f[A].chs[k] = h[P].chs[k] /\ f[B].chs[k] = h[P].chs[Half + k]

LEMMA ThreeAreGrown ==
  ASSUME NEW h, NEW t, NEW P, NEW A, NEW B, NEW O, NEW a, NEW b, NEW o, NEW u, NEW v, NEW f, NEW h0,
         Ground(h, t, P), ThreeAre(h, t, P, A, B, O, a, b, o, u, v, f, h0)
  PROVE  ThreeGrown(h, t, P, A, B, O, f, h0)
<1>1. /\ t \in Nat \ {0} /\ P \in DOMAIN h /\ P[1] < t /\ None \in DOMAIN h
      /\ \A n \in DOMAIN h : /\ n[1] # t /\ IsNode(h[n]) /\ h[n].chs \in Seq(DOMAIN h) /\ h[n].ver = n[1]
  BY DEF Ground
<1>2. /\ A \notin DOMAIN h /\ B \notin DOMAIN h /\ O \notin DOMAIN h
      /\ A[1] = t /\ B[1] = t /\ O[1] = t /\ A # B /\ A # O /\ B # O
      /\ DOMAIN f = DOMAIN h \cup {A, B, O} /\ f[A] = a /\ f[B] = b /\ f[O] = o /\ \A n \in DOMAIN h : f[n] = h[n]
      /\ IsNode(a) /\ a.ver = t /\ ~ a.leaf /\ IsNode(b) /\ b.ver = t /\ ~ b.leaf /\ IsNode(o) /\ o.ver = t
      /\ a.chs \in Seq(DOMAIN h) /\ Len(a.chs) = Half /\ b.chs \in Seq(DOMAIN h) /\ Len(b.chs) = Half
      /\ h[P].chs \in Seq(DOMAIN h) /\ Len(h[P].chs) >= MaxKeys + 1
      /\ \A k \in 1 .. Half : a.chs[k] = h[P].chs[k] /\ b.chs[k] = h[P].chs[Half + k]
      /\ o.chs = <<A, B>>
      /\ DOMAIN h0 = DOMAIN h \cup {A, B, O} /\ h0[A].chs = u /\ h0[B].chs = v /\ h0[O].chs = o.chs
      /\ \A n \in DOMAIN h : h0[n] = h[n]
      /\ u \in Seq({None}) /\ v \in Seq({None})
  BY DEF ThreeAre
<1>3. PICK ac, bc, oc, pc : ac = a.chs /\ bc = b.chs /\ oc = o.chs /\ pc = h[P].chs
  OBVIOUS
<1>4. PICK C, C0, D : C = Kids(h) /\ C0 = Kids(h0) /\ D = Kids(f)
  OBVIOUS
<1>5. /\ DOMAIN C = DOMAIN h /\ DOMAIN C0 = DOMAIN h \cup {A, B, O} /\ DOMAIN D = DOMAIN h \cup {A, B, O}
      /\ (\A n \in DOMAIN h : C[n] = h[n].chs /\ C0[n] = h[n].chs /\ D[n] = h[n].chs)
      /\ D[A] = ac /\ D[B] = bc /\ D[O] = oc /\ C0[A] = u /\ C0[B] = v /\ C0[O] = oc
  BY ONLY <1>2, <1>3, <1>4 DEF Kids
<1>6. /\ ac \in Seq(DOMAIN h) /\ DOMAIN ac = 1 .. Half /\ bc \in Seq(DOMAIN h) /\ DOMAIN bc = 1 .. Half
      /\ pc \in Seq(DOMAIN h) /\ (\A k \in 1 .. MaxKeys + 1 : k \in DOMAIN pc)
      /\ \A k \in 1 .. Half : ac[k] = pc[k] /\ bc[k] = pc[Half + k]
  <2>1. /\ ac \in Seq(DOMAIN h) /\ Len(ac) = Half /\ bc \in Seq(DOMAIN h) /\ Len(bc) = Half
        /\ pc \in Seq(DOMAIN h) /\ Len(pc) >= MaxKeys + 1
    BY ONLY <1>2, <1>3
  <2>2. DOMAIN ac = 1 .. Half /\ DOMAIN bc = 1 .. Half /\ (\A k \in 1 .. MaxKeys + 1 : k \in DOMAIN pc)
    <3>1. DOMAIN ac = 1 .. Half /\ DOMAIN bc = 1 .. Half
      BY ONLY <2>1
    <3>2. Len(pc) \in Nat /\ MaxKeys \in Nat /\ DOMAIN pc = 1 .. Len(pc)
      BY ONLY <2>1, NodeAssumption DEF MaxKeys
    <3>3. \A k \in 1 .. MaxKeys + 1 : k \in DOMAIN pc
      BY ONLY <2>1, <3>2
    <3>4. QED
      BY ONLY <3>1, <3>3
  <2>3. \A k \in 1 .. Half : ac[k] = pc[k] /\ bc[k] = pc[Half + k]
    BY ONLY <1>2, <1>3
  <2>4. QED
    BY ONLY <2>1, <2>2, <2>3
<1>7. oc = <<A, B>> /\ oc \in Seq({A, B}) /\ DOMAIN oc = {1, 2} /\ oc[1] = A /\ oc[2] = B
  <2>1. oc = <<A, B>>
    BY ONLY <1>2, <1>3
  <2>2. QED
    BY ONLY <2>1
<1>8. A # None /\ B # None
  BY ONLY <1>1, <1>2
<1>9. \A i : Edge(C0, A, i) => C0[A][i] = None
  BY ONLY <1>2, <1>5 DEF Edge
<1>10. \A i : Edge(C0, B, i) => C0[B][i] = None
  BY ONLY <1>2, <1>5 DEF Edge
<1>11. \A i : Edge(C0, O, i) => (i = 1 /\ C0[O][i] = A) \/ (i = 2 /\ C0[O][i] = B)
  BY ONLY <1>5, <1>7 DEF Edge
<1>12. Grown(C, C0, {A, B, O}, {A, B}, t)
  <2>1. C0[A] \in Seq({A, B, O} \cup {None}) /\ C0[B] \in Seq({A, B, O} \cup {None}) /\ C0[O] \in Seq({A, B, O} \cup {None})
    BY ONLY <1>2, <1>5, <1>7
  <2>2. \A n \in {A, B, O} : n[1] = t /\ C0[n] \in Seq({A, B, O} \cup {None})
    BY ONLY <1>2, <2>1
  <2>3. \A n, i : n \in {A, B, O} /\ Edge(C0, n, i) => (C0[n][i] = None <=> n \in {A, B})
    BY ONLY <1>2, <1>8, <1>9, <1>10, <1>11
  <2>4. \A n, m, i, j : n \in {A, B, O} /\ m \in {A, B, O} /\ Edge(C0, n, i) /\ Edge(C0, m, j) /\ C0[n][i] = C0[m][j]
           /\ C0[n][i] # None => n = m /\ i = j
    <3>1. \A n, i : n \in {A, B, O} /\ Edge(C0, n, i) /\ C0[n][i] # None => n = O
      BY ONLY <1>9, <1>10
    <3>2. \A i, j : Edge(C0, O, i) /\ Edge(C0, O, j) /\ C0[O][i] = C0[O][j] => i = j
      <4>1. A # B
        BY ONLY <1>2
      <4>2. QED
        BY ONLY <1>11, <4>1
    <3>3. QED
      BY ONLY <3>1, <3>2
  <2>5. /\ DOMAIN C0 = DOMAIN C \cup {A, B, O} /\ {A, B, O} \cap DOMAIN C = {} /\ {A, B} \subseteq {A, B, O} /\ t \in Nat
        /\ \A p \in DOMAIN C : C0[p] = C[p]
    <3>1. A \notin DOMAIN C /\ B \notin DOMAIN C /\ O \notin DOMAIN C
      BY ONLY <1>2, <1>5
    <3>2. \A p \in DOMAIN C : C0[p] = C[p]
      BY ONLY <1>5
    <3>3. QED
      BY ONLY <1>1, <1>5, <3>1, <3>2
  <2>6. QED
    BY ONLY <2>2, <2>3, <2>4, <2>5 DEF Grown
<1>13. \A p, i : p \in {A, B, O} \ {A, B} /\ Edge(C0, p, i) => C0[p][i] \in {A, B}
  BY ONLY <1>11
<1>14. Filled(C0, D, P, {A, B}, Offsets(A, B), t)
  <2>1. C0[P] = pc
    BY ONLY <1>1, <1>3, <1>5
  <2>2. \A i : Edge(D, A, i) => i \in 1 .. Half /\ i \in DOMAIN C0[P] /\ D[A][i] = C0[P][i]
    <3>1. \A i \in 1 .. Half : i \in 1 .. MaxKeys + 1
      BY ONLY NodeAssumption DEF MaxKeys
    <3>2. QED
      BY ONLY <1>5, <1>6, <2>1, <3>1 DEF Edge
  <2>3. \A i : Edge(D, B, i) => i \in 1 .. Half /\ Half + i \in DOMAIN C0[P] /\ D[B][i] = C0[P][Half + i]
    <3>1. \A i \in 1 .. Half : Half + i \in 1 .. MaxKeys + 1
      BY ONLY NodeAssumption DEF MaxKeys
    <3>2. QED
      BY ONLY <1>5, <1>6, <2>1, <3>1 DEF Edge
  <2>4. \A p \in {A, B} : p[1] = t /\ D[p] \in Seq(DOMAIN C0)
    <3>1. ac \in Seq(DOMAIN C0) /\ bc \in Seq(DOMAIN C0)
      BY ONLY <1>5, <1>6
    <3>2. QED
      BY ONLY <1>2, <1>5, <3>1
  <2>5. /\ DOMAIN D = DOMAIN C0 /\ {A, B} \subseteq DOMAIN C0 /\ P \in DOMAIN C0
        /\ P \notin {A, B} /\ t \in Nat /\ \A p \in DOMAIN C0 \ {A, B} : D[p] = C0[p]
    BY ONLY <1>1, <1>2, <1>5
  <2>6. A # B
    BY ONLY <1>2
  <2>7. QED
    BY ONLY <2>2, <2>3, <2>4, <2>5, <2>6, FilledHalves DEF Offsets
<1>15. Built(f)
  <2>1. a.chs \in Seq(DOMAIN f) /\ b.chs \in Seq(DOMAIN f)
    BY ONLY <1>2
  <2>2. o.chs \in Seq(DOMAIN f)
    BY ONLY <1>2, <1>3, <1>7
  <2>3. ASSUME NEW n \in DOMAIN h PROVE h[n].chs \in Seq(DOMAIN f)
    BY ONLY <1>1, <1>2, <2>3
  <2>4. QED
    BY ONLY <1>1, <1>2, <2>1, <2>2, <2>3 DEF Built
<1>16. ASSUME NEW p, NEW i, Edge(D, p, i) PROVE D[p][i] # O
  <2>1. CASE p = O
    BY ONLY <1>2, <1>5, <1>7, <1>16, <2>1 DEF Edge
  <2>2. CASE p # O
    <3>1. D[p] \in Seq(DOMAIN h) /\ i \in DOMAIN D[p]
      BY ONLY <1>1, <1>5, <1>6, <1>16, <2>2 DEF Edge
    <3>2. D[p][i] \in DOMAIN h
      BY ONLY <3>1
    <3>3. QED
      BY ONLY <1>2, <3>2
  <2>3. QED
    BY ONLY <2>1, <2>2
<1>17. Edge(C, P, 1)
  <2>1. 1 \in DOMAIN pc
    <3>1. 1 \in 1 .. MaxKeys + 1
      BY ONLY NodeAssumption DEF MaxKeys
    <3>2. QED
      BY ONLY <1>6, <3>1
  <2>2. QED
    BY ONLY <1>1, <1>3, <1>5, <2>1 DEF Edge
<1>18. QED
  BY ONLY <1>2, <1>4, <1>12, <1>13, <1>14, <1>15, <1>16, <1>17 DEF ThreeGrown

LEMMA ThreeHalved ==
  ASSUME NEW h, NEW t, NEW P, NEW A, NEW B, NEW O, NEW a, NEW b, NEW o, NEW u, NEW v, NEW f, NEW h0,
         Ground(h, t, P), ThreeAre(h, t, P, A, B, O, a, b, o, u, v, f, h0)
  PROVE  Halved(h, t, P, A, B, O, f)
<1>1. P \in DOMAIN h
  BY DEF Ground
<1>2. /\ A \notin DOMAIN h /\ B \notin DOMAIN h /\ O \notin DOMAIN h
      /\ A[1] = t /\ B[1] = t /\ O[1] = t
      /\ DOMAIN f = DOMAIN h \cup {A, B, O} /\ f[A] = a /\ f[B] = b /\ f[O] = o /\ \A n \in DOMAIN h : f[n] = h[n]
      /\ a.chs \in Seq(DOMAIN h) /\ Len(a.chs) = Half /\ b.chs \in Seq(DOMAIN h) /\ Len(b.chs) = Half
      /\ h[P].chs \in Seq(DOMAIN h) /\ Len(h[P].chs) >= MaxKeys + 1
      /\ \A k \in 1 .. Half : a.chs[k] = h[P].chs[k] /\ b.chs[k] = h[P].chs[Half + k]
      /\ o.chs = <<A, B>>
  BY DEF ThreeAre
<1>3. QED
  BY ONLY <1>1, <1>2 DEF Halved

LEMMA HalvedParts ==
  ASSUME NEW h, NEW t, NEW P, NEW A, NEW B, NEW O, NEW f, Halved(h, t, P, A, B, O, f), NEW e,
         e.root = O, e.cur \in {A, B}, e.retired = <<P>>
  PROVE  RootParts(h, t, P, f, e, {A, B, O}, {A, B})
<1>1. /\ P \in DOMAIN h /\ A \notin DOMAIN h /\ B \notin DOMAIN h /\ O \notin DOMAIN h
      /\ A[1] = t /\ B[1] = t /\ O[1] = t
      /\ DOMAIN f = DOMAIN h \cup {A, B, O} /\ (\A n \in DOMAIN h : f[n] = h[n])
      /\ f[O].chs = <<A, B>> /\ h[P].chs \in Seq(DOMAIN h) /\ Len(h[P].chs) >= MaxKeys + 1
      /\ f[A].chs \in Seq(DOMAIN h) /\ Len(f[A].chs) = Half /\ f[B].chs \in Seq(DOMAIN h) /\ Len(f[B].chs) = Half
      /\ \A k \in 1 .. Half : f[A].chs[k] = h[P].chs[k] /\ f[B].chs[k] = h[P].chs[Half + k]
  BY DEF Halved
<1>2. Half \in Nat /\ Half >= 2 /\ MaxKeys \in Nat /\ MaxKeys + 1 = Half + Half /\ Half <= MaxKeys /\ 2 <= MaxKeys
  BY ONLY NodeAssumption DEF MaxKeys
<1>3. PICK a, b, o, p : a = f[A].chs /\ b = f[B].chs /\ o = f[O].chs /\ p = h[P].chs
  OBVIOUS
<1>4. DOMAIN a = 1 .. Half /\ DOMAIN b = 1 .. Half /\ DOMAIN p = 1 .. Len(p) /\ Len(p) \in Nat /\ Len(p) >= MaxKeys + 1
  BY ONLY <1>1, <1>2, <1>3
<1>5. /\ \A k \in 1 .. Half : a[k] = p[k] /\ b[k] = p[Half + k] /\ k \in DOMAIN p /\ Half + k \in DOMAIN p
  BY ONLY <1>1, <1>2, <1>3, <1>4
<1>6. o = <<A, B>> /\ Len(o) = 2 /\ DOMAIN o = {1, 2} /\ o[1] = A /\ o[2] = B
  <2>1. o = <<A, B>>
    BY ONLY <1>1, <1>3
  <2>2. QED
    BY ONLY <2>1
<1>7. /\ DOMAIN Kids(f) = DOMAIN h \cup {A, B, O} /\ DOMAIN Kids(h) = DOMAIN h
      /\ Kids(f)[A] = a /\ Kids(f)[B] = b /\ Kids(f)[O] = o /\ Kids(h)[P] = p
  BY ONLY <1>1, <1>3 DEF Kids
<1>8. \A n \in {A, B, O} : n[1] = t /\ Len(f[n].chs) \in Nat /\ Len(f[n].chs) <= MaxKeys
  <2>1. Len(f[A].chs) = Half /\ Len(f[B].chs) = Half /\ Len(f[O].chs) = 2
    BY ONLY <1>1, <1>3, <1>6
  <2>2. ASSUME NEW n \in {A, B, O} PROVE Len(f[n].chs) \in {Half, 2}
    BY ONLY <2>1, <2>2
  <2>3. ASSUME NEW n \in {A, B, O} PROVE Len(f[n].chs) \in Nat /\ Len(f[n].chs) <= MaxKeys
    <3>1. PICK l : l = Len(f[n].chs)
      OBVIOUS
    <3>2. l = Half \/ l = 2
      BY ONLY <2>2, <2>3, <3>1
    <3>3. l \in Nat /\ l <= MaxKeys
      BY ONLY <1>2, <3>2
    <3>4. QED
      BY ONLY <3>1, <3>3
  <2>4. \A n \in {A, B, O} : n[1] = t
    BY ONLY <1>1
  <2>5. QED
    BY ONLY <2>3, <2>4
<1>9. \A z \in {A, B} : \E j : Edge(Kids(f), O, j) /\ Kids(f)[O][j] = z
  <2>1. Edge(Kids(f), O, 1) /\ Kids(f)[O][1] = A
    BY ONLY <1>6, <1>7 DEF Edge
  <2>2. Edge(Kids(f), O, 2) /\ Kids(f)[O][2] = B
    BY ONLY <1>6, <1>7 DEF Edge
  <2>3. QED
    BY ONLY <2>1, <2>2
<1>10. ASSUME NEW z \in {A, B}, NEW i, Edge(Kids(f), z, i)
       PROVE  \E j : Edge(Kids(h), P, j) /\ Kids(f)[z][i] = Kids(h)[P][j]
  <2>1. CASE z = A
    <3>1. i \in 1 .. Half
      BY ONLY <1>4, <1>7, <1>10, <2>1 DEF Edge
    <3>2. Edge(Kids(h), P, i) /\ Kids(f)[z][i] = Kids(h)[P][i]
      BY ONLY <1>1, <1>5, <1>7, <2>1, <3>1 DEF Edge
    <3>3. QED
      BY ONLY <3>2
  <2>2. CASE z = B
    <3>1. i \in 1 .. Half
      BY ONLY <1>4, <1>7, <1>10, <2>2 DEF Edge
    <3>2. Edge(Kids(h), P, Half + i) /\ Kids(f)[z][i] = Kids(h)[P][Half + i]
      BY ONLY <1>1, <1>5, <1>7, <2>2, <3>1 DEF Edge
    <3>3. QED
      BY ONLY <3>2
  <2>3. QED
    BY ONLY <1>10, <2>1, <2>2
<1>11. ASSUME Len(p) <= MaxKeys + 1, NEW i, Edge(Kids(h), P, i)
       PROVE  \E z, j : z \in {A, B} /\ Edge(Kids(f), z, j) /\ Kids(f)[z][j] = Kids(h)[P][i]
  <2>1. i \in 1 .. MaxKeys + 1 /\ Kids(h)[P][i] = p[i]
    BY ONLY <1>2, <1>4, <1>7, <1>11 DEF Edge
  <2>2. CASE i <= Half
    <3>1. i \in 1 .. Half
      BY ONLY <1>2, <2>1, <2>2
    <3>2. Edge(Kids(f), A, i) /\ Kids(f)[A][i] = p[i]
      BY ONLY <1>4, <1>5, <1>7, <3>1 DEF Edge
    <3>3. QED
      BY ONLY <2>1, <3>2
  <2>3. CASE i > Half
    <3>1. i - Half \in 1 .. Half /\ Half + (i - Half) = i
      BY ONLY <1>2, <2>1, <2>3
    <3>2. PICK j : j = i - Half
      OBVIOUS
    <3>3. j \in 1 .. Half /\ Half + j = i
      BY ONLY <3>1, <3>2
    <3>4. Edge(Kids(f), B, j) /\ Kids(f)[B][j] = p[i]
      BY ONLY <1>4, <1>5, <1>7, <3>3 DEF Edge
    <3>5. QED
      BY ONLY <2>1, <3>4
  <2>4. QED
    BY ONLY <1>2, <2>1, <2>2, <2>3
<1>12. QED
  <2>1. {A, B, O} \cap DOMAIN h = {} /\ {A, B} \subseteq {A, B, O} /\ O \in {A, B, O}
    BY ONLY <1>1
  <2>2. Len(h[P].chs) <= MaxKeys + 1 =>
          \A i : Edge(Kids(h), P, i) => \E z, j : z \in {A, B} /\ Edge(Kids(f), z, j) /\ Kids(f)[z][j] = Kids(h)[P][i]
    BY ONLY <1>3, <1>11
  <2>3. QED
    BY ONLY <1>1, <1>8, <1>9, <1>10, <2>1, <2>2, e.root = O, e.cur \in {A, B}, e.retired = <<P>> DEF RootParts

LEMMA FullRoot ==
  ASSUME NEW h, NEW cx, NEW c, NEW t, NEW P, NEW fr, NEW np, Enter(h, cx, c, t, P, fr, np),
         ~ h[P].leaf, ~ (Len(h[P].keys) < MaxKeys)
  PROVE  Goes(h, cx, c, t, fr, np)
<1>1. /\ Roots(h, cx, t, P, fr, np) /\ IsContext(c) /\ c.sno = t /\ c.past = P /\ c.retired = <<>> /\ c.made = 0
      /\ \A i : Edge(Kids(h), P, i) => Kids(h)[P][i] \notin Open(h, cx)
  BY DEF Enter
<1>2. PICK A, B, O : A = <<t, 1>> /\ B = <<t, 2>> /\ O = <<t, 3>>
  OBVIOUS
<1>3. New(c, 1) = A /\ New(c, 2) = B /\ New(c, 3) = O /\ A # B /\ A # O /\ B # O /\ A[2] = 1 /\ B[2] = 2 /\ O[2] = 3
  <2>1. c.made + 1 = 1 /\ c.made + 2 = 2 /\ c.made + 3 = 3
    BY ONLY <1>1
  <2>2. QED
    BY ONLY <1>1, <1>2, <2>1 DEF New
<1>4. PICK sel \in {1, 2} : sel = IF c.key < h[P].keys[Half] THEN 1 ELSE 2
  OBVIOUS
<1>5. PICK ks, cs : ks = SplitKeys(h[P].keys) /\ cs = SplitChs(h[P].chs)
  OBVIOUS
<1>6. PICK a, b : a = [Internal(t, ks[1], cs[1]) EXCEPT !.ready = (1 # sel)] /\ b = [Internal(t, ks[2], cs[2]) EXCEPT !.ready = (2 # sel)]
  OBVIOUS
<1>7. PICK o : o = [Internal(t, <<h[P].keys[Half]>>, <<A, B>>) EXCEPT !.ready = TRUE]
  OBVIOUS
<1>8. PICK u, v : u = Unbuilt(SplitKeys(h[P].keys)[1]) /\ v = Unbuilt(SplitKeys(h[P].keys)[2])
  OBVIOUS
<1>9. PICK f : f = Over(h, [n \in {A, B, O} |-> IF n = O THEN o ELSE IF n = A THEN a ELSE b])
  OBVIOUS
<1>10. PICK h0 : h0 = [n \in DOMAIN h \cup {A, B, O} |->
             IF n = O THEN o ELSE IF n = A THEN [a EXCEPT !.chs = u]
             ELSE IF n = B THEN [b EXCEPT !.chs = v] ELSE h[n]]
  OBVIOUS
<1>11. ThreeNodes(h, t, P, A, B, O, a, b, o, u, v, f, h0)
  BY ONLY <1>2, <1>5, <1>6, <1>7, <1>8, <1>9, <1>10 DEF ThreeNodes
<1>12. ThreeGrown(h, t, P, A, B, O, f, h0) /\ Halved(h, t, P, A, B, O, f)
  <2>1. Ground(h, t, P)
    BY <1>1, GroundIs
  <2>2. ThreeAre(h, t, P, A, B, O, a, b, o, u, v, f, h0)
    <3>1. P \in DOMAIN h /\ IsNode(h[P])
      BY <2>1 DEF Ground
    <3>2. IsSeq(h[P].keys)
      BY <3>1 DEF IsNode
    <3>3. Len(h[P].keys) \in Nat /\ MaxKeys \in Nat
      BY <3>2, LengthIs, NodeAssumption DEF MaxKeys
    <3>4. Len(h[P].keys) >= MaxKeys
      BY ONLY <3>3, ~ (Len(h[P].keys) < MaxKeys)
    <3>5. QED
      BY <1>11, <2>1, <3>4, ThreeIs
  <2>3. QED
    BY <2>1, <2>2, ThreeAreGrown, ThreeHalved
<1>13. PICK y \in {A, B} : y = New(c, sel)
  BY <1>3
<1>14. PICK e : NewRoot(c, P, 3, O, y, e)
  BY DEF NewRoot
<1>15. SameTicket(c, e) /\ e.root = O /\ e.cur = y /\ e.made = 3 /\ e.retired = <<P>>
  <2>1. IsNewRoot(c, P, 3, O, y, e)
    BY ONLY <1>1, <1>14, RootRetired
  <2>2. QED
    BY ONLY <2>1 DEF IsNewRoot
<1>16. HandleInit(h, c) = UpdateCow(f, e)
  <2>1. PICK new : new = [n \in {A, B, O} |-> IF n = O THEN o
                                   ELSE [Internal(c.sno, ks[n[2]], cs[n[2]]) EXCEPT !.ready = n[2] # sel]]
    OBVIOUS
  <2>2. new = [n \in {A, B, O} |-> IF n = O THEN o ELSE IF n = A THEN a ELSE b]
    <3>1. ASSUME NEW n \in {A, B, O}
          PROVE  (IF n = O THEN o ELSE [Internal(c.sno, ks[n[2]], cs[n[2]]) EXCEPT !.ready = n[2] # sel])
                 = (IF n = O THEN o ELSE IF n = A THEN a ELSE b)
      <4>1. CASE n = O
        BY ONLY <4>1
      <4>2. CASE n = A
        <5>1. n # O /\ n[2] = 1 /\ c.sno = t
          BY ONLY <1>1, <1>3, <4>2
        <5>2. [Internal(c.sno, ks[n[2]], cs[n[2]]) EXCEPT !.ready = n[2] # sel] = a
          BY ONLY <1>6, <5>1
        <5>3. QED
          BY ONLY <4>2, <5>1, <5>2
      <4>3. CASE n = B
        <5>1. n # O /\ n # A /\ n[2] = 2 /\ c.sno = t
          BY ONLY <1>1, <1>3, <4>3
        <5>2. [Internal(c.sno, ks[n[2]], cs[n[2]]) EXCEPT !.ready = n[2] # sel] = b
          BY ONLY <1>6, <5>1
        <5>3. QED
          BY ONLY <5>1, <5>2
      <4>4. QED
        BY ONLY <4>1, <4>2, <4>3
    <3>2. QED
      BY ONLY <2>1, <3>1, Zenon
  <2>3. f = Over(h, new)
    BY ONLY <1>9, <2>2
  <2>4. ~ (Len(h[P].keys) < MaxKeys)
    OBVIOUS
  <2>5. e = [Retire(c, P) EXCEPT !.made = 3, !.root = O, !.cur = y]
    BY ONLY <1>14 DEF NewRoot
  <2>6. new = [n \in {New(c, 1), New(c, 2), New(c, 3)} |-> IF n = New(c, 3) THEN o
                   ELSE [Internal(c.sno, ks[n[2]], cs[n[2]]) EXCEPT !.ready = n[2] # sel]]
    BY ONLY <1>3, <2>1
  <2>7. o = [Internal(c.sno, <<h[c.past].keys[Half]>>, <<New(c, 1), New(c, 2)>>) EXCEPT !.ready = TRUE]
    BY ONLY <1>1, <1>3, <1>7
  <2>8. e = [Retire(c, c.past) EXCEPT !.made = 3, !.root = New(c, 3), !.cur = New(c, sel)]
    BY ONLY <1>1, <1>3, <1>13, <2>5
  <2>9. /\ ~ h[c.past].leaf /\ ~ (Len(h[c.past].keys) < MaxKeys) /\ ks = SplitKeys(h[c.past].keys)
        /\ cs = SplitChs(h[c.past].chs) /\ sel = IF c.key < h[c.past].keys[Half] THEN 1 ELSE 2
    BY ONLY <1>1, <1>4, <1>5, <2>4, ~ h[P].leaf
  <2>10. QED
    BY ONLY <2>3, <2>6, <2>7, <2>8, <2>9, Zenon DEF HandleInit
<1>17. Enters(h, cx, h0, f, t, e, {A, B, O}, {A, B}, Offsets(A, B), P, fr, np)
  <2>1. \A n \in {A, B, O} : n[2] \in Nat /\ n[2] <= 3
    BY ONLY <1>3
  <2>2. IsContext(e) /\ e.sno = t
    BY ONLY <1>1, <1>15 DEF SameTicket
  <2>3. /\ Grown(Kids(h), Kids(h0), {A, B, O}, {A, B}, t)
        /\ \A p, i : p \in {A, B, O} \ {A, B} /\ Edge(Kids(h0), p, i) => Kids(h0)[p][i] \in {A, B}
        /\ Filled(Kids(h0), Kids(f), P, {A, B}, Offsets(A, B), t)
        /\ DOMAIN f = DOMAIN h \cup {A, B, O} /\ (\A n \in DOMAIN h : f[n] = h[n]) /\ Built(f)
        /\ ~ f[A].leaf /\ ~ f[B].leaf /\ \A p, i : Edge(Kids(f), p, i) => Kids(f)[p][i] # O
        /\ Edge(Kids(h), P, 1)
    BY ONLY <1>12 DEF ThreeGrown
  <2>4. 3 \in Nat /\ O \in {A, B, O} /\ y \in {A, B} /\ ~ f[y].leaf
    BY <2>3
  <2>5. QED
    BY ONLY <1>1, <1>15, <2>1, <2>2, <2>3, <2>4 DEF Enters
<1>18. Starts(h, cx, f, t, e, {}, {A, B, O}, fr, np, 1)
  BY ONLY <1>17, EnterStarts
<1>19. RootCopied(h, t, P, f, e, {A, B, O})
  <2>1. RootParts(h, t, P, f, e, {A, B, O}, {A, B})
    BY ONLY <1>12, <1>13, <1>15, HalvedParts
  <2>2. ~ f[A].leaf /\ ~ f[B].leaf /\ IsNode(f[O]) /\ f[O].chs = <<A, B>>
    BY ONLY <1>12 DEF ThreeGrown, Halved, Built
  <2>3. ~ f[O].leaf
    BY ONLY <2>2 DEF IsNode
  <2>4. QED
    BY ONLY <2>1, <2>2, <2>3 DEF RootCopied
<1>20. QED
  BY ONLY <1>1, <1>15, <1>16, <1>18, <1>19 DEF Goes

\* The entry of ticket t replaces the root P, a leaf: nodes F, of which o is the new root.
LeafGrown(h, t, P, F, o, g) ==
  /\ Grown(Kids(h), Kids(g), F, {}, t) /\ o \in F
  /\ \A p, i : p \in F /\ Edge(Kids(g), p, i) => p = o /\ Kids(g)[p][i] \in F
  /\ \A p, i : Edge(Kids(g), p, i) => Kids(g)[p][i] # o
  /\ DOMAIN g = DOMAIN h \cup F /\ (\A n \in DOMAIN h : g[n] = h[n]) /\ Built(g)
  /\ \A n \in F : n[2] \in Nat /\ n[2] <= 3 /\ Len(g[n].chs) \in {0, 2}
  /\ h[P].leaf
LeafContext(g, t, P, o, d) ==
  /\ IsContext(d) /\ d.sno = t /\ d.made = 3 /\ d.retired = <<P>> /\ d.root = o /\ d.past = P
  /\ d.op \in {"done", "materialize"} /\ ShapeMaterialize(g, t, d)

\* The entry is over: cx1 is cx with d for ticket t, heap g is h with nodes F.
LeafEnters(h, cx, t, P, fr, np, F, o, g, d, cx1) ==
  /\ Roots(h, cx, t, P, fr, np) /\ LeafGrown(h, t, P, F, o, g) /\ LeafContext(g, t, P, o, d)
  /\ Becomes(cx, cx1, t, d) /\ IsSeq(cx1)

LeafResult(h, cx, t, P, F, g, cx1) ==
  /\ Shapes(g, cx1) /\ Open(g, cx1) = Open(h, cx) /\ Settled(g, cx1)
  /\ Adds(Retired(cx), Retired(cx1), t, {P}) /\ Adds(Copied(cx), Copied(cx1), t, {P})
  /\ \A u \in DOMAIN cx : Opened(g, cx[u]) = Opened(h, cx[u])

LEMMA LeafShapes ==
  ASSUME NEW h, NEW cx, NEW t, NEW P, NEW fr, NEW np, NEW F, NEW o, NEW g, NEW d, NEW cx1,
         LeafEnters(h, cx, t, P, fr, np, F, o, g, d, cx1)
  PROVE  LeafResult(h, cx, t, P, F, g, cx1)
<1>1. /\ Roots(h, cx, t, P, fr, np) /\ LeafGrown(h, t, P, F, o, g) /\ LeafContext(g, t, P, o, d)
      /\ Becomes(cx, cx1, t, d) /\ IsSeq(cx1) /\ Good(h, cx, fr, np) /\ t \in Nat \ {0} /\ DOMAIN cx = 1 .. t - 1
  BY DEF LeafEnters, Roots
<1>2. DOMAIN cx1 = DOMAIN cx \cup {t} /\ cx1[t] = d /\ t \notin DOMAIN cx /\ \A u \in DOMAIN cx : cx1[u] = cx[u]
  BY <1>1 DEF Becomes
<1>3. Shapes(h, cx) /\ Settled(h, cx) /\ \A u \in DOMAIN cx : Shape(h, u, cx[u])
  BY <1>1 DEF Good, Shapes
<1>4. Extended(h, g, t, {}, F)
  <2>1. F \cap DOMAIN h = {} /\ \A n \in F : n[1] = t
    BY <1>1 DEF LeafGrown, Grown, Kids
  <2>2. DOMAIN g = DOMAIN h \cup F /\ \A n \in DOMAIN h : g[n] = h[n]
    BY <1>1 DEF LeafGrown
  <2>3. QED
    BY ONLY <2>1, <2>2 DEF Extended
<1>5. ASSUME NEW u \in DOMAIN cx PROVE Shape(g, u, cx[u]) /\ Opened(g, cx[u]) = Opened(h, cx[u])
  <2>1. u # t /\ Shape(h, u, cx[u]) /\ (Moving(cx[u]) => cx[u].past \notin {})
    BY <1>2, <1>3
  <2>2. QED
    BY ONLY <1>4, <2>1, ShapeKept
<1>6. IsSeq(<<P>>)
  <2>1. <<P>> \in Seq({P})
    OBVIOUS
  <2>2. QED
    BY ONLY <2>1 DEF IsSeq
<1>7. Shape(g, t, d) /\ ~ Moving(d) /\ Opened(g, d) = {}
  BY ONLY <1>1, <1>6 DEF LeafContext, Shape, Moving, Opened
<1>8. Shapes(g, cx1)
  BY ONLY <1>2, <1>5, <1>7 DEF Shapes
<1>9. Open(g, cx1) = Open(h, cx)
  BY ONLY <1>2, <1>5, <1>7 DEF Open
<1>10. Settled(g, cx1)
  BY ONLY <1>2, <1>3, <1>7, <1>9 DEF Settled
<1>11. Untouched(h, cx, t, P)
  BY <1>1, RootIs
<1>12. Gone(d) = {P} /\ Quit(d) = {P}
  <2>1. Gone(d) = {P}
    BY <1>1 DEF LeafContext, Gone, Range
  <2>2. QED
    BY ONLY <1>7, <2>1 DEF Quit
<1>13. Adds(Retired(cx), Retired(cx1), t, {P})
  <2>1. Retired(cx)[t] = {}
    BY ONLY <1>11 DEF Untouched
  <2>2. ASSUME NEW x \in Nat PROVE Retired(cx1)[x] = IF x = t THEN {} \cup {P} ELSE Retired(cx)[x]
    BY ONLY <1>2, <1>12, <2>2 DEF Retired
  <2>3. QED
    BY ONLY <2>1, <2>2 DEF Adds
<1>14. Adds(Copied(cx), Copied(cx1), t, {P})
  <2>1. Copied(cx)[t] = {}
    BY ONLY <1>11 DEF Untouched
  <2>2. ASSUME NEW x \in Nat PROVE Copied(cx1)[x] = IF x = t THEN {} \cup {P} ELSE Copied(cx)[x]
    BY ONLY <1>2, <1>12, <2>2 DEF Copied
  <2>3. QED
    BY ONLY <2>1, <2>2 DEF Adds
<1>15. QED
  BY ONLY <1>5, <1>8, <1>9, <1>10, <1>13, <1>14 DEF LeafResult

\* The graph once P is replaced.
LEMMA LeafForest ==
  ASSUME NEW h, NEW cx, NEW t, NEW P, NEW fr, NEW np, NEW F, NEW o, NEW g, NEW d, NEW cx1,
         LeafEnters(h, cx, t, P, fr, np, F, o, g, d, cx1)
  PROVE  /\ Forest(Kids(g), Retired(cx1), Copied(cx1), Open(g, cx1)) /\ Rooted(g, cx1, fr)
<1>1. /\ Roots(h, cx, t, P, fr, np) /\ LeafGrown(h, t, P, F, o, g) /\ LeafContext(g, t, P, o, d)
      /\ Becomes(cx, cx1, t, d) /\ Good(h, cx, fr, np) /\ t \in Nat \ {0} /\ DOMAIN cx = 1 .. t - 1
  BY DEF LeafEnters, Roots
<1>2. LeafResult(h, cx, t, P, F, g, cx1)
  BY LeafShapes
<1>3. PICK C, C1, R, L, U, R1, L1 :
         /\ C = Kids(h) /\ C1 = Kids(g) /\ R = Retired(cx) /\ L = Copied(cx) /\ U = Open(h, cx)
         /\ R1 = Retired(cx1) /\ L1 = Copied(cx1)
  OBVIOUS
<1>4. Forest(C, R, L, U) /\ Grown(C, C1, F, {}, t)
  BY ONLY <1>1, <1>3 DEF Good, LeafGrown
<1>5. Forest(C1, R, L, U)
  <2>1. Forest(C1, R, L, U \cup {})
    BY ONLY <1>4, GrowForest
  <2>2. U \cup {} = U
    OBVIOUS
  <2>3. QED
    BY ONLY <2>1, <2>2
<1>6. Adds(R, R1, t, {P}) /\ Adds(L, L1, t, {P}) /\ Open(g, cx1) = U
  BY ONLY <1>2, <1>3 DEF LeafResult
<1>7. Untouched(h, cx, t, P)
  BY <1>1, RootIs
<1>8. /\ P \in DOMAIN C /\ P # None /\ P \notin U /\ P[1] < t /\ \A x \in Nat : P \notin R[x] /\ P \notin L[x]
      /\ \A p, i : Edge(C, p, i) => C[p][i] # P
  BY ONLY <1>3, <1>7 DEF Untouched, Kids
<1>9. P[1] <= t /\ t \in Nat
  <2>1. P[1] \in Nat
    BY ONLY <1>4, <1>8 DEF Forest, Nodes
  <2>2. QED
    BY ONLY <1>1, <1>8, <2>1
<1>10. Top(C1, R, U, P, t)
  <2>1. Top(C, R, U, P, t)
    BY ONLY <1>8, <1>9 DEF Top
  <2>2. Top(C1, R, U \cup {}, P, t)
    BY ONLY <1>4, <2>1, GrowTop
  <2>3. U \cup {} = U
    OBVIOUS
  <2>4. QED
    BY ONLY <2>2, <2>3
<1>11. C1[P] = <<>>
  <2>1. P \in DOMAIN h /\ h[P].leaf /\ IsNode(h[P]) /\ g[P] = h[P] /\ P \in DOMAIN g
    BY <1>1, <1>3, <1>8 DEF Kids, LeafGrown, Good, Built
  <2>2. QED
    BY ONLY <1>3, <2>1 DEF Kids, IsNode
<1>12. Filled(C1, C1, P, {}, <<>>, t)
  <2>1. P \in DOMAIN C1
    BY ONLY <1>4, <1>8 DEF Grown
  <2>2. QED
    BY ONLY <1>9, <2>1 DEF Filled
<1>13. \A i : Edge(C1, P, i) => C1[P][i] \notin U
  BY ONLY <1>11 DEF Edge
<1>14. Forest(C1, R1, L1, U)
  <2>1. \A p, i : Edge(C1, p, i) => C1[p][i] # P
    BY ONLY <1>10 DEF Top
  <2>2. {} \subseteq U
    OBVIOUS
  <2>3. (\A x \in Nat : P \notin L[x]) /\ \A x \in Nat : P \in R[x] => x = t
    BY ONLY <1>8
  <2>4. Forest(C1, R1, L1, U \ {})
    BY ONLY <1>5, <1>6, <1>8, <1>12, <1>13, <2>1, <2>2, <2>3, FillForest
  <2>5. U \ {} = U
    OBVIOUS
  <2>6. QED
    BY ONLY <2>4, <2>5
<1>15. ASSUME NEW u \in {0} \cup DOMAIN cx PROVE Top(C1, R1, U, RootOf(cx, fr, u), u)
  <2>1. PICK p : p = RootOf(cx, fr, u)
    OBVIOUS
  <2>2. Top(C, R, U, p, u)
    BY ONLY <1>1, <1>3, <2>1, u \in {0} \cup DOMAIN cx DEF Good, Rooted
  <2>3. Top(C1, R, U \cup {}, p, u)
    BY ONLY <1>4, <2>2, GrowTop
  <2>4. U \cup {} = U
    OBVIOUS
  <2>5. Top(C1, R, U, p, u)
    BY ONLY <2>3, <2>4
  <2>6. u < t /\ u \in Nat
    BY ONLY <1>1, u \in {0} \cup DOMAIN cx
  <2>7. \A x \in Nat : x <= u => R1[x] = R[x]
    BY ONLY <1>1, <1>6, <2>6 DEF Adds
  <2>8. Top(C1, R1, U, p, u)
    BY ONLY <2>5, <2>7 DEF Top
  <2>9. QED
    BY ONLY <2>1, <2>8
<1>16. Top(C1, R1, U, o, t)
  <2>1. o \in DOMAIN C1 /\ o[1] = t /\ o \notin DOMAIN C
    BY ONLY <1>1, <1>3, <1>4 DEF Grown, LeafGrown
  <2>2. U \subseteq DOMAIN C /\ \A x \in Nat : R[x] \subseteq DOMAIN C
    BY ONLY <1>4 DEF Forest, Nodes, Retirements
  <2>3. o # None /\ t <= t
    BY ONLY <1>1, <2>1 DEF None
  <2>4. \A x \in Nat : o \notin R1[x]
    BY ONLY <1>6, <1>8, <2>1, <2>2 DEF Adds
  <2>5. \A p, i : Edge(C1, p, i) => C1[p][i] # o
    BY ONLY <1>1, <1>3 DEF LeafGrown
  <2>6. QED
    BY ONLY <2>1, <2>2, <2>3, <2>4, <2>5 DEF Top
<1>17. Rooted(g, cx1, fr)
  <2>1. /\ DOMAIN cx1 = DOMAIN cx \cup {t} /\ \A u \in {0} \cup DOMAIN cx : RootOf(cx1, fr, u) = RootOf(cx, fr, u)
        /\ RootOf(cx1, fr, t) = o
    BY ONLY <1>1 DEF Becomes, RootOf, LeafContext
  <2>2. QED
    BY ONLY <1>3, <1>6, <1>15, <1>16, <2>1 DEF Rooted
<1>18. QED
  BY ONLY <1>3, <1>6, <1>14, <1>17

LEMMA LeafLabels ==
  ASSUME NEW h, NEW cx, NEW t, NEW P, NEW fr, NEW np, NEW F, NEW o, NEW g, NEW d, NEW cx1,
         LeafEnters(h, cx, t, P, fr, np, F, o, g, d, cx1)
  PROVE  Labels(g, cx1, fr, np)
<1>1. /\ Roots(h, cx, t, P, fr, np) /\ LeafGrown(h, t, P, F, o, g) /\ LeafContext(g, t, P, o, d)
      /\ Becomes(cx, cx1, t, d) /\ Good(h, cx, fr, np) /\ t \in Nat \ {0} /\ DOMAIN cx = 1 .. t - 1
  BY DEF LeafEnters, Roots
<1>2. LeafResult(h, cx, t, P, F, g, cx1)
  BY LeafShapes
<1>3. PICK C, C1 : C = Kids(h) /\ C1 = Kids(g)
  OBVIOUS
<1>4. PICK mk0, rk0 : /\ Ranked(C, rk0) /\ Marked(C, mk0) /\ mk0[fr] = 0
                      /\ \A u \in DOMAIN cx : Labelled(h, cx[u], np, mk0, rk0)
  BY ONLY <1>1, <1>3 DEF Good, Labels
<1>5. /\ DOMAIN C = DOMAIN h /\ DOMAIN C1 = DOMAIN C \cup F /\ F \cap DOMAIN C = {}
      /\ (\A p \in DOMAIN C : C1[p] = C[p]) /\ o \in F
      /\ \A p, i : p \in F /\ Edge(C1, p, i) => p = o /\ C1[p][i] \in F /\ C1[p][i] # o
  <2>1. Grown(C, C1, F, {}, t) /\ o \in F
    BY ONLY <1>1, <1>3 DEF LeafGrown
  <2>2. DOMAIN C = DOMAIN h
    BY ONLY <1>3 DEF Kids
  <2>3. DOMAIN C1 = DOMAIN C \cup F /\ F \cap DOMAIN C = {} /\ \A p \in DOMAIN C : C1[p] = C[p]
    BY ONLY <2>1 DEF Grown
  <2>4. \A p, i : p \in F /\ Edge(C1, p, i) => p = o /\ C1[p][i] \in F /\ C1[p][i] # o
    BY ONLY <1>1, <1>3 DEF LeafGrown
  <2>5. QED
    BY ONLY <2>1, <2>2, <2>3, <2>4
<1>6. None \in DOMAIN C /\ \A p, i : Edge(C, p, i) => C[p][i] \in DOMAIN C
  BY ONLY <1>1, <1>3 DEF Good, Forest, Nodes, Edge
<1>7. rk0 \in [DOMAIN C -> Nat] /\ mk0 \in [DOMAIN C -> Nat] /\ rk0[None] = 0 /\ mk0[None] = 0
  BY ONLY <1>4 DEF Ranked, Marked
<1>8. PICK mk, rk : /\ mk = [n \in DOMAIN C1 |-> IF n \in DOMAIN C THEN mk0[n] ELSE 0]
                    /\ rk = [n \in DOMAIN C1 |-> IF n \in DOMAIN C THEN rk0[n] ELSE IF n = o THEN 1 ELSE 0]
  OBVIOUS
<1>9. /\ \A n \in DOMAIN C : mk[n] = mk0[n] /\ rk[n] = rk0[n]
      /\ \A n \in F : mk[n] = 0 /\ rk[n] = IF n = o THEN 1 ELSE 0
      /\ rk \in [DOMAIN C1 -> Nat] /\ mk \in [DOMAIN C1 -> Nat]
  BY ONLY <1>5, <1>7, <1>8
<1>10. ASSUME NEW p, NEW i, Edge(C1, p, i)
       PROVE  rk[C1[p][i]] < rk[p] /\ mk[C1[p][i]] <= mk[p] + 1
  <2>1. CASE p \in DOMAIN C
    <3>1. Edge(C, p, i) /\ C1[p][i] = C[p][i] /\ C[p][i] \in DOMAIN C
      BY ONLY <1>5, <1>6, <1>10, <2>1 DEF Edge
    <3>2. rk0[C[p][i]] < rk0[p] /\ mk0[C[p][i]] <= mk0[p] + 1
      BY ONLY <1>4, <3>1 DEF Ranked, Marked
    <3>3. QED
      BY ONLY <1>9, <2>1, <3>1, <3>2
  <2>2. CASE p \in F
    <3>1. p = o /\ C1[p][i] \in F /\ C1[p][i] # o
      BY ONLY <1>5, <1>10, <2>2
    <3>2. rk[p] = 1 /\ mk[p] = 0 /\ rk[C1[p][i]] = 0 /\ mk[C1[p][i]] = 0
      BY ONLY <1>9, <2>2, <3>1
    <3>3. QED
      BY ONLY <3>2
  <2>3. QED
    BY ONLY <1>5, <1>10, <2>1, <2>2 DEF Edge
<1>11. Ranked(C1, rk) /\ Marked(C1, mk)
  BY ONLY <1>5, <1>6, <1>7, <1>9, <1>10 DEF Ranked, Marked
<1>12. mk[fr] = 0
  <2>1. fr \in DOMAIN C
    BY ONLY <1>1, <1>3 DEF Good, Rooted, Top, RootOf
  <2>2. QED
    BY ONLY <1>4, <1>9, <2>1
<1>13. ASSUME NEW u \in DOMAIN cx PROVE Labelled(g, cx1[u], np, mk, rk)
  <2>1. Labelled(h, cx[u], np, mk0, rk0) /\ Shape(h, u, cx[u]) /\ cx1[u] = cx[u] /\ Opened(g, cx[u]) = Opened(h, cx[u])
    BY ONLY <1>1, <1>2, <1>4, u \in DOMAIN cx DEF Good, Shapes, Becomes, LeafResult
  <2>2. cx[u].root \in DOMAIN C
    BY ONLY <1>1, <1>3, u \in DOMAIN cx DEF Good, Rooted, Top, RootOf
  <2>3. Moving(cx[u]) => cx[u].past \in DOMAIN C
    BY ONLY <1>5, <2>1 DEF Shape, ShapeMoving
  <2>4. \A n \in Opened(h, cx[u]) : n \in DOMAIN C
    BY ONLY <1>5, <2>1, OpenedIs
  <2>5. QED
    BY ONLY <1>9, <2>1, <2>2, <2>3, <2>4 DEF Labelled
<1>14. Labelled(g, cx1[t], np, mk, rk)
  <2>1. cx1[t] = d /\ d.root = o /\ ~ Moving(d)
    BY ONLY <1>1 DEF LeafContext, Moving, Becomes
  <2>2. QED
    BY ONLY <1>5, <1>9, <2>1 DEF Labelled
<1>15. QED
  <2>1. DOMAIN cx1 = DOMAIN cx \cup {t}
    BY ONLY <1>1 DEF Becomes
  <2>2. QED
    BY ONLY <1>3, <1>11, <1>12, <1>13, <1>14, <2>1 DEF Labels

LEMMA LeafGood ==
  ASSUME NEW h, NEW cx, NEW t, NEW P, NEW fr, NEW np, NEW F, NEW o, NEW g, NEW d, NEW cx1,
         LeafEnters(h, cx, t, P, fr, np, F, o, g, d, cx1)
  PROVE  Good(g, cx1, fr, np) /\ Quiet(h, cx, g, cx1)
<1>1. /\ Roots(h, cx, t, P, fr, np) /\ LeafGrown(h, t, P, F, o, g) /\ LeafContext(g, t, P, o, d)
      /\ Becomes(cx, cx1, t, d) /\ IsSeq(cx1) /\ Good(h, cx, fr, np) /\ t \in Nat \ {0} /\ DOMAIN cx = 1 .. t - 1
  BY DEF LeafEnters, Roots
<1>2. LeafResult(h, cx, t, P, F, g, cx1)
  BY LeafShapes
<1>3. Owned(g, cx1)
  <2>1. DOMAIN cx1 = DOMAIN cx \cup {t} /\ cx1[t] = d /\ d.made = 3 /\ \A u \in DOMAIN cx : u # t /\ cx1[u] = cx[u]
    BY ONLY <1>1 DEF Becomes, LeafContext
  <2>2. ASSUME NEW n \in DOMAIN g, n[1] # 0
        PROVE  n[1] \in DOMAIN cx1 /\ n[2] \in Nat /\ n[2] <= cx1[n[1]].made
    <3>1. CASE n \in F
      <4>1. n[1] = t /\ n[2] \in Nat /\ n[2] <= 3
        BY ONLY <1>1, <3>1 DEF LeafGrown, Grown
      <4>2. QED
        BY ONLY <2>1, <4>1
    <3>2. CASE n \in DOMAIN h
      BY ONLY <1>1, <2>1, <2>2, <3>2 DEF Good, Owned
    <3>3. QED
      BY ONLY <1>1, <2>2, <3>1, <3>2 DEF LeafGrown
  <2>3. QED
    BY ONLY <2>2 DEF Owned
<1>4. Unready(g, cx1)
  <2>1. Open(h, cx) \subseteq DOMAIN h /\ \A n \in Open(h, cx) : ~ h[n].ready
    BY ONLY <1>1 DEF Good, Unready, Forest, Nodes, Kids
  <2>2. \A n \in DOMAIN h : g[n] = h[n]
    BY ONLY <1>1 DEF LeafGrown
  <2>3. Open(g, cx1) = Open(h, cx)
    BY ONLY <1>2 DEF LeafResult
  <2>4. QED
    BY ONLY <2>1, <2>2, <2>3 DEF Unready
<1>5. Built(g)
  BY ONLY <1>1 DEF LeafGrown
<1>6. Forest(Kids(g), Retired(cx1), Copied(cx1), Open(g, cx1)) /\ Rooted(g, cx1, fr)
  BY LeafForest
<1>7. Labels(g, cx1, fr, np)
  BY LeafLabels
<1>8. Quiet(h, cx, g, cx1)
  <2>1. DOMAIN g = DOMAIN h \cup F /\ \A n \in DOMAIN h : g[n] = h[n]
    BY ONLY <1>1 DEF LeafGrown
  <2>2. Open(g, cx1) = Open(h, cx)
    BY ONLY <1>2 DEF LeafResult
  <2>3. QED
    BY ONLY <2>1, <2>2 DEF Quiet
<1>9. QED
  BY ONLY <1>1, <1>2, <1>3, <1>4, <1>5, <1>6, <1>7, <1>8 DEF Good, LeafResult

\* A context that replaces a root that is a leaf.
NewLeafRoot(c, P, o, pair, cur, op, e) ==
  e = [Retire(c, P) EXCEPT !.made = 3, !.root = o, !.idx = 1, !.pair = pair, !.cur = cur, !.op = op]
IsNewLeafRoot(c, P, o, pair, cur, op, e) ==
  /\ SameTicket(c, e) /\ e.root = o /\ e.cur = cur /\ e.made = 3 /\ e.retired = <<P>> /\ e.idx = 1
  /\ e.pair = pair /\ e.op = op /\ e.past = c.past

LEMMA LeafRetired ==
  ASSUME NEW c, IsContext(c), c.retired = <<>>, NEW P, NEW o, NEW pair, NEW cur, NEW op,
         NEW e, NewLeafRoot(c, P, o, pair, cur, op, e)
  PROVE  IsNewLeafRoot(c, P, o, pair, cur, op, e)
<1>1. PICK r : r = <<P>>
  OBVIOUS
<1>2. PICK d : d = [c EXCEPT !.retired = r]
  OBVIOUS
<1>3. Retire(c, P) = d
  <2>1. Append(c.retired, P) = r
    BY <1>1
  <2>2. QED
    BY <1>2, <2>1 DEF Retire
<1>4. SameTicket(c, d) /\ d.retired = r /\ d.past = c.past
  BY <1>2 DEF SameTicket, IsContext, Fields
<1>5. e = [d EXCEPT !.made = 3, !.root = o, !.idx = 1, !.pair = pair, !.cur = cur, !.op = op]
  BY <1>3 DEF NewLeafRoot
<1>6. /\ SameTicket(c, e) /\ e.retired = r /\ e.root = o /\ e.cur = cur /\ e.made = 3 /\ e.idx = 1
      /\ e.pair = pair /\ e.op = op /\ e.past = c.past
  BY ONLY <1>4, <1>5 DEF SameTicket, IsContext, Fields
<1>7. QED
  BY ONLY <1>1, <1>6 DEF IsNewLeafRoot

\* A new leaf of ticket t.
Fresh(t, n) == IsNode(n) /\ n.ver = t /\ n.leaf /\ n.chs = <<>> /\ n.slots = <<>>
\* The leaves among the nodes F are those that the ticket fills in.
LeafFilled(g, F, d) == \A n \in F : g[n].leaf => g[n].slots = <<>> /\ n \in Filling(g, d)

LeafMade(h, t, P, F, o, g, d) == LeafGrown(h, t, P, F, o, g) /\ LeafContext(g, t, P, o, d) /\ LeafFilled(g, F, d)

LEMMA OneLeaf ==
  ASSUME NEW h, NEW t, NEW P, NEW A, NEW l, NEW g, Ground(h, t, P), h[P].leaf, A = <<t, 1>>, Fresh(t, l),
         g = Over(h, [n \in {A} |-> l]), NEW d, IsContext(d), d.sno = t,
         \E c : \E op \in {"done", "materialize"} :
            IsNewLeafRoot(c, P, A, FALSE, None, op, d) /\ c.past = P
  PROVE  LeafMade(h, t, P, {A}, A, g, d)
<1>1. /\ t \in Nat \ {0} /\ P \in DOMAIN h /\ P[1] < t /\ None \in DOMAIN h
      /\ \A n \in DOMAIN h : /\ n[1] # t /\ IsNode(h[n]) /\ h[n].chs \in Seq(DOMAIN h) /\ h[n].ver = n[1]
  BY DEF Ground
<1>2. A[1] = t /\ A[2] = 1 /\ A \notin DOMAIN h
  BY <1>1
<1>3. DOMAIN g = DOMAIN h \cup {A} /\ g[A] = l /\ \A n \in DOMAIN h : g[n] = h[n]
  BY <1>2 DEF Over
<1>4. IsNode(l) /\ l.ver = t /\ l.leaf /\ l.chs = <<>>
  BY DEF Fresh
<1>5. PICK C, D : C = Kids(h) /\ D = Kids(g)
  OBVIOUS
<1>6. /\ DOMAIN C = DOMAIN h /\ DOMAIN D = DOMAIN h \cup {A} /\ D[A] = <<>>
      /\ \A n \in DOMAIN h : C[n] = h[n].chs /\ D[n] = h[n].chs
  BY ONLY <1>3, <1>4, <1>5 DEF Kids
<1>7. \A i : ~ Edge(D, A, i)
  BY ONLY <1>6 DEF Edge
<1>8. Grown(C, D, {A}, {}, t)
  <2>1. D[A] \in Seq({A} \cup {None})
    BY ONLY <1>6
  <2>2. QED
    BY ONLY <1>1, <1>2, <1>6, <1>7, <2>1 DEF Grown
<1>9. ASSUME NEW p, NEW i, Edge(D, p, i) PROVE D[p][i] # A
  <2>1. p \in DOMAIN h /\ D[p] = h[p].chs /\ i \in DOMAIN D[p]
    BY ONLY <1>6, <1>7, <1>9 DEF Edge
  <2>2. h[p].chs \in Seq(DOMAIN h)
    BY ONLY <1>1, <2>1
  <2>3. D[p][i] \in DOMAIN h
    BY ONLY <2>1, <2>2
  <2>4. QED
    BY ONLY <1>2, <2>3
<1>10. Built(g)
  <2>1. ASSUME NEW n \in DOMAIN h PROVE h[n].chs \in Seq(DOMAIN g)
    BY ONLY <1>1, <1>3, <2>1
  <2>2. <<>> \in Seq(DOMAIN g)
    OBVIOUS
  <2>3. QED
    BY ONLY <1>1, <1>2, <1>3, <1>4, <2>1, <2>2 DEF Built
<1>11. LeafGrown(h, t, P, {A}, A, g)
  <2>1. Len(g[A].chs) = 0
    BY ONLY <1>3, <1>4
  <2>2. QED
    BY ONLY <1>2, <1>3, <1>5, <1>7, <1>8, <1>9, <1>10, <2>1, h[P].leaf DEF LeafGrown
<1>12. PICK c : \E op \in {"done", "materialize"} : IsNewLeafRoot(c, P, A, FALSE, None, op, d) /\ c.past = P
  OBVIOUS
<1>13. /\ d.root = A /\ d.cur = None /\ d.made = 3 /\ d.retired = <<P>> /\ d.idx = 1 /\ d.pair = FALSE
       /\ d.op \in {"done", "materialize"} /\ d.past = P
  BY ONLY <1>12 DEF IsNewLeafRoot
<1>14. ShapeMaterialize(g, t, d)
  <2>1. P \in Gone(d)
    BY ONLY <1>13 DEF Gone, Range
  <2>2. P \in DOMAIN g /\ g[P].leaf
    BY <1>1, <1>3
  <2>3. A \in DOMAIN g /\ g[A].leaf
    BY <1>3, <1>4
  <2>4. QED
    BY ONLY <1>2, <1>13, <2>1, <2>2, <2>3 DEF ShapeMaterialize
<1>15. LeafContext(g, t, P, A, d)
  BY ONLY <1>13, <1>14, IsContext(d), d.sno = t DEF LeafContext
<1>16. LeafFilled(g, {A}, d)
  <2>1. A \in Filling(g, d)
    BY ONLY <1>13 DEF Filling
  <2>2. g[A].slots = <<>>
    BY <1>3 DEF Fresh
  <2>3. QED
    BY ONLY <2>1, <2>2 DEF LeafFilled
<1>17. QED
  BY ONLY <1>11, <1>15, <1>16 DEF LeafMade

LEMMA TwoLeaves ==
  ASSUME NEW h, NEW t, NEW P, NEW A, NEW B, NEW O, NEW l, NEW m, NEW o, NEW g, Ground(h, t, P), h[P].leaf,
         A = <<t, 1>>, B = <<t, 2>>, O = <<t, 3>>, Fresh(t, l), Fresh(t, m),
         IsNode(o), o.ver = t, o.chs = <<A, B>>,
         g = Over(h, [n \in {A, B, O} |-> IF n = O THEN o ELSE IF n = A THEN l ELSE m]),
         NEW d, IsContext(d), d.sno = t,
         \E c : \E op \in {"done", "materialize"} :
            IsNewLeafRoot(c, P, O, TRUE, O, op, d) /\ c.past = P
  PROVE  LeafMade(h, t, P, {A, B, O}, O, g, d)
<1>1. /\ t \in Nat \ {0} /\ P \in DOMAIN h /\ P[1] < t /\ None \in DOMAIN h
      /\ \A n \in DOMAIN h : /\ n[1] # t /\ IsNode(h[n]) /\ h[n].chs \in Seq(DOMAIN h) /\ h[n].ver = n[1]
  BY DEF Ground
<1>2. /\ A[1] = t /\ A[2] = 1 /\ A \notin DOMAIN h /\ B[1] = t /\ B[2] = 2 /\ B \notin DOMAIN h
      /\ O[1] = t /\ O[2] = 3 /\ O \notin DOMAIN h /\ A # B /\ A # O /\ B # O
  BY <1>1
<1>3. DOMAIN g = DOMAIN h \cup {A, B, O} /\ g[A] = l /\ g[B] = m /\ g[O] = o /\ \A n \in DOMAIN h : g[n] = h[n]
  <2>1. g = Over(h, [n \in {A, B, O} |-> IF n = O THEN o ELSE IF n = A THEN l ELSE m])
    OBVIOUS
  <2>2. QED
    BY ONLY <1>2, <2>1 DEF Over
<1>4. IsNode(l) /\ l.ver = t /\ l.leaf /\ l.chs = <<>> /\ IsNode(m) /\ m.ver = t /\ m.leaf /\ m.chs = <<>>
  BY DEF Fresh
<1>5. PICK C, D : C = Kids(h) /\ D = Kids(g)
  OBVIOUS
<1>a. PICK oc : oc = o.chs
  OBVIOUS
<1>6. /\ DOMAIN C = DOMAIN h /\ DOMAIN D = DOMAIN h \cup {A, B, O} /\ D[A] = <<>> /\ D[B] = <<>> /\ D[O] = oc
      /\ \A n \in DOMAIN h : C[n] = h[n].chs /\ D[n] = h[n].chs
  BY ONLY <1>3, <1>4, <1>5, <1>a DEF Kids
<1>7. \A i : ~ Edge(D, A, i) /\ ~ Edge(D, B, i)
  BY ONLY <1>6 DEF Edge
<1>b. oc = <<A, B>> /\ oc \in Seq({A, B}) /\ DOMAIN oc = {1, 2} /\ oc[1] = A /\ oc[2] = B
  BY ONLY <1>a, o.chs = <<A, B>>
<1>8. \A i : Edge(D, O, i) => (i = 1 /\ D[O][i] = A) \/ (i = 2 /\ D[O][i] = B)
  BY ONLY <1>6, <1>b DEF Edge
<1>9. Grown(C, D, {A, B, O}, {}, t)
  <2>1. D[A] \in Seq({A, B, O} \cup {None}) /\ D[B] \in Seq({A, B, O} \cup {None}) /\ D[O] \in Seq({A, B, O} \cup {None})
    BY ONLY <1>6, <1>b
  <2>2. \A n \in {A, B, O} : n[1] = t /\ D[n] \in Seq({A, B, O} \cup {None})
    BY ONLY <1>2, <2>1
  <2>3. A # None /\ B # None
    BY ONLY <1>1, <1>2
  <2>4. \A n, i : n \in {A, B, O} /\ Edge(D, n, i) => n = O /\ D[n][i] # None
    BY ONLY <1>7, <1>8, <2>3
  <2>5. \A i, j : Edge(D, O, i) /\ Edge(D, O, j) /\ D[O][i] = D[O][j] => i = j
    BY ONLY <1>2, <1>8
  <2>6. /\ DOMAIN D = DOMAIN C \cup {A, B, O} /\ {A, B, O} \cap DOMAIN C = {} /\ {} \subseteq {A, B, O} /\ t \in Nat
        /\ \A p \in DOMAIN C : D[p] = C[p]
    <3>1. A \notin DOMAIN C /\ B \notin DOMAIN C /\ O \notin DOMAIN C
      BY ONLY <1>2, <1>6
    <3>2. QED
      BY ONLY <1>1, <1>6, <3>1
  <2>7. QED
    BY ONLY <2>2, <2>4, <2>5, <2>6 DEF Grown
<1>10. \A p, i : p \in {A, B, O} /\ Edge(D, p, i) => p = O /\ D[p][i] \in {A, B, O}
  BY ONLY <1>7, <1>8
<1>11. ASSUME NEW p, NEW i, Edge(D, p, i) PROVE D[p][i] # O
  <2>1. CASE p = O
    BY ONLY <1>2, <1>8, <1>11, <2>1
  <2>2. CASE p # O
    <3>1. p \in DOMAIN h /\ D[p] = h[p].chs /\ i \in DOMAIN D[p]
      BY ONLY <1>6, <1>7, <1>11, <2>2 DEF Edge
    <3>2. h[p].chs \in Seq(DOMAIN h)
      BY ONLY <1>1, <3>1
    <3>3. D[p][i] \in DOMAIN h
      BY ONLY <3>1, <3>2
    <3>4. QED
      BY ONLY <1>2, <3>3
  <2>3. QED
    BY ONLY <2>1, <2>2
<1>12. Built(g)
  <2>1. ASSUME NEW n \in DOMAIN h PROVE h[n].chs \in Seq(DOMAIN g)
    BY ONLY <1>1, <1>3, <2>1
  <2>2. <<>> \in Seq(DOMAIN g) /\ oc \in Seq(DOMAIN g)
    BY ONLY <1>3, <1>b
  <2>3. IsNode(o) /\ o.ver = t /\ o.chs = oc
    BY <1>a
  <2>4. QED
    BY ONLY <1>1, <1>2, <1>3, <1>4, <2>1, <2>2, <2>3 DEF Built
<1>13. LeafGrown(h, t, P, {A, B, O}, O, g)
  <2>1. \A n \in {A, B, O} : n[2] \in Nat /\ n[2] <= 3
    BY ONLY <1>2
  <2>2. Len(g[A].chs) = 0 /\ Len(g[B].chs) = 0
    BY ONLY <1>3, <1>4
  <2>3. Len(g[O].chs) = 2
    <3>1. g[O].chs = oc
      BY ONLY <1>3, <1>a
    <3>2. QED
      BY ONLY <1>b, <3>1
  <2>4. \A n \in {A, B, O} : Len(g[n].chs) \in {0, 2}
    BY ONLY <2>2, <2>3
  <2>5. QED
    BY ONLY <1>3, <1>5, <1>9, <1>10, <1>11, <1>12, <2>1, <2>4, h[P].leaf DEF LeafGrown
<1>14. PICK c : \E op \in {"done", "materialize"} : IsNewLeafRoot(c, P, O, TRUE, O, op, d) /\ c.past = P
  OBVIOUS
<1>15. /\ d.root = O /\ d.cur = O /\ d.made = 3 /\ d.retired = <<P>> /\ d.idx = 1 /\ d.pair = TRUE
       /\ d.op \in {"done", "materialize"} /\ d.past = P
  BY ONLY <1>14 DEF IsNewLeafRoot
<1>16. ShapeMaterialize(g, t, d)
  <2>1. P \in Gone(d)
    BY ONLY <1>15 DEF Gone, Range
  <2>2. P \in DOMAIN g /\ g[P].leaf
    BY <1>1, <1>3
  <2>3. O \in DOMAIN g /\ O # None /\ O[1] = t
    BY ONLY <1>1, <1>2, <1>3 DEF None
  <2>4. Targets(d) = {1, 2}
    BY ONLY <1>15 DEF Targets
  <2>5. g[O].chs = oc
    BY <1>3, <1>a
  <2>6. \A i \in {1, 2} : i \in DOMAIN oc /\ oc[i] \in DOMAIN g /\ oc[i][1] = t /\ g[oc[i]].leaf
    BY ONLY <1>2, <1>3, <1>4, <1>b
  <2>7. QED
    BY ONLY <1>15, <2>1, <2>2, <2>3, <2>4, <2>5, <2>6 DEF ShapeMaterialize
<1>17. LeafContext(g, t, P, O, d)
  BY ONLY <1>15, <1>16, IsContext(d), d.sno = t DEF LeafContext
<1>18. LeafFilled(g, {A, B, O}, d)
  <2>1. O # None
    BY ONLY <1>1, <1>2 DEF None
  <2>2. g[O].chs = oc
    BY <1>3, <1>a
  <2>3. 1 \in Targets(d) /\ 2 \in Targets(d)
    BY ONLY <1>15 DEF Targets
  <2>4. Filling(g, d) = {oc[i] : i \in Targets(d)}
    BY ONLY <1>15, <2>1, <2>2 DEF Filling
  <2>5. A \in Filling(g, d) /\ B \in Filling(g, d)
    BY ONLY <1>b, <2>3, <2>4
  <2>6. g[A].slots = <<>> /\ g[B].slots = <<>>
    BY <1>3 DEF Fresh
  <2>7. ~ g[O].leaf
    <3>1. IsNode(o) /\ o.chs = oc /\ g[O] = o
      BY <1>3, <1>a
    <3>2. QED
      BY ONLY <1>b, <3>1 DEF IsNode
  <2>8. QED
    BY ONLY <2>5, <2>6, <2>7 DEF LeafFilled
<1>19. QED
  BY ONLY <1>13, <1>17, <1>18 DEF LeafMade

LEMMA LeafRoot ==
  ASSUME NEW h, NEW cx, NEW c, NEW t, NEW P, NEW fr, NEW np, Enter(h, cx, c, t, P, fr, np), h[P].leaf,
         NEW r, r = HandleInit(h, c), NEW d, d = r.c
  PROVE  \E F, o : LeafMade(h, t, P, F, o, r.heap, d) /\ d.op = (IF d.later THEN "materialize" ELSE "done")
<1>1. Roots(h, cx, t, P, fr, np) /\ IsContext(c) /\ c.sno = t /\ c.past = P /\ c.retired = <<>> /\ c.made = 0
  BY DEF Enter
<1>2. Ground(h, t, P)
  BY <1>1, GroundIs
<1>3. PICK A, B, O : A = <<t, 1>> /\ B = <<t, 2>> /\ O = <<t, 3>>
  OBVIOUS
<1>4. New(c, 1) = A /\ New(c, 2) = B /\ New(c, 3) = O /\ A # B /\ A # O /\ B # O /\ A[2] = 1 /\ B[2] = 2 /\ O[2] = 3
  <2>1. c.made + 1 = 1 /\ c.made + 2 = 2 /\ c.made + 3 = 3
    BY ONLY <1>1
  <2>2. QED
    BY ONLY <1>1, <1>3, <2>1 DEF New
<1>5. PICK ls : ls = NewLeaves(h[P], t, c.key, t, c.later)
  OBVIOUS
<1>6. /\ Len(ls) \in {1, 2} /\ DOMAIN ls = 1 .. Len(ls)
      /\ \A j \in DOMAIN ls : Fresh(t, ls[j])
  BY ONLY <1>5, NewLeavesIs DEF Fresh
<1>7. PICK pair \in BOOLEAN, op \in {"done", "materialize"} :
         pair = (Len(ls) = 2) /\ op = IF c.later THEN "materialize" ELSE "done"
  OBVIOUS
<1>8. PICK root, cur : root = (IF pair THEN New(c, 3) ELSE New(c, 1)) /\ cur = (IF pair THEN root ELSE None)
  OBVIOUS
<1>9. PICK sep, top : /\ sep = ls[Len(ls)].keys[1]
                      /\ top = [Internal(t, <<sep>>, <<A, B>>) EXCEPT !.ready = c.later]
  OBVIOUS
<1>10. PICK e : NewLeafRoot(c, P, root, pair, cur, op, e)
  BY DEF NewLeafRoot
<1>11. PICK g : g = Over(h, [n \in {New(c, j) : j \in DOMAIN ls} \cup {root} |->
                                IF n = O THEN top ELSE ls[n[2]]])
  OBVIOUS
<1>12. r.heap = g /\ d = e
  <2>1. e = [Retire(c, c.past) EXCEPT !.made = 3, !.root = root, !.idx = 1, !.pair = pair, !.cur = cur, !.op = op]
    BY ONLY <1>1, <1>10 DEF NewLeafRoot
  <2>2. g = Over(h, [n \in {New(c, j) : j \in DOMAIN ls} \cup {root} |->
                                IF n = New(c, 3) THEN top ELSE ls[n[2]]])
    BY ONLY <1>4, <1>11
  <2>3. top = [Internal(c.sno, <<ls[Len(ls)].keys[1]>>, <<New(c, 1), New(c, 2)>>) EXCEPT !.ready = c.later]
    BY ONLY <1>1, <1>4, <1>9
  <2>4. ls = NewLeaves(h[c.past], c.sno, c.key, c.sno, c.later) /\ h[c.past].leaf
    BY ONLY <1>1, <1>5, h[P].leaf
  <2>5. HandleInit(h, c) = [heap |-> g, c |-> e]
    BY ONLY <1>7, <1>8, <2>1, <2>2, <2>3, <2>4, Zenon DEF HandleInit
  <2>6. r = [heap |-> g, c |-> e]
    BY <2>5
  <2>7. QED
    BY <2>6
<1>13. IsNewLeafRoot(c, P, root, pair, cur, op, e)
  BY ONLY <1>1, <1>10, LeafRetired
<1>14. IsContext(e) /\ e.sno = t
  BY ONLY <1>1, <1>13 DEF IsNewLeafRoot, SameTicket
<1>c. e.op = (IF e.later THEN "materialize" ELSE "done")
  BY ONLY <1>7, <1>13 DEF IsNewLeafRoot, SameTicket
<1>15. CASE pair = FALSE
  <2>1. DOMAIN ls = {1} /\ root = A /\ cur = None
    <3>1. Len(ls) = 1
      BY ONLY <1>6, <1>7, <1>15
    <3>2. DOMAIN ls = {1}
      BY ONLY <1>6, <3>1
    <3>3. QED
      BY ONLY <1>4, <1>8, <1>15, <3>2
  <2>2. Fresh(t, ls[1])
    BY ONLY <1>6, <2>1
  <2>3. {New(c, j) : j \in DOMAIN ls} \cup {root} = {A}
    BY ONLY <1>4, <2>1
  <2>4. g = Over(h, [n \in {A} |-> ls[1]])
    <3>1. [n \in {A} |-> IF n = O THEN top ELSE ls[n[2]]] = [n \in {A} |-> ls[1]]
      BY ONLY <1>4
    <3>2. QED
      BY ONLY <1>11, <2>3, <3>1
  <2>5. IsNewLeafRoot(c, P, A, FALSE, None, op, e) /\ c.past = P /\ op \in {"done", "materialize"}
    BY ONLY <1>1, <1>7, <1>13, <1>15, <2>1
  <2>6. PICK l : l = ls[1]
    OBVIOUS
  <2>7. LeafMade(h, t, P, {A}, A, g, e)
    <3>1. g = Over(h, [n \in {A} |-> l]) /\ Fresh(t, l)
      BY ONLY <2>2, <2>4, <2>6
    <3>2. A = <<t, 1>> /\ h[P].leaf
      BY <1>3
    <3>3. \E c0 : \E op0 \in {"done", "materialize"} : IsNewLeafRoot(c0, P, A, FALSE, None, op0, e) /\ c0.past = P
      BY ONLY <2>5
    <3>4. QED
      BY ONLY <1>2, <1>14, <3>1, <3>2, <3>3, OneLeaf
  <2>8. QED
    BY ONLY <1>12, <1>c, <2>7
<1>16. CASE pair = TRUE
  <2>1. DOMAIN ls = {1, 2} /\ root = O /\ cur = O
    <3>1. Len(ls) = 2
      BY ONLY <1>6, <1>7, <1>16
    <3>2. DOMAIN ls = {1, 2}
      BY ONLY <1>6, <3>1
    <3>3. QED
      BY ONLY <1>4, <1>8, <1>16, <3>2
  <2>2. Fresh(t, ls[1]) /\ Fresh(t, ls[2])
    BY ONLY <1>6, <2>1
  <2>3. {New(c, j) : j \in DOMAIN ls} \cup {root} = {A, B, O}
    BY ONLY <1>4, <2>1
  <2>6. PICK l, m : l = ls[1] /\ m = ls[2]
    OBVIOUS
  <2>4. g = Over(h, [n \in {A, B, O} |-> IF n = O THEN top ELSE IF n = A THEN l ELSE m])
    <3>1. \A n \in {A, B, O} : (IF n = O THEN top ELSE ls[n[2]]) = (IF n = O THEN top ELSE IF n = A THEN l ELSE m)
      BY ONLY <1>4, <2>6
    <3>2. [n \in {A, B, O} |-> IF n = O THEN top ELSE ls[n[2]]]
            = [n \in {A, B, O} |-> IF n = O THEN top ELSE IF n = A THEN l ELSE m]
      BY ONLY <3>1, Zenon
    <3>3. QED
      BY ONLY <1>11, <2>3, <3>2
  <2>5. IsNewLeafRoot(c, P, O, TRUE, O, op, e) /\ c.past = P /\ op \in {"done", "materialize"}
    BY ONLY <1>1, <1>7, <1>13, <1>16, <2>1
  <2>7. IsNode(top) /\ top.ver = t /\ top.chs = <<A, B>>
    <3>0. PICK ks, cs : ks = <<sep>> /\ cs = <<A, B>>
      OBVIOUS
    <3>1. PICK i : i = Internal(t, ks, cs)
      OBVIOUS
    <3>2. ks \in Seq({sep}) /\ cs \in Seq({A, B}) /\ Len(ks) = 1 /\ Len(cs) = 2
      BY ONLY <3>0
    <3>3. IsSeq(ks) /\ IsSeq(cs) /\ Len(cs) = Len(ks) + 1
      BY ONLY <3>2 DEF IsSeq
    <3>4. IsNode(i) /\ i.ver = t /\ ~ i.leaf /\ i.chs = cs
      BY ONLY <3>1, <3>3, InternalIs
    <3>5. top = [i EXCEPT !.ready = c.later]
      BY ONLY <1>9, <3>0, <3>1
    <3>6. c.later \in BOOLEAN
      BY DEF Enter
    <3>7. IsNode(top) /\ top.chs = i.chs /\ top.ver = i.ver /\ ~ top.leaf
      BY ONLY <3>4, <3>5, <3>6, ReadyIs
    <3>8. QED
      BY ONLY <3>0, <3>4, <3>7
  <2>8. LeafMade(h, t, P, {A, B, O}, O, g, e)
    <3>1. Fresh(t, l) /\ Fresh(t, m)
      BY ONLY <2>2, <2>6
    <3>2. h[P].leaf
      OBVIOUS
    <3>3. \E c0 : \E op0 \in {"done", "materialize"} : IsNewLeafRoot(c0, P, O, TRUE, O, op0, e) /\ c0.past = P
      BY ONLY <2>5
    <3>4. QED
      BY ONLY <1>2, <1>3, <1>14, <2>4, <2>7, <3>1, <3>2, <3>3, TwoLeaves
  <2>9. QED
    BY ONLY <1>12, <1>c, <2>8
<1>17. QED
  BY <1>15, <1>16

\* Whatever the root is, the entry keeps what is good.
LEMMA EntryGood ==
  ASSUME NEW h, NEW cx, NEW c, NEW t, NEW P, NEW fr, NEW np, Enter(h, cx, c, t, P, fr, np),
         c.pos = 1, c.at = "pipe", NEW r, r = HandleInit(h, c), NEW cx1, Becomes(cx, cx1, t, r.c), IsSeq(cx1)
  PROVE  Good(r.heap, cx1, fr, np) /\ Quiet(h, cx, r.heap, cx1)
<1>1. Roots(h, cx, t, P, fr, np) /\ Good(h, cx, fr, np) /\ t \in Nat \ {0}
  BY DEF Enter, Roots
<1>2. CASE h[P].leaf
  <2>1. PICK F, o : LeafGrown(h, t, P, F, o, r.heap) /\ LeafContext(r.heap, t, P, o, r.c)
    BY <1>2, LeafRoot DEF LeafMade
  <2>2. LeafEnters(h, cx, t, P, fr, np, F, o, r.heap, r.c, cx1)
    BY <1>1, <2>1 DEF LeafEnters
  <2>3. PICK g, d : g = r.heap /\ d = r.c
    OBVIOUS
  <2>4. LeafEnters(h, cx, t, P, fr, np, F, o, g, d, cx1)
    BY ONLY <2>2, <2>3
  <2>5. Good(g, cx1, fr, np) /\ Quiet(h, cx, g, cx1)
    BY ONLY <2>4, LeafGood
  <2>6. QED
    BY ONLY <2>3, <2>5
<1>3. CASE ~ h[P].leaf
  <2>1. Goes(h, cx, c, t, fr, np)
    <3>1. CASE Len(h[P].keys) < MaxKeys
      BY <1>3, <3>1, InnerRoot
    <3>2. CASE ~ (Len(h[P].keys) < MaxKeys)
      BY <1>3, <3>2, FullRoot
    <3>3. QED
      BY <3>1, <3>2
  <2>2. PICK f, e, F : /\ Starts(h, cx, f, t, e, {}, F, fr, np, 1) /\ HandleInit(h, c) = UpdateCow(f, e)
                       /\ SameTicket(c, e)
    BY <2>1 DEF Goes
  <2>3. r = UpdateCow(f, e)
    BY <2>2
  <2>4. CanUpdate(f, e)
    BY <2>2 DEF Starts, Begins, Copies
  <2>5. SameTicket(e, r.c)
    BY <2>3, <2>4, UpdateCowIs DEF Updated
  <2>6. IsContext(r.c) /\ r.c.pos = 1 /\ r.c.at = "pipe"
    BY <2>2, <2>5 DEF SameTicket
  <2>7. PICK d : d = r.c
    OBVIOUS
  <2>8. AtStage(r.c, d)
    BY <2>6, <2>7 DEF AtStage
  <2>9. Place(d, np) = 1 /\ Becomes(cx, cx1, t, d)
    BY <2>6, <2>7 DEF Place
  <2>10. {} \subseteq Open(h, cx)
    OBVIOUS
  <2>11. QED
    BY <1>1, <2>2, <2>3, <2>8, <2>9, <2>10, StartsGood
<1>4. QED
  BY <1>2, <1>3
=============================================================================
