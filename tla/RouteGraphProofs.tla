-------------------------- MODULE RouteGraphProofs --------------------------
(***************************************************************************)
(* What the search of RouteGraph returns, for every document and every     *)
(* choice of efforts.  The arguments along a route are inductions, done by *)
(* looking at the first place where the claim fails.                       *)
(***************************************************************************)
EXTENDS RouteGraph, LeastNumber, FiniteSetTheorems, SequenceTheorems, TLAPS

USE ConstantsAssumption

-----------------------------------------------------------------------------
(* The effort of a path *)

\* The running totals of a path, as a function that satisfies the recursion.
IsTotal(h, g, path) ==
    /\ h \in [0 .. Len(path) -> Nat]
    /\ h[0] = 0
    /\ \A i \in 1 .. Len(path) : h[i] = h[i - 1] + g.effort[path[i]]

\* Every path has running totals.
LEMMA TotalExists ==
  ASSUME NEW g, IsDocument(g), NEW path \in Seq(g.choices)
  PROVE  \E h : IsTotal(h, g, path)
<1> DEFINE Up(h, k) ==
      h \in [0 .. k -> Nat] /\ h[0] = 0 /\ \A i \in 1 .. k : h[i] = h[i - 1] + g.effort[path[i]]
           T == {k \in 0 .. Len(path) : ~ \E h : Up(h, k)}
<1>0. \A i \in 1 .. Len(path) : g.effort[path[i]] \in Nat
  BY DEF IsDocument
<1>1. T = {}
  <2> SUFFICES ASSUME T # {} PROVE FALSE
    OBVIOUS
  <2>1. PICK k \in T : \A y \in T : k <= y
    <3>1. T \in SUBSET Nat
      OBVIOUS
    <3> HIDE DEF T
    <3> QED BY <3>1, LeastElement
  <2>2. k # 0
    <3> SUFFICES ASSUME k = 0 PROVE FALSE
      OBVIOUS
    <3>1. Up([i \in 0 .. 0 |-> 0], 0)
      OBVIOUS
    <3> QED BY <2>1, <3>1
  <2>3. PICK h : Up(h, k - 1)
    <3>1. k - 1 \in 0 .. Len(path) /\ ~ (k <= k - 1)
      BY <2>1, <2>2
    <3> QED BY <2>1, <3>1
  <2> DEFINE f == [i \in 0 .. k |-> IF i = k THEN h[k - 1] + g.effort[path[k]] ELSE h[i]]
  <2>4. Up(f, k)
    <3>1. k \in 1 .. Len(path) /\ k - 1 \in 0 .. (k - 1)
      BY <2>1, <2>2
    <3>2. h[k - 1] \in Nat /\ g.effort[path[k]] \in Nat
      BY <2>3, <3>1, <1>0
    <3>3. f \in [0 .. k -> Nat] /\ f[0] = 0
      BY <2>3, <3>1, <3>2
    <3>4. ASSUME NEW i \in 1 .. k PROVE f[i] = f[i - 1] + g.effort[path[i]]
      BY <2>3, <3>1, <3>2
    <3> QED BY <3>3, <3>4
  <2> QED BY <2>1, <2>4
<1>2. Len(path) \in 0 .. Len(path)
  OBVIOUS
<1> QED BY <1>1, <1>2 DEF IsTotal

\* The recursive function of Effort is such a function.
LEMMA EffortTotal ==
  ASSUME NEW g, IsDocument(g), NEW path \in Seq(g.choices)
  PROVE  \E h : IsTotal(h, g, path) /\ Effort(g, path) = h[Len(path)]
<1> DEFINE R(h) == h = [i \in 0 .. Len(path) |->
                          IF i = 0 THEN 0 ELSE h[i - 1] + g.effort[path[i]]]
           total == CHOOSE h : h = [i \in 0 .. Len(path) |->
                          IF i = 0 THEN 0 ELSE h[i - 1] + g.effort[path[i]]]
<1>1. PICK f : IsTotal(f, g, path)
  BY TotalExists
<1>2. R(f)
  BY <1>1 DEF IsTotal
<1>3. R(CHOOSE h : R(h))
  <2> HIDE DEF R
  <2> QED BY <1>2
<1>4. R(total)
  BY <1>3
<1>5. Effort(g, path) = total[Len(path)]
  BY Zenon DEF Effort
<1>6. IsTotal(total, g, path)
  <2> HIDE DEF total
  <2> DEFINE T == {k \in 0 .. Len(path) : total[k] \notin Nat}
  <2>1. T = {}
    <3> SUFFICES ASSUME T # {} PROVE FALSE
      OBVIOUS
    <3>1. PICK k \in T : \A y \in T : k <= y
      <4>1. T \in SUBSET Nat
        OBVIOUS
      <4> HIDE DEF T
      <4> QED BY <4>1, LeastElement
    <3>2. k # 0
      BY <1>4, <3>1
    <3>3. k - 1 \in 0 .. Len(path) /\ ~ (k <= k - 1) /\ k \in 1 .. Len(path)
      BY <3>1, <3>2
    <3>4. total[k - 1] \in Nat
      BY <3>1, <3>3
    <3>5. g.effort[path[k]] \in Nat
      BY <3>3 DEF IsDocument
    <3>6. total[k] = total[k - 1] + g.effort[path[k]]
      BY <1>4, <3>3
    <3> QED BY <3>1, <3>4, <3>5, <3>6
  <2>2. total \in [0 .. Len(path) -> Nat]
    BY <1>4, <2>1
  <2> QED BY <1>4, <2>2 DEF IsTotal
<1> QED BY <1>5, <1>6

SumsUp(h, g, path, n) ==
    h[0] = 0 /\ \A i \in 1 .. n : h[i] = h[i - 1] + g.effort[path[i]]

\* Running totals are determined by the path.
LEMMA TotalUnique ==
  ASSUME NEW g, IsDocument(g), NEW path \in Seq(g.choices), NEW n \in 0 .. Len(path),
         NEW h, SumsUp(h, g, path, n), NEW f, SumsUp(f, g, path, n)
  PROVE  h[n] = f[n]
<1> USE DEF SumsUp
<1> DEFINE T == {k \in 0 .. n : h[k] # f[k]}
<1>1. T = {}
  <2> SUFFICES ASSUME T # {} PROVE FALSE
    OBVIOUS
  <2>1. PICK k \in T : \A y \in T : k <= y
    <3>1. T \in SUBSET Nat
      OBVIOUS
    <3> HIDE DEF T
    <3> QED BY <3>1, LeastElement
  <2>2. k # 0
    BY <2>1
  <2>3. k - 1 \in 0 .. n /\ ~ (k <= k - 1) /\ k \in 1 .. n
    BY <2>1, <2>2
  <2>4. h[k - 1] = f[k - 1]
    BY <2>1, <2>3
  <2> QED BY <2>1, <2>3, <2>4
<1>2. n \in 0 .. n
  OBVIOUS
<1> QED BY <1>1, <1>2

LEMMA EffortEmpty ==
  ASSUME NEW g, IsDocument(g)
  PROVE  Effort(g, <<>>) = 0
<1>1. <<>> \in Seq(g.choices) /\ Len(<<>>) = 0
  OBVIOUS
<1>2. PICK h : IsTotal(h, g, <<>>) /\ Effort(g, <<>>) = h[Len(<<>>)]
  BY <1>1, EffortTotal
<1> QED BY <1>1, <1>2 DEF IsTotal

\* One more choice adds its effort.
LEMMA EffortAppend ==
  ASSUME NEW g, IsDocument(g), NEW path \in Seq(g.choices), NEW c \in g.choices
  PROVE  /\ Effort(g, path) \in Nat
         /\ Effort(g, Append(path, c)) = Effort(g, path) + g.effort[c]
<1> DEFINE n == Len(path)
           longer == Append(path, c)
<1>1. PICK f : IsTotal(f, g, path) /\ Effort(g, path) = f[n]
  BY EffortTotal
<1>2. longer \in Seq(g.choices) /\ Len(longer) = n + 1 /\ n \in Nat /\ longer[n + 1] = c
  OBVIOUS
<1>3. \A i \in 1 .. n : longer[i] = path[i]
  OBVIOUS
<1>4. PICK h : IsTotal(h, g, longer) /\ Effort(g, longer) = h[n + 1]
  BY <1>2, EffortTotal
<1> HIDE DEF n, longer
<1>5. h[n + 1] = h[n] + g.effort[c]
  BY <1>2, <1>4 DEF IsTotal
<1>6. h[n] = f[n]
  <2>1. n \in 0 .. Len(path) /\ n = Len(path)
    BY DEF n
  <2>2. SumsUp(f, g, path, n)
    BY <1>1, <2>1 DEF IsTotal, SumsUp
  <2>3. SumsUp(h, g, path, n)
    <3>1. h[0] = 0
      BY <1>4 DEF IsTotal
    <3>2. ASSUME NEW i \in 1 .. n PROVE h[i] = h[i - 1] + g.effort[path[i]]
      <4>1. i \in 1 .. Len(longer) /\ longer[i] = path[i]
        BY <1>2, <1>3
      <4> QED BY <1>4, <4>1 DEF IsTotal
    <3> QED BY <3>1, <3>2 DEF SumsUp
  <2> QED BY <2>1, <2>2, <2>3, TotalUnique
<1>7. f[n] \in Nat
  BY <1>1, <1>2 DEF IsTotal, n
<1> QED BY <1>1, <1>4, <1>5, <1>6, <1>7 DEF n, longer

-----------------------------------------------------------------------------
(* The order of ranks *)

\* What has a rank: its effort and the identifiers of its choices.
IsRank(r) == r.cost \in Nat /\ r.path \in Seq(Nat)

\* The rank of a is that of b or comes before it.
AtMost(a, b) ==
    \/ RankBefore(a, b)
    \/ a.cost = b.cost /\ a.path = b.path

\* t is s followed by x.
Appended(t, s, x) ==
    /\ Len(s) \in Nat /\ t # <<>>
    /\ Len(t) = Len(s) + 1 /\ t[Len(s) + 1] = x
    /\ \A i \in 1 .. Len(s) : t[i] = s[i]

LEMMA AppendFacts ==
  ASSUME NEW S, NEW s \in Seq(S), NEW x \in S
  PROVE  Append(s, x) \in Seq(S) /\ Appended(Append(s, x), s, x)
  BY DEF Appended

\* Where p and q first differ, q goes on with a greater choice or p has ended.
Parts(p, q, i) ==
    /\ i \in 1 .. Len(q) /\ i <= Len(p) + 1
    /\ \A j \in 1 .. i - 1 : p[j] = q[j]
    /\ i <= Len(p) => p[i] < q[i]

LEMMA PathBeforeParts ==
  ASSUME NEW p, NEW q
  PROVE  PathBefore(p, q) <=> \E i : Parts(p, q, i)
  BY DEF PathBefore, Parts

\* Of two different paths one comes before the other: look at the first place
\* where one has ended or they differ.
LEMMA PathsCompare ==
  ASSUME NEW p \in Seq(Nat), NEW q \in Seq(Nat), p # q
  PROVE  PathBefore(p, q) \/ PathBefore(q, p)
<1> DEFINE m == Len(p)
           n == Len(q)
           T == {i \in Nat : i >= 1 /\ (i > m \/ i > n \/ p[i] # q[i])}
<1>1. m \in Nat /\ n \in Nat /\ \A i \in 1 .. m : p[i] \in Nat
  OBVIOUS
<1>2. \A i \in 1 .. n : q[i] \in Nat
  OBVIOUS
<1> HIDE DEF m, n
<1>3. m + 1 \in T
  BY <1>1
<1>4. PICK i \in T : \A y \in T : i <= y
  <2>1. T \in SUBSET Nat /\ T # {}
    BY <1>3
  <2> HIDE DEF T
  <2> QED BY <2>1, LeastElement
<1>5. /\ i \in Nat /\ i >= 1 /\ (i > m \/ i > n \/ p[i] # q[i])
      /\ i <= m + 1
  BY <1>3, <1>4
<1>6. \A j \in 1 .. i - 1 : j <= m /\ j <= n /\ p[j] = q[j]
  <2> TAKE j \in 1 .. i - 1
  <2>1. j \in Nat /\ j >= 1 /\ ~ (i <= j)
    BY <1>5
  <2>2. j \notin T
    BY <1>4, <2>1
  <2> QED BY <1>1, <2>1, <2>2
<1>7. i <= n + 1
  <2>1. i = 1 \/ i - 1 \in 1 .. i - 1
    BY <1>5
  <2>2. i = 1 \/ i - 1 <= n
    BY <1>6, <2>1
  <2> QED BY <1>1, <1>5, <2>2
<1>8. CASE i <= m /\ i <= n
  <2>1. p[i] # q[i] /\ p[i] \in Nat /\ q[i] \in Nat
    BY <1>1, <1>2, <1>5, <1>8
  <2>2. CASE p[i] < q[i]
    <3>1. Parts(p, q, i)
      BY <1>1, <1>5, <1>6, <1>8, <2>2 DEF Parts, m, n
    <3> QED BY <3>1, PathBeforeParts
  <2>3. CASE q[i] < p[i]
    <3>1. Parts(q, p, i)
      BY <1>1, <1>5, <1>6, <1>8, <2>3 DEF Parts, m, n
    <3> QED BY <3>1, PathBeforeParts
  <2> QED BY <2>1, <2>2, <2>3
<1>9. CASE i > m /\ i <= n
  <2>1. Parts(p, q, i)
    BY <1>1, <1>5, <1>6, <1>9 DEF Parts, m, n
  <2> QED BY <2>1, PathBeforeParts
<1>10. CASE i <= m /\ i > n
  <2>1. Parts(q, p, i)
    BY <1>1, <1>5, <1>6, <1>7, <1>10 DEF Parts, m, n
  <2> QED BY <2>1, PathBeforeParts
<1>11. CASE i > m /\ i > n
  <2>1. m = n /\ i = m + 1
    BY <1>1, <1>5, <1>7, <1>11
  <2>2. \A j \in 1 .. m : p[j] = q[j]
    BY <1>1, <1>6, <2>1
  <2>3. Len(p) = Len(q) /\ \A j \in 1 .. Len(p) : p[j] = q[j]
    BY <2>1, <2>2 DEF m, n
  <2> QED BY <2>3, SeqEqual
<1> QED BY <1>1, <1>5, <1>8, <1>9, <1>10, <1>11

\* A place before another one.
LEMMA EarlierPlace ==
  ASSUME NEW a \in Nat, NEW b \in Nat, NEW c \in Nat,
         NEW i \in 1 .. b, i <= a + 1, NEW k \in 1 .. c, k <= b + 1
  PROVE  /\ k < i => k \in 1 .. i - 1 /\ k <= a /\ k <= b
         /\ i < k => i \in 1 .. k - 1 /\ i \in 1 .. c
  OBVIOUS

\* The earlier of the two places where neighbours differ is where the outer ones do.
LEMMA PathBeforeTransitive ==
  ASSUME NEW p \in Seq(Nat), NEW q \in Seq(Nat), NEW r \in Seq(Nat),
         PathBefore(p, q), PathBefore(q, r)
  PROVE  PathBefore(p, r)
<1>1. PICK i : Parts(p, q, i)
  BY PathBeforeParts
<1>2. PICK k : Parts(q, r, k)
  BY PathBeforeParts
<1>3. \A j \in 1 .. Len(p) : p[j] \in Nat
  OBVIOUS
<1>4. /\ \A j \in 1 .. Len(q) : q[j] \in Nat
      /\ \A j \in 1 .. Len(r) : r[j] \in Nat
  OBVIOUS
<1>5. /\ i \in 1 .. Len(q) /\ i <= Len(p) + 1 /\ k \in 1 .. Len(r) /\ k <= Len(q) + 1
      /\ Len(p) \in Nat /\ Len(q) \in Nat /\ Len(r) \in Nat
  <2>1. Len(p) \in Nat /\ Len(q) \in Nat /\ Len(r) \in Nat
    OBVIOUS
  <2>2. i \in 1 .. Len(q) /\ i <= Len(p) + 1
    BY <1>1, Zenon DEF Parts
  <2>3. k \in 1 .. Len(r) /\ k <= Len(q) + 1
    BY <1>2, Zenon DEF Parts
  <2> QED BY <2>1, <2>2, <2>3
<1>6. CASE i < k
  <2>1. i \in 1 .. Len(r) /\ i <= Len(p) + 1 /\ i \in 1 .. k - 1
    BY <1>5, <1>6, EarlierPlace, Zenon
  <2>2. q[i] = r[i]
    BY <1>2, <2>1 DEF Parts
  <2>3. \A j \in 1 .. i - 1 : p[j] = r[j]
    <3> TAKE j \in 1 .. i - 1
    <3>1. j \in 1 .. k - 1
      BY <1>5, <2>1
    <3> QED BY <1>1, <1>2, <3>1, Zenon DEF Parts
  <2>4. Parts(p, r, i)
    BY <1>1, <2>1, <2>2, <2>3 DEF Parts
  <2> QED BY <2>4, PathBeforeParts
<1>7. CASE k < i
  <2>1. k \in 1 .. Len(r) /\ k \in 1 .. i - 1 /\ k <= Len(p) /\ k <= Len(q)
    BY <1>5, <1>7, EarlierPlace, Zenon
  <2>2. p[k] = q[k]
    BY <1>1, <2>1, Zenon DEF Parts
  <2>3. q[k] < r[k]
    BY <1>2, <2>1, Zenon DEF Parts
  <2>4. \A j \in 1 .. k - 1 : p[j] = r[j]
    <3> TAKE j \in 1 .. k - 1
    <3>1. j \in 1 .. i - 1
      BY <1>5, <2>1
    <3> QED BY <1>1, <1>2, <3>1, Zenon DEF Parts
  <2>5. Parts(p, r, k)
    BY <1>5, <2>1, <2>2, <2>3, <2>4 DEF Parts
  <2> QED BY <2>5, PathBeforeParts
<1>8. CASE i = k
  <2>1. i \in 1 .. Len(q) /\ i \in 1 .. Len(r) /\ i <= Len(p) + 1
    BY <1>5, <1>8
  <2>2. q[i] < r[i] /\ q[i] \in Nat /\ r[i] \in Nat
    BY <1>2, <1>4, <1>8, <2>1 DEF Parts
  <2>3. i <= Len(p) => p[i] < r[i]
    <3> HAVE i <= Len(p)
    <3>1. p[i] < q[i] /\ p[i] \in Nat
      BY <1>1, <1>3, <2>1 DEF Parts
    <3> QED BY <2>2, <3>1
  <2>4. \A j \in 1 .. i - 1 : p[j] = r[j]
    BY <1>1, <1>2, <1>8 DEF Parts
  <2>5. Parts(p, r, i)
    BY <2>1, <2>3, <2>4 DEF Parts
  <2> QED BY <2>5, PathBeforeParts
<1> QED BY <1>5, <1>6, <1>7, <1>8

LEMMA RanksCompare ==
  ASSUME NEW a, NEW b, IsRank(a), IsRank(b), ~ RankBefore(a, b)
  PROVE  AtMost(b, a)
<1>1. a.cost \in Nat /\ b.cost \in Nat /\ a.path \in Seq(Nat) /\ b.path \in Seq(Nat)
  BY DEF IsRank
<1>2. b.cost < a.cost \/ (a.cost = b.cost /\ ~ PathBefore(a.path, b.path))
  BY <1>1 DEF RankBefore
<1>3. a.path = b.path \/ PathBefore(a.path, b.path) \/ PathBefore(b.path, a.path)
  BY <1>1, PathsCompare
<1> QED BY <1>2, <1>3 DEF AtMost, RankBefore

LEMMA AtMostTransitive ==
  ASSUME NEW a, NEW b, NEW c, IsRank(a), IsRank(b), IsRank(c), AtMost(a, b), AtMost(b, c)
  PROVE  AtMost(a, c)
<1>1. /\ a.cost \in Nat /\ b.cost \in Nat /\ c.cost \in Nat
      /\ a.path \in Seq(Nat) /\ b.path \in Seq(Nat) /\ c.path \in Seq(Nat)
  BY DEF IsRank
<1>2. /\ a.cost < b.cost \/ (a.cost = b.cost /\ (a.path = b.path \/ PathBefore(a.path, b.path)))
      /\ b.cost < c.cost \/ (b.cost = c.cost /\ (b.path = c.path \/ PathBefore(b.path, c.path)))
  BY DEF AtMost, RankBefore
<1>3. PathBefore(a.path, b.path) /\ PathBefore(b.path, c.path) => PathBefore(a.path, c.path)
  BY <1>1, PathBeforeTransitive
<1>4. a.cost < c.cost \/ (a.cost = c.cost /\ (a.path = c.path \/ PathBefore(a.path, c.path)))
  BY <1>1, <1>2, <1>3
<1> QED BY <1>4 DEF AtMost, RankBefore

\* The rank of what follows choice c from a place of rank r.
Longer(g, r, c) == [cost |-> r.cost + g.effort[c], path |-> Append(r.path, c)]

Starts(p, q) == Len(p) < Len(q) /\ \A j \in 1 .. Len(p) : p[j] = q[j]

\* Following the same choice keeps the order of two paths, unless one is where
\* the other starts.
LEMMA AppendingKeepsOrder ==
  ASSUME NEW p \in Seq(Nat), NEW q \in Seq(Nat), NEW c \in Nat, PathBefore(p, q)
  PROVE  Starts(p, q) \/ PathBefore(Append(p, c), Append(q, c))
<1>1. PICK i : Parts(p, q, i)
  BY PathBeforeParts
<1> DEFINE longP == Append(p, c)
           longQ == Append(q, c)
<1>2. /\ Appended(longP, p, c) /\ Appended(longQ, q, c) /\ Len(q) \in Nat
  BY AppendFacts
<1> HIDE DEF longP, longQ
<1>3. CASE i <= Len(p)
  <2>1. i \in 1 .. Len(p) /\ i \in 1 .. Len(q) /\ Len(p) \in Nat
    BY <1>1, <1>2, <1>3 DEF Parts, Appended
  <2>2. longP[i] < longQ[i]
    BY <1>1, <1>2, <1>3, <2>1 DEF Parts, Appended
  <2>3. \A j \in 1 .. i - 1 : longP[j] = longQ[j]
    <3> TAKE j \in 1 .. i - 1
    <3>1. j \in 1 .. Len(p) /\ j \in 1 .. Len(q)
      BY <1>2, <2>1
    <3> QED BY <1>1, <1>2, <3>1 DEF Parts, Appended
  <2>4. Parts(longP, longQ, i)
    BY <1>2, <2>1, <2>2, <2>3 DEF Parts, Appended
  <2> QED BY <2>4, PathBeforeParts DEF longP, longQ
<1>4. CASE i > Len(p)
  <2>1. i = Len(p) + 1 /\ Len(p) \in Nat
    BY <1>1, <1>2, <1>4 DEF Parts, Appended
  <2>2. Len(p) < Len(q) /\ 1 .. i - 1 = 1 .. Len(p)
    BY <1>1, <1>2, <2>1 DEF Parts
  <2> QED BY <1>1, <2>2 DEF Parts, Starts
<1>5. i \in Int /\ Len(p) \in Int
  BY <1>1, <1>2 DEF Parts, Appended
<1> QED BY <1>3, <1>4, <1>5

LEMMA LongerKeepsOrder ==
  ASSUME NEW g, NEW c \in Nat, g.effort[c] \in Nat,
         NEW a, NEW b, IsRank(a), IsRank(b), AtMost(a, b)
  PROVE  Starts(a.path, b.path) \/ AtMost(Longer(g, a, c), Longer(g, b, c))
<1>1. /\ a.cost \in Nat /\ b.cost \in Nat
      /\ a.path \in Seq(Nat) /\ b.path \in Seq(Nat)
  BY DEF IsRank
<1>2. a.cost < b.cost \/ (a.cost = b.cost /\ (a.path = b.path \/ PathBefore(a.path, b.path)))
  BY DEF AtMost, RankBefore
<1>3. PathBefore(a.path, b.path) =>
        Starts(a.path, b.path) \/ PathBefore(Append(a.path, c), Append(b.path, c))
  BY <1>1, AppendingKeepsOrder
<1>4. /\ Longer(g, a, c).cost = a.cost + g.effort[c] /\ Longer(g, a, c).path = Append(a.path, c)
      /\ Longer(g, b, c).cost = b.cost + g.effort[c] /\ Longer(g, b, c).path = Append(b.path, c)
  BY DEF Longer
<1>5. a.cost < b.cost => Longer(g, a, c).cost < Longer(g, b, c).cost
  BY <1>1, <1>4
<1> QED BY <1>2, <1>3, <1>4, <1>5 DEF AtMost, RankBefore

\* A place comes before what follows it.
LEMMA LongerIsLater ==
  ASSUME NEW g, NEW c \in Nat, g.effort[c] \in Nat, NEW a, IsRank(a)
  PROVE  IsRank(Longer(g, a, c)) /\ AtMost(a, Longer(g, a, c))
<1>1. a.cost \in Nat /\ a.path \in Seq(Nat)
  BY DEF IsRank
<1>2. Append(a.path, c) \in Seq(Nat) /\ Appended(Append(a.path, c), a.path, c)
  BY <1>1, AppendFacts
<1>3. /\ Longer(g, a, c).cost = a.cost + g.effort[c]
      /\ Longer(g, a, c).path = Append(a.path, c)
  BY DEF Longer
<1>4. IsRank(Longer(g, a, c))
  BY <1>1, <1>2, <1>3 DEF IsRank
<1>5. PathBefore(a.path, Append(a.path, c))
  <2> DEFINE i == Len(a.path) + 1
             q == Append(a.path, c)
  <2>1. Appended(q, a.path, c)
    BY <1>2
  <2> HIDE DEF q
  <2>2. i \in 1 .. Len(q) /\ 1 .. i - 1 = 1 .. Len(a.path) /\ ~ (i <= Len(a.path))
    BY <2>1 DEF Appended
  <2>3. Parts(a.path, q, i)
    <3>1. \A j \in 1 .. i - 1 : a.path[j] = q[j]
      BY <2>1, <2>2 DEF Appended
    <3> QED BY <2>2, <3>1 DEF Parts
  <2> QED BY <2>3, PathBeforeParts DEF q
<1> QED BY <1>1, <1>3, <1>4, <1>5 DEF AtMost, RankBefore

-----------------------------------------------------------------------------
(* The inductive invariant *)

\* An entry of the heap describes a way through the graph.
IsWalk(g, e) ==
    /\ e.path \in Seq(g.choices) /\ e.node \in g.nodes
    /\ Connected(g, e.path, e.node)
    /\ e.cost = Effort(g, e.path)
    /\ e.nodes \in Seq(g.nodes) /\ e.nodes # <<>> /\ e.nodes[Len(e.nodes)] = e.node

\* The heap and the settled nodes hold ways through the graph.
Walks ==
    /\ \A e \in queue : IsWalk(graph, e)
    /\ \A n \in DOMAIN best : Connected(graph, best[n].path, n)

\* Node n is settled, or waits in the heap, with rank r or an earlier one.
Reached(n, r) ==
    \/ n \in DOMAIN best /\ AtMost(best[n], r)
    \/ \E o \in queue : o.node = n /\ AtMost(o, r)

\* The rank of the entry of the graph.
Zero == [cost |-> 0, path |-> <<>>]

\* What leads out of a settled node has been followed.
Frontier ==
    pc # "validate" /\ Valid(graph) =>
      /\ Reached(graph.entry, Zero)
      /\ \A c \in graph.choices :
           Safe(graph, c) /\ graph.from[c] \in DOMAIN best =>
             Reached(graph.to[c], Longer(graph, best[graph.from[c]], c))

Stages ==
    /\ pc \in {"search", "found"} => Valid(graph)
    /\ pc \in {"validate", "refused"} => queue = {}
    /\ pc = "validate" => DOMAIN best = {}
    /\ pc # "found" => \A n \in DOMAIN best : graph.state[n] # "cancelled"

\* The rank of the recommended route.
Found == [cost |-> result.effort, path |-> result.best_route]

Outcome ==
    pc = "found" =>
      LET last == result.visited_nodes[Len(result.visited_nodes)] IN
      /\ graph.state[last] = "cancelled" /\ Connected(graph, result.best_route, last)
      /\ result.effort = Effort(graph, result.best_route)
      /\ \A o \in queue : AtMost(Found, o)
      /\ \A n \in DOMAIN best : graph.state[n] = "cancelled" => AtMost(Found, best[n])

IInv == TypeOK /\ Walks /\ Frontier /\ Stages /\ Outcome

LEMMA PathsAreNumbers ==
  ASSUME NEW p \in Seq(Choices)
  PROVE  p \in Seq(Nat)
<1>1. Len(p) \in Nat /\ p \in [1 .. Len(p) -> Choices] /\ Choices \subseteq Nat
  OBVIOUS
<1>2. p \in [1 .. Len(p) -> Nat]
  BY <1>1
<1> QED BY <1>1, <1>2

\* Every entry and every settled node has a rank.
LEMMA RanksAreRanks ==
  ASSUME TypeOK
  PROVE  /\ \A e \in queue : IsRank(e)
         /\ \A n \in DOMAIN best : IsRank(best[n])
         /\ \A c \in graph.choices : c \in Nat /\ graph.effort[c] \in Nat
         /\ IsRank(Zero)
<1>1. \A p \in Seq(Choices) : p \in Seq(Nat)
  BY PathsAreNumbers
<1>2. \A e \in queue : IsRank(e)
  BY <1>1 DEF TypeOK, Entry, IsRank
<1>3. \A n \in DOMAIN best : IsRank(best[n])
  BY <1>1 DEF TypeOK, Rank, IsRank
<1>4. \A c \in graph.choices : c \in Nat /\ graph.effort[c] \in Nat
  BY DEF TypeOK, IsDocument
<1>5. IsRank(Zero)
  BY DEF IsRank, Zero
<1> QED BY <1>2, <1>3, <1>4, <1>5

\* A known entry has no better rank than its node, any other one no worse.
LEMMA KnownIsNoWorse ==
  ASSUME TypeOK, NEW e \in queue
  PROVE  /\ Known(e) => e.node \in DOMAIN best /\ AtMost(best[e.node], e)
         /\ ~ Known(e) /\ e.node \in DOMAIN best => AtMost(e, best[e.node])
<1>1. ASSUME Known(e) PROVE e.node \in DOMAIN best /\ AtMost(best[e.node], e)
  <2>1. CASE RankBefore(best[e.node], e)
    BY <1>1, <2>1 DEF Known, AtMost
  <2>2. CASE best[e.node] = [cost |-> e.cost, path |-> e.path]
    BY <1>1, <2>2 DEF Known, AtMost
  <2> QED BY <1>1, <2>1, <2>2 DEF Known
<1>2. ASSUME ~ Known(e), e.node \in DOMAIN best PROVE AtMost(e, best[e.node])
  <2>1. ~ RankBefore(best[e.node], e)
    BY <1>2 DEF Known
  <2>2. IsRank(e) /\ IsRank(best[e.node])
    BY <1>2, RanksAreRanks
  <2> QED BY <2>1, <2>2, RanksCompare
<1> QED BY <1>1, <1>2

\* Settling an entry keeps what was reached.
LEMMA SettlingKeeps ==
  ASSUME TypeOK, NEW e \in queue, ~ Known(e), best' = Settled(e),
         queue \ {e} \subseteq queue', NEW n, NEW r, IsRank(r), Reached(n, r)
  PROVE  Reached(n, r)'
<1>1. IsRank(e) /\ \A m \in DOMAIN best : IsRank(best[m])
  BY RanksAreRanks
<1>2. /\ e.node \in DOMAIN best' /\ best'[e.node].cost = e.cost /\ best'[e.node].path = e.path
      /\ \A m \in DOMAIN best : m # e.node => m \in DOMAIN best' /\ best'[m] = best[m]
  BY DEF Settled
<1>3. ASSUME n = e.node, AtMost(e, r) PROVE Reached(n, r)'
  <2>1. AtMost(best'[e.node], r)
    BY <1>2, <1>3 DEF AtMost, RankBefore
  <2> QED BY <1>2, <1>3, <2>1 DEF Reached
<1>4. CASE n \in DOMAIN best /\ AtMost(best[n], r)
  <2>1. CASE n = e.node
    <3>1. AtMost(e, best[n])
      BY <1>4, <2>1, KnownIsNoWorse
    <3>2. AtMost(e, r)
      BY <1>1, <1>4, <3>1, AtMostTransitive
    <3> QED BY <1>3, <2>1, <3>2
  <2>2. CASE n # e.node
    BY <1>2, <1>4, <2>2 DEF Reached
  <2> QED BY <2>1, <2>2
<1>5. ASSUME NEW o \in queue, o.node = n, AtMost(o, r) PROVE Reached(n, r)'
  <2>1. CASE o = e
    BY <1>3, <1>5, <2>1
  <2>2. CASE o # e
    BY <1>5, <2>2 DEF Reached
  <2> QED BY <2>1, <2>2
<1> QED BY <1>4, <1>5 DEF Reached

\* Following a safe choice from the end of a walk gives a walk.
LEMMA ExtendedWalk ==
  ASSUME NEW g, IsDocument(g), ValidTargets(g), NEW e, IsWalk(g, e), e.cost \in Nat,
         NEW c \in g.choices, g.from[c] = e.node, Safe(g, c)
  PROVE  IsWalk(g, Extend(g, e, c)) /\ Extend(g, e, c) \in Entry
<1> DEFINE x == Extend(g, e, c)
<1>1. x = [cost |-> e.cost + g.effort[c], path |-> Append(e.path, c),
           node |-> g.to[c], nodes |-> Append(e.nodes, g.to[c])]
  BY DEF Extend
<1>2. e.path \in Seq(g.choices) /\ e.nodes \in Seq(g.nodes) /\ g.to[c] \in g.nodes
  BY DEF IsWalk, ValidTargets
<1> DEFINE n == Len(e.path)
<1>3. /\ n \in Nat /\ Append(e.path, c) \in Seq(g.choices) /\ Len(Append(e.path, c)) = n + 1
      /\ Append(e.path, c)[n + 1] = c /\ \A i \in 1 .. n : Append(e.path, c)[i] = e.path[i]
  <2>1. Append(e.path, c) \in Seq(g.choices) /\ Appended(Append(e.path, c), e.path, c)
    BY <1>2, AppendFacts
  <2> QED BY <2>1 DEF Appended
<1>4. Connected(g, Append(e.path, c), g.to[c])
  <2> DEFINE p == Append(e.path, c)
  <2>1. /\ n \in Nat /\ p \in Seq(g.choices) /\ Len(p) = n + 1
        /\ p[n + 1] = c /\ \A i \in 1 .. n : p[i] = e.path[i]
    BY <1>3
  <2>2. Connected(g, e.path, e.node) /\ n = Len(e.path)
    BY DEF IsWalk
  <2>3. e.node = IF n = 0 THEN g.entry ELSE g.to[e.path[n]]
    BY <1>2, <2>2 DEF Connected
  <2> HIDE DEF p, n
  <2>4. \A i \in 1 .. Len(p) : p[i] \in g.choices /\ Safe(g, p[i])
    <3> TAKE i \in 1 .. Len(p)
    <3>1. CASE i = n + 1
      BY <2>1, <3>1
    <3>2. CASE i \in 1 .. n
      BY <2>1, <2>2, <3>2 DEF Connected
    <3> QED BY <2>1, <3>1, <3>2
  <2>5. \A i \in 1 .. Len(p) : g.from[p[i]] = IF i = 1 THEN g.entry ELSE g.to[p[i - 1]]
    <3> TAKE i \in 1 .. Len(p)
    <3>1. CASE i = n + 1
      <4>1. CASE n = 0
        BY <2>1, <2>3, <3>1, <4>1
      <4>2. CASE n # 0
        <5>1. p[n] = e.path[n] /\ i - 1 = n /\ i # 1
          BY <2>1, <3>1, <4>2
        <5> QED BY <2>1, <2>3, <3>1, <4>2, <5>1
      <4> QED BY <4>1, <4>2
    <3>2. CASE i \in 1 .. n
      <4>1. i = 1 \/ i - 1 \in 1 .. n
        BY <2>1, <3>2
      <4> QED BY <2>1, <2>2, <3>2, <4>1 DEF Connected
    <3> QED BY <2>1, <3>1, <3>2
  <2>6. p # <<>> /\ g.to[c] = g.to[p[Len(p)]]
    BY <2>1
  <2>7. Connected(g, p, g.to[c])
    BY <2>4, <2>5, <2>6 DEF Connected
  <2> QED BY <2>7 DEF p
<1>5. /\ Effort(g, Append(e.path, c)) = e.cost + g.effort[c] /\ g.effort[c] \in Nat
  <2>1. g.effort[c] \in Nat
    BY DEF IsDocument
  <2> QED BY <1>2, <2>1, EffortAppend DEF IsWalk
<1>6. /\ Append(e.nodes, g.to[c]) \in Seq(g.nodes) /\ Append(e.nodes, g.to[c]) # <<>>
      /\ Append(e.nodes, g.to[c])[Len(Append(e.nodes, g.to[c]))] = g.to[c]
  <2>1. /\ Append(e.nodes, g.to[c]) \in Seq(g.nodes)
        /\ Appended(Append(e.nodes, g.to[c]), e.nodes, g.to[c])
    BY <1>2, AppendFacts
  <2> QED BY <2>1 DEF Appended
<1>7. IsWalk(g, x)
  <2>1. x.path = Append(e.path, c) /\ x.node = g.to[c] /\ x.cost = e.cost + g.effort[c]
        /\ x.nodes = Append(e.nodes, g.to[c])
    BY <1>1
  <2> HIDE DEF x
  <2> QED BY <1>2, <1>3, <1>4, <1>5, <1>6, <2>1 DEF IsWalk
<1>8. x \in Entry
  <2>1. Append(e.path, c) \in Seq(Choices) /\ Append(e.nodes, g.to[c]) \in Seq(Nodes)
        /\ g.to[c] \in Nodes
    BY <1>2, <1>3, <1>6 DEF IsDocument
  <2> QED BY <1>1, <1>5, <2>1 DEF Entry
<1> QED BY <1>7, <1>8

LEMMA StartWalk ==
  ASSUME NEW g, IsDocument(g), g.entry \in g.nodes
  PROVE  IsWalk(g, Start(g)) /\ Start(g) \in Entry
<1>1. Start(g) = [cost |-> 0, path |-> <<>>, node |-> g.entry, nodes |-> <<g.entry>>]
  BY DEF Start
<1>2. /\ <<>> \in Seq(g.choices) /\ <<>> \in Seq(Choices) /\ Len(<<>>) = 0
      /\ <<g.entry>> \in Seq(g.nodes) /\ <<g.entry>> # <<>> /\ g.entry \in Nodes
      /\ <<g.entry>>[Len(<<g.entry>>)] = g.entry
  BY DEF IsDocument
<1>3. Connected(g, <<>>, g.entry)
  BY <1>2 DEF Connected
<1>4. Start(g) \in Entry
  <2>1. <<g.entry>> \in Seq(Nodes)
    BY <1>2
  <2> QED BY <1>1, <1>2, <2>1 DEF Entry
<1> QED BY <1>1, <1>2, <1>3, <1>4, EffortEmpty DEF IsWalk

\* What analyze_graph counts is a number.
LEMMA FrictionType ==
  ASSUME NEW g, IsDocument(g), NEW e, e.cost \in Nat, e.nodes \in Seq(g.nodes)
  PROVE  Friction(g, e) \in [screens : Nat, retention_offers : Nat, loops : Nat,
                             offline_handoff : BOOLEAN, effort_score : Nat]
<1>1. ASSUME NEW effect PROVE Count(g, effect) \in Nat
  <2> DEFINE S == {c \in g.choices : g.effect[c] = effect}
  <2>1. IsFiniteSet(S)
    BY FS_Subset DEF IsDocument
  <2> QED BY <2>1, FS_CardinalityType DEF Count
<1> DEFINE screens == {i \in DOMAIN e.nodes : ~ IsTerminal(g, e.nodes[i])}
           offline == \/ \E n \in Visited(e) : g.kind[n] = "handoff"
                      \/ \E c \in Taken(e) : g.effect[c] = "handoff"
           score == e.cost + Count(g, "retain") + 2 * Count(g, "loop")
                      + (IF offline THEN 5 ELSE 0)
<1>2. Cardinality(screens) \in Nat
  <2>1. Len(e.nodes) \in Nat /\ DOMAIN e.nodes = 1 .. Len(e.nodes)
    OBVIOUS
  <2>2. IsFiniteSet(DOMAIN e.nodes)
    BY <2>1, FS_Interval
  <2>3. IsFiniteSet(screens)
    BY <2>2, FS_Subset
  <2> QED BY <2>3, FS_CardinalityType
<1>3. offline \in BOOLEAN
  BY Zenon
<1>4. score \in Nat
  <2>1. Count(g, "retain") \in Nat /\ Count(g, "loop") \in Nat
    BY <1>1
  <2> HIDE DEF offline
  <2> QED BY <2>1
<1>5. Friction(g, e) = [screens |-> Cardinality(screens), retention_offers |-> Count(g, "retain"),
                        loops |-> Count(g, "loop"), offline_handoff |-> offline,
                        effort_score |-> score]
  BY DEF Friction
<1> HIDE DEF screens, offline, score
<1> QED BY <1>1, <1>2, <1>3, <1>4, <1>5

LEMMA InitInvariant == Init => IInv
<1> SUFFICES ASSUME Init PROVE IInv
  OBVIOUS
<1>1. IsDocument(graph) /\ DOMAIN best = {} /\ queue = {} /\ pc = "validate" /\ result = None
  BY DEF Init
<1>2. TypeOK
  BY <1>1 DEF TypeOK
<1>3. Walks /\ Frontier /\ Stages /\ Outcome
  BY <1>1 DEF Walks, Frontier, Stages, Outcome
<1> QED BY <1>2, <1>3 DEF IInv

LEMMA RefuseKeeps == IInv /\ Refuse => IInv'
<1> SUFFICES ASSUME IInv, Refuse PROVE IInv'
  OBVIOUS
<1> USE DEF IInv, Refuse
<1>1. TypeOK'
  BY DEF TypeOK, Entry, Rank, Route
<1>2. Walks' /\ Frontier' /\ Stages' /\ Outcome'
  BY DEF Walks, Frontier, Stages, Outcome
<1> QED BY <1>1, <1>2

LEMMA AcceptKeeps == IInv /\ Accept => IInv'
<1> SUFFICES ASSUME IInv, Accept PROVE IInv'
  OBVIOUS
<1> USE DEF IInv
<1>1. /\ pc = "validate" /\ Valid(graph) /\ pc' = "search" /\ queue' = {Start(graph)}
      /\ graph' = graph /\ best' = best /\ result' = result /\ DOMAIN best = {}
  BY DEF Accept, Stages
<1>2. IsWalk(graph, Start(graph)) /\ Start(graph) \in Entry
  BY <1>1, StartWalk DEF Valid, HasEntry, TypeOK
<1>3. TypeOK'
  BY <1>1, <1>2 DEF TypeOK
<1>4. Walks'
  BY <1>1, <1>2 DEF Walks
<1>5. Frontier'
  <2>1. Start(graph).node = graph.entry /\ AtMost(Start(graph), Zero)
    BY DEF Start, AtMost, Zero
  <2>2. Reached(graph.entry, Zero)'
    BY <1>1, <2>1 DEF Reached, Zero
  <2> QED BY <1>1, <2>2 DEF Frontier
<1>6. Stages' /\ Outcome'
  BY <1>1 DEF Stages, Outcome
<1> QED BY <1>3, <1>4, <1>5, <1>6

\* A step that keeps what is reached keeps what the settled nodes lead to.
LEMMA FrontierCarries ==
  ASSUME TypeOK, Frontier, Valid(graph), pc # "validate",
         \A n, r : IsRank(r) /\ Reached(n, r) => Reached(n, r)'
  PROVE  /\ \E n, r : n = graph.entry /\ r = Zero /\ Reached(n, r)'
         /\ \A c \in graph.choices : Safe(graph, c) /\ graph.from[c] \in DOMAIN best =>
              \E n, r : /\ n = graph.to[c] /\ r = Longer(graph, best[graph.from[c]], c)
                        /\ Reached(n, r)'
<1>1. \E n, r : n = graph.entry /\ r = Zero /\ Reached(n, r)'
  <2>1. PICK n, r : n = graph.entry /\ r = Zero
    OBVIOUS
  <2>2. Reached(n, r) /\ IsRank(r)
    BY <2>1, RanksAreRanks DEF Frontier
  <2> QED BY <2>1, <2>2
<1>2. ASSUME NEW c \in graph.choices, Safe(graph, c), graph.from[c] \in DOMAIN best
      PROVE  \E n, r : /\ n = graph.to[c] /\ r = Longer(graph, best[graph.from[c]], c)
                       /\ Reached(n, r)'
  <2>1. PICK n, r : n = graph.to[c] /\ r = Longer(graph, best[graph.from[c]], c)
    OBVIOUS
  <2>2. Reached(n, r)
    BY <1>2, <2>1 DEF Frontier
  <2>3. IsRank(best[graph.from[c]]) /\ c \in Nat /\ graph.effort[c] \in Nat
    BY <1>2, RanksAreRanks
  <2>4. IsRank(r)
    BY <2>1, <2>3, LongerIsLater
  <2> QED BY <2>1, <2>2, <2>4
<1> QED BY <1>1, <1>2

LEMMA SkipKeeps == IInv /\ Skip => IInv'
<1> SUFFICES ASSUME IInv, Skip PROVE IInv'
  OBVIOUS
<1> USE DEF IInv
<1>1. PICK e \in queue : Known(e) /\ queue' = queue \ {e}
  BY DEF Skip, IsFirst
<1>2. pc = "search" /\ UNCHANGED <<graph, pc, best, result>>
  BY DEF Skip
<1>3. TypeOK'
  BY <1>1, <1>2 DEF TypeOK
<1>4. Walks'
  BY <1>1, <1>2 DEF Walks
<1>5. ASSUME NEW n, NEW r, IsRank(r), Reached(n, r) PROVE Reached(n, r)'
  <2>1. CASE n \in DOMAIN best /\ AtMost(best[n], r)
    BY <1>2, <2>1 DEF Reached
  <2>2. ASSUME NEW o \in queue, o.node = n, AtMost(o, r) PROVE Reached(n, r)'
    <3>1. CASE o = e
      <4>1. e.node \in DOMAIN best /\ AtMost(best[e.node], e)
        BY <1>1, KnownIsNoWorse
      <4>2. IsRank(e) /\ IsRank(best[e.node])
        BY <4>1, RanksAreRanks
      <4>3. n \in DOMAIN best /\ AtMost(best[n], r)
        BY <1>5, <2>2, <3>1, <4>1, <4>2, AtMostTransitive
      <4> QED BY <1>2, <4>3 DEF Reached
    <3>2. CASE o # e
      BY <1>1, <2>2, <3>2 DEF Reached
    <3> QED BY <3>1, <3>2
  <2> QED BY <1>5, <2>1, <2>2 DEF Reached
<1>6. Frontier'
  <2>1. Valid(graph) /\ pc # "validate"
    BY <1>2 DEF Stages
  <2>2. Reached(graph.entry, Zero)'
    <3>1. PICK n, r : n = graph.entry /\ r = Zero /\ Reached(n, r)'
      BY <1>5, <2>1, FrontierCarries
    <3> QED BY <1>2, <3>1 DEF Reached
  <2>3. ASSUME NEW c \in graph.choices, Safe(graph, c), graph.from[c] \in DOMAIN best
        PROVE  Reached(graph.to[c], Longer(graph, best[graph.from[c]], c))'
    <3>1. PICK n, r : /\ n = graph.to[c] /\ r = Longer(graph, best[graph.from[c]], c)
                      /\ Reached(n, r)'
      BY <1>5, <2>1, <2>3, FrontierCarries
    <3> QED BY <1>2, <3>1 DEF Reached, Longer
  <2> QED BY <1>2, <2>2, <2>3 DEF Frontier
<1>7. Stages' /\ Outcome'
  BY <1>2 DEF Stages, Outcome
<1> QED BY <1>3, <1>4, <1>6, <1>7

\* What Settle and Find do to the settled nodes.
SettledAs(e) ==
    /\ DOMAIN best' \subseteq graph.nodes /\ \A n \in DOMAIN best' : best'[n] \in Rank
    /\ \A n \in DOMAIN best' : Connected(graph, best'[n].path, n)
    /\ e.node \in DOMAIN best' /\ best'[e.node] = [cost |-> e.cost, path |-> e.path]
    /\ \A n \in DOMAIN best' : n # e.node => n \in DOMAIN best /\ best'[n] = best[n]

LEMMA SettledFacts ==
  ASSUME IInv, NEW e \in queue, best' = Settled(e)
  PROVE  SettledAs(e)
<1> USE DEF IInv
<1>1. /\ e.cost \in Nat /\ e.path \in Seq(Choices)
      /\ DOMAIN best \subseteq graph.nodes /\ \A n \in DOMAIN best : best[n] \in Rank
  BY DEF TypeOK, Entry
<1>2. /\ e.node \in graph.nodes /\ Connected(graph, e.path, e.node)
      /\ \A n \in DOMAIN best : Connected(graph, best[n].path, n)
  BY DEF Walks, IsWalk
<1>3. /\ DOMAIN best' = DOMAIN best \cup {e.node}
      /\ best'[e.node] = [cost |-> e.cost, path |-> e.path]
      /\ \A n \in DOMAIN best' : n # e.node => n \in DOMAIN best /\ best'[n] = best[n]
  BY DEF Settled
<1>4. [cost |-> e.cost, path |-> e.path] \in Rank
  BY <1>1 DEF Rank
<1>5. \A n \in DOMAIN best' : best'[n] \in Rank
  BY <1>1, <1>3, <1>4
<1>6. \A n \in DOMAIN best' : Connected(graph, best'[n].path, n)
  <2> TAKE n \in DOMAIN best'
  <2>1. CASE n = e.node
    <3>1. best'[n].path = e.path
      BY <1>3, <2>1
    <3> QED BY <1>2, <2>1, <3>1
  <2>2. CASE n # e.node
    BY <1>2, <1>3, <2>2
  <2> QED BY <2>1, <2>2
<1> QED BY <1>1, <1>2, <1>3, <1>5, <1>6 DEF SettledAs

\* What Settle and Find keep of what was reached.
LEMMA SettledReach ==
  ASSUME IInv, pc = "search", NEW e \in queue, ~ Known(e), best' = Settled(e),
         graph' = graph, queue \ {e} \subseteq queue'
  PROVE  /\ Reached(graph.entry, Zero)'
         /\ \A c \in graph.choices :
              Safe(graph, c) /\ graph.from[c] \in DOMAIN best' /\ graph.from[c] # e.node =>
                Reached(graph.to[c], Longer(graph, best[graph.from[c]], c))'
<1> USE DEF IInv
<1>1. \A n \in DOMAIN best' : n # e.node => n \in DOMAIN best /\ best'[n] = best[n]
  BY SettledFacts DEF SettledAs
<1>2. Valid(graph) /\ pc # "validate"
  BY DEF Stages
<1>3. \A n, r : IsRank(r) /\ Reached(n, r) => Reached(n, r)'
  BY SettlingKeeps
<1>4. Reached(graph.entry, Zero)'
  <2>1. PICK n, r : n = graph.entry /\ r = Zero /\ Reached(n, r)'
    BY <1>2, <1>3, FrontierCarries
  <2> QED BY <2>1 DEF Reached
<1>5. ASSUME NEW c \in graph.choices, Safe(graph, c), graph.from[c] \in DOMAIN best',
             graph.from[c] # e.node
      PROVE  Reached(graph.to[c], Longer(graph, best[graph.from[c]], c))'
  <2>1. graph.from[c] \in DOMAIN best /\ best'[graph.from[c]] = best[graph.from[c]]
    BY <1>1, <1>5
  <2>2. PICK n, r : /\ n = graph.to[c] /\ r = Longer(graph, best[graph.from[c]], c)
                    /\ Reached(n, r)'
    BY <1>2, <1>3, <1>5, <2>1, FrontierCarries
  <2> QED BY <2>1, <2>2 DEF Reached, Longer
<1> QED BY <1>4, <1>5

LEMMA SettleKeeps == IInv /\ Settle => IInv'
<1> SUFFICES ASSUME IInv, Settle PROVE IInv'
  OBVIOUS
<1> USE DEF IInv
<1>1. PICK e \in queue : /\ ~ Known(e) /\ graph.state[e.node] # "cancelled"
                         /\ best' = Settled(e) /\ queue' = (queue \ {e}) \cup Edges(e)
  BY DEF Settle, IsFirst
<1>2. pc = "search" /\ UNCHANGED <<graph, pc, result>> /\ Valid(graph)
  BY DEF Settle, Stages
<1>3. \A x \in Edges(e) : IsWalk(graph, x) /\ x \in Entry
  <2> TAKE x \in Edges(e)
  <2>1. PICK c \in graph.choices : graph.from[c] = e.node /\ Safe(graph, c)
                                   /\ x = Extend(graph, e, c)
    BY DEF Edges, ChoicesOf
  <2>2. IsDocument(graph) /\ ValidTargets(graph) /\ IsWalk(graph, e) /\ e.cost \in Nat
    BY <1>2 DEF TypeOK, Valid, HasEntry, Walks, Entry
  <2> QED BY <2>1, <2>2, ExtendedWalk
<1>4. SettledAs(e)
  BY <1>1, SettledFacts
<1>5. TypeOK'
  BY <1>1, <1>2, <1>3, <1>4 DEF TypeOK, SettledAs
<1>6. Walks'
  BY <1>1, <1>2, <1>3, <1>4 DEF Walks, SettledAs
<1>7. Frontier'
  <2>1. /\ Reached(graph.entry, Zero)'
        /\ \A c \in graph.choices :
             Safe(graph, c) /\ graph.from[c] \in DOMAIN best' /\ graph.from[c] # e.node =>
               Reached(graph.to[c], Longer(graph, best[graph.from[c]], c))'
    BY <1>1, <1>2, SettledReach
  <2>2. ASSUME NEW c \in graph.choices, Safe(graph, c), graph.from[c] \in DOMAIN best'
        PROVE  Reached(graph.to[c], Longer(graph, best[graph.from[c]], c))'
    <3>1. CASE graph.from[c] = e.node
      <4>1. Extend(graph, e, c) \in queue'
        BY <1>1, <2>2, <3>1 DEF Edges, ChoicesOf
      <4>2. best'[graph.from[c]] = [cost |-> e.cost, path |-> e.path]
        BY <1>4, <3>1 DEF SettledAs
      <4>3. /\ Extend(graph, e, c).node = graph.to[c]
            /\ Extend(graph, e, c).cost = Longer(graph, best'[graph.from[c]], c).cost
            /\ Extend(graph, e, c).path = Longer(graph, best'[graph.from[c]], c).path
        BY <4>2 DEF Extend, Longer
      <4>4. AtMost(Extend(graph, e, c), Longer(graph, best'[graph.from[c]], c))
        BY <4>3 DEF AtMost
      <4>5. Longer(graph, best'[graph.from[c]], c) = Longer(graph', best'[graph'.from[c]], c)
        BY <1>2
      <4> QED BY <1>2, <4>1, <4>3, <4>4, <4>5 DEF Reached
    <3>2. CASE graph.from[c] # e.node
      BY <2>1, <2>2, <3>2
    <3> QED BY <3>1, <3>2
  <2> QED BY <1>2, <2>1, <2>2 DEF Frontier
<1>8. Stages' /\ Outcome'
  BY <1>1, <1>2, <1>4 DEF Stages, Outcome, SettledAs
<1> QED BY <1>5, <1>6, <1>7, <1>8

\* Nothing leads out of a cancelled node.
LEMMA CancelledIsLast ==
  ASSUME IsDocument(graph), Valid(graph), NEW c \in graph.choices
  PROVE  graph.from[c] \in graph.nodes /\ graph.state[graph.from[c]] # "cancelled"
<1>1. graph.from[c] \in graph.nodes /\ c \in ChoicesOf(graph, graph.from[c])
  BY DEF IsDocument, ChoicesOf
<1>2. graph.state[graph.from[c]] = None
  BY <1>1 DEF Valid, ValidShapes
<1> QED BY <1>1, <1>2 DEF TerminalState

LEMMA FindKeeps == IInv /\ Find => IInv'
<1> SUFFICES ASSUME IInv, Find PROVE IInv'
  OBVIOUS
<1> USE DEF IInv
<1>1. PICK e \in queue :
        /\ IsFirst(e) /\ ~ Known(e) /\ graph.state[e.node] = "cancelled"
        /\ best' = Settled(e) /\ queue' = queue \ {e}
        /\ result' = [best_route |-> e.path, visited_nodes |-> e.nodes, effort |-> e.cost,
                      friction |-> Friction(graph, e)]
  BY DEF Find
<1>2. pc = "search" /\ pc' = "found" /\ graph' = graph /\ Valid(graph)
  BY DEF Find, Stages
<1>3. SettledAs(e) /\ e.cost \in Nat
  BY <1>1, SettledFacts DEF TypeOK, Entry
<1>4. IsWalk(graph, e) /\ e.path \in Seq(Choices) /\ e.nodes \in Seq(Nodes)
      /\ IsDocument(graph)
  BY DEF Walks, TypeOK, Entry
<1>5. TypeOK'
  <2>1. Friction(graph, e) \in [screens : Nat, retention_offers : Nat, loops : Nat,
                                offline_handoff : BOOLEAN, effort_score : Nat]
    BY <1>3, <1>4, FrictionType DEF IsWalk
  <2>2. result' \in Route
    BY <1>1, <1>3, <1>4, <2>1 DEF Route
  <2> QED BY <1>1, <1>2, <1>3, <2>2 DEF TypeOK, SettledAs
<1>6. Walks'
  BY <1>1, <1>2, <1>3 DEF Walks, SettledAs
<1>7. Frontier'
  <2>1. /\ Reached(graph.entry, Zero)'
        /\ \A c \in graph.choices :
             Safe(graph, c) /\ graph.from[c] \in DOMAIN best' /\ graph.from[c] # e.node =>
               Reached(graph.to[c], Longer(graph, best[graph.from[c]], c))'
    BY <1>1, <1>2, SettledReach
  <2>2. ASSUME NEW c \in graph.choices, Safe(graph, c), graph.from[c] \in DOMAIN best'
        PROVE  Reached(graph.to[c], Longer(graph, best[graph.from[c]], c))'
    <3>1. graph.from[c] # e.node
      BY <1>1, <1>2, <1>4, CancelledIsLast
    <3> QED BY <2>1, <2>2, <3>1
  <2> QED BY <1>2, <2>1, <2>2 DEF Frontier
<1>8. Stages'
  BY <1>2 DEF Stages
<1>9. Outcome'
  <2>1. /\ result'.best_route = e.path /\ result'.effort = e.cost
        /\ result'.visited_nodes[Len(result'.visited_nodes)] = e.node
    BY <1>1, <1>4 DEF IsWalk
  <2>2. \A r : AtMost(e, r) => AtMost(Found', r)
    BY <2>1 DEF AtMost, RankBefore, Found
  <2>3. \A o \in queue' : AtMost(Found', o)
    <3> TAKE o \in queue'
    <3>1. o \in queue /\ ~ RankBefore(o, e)
      BY <1>1 DEF IsFirst
    <3>2. IsRank(o) /\ IsRank(e)
      BY <3>1, RanksAreRanks
    <3> QED BY <2>2, <3>1, <3>2, RanksCompare
  <2>4. \A n \in DOMAIN best' : graph.state[n] = "cancelled" => AtMost(Found', best'[n])
    <3> TAKE n \in DOMAIN best'
    <3> HAVE graph.state[n] = "cancelled"
    <3>1. n = e.node
      BY <1>2, <1>3 DEF Stages, SettledAs
    <3>2. best'[n] = [cost |-> e.cost, path |-> e.path]
      BY <1>3, <3>1 DEF SettledAs
    <3>3. AtMost(e, best'[n])
      BY <3>2 DEF AtMost
    <3> QED BY <2>2, <3>3
  <2>5. /\ graph.state[e.node] = "cancelled" /\ Connected(graph, e.path, e.node)
        /\ e.cost = Effort(graph, e.path)
    BY <1>1, <1>4 DEF IsWalk
  <2> QED BY <1>2, <2>1, <2>3, <2>4, <2>5 DEF Outcome
<1> QED BY <1>5, <1>6, <1>7, <1>8, <1>9

LEMMA NoRouteKeeps == IInv /\ NoRoute => IInv'
<1> SUFFICES ASSUME IInv, NoRoute PROVE IInv'
  OBVIOUS
<1> USE DEF IInv, NoRoute
<1>1. TypeOK'
  BY DEF TypeOK
<1>2. Walks' /\ Frontier' /\ Stages' /\ Outcome'
  BY DEF Walks, Frontier, Reached, Stages, Outcome
<1> QED BY <1>1, <1>2

LEMMA StutterKeeps == IInv /\ UNCHANGED vars => IInv'
<1> SUFFICES ASSUME IInv, UNCHANGED vars PROVE IInv'
  OBVIOUS
<1> USE DEF IInv, vars
<1>1. TypeOK'
  BY DEF TypeOK
<1>2. Walks' /\ Stages' /\ Outcome'
  BY DEF Walks, Stages, Outcome, Found
<1>3. Frontier'
  BY DEF Frontier, Reached
<1> QED BY <1>1, <1>2, <1>3

\* In every state the heap and the settled nodes stand for ways through the graph, and
\* what leads out of a settled node has been followed with no later rank.
THEOREM Invariance == Spec => []IInv
<1>1. IInv /\ [Next]_vars => IInv'
  BY RefuseKeeps, AcceptKeeps, SkipKeeps, SettleKeeps, FindKeeps, NoRouteKeeps, StutterKeeps
     DEF Next
<1> QED BY InitInvariant, <1>1, PTL DEF Spec

\* Types, for every set of documents.
THEOREM TypeCorrect == Spec => []TypeOK
<1>1. IInv => TypeOK
  BY DEF IInv
<1> QED BY Invariance, <1>1, PTL

-----------------------------------------------------------------------------
(* What the invariant says of all ways through the graph *)

\* The node that the first i choices of a path lead to.
Visit(path, i) == IF i = 0 THEN graph.entry ELSE graph.to[path[i]]

\* The way visits no node twice.
Simple(path) ==
    /\ \A i, j \in 1 .. Len(path) : i # j => graph.to[path[i]] # graph.to[path[j]]
    /\ \A i \in 1 .. Len(path) : graph.to[path[i]] # graph.entry

\* The rank of the first k choices of a path.
Upto(h, path, k) == [cost |-> h[k], path |-> SubSeq(path, 1, k)]

LEMMA PartFacts ==
  ASSUME NEW S, NEW path \in Seq(S), NEW k \in 0 .. Len(path)
  PROVE  /\ SubSeq(path, 1, k) \in Seq(S) /\ Len(SubSeq(path, 1, k)) = k
         /\ \A i \in 1 .. k : SubSeq(path, 1, k)[i] = path[i]
<1>1. k \in Nat /\ k <= Len(path) /\ Len(path) \in Nat
  OBVIOUS
<1>2. \A i \in 1 .. k : path[i] \in S
  BY <1>1
<1>3. SubSeq(path, 1, k) = [i \in 1 .. k |-> path[i]]
  BY <1>1
<1>4. [i \in 1 .. k |-> path[i]] \in [1 .. k -> S]
  BY <1>2
<1> QED BY <1>1, <1>3, <1>4

\* One more choice of the path is the next rank along it.
LEMMA UptoNext ==
  ASSUME IsDocument(graph), NEW path \in Seq(graph.choices), NEW h, IsTotal(h, graph, path),
         NEW k \in 1 .. Len(path)
  PROVE  Longer(graph, Upto(h, path, k - 1), path[k]) = Upto(h, path, k)
<1> DEFINE p == SubSeq(path, 1, k - 1)
           q == SubSeq(path, 1, k)
<1>1. k - 1 \in 0 .. Len(path) /\ k \in 0 .. Len(path) /\ path[k] \in graph.choices
  OBVIOUS
<1>2. /\ p \in Seq(graph.choices) /\ Len(p) = k - 1
      /\ \A i \in 1 .. k - 1 : p[i] = path[i]
  BY <1>1, PartFacts
<1>3. /\ q \in Seq(graph.choices) /\ Len(q) = k
      /\ \A i \in 1 .. k : q[i] = path[i]
  BY <1>1, PartFacts
<1> HIDE DEF p, q
<1>4. Append(p, path[k]) \in Seq(graph.choices) /\ Appended(Append(p, path[k]), p, path[k])
  BY <1>1, <1>2, AppendFacts
<1>5. Append(p, path[k]) = q
  <2> DEFINE r == Append(p, path[k])
  <2>1. r \in Seq(graph.choices) /\ Appended(r, p, path[k])
    BY <1>4
  <2> HIDE DEF r
  <2>2. Len(r) = Len(q)
    BY <1>2, <1>3, <2>1 DEF Appended
  <2>3. \A i \in 1 .. Len(r) : r[i] = q[i]
    <3> TAKE i \in 1 .. Len(r)
    <3>1. CASE i = k
      BY <1>2, <1>3, <2>1, <3>1 DEF Appended
    <3>2. CASE i # k
      <4>1. i \in 1 .. k - 1 /\ i \in 1 .. k
        BY <1>3, <2>2, <3>2
      <4> QED BY <1>2, <1>3, <2>1, <4>1 DEF Appended
    <3> QED BY <3>1, <3>2
  <2> QED BY <1>3, <2>1, <2>2, <2>3, SeqEqual DEF r
<1>6. h[k] = h[k - 1] + graph.effort[path[k]]
  BY DEF IsTotal
<1> QED BY <1>5, <1>6 DEF Longer, Upto, p, q

\* No other way to a node of a simple path is where the path to it starts.
LEMMA NoCircle ==
  ASSUME NEW path \in Seq(graph.choices), Simple(path), NEW k \in 0 .. Len(path),
         NEW q \in Seq(Nat), Connected(graph, q, Visit(path, k)),
         Starts(q, SubSeq(path, 1, k))
  PROVE  FALSE
<1> DEFINE j == Len(q)
<1>1. /\ Len(SubSeq(path, 1, k)) = k
      /\ \A i \in 1 .. k : SubSeq(path, 1, k)[i] = path[i]
  BY PartFacts
<1>2. j \in Nat /\ j < k /\ \A i \in 1 .. j : q[i] = path[i]
  BY <1>1 DEF Starts
<1>3. k \in 1 .. Len(path) /\ Visit(path, k) = graph.to[path[k]]
  BY <1>2 DEF Visit
<1>4. CASE j = 0
  <2>1. Visit(path, k) = graph.entry
    BY <1>4 DEF Connected
  <2> QED BY <1>3, <2>1 DEF Simple
<1>5. CASE j # 0
  <2>1. j \in 1 .. j /\ j \in 1 .. Len(path) /\ j # k
    BY <1>2, <1>3, <1>5
  <2>2. q # <<>>
    BY <1>5
  <2>3. Visit(path, k) = graph.to[q[j]]
    BY <2>2 DEF Connected
  <2>4. q[j] = path[j]
    BY <1>2, <2>1
  <2> QED BY <1>3, <2>1, <2>3, <2>4 DEF Simple
<1> QED BY <1>4, <1>5

\* The choice that a way makes at its place k.
LEMMA StepOfAWay ==
  ASSUME NEW path, NEW n, Connected(graph, path, n), NEW k \in 1 .. Len(path),
         Len(path) \in Nat
  PROVE  /\ path[k] \in graph.choices /\ Safe(graph, path[k])
         /\ graph.from[path[k]] = Visit(path, k - 1) /\ graph.to[path[k]] = Visit(path, k)
<1>1. path[k] \in graph.choices /\ Safe(graph, path[k])
  BY DEF Connected
<1>2. graph.from[path[k]] = IF k = 1 THEN graph.entry ELSE graph.to[path[k - 1]]
  BY DEF Connected
<1>3. ((k = 1) <=> (k - 1 = 0)) /\ k # 0
  OBVIOUS
<1> QED BY <1>1, <1>2, <1>3 DEF Visit

\* Along a simple way, as long as its rank is before all that waits in the heap,
\* the nodes are settled with its rank or an earlier one.
LEMMA AlongAWay ==
  ASSUME IInv, pc # "validate", Valid(graph),
         NEW path \in Seq(graph.choices), NEW n, Connected(graph, path, n), Simple(path),
         NEW h, IsTotal(h, graph, path),
         NEW bound, IsRank(bound), \A o \in queue : AtMost(bound, o)
  PROVE  \/ AtMost(bound, [cost |-> h[Len(path)], path |-> path])
         \/ n \in DOMAIN best /\ AtMost(best[n], [cost |-> h[Len(path)], path |-> path])
<1> USE DEF IInv
<1> DEFINE Rk(k) == Upto(h, path, k)
           Good(k) == \/ AtMost(bound, Rk(k))
                      \/ /\ Visit(path, k) \in DOMAIN best
                         /\ AtMost(best[Visit(path, k)], Rk(k))
           T == {k \in 0 .. Len(path) : ~ Good(k)}
<1>0. Len(path) \in Nat /\ h \in [0 .. Len(path) -> Nat] /\ h[0] = 0 /\ IsDocument(graph)
  BY DEF IsTotal, TypeOK
<1>1. \A k \in 0 .. Len(path) : IsRank(Rk(k))
  <2> TAKE k \in 0 .. Len(path)
  <2>1. path \in Seq(Nat)
    <3>1. path \in Seq(Choices)
      BY <1>0 DEF IsDocument
    <3> QED BY <3>1, PathsAreNumbers
  <2>2. SubSeq(path, 1, k) \in Seq(Nat)
    BY <2>1, PartFacts
  <2> QED BY <1>0, <2>2 DEF IsRank, Upto
<1>2. Rk(0) = Zero
  <2>1. SubSeq(path, 1, 0) = <<>>
    <3>1. 0 \in 0 .. Len(path)
      BY <1>0
    <3>2. SubSeq(path, 1, 0) \in Seq(graph.choices) /\ Len(SubSeq(path, 1, 0)) = 0
      BY <3>1, PartFacts
    <3> QED BY <3>2
  <2> QED BY <1>0, <2>1 DEF Upto, Zero
<1>3. ASSUME NEW m, NEW r, IsRank(r), Reached(m, r)
      PROVE  AtMost(bound, r) \/ (m \in DOMAIN best /\ AtMost(best[m], r))
  <2>1. ASSUME NEW o \in queue, AtMost(o, r) PROVE AtMost(bound, r)
    <3>1. IsRank(o) /\ AtMost(bound, o)
      BY RanksAreRanks
    <3> QED BY <1>3, <2>1, <3>1, AtMostTransitive
  <2> QED BY <1>3, <2>1 DEF Reached
<1>4. Good(0)
  <2>1. Reached(graph.entry, Zero) /\ Visit(path, 0) = graph.entry /\ IsRank(Zero)
    BY RanksAreRanks DEF Frontier, Visit
  <2> QED BY <1>2, <1>3, <2>1
<1>5. ASSUME NEW k \in 1 .. Len(path), Good(k - 1) PROVE Good(k)
  <2> DEFINE c == path[k]
             m == Visit(path, k - 1)
  <2>1. k - 1 \in 0 .. Len(path) /\ k \in 0 .. Len(path)
    OBVIOUS
  <2>2. IsRank(Rk(k - 1)) /\ IsRank(Rk(k)) /\ Longer(graph, Rk(k - 1), c) = Rk(k)
    BY <1>0, <1>1, <2>1, UptoNext
  <2>3. /\ c \in graph.choices /\ Safe(graph, c)
        /\ graph.from[c] = m /\ graph.to[c] = Visit(path, k)
    BY <1>0, StepOfAWay
  <2>4. c \in Nat /\ graph.effort[c] \in Nat
    BY <2>3, RanksAreRanks
  <2>5. CASE AtMost(bound, Rk(k - 1))
    <3>1. AtMost(Rk(k - 1), Rk(k))
      BY <2>2, <2>4, LongerIsLater
    <3>2. AtMost(bound, Rk(k))
      <4> HIDE DEF Rk
      <4> QED BY <2>2, <2>5, <3>1, AtMostTransitive
    <3> QED BY <3>2
  <2>6. CASE m \in DOMAIN best /\ AtMost(best[m], Rk(k - 1))
    <3> DEFINE r == Longer(graph, best[m], c)
    <3>1. IsRank(best[m]) /\ best[m].path \in Seq(Nat) /\ Connected(graph, best[m].path, m)
      BY <2>6, RanksAreRanks DEF Walks, IsRank
    <3>2. ~ Starts(best[m].path, Rk(k - 1).path)
      <4>1. Rk(k - 1).path = SubSeq(path, 1, k - 1)
        BY DEF Upto
      <4> QED BY <2>1, <3>1, <4>1, NoCircle
    <3>3. AtMost(r, Rk(k)) /\ IsRank(r)
      <4> HIDE DEF Rk, c, m
      <4>1. AtMost(r, Longer(graph, Rk(k - 1), c))
        BY <2>2, <2>4, <2>6, <3>1, <3>2, LongerKeepsOrder
      <4>2. IsRank(r)
        BY <2>4, <3>1, LongerIsLater
      <4> QED BY <2>2, <4>1, <4>2
    <3>4. Reached(graph.to[c], r)
      BY <2>3, <2>6 DEF Frontier
    <3>5. AtMost(bound, r) \/ (graph.to[c] \in DOMAIN best /\ AtMost(best[graph.to[c]], r))
      BY <1>3, <3>3, <3>4
    <3>6. CASE AtMost(bound, r)
      <4> HIDE DEF Rk, r
      <4>1. AtMost(bound, Rk(k))
        BY <2>2, <3>3, <3>6, AtMostTransitive
      <4> QED BY <4>1
    <3>7. CASE graph.to[c] \in DOMAIN best /\ AtMost(best[graph.to[c]], r)
      <4>1. IsRank(best[graph.to[c]])
        BY <3>7, RanksAreRanks
      <4>2. AtMost(best[graph.to[c]], Rk(k))
        <5> HIDE DEF Rk, r
        <5> QED BY <2>2, <3>3, <3>7, <4>1, AtMostTransitive
      <4> QED BY <2>3, <3>7, <4>2
    <3> QED BY <3>5, <3>6, <3>7
  <2> QED BY <1>5, <2>5, <2>6
<1>6. T = {}
  <2> SUFFICES ASSUME T # {} PROVE FALSE
    OBVIOUS
  <2> HIDE DEF Good
  <2>1. PICK k \in T : \A y \in T : k <= y
    <3>1. T \in SUBSET Nat
      OBVIOUS
    <3> HIDE DEF T
    <3> QED BY <3>1, LeastElement
  <2>2. k # 0
    BY <1>4, <2>1
  <2>3. k - 1 \in 0 .. Len(path) /\ ~ (k <= k - 1) /\ k \in 1 .. Len(path)
    BY <2>1, <2>2
  <2>4. Good(k - 1)
    BY <2>1, <2>3
  <2> QED BY <1>5, <2>1, <2>3, <2>4
<1>7. Good(Len(path))
  <2> HIDE DEF Good
  <2> QED BY <1>0, <1>6
<1>8. Visit(path, Len(path)) = n
  <2>1. path = <<>> <=> Len(path) = 0
    OBVIOUS
  <2> QED BY <2>1 DEF Connected, Visit
<1>9. Rk(Len(path)) = [cost |-> h[Len(path)], path |-> path]
  <2>1. SubSeq(path, 1, Len(path)) = path
    BY SubSeqFull
  <2> QED BY <2>1 DEF Upto
<1> QED BY <1>7, <1>8, <1>9

\* Routes(g) are ways that visit no node twice.
LEMMA RoutesArePaths ==
  ASSUME NEW path \in Routes(graph)
  PROVE  /\ path \in Seq(graph.choices) /\ Simple(path)
         /\ \E n \in graph.nodes : graph.state[n] = "cancelled" /\ Connected(graph, path, n)
<1>1. path \in UNION {[1 .. k -> graph.choices] : k \in 0 .. Cardinality(graph.nodes) - 1}
  BY DEF Routes
<1>2. PICK k \in 0 .. Cardinality(graph.nodes) - 1 : path \in [1 .. k -> graph.choices]
  BY <1>1
<1>3. k \in Nat
  BY <1>2
<1>4. path \in Seq(graph.choices)
  BY <1>2, <1>3
<1> QED BY <1>4 DEF Routes, Simple

\* No route has an earlier rank than the recommended one.
LEMMA FoundIsFirst ==
  ASSUME IInv, pc = "found", NEW path \in Routes(graph)
  PROVE  /\ Effort(graph, path) \in Nat
         /\ AtMost(Found, [cost |-> Effort(graph, path), path |-> path])
<1> USE DEF IInv
<1>1. Valid(graph) /\ IsDocument(graph)
  BY DEF Stages, TypeOK
<1>2. PICK n \in graph.nodes : graph.state[n] = "cancelled" /\ Connected(graph, path, n)
  BY RoutesArePaths
<1>3. path \in Seq(graph.choices) /\ Simple(path)
  BY RoutesArePaths
<1>4. PICK h : IsTotal(h, graph, path) /\ Effort(graph, path) = h[Len(path)]
  BY <1>1, <1>3, EffortTotal
<1>5. h[Len(path)] \in Nat
  BY <1>3, <1>4 DEF IsTotal
<1> DEFINE r == [cost |-> h[Len(path)], path |-> path]
<1>6. IsRank(Found) /\ IsRank(r)
  <2>1. result.effort \in Nat /\ result.best_route \in Seq(Nat)
    BY PathsAreNumbers DEF TypeOK, Route
  <2>2. path \in Seq(Nat)
    <3>1. path \in Seq(Choices)
      BY <1>1, <1>3 DEF IsDocument
    <3> QED BY <3>1, PathsAreNumbers
  <2> QED BY <1>5, <2>1, <2>2 DEF IsRank, Found
<1>7. AtMost(Found, r) \/ (n \in DOMAIN best /\ AtMost(best[n], r))
  <2>1. \A o \in queue : AtMost(Found, o)
    BY DEF Outcome
  <2>2. pc # "validate"
    OBVIOUS
  <2> QED BY <1>1, <1>2, <1>3, <1>4, <1>6, <2>1, <2>2, AlongAWay
<1>8. CASE n \in DOMAIN best /\ AtMost(best[n], r)
  <2>1. AtMost(Found, best[n]) /\ IsRank(best[n])
    BY <1>2, <1>8, RanksAreRanks DEF Outcome
  <2> HIDE DEF r
  <2>2. AtMost(Found, r)
    BY <1>6, <1>8, <2>1, AtMostTransitive
  <2> QED BY <1>4, <1>5, <2>2 DEF r
<1> QED BY <1>4, <1>5, <1>7, <1>8

LEMMA InvariantGivesLowest == IInv => LowestEffort
<1> SUFFICES ASSUME IInv, pc = "found" PROVE LowestEffort
  BY DEF LowestEffort
<1> USE DEF IInv
<1>1. ASSUME NEW path \in Routes(graph)
      PROVE  result.effort <= Effort(graph, path)
  <2>1. /\ Effort(graph, path) \in Nat /\ result.effort \in Nat
        /\ AtMost(Found, [cost |-> Effort(graph, path), path |-> path])
    BY FoundIsFirst DEF TypeOK, Route
  <2> QED BY <2>1 DEF AtMost, RankBefore, Found
<1> QED BY <1>1 DEF LowestEffort, Outcome

\* The recommended route is a way out of least effort, for every document.
THEOREM RouteIsLowest == Spec => []LowestEffort
BY Invariance, InvariantGivesLowest, PTL

LEMMA InvariantGivesTies == IInv => TiesByIdentifier
<1> SUFFICES ASSUME IInv, pc = "found", NEW path \in Routes(graph),
                    Effort(graph, path) = result.effort
             PROVE  path = result.best_route \/ PathBefore(result.best_route, path)
  BY DEF TiesByIdentifier
<1> USE DEF IInv
<1>1. result.effort \in Nat
  BY DEF TypeOK, Route
<1>2. AtMost(Found, [cost |-> result.effort, path |-> path])
  BY FoundIsFirst
<1> QED BY <1>1, <1>2 DEF AtMost, RankBefore, Found

\* Of all ways out of that effort, the recommended route is the first by its
\* identifiers, for every document, also among circles that cost nothing.
THEOREM RouteIsFirst == Spec => []TiesByIdentifier
BY Invariance, InvariantGivesTies, PTL

LEMMA InvariantGivesRefused == IInv => RefusedJustly
<1> SUFFICES ASSUME IInv, pc = "refused", Valid(graph), NEW path \in Routes(graph) PROVE FALSE
  BY DEF RefusedJustly
<1> USE DEF IInv
<1>1. IsDocument(graph) /\ queue = {}
  BY DEF TypeOK, Stages
<1>2. PICK n \in graph.nodes : graph.state[n] = "cancelled" /\ Connected(graph, path, n)
  BY RoutesArePaths
<1>3. path \in Seq(graph.choices) /\ Simple(path)
  BY RoutesArePaths
<1>4. PICK h : IsTotal(h, graph, path)
  BY <1>1, <1>3, EffortTotal
<1>5. h[Len(path)] \in Nat
  BY <1>3, <1>4 DEF IsTotal
<1> DEFINE bound == [cost |-> h[Len(path)] + 1, path |-> <<>>]
           r == [cost |-> h[Len(path)], path |-> path]
<1>6. IsRank(bound) /\ ~ AtMost(bound, r)
  BY <1>5 DEF IsRank, AtMost, RankBefore
<1>7. n \in DOMAIN best
  <2>1. pc # "validate"
    OBVIOUS
  <2> HIDE DEF bound
  <2> QED BY <1>1, <1>2, <1>3, <1>4, <1>6, <2>1, AlongAWay
<1> QED BY <1>2, <1>7 DEF Stages

\* A valid document is refused only if it has no safe way out.
THEOREM RefusalIsJust == Spec => []RefusedJustly
BY Invariance, InvariantGivesRefused, PTL

-----------------------------------------------------------------------------
(* That the search ends: what Terminates rests on besides the fairness of  *)
(* the steps.  No node is settled twice, so the nodes left or the heap     *)
(* shrink.                                                                 *)

Left == Cardinality(graph.nodes \ DOMAIN best)
Followed == {c \in graph.choices : graph.from[c] \in DOMAIN best}

\* What waits has a later rank than what is settled, and is one of the choices
\* that lead out of settled nodes, or the start.
Heap ==
    /\ IsFiniteSet(queue)
    /\ Cardinality(queue) <= 1 + Cardinality(Followed)
    /\ \A n \in DOMAIN best : \A o \in queue : AtMost(best[n], o)

LEMMA FollowedFinite ==
  ASSUME TypeOK
  PROVE  /\ IsFiniteSet(Followed) /\ Cardinality(Followed) \in Nat
         /\ IsFiniteSet(graph.nodes \ DOMAIN best) /\ Left \in Nat
<1>1. IsFiniteSet(graph.choices) /\ IsFiniteSet(graph.nodes)
  BY DEF TypeOK, IsDocument
<1>2. IsFiniteSet(Followed) /\ IsFiniteSet(graph.nodes \ DOMAIN best)
  BY <1>1, FS_Subset DEF Followed
<1> QED BY <1>2, FS_CardinalityType DEF Left

\* An entry of the heap has at most one longer one for each choice of its node.
LEMMA EdgesFinite ==
  ASSUME TypeOK, NEW e
  PROVE  /\ IsFiniteSet(Edges(e)) /\ IsFiniteSet(ChoicesOf(graph, e.node))
         /\ Cardinality(Edges(e)) <= Cardinality(ChoicesOf(graph, e.node))
<1> DEFINE S == {d \in ChoicesOf(graph, e.node) : Safe(graph, d)}
           f == [c \in S |-> Extend(graph, e, c)]
<1>1. IsFiniteSet(ChoicesOf(graph, e.node))
  <2>1. IsFiniteSet(graph.choices)
    BY DEF TypeOK, IsDocument
  <2> QED BY <2>1, FS_Subset DEF ChoicesOf
<1>2. IsFiniteSet(S) /\ Cardinality(S) <= Cardinality(ChoicesOf(graph, e.node))
  BY <1>1, FS_Subset
<1>3. f \in Surjection(S, Edges(e))
  BY DEF Surjection, Edges
<1>4. IsFiniteSet(Edges(e)) /\ Cardinality(Edges(e)) <= Cardinality(S)
  <2> HIDE DEF S, f
  <2> QED BY <1>2, <1>3, FS_Surjection
<1>5. /\ Cardinality(S) \in Nat /\ Cardinality(Edges(e)) \in Nat
      /\ Cardinality(ChoicesOf(graph, e.node)) \in Nat
  BY <1>1, <1>2, <1>4, FS_CardinalityType
<1> QED BY <1>1, <1>2, <1>4, <1>5

\* No entry of a settled node is settled: its rank is known.
LEMMA SettledIsKnown ==
  ASSUME TypeOK, Heap, NEW e \in queue, e.node \in DOMAIN best
  PROVE  Known(e)
<1>1. AtMost(best[e.node], e) /\ best[e.node] \in Rank
  BY DEF Heap, TypeOK
<1>2. best[e.node] = [cost |-> best[e.node].cost, path |-> best[e.node].path]
  BY <1>1 DEF Rank
<1> QED BY <1>1, <1>2 DEF AtMost, Known

\* The first entry comes before what is left and before what it leads to.
LEMMA FirstIsFirst ==
  ASSUME TypeOK, NEW e \in queue, IsFirst(e)
  PROVE  /\ \A o \in queue : AtMost(e, o)
         /\ \A x \in Edges(e) : AtMost(e, x)
<1>1. IsRank(e) /\ \A o \in queue : IsRank(o)
  BY RanksAreRanks
<1>2. \A o \in queue : AtMost(e, o)
  BY <1>1, RanksCompare DEF IsFirst
<1>3. ASSUME NEW x \in Edges(e) PROVE AtMost(e, x)
  <2>1. PICK c \in graph.choices : x = Extend(graph, e, c)
    BY DEF Edges, ChoicesOf
  <2>2. c \in Nat /\ graph.effort[c] \in Nat
    BY RanksAreRanks
  <2>3. AtMost(e, Longer(graph, e, c))
    BY <1>1, <2>2, LongerIsLater
  <2>4. x.cost = Longer(graph, e, c).cost /\ x.path = Longer(graph, e, c).path
    BY <2>1 DEF Extend, Longer
  <2> QED BY <2>3, <2>4 DEF AtMost, RankBefore
<1> QED BY <1>2, <1>3

\* A step that settles an entry and puts at most its choices in the heap.
LEMMA SettlingKeepsHeap ==
  ASSUME IInv, IInv', Heap, NEW e \in queue, IsFirst(e), ~ Known(e), best' = Settled(e),
         graph' = graph, queue' \subseteq (queue \ {e}) \cup Edges(e)
  PROVE  Heap'
<1> USE DEF IInv
<1>1. SettledAs(e) /\ DOMAIN best' = DOMAIN best \cup {e.node} /\ e.node \notin DOMAIN best
  BY SettledFacts, SettledIsKnown DEF Settled
<1>2. /\ IsFiniteSet(Edges(e)) /\ IsFiniteSet(ChoicesOf(graph, e.node))
      /\ Cardinality(Edges(e)) <= Cardinality(ChoicesOf(graph, e.node))
  BY EdgesFinite
<1>3. IsFiniteSet(queue \ {e}) /\ Cardinality(queue \ {e}) = Cardinality(queue) - 1
  BY FS_RemoveElement DEF Heap
<1> DEFINE both == (queue \ {e}) \cup Edges(e)
<1>4. IsFiniteSet(both) /\ Cardinality(both) <= Cardinality(queue \ {e}) + Cardinality(Edges(e))
  <2>1. /\ IsFiniteSet(both)
        /\ Cardinality(both) = Cardinality(queue \ {e}) + Cardinality(Edges(e))
                                 - Cardinality((queue \ {e}) \cap Edges(e))
    BY <1>2, <1>3, FS_Union
  <2>2. IsFiniteSet((queue \ {e}) \cap Edges(e))
    BY <1>3, FS_Subset
  <2>3. /\ Cardinality((queue \ {e}) \cap Edges(e)) \in Nat
        /\ Cardinality(queue \ {e}) \in Nat /\ Cardinality(Edges(e)) \in Nat
    BY <1>2, <1>3, <2>2, FS_CardinalityType
  <2> QED BY <2>1, <2>3
<1>5. IsFiniteSet(queue') /\ Cardinality(queue') <= Cardinality(both)
  <2> HIDE DEF both
  <2>1. queue' \in SUBSET both
    BY DEF both
  <2> QED BY <1>4, <2>1, FS_Subset
<1>6. Cardinality(Followed') = Cardinality(Followed) + Cardinality(ChoicesOf(graph, e.node))
  <2>1. Followed' = Followed \cup ChoicesOf(graph, e.node)
    BY <1>1 DEF Followed, ChoicesOf
  <2>2. Followed \cap ChoicesOf(graph, e.node) = {}
    BY <1>1 DEF Followed, ChoicesOf
  <2>3. IsFiniteSet(Followed) /\ Cardinality(Followed) \in Nat
    BY FollowedFinite
  <2>4. Cardinality(ChoicesOf(graph, e.node)) \in Nat
    BY <1>2, FS_CardinalityType
  <2>5. Cardinality(Followed \cup ChoicesOf(graph, e.node)) =
          Cardinality(Followed) + Cardinality(ChoicesOf(graph, e.node))
            - Cardinality(Followed \cap ChoicesOf(graph, e.node))
    BY <1>2, <2>3, FS_Union
  <2>6. Cardinality(Followed \cap ChoicesOf(graph, e.node)) = 0
    BY <2>2, FS_EmptySet
  <2> QED BY <2>1, <2>3, <2>4, <2>5, <2>6
<1>7. Cardinality(queue') <= 1 + Cardinality(Followed')
  <2>1. /\ Cardinality(queue) \in Nat /\ Cardinality(queue') \in Nat
        /\ Cardinality(both) \in Nat /\ Cardinality(Edges(e)) \in Nat
        /\ Cardinality(ChoicesOf(graph, e.node)) \in Nat /\ Cardinality(Followed) \in Nat
    <3> HIDE DEF both
    <3> QED BY <1>2, <1>4, <1>5, FS_CardinalityType, FollowedFinite DEF Heap
  <2>2. Cardinality(queue) <= 1 + Cardinality(Followed)
    BY DEF Heap
  <2> HIDE DEF both
  <2> QED BY <1>2, <1>3, <1>4, <1>5, <1>6, <2>1, <2>2
<1>8. \A o \in queue' : IsRank(o) /\ AtMost(e, o)
  <2>1. \A o \in queue' : IsRank(o)
    <3>1. \A o \in queue' : o \in Entry
      BY DEF TypeOK
    <3> QED BY <3>1, PathsAreNumbers DEF Entry, IsRank
  <2> QED BY <2>1, FirstIsFirst
<1>9. ASSUME NEW n \in DOMAIN best', NEW o \in queue' PROVE AtMost(best'[n], o)
  <2>1. CASE n = e.node
    <3>1. best'[n].cost = e.cost /\ best'[n].path = e.path
      BY <1>1, <2>1 DEF SettledAs
    <3> QED BY <1>8, <3>1 DEF AtMost, RankBefore
  <2>2. CASE n # e.node
    <3>1. n \in DOMAIN best /\ best'[n] = best[n]
      BY <1>1, <2>2 DEF SettledAs
    <3>2. IsRank(best[n]) /\ IsRank(e) /\ AtMost(best[n], e)
      BY <3>1, RanksAreRanks DEF Heap
    <3> QED BY <1>8, <3>1, <3>2, AtMostTransitive
  <2> QED BY <2>1, <2>2
<1> QED BY <1>5, <1>7, <1>9 DEF Heap

LEMMA HeapStep == IInv /\ IInv' /\ Heap /\ [Next]_vars => Heap'
<1> SUFFICES ASSUME IInv, IInv', Heap, [Next]_vars PROVE Heap'
  OBVIOUS
<1> USE DEF IInv
<1>1. CASE UNCHANGED <<graph, queue, best>>
  BY <1>1 DEF Heap, Followed
<1>2. CASE Accept
  <2>1. queue' = {Start(graph)} /\ DOMAIN best' = {} /\ Followed' = {}
    BY <1>2 DEF Accept, Stages, Followed
  <2>2. IsFiniteSet({Start(graph)}) /\ Cardinality({Start(graph)}) = 1
    BY FS_Singleton
  <2>3. Cardinality(Followed') = 0
    BY <2>1, FS_EmptySet
  <2>4. IsFiniteSet(queue') /\ Cardinality(queue') = 1
    BY <2>1, <2>2
  <2>5. Cardinality(queue') <= 1 + Cardinality(Followed')
    BY <2>3, <2>4
  <2> QED BY <2>1, <2>4, <2>5 DEF Heap
<1>3. CASE Skip
  <2>1. PICK e \in queue : queue' = queue \ {e} /\ UNCHANGED <<graph, best>>
    BY <1>3 DEF Skip
  <2>2. IsFiniteSet(queue') /\ Cardinality(queue') <= Cardinality(queue)
    BY <2>1, FS_Subset DEF Heap
  <2>3. Cardinality(queue') <= 1 + Cardinality(Followed)
    <3>1. /\ Cardinality(queue') \in Nat /\ Cardinality(queue) \in Nat
          /\ Cardinality(Followed) \in Nat
      BY <2>2, FS_CardinalityType, FollowedFinite DEF Heap
    <3> QED BY <2>2, <3>1 DEF Heap
  <2> QED BY <2>1, <2>2, <2>3 DEF Heap, Followed
<1>4. CASE Settle
  <2>1. PICK e \in queue : /\ IsFirst(e) /\ ~ Known(e) /\ best' = Settled(e)
                           /\ queue' = (queue \ {e}) \cup Edges(e)
    BY <1>4 DEF Settle
  <2>2. graph' = graph
    BY <1>4 DEF Settle
  <2> QED BY <2>1, <2>2, SettlingKeepsHeap
<1>5. CASE Find
  <2>1. PICK e \in queue : /\ IsFirst(e) /\ ~ Known(e) /\ best' = Settled(e)
                           /\ queue' = queue \ {e}
    BY <1>5 DEF Find
  <2>2. graph' = graph
    BY <1>5 DEF Find
  <2> QED BY <2>1, <2>2, SettlingKeepsHeap
<1> QED BY <1>1, <1>2, <1>3, <1>4, <1>5 DEF Next, Refuse, NoRoute, vars

LEMMA HeapInvariance == Spec => []Heap
<1>1. Init => Heap
  <2> SUFFICES ASSUME Init PROVE Heap
    OBVIOUS
  <2>1. queue = {} /\ DOMAIN best = {} /\ Followed = {}
    BY DEF Init, Followed
  <2> QED BY <2>1, FS_EmptySet DEF Heap
<1> QED BY <1>1, HeapStep, Invariance, PTL DEF Spec

\* The heap holds at most one entry for each choice and the start, though the ways
\* through a graph are far more than its choices.
THEOREM HeapIsBounded == Spec => [](Cardinality(queue) <= 1 + Cardinality(graph.choices))
<1>1. ASSUME IInv, Heap PROVE Cardinality(queue) <= 1 + Cardinality(graph.choices)
  <2>1. TypeOK /\ IsFiniteSet(graph.choices)
    BY <1>1 DEF IInv, TypeOK, IsDocument
  <2>2. Cardinality(Followed) <= Cardinality(graph.choices)
    BY <2>1, FS_Subset DEF Followed
  <2>3. /\ Cardinality(Followed) \in Nat /\ Cardinality(graph.choices) \in Nat
        /\ Cardinality(queue) \in Nat
    BY <1>1, <2>1, FollowedFinite, FS_CardinalityType DEF Heap
  <2> QED BY <1>1, <2>2, <2>3 DEF Heap
<1> QED BY <1>1, Invariance, HeapInvariance, PTL

\* A node is settled once: what _lowest_effort_path has written in best is final.
THEOREM SettledOnce ==
  Spec => [][\A n \in DOMAIN best : n \in DOMAIN best' /\ best'[n] = best[n]]_vars
<1>1. ASSUME IInv, Heap, [Next]_vars, NEW n \in DOMAIN best
      PROVE  n \in DOMAIN best' /\ best'[n] = best[n]
  <2>1. CASE best' = best
    BY <2>1
  <2>2. ASSUME NEW e \in queue, ~ Known(e), best' = Settled(e)
        PROVE  n \in DOMAIN best' /\ best'[n] = best[n]
    <3>1. e.node \notin DOMAIN best
      BY <1>1, <2>2, SettledIsKnown DEF IInv
    <3> QED BY <2>2, <3>1 DEF Settled
  <2> QED BY <1>1, <2>1, <2>2 DEF Next, Refuse, Accept, Skip, Settle, Find, NoRoute, vars
<1>2. IInv /\ Heap /\ [Next]_vars =>
        [\A n \in DOMAIN best : n \in DOMAIN best' /\ best'[n] = best[n]]_vars
  BY <1>1
<1> QED BY <1>2, Invariance, HeapInvariance, PTL DEF Spec

\* Every step of the search leaves fewer nodes to settle, or as many and fewer
\* entries in the heap, also where circles cost nothing.
Closer ==
    pc = "search" /\ pc' = "search" =>
      \/ Left' < Left
      \/ Left' = Left /\ Cardinality(queue') < Cardinality(queue)

\* No step of _lowest_effort_path leaves the search as far from its end as it was.
THEOREM SearchComesCloser == Spec => [][Closer]_vars
<1>1. ASSUME IInv, Heap, Next PROVE Closer
  <2> SUFFICES ASSUME pc = "search", pc' = "search"
               PROVE  \/ Left' < Left
                      \/ Left' = Left /\ Cardinality(queue') < Cardinality(queue)
    BY DEF Closer
  <2>1. CASE Skip
    <3>1. PICK e \in queue : queue' = queue \ {e} /\ UNCHANGED <<graph, best>>
      BY <2>1 DEF Skip
    <3>2. Cardinality(queue') = Cardinality(queue) - 1 /\ Cardinality(queue) \in Nat
      BY <1>1, <3>1, FS_RemoveElement, FS_CardinalityType DEF Heap
    <3> QED BY <3>1, <3>2 DEF Left
  <2>2. CASE Settle
    <3>1. PICK e \in queue : ~ Known(e) /\ best' = Settled(e) /\ graph' = graph
      BY <2>2 DEF Settle
    <3>2. e.node \notin DOMAIN best /\ e.node \in graph.nodes
      BY <1>1, <3>1, SettledIsKnown DEF IInv, Walks, IsWalk
    <3> DEFINE rest == graph.nodes \ DOMAIN best
    <3>3. graph'.nodes \ DOMAIN best' = rest \ {e.node} /\ e.node \in rest
      BY <3>1, <3>2 DEF Settled
    <3>4. IsFiniteSet(rest) /\ Cardinality(rest) \in Nat /\ Left = Cardinality(rest)
      BY <1>1, FollowedFinite DEF IInv, Left
    <3>5. Cardinality(rest \ {e.node}) = Cardinality(rest) - 1
      <4> HIDE DEF rest
      <4> QED BY <3>3, <3>4, FS_RemoveElement
    <3>6. Left' = Cardinality(rest \ {e.node})
      BY <3>3 DEF Left
    <3> HIDE DEF rest
    <3> QED BY <3>4, <3>5, <3>6
  <2> QED BY <1>1, <2>1, <2>2 DEF Next, Refuse, Accept, Find, NoRoute
<1>2. IInv /\ Heap /\ [Next]_vars => [Closer]_vars
  BY <1>1
<1> QED BY <1>2, Invariance, HeapInvariance, PTL DEF Spec

\* No rank comes before itself, and ranks come before what their successors do.
LEMMA RankBeforeStrict ==
  ASSUME NEW a, NEW b, NEW c, IsRank(a), IsRank(b), IsRank(c)
  PROVE  /\ ~ RankBefore(a, a)
         /\ RankBefore(a, b) /\ RankBefore(b, c) => RankBefore(a, c)
<1>1. /\ a.cost \in Nat /\ b.cost \in Nat /\ c.cost \in Nat
      /\ a.path \in Seq(Nat) /\ b.path \in Seq(Nat) /\ c.path \in Seq(Nat)
  BY DEF IsRank
<1>2. ~ PathBefore(a.path, a.path)
  <2> SUFFICES ASSUME NEW i, Parts(a.path, a.path, i) PROVE FALSE
    BY PathBeforeParts
  <2>1. i \in 1 .. Len(a.path) /\ i <= Len(a.path)
    BY <1>1 DEF Parts
  <2>2. a.path[i] < a.path[i] /\ a.path[i] \in Nat
    BY <1>1, <2>1 DEF Parts
  <2> QED BY <2>2
<1>3. PathBefore(a.path, b.path) /\ PathBefore(b.path, c.path) => PathBefore(a.path, c.path)
  BY <1>1, PathBeforeTransitive
<1> QED BY <1>1, <1>2, <1>3 DEF RankBefore

\* The heap has a first entry: one that the fewest entries come before.
LEMMA FirstExists ==
  ASSUME TypeOK, Heap, queue # {}
  PROVE  \E e \in queue : IsFirst(e)
<1> DEFINE Before(e) == {o \in queue : RankBefore(o, e)}
           T == {Cardinality(Before(e)) : e \in queue}
<1>1. \A e \in queue : IsFiniteSet(Before(e)) /\ Cardinality(Before(e)) \in Nat
  BY FS_Subset, FS_CardinalityType DEF Heap
<1>2. PICK k \in T : \A y \in T : k <= y
  <2>1. T \in SUBSET Nat /\ T # {}
    BY <1>1
  <2> HIDE DEF T
  <2> QED BY <2>1, LeastElement
<1>3. PICK e \in queue : k = Cardinality(Before(e))
  BY <1>2
<1>4. ASSUME NEW o \in queue, RankBefore(o, e) PROVE FALSE
  <2>1. \A a \in queue : IsRank(a)
    BY RanksAreRanks
  <2>2. o \notin Before(o) /\ \A a \in Before(o) : a \in Before(e)
    BY <1>4, <2>1, RankBeforeStrict
  <2>3. Before(o) \in SUBSET (Before(e) \ {o}) /\ o \in Before(e)
    BY <1>4, <2>2
  <2>4. Cardinality(Before(o)) \in T
    OBVIOUS
  <2> HIDE DEF Before, T
  <2>5. /\ IsFiniteSet(Before(e) \ {o})
        /\ Cardinality(Before(e) \ {o}) = Cardinality(Before(e)) - 1
    BY <1>1, <2>3, FS_RemoveElement
  <2>6. Cardinality(Before(o)) <= Cardinality(Before(e) \ {o})
    BY <2>3, <2>5, FS_Subset
  <2>7. Cardinality(Before(o)) \in Nat /\ Cardinality(Before(e)) \in Nat
    BY <1>1
  <2> QED BY <1>2, <1>3, <2>4, <2>5, <2>6, <2>7
<1> QED BY <1>4 DEF IsFirst

\* While it searches, the search has a step to take: heappop finds an entry that no
\* other one comes before, or the heap is empty.
THEOREM SearchGoesOn ==
  Spec => [](pc = "search" => queue = {} \/ \E e \in queue : IsFirst(e))
<1>1. IInv /\ Heap => (pc = "search" => queue = {} \/ \E e \in queue : IsFirst(e))
  BY FirstExists DEF IInv
<1> QED BY <1>1, Invariance, HeapInvariance, PTL
=============================================================================
