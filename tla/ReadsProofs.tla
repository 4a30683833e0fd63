----------------------------- MODULE ReadsProofs -----------------------------
(***************************************************************************)
(* Every field that reads a table answers about the rows that the role is  *)
(* granted, for tables, roles, claims and arguments of any size.           *)
(***************************************************************************)
EXTENDS Reads, FiniteSetTheorems, FunctionTheorems, SequenceTheorems, WellFoundedInduction, TLAPS

-----------------------------------------------------------------------------
(* A function that is defined by recursion exists: F gives a function its  *)
(* next value, and looks at x only at what is below x.                     *)

Founded(D, Under) ==
  /\ Under \in [D -> SUBSET D]
  /\ \A S \in SUBSET D : S # {} => \E x \in S : Under[x] \cap S = {}
LooksUnder(F, D, V, Under) ==
  /\ F \in [[D -> V] -> [D -> V]]
  /\ \A g, h \in [D -> V] : \A x \in D : (\A y \in Under[x] : g[y] = h[y]) => F[g][x] = F[h][x]

LEMMA Recursion ==
  ASSUME NEW D, NEW V, NEW v \in V, NEW Under, Founded(D, Under), NEW F, LooksUnder(F, D, V, Under)
  PROVE  \E h \in [D -> V] : F[h] = h
<1>a. Under \in [D -> SUBSET D] /\ F \in [[D -> V] -> [D -> V]]
  BY DEF Founded, LooksUnder
<1>b. \A S \in SUBSET D : S # {} => \E x \in S : Under[x] \cap S = {}
  BY DEF Founded
<1>c. \A g, h \in [D -> V] : \A x \in D : (\A y \in Under[x] : g[y] = h[y]) => F[g][x] = F[h][x]
  BY DEF LooksUnder
<1>. DEFINE Solves(h, C) == \A x \in C : Under[x] \subseteq C /\ F[h][x] = h[x]
            Solved(x, n) == \E C \in SUBSET D : \E h \in [D -> V] : x \in C /\ Solves(h, C) /\ h[x] = n
            Good == {x \in D : \E n : Solved(x, n)}
            g == [x \in D |-> IF x \in Good THEN CHOOSE n : Solved(x, n) ELSE v]
<1>1. ASSUME NEW B \in SUBSET D, NEW C \in SUBSET D, NEW k \in [D -> V], NEW h \in [D -> V],
             Solves(k, B), Solves(h, C)
      PROVE  \A x \in B \cap C : k[x] = h[x]
  <2>. DEFINE S == {x \in B \cap C : k[x] # h[x]}
  <2>1. SUFFICES ASSUME S # {} PROVE FALSE
    OBVIOUS
  <2>2. PICK x \in S : Under[x] \cap S = {}
    BY <2>1, <1>b
  <2>a. x \in B /\ x \in C /\ x \in D /\ k[x] # h[x]
    OBVIOUS
  <2>b. Under[x] \subseteq B \cap C /\ F[k][x] = k[x] /\ F[h][x] = h[x]
    BY <1>1, <2>a
  <2>3. \A y \in Under[x] : k[y] = h[y]
    BY <2>2, <2>b, <1>a
  <2>4. F[k][x] = F[h][x]
    BY <2>3, <2>a, <1>c
  <2>. QED  BY <2>a, <2>b, <2>4
<1>2. ASSUME NEW C \in SUBSET D, NEW h \in [D -> V], Solves(h, C), NEW x \in C
      PROVE  x \in Good /\ g[x] = h[x]
  <2>1. Solved(x, h[x])
    BY <1>2
  <2>2. \A n : Solved(x, n) => n = h[x]
    BY <1>1, <1>2
  <2>. QED  BY <2>1, <2>2
<1>3. g \in [D -> V]
  <2>. SUFFICES ASSUME NEW x \in Good PROVE g[x] \in V
    OBVIOUS
  <2>1. PICK C \in SUBSET D, h \in [D -> V] : x \in C /\ Solves(h, C)
    OBVIOUS
  <2>. HIDE DEF Solves, Good, g
  <2>2. g[x] = h[x]
    BY <1>2, <2>1
  <2>. QED  BY <2>1, <2>2
<1>. HIDE DEF g
<1>4. Solves(g, Good)
  <2>. SUFFICES ASSUME NEW x \in Good PROVE Under[x] \subseteq Good /\ F[g][x] = g[x]
    OBVIOUS
  <2>1. PICK C \in SUBSET D, h \in [D -> V] : x \in C /\ Solves(h, C)
    OBVIOUS
  <2>. HIDE DEF Solves, Good
  <2>2. \A y \in C : y \in Good /\ g[y] = h[y]
    BY <1>2, <2>1
  <2>3. Under[x] \subseteq C /\ F[h][x] = h[x]
    BY <2>1 DEF Solves
  <2>4. F[g][x] = F[h][x]
    BY <1>3, <1>a, <1>c, <2>1, <2>2, <2>3
  <2>. QED  BY <2>1, <2>2, <2>3, <2>4
<1>5. Good = D
  <2>1. SUFFICES ASSUME D \ Good # {} PROVE FALSE
    OBVIOUS
  <2>a. Good \subseteq D
    OBVIOUS
  <2>2. PICK x \in D \ Good : Under[x] \cap (D \ Good) = {}
    <3>. HIDE DEF Good
    <3>. QED  BY <2>1, <1>b
  <2>. DEFINE C == Good \cup {x}
              h == [g EXCEPT ![x] = F[g][x]]
  <2>3. h \in [D -> V] /\ h[x] = F[g][x] /\ \A y \in Good : h[y] = g[y]
    <3>. HIDE DEF Good
    <3>. QED  BY <1>3, <1>a, <2>2, <2>a
  <2>4. \A y \in C : Under[y] \subseteq Good
    <3>. HIDE DEF Good
    <3>. QED  BY <1>4, <1>a, <2>2, <2>a
  <2>5. \A y \in C : F[h][y] = F[g][y]
    <3>. HIDE DEF Good, h
    <3>. QED  BY <1>3, <1>a, <1>c, <2>2, <2>3, <2>4, <2>a
  <2>6. Solves(h, C)
    <3>. HIDE DEF Good, h
    <3>. QED  BY <1>4, <2>2, <2>3, <2>4, <2>5
  <2>7. x \in Good
    <3>1. C \in SUBSET D /\ x \in C
      BY <2>a
    <3>. HIDE DEF h, C, Solves, Good
    <3>. QED  BY <1>2, <2>3, <2>6, <3>1
  <2>. QED  BY <2>2, <2>7
<1>6. \A x \in D : F[g][x] = g[x]
  <2>. HIDE DEF Good
  <2>. QED  BY <1>4, <1>5
<1>7. F[g] = g
  <2>. HIDE DEF Good
  <2>1. F[g] \in [D -> V]
    BY <1>3, <1>a
  <2>. QED  BY <1>3, <1>6, <2>1
<1>. QED  BY <1>3, <1>7

-----------------------------------------------------------------------------
(* Conditions.                                                             *)

Truths == {"T", "F", "U"}

LEMMA AndFacts ==
  /\ \A vs : SqlAnd(vs) \in Truths
  /\ \A v, w \in Truths : SqlAnd({v, w}) = "T" <=> v = "T" /\ w = "T"
BY DEF SqlAnd, Truths

PartIn(t, e, r) ==
  LET sub == {t[y] : y \in e.sub}
  IN  CASE e.op = "_and" -> SqlAnd(sub)
        [] e.op = "_or" -> IF e.sub = {} THEN "T" ELSE SqlOr(sub)
        [] e.op = "_not" -> SqlNot(SqlAnd(sub))
        [] OTHER -> columnCond(e.op, r[e.col], e.list)
LevelIn(t, exp, r) == SqlAnd({PartIn(t, e, r) : e \in exp})
Truth(r) == CHOOSE t : t = [exp \in Wheres |-> LevelIn(t, exp, r)]

Nested == [exp \in Wheres |-> UNION {e.sub : e \in exp}]

LEMMA NestedFacts ==
  /\ Founded(Wheres, Nested)
  /\ \A exp \in Wheres : \A e \in exp : e.sub \subseteq Nested[exp]
<1>1. Nested \in [Wheres -> SUBSET Wheres]
  BY WhereAssumption DEF Nested
<1>2. \A exp \in Wheres : \A e \in exp : e.sub \subseteq Nested[exp]
  BY DEF Nested
<1>3. ASSUME NEW S \in SUBSET Wheres, S # {} PROVE \E exp \in S : Nested[exp] \cap S = {}
  <2>1. PICK exp \in S : \A e \in exp : e.sub \cap S = {}
    BY <1>3, WhereAssumption
  <2>. QED  BY <2>1 DEF Nested
<1>. QED  BY <1>1, <1>2, <1>3 DEF Founded

LEMMA TruthFacts ==
  ASSUME NEW r
  PROVE  /\ Truth(r) \in [Wheres -> Truths]
         /\ \A exp \in Wheres : /\ whereSQL(exp, r) = Truth(r)[exp]
                                /\ Truth(r)[exp] = LevelIn(Truth(r), exp, r)
<1>. DEFINE F == [g \in [Wheres -> Truths] |-> [exp \in Wheres |-> LevelIn(g, exp, r)]]
<1>1. F \in [[Wheres -> Truths] -> [Wheres -> Truths]]
  BY AndFacts DEF LevelIn
<1>2. ASSUME NEW g \in [Wheres -> Truths], NEW h \in [Wheres -> Truths], NEW exp \in Wheres,
             \A y \in Nested[exp] : g[y] = h[y]
      PROVE  F[g][exp] = F[h][exp]
  <2>1. \A e \in exp : {g[y] : y \in e.sub} = {h[y] : y \in e.sub}
    BY <1>2, NestedFacts
  <2>2. \A e \in exp : PartIn(g, e, r) = PartIn(h, e, r)
    BY <2>1 DEF PartIn
  <2>3. LevelIn(g, exp, r) = LevelIn(h, exp, r)
    BY <2>2 DEF LevelIn
  <2>. QED  BY <2>3
<1>3. PICK t \in [Wheres -> Truths] : F[t] = t
  <2>1. "T" \in Truths
    BY DEF Truths
  <2>2. LooksUnder(F, Wheres, Truths, Nested)
    BY <1>1, <1>2 DEF LooksUnder
  <2>. HIDE DEF F
  <2>. QED  BY <2>1, <2>2, NestedFacts, Recursion
<1>4. t = [exp \in Wheres |-> LevelIn(t, exp, r)]
  BY <1>3
<1>5. Truth(r) = [exp \in Wheres |-> LevelIn(Truth(r), exp, r)]
  BY <1>4 DEF Truth
<1>6. \A exp \in Wheres : whereSQL(exp, r) = Truth(r)[exp]
  BY DEF whereSQL, Truth, LevelIn, PartIn
<1>7. Truth(r) \in [Wheres -> Truths]
  BY <1>5, AndFacts DEF LevelIn
<1>. QED  BY <1>5, <1>6, <1>7

Granting(p, c, r) ==
  p.filter # NoFilter =>
    LET x == r[p.filter.col]
    IN  /\ c # {} /\ x # Null
        /\ IF p.filter.op = "_in" THEN x \in c ELSE {x, Null} \cap c = {}

LEMMA FilterFacts ==
  ASSUME NEW p \in Roles, NEW c, NEW r
  PROVE  /\ rbacCond(p.filter, c, r) \in Truths
         /\ rbacCond(p.filter, c, r) = "T" <=> Granting(p, c, r)
<1>. DEFINE f == p.filter
            x == r[f.col]
<1>1. CASE f = NoFilter
  BY <1>1 DEF rbacCond, Truths, Granting
<1>2. CASE f # NoFilter /\ f.op = "_in"
  BY <1>2 DEF rbacCond, columnCond, SqlIn, Bound, Truths, Granting
<1>3. CASE f # NoFilter /\ f.op = "_nin"
  <2>1. rbacCond(f, c, r) = SqlNot(SqlIn(x, Bound(c)))
    BY <1>3 DEF rbacCond, columnCond, Bound
  <2>2. SqlIn(x, Bound(c)) = "F" <=> c # {} /\ x # Null /\ {x, Null} \cap c = {}
    BY DEF SqlIn, Bound
  <2>. HIDE DEF x
  <2>3. SqlIn(x, Bound(c)) \in Truths
    BY DEF SqlIn, Truths
  <2>. QED  BY <1>3, <2>1, <2>2, <2>3 DEF SqlNot, Truths, Granting, x
<1>. QED  BY <1>1, <1>2, <1>3, ListFieldAssumption

\* Whatever `where` says, the rows that match are those that the filter grants
\* and that `where` is true of.
LEMMA MatchingFacts ==
  ASSUME NEW t, NEW p \in Roles, NEW c, NEW exp \in Wheres
  PROVE  Matching(t, p, c, exp) = {r \in t : whereSQL(exp, r) = "T" /\ Granting(p, c, r)}
<1>1. \A r : whereSQL(exp, r) \in Truths
  BY TruthFacts
<1>. QED  BY <1>1, FilterFacts, AndFacts DEF Matching

-----------------------------------------------------------------------------
(* Sequences without repetitions, and pages.                               *)

LEMMA LeastNatural ==
  ASSUME NEW S \in SUBSET Nat, S # {}
  PROVE  \E m \in S : \A n \in S : n >= m
<1>1. PICK m \in S : \A n \in S : ~(<<n, m>> \in OpToRel(<, Nat))
  BY NatLessThanWellFounded, WFMin
<1>2. \A n \in S : ~(n < m)
  BY <1>1, Zenon DEF OpToRel
<1>3. m \in Nat /\ \A n \in S : n \in Nat
  OBVIOUS
<1>. QED  BY <1>2, <1>3

LEMMA PermutationFacts ==
  ASSUME NEW S, IsFiniteSet(S), NEW q \in SetToSeqs(S)
  PROVE  /\ q \in Seq(S) /\ Len(q) \in Nat /\ Len(q) = Cardinality(S) /\ DOMAIN q = 1 .. Len(q)
         /\ \A i, j \in 1 .. Len(q) : q[i] = q[j] => i = j
         /\ \A x \in S : \E i \in 1 .. Len(q) : q[i] = x
<1>. DEFINE n == Cardinality(S)
<1>1. n \in Nat
  BY FS_CardinalityType
<1>2. q \in [1 .. n -> S] /\ \A i, j \in 1 .. n : i # j => q[i] # q[j]
  BY DEF SetToSeqs
<1>3. q \in Seq(S) /\ DOMAIN q = 1 .. n
  BY <1>1, <1>2
<1>4. Len(q) = n
  BY <1>1, <1>3, LenProperties
<1>5. q \in Injection(1 .. n, S)
  BY <1>2 DEF Injection, IsInjective
<1>6. Cardinality(1 .. n) = n
  BY <1>1, FS_Interval
<1>7. q \in Surjection(1 .. n, S)
  BY <1>5, <1>6, FS_Injection
<1>. QED  BY <1>1, <1>2, <1>3, <1>4, <1>7 DEF Surjection

LEMMA PermutationIs ==
  ASSUME NEW S, IsFiniteSet(S), NEW q \in Seq(S),
         \A i, j \in 1 .. Len(q) : q[i] = q[j] => i = j,
         \A x \in S : \E i \in 1 .. Len(q) : q[i] = x
  PROVE  q \in SetToSeqs(S)
<1>. DEFINE n == Len(q)
<1>1. n \in Nat /\ q \in [1 .. n -> S]
  BY LenProperties
<1>2. q \in Bijection(1 .. n, S)
  BY <1>1 DEF Bijection, Injection, Surjection, IsInjective
<1>3. Cardinality(S) = n
  <2>1. IsFiniteSet(1 .. n) /\ Cardinality(1 .. n) = n
    BY <1>1, FS_Interval
  <2>2. ExistsBijection(1 .. n, S)
    BY <1>2 DEF ExistsBijection
  <2>. HIDE DEF n
  <2>. QED  BY <2>1, <2>2, FS_Bijection
<1>. QED  BY <1>1, <1>3 DEF SetToSeqs

Least(x, y) == IF x <= y THEN x ELSE y

\* A page has the rows from the offset on, at most as many as the limit.
LEMMA PageFacts ==
  ASSUME NEW S, NEW q \in Seq(S), NEW a, Limit(a) \in Nat, Offset(a) \in Nat
  PROVE  /\ Page(q, a) \in Seq(S)
         /\ Len(Page(q, a)) = Least(Limit(a), IF Len(q) > Offset(a) THEN Len(q) - Offset(a) ELSE 0)
         /\ \A i \in 1 .. Len(Page(q, a)) : /\ Offset(a) + i \in 1 .. Len(q)
                                            /\ Page(q, a)[i] = q[Offset(a) + i]
<1>. DEFINE o == Offset(a)
            l == Limit(a)
            n == Len(q)
            rest == SubSeq(q, o + 1, n)
            left == IF n > o THEN n - o ELSE 0
            cut == SubSeq(rest, 1, l)
<1>1. n \in Nat /\ \A i \in 1 .. n : q[i] \in S
  BY LenProperties, ElementOfSeq
<1>2. rest \in Seq(S) /\ Len(rest) = left /\ \A i \in 1 .. left : rest[i] = q[o + i]
  <2>. HIDE DEF o, n
  <2>1. o + 1 \in Int /\ n \in Int /\ \A i \in o + 1 .. n : q[i] \in S
    BY <1>1 DEF o
  <2>2. /\ rest \in Seq(S) /\ Len(rest) = IF o + 1 <= n THEN n - (o + 1) + 1 ELSE 0
        /\ \A i \in 1 .. n - (o + 1) + 1 : rest[i] = q[(o + 1) + i - 1]
    BY <2>1, SubSeqProperties
  <2>3. o \in Nat
    BY DEF o
  <2>4. \A i \in 1 .. left : i \in 1 .. n - (o + 1) + 1 /\ (o + 1) + i - 1 = o + i
    BY <1>1, <2>3
  <2>5. left = IF o + 1 <= n THEN n - (o + 1) + 1 ELSE 0
    BY <1>1, <2>3
  <2>. HIDE DEF rest, left
  <2>. QED  BY <2>2, <2>4, <2>5
<1>3. o \in Nat /\ l \in Nat /\ left \in Nat
  BY <1>1
<1>4. \A i \in 1 .. left : o + i \in 1 .. n
  BY <1>1, <1>3
<1>5. Page(q, a) = IF Len(rest) > l THEN cut ELSE rest
  BY DEF Page
<1>. HIDE DEF rest, left, o, l, n
<1>6. CASE left > l
  <2>1. \A i \in 1 .. l : rest[i] \in S
    BY <1>2, <1>3, <1>6, ElementOfSeq
  <2>2. /\ cut \in Seq(S) /\ Len(cut) = IF 1 <= l THEN l - 1 + 1 ELSE 0
        /\ \A i \in 1 .. l - 1 + 1 : cut[i] = rest[1 + i - 1]
    BY <1>3, <2>1, SubSeqProperties
  <2>. HIDE DEF cut
  <2>3. Len(cut) = l /\ \A i \in 1 .. l : cut[i] = rest[i] /\ i \in 1 .. left
    BY <1>3, <1>6, <2>2
  <2>4. Page(q, a) = cut /\ Least(l, left) = l
    BY <1>2, <1>3, <1>5, <1>6 DEF Least
  <2>. QED  BY <1>2, <1>4, <2>2, <2>3, <2>4 DEF o, l, n, left
<1>7. CASE left <= l
  <2>1. Page(q, a) = rest /\ Least(l, left) = left
    BY <1>2, <1>3, <1>5, <1>7 DEF Least
  <2>. QED  BY <1>2, <1>4, <2>1 DEF o, l, n, left
<1>. QED  BY <1>3, <1>6, <1>7

-----------------------------------------------------------------------------
(* The groups of a batch.                                                  *)

\* g is what q has for parent k in its first n rows, in their order.
PicksAt(at, l, g, q, n, k) ==
  /\ at \in [1 .. l -> 1 .. n]
  /\ \A i, j \in 1 .. l : i < j => at[i] < at[j]
  /\ \A i \in 1 .. l : g[i] = q[at[i]] /\ q[at[i]][Joined] = k
  /\ \A m \in 1 .. n : q[m][Joined] = k => \E i \in 1 .. l : at[i] = m
Picks(g, q, n, k) == g \in Seq(Rows) /\ \E at : PicksAt(at, Len(g), g, q, n, k)

NextGroups(q, t, n) ==
  IF n = 0 THEN [k \in Parents |-> <<>>]
  ELSE [t[n - 1] EXCEPT ![q[n][Joined]] = Append(@, q[n])]
Groups(q) == CHOOSE t : t = [n \in 0 .. Len(q) |-> NextGroups(q, t, n)]

LEMMA CountingDown ==
  ASSUME NEW n \in Nat
  PROVE  Founded(0 .. n, [i \in 0 .. n |-> IF i = 0 THEN {} ELSE {i - 1}])
<1>. DEFINE D == 0 .. n
            U == [i \in D |-> IF i = 0 THEN {} ELSE {i - 1}]
<1>1. U \in [D -> SUBSET D]
  OBVIOUS
<1>2. ASSUME NEW S \in SUBSET D, S # {} PROVE \E x \in S : U[x] \cap S = {}
  <2>1. PICK m \in S : \A x \in S : x >= m
    BY <1>2, LeastNatural
  <2>. QED  BY <2>1
<1>. QED  BY <1>1, <1>2 DEF Founded

LEMMA GroupsFacts ==
  ASSUME NEW q \in Seq(Rows)
  PROVE  /\ Groups(q) \in [0 .. Len(q) -> [Parents -> Seq(Rows)]]
         /\ \A n \in 0 .. Len(q) : Groups(q)[n] = NextGroups(q, Groups(q), n)
         /\ groupByColumns(q) = Groups(q)[Len(q)]
<1>. DEFINE D == 0 .. Len(q)
            V == [Parents -> Seq(Rows)]
            Before1 == [i \in D |-> IF i = 0 THEN {} ELSE {i - 1}]
            F == [t \in [D -> V] |-> [n \in D |-> NextGroups(q, t, n)]]
<1>1. Len(q) \in Nat /\ \A n \in 1 .. Len(q) : q[n] \in Rows
  BY LenProperties, ElementOfSeq
<1>2. ASSUME NEW t, NEW n \in D, n # 0 => t[n - 1] \in V PROVE NextGroups(q, t, n) \in V
  <2>1. CASE n = 0
    BY <2>1, EmptySeq DEF NextGroups
  <2>2. CASE n # 0
    <3>1. n - 1 \in D /\ n \in 1 .. Len(q)
      BY <1>1, <2>2
    <3>2. t[n - 1] \in V /\ q[n] \in Rows
      BY <1>1, <1>2, <2>2, <3>1
    <3>3. \A k \in Parents : Append(t[n - 1][k], q[n]) \in Seq(Rows)
      BY <3>2, AppendProperties
    <3>. QED  BY <2>2, <3>2, <3>3 DEF NextGroups
  <2>. QED  BY <2>1, <2>2
<1>3. F \in [[D -> V] -> [D -> V]]
  <2>1. \A n \in D : n # 0 => n - 1 \in D
    BY <1>1
  <2>2. \A t \in [D -> V] : \A n \in D : NextGroups(q, t, n) \in V
    BY <1>2, <2>1
  <2>. QED  BY <2>2
<1>4. ASSUME NEW g \in [D -> V], NEW h \in [D -> V], NEW n \in D, \A y \in Before1[n] : g[y] = h[y]
      PROVE  F[g][n] = F[h][n]
  BY <1>4 DEF NextGroups
<1>5. LooksUnder(F, D, V, Before1)
  BY <1>3, <1>4 DEF LooksUnder
<1>6. PICK t \in [D -> V] : F[t] = t
  <2>1. [k \in Parents |-> <<>>] \in V
    BY EmptySeq
  <2>2. Founded(D, Before1)
    BY <1>1, CountingDown
  <2>. HIDE DEF F, D, V, Before1
  <2>. QED  BY <1>5, <2>1, <2>2, Recursion
<1>7. t = [n \in D |-> NextGroups(q, t, n)]
  BY <1>6
<1>8. Groups(q) = [n \in D |-> NextGroups(q, Groups(q), n)]
  BY <1>7 DEF Groups
<1>9. groupByColumns(q) = Groups(q)[Len(q)]
  BY DEF groupByColumns, Groups, NextGroups
<1>10. \A n \in D : Groups(q)[n] \in V
  <2>. DEFINE S == {n \in D : Groups(q)[n] \notin V}
  <2>1. SUFFICES ASSUME S # {} PROVE FALSE
    OBVIOUS
  <2>2. PICK m \in S : \A n \in S : n >= m
    <3>1. S \in SUBSET Nat
      BY <1>1
    <3>. HIDE DEF S
    <3>. QED  BY <2>1, <3>1, LeastNatural
  <2>3. m # 0 => m - 1 \in D /\ m - 1 \notin S
    BY <1>1, <2>2
  <2>. HIDE DEF V
  <2>4. NextGroups(q, Groups(q), m) \in V
    BY <1>2, <2>3
  <2>. QED  BY <1>8, <2>4
<1>. QED  BY <1>8, <1>9, <1>10

LEMMA PicksNext ==
  ASSUME NEW q \in Seq(Rows), NEW n \in 1 .. Len(q), NEW k, NEW g, Picks(g, q, n - 1, k),
         NEW h, h = IF q[n][Joined] = k THEN Append(g, q[n]) ELSE g
  PROVE  Picks(h, q, n, k)
<1>1. q[n] \in Rows /\ g \in Seq(Rows) /\ n \in Nat \ {0}
  BY LenProperties, ElementOfSeq DEF Picks
<1>. DEFINE l == Len(g)
<1>2. PICK at \in [1 .. l -> 1 .. n - 1] :
        /\ \A i, j \in 1 .. l : i < j => at[i] < at[j]
        /\ \A i \in 1 .. l : g[i] = q[at[i]] /\ q[at[i]][Joined] = k
        /\ \A m \in 1 .. n - 1 : q[m][Joined] = k => \E i \in 1 .. l : at[i] = m
  BY DEF Picks, PicksAt
<1>3. l \in Nat
  BY <1>1, LenProperties
<1>4. \A i \in 1 .. l : at[i] \in 1 .. n - 1 /\ at[i] < n
  BY <1>1, <1>2
<1>5. \A m \in 1 .. n : m = n \/ m \in 1 .. n - 1
  BY <1>1
<1>6. CASE q[n][Joined] = k
  <2>. DEFINE to == [i \in 1 .. l + 1 |-> IF i = l + 1 THEN n ELSE at[i]]
  <2>1. h \in Seq(Rows) /\ Len(h) = l + 1 /\ h[l + 1] = q[n] /\ \A i \in 1 .. l : h[i] = g[i]
    BY <1>1, <1>6, AppendProperties
  <2>. HIDE DEF l
  <2>2. \A i \in 1 .. l + 1 : i = l + 1 \/ i \in 1 .. l
    BY <1>3
  <2>3. to \in [1 .. l + 1 -> 1 .. n] /\ to[l + 1] = n /\ \A i \in 1 .. l : to[i] = at[i]
    BY <1>1, <1>3, <1>4, <2>2
  <2>. HIDE DEF to
  <2>4. \A i, j \in 1 .. l + 1 : i < j => to[i] < to[j]
    <3>. SUFFICES ASSUME NEW i \in 1 .. l + 1, NEW j \in 1 .. l + 1, i < j PROVE to[i] < to[j]
      OBVIOUS
    <3>1. i \in 1 .. l
      BY <1>3
    <3>. QED  BY <1>2, <1>4, <2>2, <2>3, <3>1
  <2>5. \A i \in 1 .. l + 1 : h[i] = q[to[i]] /\ q[to[i]][Joined] = k
    BY <1>2, <1>6, <2>1, <2>2, <2>3
  <2>6. \A m \in 1 .. n : q[m][Joined] = k => \E i \in 1 .. l + 1 : to[i] = m
    <3>. SUFFICES ASSUME NEW m \in 1 .. n, q[m][Joined] = k PROVE \E i \in 1 .. l + 1 : to[i] = m
      OBVIOUS
    <3>1. CASE m = n
      BY <1>3, <2>3, <3>1
    <3>2. CASE m \in 1 .. n - 1
      <4>1. PICK i \in 1 .. l : at[i] = m
        BY <1>2, <3>2
      <4>. QED  BY <1>3, <2>3, <4>1
    <3>. QED  BY <1>5, <3>1, <3>2
  <2>7. PicksAt(to, l + 1, h, q, n, k)
    BY <2>3, <2>4, <2>5, <2>6 DEF PicksAt
  <2>. QED  BY <2>1, <2>7 DEF Picks
<1>7. CASE q[n][Joined] # k
  <2>1. at \in [1 .. l -> 1 .. n]
    BY <1>1, <1>2
  <2>2. \A m \in 1 .. n : q[m][Joined] = k => \E i \in 1 .. l : at[i] = m
    BY <1>2, <1>5, <1>7
  <2>3. h = g
    BY <1>7
  <2>4. PicksAt(at, l, h, q, n, k)
    BY <1>2, <2>1, <2>2, <2>3 DEF PicksAt
  <2>. QED  BY <1>1, <2>3, <2>4 DEF Picks
<1>. QED  BY <1>6, <1>7

LEMMA GroupPicks ==
  ASSUME NEW q \in Seq(Rows), NEW k \in Parents
  PROVE  Picks(groupByColumns(q)[k], q, Len(q), k)
<1>. DEFINE D == 0 .. Len(q)
            t == Groups(q)
            S == {n \in D : ~Picks(t[n][k], q, n, k)}
<1>1. Len(q) \in Nat
  BY LenProperties
<1>2. /\ t \in [D -> [Parents -> Seq(Rows)]]
      /\ \A n \in D : t[n] = NextGroups(q, t, n)
  BY GroupsFacts
<1>. HIDE DEF t
<1>3. ASSUME S # {} PROVE FALSE
  <2>1. PICK m \in S : \A n \in S : n >= m
    <3>1. S \in SUBSET Nat
      BY <1>1
    <3>. HIDE DEF S
    <3>. QED  BY <1>3, <3>1, LeastNatural
  <2>2. m \in D /\ ~Picks(t[m][k], q, m, k)
    OBVIOUS
  <2>3. CASE m = 0
    <3>1. t[m][k] = <<>>
      BY <1>2, <2>2, <2>3 DEF NextGroups
    <3>2. <<>> \in Seq(Rows) /\ Len(<<>>) = 0
      BY EmptySeq
    <3>3. PicksAt([i \in 1 .. 0 |-> i], 0, <<>>, q, 0, k)
      BY DEF PicksAt
    <3>4. Picks(<<>>, q, 0, k)
      BY <3>2, <3>3 DEF Picks
    <3>. QED  BY <2>2, <2>3, <3>1, <3>4
  <2>4. CASE m # 0
    <3>1. m \in 1 .. Len(q) /\ m - 1 \in D /\ m - 1 \notin S
      BY <1>1, <2>1, <2>4
    <3>2. Picks(t[m - 1][k], q, m - 1, k)
      BY <3>1
    <3>3. t[m - 1] \in [Parents -> Seq(Rows)] /\ t[m] = NextGroups(q, t, m)
      BY <1>2, <2>2, <3>1
    <3>4. t[m][k] = IF q[m][Joined] = k THEN Append(t[m - 1][k], q[m]) ELSE t[m - 1][k]
      BY <2>4, <3>3 DEF NextGroups
    <3>. HIDE DEF S, D
    <3>. QED  BY <2>2, <3>1, <3>2, <3>4, PicksNext
  <2>. QED  BY <2>3, <2>4
<1>4. Len(q) \in D /\ groupByColumns(q) = t[Len(q)]
  BY <1>1, GroupsFacts DEF t
<1>. QED  BY <1>3, <1>4

\* The group of a parent is its share of the batch, in the order of the batch.
LEMMA GroupSorted ==
  ASSUME NEW U \in SUBSET Rows, IsFiniteSet(U), NEW order, NEW q \in Sorted(U, order), NEW k \in Parents
  PROVE  groupByColumns(q)[k] \in Sorted(ChildrenOf(k, U), order)
<1>. DEFINE g == groupByColumns(q)[k]
            C == ChildrenOf(k, U)
            l == Len(g)
            n == Len(q)
<1>1. /\ q \in Seq(U) /\ n \in Nat
      /\ \A i, j \in 1 .. n : q[i] = q[j] => i = j
      /\ \A x \in U : \E i \in 1 .. n : q[i] = x
      /\ \A i, j \in 1 .. n : i < j => ~Before(q[j], q[i], order)
      /\ \A i \in 1 .. n : q[i] \in U
  <2>1. q \in SetToSeqs(U) /\ \A i, j \in 1 .. n : i < j => ~Before(q[j], q[i], order)
    BY DEF Sorted
  <2>. HIDE DEF n
  <2>2. /\ q \in Seq(U) /\ Len(q) \in Nat
        /\ \A i, j \in 1 .. Len(q) : q[i] = q[j] => i = j
        /\ \A x \in U : \E i \in 1 .. Len(q) : q[i] = x
    BY <2>1, PermutationFacts
  <2>. QED  BY <2>1, <2>2, ElementOfSeq DEF n
<1>2. q \in Seq(Rows)
  BY <1>1, SeqMonotonic
<1>3. g \in Seq(Rows) /\ \E at : PicksAt(at, l, g, q, n, k)
  BY <1>2, GroupPicks DEF Picks
<1>4. PICK at : PicksAt(at, l, g, q, n, k)
  BY <1>3
<1>5. l \in Nat /\ g \in [1 .. l -> Rows]
  BY <1>3, LenProperties
<1>. HIDE DEF g, l, n
<1>6. /\ \A i \in 1 .. l : at[i] \in 1 .. n /\ g[i] = q[at[i]] /\ g[i][Joined] = k
      /\ \A i, j \in 1 .. l : i < j => at[i] < at[j]
      /\ \A m \in 1 .. n : q[m][Joined] = k => \E i \in 1 .. l : at[i] = m
  BY <1>4 DEF PicksAt
<1>7. \A i \in 1 .. l : g[i] \in C
  BY <1>1, <1>6 DEF ChildrenOf
<1>8. g \in [1 .. l -> C]
  BY <1>5, <1>7
<1>9. g \in Seq(C)
  BY <1>5, <1>8
<1>10. \A i, j \in 1 .. l : g[i] = g[j] => i = j
  <2>. SUFFICES ASSUME NEW i \in 1 .. l, NEW j \in 1 .. l, g[i] = g[j], i # j PROVE FALSE
    OBVIOUS
  <2>a. at[i] \in 1 .. n /\ at[j] \in 1 .. n /\ q[at[i]] = q[at[j]]
    BY <1>6
  <2>1. at[i] = at[j]
    BY <1>1, <2>a
  <2>2. at[i] \in Nat /\ at[j] \in Nat /\ (i < j \/ j < i)
    BY <1>5, <1>6
  <2>. QED  BY <1>6, <2>1, <2>2
<1>11. \A x \in C : \E i \in 1 .. l : g[i] = x
  <2>. SUFFICES ASSUME NEW x \in C PROVE \E i \in 1 .. l : g[i] = x
    OBVIOUS
  <2>1. x \in U /\ x[Joined] = k
    BY DEF ChildrenOf
  <2>2. PICK m \in 1 .. n : q[m] = x
    BY <1>1, <2>1
  <2>. QED  BY <1>6, <2>1, <2>2
<1>12. IsFiniteSet(C)
  BY FS_Subset DEF ChildrenOf
<1>13. l = Len(g)
  BY DEF l
<1>. HIDE DEF C
<1>14. g \in SetToSeqs(C)
  BY <1>9, <1>10, <1>11, <1>12, <1>13, PermutationIs
<1>15. \A i, j \in 1 .. l : i < j => ~Before(g[j], g[i], order)
  BY <1>1, <1>6
<1>. QED  BY <1>13, <1>14, <1>15 DEF Sorted, g, C

\* What the window keeps of a parent has the page that the parent's own query
\* gives, if it breaks ties in the same way.
LEMMA WindowIsDirect ==
  ASSUME NEW R \in SUBSET Rows, IsFiniteSet(R), NEW k, NEW a, Limit(a) \in Nat, Offset(a) \in Nat,
         NEW w \in Window(R, a, k), NEW g \in Sorted(w, a.order)
  PROVE  \E d \in Sorted(ChildrenOf(k, R), a.order) : Page(g, a) = Page(d, a)
<1>. DEFINE C == ChildrenOf(k, R)
            n == perKeyLimit(a)
            order == a.order
<1>1. IsFiniteSet(C) /\ n = Limit(a) + Offset(a) /\ n \in Nat
  BY FS_Subset DEF ChildrenOf, perKeyLimit
<1>. HIDE DEF C, n
<1>2. CASE w = C
  BY <1>2 DEF C
<1>3. ASSUME w # C
      PROVE  \E q \in Sorted(C, windowOrder(order)) : w = {q[i] : i \in {j \in 1 .. Len(q) : j <= n}}
  BY <1>3 DEF Window, C, n
<1>4. CASE w # C
  <2>1. PICK q \in Sorted(C, windowOrder(order)) : w = {q[i] : i \in {j \in 1 .. Len(q) : j <= n}}
    BY <1>3, <1>4
  <2>. DEFINE c == Len(q)
              l == Len(g)
              tail == SubSeq(q, n + 1, c)
              d == g \o tail
  <2>2. /\ q \in Seq(C) /\ c \in Nat
        /\ \A i, j \in 1 .. c : q[i] = q[j] => i = j
        /\ \A x \in C : \E i \in 1 .. c : q[i] = x
        /\ \A i \in 1 .. c : q[i] \in C
        /\ \A i, j \in 1 .. c : i < j => ~Before(q[j], q[i], windowOrder(order))
    <3>1. q \in SetToSeqs(C) /\ \A i, j \in 1 .. c : i < j => ~Before(q[j], q[i], windowOrder(order))
      BY DEF Sorted
    <3>. QED  BY <1>1, <3>1, PermutationFacts, ElementOfSeq
  <2>. HIDE DEF c
  <2>3. w \subseteq C /\ w = {q[i] : i \in {j \in 1 .. c : j <= n}}
    BY <2>1, <2>2 DEF c
  <2>4. n < c
    <3>. SUFFICES ASSUME ~(n < c) PROVE FALSE
      OBVIOUS
    <3>1. \A i \in 1 .. c : i <= n
      BY <1>1, <2>2
    <3>. QED  BY <1>4, <2>2, <2>3, <3>1
  <2>5. \A i \in 1 .. n : i \in 1 .. c /\ q[i] \in w
    BY <1>1, <2>2, <2>3, <2>4
  <2>6. IsFiniteSet(w)
    BY <1>1, <2>3, FS_Subset
  <2>7. /\ g \in Seq(w) /\ l \in Nat /\ l = Cardinality(w)
        /\ \A i, j \in 1 .. l : g[i] = g[j] => i = j
        /\ \A x \in w : \E i \in 1 .. l : g[i] = x
        /\ \A i \in 1 .. l : g[i] \in w
        /\ \A i, j \in 1 .. l : i < j => ~Before(g[j], g[i], order)
    <3>1. g \in SetToSeqs(w) /\ \A i, j \in 1 .. l : i < j => ~Before(g[j], g[i], order)
      BY DEF Sorted
    <3>. QED  BY <2>6, <3>1, PermutationFacts, ElementOfSeq
  <2>. HIDE DEF l
  <2>8. l = n
    <3>. DEFINE first == [i \in 1 .. n |-> q[i]]
    <3>1. \A x \in w : \E i \in 1 .. n : q[i] = x
      BY <1>1, <2>2, <2>3
    <3>2. first \in Bijection(1 .. n, w)
      BY <2>2, <2>5, <3>1 DEF Bijection, Injection, Surjection, IsInjective
    <3>3. ExistsBijection(1 .. n, w)
      BY <3>2 DEF ExistsBijection
    <3>4. IsFiniteSet(1 .. n) /\ Cardinality(1 .. n) = n
      BY <1>1, FS_Interval
    <3>. QED  BY <2>7, <3>3, <3>4, FS_Bijection
  <2>9. /\ tail \in Seq(C) /\ Len(tail) = c - n
        /\ \A i \in 1 .. c - n : tail[i] = q[n + i] /\ n + i \in 1 .. c
    <3>1. n + 1 \in Int /\ c \in Int /\ \A i \in n + 1 .. c : q[i] \in C
      BY <1>1, <2>2
    <3>2. /\ tail \in Seq(C) /\ Len(tail) = IF n + 1 <= c THEN c - (n + 1) + 1 ELSE 0
          /\ \A i \in 1 .. c - (n + 1) + 1 : tail[i] = q[(n + 1) + i - 1]
      BY <3>1, SubSeqProperties
    <3>a. c \in Nat /\ n \in Nat /\ n < c
      BY <1>1, <2>2, <2>4
    <3>3. c - (n + 1) + 1 = c - n /\ n + 1 <= c /\ \A i \in 1 .. c - n : (n + 1) + i - 1 = n + i /\ n + i \in 1 .. c
      BY <3>a
    <3>. HIDE DEF tail
    <3>. QED  BY <3>2, <3>3
  <2>10. g \in Seq(C)
    BY <2>3, <2>7, SeqMonotonic
  <2>. HIDE DEF tail
  <2>11. /\ d \in Seq(C) /\ Len(d) = c
         /\ \A i \in 1 .. n : d[i] = g[i] /\ g[i] \in w
         /\ \A i \in n + 1 .. c : d[i] = q[i]
    <3>1. /\ d \in Seq(C) /\ Len(d) = n + (c - n)
          /\ \A i \in 1 .. n + (c - n) : d[i] = IF i <= n THEN g[i] ELSE tail[i - n]
      <4>1. Len(g) = n
        BY <2>8 DEF l
      <4>2. tail \in Seq(C) /\ Len(tail) = c - n
        BY <2>9
      <4>3. /\ d \in Seq(C) /\ Len(d) = Len(g) + Len(tail)
            /\ \A i \in 1 .. Len(g) + Len(tail) : d[i] = IF i <= Len(g) THEN g[i] ELSE tail[i - Len(g)]
        BY <2>10, <4>2, ConcatProperties
      <4>. HIDE DEF d
      <4>. QED  BY <4>1, <4>2, <4>3
    <3>. HIDE DEF d
    <3>2. n + (c - n) = c
      BY <1>1, <2>2
    <3>3. \A i \in 1 .. n : i \in 1 .. c /\ i <= n
      BY <1>1, <2>5
    <3>4. \A i \in n + 1 .. c : i \in 1 .. c /\ ~(i <= n) /\ i - n \in 1 .. c - n /\ n + (i - n) = i
      BY <1>1, <2>2
    <3>. QED  BY <2>7, <2>8, <2>9, <3>1, <3>2, <3>3, <3>4
  <2>. HIDE DEF d
  <2>12. \A i \in 1 .. c : i \in 1 .. n \/ i \in n + 1 .. c
    BY <1>1, <2>2
  <2>13. \A i \in n + 1 .. c : i \in 1 .. c /\ q[i] \notin w
    <3>. SUFFICES ASSUME NEW i \in n + 1 .. c PROVE i \in 1 .. c /\ q[i] \notin w
      OBVIOUS
    <3>1. i \in 1 .. c /\ ~(i <= n)
      BY <1>1, <2>2
    <3>. QED  BY <2>2, <2>3, <3>1
  <2>14. ASSUME NEW i \in 1 .. c, NEW j \in 1 .. c, d[i] = d[j] PROVE i = j
    <3>1. CASE i \in 1 .. n /\ j \in 1 .. n
      BY <2>7, <2>8, <2>11, <2>14, <3>1
    <3>2. CASE i \in n + 1 .. c /\ j \in n + 1 .. c
      BY <2>2, <2>11, <2>14, <3>2
    <3>3. CASE i \in 1 .. n /\ j \in n + 1 .. c
      BY <2>11, <2>13, <2>14, <3>3
    <3>4. CASE i \in n + 1 .. c /\ j \in 1 .. n
      BY <2>11, <2>13, <2>14, <3>4
    <3>. QED  BY <2>12, <3>1, <3>2, <3>3, <3>4
  <2>15. \A x \in C : \E i \in 1 .. c : d[i] = x
    <3>. SUFFICES ASSUME NEW x \in C PROVE \E i \in 1 .. c : d[i] = x
      OBVIOUS
    <3>1. CASE x \in w
      <4>1. PICK i \in 1 .. n : g[i] = x
        BY <2>7, <2>8, <3>1
      <4>. QED  BY <2>5, <2>11, <4>1
    <3>2. CASE x \notin w
      <4>1. PICK i \in 1 .. c : q[i] = x
        BY <2>2
      <4>2. i \in n + 1 .. c
        BY <2>5, <2>12, <3>2, <4>1
      <4>. QED  BY <2>11, <4>1, <4>2
    <3>. QED  BY <3>1, <3>2
  <2>16. d \in SetToSeqs(C)
    BY <1>1, <2>11, <2>14, <2>15, PermutationIs
  <2>17. ASSUME NEW i \in 1 .. c, NEW j \in 1 .. c, i < j PROVE ~Before(d[j], d[i], order)
    <3>1. CASE j \in 1 .. n
      <4>1. i \in 1 .. n
        BY <1>1, <2>17, <3>1
      <4>. QED  BY <2>7, <2>8, <2>11, <2>17, <3>1, <4>1
    <3>2. CASE order = <<>>
      BY <3>2 DEF Before
    <3>3. CASE j \in n + 1 .. c /\ order # <<>>
      <4>1. windowOrder(order) = order /\ d[j] = q[j]
        BY <2>11, <3>3 DEF windowOrder
      <4>2. PICK m \in 1 .. c : m < j /\ d[i] = q[m]
        <5>1. CASE i \in n + 1 .. c
          BY <2>11, <2>13, <2>17, <5>1
        <5>2. CASE i \in 1 .. n
          <6>1. PICK m \in 1 .. c : m <= n /\ q[m] = g[i]
            BY <2>3, <2>11, <5>2
          <6>. QED  BY <1>1, <2>11, <3>3, <5>2, <6>1
        <5>. QED  BY <2>12, <5>1, <5>2
      <4>. QED  BY <2>2, <4>1, <4>2
    <3>. QED  BY <2>12, <3>1, <3>2, <3>3
  <2>18. d \in Sorted(C, order)
    BY <2>11, <2>16, <2>17 DEF Sorted
  <2>19. Page(g, a) = Page(d, a)
    <3>. DEFINE L == Limit(a)
                o == Offset(a)
    <3>1. L \in Nat /\ o \in Nat /\ n = L + o
      BY <1>1
    <3>2. /\ Page(g, a) \in Seq(C) /\ Page(d, a) \in Seq(C)
          /\ Len(Page(g, a)) = Least(L, IF n > o THEN n - o ELSE 0)
          /\ Len(Page(d, a)) = Least(L, IF c > o THEN c - o ELSE 0)
          /\ \A i \in 1 .. Len(Page(g, a)) : o + i \in 1 .. n /\ Page(g, a)[i] = g[o + i]
          /\ \A i \in 1 .. Len(Page(d, a)) : Page(d, a)[i] = d[o + i]
      <4>1. Len(g) = n /\ Len(d) = c /\ g \in Seq(C) /\ d \in Seq(C)
        BY <2>8, <2>10, <2>11 DEF l
      <4>. HIDE DEF d
      <4>2. /\ Page(g, a) \in Seq(C)
            /\ Len(Page(g, a)) = Least(L, IF n > o THEN n - o ELSE 0)
            /\ \A i \in 1 .. Len(Page(g, a)) : o + i \in 1 .. n /\ Page(g, a)[i] = g[o + i]
        BY <4>1, PageFacts
      <4>3. /\ Page(d, a) \in Seq(C)
            /\ Len(Page(d, a)) = Least(L, IF c > o THEN c - o ELSE 0)
            /\ \A i \in 1 .. Len(Page(d, a)) : Page(d, a)[i] = d[o + i]
        BY <4>1, PageFacts
      <4>. QED  BY <4>2, <4>3
    <3>. HIDE DEF L, o
    <3>3. Len(Page(g, a)) = L /\ Len(Page(d, a)) = L
      BY <2>2, <2>4, <3>1, <3>2 DEF Least
    <3>4. \A i \in 1 .. L : Page(g, a)[i] = Page(d, a)[i]
      BY <2>11, <3>2, <3>3
    <3>. QED  BY <3>2, <3>3, <3>4, SeqEqual
  <2>. QED  BY <2>18, <2>19 DEF C
<1>. QED  BY <1>2, <1>4

-----------------------------------------------------------------------------
(* The answers.                                                            *)

LEMMA PageBounds ==
  ASSUME NEW a \in Args, ~BadPage(a)
  PROVE  Limit(a) \in Nat /\ Limit(a) <= MaxPage /\ Offset(a) \in Nat
<1>1. a.limit \in Int \cup {Left} /\ a.offset \in Int \cup {Left} /\ Default \in Nat /\ MaxPage \in Nat
  BY ListFieldAssumption DEF Args
<1>2. Limit(a) \in Int /\ Offset(a) \in Int /\ Limit(a) <= MaxPage
  BY <1>1 DEF Limit, Offset
<1>. QED  BY <1>2 DEF BadPage

LEMMA MatchingRows ==
  ASSUME NEW t \in Tables, NEW p, NEW c, NEW exp
  PROVE  Matching(t, p, c, exp) \in SUBSET Rows /\ IsFiniteSet(Matching(t, p, c, exp))
<1>1. Matching(t, p, c, exp) \subseteq t /\ t \subseteq Rows /\ IsFiniteSet(t)
  BY ListFieldAssumption DEF Matching
<1>. QED  BY <1>1, FS_Subset

\* Batched or not, a parent gets an answer of its own query.
LEMMA AnswersDirect ==
  ASSUME NEW t \in Tables, NEW p \in Roles, NEW c, NEW a \in Args, ~Fails(p, c, a),
         NEW f \in Answers(t, p, c, a), NEW k \in Parents
  PROVE  f[k] \in runSelect(t, p, c, a, k)
<1>1. CASE ~Batchable(p)
  BY <1>1 DEF Answers
<1>2. CASE Batchable(p)
  <2>. DEFINE R == Matching(t, p, c, a.where)
  <2>1. PICK q \in runSelectByKeys(t, p, c, a) : f = Grouped(q, a)
    BY <1>2 DEF Answers
  <2>2. PICK kept \in [Parents -> SUBSET R] :
          /\ \A j \in Parents : kept[j] \in Window(R, a, j)
          /\ q \in Sorted(UNION {kept[j] : j \in Parents}, a.order)
    BY <2>1 DEF runSelectByKeys
  <2>3. R \in SUBSET Rows /\ IsFiniteSet(R)
    BY MatchingRows
  <2>. DEFINE U == UNION {kept[j] : j \in Parents}
  <2>4. \A j \in Parents : kept[j] \subseteq ChildrenOf(j, R)
    <3>. SUFFICES ASSUME NEW j \in Parents PROVE kept[j] \subseteq ChildrenOf(j, R)
      OBVIOUS
    <3>1. IsFiniteSet(ChildrenOf(j, R))
      BY <2>3, FS_Subset DEF ChildrenOf
    <3>2. CASE kept[j] = ChildrenOf(j, R)
      BY <3>2
    <3>3. CASE kept[j] # ChildrenOf(j, R)
      <4>. HIDE DEF R
      <4>1. PICK s \in Sorted(ChildrenOf(j, R), windowOrder(a.order)) :
              kept[j] = {s[i] : i \in {m \in 1 .. Len(s) : m <= perKeyLimit(a)}}
        BY <2>2, <3>3 DEF Window
      <4>2. \A i \in 1 .. Len(s) : s[i] \in ChildrenOf(j, R)
        BY <3>1, <4>1, PermutationFacts, ElementOfSeq DEF Sorted
      <4>. QED  BY <4>1, <4>2
    <3>. QED  BY <3>2, <3>3
  <2>. HIDE DEF R
  <2>5. U \in SUBSET Rows /\ IsFiniteSet(U)
    <3>1. U \subseteq R
      BY <2>2
    <3>. HIDE DEF U
    <3>. QED  BY <2>3, <3>1, FS_Subset
  <2>6. ChildrenOf(k, U) = kept[k]
    BY <2>4 DEF ChildrenOf
  <2>7. groupByColumns(q)[k] \in Sorted(kept[k], a.order)
    <3>. HIDE DEF U
    <3>. QED  BY <2>2, <2>5, <2>6, GroupSorted DEF U
  <2>8. f[k] = Page(groupByColumns(q)[k], a)
    BY <2>1 DEF Grouped
  <2>9. Limit(a) \in Nat /\ Offset(a) \in Nat
    BY PageBounds DEF Fails
  <2>10. \E d \in Sorted(ChildrenOf(k, R), a.order) : Page(groupByColumns(q)[k], a) = Page(d, a)
    BY <2>2, <2>3, <2>7, <2>9, WindowIsDirect
  <2>. QED  BY <2>8, <2>10 DEF runSelect, R
<1>. QED  BY <1>1, <1>2

\* What one parent may be answered with.
LEMMA DirectRows ==
  ASSUME NEW t \in Tables, NEW p \in Roles, NEW c, NEW a \in Args, ~Fails(p, c, a),
         NEW k \in Parents, NEW s \in runSelect(t, p, c, a, k)
  PROVE  /\ s \in Seq(Rows) /\ Len(s) <= MaxPage
         /\ \A i \in 1 .. Len(s) : /\ s[i] \in Matching(t, p, c, a.where)
                                   /\ s[i][Joined] = k
<1>. DEFINE R == Matching(t, p, c, a.where)
            C == ChildrenOf(k, R)
<1>1. PICK q \in Sorted(C, a.order) : s = Page(q, a)
  BY DEF runSelect
<1>2. Limit(a) \in Nat /\ Offset(a) \in Nat /\ Limit(a) <= MaxPage /\ MaxPage \in Nat
  BY PageBounds, ListFieldAssumption DEF Fails
<1>3. R \in SUBSET Rows /\ IsFiniteSet(C)
  BY MatchingRows, FS_Subset DEF ChildrenOf
<1>. HIDE DEF R
<1>4. q \in Seq(C) /\ Len(q) \in Nat
  BY <1>1, <1>3, PermutationFacts DEF Sorted
<1>5. s \in Seq(C) /\ Len(s) <= Limit(a)
  BY <1>1, <1>2, <1>4, PageFacts DEF Least
<1>6. Len(s) \in Nat /\ \A i \in 1 .. Len(s) : s[i] \in C
  BY <1>5, LenProperties, ElementOfSeq
<1>7. s \in Seq(Rows)
  BY <1>3, <1>5, SeqMonotonic DEF ChildrenOf
<1>. QED  BY <1>2, <1>5, <1>6, <1>7 DEF ChildrenOf, R

-----------------------------------------------------------------------------
(* The state: what was read is an answer of the field that was read.       *)

Reading(field, of, answers) ==
  \E got \in answers : root = [field |-> field, of |-> of, got |-> got]

Request == table \in Tables /\ role \in Roles /\ claim \in Claims \cup {NoClaim} /\ args \in Args
Answered == answer = None \/ answer \in Answers(table, role, claim, args)
RootRead ==
  \/ root = NoRead
  \/ \E id \in Ids : Reading("by_pk", id, ByPk(table, role, claim, id))
  \/ Reading("count", Null, runCount(table, role, claim))
  \/ Reading("aggregate", Null, runAggregate(table, role, claim))
  \/ Reading("nearest", To, runNearest(table, role, claim))

ReadInv == Request /\ Answered /\ RootRead

LEMMA ReadInit == RootInit => ReadInv
BY DEF RootInit, Init, ReadInv, Request, Answered, RootRead

LEMMA ReadStep == ReadInv /\ [ReadNext]_<<vars, root>> => ReadInv'
<1>. SUFFICES ASSUME ReadInv, [ReadNext]_<<vars, root>> PROVE ReadInv'
  OBVIOUS
<1>1. UNCHANGED <<table, role, claim, args>>
  BY DEF ReadNext, ReadList, Resolve, ReadByPk, ReadCount, ReadAggregate, ReadNearest, Read, vars
<1>2. Request'
  BY <1>1 DEF ReadInv, Request
<1>4. CASE ReadList
  BY <1>1, <1>2, <1>4 DEF ReadList, Resolve, ReadInv, Answered, RootRead, Reading, runCount, runAggregate, runNearest, Answer, Aggregated
<1>5. CASE ReadByPk
  BY <1>1, <1>2, <1>5 DEF ReadByPk, Read, ReadInv, Answered, RootRead, Reading, vars
<1>6. CASE ReadCount
  BY <1>1, <1>2, <1>6 DEF ReadCount, Read, ReadInv, Answered, RootRead, Reading, vars, runCount, Answer
<1>7. CASE ReadAggregate
  BY <1>1, <1>2, <1>7 DEF ReadAggregate, Read, ReadInv, Answered, RootRead, Reading, vars, runAggregate, Answer, Aggregated
<1>8. CASE ReadNearest
  BY <1>1, <1>2, <1>8 DEF ReadNearest, Read, ReadInv, Answered, RootRead, Reading, vars, runNearest, Answer
<1>9. CASE UNCHANGED <<vars, root>>
  BY <1>1, <1>2, <1>9 DEF vars, ReadInv, Answered, RootRead, Reading, runCount, runAggregate, runNearest, Answer, Aggregated
<1>. QED  BY <1>4, <1>5, <1>6, <1>7, <1>8, <1>9 DEF ReadNext

LEMMA ReadAlways == ReadSpec => []ReadInv
<1>. QED  BY ReadInit, ReadStep, PTL DEF ReadSpec

\* "the batched query is never a correctness compromise": for every table,
\* role, claim and page, what the windowed query gives a parent is a possible
\* answer of the query for that parent alone.
THEOREM BatchIsNoCompromise == ReadSpec => []BatchedIsDirect
<1>1. ReadInv => BatchedIsDirect
  <2>. SUFFICES ASSUME ReadInv, answer # None, NEW k \in Parents
                PROVE  IF Fails(role, claim, args) THEN answer[k] = Failed
                       ELSE answer[k] \in runSelect(table, role, claim, args, k)
    BY DEF BatchedIsDirect
  <2>1. answer \in Answers(table, role, claim, args) /\ Request
    BY DEF ReadInv, Answered
  <2>2. CASE Fails(role, claim, args)
    BY <2>1, <2>2 DEF Answers
  <2>3. CASE ~Fails(role, claim, args)
    BY <2>1, <2>3, AnswersDirect DEF Request
  <2>. QED  BY <2>2, <2>3
<1>. QED  BY <1>1, ReadAlways, PTL

\* A relationship shows no row but those of its parent that the filter of the
\* role grants, whatever `where` asks for, and at most max_page_size of them.
THEOREM RelationsFiltered == ReadSpec => []RowsPermitted
<1>1. ReadInv => RowsPermitted
  <2>. SUFFICES ASSUME ReadInv, NEW k \in Parents, Rowed(k)
                PROVE  Len(answer[k]) <= MaxPage /\ \A i \in 1 .. Len(answer[k]) :
                         LET r == answer[k][i] f == role.filter
                         IN  /\ r[Joined] = k
                             /\ f # NoFilter =>
                                  /\ claim \notin {NoClaim, {}} /\ r[f.col] # Null
                                  /\ IF f.op = "_in" THEN r[f.col] \in claim
                                     ELSE {r[f.col], Null} \cap claim = {}
    BY DEF RowsPermitted
  <2>1. Request /\ answer[k] # Failed /\ answer[k] # <<>>
    BY DEF ReadInv, Rowed
  <2>2. answer # None
    BY <2>1 DEF None
  <2>3. answer \in Answers(table, role, claim, args)
    BY <2>2 DEF ReadInv, Answered
  <2>4. ~Fails(role, claim, args)
    BY <2>1, <2>3 DEF Answers
  <2>5. answer[k] \in runSelect(table, role, claim, args, k)
    BY <2>1, <2>3, <2>4, AnswersDirect DEF Request
  <2>6. /\ Len(answer[k]) <= MaxPage
        /\ \A i \in 1 .. Len(answer[k]) : /\ answer[k][i] \in Matching(table, role, claim, args.where)
                                          /\ answer[k][i][Joined] = k
    BY <2>1, <2>4, <2>5, DirectRows DEF Request
  <2>7. args.where \in Wheres /\ role \in Roles
    BY <2>1 DEF Request, Args
  <2>8. role.filter # NoFilter => claim # NoClaim
    BY <2>4 DEF Fails, FilterFails
  <2>9. \A i \in 1 .. Len(answer[k]) : Granting(role, claim, answer[k][i])
    BY <2>6, <2>7, MatchingFacts
  <2>. QED  BY <2>6, <2>8, <2>9 DEF Granting
<1>. QED  BY <1>1, ReadAlways, PTL

-----------------------------------------------------------------------------
(* The fields at the root.                                                 *)

GrantedRows == IF role.filter # NoFilter /\ claim = {} THEN {} ELSE Granted

LEMMA GrantedMatch ==
  ASSUME Request
  PROVE  /\ Matching(table, role, claim, args.where) = GrantedRows
         /\ IsFiniteSet(GrantedRows) /\ GrantedRows \subseteq Rows
<1>1. role \in Roles /\ args.where \in Wheres /\ table \in Tables
  BY DEF Request, Args
<1>2. Matching(table, role, claim, args.where) = {r \in table : whereSQL(args.where, r) = "T" /\ Granting(role, claim, r)}
  BY <1>1, MatchingFacts
<1>3. Matching(table, role, claim, args.where) = GrantedRows
  BY <1>2 DEF GrantedRows, Granted, Granting
<1>. QED  BY <1>1, <1>3, MatchingRows

\* The page that nearest asks for.
LEMMA NearestPage ==
  ASSUME Request, ~(Limit(args) < 0)
  PROVE  /\ Limit(args) \in Nat /\ Limit(args) <= MaxPage /\ MaxPage \in Nat
         /\ LET page == [limit |-> Limit(args), offset |-> 0]
            IN  Limit(page) = Limit(args) /\ Offset(page) = 0
<1>. DEFINE l == Limit(args)
            page == [limit |-> l, offset |-> 0]
<1>1. l \in Nat /\ l <= MaxPage /\ MaxPage \in Nat
  <2>1. args.limit \in Int \cup {Left} /\ Default \in Nat /\ MaxPage \in Nat
    BY ListFieldAssumption DEF Request, Args
  <2>2. l \in Int /\ l <= MaxPage
    BY <2>1 DEF Limit
  <2>. QED  BY <2>1, <2>2
<1>. HIDE DEF l
<1>2. Limit(page) = l /\ Offset(page) = 0
  <2>1. Left \notin Int
    BY ListFieldAssumption
  <2>2. page.limit # Left /\ page.offset # Left /\ page.limit = l /\ page.offset = 0
    BY <1>1, <2>1
  <2>3. Limit(page) = (IF l > MaxPage THEN MaxPage ELSE l) /\ Offset(page) = 0
    BY <2>2 DEF Limit, Offset
  <2>. QED  BY <1>1, <2>3
<1>. QED  BY <1>1, <1>2 DEF l

\* Nearest: the page is made of the nearest of the rows that have a vector.
LEMMA NearestRows ==
  ASSUME Request, NEW got \in runNearest(table, role, claim), got # Failed
  PROVE  LET shown == ToSet(got)
         IN  /\ shown \subseteq GrantedRows
             /\ Len(got) <= MaxPage /\ Nearer(got)
             /\ \A r \in GrantedRows \ shown : r[Vector] # Null =>
                  Len(got) = Limit(args) /\ \A s \in shown : Distance(s) <= Distance(r)
<1>. DEFINE rows == {r \in GrantedRows : r[Vector] # Null}
            page == [limit |-> Limit(args), offset |-> 0]
            l == Limit(args)
            n == Len(got)
<1>1. ~(Limit(args) < 0) /\ \E q \in SetToSeqs(rows) : Nearer(q) /\ got = Page(q, page)
  BY GrantedMatch DEF runNearest, Answer
<1>2. PICK q \in SetToSeqs(rows) : Nearer(q) /\ got = Page(q, page)
  BY <1>1
<1>3. l \in Nat /\ l <= MaxPage /\ MaxPage \in Nat
  BY <1>1, NearestPage
<1>4. Limit(page) = l /\ Offset(page) = 0
  BY <1>1, NearestPage
<1>5. IsFiniteSet(rows) /\ rows \subseteq GrantedRows
  BY GrantedMatch, FS_Subset
<1>. HIDE DEF rows, page, l, n
<1>6. /\ q \in Seq(rows) /\ Len(q) \in Nat
      /\ \A x \in rows : \E i \in 1 .. Len(q) : q[i] = x
  BY <1>5, PermutationFacts
<1>7. /\ got \in Seq(rows) /\ n = Least(l, IF Len(q) > 0 THEN Len(q) - 0 ELSE 0)
      /\ \A i \in 1 .. n : 0 + i \in 1 .. Len(q) /\ got[i] = q[0 + i]
  <2>1. Limit(page) \in Nat /\ Offset(page) \in Nat /\ q \in Seq(rows)
    BY <1>3, <1>4, <1>6
  <2>2. /\ Page(q, page) \in Seq(rows)
        /\ Len(Page(q, page)) = Least(Limit(page), IF Len(q) > Offset(page) THEN Len(q) - Offset(page) ELSE 0)
        /\ \A i \in 1 .. Len(Page(q, page)) : /\ Offset(page) + i \in 1 .. Len(q)
                                               /\ Page(q, page)[i] = q[Offset(page) + i]
    BY ONLY <2>1, PageFacts
  <2>3. Page(q, page) = got
    BY <1>2
  <2>. QED  BY <1>4, <2>2, <2>3 DEF n
<1>8. n = Least(l, Len(q)) /\ n \in Nat /\ DOMAIN got = 1 .. n
  BY <1>3, <1>6, <1>7, LenProperties DEF n, Least
<1>9. \A i \in 1 .. n : i \in 1 .. Len(q) /\ got[i] = q[i] /\ got[i] \in rows
  BY <1>6, <1>7, <1>8, ElementOfSeq
<1>10. ToSet(got) \subseteq GrantedRows
  BY <1>5, <1>8, <1>9 DEF ToSet
<1>11. n <= MaxPage
  BY <1>3, <1>6, <1>8 DEF Least
<1>12. \A i, j \in 1 .. Len(q) : i < j => Distance(q[i]) <= Distance(q[j])
  BY <1>2 DEF Nearer
<1>13. Nearer(got)
  BY <1>9, <1>12 DEF Nearer, n
<1>14. ASSUME NEW r \in GrantedRows \ ToSet(got), r[Vector] # Null
       PROVE  n = l /\ \A s \in ToSet(got) : Distance(s) <= Distance(r)
  <2>1. PICK j \in 1 .. Len(q) : q[j] = r
    BY <1>6, <1>14 DEF rows
  <2>2. j \notin 1 .. n
    <3>1. \A i \in 1 .. n : got[i] \in ToSet(got)
      BY <1>8 DEF ToSet
    <3>. QED  BY <1>9, <1>14, <2>1, <3>1
  <2>3. n < j /\ n = l
    BY <1>3, <1>6, <1>8, <2>1, <2>2 DEF Least
  <2>4. ASSUME NEW s \in ToSet(got) PROVE Distance(s) <= Distance(r)
    <3>1. PICK i \in 1 .. n : got[i] = s
      BY <1>8 DEF ToSet
    <3>2. i \in 1 .. Len(q) /\ q[i] = s /\ i < j
      BY <1>8, <1>9, <2>3, <3>1
    <3>. QED  BY <1>12, <2>1, <3>2
  <2>. QED  BY <2>3, <2>4
<1>. QED  BY <1>10, <1>11, <1>13, <1>14 DEF n, l

\* "the RBAC row filter is applied on every read path": whatever the table, the
\* role, the claim and the arguments are, a field at the root answers about the
\* rows that the role is granted, all of them and no others.
THEOREM ReadsFiltered == ReadSpec => []EveryPathFiltered
<1>1. ReadInv => EveryPathFiltered
  <2>. SUFFICES ASSUME ReadInv PROVE EveryPathFiltered
    OBVIOUS
  <2>1. Request /\ RootRead /\ {} \in Wheres
    BY WhereAssumption DEF ReadInv
  <2>2. role.filter # NoFilter /\ claim = NoClaim => FilterFails(role.filter, claim)
    BY DEF FilterFails
  <2>3. CASE root = NoRead
    BY <2>3 DEF EveryPathFiltered, Found
  <2>4. ASSUME NEW id \in Ids, Reading("by_pk", id, ByPk(table, role, claim, id)) PROVE EveryPathFiltered
    <3>1. PICK got \in ByPk(table, role, claim, id) : root = [field |-> "by_pk", of |-> id, got |-> got]
      BY <2>4 DEF Reading
    <3>2. got # Failed /\ args.where = {} => got = {r \in GrantedRows : r[Pk] = id}
      BY <2>1, <3>1, GrantedMatch DEF ByPk
    <3>3. FilterFails(role.filter, claim) => got = Failed
      BY <3>1 DEF ByPk
    <3>. QED  BY <2>2, <3>1, <3>2, <3>3 DEF EveryPathFiltered, Found, GrantedRows
  <2>5. CASE Reading("count", Null, runCount(table, role, claim))
    <3>1. PICK got \in runCount(table, role, claim) : root = [field |-> "count", of |-> Null, got |-> got]
      BY <2>5 DEF Reading
    <3>2. got # Failed => got = Cardinality(GrantedRows)
      BY <2>1, <3>1, GrantedMatch DEF runCount, Answer
    <3>3. FilterFails(role.filter, claim) => got = Failed
      BY <3>1 DEF runCount, Answer
    <3>. QED  BY <2>2, <3>1, <3>2, <3>3 DEF EveryPathFiltered, Found, GrantedRows
  <2>6. CASE Reading("aggregate", Null, runAggregate(table, role, claim))
    <3>1. PICK got \in runAggregate(table, role, claim) : root = [field |-> "aggregate", of |-> Null, got |-> got]
      BY <2>6 DEF Reading
    <3>2. got # Failed => got = Aggregates(GrantedRows, role.columns)
      BY <2>1, <3>1, GrantedMatch DEF runAggregate, Aggregated, Answer
    <3>3. FilterFails(role.filter, claim) => got = Failed
      BY <3>1 DEF runAggregate, Answer
    <3>. QED  BY <2>2, <3>1, <3>2, <3>3 DEF EveryPathFiltered, Found, GrantedRows
  <2>7. CASE Reading("nearest", To, runNearest(table, role, claim))
    <3>1. PICK got \in runNearest(table, role, claim) : root = [field |-> "nearest", of |-> To, got |-> got]
      BY <2>7 DEF Reading
    <3>2. got # Failed => LET shown == ToSet(got)
                          IN  /\ shown \subseteq GrantedRows
                              /\ Len(got) <= MaxPage /\ Nearer(got)
                              /\ \A r \in GrantedRows \ shown : r[Vector] # Null =>
                                   Len(got) = Limit(args) /\ \A s \in shown : Distance(s) <= Distance(r)
      BY <2>1, <3>1, NearestRows
    <3>3. FilterFails(role.filter, claim) => got = Failed
      BY <3>1 DEF runNearest, Answer
    <3>. QED  BY <2>2, <3>1, <3>2, <3>3 DEF EveryPathFiltered, Found, GrantedRows
  <2>. QED  BY <2>1, <2>3, <2>4, <2>5, <2>6, <2>7 DEF RootRead
<1>. QED  BY <1>1, ReadAlways, PTL

-----------------------------------------------------------------------------
(* Tables that a role cannot tell apart.  Each row of A has a twin in B     *)
(* that has the same values in the columns `cols`.                         *)

Maps(T, A, B) == \A r \in A : T[r] \in B
Twins(T, A, B, cols) ==
  /\ Maps(T, A, B) /\ \A r \in A : \A x \in cols : T[r][x] = r[x]
  /\ \A r, s \in A : T[r] = T[s] => r = s
  /\ \A s \in B : \E r \in A : T[r] = s

MirrorSeq(T, q) == [i \in 1 .. Len(q) |-> T[q[i]]]
Mirror(T, S) == {T[r] : r \in S}

\* The rows of two tables of which the role has the same view are twins.
LEMMA ViewTwins ==
  ASSUME NEW t \in Tables, NEW u \in Tables, NEW more, View(t, more) = View(u, more)
  PROVE  \E T : Twins(T, Matching(t, role, claim, {}), Matching(u, role, claim, {}),
                      role.columns \cup more \cup {Pk})
<1>. DEFINE A == Matching(t, role, claim, {})
            B == Matching(u, role, claim, {})
            cols == role.columns \cup more
            seen(r) == <<r[Pk], [x \in cols |-> r[x]]>>
            T == [r \in A |-> CHOOSE s \in B : seen(s) = seen(r)]
<1>1. {seen(r) : r \in A} = {seen(r) : r \in B}
  BY DEF View
<1>2. /\ \A r, s \in A : r[Pk] = s[Pk] => r = s
      /\ \A r, s \in B : r[Pk] = s[Pk] => r = s
  BY ListFieldAssumption DEF Matching
<1>. HIDE DEF A, B
<1>3. \A r, s : seen(r) = seen(s) => r[Pk] = s[Pk] /\ \A x \in cols : r[x] = s[x]
  <2>. SUFFICES ASSUME NEW r, NEW s, seen(r) = seen(s)
                PROVE  r[Pk] = s[Pk] /\ \A x \in cols : r[x] = s[x]
    OBVIOUS
  <2>1. r[Pk] = s[Pk] /\ [x \in cols |-> r[x]] = [x \in cols |-> s[x]]
    OBVIOUS
  <2>. QED  BY <2>1
<1>. HIDE DEF seen
<1>4. \A r \in A : T[r] \in B /\ seen(T[r]) = seen(r)
  BY <1>1
<1>5. \A s \in B : \E r \in A : seen(r) = seen(s)
  BY <1>1
<1>. HIDE DEF T
<1>6. \A r \in A : T[r] \in B /\ T[r][Pk] = r[Pk] /\ \A x \in cols : T[r][x] = r[x]
  BY <1>3, <1>4
<1>7. \A r, s \in A : T[r] = T[s] => r = s
  BY <1>2, <1>6
<1>8. \A s \in B : \E r \in A : T[r] = s
  <2>. SUFFICES ASSUME NEW s \in B PROVE \E r \in A : T[r] = s
    OBVIOUS
  <2>1. PICK r \in A : seen(r) = seen(s)
    BY <1>5
  <2>2. T[r][Pk] = s[Pk]
    BY <1>3, <1>6, <2>1
  <2>. QED  BY <1>2, <1>6, <2>2
<1>9. Twins(T, A, B, cols \cup {Pk})
  BY <1>6, <1>7, <1>8 DEF Twins, Maps
<1>. QED  BY <1>9 DEF A, B

LEMMA TwinsOf ==
  ASSUME NEW T, NEW A, NEW B, NEW cols, Twins(T, A, B, cols),
         NEW P \in SUBSET A, NEW Q \in SUBSET B, \A r \in A : r \in P <=> T[r] \in Q
  PROVE  Twins(T, P, Q, cols)
BY DEF Twins, Maps

LEMMA TwinsMirror ==
  ASSUME NEW T, NEW A, NEW B, NEW cols, Twins(T, A, B, cols), NEW P \in SUBSET A
  PROVE  Mirror(T, P) \subseteq B /\ Twins(T, P, Mirror(T, P), cols)
BY DEF Twins, Maps, Mirror

LEMMA TwinsOfOne ==
  ASSUME NEW T, NEW A, NEW B, NEW cols, Twins(T, A, B, cols), Joined \in cols, NEW k
  PROVE  Twins(T, ChildrenOf(k, A), ChildrenOf(k, B), cols)
BY DEF Twins, Maps, ChildrenOf

LEMMA TwinsSize ==
  ASSUME NEW T, NEW A, NEW B, NEW cols, Twins(T, A, B, cols), IsFiniteSet(A)
  PROVE  IsFiniteSet(B) /\ Cardinality(A) = Cardinality(B)
<1>. DEFINE f == [r \in A |-> T[r]]
<1>1. f \in Bijection(A, B)
  BY DEF Twins, Maps, Bijection, Injection, Surjection, IsInjective
<1>2. ExistsBijection(A, B)
  BY <1>1 DEF ExistsBijection
<1>. QED  BY <1>2, FS_Bijection

-----------------------------------------------------------------------------
(* Conditions.                                                             *)

RefusedIn(t, exp, columns) ==
  \E e \in exp :
    IF e.op \in Operators THEN \E y \in e.sub : t[y]
    ELSE Unreadable(e, columns) \/ (e.op \in {"_eq", "_neq", "_gt"} /\ e.list = {})
Refused(columns) == CHOOSE t : t = [exp \in Wheres |-> RefusedIn(t, exp, columns)]

LEMMA RefusesFacts ==
  ASSUME NEW columns
  PROVE  \A exp \in Wheres : /\ Refuses(exp, columns) = Refused(columns)[exp]
                             /\ Refused(columns)[exp] = RefusedIn(Refused(columns), exp, columns)
<1>. DEFINE V == BOOLEAN
            F == [g \in [Wheres -> V] |-> [exp \in Wheres |-> RefusedIn(g, exp, columns)]]
<1>1. F \in [[Wheres -> V] -> [Wheres -> V]]
  BY DEF RefusedIn
<1>2. ASSUME NEW g \in [Wheres -> V], NEW h \in [Wheres -> V], NEW exp \in Wheres,
             \A y \in Nested[exp] : g[y] = h[y]
      PROVE  F[g][exp] = F[h][exp]
  <2>1. \A e \in exp : (\E y \in e.sub : g[y]) = (\E y \in e.sub : h[y])
    BY <1>2, NestedFacts
  <2>2. RefusedIn(g, exp, columns) = RefusedIn(h, exp, columns)
    BY <2>1 DEF RefusedIn
  <2>. QED  BY <2>2
<1>3. PICK t \in [Wheres -> V] : F[t] = t
  <2>1. LooksUnder(F, Wheres, V, Nested)
    BY <1>1, <1>2 DEF LooksUnder
  <2>2. PICK v : v \in V
    OBVIOUS
  <2>. HIDE DEF F, V
  <2>. QED  BY <2>1, <2>2, NestedFacts, Recursion
<1>4. t = [exp \in Wheres |-> RefusedIn(t, exp, columns)]
  BY <1>3
<1>5. Refused(columns) = [exp \in Wheres |-> RefusedIn(Refused(columns), exp, columns)]
  BY <1>4 DEF Refused
<1>6. \A exp \in Wheres : Refuses(exp, columns) = Refused(columns)[exp]
  BY DEF Refuses, Refused, RefusedIn
<1>. QED  BY <1>5, <1>6

\* A condition that is not refused looks only at columns that the role reads.
LEMMA WhereAlike ==
  ASSUME NEW columns, NEW r, NEW s, \A x \in columns : r[x] = s[x],
         NEW exp \in Wheres, ~Refuses(exp, columns)
  PROVE  whereSQL(exp, r) = whereSQL(exp, s)
<1>. DEFINE S == {x \in Wheres : ~Refuses(x, columns) /\ Truth(r)[x] # Truth(s)[x]}
<1>1. ASSUME S # {} PROVE FALSE
  <2>1. PICK x \in S : Nested[x] \cap S = {}
    <3>. HIDE DEF S
    <3>1. S \in SUBSET Wheres
      BY DEF S
    <3>. QED  BY <1>1, <3>1, NestedFacts DEF Founded
  <2>2. x \in Wheres /\ ~Refuses(x, columns) /\ Truth(r)[x] # Truth(s)[x]
    OBVIOUS
  <2>3. ~RefusedIn(Refused(columns), x, columns)
    BY <2>2, RefusesFacts
  <2>4. \A e \in x : e.op \in Operators => \A y \in e.sub : Truth(r)[y] = Truth(s)[y]
    <3>. SUFFICES ASSUME NEW e \in x, e.op \in Operators, NEW y \in e.sub PROVE Truth(r)[y] = Truth(s)[y]
      OBVIOUS
    <3>1. ~Refused(columns)[y]
      BY <2>3 DEF RefusedIn
    <3>2. y \in Wheres /\ y \in Nested[x]
      BY <2>2, NestedFacts, WhereAssumption
    <3>3. ~Refuses(y, columns)
      BY <3>1, <3>2, RefusesFacts
    <3>. QED  BY <2>1, <3>2, <3>3
  <2>5. \A e \in x : e.op \in Operators => {Truth(r)[y] : y \in e.sub} = {Truth(s)[y] : y \in e.sub}
    BY <2>4
  <2>6. \A e \in x : e.op \notin Operators => r[e.col] = s[e.col]
    BY <2>3 DEF RefusedIn, Unreadable
  <2>7. \A e \in x : PartIn(Truth(r), e, r) = PartIn(Truth(s), e, s)
    BY <2>5, <2>6 DEF PartIn, Operators
  <2>8. LevelIn(Truth(r), x, r) = LevelIn(Truth(s), x, s)
    BY <2>7 DEF LevelIn
  <2>. QED  BY <2>2, <2>8, TruthFacts
<1>. QED  BY <1>1, TruthFacts

\* The rows that a `where` leaves of twins are twins.
LEMMA TwinsMatching ==
  ASSUME NEW t, NEW u, NEW p \in Roles, NEW c, NEW T, NEW cols, p.columns \subseteq cols,
         Twins(T, Matching(t, p, c, {}), Matching(u, p, c, {}), cols),
         NEW exp \in Wheres, ~Refuses(exp, p.columns)
  PROVE  Twins(T, Matching(t, p, c, exp), Matching(u, p, c, exp), cols)
<1>. DEFINE A == Matching(t, p, c, {})
            B == Matching(u, p, c, {})
<1>1. {} \in Wheres
  BY WhereAssumption
<1>2. \A r : whereSQL({}, r) = "T"
  BY <1>1, TruthFacts DEF LevelIn, SqlAnd
<1>3. /\ A = {r \in t : Granting(p, c, r)}
      /\ B = {r \in u : Granting(p, c, r)}
  BY <1>1, <1>2, MatchingFacts
<1>4. /\ Matching(t, p, c, exp) = {r \in A : whereSQL(exp, r) = "T"}
      /\ Matching(u, p, c, exp) = {r \in B : whereSQL(exp, r) = "T"}
  BY <1>3, MatchingFacts
<1>5. \A r \in A : T[r] \in B /\ whereSQL(exp, T[r]) = whereSQL(exp, r)
  BY WhereAlike DEF Twins, Maps
<1>. HIDE DEF A, B
<1>. QED  BY <1>4, <1>5, TwinsOf DEF A, B

-----------------------------------------------------------------------------
(* Order and pages.                                                        *)

LEMMA MirrorFacts ==
  ASSUME NEW T, NEW A, NEW B, Maps(T, A, B), NEW q \in Seq(A)
  PROVE  /\ MirrorSeq(T, q) \in Seq(B) /\ Len(MirrorSeq(T, q)) = Len(q) /\ Len(q) \in Nat
         /\ \A i \in 1 .. Len(q) : q[i] \in A /\ MirrorSeq(T, q)[i] = T[q[i]]
<1>1. Len(q) \in Nat /\ \A i \in 1 .. Len(q) : q[i] \in A
  BY LenProperties, ElementOfSeq
<1>2. MirrorSeq(T, q) \in [1 .. Len(q) -> B]
  BY <1>1 DEF MirrorSeq, Maps
<1>3. MirrorSeq(T, q) \in Seq(B) /\ Len(MirrorSeq(T, q)) = Len(q)
  BY <1>1, <1>2, LenProperties
<1>. QED  BY <1>1, <1>3 DEF MirrorSeq

\* Twins stand in the same order, if the order is by columns that they share.
LEMMA BeforeAlike ==
  ASSUME NEW order, NEW R, order \in Seq(R), NEW cols, \A i \in 1 .. Len(order) : order[i].col \in cols,
         NEW r, NEW s, NEW x, NEW y, \A c \in cols : x[c] = r[c] /\ y[c] = s[c]
  PROVE  Before(r, s, order) <=> Before(x, y, order)
<1>1. Len(order) \in Nat
  BY LenProperties
<1>2. \A i \in 1 .. Len(order) : \A j \in 1 .. (i - 1) : j \in 1 .. Len(order)
  BY <1>1
<1>3. \A i \in 1 .. Len(order) : /\ x[order[i].col] = r[order[i].col]
                                 /\ y[order[i].col] = s[order[i].col]
  OBVIOUS
<1>. QED  BY <1>2, <1>3 DEF Before

LEMMA SortedAlike ==
  ASSUME NEW T, NEW A, NEW B, NEW cols, Twins(T, A, B, cols), IsFiniteSet(A),
         NEW order, NEW R, order \in Seq(R), \A i \in 1 .. Len(order) : order[i].col \in cols,
         NEW q \in Sorted(A, order)
  PROVE  MirrorSeq(T, q) \in Sorted(B, order)
<1>. DEFINE m == MirrorSeq(T, q)
            n == Len(q)
<1>1. q \in SetToSeqs(A) /\ \A i, j \in 1 .. n : i < j => ~Before(q[j], q[i], order)
  BY DEF Sorted
<1>2. /\ q \in Seq(A)
      /\ \A i, j \in 1 .. n : q[i] = q[j] => i = j
      /\ \A x \in A : \E i \in 1 .. n : q[i] = x
  BY <1>1, PermutationFacts
<1>3. /\ Maps(T, A, B) /\ \A r \in A : \A x \in cols : T[r][x] = r[x]
      /\ \A r, s \in A : T[r] = T[s] => r = s
      /\ \A s \in B : \E r \in A : T[r] = s
  BY DEF Twins
<1>4. /\ m \in Seq(B) /\ Len(m) = n
      /\ \A i \in 1 .. n : q[i] \in A /\ m[i] = T[q[i]]
  BY <1>2, <1>3, MirrorFacts
<1>. HIDE DEF m, n
<1>5. \A i, j \in 1 .. n : m[i] = m[j] => i = j
  BY <1>2, <1>3, <1>4
<1>6. \A s \in B : \E i \in 1 .. n : m[i] = s
  <2>. SUFFICES ASSUME NEW s \in B PROVE \E i \in 1 .. n : m[i] = s
    OBVIOUS
  <2>1. PICK r \in A : T[r] = s
    BY <1>3
  <2>2. PICK i \in 1 .. n : q[i] = r
    BY <1>2
  <2>. QED  BY <1>4, <2>1, <2>2
<1>7. m \in SetToSeqs(B)
  BY <1>4, <1>5, <1>6, TwinsSize, PermutationIs
<1>8. ASSUME NEW i \in 1 .. n, NEW j \in 1 .. n, i < j PROVE ~Before(m[j], m[i], order)
  <2>1. \A c \in cols : m[j][c] = q[j][c] /\ m[i][c] = q[i][c]
    BY <1>3, <1>4
  <2>2. ~Before(q[j], q[i], order)
    BY <1>1, <1>8 DEF n
  <2>. QED  BY <2>1, <2>2, BeforeAlike
<1>. QED  BY <1>4, <1>7, <1>8 DEF Sorted, m

LEMMA PageAlike ==
  ASSUME NEW T, NEW A, NEW B, Maps(T, A, B), NEW q \in Seq(A),
         NEW a, Limit(a) \in Nat, Offset(a) \in Nat
  PROVE  Page(q, a) \in Seq(A) /\ Page(MirrorSeq(T, q), a) = MirrorSeq(T, Page(q, a))
<1>. DEFINE m == MirrorSeq(T, q)
            d == Page(q, a)
            e == Page(m, a)
            f == MirrorSeq(T, d)
            o == Offset(a)
            n == Len(d)
<1>1. m \in Seq(B) /\ Len(m) = Len(q) /\ \A i \in 1 .. Len(q) : m[i] = T[q[i]]
  BY MirrorFacts
<1>2. d \in Seq(A) /\ \A i \in 1 .. n : o + i \in 1 .. Len(q) /\ d[i] = q[o + i]
  BY PageFacts
<1>3. f \in Seq(B) /\ Len(f) = n /\ \A i \in 1 .. n : f[i] = T[d[i]]
  <2>. HIDE DEF d
  <2>. QED  BY <1>2, MirrorFacts
<1>4. Len(e) = n
  <2>. HIDE DEF m
  <2>1. /\ Len(e) = Least(Limit(a), IF Len(m) > o THEN Len(m) - o ELSE 0)
        /\ Len(d) = Least(Limit(a), IF Len(q) > o THEN Len(q) - o ELSE 0)
    BY <1>1, PageFacts
  <2>. QED  BY <1>1, <2>1
<1>5. e \in Seq(B) /\ \A i \in 1 .. n : e[i] = m[o + i]
  <2>. HIDE DEF m
  <2>1. e \in Seq(B) /\ \A i \in 1 .. Len(e) : e[i] = m[o + i]
    BY <1>1, PageFacts
  <2>. HIDE DEF e
  <2>. QED  BY <1>4, <2>1
<1>. HIDE DEF m, d, e, f, o, n
<1>6. \A i \in 1 .. n : e[i] = f[i]
  BY <1>1, <1>2, <1>3, <1>5
<1>7. e = f
  BY <1>3, <1>4, <1>5, <1>6, SeqEqual
<1>. QED  BY <1>2, <1>7 DEF d, e, f, m

-----------------------------------------------------------------------------
(* Groups and windows.                                                     *)

LEMMA AppendAlike ==
  ASSUME NEW T, NEW A, NEW B, Maps(T, A, B), NEW g \in Seq(A), NEW r \in A
  PROVE  /\ Append(g, r) \in Seq(A)
         /\ Append(MirrorSeq(T, g), T[r]) = MirrorSeq(T, Append(g, r))
<1>. DEFINE h == Append(g, r)
            m == MirrorSeq(T, g)
            x == Append(m, T[r])
            y == MirrorSeq(T, h)
            l == Len(g)
<1>1. m \in Seq(B) /\ Len(m) = l /\ l \in Nat /\ \A i \in 1 .. l : m[i] = T[g[i]]
  BY MirrorFacts
<1>2. h \in Seq(A) /\ Len(h) = l + 1 /\ h[l + 1] = r /\ \A i \in 1 .. l : h[i] = g[i]
  BY AppendProperties
<1>3. y \in Seq(B) /\ Len(y) = l + 1 /\ \A i \in 1 .. l + 1 : y[i] = T[h[i]]
  <2>. HIDE DEF h
  <2>. QED  BY <1>2, MirrorFacts
<1>4. x \in Seq(B) /\ Len(x) = l + 1 /\ x[l + 1] = T[r] /\ \A i \in 1 .. l : x[i] = m[i]
  <2>1. T[r] \in B
    BY DEF Maps
  <2>. HIDE DEF m
  <2>. QED  BY <1>1, <2>1, AppendProperties
<1>. HIDE DEF h, m, x, y, l
<1>5. \A i \in 1 .. l + 1 : i \in 1 .. l \/ i = l + 1
  BY <1>1
<1>6. \A i \in 1 .. l + 1 : x[i] = y[i]
  BY <1>1, <1>2, <1>3, <1>4, <1>5
<1>7. x = y
  BY <1>3, <1>4, <1>6, SeqEqual
<1>. QED  BY <1>2, <1>7 DEF h, x, y, m

LEMMA GroupAlike ==
  ASSUME NEW T, NEW A \in SUBSET Rows, NEW B \in SUBSET Rows, NEW cols, Twins(T, A, B, cols), Joined \in cols,
         NEW q \in Seq(A), NEW k \in Parents
  PROVE  /\ groupByColumns(q)[k] \in Seq(A)
         /\ groupByColumns(MirrorSeq(T, q))[k] = MirrorSeq(T, groupByColumns(q)[k])
<1>. DEFINE m == MirrorSeq(T, q)
            D == 0 .. Len(q)
            t == Groups(q)
            u == Groups(m)
            Same(n) == t[n][k] \in Seq(A) /\ u[n][k] = MirrorSeq(T, t[n][k])
            S == {n \in D : ~Same(n)}
<1>1. Maps(T, A, B) /\ \A r \in A : T[r][Joined] = r[Joined]
  BY DEF Twins
<1>2. /\ m \in Seq(B) /\ Len(m) = Len(q) /\ Len(q) \in Nat
      /\ \A i \in 1 .. Len(q) : q[i] \in A /\ m[i] = T[q[i]]
  BY <1>1, MirrorFacts
<1>3. q \in Seq(Rows) /\ m \in Seq(Rows)
  <2>. HIDE DEF m
  <2>. QED  BY <1>2, SeqMonotonic
<1>. HIDE DEF m
<1>4. /\ t \in [D -> [Parents -> Seq(Rows)]] /\ u \in [D -> [Parents -> Seq(Rows)]]
      /\ \A n \in D : t[n] = NextGroups(q, t, n) /\ u[n] = NextGroups(m, u, n)
      /\ groupByColumns(q) = t[Len(q)] /\ groupByColumns(m) = u[Len(q)]
  BY <1>2, <1>3, GroupsFacts
<1>. HIDE DEF t, u
<1>5. ASSUME S # {} PROVE FALSE
  <2>1. PICK n \in S : \A x \in S : x >= n
    <3>1. S \in SUBSET Nat
      BY <1>2
    <3>. HIDE DEF S
    <3>. QED  BY <1>5, <3>1, LeastNatural
  <2>2. n \in D /\ ~Same(n)
    OBVIOUS
  <2>3. CASE n = 0
    <3>1. t[n][k] = <<>> /\ u[n][k] = <<>>
      BY <1>4, <2>2, <2>3 DEF NextGroups
    <3>2. <<>> \in Seq(A) /\ MirrorSeq(T, <<>>) = <<>>
      BY EmptySeq DEF MirrorSeq
    <3>. QED  BY <2>2, <3>1, <3>2
  <2>4. CASE n # 0
    <3>1. n \in 1 .. Len(q) /\ n - 1 \in D /\ n - 1 \notin S
      BY <1>2, <2>1, <2>4
    <3>. DEFINE g == t[n - 1][k]
    <3>2. g \in Seq(A) /\ u[n - 1][k] = MirrorSeq(T, g)
      BY <3>1
    <3>3. /\ t[n - 1] \in [Parents -> Seq(Rows)] /\ t[n] = NextGroups(q, t, n)
          /\ u[n - 1] \in [Parents -> Seq(Rows)] /\ u[n] = NextGroups(m, u, n)
      BY <1>4, <2>2, <3>1
    <3>4. q[n] \in A /\ m[n] = T[q[n]] /\ m[n][Joined] = q[n][Joined]
      BY <1>1, <1>2, <3>1
    <3>5. /\ t[n][k] = IF q[n][Joined] = k THEN Append(g, q[n]) ELSE g
          /\ u[n][k] = IF q[n][Joined] = k THEN Append(MirrorSeq(T, g), T[q[n]]) ELSE MirrorSeq(T, g)
      BY <2>4, <3>2, <3>3, <3>4 DEF NextGroups
    <3>. HIDE DEF g
    <3>6. Append(g, q[n]) \in Seq(A) /\ Append(MirrorSeq(T, g), T[q[n]]) = MirrorSeq(T, Append(g, q[n]))
      BY <1>1, <3>2, <3>4, AppendAlike
    <3>. HIDE DEF S
    <3>. QED  BY <2>2, <3>2, <3>5, <3>6
  <2>. QED  BY <2>3, <2>4
<1>6. Len(q) \in D
  BY <1>2
<1>7. Same(Len(q))
  BY <1>5, <1>6
<1>. QED  BY <1>4, <1>7 DEF m

\* What the window keeps of twins are twins.
LEMMA WindowAlike ==
  ASSUME NEW T, NEW A, NEW B, NEW cols, Twins(T, A, B, cols), {Joined, Pk} \subseteq cols, IsFiniteSet(A),
         NEW a, NEW R, a.order \in Seq(R), \A i \in 1 .. Len(a.order) : a.order[i].col \in cols,
         NEW k, NEW w \in Window(A, a, k)
  PROVE  w \subseteq ChildrenOf(k, A) /\ Mirror(T, w) \in Window(B, a, k)
<1>. DEFINE C == ChildrenOf(k, A)
            E == ChildrenOf(k, B)
            n == perKeyLimit(a)
            order == windowOrder(a.order)
<1>1. Twins(T, C, E, cols) /\ IsFiniteSet(C)
  <2>1. C \subseteq A
    BY DEF ChildrenOf
  <2>. HIDE DEF C, E
  <2>. QED  BY <2>1, TwinsOfOne, FS_Subset DEF C, E
<1>2. Mirror(T, C) = E
  BY <1>1 DEF Mirror, Twins, Maps
<1>. HIDE DEF C, E, n
<1>3. CASE n = 0
  BY <1>2, <1>3 DEF Window, C, E, n
<1>4. CASE n # 0
  <2>1. PICK q \in Sorted(C, order) : w = {q[i] : i \in {j \in 1 .. Len(q) : j <= n}}
    BY <1>4 DEF Window, C, n
  <2>2. \E Q : order \in Seq(Q)
    <3>1. <<[col |-> Pk, desc |-> FALSE]>> \in Seq({[col |-> Pk, desc |-> FALSE]})
      OBVIOUS
    <3>. QED  BY <3>1 DEF windowOrder
  <2>3. \A i \in 1 .. Len(order) : order[i].col \in cols
    <3>1. CASE a.order # <<>>
      BY <3>1 DEF windowOrder
    <3>2. CASE a.order = <<>>
      <4>1. order = <<[col |-> Pk, desc |-> FALSE]>>
        BY <3>2 DEF windowOrder
      <4>2. Len(order) = 1 /\ order[1].col = Pk
        BY <4>1
      <4>. QED  BY <4>2
    <3>. QED  BY <3>1, <3>2
  <2>. HIDE DEF order
  <2>4. MirrorSeq(T, q) \in Sorted(E, order)
    BY <1>1, <2>2, <2>3, SortedAlike
  <2>. DEFINE m == MirrorSeq(T, q)
  <2>5. q \in Seq(C) /\ Len(q) \in Nat
    BY <1>1, <2>1, PermutationFacts DEF Sorted
  <2>6. Len(m) = Len(q) /\ \A i \in 1 .. Len(q) : q[i] \in C /\ m[i] = T[q[i]]
    <3>1. Maps(T, C, E)
      BY <1>1 DEF Twins
    <3>. QED  BY <2>5, <3>1, MirrorFacts
  <2>. HIDE DEF m
  <2>7. Mirror(T, w) = {m[i] : i \in {j \in 1 .. Len(m) : j <= n}}
    BY <2>1, <2>6 DEF Mirror
  <2>8. w \subseteq C
    BY <2>1, <2>6
  <2>. QED  BY <1>4, <2>4, <2>7, <2>8 DEF Window, C, E, n, m, order
<1>. QED  BY <1>3, <1>4

-----------------------------------------------------------------------------
(* The answers of a relationship.                                          *)

\* The arguments of a request that is not refused look at `cols` only.
Within(a, p, cols) ==
  /\ p.columns \subseteq cols
  /\ a.order \in Seq([col : Columns, desc : BOOLEAN])
  /\ \A i \in 1 .. Len(a.order) : a.order[i].col \in cols
  /\ Limit(a) \in Nat /\ Offset(a) \in Nat
  /\ a.where \in Wheres /\ ~Refuses(a.where, p.columns)

LEMMA WithinFacts ==
  ASSUME NEW p \in Roles, NEW c, NEW a \in Args, ~Fails(p, c, a), NEW cols, p.columns \subseteq cols
  PROVE  Within(a, p, cols)
<1>1. a.order \in Orders /\ a.where \in Wheres
  BY DEF Args
<1>2. a.order \in Seq([col : Columns, desc : BOOLEAN])
  BY <1>1, ListFieldAssumption
<1>3. Limit(a) \in Nat /\ Offset(a) \in Nat
  BY PageBounds DEF Fails
<1>. QED  BY <1>1, <1>2, <1>3 DEF Within, Fails

LEMMA SelectAlike ==
  ASSUME NEW T, NEW t \in Tables, NEW u, NEW p, NEW c, NEW a, NEW cols, Joined \in cols, Within(a, p, cols),
         Twins(T, Matching(t, p, c, a.where), Matching(u, p, c, a.where), cols),
         NEW k, NEW s \in runSelect(t, p, c, a, k)
  PROVE  s \in Seq(Matching(t, p, c, a.where)) /\ MirrorSeq(T, s) \in runSelect(u, p, c, a, k)
<1>. DEFINE A == Matching(t, p, c, a.where)
            B == Matching(u, p, c, a.where)
            C == ChildrenOf(k, A)
            E == ChildrenOf(k, B)
<1>1. IsFiniteSet(A)
  BY MatchingRows
<1>2. PICK q \in Sorted(C, a.order) : s = Page(q, a)
  BY DEF runSelect
<1>. HIDE DEF A, B
<1>3. Twins(T, C, E, cols) /\ IsFiniteSet(C) /\ C \subseteq A
  <2>1. C \subseteq A
    BY DEF ChildrenOf
  <2>2. Twins(T, A, B, cols)
    BY DEF A, B
  <2>. HIDE DEF C, E
  <2>. QED  BY <1>1, <2>1, <2>2, TwinsOfOne, FS_Subset DEF C, E
<1>. HIDE DEF C, E
<1>4. MirrorSeq(T, q) \in Sorted(E, a.order)
  BY <1>3, SortedAlike DEF Within
<1>5. q \in Seq(C) /\ Maps(T, C, E)
  BY <1>2, <1>3, PermutationFacts DEF Sorted, Twins
<1>6. s \in Seq(C) /\ Page(MirrorSeq(T, q), a) = MirrorSeq(T, s)
  BY <1>2, <1>5, PageAlike DEF Within
<1>7. s \in Seq(A)
  BY <1>3, <1>6, SeqMonotonic
<1>8. MirrorSeq(T, s) \in runSelect(u, p, c, a, k)
  BY <1>4, <1>6 DEF runSelect, E, B
<1>. QED  BY <1>7, <1>8 DEF A

LEMMA BatchAlike ==
  ASSUME NEW T, NEW t \in Tables, NEW u, NEW p, NEW c, NEW a, NEW cols, {Joined, Pk} \subseteq cols,
         Within(a, p, cols), Twins(T, Matching(t, p, c, a.where), Matching(u, p, c, a.where), cols),
         NEW q \in runSelectByKeys(t, p, c, a)
  PROVE  /\ q \in Seq(Matching(t, p, c, a.where))
         /\ MirrorSeq(T, q) \in runSelectByKeys(u, p, c, a)
<1>. DEFINE A == Matching(t, p, c, a.where)
            B == Matching(u, p, c, a.where)
<1>1. IsFiniteSet(A)
  BY MatchingRows
<1>2. PICK f \in [Parents -> SUBSET A] : /\ \A k \in Parents : f[k] \in Window(A, a, k)
                                         /\ q \in Sorted(UNION {f[k] : k \in Parents}, a.order)
  BY DEF runSelectByKeys
<1>3. Twins(T, A, B, cols)
  OBVIOUS
<1>. HIDE DEF A, B
<1>. DEFINE U == UNION {f[k] : k \in Parents}
            g == [k \in Parents |-> Mirror(T, f[k])]
<1>4. U \subseteq A
  BY <1>2
<1>5. \A k \in Parents : g[k] \in Window(B, a, k)
  BY <1>1, <1>2, <1>3, WindowAlike DEF Within
<1>6. g \in [Parents -> SUBSET B]
  BY <1>2, <1>3, TwinsMirror
<1>7. UNION {g[k] : k \in Parents} = Mirror(T, U)
  BY DEF Mirror
<1>. HIDE DEF U, g
<1>8. Twins(T, U, Mirror(T, U), cols) /\ IsFiniteSet(U) /\ q \in Sorted(U, a.order)
  BY <1>1, <1>2, <1>3, <1>4, TwinsMirror, FS_Subset DEF U
<1>9. MirrorSeq(T, q) \in Sorted(Mirror(T, U), a.order)
  BY <1>8, SortedAlike DEF Within
<1>10. MirrorSeq(T, q) \in runSelectByKeys(u, p, c, a)
  <2>. DEFINE kept == {h \in [Parents -> SUBSET B] : \A k \in Parents : h[k] \in Window(B, a, k)}
              merged(h) == Sorted(UNION {h[k] : k \in Parents}, a.order)
  <2>1. runSelectByKeys(u, p, c, a) = UNION {merged(h) : h \in kept}
    BY DEF runSelectByKeys, B
  <2>2. g \in kept
    BY <1>5, <1>6
  <2>3. MirrorSeq(T, q) \in merged(g)
    BY <1>7, <1>9
  <2>. HIDE DEF kept, merged
  <2>. QED  BY <2>1, <2>2, <2>3
<1>11. q \in Seq(A)
  <2>1. q \in Seq(U)
    BY <1>8, PermutationFacts DEF Sorted
  <2>. QED  BY <1>4, <2>1, SeqMonotonic
<1>. QED  BY <1>10, <1>11 DEF A

\* Each answer of a relationship over one table has its twin over the other.
LEMMA AnswersAlike ==
  ASSUME NEW T, NEW t \in Tables, NEW u \in Tables, NEW p \in Roles, NEW c, NEW a \in Args, ~Fails(p, c, a),
         NEW cols, {Joined, Pk} \subseteq cols, p.columns \subseteq cols,
         Twins(T, Matching(t, p, c, {}), Matching(u, p, c, {}), cols),
         NEW f \in Answers(t, p, c, a)
  PROVE  /\ \A k \in Parents : f[k] \in Seq(Matching(t, p, c, a.where))
         /\ [k \in Parents |-> MirrorSeq(T, f[k])] \in Answers(u, p, c, a)
<1>. DEFINE A == Matching(t, p, c, a.where)
            B == Matching(u, p, c, a.where)
            g == [k \in Parents |-> MirrorSeq(T, f[k])]
<1>1. Within(a, p, cols)
  BY WithinFacts
<1>2. Twins(T, A, B, cols) /\ A \in SUBSET Rows /\ B \in SUBSET Rows
  BY <1>1, TwinsMatching, MatchingRows DEF Within
<1>3. CASE Batchable(p)
  <2>1. PICK q \in runSelectByKeys(t, p, c, a) : f = Grouped(q, a)
    BY <1>3 DEF Answers
  <2>2. q \in Seq(A) /\ MirrorSeq(T, q) \in runSelectByKeys(u, p, c, a)
    BY <1>1, <1>2, BatchAlike
  <2>. HIDE DEF A, B
  <2>3. Maps(T, A, B) /\ Joined \in cols
    BY <1>2 DEF Twins
  <2>4. ASSUME NEW k \in Parents
        PROVE  f[k] \in Seq(A) /\ Grouped(MirrorSeq(T, q), a)[k] = MirrorSeq(T, f[k])
    <3>. DEFINE h == groupByColumns(q)[k]
    <3>1. h \in Seq(A) /\ groupByColumns(MirrorSeq(T, q))[k] = MirrorSeq(T, h)
      BY <1>2, <2>2, <2>3, GroupAlike
    <3>2. f[k] = Page(h, a) /\ Grouped(MirrorSeq(T, q), a)[k] = Page(groupByColumns(MirrorSeq(T, q))[k], a)
      BY <2>1 DEF Grouped
    <3>. HIDE DEF h
    <3>3. Page(h, a) \in Seq(A) /\ Page(MirrorSeq(T, h), a) = MirrorSeq(T, Page(h, a))
      BY <1>1, <2>3, <3>1, PageAlike DEF Within
    <3>. QED  BY <3>1, <3>2, <3>3
  <2>5. Grouped(MirrorSeq(T, q), a) = g
    BY <2>4 DEF Grouped
  <2>6. g \in Answers(u, p, c, a)
    BY <1>3, <2>2, <2>5 DEF Answers
  <2>. QED  BY <2>4, <2>6 DEF A
<1>4. CASE ~Batchable(p)
  <2>1. \A k \in Parents : f[k] \in runSelect(t, p, c, a, k)
    BY <1>4 DEF Answers
  <2>2. ASSUME NEW k \in Parents
        PROVE  f[k] \in Seq(A) /\ MirrorSeq(T, f[k]) \in runSelect(u, p, c, a, k)
    BY <1>1, <1>2, <2>1, SelectAlike
  <2>. HIDE DEF A, B
  <2>3. g \in Answers(u, p, c, a)
    BY <1>4, <2>2 DEF Answers
  <2>. QED  BY <2>2, <2>3 DEF A
<1>. QED  BY <1>3, <1>4

LEMMA ShownAlike ==
  ASSUME NEW T, NEW A, NEW B, NEW cols, Twins(T, A, B, cols), role.columns \subseteq cols, NEW q \in Seq(A)
  PROVE  Shown(MirrorSeq(T, q)) = Shown(q)
<1>. DEFINE m == MirrorSeq(T, q)
<1>1. Maps(T, A, B) /\ \A r \in A : \A x \in cols : T[r][x] = r[x]
  BY DEF Twins
<1>2. Len(m) = Len(q) /\ \A i \in 1 .. Len(q) : q[i] \in A /\ m[i] = T[q[i]]
  BY <1>1, MirrorFacts
<1>. HIDE DEF m
<1>3. \A i \in 1 .. Len(q) : [x \in role.columns |-> m[i][x]] = [x \in role.columns |-> q[i][x]]
  BY <1>1, <1>2
<1>. QED  BY <1>2, <1>3 DEF Shown, m

LEMMA ListsAlike ==
  ASSUME Request, NEW t \in Tables, NEW u \in Tables, View(t, {Joined}) = View(u, {Joined})
  PROVE  Lists(t) \subseteq Lists(u)
<1>1. role \in Roles /\ args \in Args
  BY DEF Request
<1>2. CASE Fails(role, claim, args)
  <2>1. Answers(t, role, claim, args) = Answers(u, role, claim, args)
    BY <1>2 DEF Answers
  <2>. QED  BY <2>1 DEF Lists
<1>3. CASE ~Fails(role, claim, args)
  <2>. DEFINE cols == role.columns \cup {Joined} \cup {Pk}
              A == Matching(t, role, claim, args.where)
              B == Matching(u, role, claim, args.where)
              seen(f) == [k \in Parents |-> IF f[k] = Failed THEN <<>> ELSE Shown(f[k])]
  <2>1. PICK T : Twins(T, Matching(t, role, claim, {}), Matching(u, role, claim, {}), cols)
    BY ViewTwins
  <2>2. role.columns \subseteq cols /\ {Joined, Pk} \subseteq cols
    OBVIOUS
  <2>. HIDE DEF cols
  <2>3. Twins(T, A, B, cols)
    BY <1>1, <1>3, <2>1, <2>2, TwinsMatching DEF Fails, Args
  <2>4. A \subseteq Rows /\ B \subseteq Rows
    BY MatchingRows
  <2>5. ASSUME NEW f \in Answers(t, role, claim, args)
        PROVE  seen(f) \in Lists(u)
    <3>. DEFINE g == [k \in Parents |-> MirrorSeq(T, f[k])]
    <3>1. (\A k \in Parents : f[k] \in Seq(A)) /\ g \in Answers(u, role, claim, args)
      BY <1>1, <1>3, <2>1, <2>2, AnswersAlike
    <3>. HIDE DEF A, B
    <3>2. \A k \in Parents : /\ f[k] # Failed /\ g[k] # Failed
                             /\ Shown(g[k]) = Shown(f[k])
      <4>. SUFFICES ASSUME NEW k \in Parents
                    PROVE  f[k] # Failed /\ g[k] # Failed /\ Shown(g[k]) = Shown(f[k])
        OBVIOUS
      <4>1. f[k] \in Seq(A) /\ g[k] = MirrorSeq(T, f[k])
        BY <3>1
      <4>. HIDE DEF g
      <4>2. Maps(T, A, B)
        BY <2>3 DEF Twins
      <4>3. MirrorSeq(T, f[k]) \in Seq(B)
        BY <4>1, <4>2, MirrorFacts
      <4>4. f[k] \in Seq(Rows) /\ g[k] \in Seq(Rows)
        BY <2>4, <4>1, <4>3, SeqMonotonic
      <4>5. Shown(MirrorSeq(T, f[k])) = Shown(f[k])
        BY <2>2, <2>3, <4>1, ShownAlike
      <4>. QED  BY <4>1, <4>4, <4>5, ListFieldAssumption
    <3>. HIDE DEF g
    <3>3. seen(g) = seen(f)
      BY <3>2
    <3>. QED  BY <3>1, <3>3 DEF Lists
  <2>. QED  BY <2>5 DEF Lists
<1>. QED  BY <1>2, <1>3

-----------------------------------------------------------------------------
(* Aggregates.                                                             *)

Smaller(S) == [s \in SUBSET S |-> {s \ {y} : y \in s}]

\* Of any subsets of a finite set, one has no more elements than the others.
LEMMA LeastSubset ==
  ASSUME NEW S, IsFiniteSet(S)
  PROVE  Founded(SUBSET S, Smaller(S))
<1>1. Smaller(S) \in [SUBSET S -> SUBSET SUBSET S]
  BY DEF Smaller
<1>2. ASSUME NEW C \in SUBSET SUBSET S, C # {}
      PROVE  \E s \in C : Smaller(S)[s] \cap C = {}
  <2>1. \A s \in SUBSET S : IsFiniteSet(s) /\ Cardinality(s) \in Nat
    BY FS_Subset, FS_CardinalityType
  <2>. DEFINE sizes == {Cardinality(s) : s \in C}
  <2>2. sizes \in SUBSET Nat /\ sizes # {}
    BY <1>2, <2>1
  <2>3. PICK m \in sizes : \A n \in sizes : n >= m
    <3>. HIDE DEF sizes
    <3>. QED  BY <2>2, LeastNatural
  <2>4. PICK s \in C : Cardinality(s) = m
    OBVIOUS
  <2>5. ASSUME NEW y \in s, s \ {y} \in C PROVE FALSE
    <3>1. Cardinality(s \ {y}) = Cardinality(s) - 1
      BY <2>1, FS_RemoveElement
    <3>2. Cardinality(s \ {y}) >= Cardinality(s)
      BY <2>3, <2>4, <2>5
    <3>. QED  BY <2>1, <3>1, <3>2
  <2>. QED  BY <2>5 DEF Smaller
<1>. QED  BY <1>1, <1>2 DEF Founded

SumIn(f, s, x) ==
  IF s = {} THEN 0 ELSE LET y == CHOOSE y \in s : TRUE IN y[x] + f[s \ {y}]
Summed(S, x) == CHOOSE f : f = [s \in SUBSET S |-> SumIn(f, s, x)]

Numbers(S, x) == \A r \in S : r[x] \in Int
Total(S, x) == MapThenSumSet(LAMBDA r : r[x], S)

\* A sum is that of the rest and any of its terms.
LEMMA SumFacts ==
  ASSUME NEW S, IsFiniteSet(S), NEW x, Numbers(S, x)
  PROVE  /\ Total(S, x) = Summed(S, x)[S]
         /\ Summed(S, x)[{}] = 0
         /\ \A s \in SUBSET S : \A r \in s : Summed(S, x)[s] = r[x] + Summed(S, x)[s \ {r}]
<1>. DEFINE D == SUBSET S
            F == [g \in [D -> Int] |-> [s \in D |-> SumIn(g, s, x)]]
            f == Summed(S, x)
<1>1. \A r \in S : r[x] \in Int
  BY DEF Numbers
<1>2. F \in [[D -> Int] -> [D -> Int]]
  <2>. SUFFICES ASSUME NEW g \in [D -> Int], NEW s \in D PROVE SumIn(g, s, x) \in Int
    OBVIOUS
  <2>1. CASE s = {}
    BY <2>1 DEF SumIn
  <2>2. CASE s # {}
    <3>. DEFINE y == CHOOSE y \in s : TRUE
    <3>1. y \in s
      BY <2>2
    <3>2. y[x] \in Int /\ g[s \ {y}] \in Int
      <4>. HIDE DEF y
      <4>. QED  BY <1>1, <3>1
    <3>. QED  BY <2>2, <3>2 DEF SumIn
  <2>. QED  BY <2>1, <2>2
<1>3. ASSUME NEW g \in [D -> Int], NEW h \in [D -> Int], NEW s \in D, \A t \in Smaller(S)[s] : g[t] = h[t]
      PROVE  F[g][s] = F[h][s]
  <2>1. CASE s = {}
    BY <2>1 DEF SumIn
  <2>2. CASE s # {}
    <3>. DEFINE y == CHOOSE y \in s : TRUE
    <3>1. y \in s
      BY <2>2
    <3>2. s \ {y} \in Smaller(S)[s]
      <4>. HIDE DEF y
      <4>. QED  BY <3>1 DEF Smaller
    <3>3. SumIn(g, s, x) = SumIn(h, s, x)
      BY <1>3, <2>2, <3>2 DEF SumIn
    <3>. QED  BY <3>3
  <2>. QED  BY <2>1, <2>2
<1>4. PICK g \in [D -> Int] : F[g] = g
  <2>1. LooksUnder(F, D, Int, Smaller(S))
    BY <1>2, <1>3 DEF LooksUnder
  <2>2. Founded(D, Smaller(S)) /\ 0 \in Int
    BY LeastSubset
  <2>. HIDE DEF F, D
  <2>. QED  BY <2>1, <2>2, Recursion
<1>5. g = [s \in D |-> SumIn(g, s, x)]
  BY <1>4
<1>6. f = [s \in D |-> SumIn(f, s, x)]
  BY <1>5 DEF Summed
<1>7. Total(S, x) = f[S]
  BY DEF Total, MapThenSumSet, MapThenFoldSet, Summed, SumIn
<1>. HIDE DEF f, F
<1>8. f[{}] = 0
  BY <1>6 DEF SumIn
<1>9. f \in [D -> Int]
  <2>. DEFINE W == {s \in D : f[s] \notin Int}
  <2>1. ASSUME W # {} PROVE FALSE
    <3>1. PICK s \in W : Smaller(S)[s] \cap W = {}
      <4>. HIDE DEF W
      <4>1. W \in SUBSET D
        BY DEF W
      <4>. QED  BY <2>1, <4>1, LeastSubset DEF Founded
    <3>2. CASE s = {}
      BY <1>8, <3>2
    <3>3. CASE s # {}
      <4>. DEFINE y == CHOOSE y \in s : TRUE
      <4>1. y \in s /\ s \ {y} \in D
        BY <3>3
      <4>2. s \ {y} \in Smaller(S)[s]
        <5>. HIDE DEF y
        <5>. QED  BY <4>1 DEF Smaller
      <4>3. f[s \ {y}] \in Int /\ y[x] \in Int
        BY <1>1, <3>1, <4>1, <4>2
      <4>4. f[s] = y[x] + f[s \ {y}]
        BY <1>6, <3>3 DEF SumIn
      <4>. HIDE DEF y
      <4>. QED  BY <4>3, <4>4
    <3>. QED  BY <3>2, <3>3
  <2>. QED  BY <1>6, <2>1
<1>. DEFINE Anyhow(s) == \A r \in s : f[s] = r[x] + f[s \ {r}]
            W == {s \in D : ~Anyhow(s)}
<1>10. ASSUME W # {} PROVE FALSE
  <2>1. PICK s \in W : Smaller(S)[s] \cap W = {}
    <3>. HIDE DEF W
    <3>1. W \in SUBSET D
      BY DEF W
    <3>. QED  BY <1>10, <3>1, LeastSubset DEF Founded
  <2>2. PICK r \in s : f[s] # r[x] + f[s \ {r}]
    BY <2>1
  <2>. DEFINE y == CHOOSE y \in s : TRUE
  <2>3. y \in s /\ f[s] = y[x] + f[s \ {y}]
    BY <1>6, <2>2 DEF SumIn
  <2>. HIDE DEF y
  <2>4. \A z \in s : s \ {z} \in D /\ s \ {z} \in Smaller(S)[s]
    BY DEF Smaller
  <2>5. \A z \in s : Anyhow(s \ {z})
    BY <2>1, <2>4
  <2>6. r # y
    BY <2>2, <2>3
  <2>. DEFINE rest == (s \ {y}) \ {r}
  <2>7. f[s \ {y}] = r[x] + f[rest]
    BY <2>3, <2>5, <2>6
  <2>8. f[s \ {r}] = y[x] + f[rest]
    <3>1. rest = (s \ {r}) \ {y}
      OBVIOUS
    <3>. QED  BY <2>3, <2>5, <2>6, <3>1
  <2>9. r[x] \in Int /\ y[x] \in Int /\ f[rest] \in Int
    BY <1>1, <1>9, <2>3
  <2>. HIDE DEF rest, W, Anyhow, D
  <2>. QED  BY <2>2, <2>3, <2>7, <2>8, <2>9
<1>11. \A s \in SUBSET S : Anyhow(s)
  BY <1>10
<1>. QED  BY <1>7, <1>8, <1>11 DEF f

LEMMA ValuesAlike ==
  ASSUME NEW T, NEW A, NEW B, NEW cols, Twins(T, A, B, cols), NEW x \in cols
  PROVE  Twins(T, Values(A, x), Values(B, x), cols)
<1>1. \A r \in A : r \in Values(A, x) <=> T[r] \in Values(B, x)
  BY DEF Twins, Maps, Values
<1>. QED  BY <1>1, TwinsOf DEF Values

LEMMA MinAlike ==
  ASSUME NEW T, NEW A, NEW B, NEW cols, Twins(T, A, B, cols), NEW x \in cols
  PROVE  MinOf(A, x) = MinOf(B, x)
<1>1. Twins(T, Values(A, x), Values(B, x), cols)
  BY ValuesAlike
<1>2. {r[x] : r \in Values(A, x)} = {r[x] : r \in Values(B, x)}
  BY <1>1 DEF Twins, Maps
<1>3. Values(A, x) = {} <=> Values(B, x) = {}
  BY <1>1 DEF Twins, Maps
<1>. QED  BY <1>2, <1>3 DEF MinOf

LEMMA SumAlike ==
  ASSUME NEW T, NEW A \in SUBSET Rows, NEW B \in SUBSET Rows, NEW cols, Twins(T, A, B, cols), IsFiniteSet(A),
         NEW x \in cols \cap Columns
  PROVE  SumOf(A, x) = SumOf(B, x)
<1>. DEFINE P == Values(A, x)
            Q == Values(B, x)
            f == Summed(P, x)
            g == Summed(Q, x)
<1>1. Twins(T, P, Q, cols) /\ IsFiniteSet(P)
  BY ValuesAlike, FS_Subset DEF Values
<1>2. IsFiniteSet(Q)
  BY <1>1, TwinsSize
<1>3. Numbers(P, x) /\ Numbers(Q, x)
  BY DEF Numbers, Values, Rows
<1>. HIDE DEF P, Q
<1>4. /\ Total(P, x) = f[P] /\ Total(Q, x) = g[Q]
      /\ f[{}] = 0 /\ g[{}] = 0
      /\ \A s \in SUBSET P : \A r \in s : f[s] = r[x] + f[s \ {r}]
      /\ \A s \in SUBSET Q : \A r \in s : g[s] = r[x] + g[s \ {r}]
  <2>1. /\ Total(P, x) = f[P] /\ f[{}] = 0
        /\ \A s \in SUBSET P : \A r \in s : f[s] = r[x] + f[s \ {r}]
    BY <1>1, <1>3, SumFacts
  <2>2. /\ Total(Q, x) = g[Q] /\ g[{}] = 0
        /\ \A s \in SUBSET Q : \A r \in s : g[s] = r[x] + g[s \ {r}]
    BY <1>2, <1>3, SumFacts
  <2>. QED  BY <2>1, <2>2
<1>. HIDE DEF f, g
<1>. DEFINE W == {s \in SUBSET P : f[s] # g[Mirror(T, s)]}
<1>5. ASSUME W # {} PROVE FALSE
  <2>1. PICK s \in W : Smaller(P)[s] \cap W = {}
    <3>. HIDE DEF W
    <3>1. W \in SUBSET SUBSET P
      BY DEF W
    <3>. QED  BY <1>1, <1>5, <3>1, LeastSubset DEF Founded
  <2>2. CASE s = {}
    BY <1>4, <2>1, <2>2 DEF Mirror
  <2>3. CASE s # {}
    <3>1. PICK r \in s : TRUE
      BY <2>3
    <3>2. s \ {r} \in SUBSET P /\ s \ {r} \in Smaller(P)[s]
      BY DEF Smaller
    <3>3. f[s \ {r}] = g[Mirror(T, s \ {r})]
      BY <2>1, <3>2
    <3>4. Mirror(T, s) \in SUBSET Q /\ T[r] \in Mirror(T, s) /\ T[r][x] = r[x]
      BY <1>1 DEF Twins, Maps, Mirror
    <3>5. Mirror(T, s \ {r}) = Mirror(T, s) \ {T[r]}
      BY <1>1 DEF Twins, Mirror
    <3>6. f[s] = r[x] + f[s \ {r}]
      BY <1>4
    <3>7. g[Mirror(T, s)] = T[r][x] + g[Mirror(T, s) \ {T[r]}]
      BY <1>4, <3>4
    <3>. QED  BY <2>1, <3>3, <3>4, <3>5, <3>6, <3>7
  <2>. QED  BY <2>2, <2>3
<1>6. Mirror(T, P) = Q
  BY <1>1 DEF Twins, Maps, Mirror
<1>7. f[P] = g[Q]
  BY <1>5, <1>6
<1>8. P = {} <=> Q = {}
  BY <1>6 DEF Mirror
<1>9. /\ SumOf(A, x) = IF P = {} THEN Null ELSE Total(P, x)
      /\ SumOf(B, x) = IF Q = {} THEN Null ELSE Total(Q, x)
  BY DEF SumOf, Total, MapThenSumSet, MapThenFoldSet, P, Q
<1>. QED  BY <1>4, <1>7, <1>8, <1>9

LEMMA AggregatesAlike ==
  ASSUME NEW T, NEW A \in SUBSET Rows, NEW B \in SUBSET Rows, NEW cols, Twins(T, A, B, cols), IsFiniteSet(A),
         NEW columns, columns \subseteq cols \cap Columns
  PROVE  Aggregates(A, columns) = Aggregates(B, columns)
<1>1. \A x \in columns : SumOf(A, x) = SumOf(B, x) /\ MinOf(A, x) = MinOf(B, x)
  BY SumAlike, MinAlike
<1>2. Cardinality(A) = Cardinality(B)
  BY TwinsSize
<1>. QED  BY <1>1, <1>2 DEF Aggregates

-----------------------------------------------------------------------------
(* The fields at the root.                                                 *)

LEMMA NearestAlike ==
  ASSUME Request, NEW t \in Tables, NEW u \in Tables, View(t, {}) = View(u, {}), Vector \in role.columns
  PROVE  Nearest(t) \subseteq Nearest(u)
<1>. DEFINE cols == role.columns \cup {} \cup {Pk}
            page == [limit |-> Limit(args), offset |-> 0]
            A == {r \in Matching(t, role, claim, args.where) : r[Vector] # Null}
            B == {r \in Matching(u, role, claim, args.where) : r[Vector] # Null}
            seen(q) == IF q = Failed THEN <<>> ELSE Shown(q)
<1>1. CASE \/ Limit(args) < 0
           \/ Refuses(args.where, role.columns)
           \/ FilterFails(role.filter, claim)
  <2>1. runNearest(t, role, claim) = runNearest(u, role, claim)
    BY <1>1 DEF runNearest, Answer
  <2>. QED  BY <2>1 DEF Nearest
<1>2. CASE /\ ~(Limit(args) < 0)
           /\ ~Refuses(args.where, role.columns)
           /\ ~FilterFails(role.filter, claim)
  <2>1. /\ runNearest(t, role, claim) = {Page(q, page) : q \in {s \in SetToSeqs(A) : Nearer(s)}}
        /\ runNearest(u, role, claim) = {Page(q, page) : q \in {s \in SetToSeqs(B) : Nearer(s)}}
    BY <1>2 DEF runNearest, Answer
  <2>2. role \in Roles /\ args.where \in Wheres /\ Vector \in cols /\ role.columns \subseteq cols
    BY DEF Request, Args
  <2>3. PICK T : Twins(T, Matching(t, role, claim, {}), Matching(u, role, claim, {}), cols)
    BY ViewTwins
  <2>. HIDE DEF cols
  <2>4. Twins(T, Matching(t, role, claim, args.where), Matching(u, role, claim, args.where), cols)
    BY <1>2, <2>2, <2>3, TwinsMatching
  <2>5. /\ Matching(t, role, claim, args.where) \subseteq Rows
        /\ Matching(u, role, claim, args.where) \subseteq Rows
        /\ IsFiniteSet(Matching(t, role, claim, args.where))
    BY MatchingRows
  <2>6. Twins(T, A, B, cols)
    <3>1. \A r \in Matching(t, role, claim, args.where) : r \in A <=> T[r] \in B
      BY <2>2, <2>4 DEF Twins, Maps
    <3>2. /\ A \in SUBSET Matching(t, role, claim, args.where)
          /\ B \in SUBSET Matching(u, role, claim, args.where)
      OBVIOUS
    <3>. HIDE DEF A, B
    <3>. QED  BY <2>4, <3>1, <3>2, TwinsOf
  <2>7. A \subseteq Rows /\ B \subseteq Rows /\ IsFiniteSet(A)
    BY <2>5, FS_Subset
  <2>8. Limit(page) \in Nat /\ Offset(page) \in Nat
    BY <1>2, NearestPage
  <2>. HIDE DEF A, B, page
  <2>9. ASSUME NEW q \in SetToSeqs(A), Nearer(q)
        PROVE  seen(Page(q, page)) \in {seen(a) : a \in runNearest(u, role, claim)}
    <3>. DEFINE m == MirrorSeq(T, q)
    <3>1. q \in Seq(A) /\ Maps(T, A, B)
      BY <2>6, <2>7, PermutationFacts DEF Twins
    <3>2. Len(m) = Len(q) /\ \A i \in 1 .. Len(q) : q[i] \in A /\ m[i] = T[q[i]]
      BY <3>1, MirrorFacts
    <3>3. m \in SetToSeqs(B)
      <4>1. \A i, j : ~Before(i, j, <<>>)
        BY DEF Before
      <4>2. q \in Sorted(A, <<>>)
        BY <4>1 DEF Sorted
      <4>. DEFINE none == <<>>
      <4>3. none \in Seq({}) /\ \A i \in 1 .. Len(none) : none[i].col \in cols
        BY EmptySeq
      <4>. HIDE DEF none, m
      <4>4. m \in Sorted(B, none)
        BY <2>6, <2>7, <4>2, <4>3, SortedAlike DEF m, none
      <4>. QED  BY <4>4 DEF Sorted
    <3>4. Nearer(m)
      <4>1. \A i \in 1 .. Len(q) : Distance(m[i]) = Distance(q[i])
        BY <2>2, <2>6, <3>2 DEF Twins, Distance
      <4>. HIDE DEF m
      <4>. QED  BY <2>9, <3>2, <4>1 DEF Nearer
    <3>5. Page(q, page) \in Seq(A) /\ Page(m, page) = MirrorSeq(T, Page(q, page))
      BY <2>8, <3>1, PageAlike
    <3>6. Shown(Page(m, page)) = Shown(Page(q, page))
      BY <2>2, <2>6, <3>5, ShownAlike
    <3>7. Page(m, page) \in Seq(B)
      BY <3>1, <3>5, MirrorFacts
    <3>8. Page(q, page) # Failed /\ Page(m, page) # Failed
      BY <2>7, <3>5, <3>7, SeqMonotonic, ListFieldAssumption
    <3>9. Page(m, page) \in runNearest(u, role, claim)
      BY <2>1, <3>3, <3>4
    <3>10. seen(Page(q, page)) = seen(Page(m, page))
      BY <3>6, <3>8
    <3>. HIDE DEF m, seen
    <3>. QED  BY <3>9, <3>10
  <2>10. Nearest(u) = {seen(a) : a \in runNearest(u, role, claim)}
    BY DEF Nearest
  <2>11. Nearest(t) = {seen(a) : a \in runNearest(t, role, claim)}
    BY DEF Nearest
  <2>. HIDE DEF seen
  <2>. QED  BY <2>1, <2>9, <2>10, <2>11
<1>. QED  BY <1>1, <1>2

LEMMA CountAlike ==
  ASSUME Request, NEW t \in Tables, NEW u \in Tables, View(t, {}) = View(u, {})
  PROVE  /\ runCount(t, role, claim) = runCount(u, role, claim)
         /\ runAggregate(t, role, claim) = runAggregate(u, role, claim)
<1>. DEFINE cols == role.columns \cup {} \cup {Pk}
            A == Matching(t, role, claim, args.where)
            B == Matching(u, role, claim, args.where)
<1>1. CASE Refuses(args.where, role.columns)
  BY <1>1 DEF runCount, runAggregate, Answer
<1>2. CASE ~Refuses(args.where, role.columns)
  <2>1. role \in Roles /\ args.where \in Wheres /\ role.columns \subseteq cols \cap Columns
    BY ListFieldAssumption DEF Request, Args
  <2>2. PICK T : Twins(T, Matching(t, role, claim, {}), Matching(u, role, claim, {}), cols)
    BY ViewTwins
  <2>. HIDE DEF cols
  <2>3. Twins(T, A, B, cols)
    BY <1>2, <2>1, <2>2, TwinsMatching
  <2>4. A \in SUBSET Rows /\ B \in SUBSET Rows /\ IsFiniteSet(A)
    BY MatchingRows
  <2>. HIDE DEF A, B
  <2>5. Cardinality(A) = Cardinality(B) /\ Aggregates(A, role.columns) = Aggregates(B, role.columns)
    BY <2>1, <2>3, <2>4, TwinsSize, AggregatesAlike
  <2>. QED  BY <2>5 DEF runCount, runAggregate, Answer, Aggregated, A, B
<1>. QED  BY <1>1, <1>2

LEMMA ByPkAlike ==
  ASSUME Request, NEW t \in Tables, NEW u \in Tables, View(t, {}) = View(u, {}), NEW id
  PROVE  Looked(t, id) \subseteq Looked(u, id)
<1>. DEFINE cols == role.columns \cup {} \cup {Pk}
            A == {r \in Matching(t, role, claim, {}) : r[Pk] = id}
            B == {r \in Matching(u, role, claim, {}) : r[Pk] = id}
            seen(S) == {[x \in role.columns |-> r[x]] : r \in S}
<1>1. CASE FilterFails(role.filter, claim)
  BY <1>1 DEF Looked, ByPk
<1>2. CASE ~FilterFails(role.filter, claim)
  <2>1. A \subseteq t /\ B \subseteq u
    BY DEF Matching
  <2>2. Failed \notin {A, B}
    BY <2>1, ListFieldAssumption
  <2>3. Looked(t, id) = {seen(A)} /\ Looked(u, id) = {seen(B)}
    BY <1>2, <2>2 DEF Looked, ByPk
  <2>4. PICK T : Twins(T, Matching(t, role, claim, {}), Matching(u, role, claim, {}), cols)
    BY ViewTwins
  <2>5. Twins(T, A, B, cols)
    <3>1. Pk \in cols
      OBVIOUS
    <3>. HIDE DEF cols
    <3>. QED  BY <2>4, <3>1 DEF Twins, Maps
  <2>. HIDE DEF A, B
  <2>6. \A r \in A : T[r] \in B /\ [x \in role.columns |-> T[r][x]] = [x \in role.columns |-> r[x]]
    BY <2>5 DEF Twins, Maps
  <2>7. \A s \in B : \E r \in A : T[r] = s
    BY <2>5 DEF Twins
  <2>8. seen(A) = seen(B)
    BY <2>6, <2>7
  <2>. QED  BY <2>3, <2>8
<1>. QED  BY <1>1, <1>2

\* "Only these columns exist in the role's object type, where, and order_by":
\* whatever it asks, a role gets the same answers from any two tables that
\* differ only in columns it does not read and in rows its filter hides.
THEOREM HiddenStaysHidden == ReadSpec => []RoleSeesItsView
<1>1. ReadInv => RoleSeesItsView
  <2>. SUFFICES ASSUME Request, NEW other \in Tables
                PROVE  /\ View(other, {Joined}) = View(table, {Joined}) => Lists(other) = Lists(table)
                       /\ View(other, {}) = View(table, {}) =>
                            /\ runCount(other, role, claim) = runCount(table, role, claim)
                            /\ runAggregate(other, role, claim) = runAggregate(table, role, claim)
                            /\ Vector \in role.columns => Nearest(other) = Nearest(table)
                            /\ \A id \in Ids : Looked(other, id) = Looked(table, id)
    BY DEF RoleSeesItsView, ReadInv
  <2>1. table \in Tables
    BY DEF Request
  <2>2. ASSUME View(other, {Joined}) = View(table, {Joined}) PROVE Lists(other) = Lists(table)
    BY <2>1, <2>2, ListsAlike
  <2>3. ASSUME View(other, {}) = View(table, {})
        PROVE  /\ runCount(other, role, claim) = runCount(table, role, claim)
               /\ runAggregate(other, role, claim) = runAggregate(table, role, claim)
               /\ Vector \in role.columns => Nearest(other) = Nearest(table)
               /\ \A id \in Ids : Looked(other, id) = Looked(table, id)
    <3>1. View(table, {}) = View(other, {})
      BY <2>3
    <3>2. \A id \in Ids : Looked(other, id) \subseteq Looked(table, id) /\ Looked(table, id) \subseteq Looked(other, id)
      BY <2>1, <2>3, <3>1, ByPkAlike
    <3>. QED  BY <2>1, <2>3, <3>2, CountAlike, NearestAlike
  <2>. QED  BY <2>2, <2>3
<1>. QED  BY <1>1, ReadAlways, PTL
=============================================================================
