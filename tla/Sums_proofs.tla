------------------------------ MODULE Sums_proofs ------------------------------
(***************************************************************************)
(* What holds of the sums of every set of rows, whose amounts are given as *)
(* a function, and of the totals of every order.                           *)
(***************************************************************************)
EXTENDS Sums, OrderTotals, FiniteSetTheorems, TLAPS

On(f, S) == [x \in S |-> f[x]]
Group(U, g, a) == {u \in U : g[u] = a}

LEMMA PieceOf ==
  ASSUME NEW S, NEW f \in [S -> Nat], NEW u
  PROVE  u \in PiecesOf(f) <=> /\ u = <<u[1], u[2]>> /\ u[1] \in S
                               /\ u[2] \in Nat /\ 1 <= u[2] /\ u[2] <= f[u[1]]
<1>1. u \in PiecesOf(f) <=> \E x \in S : u \in {x} \X (1..f[x])
  BY DEF PiecesOf
<1>2. ASSUME NEW x \in S
      PROVE  u \in {x} \X (1..f[x]) <=> /\ u = <<u[1], u[2]>> /\ u[1] = x
                                        /\ u[2] \in Nat /\ 1 <= u[2] /\ u[2] <= f[x]
  <2>1. f[x] \in Nat
    OBVIOUS
  <2> QED
    BY <2>1
<1> QED
  BY <1>1, <1>2

\* A sum over finitely many rows is a number.
LEMMA SumType ==
  ASSUME NEW S, IsFiniteSet(S), NEW f \in [S -> Nat]
  PROVE  /\ IsFiniteSet(PiecesOf(f))
         /\ SumOf(f) \in Nat
<1> DEFINE columns == {{x} \X (1..f[x]) : x \in S}
           column == [x \in S |-> {x} \X (1..f[x])]
<1>1. IsFiniteSet(columns)
  <2>1. column \in Surjection(S, columns)
    BY DEF Surjection
  <2> QED
    BY <2>1, FS_Surjection
<1>2. \A c \in columns : IsFiniteSet(c)
  <2>1. SUFFICES ASSUME NEW x \in S
                 PROVE  IsFiniteSet({x} \X (1..f[x]))
    OBVIOUS
  <2>2. IsFiniteSet({x})
    BY FS_Singleton
  <2>3. f[x] \in Nat
    OBVIOUS
  <2>4. IsFiniteSet(1..f[x])
    BY <2>3, FS_Interval
  <2> QED
    BY <2>2, <2>4, FS_Product
<1>3. PiecesOf(f) = UNION columns
  BY DEF PiecesOf
<1>4. IsFiniteSet(PiecesOf(f))
  BY <1>1, <1>2, <1>3, FS_UNION
<1> QED
  BY <1>4, FS_CardinalityType DEF SumOf

\* Rows that are split in two are added up in two parts.
LEMMA SumSplit ==
  ASSUME NEW S, IsFiniteSet(S), NEW f \in [S -> Nat], NEW A \in SUBSET S
  PROVE  SumOf(f) = SumOf(On(f, A)) + SumOf(On(f, S \ A))
<1> DEFINE a == On(f, A)
           b == On(f, S \ A)
<1>1. a \in [A -> Nat] /\ b \in [S \ A -> Nat]
  BY DEF On
<1>2. \A x \in A : a[x] = f[x]
  BY DEF On
<1>3. \A x \in S \ A : b[x] = f[x]
  BY DEF On
<1> HIDE DEF a, b
<1>4. \A u : /\ u \in PiecesOf(a) <=> u \in PiecesOf(f) /\ u[1] \in A
             /\ u \in PiecesOf(b) <=> u \in PiecesOf(f) /\ u[1] \notin A
  <2>1. SUFFICES ASSUME NEW u
                 PROVE  /\ u \in PiecesOf(a) <=> u \in PiecesOf(f) /\ u[1] \in A
                        /\ u \in PiecesOf(b) <=> u \in PiecesOf(f) /\ u[1] \notin A
    OBVIOUS
  <2>2. u \in PiecesOf(a) <=> /\ u = <<u[1], u[2]>> /\ u[1] \in A
                              /\ u[2] \in Nat /\ 1 <= u[2] /\ u[2] <= a[u[1]]
    BY <1>1, PieceOf
  <2>3. u \in PiecesOf(b) <=> /\ u = <<u[1], u[2]>> /\ u[1] \in S \ A
                              /\ u[2] \in Nat /\ 1 <= u[2] /\ u[2] <= b[u[1]]
    BY <1>1, PieceOf
  <2>4. u \in PiecesOf(f) <=> /\ u = <<u[1], u[2]>> /\ u[1] \in S
                              /\ u[2] \in Nat /\ 1 <= u[2] /\ u[2] <= f[u[1]]
    BY PieceOf
  <2> QED
    BY <1>2, <1>3, <2>2, <2>3, <2>4
<1>5. PiecesOf(f) = PiecesOf(a) \cup PiecesOf(b) /\ PiecesOf(a) \cap PiecesOf(b) = {}
  BY <1>4
<1>6. IsFiniteSet(A) /\ IsFiniteSet(S \ A)
  BY FS_Subset
<1>7. IsFiniteSet(PiecesOf(a)) /\ IsFiniteSet(PiecesOf(b)) /\ SumOf(a) \in Nat /\ SumOf(b) \in Nat
  BY <1>1, <1>6, SumType
<1>8. Cardinality(PiecesOf(a) \cap PiecesOf(b)) = 0
  BY <1>5, FS_EmptySet
<1>9. Cardinality(PiecesOf(a) \cup PiecesOf(b))
        = Cardinality(PiecesOf(a)) + Cardinality(PiecesOf(b)) - Cardinality(PiecesOf(a) \cap PiecesOf(b))
  BY <1>7, FS_Union
<1>10. SumOf(f) = SumOf(a) + SumOf(b)
  BY <1>5, <1>7, <1>8, <1>9 DEF SumOf
<1> QED
  BY <1>10 DEF a, b

\* A sum over no rows is zero, and so is a sum of zeros.
LEMMA SumZero ==
  ASSUME NEW S, NEW f \in [S -> {0}]
  PROVE  SumOf(f) = 0
<1>1. PiecesOf(f) = {}
  <2>1. SUFFICES ASSUME NEW u \in PiecesOf(f)
                 PROVE  FALSE
    OBVIOUS
  <2>2. f \in [S -> Nat]
    OBVIOUS
  <2>3. u[1] \in S /\ u[2] \in Nat /\ 1 <= u[2] /\ u[2] <= f[u[1]]
    BY <2>2, PieceOf
  <2> QED
    BY <2>3
<1> QED
  BY <1>1, FS_EmptySet DEF SumOf

\* The sum over one row is its amount.
LEMMA SumOne ==
  ASSUME NEW x, NEW f \in [{x} -> Nat]
  PROVE  SumOf(f) = f[x]
<1> DEFINE n == f[x]
           g == [k \in 1..n |-> <<x, k>>]
<1>1. n \in Nat
  OBVIOUS
<1>2. PiecesOf(f) = {x} \X (1..n)
  BY DEF PiecesOf
<1> HIDE DEF n
<1>3. g \in Bijection(1..n, {x} \X (1..n))
  <2>1. g \in [1..n -> {x} \X (1..n)]
    OBVIOUS
  <2>2. \A a, b \in 1..n : g[a] = g[b] => a = b
    OBVIOUS
  <2>3. \A t \in {x} \X (1..n) : \E s \in 1..n : g[s] = t
    OBVIOUS
  <2> QED
    BY <2>1, <2>2, <2>3 DEF Bijection, Injection, IsInjective, Surjection
<1>4. ExistsBijection(1..n, {x} \X (1..n))
  BY <1>3 DEF ExistsBijection
<1>5. Cardinality({x} \X (1..n)) = n
  BY <1>1, <1>4, FS_CountingElements
<1> QED
  BY <1>2, <1>5 DEF SumOf, n

\* More rows or larger amounts, a larger sum.
LEMMA SumMonotone ==
  ASSUME NEW T, IsFiniteSet(T), NEW S \in SUBSET T, NEW f \in [S -> Nat], NEW h \in [T -> Nat],
         \A x \in S : f[x] <= h[x]
  PROVE  SumOf(f) <= SumOf(h)
<1>1. PiecesOf(f) \subseteq PiecesOf(h)
  <2>1. SUFFICES ASSUME NEW u \in PiecesOf(f)
                 PROVE  u \in PiecesOf(h)
    OBVIOUS
  <2>2. u = <<u[1], u[2]>> /\ u[1] \in S /\ u[2] \in Nat /\ 1 <= u[2] /\ u[2] <= f[u[1]]
    BY PieceOf
  <2>3. f[u[1]] \in Nat /\ h[u[1]] \in Nat /\ u[2] <= h[u[1]]
    BY <2>2
  <2> QED
    BY <2>2, <2>3, PieceOf
<1>2. IsFiniteSet(PiecesOf(h))
  BY SumType
<1> QED
  BY <1>1, <1>2, FS_Subset DEF SumOf

\* Rows may be renamed.
LEMMA SumRenamed ==
  ASSUME NEW S, IsFiniteSet(S), NEW T, NEW f \in [S -> Nat], NEW h \in [T -> Nat],
         NEW g \in Bijection(S, T), \A x \in S : h[g[x]] = f[x]
  PROVE  SumOf(h) = SumOf(f)
<1> DEFINE b == [u \in PiecesOf(f) |-> <<g[u[1]], u[2]>>]
<1>1. /\ \A x \in S : g[x] \in T
      /\ \A x, y \in S : g[x] = g[y] => x = y
      /\ \A t \in T : \E x \in S : g[x] = t
  BY DEF Bijection, Injection, IsInjective, Surjection
<1>2. \A u \in PiecesOf(f) :
        u = <<u[1], u[2]>> /\ u[1] \in S /\ u[2] \in Nat /\ 1 <= u[2] /\ u[2] <= f[u[1]]
  BY PieceOf
<1>3. b \in [PiecesOf(f) -> PiecesOf(h)]
  <2>1. SUFFICES ASSUME NEW u \in PiecesOf(f)
                 PROVE  <<g[u[1]], u[2]>> \in PiecesOf(h)
    OBVIOUS
  <2> DEFINE v == <<g[u[1]], u[2]>>
  <2>2. v = <<v[1], v[2]>> /\ v[1] \in T /\ v[2] \in Nat /\ 1 <= v[2] /\ v[2] <= h[v[1]]
    BY <1>1, <1>2
  <2> HIDE DEF v
  <2>3. v \in PiecesOf(h)
    BY <2>2, PieceOf
  <2> QED
    BY <2>3 DEF v
<1>4. \A u, v \in PiecesOf(f) : b[u] = b[v] => u = v
  BY <1>1, <1>2
<1>5. \A t \in PiecesOf(h) : \E u \in PiecesOf(f) : b[u] = t
  <2>1. SUFFICES ASSUME NEW t \in PiecesOf(h)
                 PROVE  \E u \in PiecesOf(f) : b[u] = t
    OBVIOUS
  <2>2. t = <<t[1], t[2]>> /\ t[1] \in T /\ t[2] \in Nat /\ 1 <= t[2] /\ t[2] <= h[t[1]]
    BY PieceOf
  <2>3. PICK x \in S : g[x] = t[1]
    BY <1>1, <2>2
  <2> DEFINE u == <<x, t[2]>>
  <2>4. u = <<u[1], u[2]>> /\ u[1] \in S /\ u[2] \in Nat /\ 1 <= u[2] /\ u[2] <= f[u[1]]
    BY <2>2, <2>3
  <2>5. <<g[u[1]], u[2]>> = t
    BY <2>2, <2>3
  <2> HIDE DEF u
  <2>6. u \in PiecesOf(f)
    BY <2>4, PieceOf
  <2> QED
    BY <2>5, <2>6
<1> HIDE DEF b
<1>6. b \in Bijection(PiecesOf(f), PiecesOf(h))
  BY <1>3, <1>4, <1>5 DEF Bijection, Injection, IsInjective, Surjection
<1>7. ExistsBijection(PiecesOf(f), PiecesOf(h))
  BY <1>6 DEF ExistsBijection
<1>8. IsFiniteSet(PiecesOf(f))
  BY SumType
<1> QED
  BY <1>7, <1>8, FS_Bijection DEF SumOf

\* As many as there are rows.
LEMMA SumCount ==
  ASSUME NEW S, IsFiniteSet(S), NEW f \in [S -> {1}]
  PROVE  SumOf(f) = Cardinality(S)
<1> DEFINE b == [x \in S |-> <<x, 1>>]
<1>1. f \in [S -> Nat] /\ \A x \in S : f[x] = 1
  OBVIOUS
<1>2. \A u : u \in PiecesOf(f) <=> u = <<u[1], u[2]>> /\ u[1] \in S /\ u[2] = 1
  <2>1. SUFFICES ASSUME NEW u
                 PROVE  u \in PiecesOf(f) <=> u = <<u[1], u[2]>> /\ u[1] \in S /\ u[2] = 1
    OBVIOUS
  <2>2. u \in PiecesOf(f) <=> /\ u = <<u[1], u[2]>> /\ u[1] \in S
                              /\ u[2] \in Nat /\ 1 <= u[2] /\ u[2] <= f[u[1]]
    BY <1>1, PieceOf
  <2> QED
    BY <1>1, <2>2
<1>3. \A x \in S : b[x] \in PiecesOf(f)
  BY <1>2
<1>4. \A t \in PiecesOf(f) : \E x \in S : b[x] = t
  BY <1>2
<1>5. b \in Bijection(S, PiecesOf(f))
  BY <1>3, <1>4 DEF Bijection, Injection, IsInjective, Surjection
<1>6. ExistsBijection(S, PiecesOf(f))
  BY <1>5 DEF ExistsBijection
<1> QED
  BY <1>6, FS_Bijection DEF SumOf

\* Two amounts of the same rows add up row by row.
LEMMA SumAdd ==
  ASSUME NEW S, IsFiniteSet(S), NEW f \in [S -> Nat], NEW h \in [S -> Nat], NEW k \in [S -> Nat],
         \A x \in S : k[x] = f[x] + h[x]
  PROVE  SumOf(k) = SumOf(f) + SumOf(h)
<1> DEFINE rest == PiecesOf(k) \ PiecesOf(f)
           b == [u \in PiecesOf(h) |-> <<u[1], f[u[1]] + u[2]>>]
<1>1. \A x \in S : f[x] \in Nat /\ h[x] \in Nat /\ k[x] = f[x] + h[x]
  OBVIOUS
<1>2. \A u : u \in PiecesOf(f) <=> /\ u = <<u[1], u[2]>> /\ u[1] \in S
                                   /\ u[2] \in Nat /\ 1 <= u[2] /\ u[2] <= f[u[1]]
  BY PieceOf
<1>3. \A u : u \in PiecesOf(h) <=> /\ u = <<u[1], u[2]>> /\ u[1] \in S
                                   /\ u[2] \in Nat /\ 1 <= u[2] /\ u[2] <= h[u[1]]
  BY PieceOf
<1>4. \A u : u \in PiecesOf(k) <=> /\ u = <<u[1], u[2]>> /\ u[1] \in S
                                   /\ u[2] \in Nat /\ 1 <= u[2] /\ u[2] <= k[u[1]]
  BY PieceOf
<1>5. PiecesOf(f) \subseteq PiecesOf(k)
  BY <1>1, <1>2, <1>4
<1>6. \A u : u \in rest <=> /\ u = <<u[1], u[2]>> /\ u[1] \in S
                            /\ u[2] \in Nat /\ f[u[1]] < u[2] /\ u[2] <= k[u[1]]
  BY <1>1, <1>2, <1>4
<1> HIDE DEF rest
<1>7. b \in [PiecesOf(h) -> rest]
  <2>1. SUFFICES ASSUME NEW u \in PiecesOf(h)
                 PROVE  <<u[1], f[u[1]] + u[2]>> \in rest
    OBVIOUS
  <2>2. u[1] \in S /\ u[2] \in Nat /\ 1 <= u[2] /\ u[2] <= h[u[1]]
    BY <1>3
  <2> DEFINE v == <<u[1], f[u[1]] + u[2]>>
  <2>3. v = <<v[1], v[2]>> /\ v[1] \in S /\ v[2] \in Nat /\ f[v[1]] < v[2] /\ v[2] <= k[v[1]]
    BY <1>1, <2>2
  <2> HIDE DEF v
  <2>4. v \in rest
    BY <1>6, <2>3
  <2> QED
    BY <2>4 DEF v
<1>8. \A u, v \in PiecesOf(h) : b[u] = b[v] => u = v
  <2>1. SUFFICES ASSUME NEW u \in PiecesOf(h), NEW v \in PiecesOf(h), b[u] = b[v]
                 PROVE  u = v
    OBVIOUS
  <2>2. u[1] = v[1] /\ f[u[1]] + u[2] = f[v[1]] + v[2]
    BY <2>1
  <2>3. u = <<u[1], u[2]>> /\ v = <<v[1], v[2]>> /\ u[2] \in Nat /\ v[2] \in Nat /\ f[u[1]] \in Nat
    BY <1>1, <1>3
  <2>4. f[v[1]] = f[u[1]]
    BY <2>2
  <2>5. \A x, y, z \in Nat : x + y = x + z => y = z
    OBVIOUS
  <2>6. u[2] = v[2]
    BY <2>2, <2>3, <2>4, <2>5
  <2> QED
    BY <2>2, <2>3, <2>6
<1>9. \A t \in rest : \E u \in PiecesOf(h) : b[u] = t
  <2>1. SUFFICES ASSUME NEW t \in rest
                 PROVE  \E u \in PiecesOf(h) : b[u] = t
    OBVIOUS
  <2>2. t = <<t[1], t[2]>> /\ t[1] \in S /\ t[2] \in Nat /\ f[t[1]] < t[2] /\ t[2] <= k[t[1]]
    BY <1>6
  <2> DEFINE u == <<t[1], t[2] - f[t[1]]>>
  <2>3. u = <<u[1], u[2]>> /\ u[1] \in S /\ u[2] \in Nat /\ 1 <= u[2] /\ u[2] <= h[u[1]]
    BY <1>1, <2>2
  <2>4. f[t[1]] + (t[2] - f[t[1]]) = t[2]
    BY <1>1, <2>2
  <2>5. <<u[1], f[u[1]] + u[2]>> = t
    BY <2>2, <2>4
  <2> HIDE DEF u
  <2>6. u \in PiecesOf(h)
    BY <1>3, <2>3
  <2> QED
    BY <2>5, <2>6
<1> HIDE DEF b
<1>10. b \in Bijection(PiecesOf(h), rest)
  BY <1>7, <1>8, <1>9 DEF Bijection, Injection, IsInjective, Surjection
<1>11. ExistsBijection(PiecesOf(h), rest)
  BY <1>10 DEF ExistsBijection
<1>12. IsFiniteSet(PiecesOf(f)) /\ IsFiniteSet(PiecesOf(h)) /\ IsFiniteSet(PiecesOf(k))
  BY SumType
<1>13. Cardinality(rest) = SumOf(h)
  BY <1>11, <1>12, FS_Bijection DEF SumOf
<1>14. Cardinality(PiecesOf(k) \cap PiecesOf(f)) = SumOf(f)
  <2>1. PiecesOf(k) \cap PiecesOf(f) = PiecesOf(f)
    BY <1>5
  <2> QED
    BY <2>1 DEF SumOf
<1>15. Cardinality(rest) = SumOf(k) - Cardinality(PiecesOf(k) \cap PiecesOf(f))
  BY <1>12, FS_Difference DEF rest, SumOf
<1>16. SumOf(f) \in Nat /\ SumOf(h) \in Nat /\ SumOf(k) \in Nat
  BY SumType
<1> QED
  BY <1>13, <1>14, <1>15, <1>16


\* A set that is sorted into groups has as many elements as the groups together.
LEMMA CountGroups ==
  ASSUME NEW U, NEW A, IsFiniteSet(A), NEW g \in [U -> A], NEW n \in [A -> Nat],
         \A a \in A : ExistsBijection(1..n[a], Group(U, g, a))
  PROVE  IsFiniteSet(U) /\ Cardinality(U) = SumOf(n)
<1> DEFINE In(a) == Group(U, g, a)
           c == [a \in A |-> CHOOSE h : h \in Bijection(1..n[a], In(a))]
           b == [p \in PiecesOf(n) |-> c[p[1]][p[2]]]
<1>1. \A a \in A : c[a] \in Bijection(1..n[a], In(a))
  BY DEF ExistsBijection
<1> HIDE DEF c
<1>2. ASSUME NEW a \in A
      PROVE  /\ \A i \in 1..n[a] : c[a][i] \in U /\ g[c[a][i]] = a
             /\ \A i, j \in 1..n[a] : c[a][i] = c[a][j] => i = j
             /\ \A t \in U : g[t] = a => \E i \in 1..n[a] : c[a][i] = t
  <2>1. c[a] \in [1..n[a] -> In(a)] /\ IsInjective(c[a])
        /\ \A t \in In(a) : \E i \in 1..n[a] : c[a][i] = t
    BY <1>1 DEF Bijection, Injection, Surjection
  <2>2. \A i, j \in 1..n[a] : c[a][i] = c[a][j] => i = j
    BY <2>1 DEF IsInjective
  <2> QED
    BY <2>1, <2>2 DEF Group
<1>3. \A p : p \in PiecesOf(n) <=> /\ p = <<p[1], p[2]>> /\ p[1] \in A
                                   /\ p[2] \in Nat /\ 1 <= p[2] /\ p[2] <= n[p[1]]
  BY PieceOf
<1>4. \A p \in PiecesOf(n) : p = <<p[1], p[2]>> /\ p[1] \in A /\ p[2] \in 1..n[p[1]]
  BY <1>3
<1>5. b \in [PiecesOf(n) -> U]
  BY <1>2, <1>4
<1>6. \A p, q \in PiecesOf(n) : b[p] = b[q] => p = q
  <2>1. SUFFICES ASSUME NEW p \in PiecesOf(n), NEW q \in PiecesOf(n), c[p[1]][p[2]] = c[q[1]][q[2]]
                 PROVE  p = q
    OBVIOUS
  <2>2. p[1] = q[1]
    BY <1>2, <1>4, <2>1
  <2>3. p[2] = q[2]
    BY <1>2, <1>4, <2>1, <2>2
  <2> QED
    BY <1>4, <2>2, <2>3
<1>7. \A t \in U : \E p \in PiecesOf(n) : b[p] = t
  <2>1. SUFFICES ASSUME NEW t \in U
                 PROVE  \E p \in PiecesOf(n) : c[p[1]][p[2]] = t
    OBVIOUS
  <2>2. g[t] \in A
    OBVIOUS
  <2>3. PICK i \in 1..n[g[t]] : c[g[t]][i] = t
    BY <1>2, <2>2
  <2> DEFINE p == <<g[t], i>>
  <2>4. p = <<p[1], p[2]>> /\ p[1] \in A /\ p[2] \in Nat /\ 1 <= p[2] /\ p[2] <= n[p[1]]
    BY <2>2, <2>3
  <2>5. c[p[1]][p[2]] = t
    BY <2>3
  <2> HIDE DEF p
  <2>6. p \in PiecesOf(n)
    BY <1>3, <2>4
  <2> QED
    BY <2>5, <2>6
<1> HIDE DEF b
<1>8. b \in Bijection(PiecesOf(n), U)
  BY <1>5, <1>6, <1>7 DEF Bijection, Injection, IsInjective, Surjection
<1>9. ExistsBijection(PiecesOf(n), U)
  BY <1>8 DEF ExistsBijection
<1>10. IsFiniteSet(PiecesOf(n))
  BY SumType
<1> QED
  BY <1>9, <1>10, FS_Bijection DEF SumOf

\* Rows that are sorted into groups are added up group by group.
LEMMA SumGroups ==
  ASSUME NEW S, IsFiniteSet(S), NEW f \in [S -> Nat], NEW A, IsFiniteSet(A), NEW g \in [S -> A]
  PROVE  LET n == [a \in A |-> SumOf(On(f, Group(S, g, a)))]
         IN n \in [A -> Nat] /\ SumOf(f) = SumOf(n)
<1> DEFINE n == [a \in A |-> SumOf(On(f, Group(S, g, a)))]
           h == [u \in PiecesOf(f) |-> g[u[1]]]
<1>1. \A u \in PiecesOf(f) : u[1] \in S
  BY PieceOf
<1>2. h \in [PiecesOf(f) -> A]
  BY <1>1
<1>3. ASSUME NEW a \in A
      PROVE  /\ n[a] \in Nat
             /\ ExistsBijection(1..n[a], Group(PiecesOf(f), h, a))
  <2> DEFINE R == Group(S, g, a)
             m == On(f, R)
  <2>1. m \in [R -> Nat] /\ \A x \in R : m[x] = f[x]
    BY DEF On, Group
  <2>2. IsFiniteSet(R)
    BY FS_Subset DEF Group
  <2>3. n[a] = SumOf(m)
    OBVIOUS
  <2> HIDE DEF m, n
  <2>4. IsFiniteSet(PiecesOf(m)) /\ SumOf(m) \in Nat
    BY <2>1, <2>2, SumType
  <2>5. \A u : u \in PiecesOf(m) <=> u \in PiecesOf(f) /\ g[u[1]] = a
    <3>1. SUFFICES ASSUME NEW u
                   PROVE  u \in PiecesOf(m) <=> u \in PiecesOf(f) /\ g[u[1]] = a
      OBVIOUS
    <3>2. u \in PiecesOf(m) <=> /\ u = <<u[1], u[2]>> /\ u[1] \in R
                                /\ u[2] \in Nat /\ 1 <= u[2] /\ u[2] <= m[u[1]]
      BY <2>1, PieceOf
    <3>3. u \in PiecesOf(f) <=> /\ u = <<u[1], u[2]>> /\ u[1] \in S
                                /\ u[2] \in Nat /\ 1 <= u[2] /\ u[2] <= f[u[1]]
      BY PieceOf
    <3> QED
      BY <2>1, <3>2, <3>3 DEF Group
  <2>6. PiecesOf(m) = Group(PiecesOf(f), h, a)
    BY <2>5 DEF Group
  <2>7. ExistsBijection(1..Cardinality(PiecesOf(m)), PiecesOf(m))
    BY <2>4, FS_CardinalityType
  <2>8. ExistsBijection(1..n[a], PiecesOf(m))
    BY <2>3, <2>7 DEF SumOf
  <2> QED
    BY <2>3, <2>4, <2>6, <2>8
<1>4. n \in [A -> Nat]
  BY <1>3
<1> HIDE DEF n, h
<1>5. Cardinality(PiecesOf(f)) = SumOf(n)
  BY <1>2, <1>3, <1>4, CountGroups
<1> QED
  BY <1>4, <1>5 DEF SumOf, n

-----------------------------------------------------------------------------
\* The totals of an order

LEMMA HalfNear ==
  ASSUME NEW n \in Nat
  PROVE  /\ HalfEven(n, 2) \in Nat
         /\ 2 * HalfEven(n, 2) - n \in -1..1
  BY DEF HalfEven

LEMMA PartNear ==
  ASSUME NEW n \in Nat
  PROVE  /\ HalfEven(n, 10000) \in Nat
         /\ 10000 * HalfEven(n, 10000) - n \in -5000..5000
  BY DEF HalfEven

\* Rounding keeps the order of amounts.
LEMMA PartMonotone ==
  ASSUME NEW m \in Nat, NEW n \in Nat, m <= n
  PROVE  HalfEven(m, 10000) <= HalfEven(n, 10000)
  BY DEF HalfEven

LEMMA PartBounded ==
  ASSUME NEW amount \in Nat, NEW n \in Nat, n <= 10000 * amount
  PROVE  HalfEven(n, 10000) <= amount
  BY DEF HalfEven

LEMMA ProductMonotone ==
  ASSUME NEW a \in Nat, NEW b \in Nat, NEW c \in Nat, b <= c
  PROVE  /\ a * b \in Nat
         /\ a * b <= a * c
  OBVIOUS

\* CGST, SGST and IGST of an order, which invoices and the GST register show
\* one by one, add up to the tax in the total except for a paisa, and exactly
\* when the customer is in another state (recalculate_order_totals).
THEOREM TaxSplit ==
  ASSUME NEW tax \in Nat, NEW interstate \in BOOLEAN
  PROVE  /\ TaxShown(Split(tax, interstate)) - tax \in -1..1
         /\ interstate => TaxShown(Split(tax, interstate)) = tax
         /\ Split(tax, interstate).cgst = Split(tax, interstate).sgst
<1>1. CASE interstate
  BY <1>1 DEF Split, TaxShown
<1>2. CASE ~interstate
  <2>1. Split(tax, interstate) =
          [cgst |-> HalfEven(tax, 2), sgst |-> HalfEven(tax, 2), igst |-> 0]
    BY <1>2 DEF Split
  <2>2. HalfEven(tax, 2) \in Nat /\ 2 * HalfEven(tax, 2) - tax \in -1..1
    BY HalfNear
  <2> QED
    BY <1>2, <2>1, <2>2 DEF TaxShown
<1> QED
  BY <1>1, <1>2

\* A discount that the serializers admit takes off something between nothing
\* and the whole, so that no total is negative, and a larger discount never
\* makes an order dearer (recalculate_order_totals).
THEOREM DiscountSound ==
  ASSUME NEW subtotal \in Nat, NEW tax \in Nat, NEW interstate \in BOOLEAN,
         NEW less \in Percent, NEW more \in Percent, less <= more
  PROVE  /\ Totals(subtotal, tax, less, interstate).discount \in 0..subtotal
         /\ Totals(subtotal, tax, less, interstate).total >= tax
         /\ Totals(subtotal, tax, more, interstate).total
              <= Totals(subtotal, tax, less, interstate).total
<1> DEFINE m == subtotal * less
           n == subtotal * more
<1>1. m \in Nat /\ n \in Nat /\ m <= n /\ n <= 10000 * subtotal
  BY ProductMonotone DEF Percent
<1>2. HalfEven(m, 10000) \in Nat /\ HalfEven(n, 10000) \in Nat
  BY <1>1, PartNear
<1>3. HalfEven(m, 10000) <= HalfEven(n, 10000) /\ HalfEven(n, 10000) <= subtotal
  BY <1>1, PartMonotone, PartBounded
<1>4. /\ Part(subtotal, less) = HalfEven(m, 10000)
      /\ Part(subtotal, more) = HalfEven(n, 10000)
  BY DEF Part
<1> HIDE DEF m, n
<1> QED
  BY <1>2, <1>3, <1>4 DEF Totals

\* What an order shows - the taxable amount and the three taxes - adds up to
\* its total_amount except for a paisa, whatever its lines and its discount
\* (recalculate_order_totals).
THEOREM TotalShown ==
  ASSUME NEW subtotal \in Nat, NEW tax \in Nat, NEW interstate \in BOOLEAN,
         NEW discount \in Percent
  PROVE  LET t == Totals(subtotal, tax, discount, interstate)
         IN t.taxable + TaxShown(t.split) - t.total \in -1..1
<1> DEFINE t == Totals(subtotal, tax, discount, interstate)
<1>1. /\ t.split = Split(tax, interstate)
      /\ t.taxable = subtotal - t.discount
      /\ t.total = subtotal - t.discount + tax
  BY DEF Totals
<1>2. t.discount \in Int
  <2>0. discount <= discount
    BY DEF Percent
  <2>1. t.discount \in 0..subtotal
    BY <2>0, DiscountSound
  <2> QED
    BY <2>1
<1>3. TaxShown(t.split) - tax \in -1..1
  BY <1>1, TaxSplit
<1>4. TaxShown(t.split) \in Int
  BY <1>1, HalfNear DEF Split, TaxShown
<1>5. t.taxable + TaxShown(t.split) - t.total \in -1..1
  <2> HIDE DEF t
  <2> QED
    BY <1>1, <1>2, <1>3, <1>4
<1> QED
  BY <1>5
================================================================================
