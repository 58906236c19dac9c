----------------------------- MODULE Recursions -----------------------------
(***************************************************************************)
(* Numbers and recursion along them, without an induction: a set of        *)
(* numbers has a least element, and from that what holds of 0 and passes   *)
(* on from each number to the next holds of all, and a recursion has a     *)
(* solution.  The provers cannot instantiate the induction theorems of the *)
(* library, which take an operator as their parameter.  And finite sets:   *)
(* the places of their members in an order, and the sizes of their groups. *)
(***************************************************************************)
EXTENDS Integers, Functions, FiniteSetTheorems, FunctionTheorems, WellFoundedInduction, TLAPS

\* A set of numbers has a least one, a bounded set of numbers a greatest one.
LEMMA LeastOfNumbers ==
  ASSUME NEW S, S \subseteq Nat, S # {}
  PROVE  \E m \in S : \A k \in S : m <= k
<1>1. PICK m \in S : \A k \in S : ~(<<k, m>> \in OpToRel(<, Nat))
  BY NatLessThanWellFounded, WFMin
<1>2. ASSUME NEW k \in S PROVE m <= k
  <2>1. k \in Nat /\ m \in Nat
    OBVIOUS
  <2>2. k < m => <<k, m>> \in OpToRel(<, Nat)
    BY <2>1 DEF OpToRel
  <2>3. ~(k < m)
    BY <1>1, <2>2
  <2>4. QED
    BY <2>1, <2>3
<1>3. QED
  BY <1>2

LEMMA GreatestOfNumbers ==
  ASSUME NEW n \in Nat, NEW S, S \subseteq 0..n, S # {}
  PROVE  \E m \in S : \A k \in S : k <= m
<1> DEFINE below == {n - k : k \in S}
<1>1. below \subseteq Nat /\ below # {}
  <2>1. \A k \in S : n - k \in Nat
    OBVIOUS
  <2>2. QED
    BY <2>1
<1>2. PICK d \in below : \A c \in below : d <= c
  <2> HIDE DEF below
  <2>1. QED
    BY <1>1, LeastOfNumbers
<1>3. PICK m \in S : d = n - m
  OBVIOUS
<1>4. ASSUME NEW k \in S PROVE k <= m
  <2>1. n - k \in below
    OBVIOUS
  <2>2. d <= n - k
    BY <1>2, <2>1
  <2>3. QED
    BY <1>3, <2>2
<1>5. QED
  BY <1>4

\* What holds of 0, and of a number when of the one before it, holds up to n.
LEMMA Counting ==
  ASSUME NEW n \in Nat, NEW S, 0 \in S, \A k \in 1..n : k - 1 \in S => k \in S
  PROVE  0..n \subseteq S
<1> DEFINE missing == (0..n) \ S
<1> SUFFICES ASSUME missing # {} PROVE FALSE
  OBVIOUS
<1>1. missing \subseteq Nat
  OBVIOUS
<1>2. PICK m \in missing : \A k \in missing : m <= k
  <2> HIDE DEF missing
  <2>1. QED
    BY <1>1, LeastOfNumbers
<1>3. m \in 1..n
  BY <1>2
<1>4. m - 1 \notin missing
  BY <1>2, <1>3
<1>5. m - 1 \in S
  BY <1>3, <1>4
<1>6. QED
  BY <1>2, <1>3, <1>5

\* A recursion along the numbers up to n has a solution.
Solves(f, n, S, base, step) ==
    f \in [0..n -> S] /\ f[0] = base /\ \A k \in 1..n : f[k] = step[k][f[k - 1]]

LEMMA RecursionExists ==
  ASSUME NEW n \in Nat, NEW S, NEW base \in S, NEW step,
         \A k \in 1..n, x \in S : step[k][x] \in S
  PROVE  \E f : Solves(f, n, S, base, step)
<1> DEFINE done == {m \in 0..n : \E f : Solves(f, m, S, base, step)}
<1>1. 0 \in done
  <2>1. Solves([k \in 0..0 |-> base], 0, S, base, step)
    BY DEF Solves
  <2>2. \E f : Solves(f, 0, S, base, step)
    BY <2>1, Zenon
  <2>3. 0 \in 0..n
    OBVIOUS
  <2>4. QED
    BY <2>2, <2>3
<1>2. ASSUME NEW m \in 1..n, m - 1 \in done PROVE m \in done
  <2>1. PICK f : Solves(f, m - 1, S, base, step)
    BY <1>2
  <2> DEFINE g == [k \in 0..m |-> IF k = m THEN step[m][f[m - 1]] ELSE f[k]]
  <2>2. f[m - 1] \in S
    BY <2>1 DEF Solves
  <2>3. step[m][f[m - 1]] \in S
    BY <2>2
  <2>4. g \in [0..m -> S]
    BY <2>1, <2>3 DEF Solves
  <2>5. g[0] = base /\ g[m] = step[m][g[m - 1]]
    BY <2>1 DEF Solves
  <2>6. ASSUME NEW k \in 1..m PROVE g[k] = step[k][g[k - 1]]
    <3>1. CASE k = m
      BY <2>5, <3>1
    <3>2. CASE k # m
      <4>1. k \in 1..(m - 1) /\ g[k] = f[k] /\ g[k - 1] = f[k - 1]
        BY <3>2
      <4>2. QED
        BY <2>1, <4>1 DEF Solves
    <3>3. QED
      BY <3>1, <3>2
  <2> HIDE DEF g
  <2>7. Solves(g, m, S, base, step)
    BY <2>4, <2>5, <2>6 DEF Solves
  <2>8. \E h : Solves(h, m, S, base, step)
    BY <2>7, Zenon
  <2>9. QED
    BY <2>8
<1>3. 0..n \subseteq done
  <2> HIDE DEF done
  <2>1. QED
    BY <1>1, <1>2, Counting
<1>4. n \in done
  BY <1>3
<1>5. QED
  BY <1>4

-----------------------------------------------------------------------------
(* Finite sets                                                             *)

\* In a strict order of finitely many, each has as many before it as its place says, and no place is left out.
LEMMA PlacesInOrder ==
  ASSUME NEW S, IsFiniteSet(S), NEW before \in [S -> SUBSET S],
         \A x \in S : x \notin before[x],
         \A x, y \in S : y \in before[x] => before[y] \subseteq before[x],
         \A x, y \in S : x # y => y \in before[x] \/ x \in before[y]
  PROVE  LET place == [x \in S |-> Cardinality(before[x])]
         IN  /\ place \in Bijection(S, 0..(Cardinality(S) - 1))
             /\ \A x, y \in S : place[x] < place[y] <=> x \in before[y]
<1> DEFINE n == Cardinality(S)
           place == [x \in S |-> Cardinality(before[x])]
<1>1. n \in Nat
  BY FS_CardinalityType
<1>2. \A x \in S : IsFiniteSet(before[x]) /\ place[x] \in Nat /\ place[x] = Cardinality(before[x])
  <2>1. SUFFICES ASSUME NEW x \in S PROVE IsFiniteSet(before[x]) /\ place[x] \in Nat /\ place[x] = Cardinality(before[x])
    OBVIOUS
  <2>2. before[x] \subseteq S
    OBVIOUS
  <2>3. IsFiniteSet(before[x])
    BY <2>2, FS_Subset
  <2>4. Cardinality(before[x]) \in Nat
    BY <2>3, FS_CardinalityType
  <2>5. QED
    BY <2>3, <2>4
<1>3. ASSUME NEW x \in S PROVE place[x] \in 0..(n - 1)
  <2>1. before[x] \subseteq S \ {x}
    OBVIOUS
  <2>2. IsFiniteSet(S \ {x}) /\ Cardinality(S \ {x}) = n - 1
    BY FS_RemoveElement
  <2>3. Cardinality(before[x]) <= Cardinality(S \ {x})
    BY <2>1, <2>2, FS_Subset
  <2> HIDE DEF n, place
  <2>4. QED
    BY <1>1, <1>2, <2>2, <2>3
<1>4. ASSUME NEW x \in S, NEW y \in S, x \in before[y] PROVE place[x] < place[y]
  <2>1. before[x] \subseteq before[y] \ {x}
    BY <1>4
  <2>2. IsFiniteSet(before[y] \ {x}) /\ Cardinality(before[y] \ {x}) = Cardinality(before[y]) - 1
    BY <1>2, <1>4, FS_RemoveElement
  <2>3. Cardinality(before[x]) <= Cardinality(before[y] \ {x})
    BY <2>1, <2>2, FS_Subset
  <2>4. place[x] = Cardinality(before[x]) /\ place[y] = Cardinality(before[y]) /\ place[x] \in Nat /\ place[y] \in Nat
    BY <1>2
  <2> HIDE DEF place
  <2>5. QED
    BY <2>2, <2>3, <2>4
<1> HIDE DEF n
<1>5. place = [x \in S |-> place[x]] /\ place \in [S -> 0..(n - 1)]
  BY <1>3
<1> HIDE DEF place
<1>6. \A x, y \in S : place[x] \in Nat /\ place[y] \in Nat
  BY <1>2
<1>7. ASSUME NEW x \in S, NEW y \in S, place[x] < place[y] PROVE x \in before[y]
  <2>1. x # y /\ ~(y \in before[x])
    BY <1>4, <1>6, <1>7
  <2>2. QED
    BY <2>1
<1>8. place \in Injection(S, 0..(n - 1))
  <2>1. ASSUME NEW x \in S, NEW y \in S, place[x] = place[y] PROVE x = y
    BY <1>4, <1>6, <2>1
  <2>2. QED
    BY <1>5, <2>1 DEF Injection, IsInjective
<1>9. place \in Surjection(S, 0..(n - 1))
  <2>1. IsFiniteSet(0..(n - 1)) /\ Cardinality(0..(n - 1)) = n
    <3>1. 0 \in Int /\ n - 1 \in Int /\ (0 > n - 1 <=> n = 0) /\ (n - 1) - 0 + 1 = n
      BY <1>1
    <3>2. QED
      BY <3>1, FS_Interval
  <2>2. QED
    BY <1>8, <2>1, FS_Injection DEF n
<1>10. \A x, y \in S : place[x] < place[y] <=> x \in before[y]
  BY <1>4, <1>7
<1>11. QED
  BY <1>8, <1>9, <1>10 DEF Bijection, n, place

\* A list that has a member of the set at each place that is one's place, in such an order, has each of
\* the set's members once, after all that come before it.
LEMMA OrderedList ==
  ASSUME NEW S, IsFiniteSet(S), NEW before \in [S -> SUBSET S],
         \A x \in S : x \notin before[x],
         \A x, y \in S : y \in before[x] => before[y] \subseteq before[x],
         \A x, y \in S : x # y => y \in before[x] \/ x \in before[y],
         NEW list, list = [k \in 1..Cardinality(S) |-> list[k]],
         \A k \in 1..Cardinality(S) : (\E x \in S : Cardinality(before[x]) = k - 1)
                                        => list[k] \in S /\ Cardinality(before[list[k]]) = k - 1
  PROVE  /\ Cardinality(S) \in Nat /\ list \in [1..Cardinality(S) -> S]
         /\ \A x \in S : \E k \in 1..Cardinality(S) : list[k] = x
         /\ \A k, l \in 1..Cardinality(S) : k < l => list[k] \in before[list[l]]
<1> DEFINE n == Cardinality(S)
           place == [x \in S |-> Cardinality(before[x])]
<1>1. n \in Nat
  BY FS_CardinalityType
<1>2. place \in Bijection(S, 0..(n - 1)) /\ \A x, y \in S : place[x] < place[y] <=> x \in before[y]
  BY PlacesInOrder
<1>3. \A k \in 1..n : (\E x \in S : place[x] = k - 1) => list[k] \in S /\ place[list[k]] = k - 1
  OBVIOUS
<1>4. DOMAIN list = 1..n /\ list = [k \in DOMAIN list |-> list[k]]
  OBVIOUS
<1> HIDE DEF n, place
<1>5. /\ \A p \in 0..(n - 1) : \E x \in S : place[x] = p
      /\ \A x \in S : place[x] \in 0..(n - 1)
      /\ \A x, y \in S : place[x] = place[y] => x = y
  BY <1>2 DEF Bijection, Injection, Surjection, IsInjective
<1>6. \A k \in 1..n : list[k] \in S /\ place[list[k]] = k - 1
  <2> TAKE k \in 1..n
  <2>1. k - 1 \in 0..(n - 1)
    BY <1>1
  <2>2. \E x \in S : place[x] = k - 1
    BY <1>5, <2>1
  <2>3. QED
    BY <1>3, <2>2
<1>7. \A x \in S : \E k \in 1..n : list[k] = x
  <2> TAKE x \in S
  <2>1. place[x] \in Int /\ place[x] + 1 \in 1..n /\ (place[x] + 1) - 1 = place[x]
    BY <1>1, <1>5
  <2>2. PICK k \in 1..n : k = place[x] + 1
    BY <2>1
  <2>3. list[k] \in S /\ place[list[k]] = k - 1
    BY <1>6
  <2>4. k - 1 = place[x]
    BY ONLY <2>1, <2>2
  <2>5. list[k] = x
    BY ONLY <1>5, <2>3, <2>4
  <2>6. QED
    BY <2>5
<1>8. \A k, l \in 1..n : k < l => list[k] \in before[list[l]]
  <2> TAKE k, l \in 1..n
  <2> HAVE k < l
  <2>1. list[k] \in S /\ place[list[k]] = k - 1 /\ list[l] \in S /\ place[list[l]] = l - 1
    BY <1>6
  <2>2. k - 1 < l - 1
    BY ONLY <1>1, k \in 1..n, l \in 1..n, k < l
  <2>3. place[list[k]] < place[list[l]]
    BY ONLY <2>1, <2>2
  <2>4. QED
    BY ONLY <1>2, <2>1, <2>3
<1>9. QED
  BY <1>1, <1>4, <1>6, <1>7, <1>8 DEF n

\* As many as a function counts of everything together.
PairsOf(tally) == UNION {{v} \X (1..tally[v]) : v \in DOMAIN tally}

\* The sizes of the groups of a finite set add up to its size.
LEMMA GroupsAddUp ==
  ASSUME NEW M, IsFiniteSet(M), NEW of, NEW tally,
         tally = [v \in {of[i] : i \in M} |-> Cardinality({i \in M : of[i] = v})]
  PROVE  Cardinality(PairsOf(tally)) = Cardinality(M)
<1> DEFINE V == {of[i] : i \in M}
           group(v) == {i \in M : of[i] = v}
           U == UNION {{v} \X (1..tally[v]) : v \in V}
<1>1. DOMAIN tally = V /\ \A v \in V : tally[v] = Cardinality(group(v))
  OBVIOUS
<1>2. ASSUME NEW v \in V PROVE tally[v] \in Nat /\ \E b : b \in Bijection(group(v), 1..tally[v])
  <2> DEFINE g == group(v)
  <2>1. g \subseteq M
    OBVIOUS
  <2>2. tally[v] = Cardinality(g)
    BY <1>1
  <2> HIDE DEF g
  <2>3. IsFiniteSet(g)
    BY <2>1, FS_Subset
  <2>4. Cardinality(g) \in Nat /\ ExistsBijection(1..Cardinality(g), g)
    BY <2>3, FS_CardinalityType
  <2>5. ExistsBijection(g, 1..Cardinality(g))
    BY <2>4, Fun_ExistsBijSymmetric
  <2>6. QED
    BY <2>2, <2>4, <2>5 DEF ExistsBijection, g
<1> DEFINE nth == [v \in V |-> CHOOSE b : b \in Bijection(group(v), 1..tally[v])]
           f == [i \in M |-> <<of[i], nth[of[i]][i]>>]
<1>3. \A v \in V : nth[v] \in Bijection(group(v), 1..tally[v])
  BY <1>2
<1> HIDE DEF nth
<1>4. ASSUME NEW v \in V
      PROVE  /\ \A i \in group(v) : nth[v][i] \in 1..tally[v]
             /\ \A i, k \in group(v) : nth[v][i] = nth[v][k] => i = k
             /\ \A m \in 1..tally[v] : \E i \in group(v) : nth[v][i] = m
  <2> DEFINE g == group(v)
             b == nth[v]
  <2>1. b \in Bijection(g, 1..tally[v])
    BY <1>3
  <2> HIDE DEF g, b
  <2>2. /\ \A i \in g : b[i] \in 1..tally[v]
        /\ \A i, k \in g : b[i] = b[k] => i = k
        /\ \A m \in 1..tally[v] : \E i \in g : b[i] = m
    BY <2>1 DEF Bijection, Injection, Surjection, IsInjective
  <2>3. QED
    BY <2>2 DEF g, b
<1>5. \A i \in M : of[i] \in V /\ i \in group(of[i])
  OBVIOUS
<1>6. \A u : u \in U <=> \E v \in V : \E m \in 1..tally[v] : u = <<v, m>>
  <2> HIDE DEF V
  <2>1. \A u, v, N : u \in {v} \X N <=> \E m \in N : u = <<v, m>>
    OBVIOUS
  <2>2. \A u : u \in U <=> \E v \in V : u \in {v} \X (1..tally[v])
    OBVIOUS
  <2> HIDE DEF U
  <2> TAKE u
  <2>3. \A v : u \in {v} \X (1..tally[v]) <=> \E m \in 1..tally[v] : u = <<v, m>>
    <3> TAKE v
    <3> DEFINE N == 1..tally[v]
    <3> HIDE DEF N
    <3>1. u \in {v} \X N <=> \E m \in N : u = <<v, m>>
      BY <2>1
    <3>2. QED
      BY <3>1 DEF N
  <2>4. u \in U <=> \E v \in V : u \in {v} \X (1..tally[v])
    BY <2>2
  <2>5. QED
    BY <2>3, <2>4
<1>7. \A v \in V : \A i \in group(v) : i \in M /\ of[i] = v
  OBVIOUS
<1> HIDE DEF V, group, U
<1>8. f \in [M -> U]
  BY <1>4, <1>5, <1>6
<1>9. \A i, k \in M : f[i] = f[k] => i = k
  <2> TAKE i, k \in M
  <2> HAVE f[i] = f[k]
  <2>1. of[i] = of[k] /\ nth[of[i]][i] = nth[of[i]][k]
    OBVIOUS
  <2>2. QED
    BY <1>4, <1>5, <2>1
<1>10. \A u \in U : \E i \in M : f[i] = u
  <2> TAKE u \in U
  <2>1. PICK v \in V : \E m \in 1..tally[v] : u = <<v, m>>
    BY <1>6
  <2>2. PICK m \in 1..tally[v] : u = <<v, m>>
    BY <2>1
  <2>3. PICK i \in group(v) : nth[v][i] = m
    BY <1>4
  <2>4. i \in M /\ of[i] = v
    BY <1>7
  <2>5. QED
    BY <2>2, <2>3, <2>4
<1> HIDE DEF f
<1>11. f \in Bijection(M, U)
  BY <1>8, <1>9, <1>10 DEF Bijection, Injection, Surjection, IsInjective
<1>12. Cardinality(U) = Cardinality(M)
  BY <1>11, FS_Bijection DEF ExistsBijection
<1>13. PairsOf(tally) = U
  BY <1>1 DEF U, PairsOf
<1>14. QED
  BY <1>12, <1>13
=============================================================================
