---------------------------- MODULE FoldTheorems ----------------------------
(***************************************************************************)
(* Induction over numbers and what follows for recursive functions, for    *)
(* FoldLeft, with which the models go through lists (the sessions in a     *)
(* retention pass, the writes of a mutation, the notes of a song, the      *)
(* blocks of a render, the steps to another snapshot), and for sums and    *)
(* the greatest numbers of finite sets.                                    *)
(*                                                                         *)
(* The facts are stated about sets and functions, not about operators, so  *)
(* that the provers can instantiate them: a step of a fold is a function F *)
(* of an accumulator and an item, and an invariant of a fold is the set of *)
(* the accumulators that satisfy it.                                       *)
(***************************************************************************)
EXTENDS Integers, FiniteSets, SequencesExt, FiniteSetTheorems, WellFoundedInduction, TLAPS

Below == {pair \in Nat \X Nat : pair[1] < pair[2]}

\* A set of numbers that is not empty has a least element.
LEMMA LeastNumber ==
    ASSUME NEW T, T \subseteq Nat, T # {}
    PROVE  \E x \in T : \A y \in T : x <= y
<1>1. IsWellFoundedOn(Below, Nat)
    BY NatLessThanWellFounded DEF OpToRel, Below
<1>2. PICK x \in T : \A y \in T : ~(<<y, x>> \in Below)
    BY <1>1, WFMin
<1>3. \A y \in T : x \in Nat /\ y \in Nat /\ ~(y < x)
    BY <1>2 DEF Below
<1> QED BY <1>3

\* Induction: a set with 0 and the successor of each of its numbers has them all.
LEMMA NumbersInduct ==
    ASSUME NEW T, 0 \in T, \A n \in Nat : n \in T => n + 1 \in T
    PROVE  Nat \subseteq T
<1> DEFINE Missing == Nat \ T
<1> SUFFICES ASSUME Missing # {} PROVE FALSE
    OBVIOUS
<1>1. PICK x \in Missing : \A y \in Missing : x <= y
    BY LeastNumber
<1>2. x \in Nat /\ x # 0
    BY <1>1
<1>3. x - 1 \in Nat /\ (x - 1) + 1 = x
    BY <1>2
<1>4. x - 1 \notin Missing
    BY <1>1, <1>2, <1>3
<1> QED BY <1>1, <1>3, <1>4

\* The image of a finite set is finite, and not larger.
LEMMA ImageFinite ==
    ASSUME NEW S, IsFiniteSet(S), NEW f
    PROVE  /\ IsFiniteSet({f[x] : x \in S})
           /\ Cardinality({f[x] : x \in S}) <= Cardinality(S)
<1> DEFINE T == {f[x] : x \in S}
           g == [x \in S |-> f[x]]
<1>1. g \in Surjection(S, T)
    BY DEF Surjection
<1> HIDE DEF g, T
<1>2. IsFiniteSet(T) /\ Cardinality(T) <= Cardinality(S)
    BY <1>1, FS_Surjection
<1> QED BY <1>2 DEF T

\* A finite set of numbers has a greatest.
LEMMA MaxOfFinite ==
    ASSUME NEW S, S \subseteq Nat, IsFiniteSet(S), S # {}
    PROVE  Max(S) \in S /\ \A y \in S : y <= Max(S)
<1> DEFINE n == Cardinality(S)
<1>1. n \in Nat /\ ExistsBijection(1..n, S)
    BY FS_CardinalityType
<1>2. PICK f : f \in Bijection(1..n, S)
    BY <1>1 DEF ExistsBijection
<1>3. f \in [1..n -> S] /\ \A y \in S : \E i \in 1..n : f[i] = y
    BY <1>2 DEF Bijection, Surjection
<1> HIDE DEF n
<1> DEFINE T == {k \in Nat : k <= n => \E m \in Nat : \A i \in 1..k : f[i] <= m}
<1>4. 0 \in T
    OBVIOUS
<1>5. ASSUME NEW k \in Nat, k \in T PROVE k + 1 \in T
  <2> SUFFICES ASSUME k + 1 <= n PROVE \E m \in Nat : \A i \in 1..(k + 1) : f[i] <= m
      OBVIOUS
  <2>1. PICK m \in Nat : \A i \in 1..k : f[i] <= m
      BY <1>1, <1>5
  <2>2. f[k + 1] \in Nat /\ \A i \in 1..k : f[i] \in Nat
    <3>1. k + 1 \in 1..n /\ \A i \in 1..k : i \in 1..n
        BY <1>1
    <3>2. \A i \in 1..n : f[i] \in Nat
        BY <1>3
    <3> QED BY <3>1, <3>2
  <2>3. CASE f[k + 1] <= m
    <3>1. \A i \in 1..(k + 1) : f[i] <= m
        BY <2>1, <2>3
    <3> QED BY <3>1
  <2>4. CASE f[k + 1] > m
    <3>1. \A i \in 1..(k + 1) : f[i] <= f[k + 1]
      <4> SUFFICES ASSUME NEW i \in 1..k PROVE f[i] <= f[k + 1]
          BY <2>2
      <4>1. f[i] <= m /\ f[i] \in Nat
          BY <2>1, <2>2
      <4> QED BY <2>2, <2>4, <4>1
    <3> QED BY <2>2, <3>1
  <2> QED BY <2>2, <2>3, <2>4
<1>6. n \in T
  <2> HIDE DEF T
  <2> QED BY <1>1, <1>4, <1>5, NumbersInduct
<1>7. PICK m \in Nat : \A i \in 1..n : f[i] <= m
    BY <1>1, <1>6
<1>8. \A y \in S : y \in Nat /\ y <= m
    BY <1>3, <1>7
<1> DEFINE Left == {m - y : y \in S}
<1>9. Left \subseteq Nat /\ Left # {}
  <2>1. \A y \in S : m - y \in Nat
      BY <1>8
  <2> QED BY <2>1
<1> HIDE DEF T
<1>10. PICK d \in Left : \A e \in Left : d <= e
    BY <1>9, LeastNumber
<1>11. PICK x \in S : d = m - x
    BY <1>10
<1>12. \A y \in S : m - x <= m - y
  <2>1. \A y \in S : m - y \in Left
      OBVIOUS
  <2> QED BY <1>10, <1>11, <2>1
<1>13. \A y \in S : x >= y
    BY <1>8, <1>12
<1>14. Max(S) \in S /\ \A y \in S : Max(S) >= y
    BY <1>13 DEF Max
<1> QED BY <1>8, <1>14

----------------------------------------------------------------------------
\* FoldLeft goes down from the whole index set, always taking the last index.
Folding(h, F, base, seq, n) ==
    h = [s \in SUBSET (1..n) |->
            IF s = {} THEN base ELSE F[<<h[s \ {Max(s)}], seq[Max(s)]>>]]

\* The last index of a set of indices.
LEMMA MaxIsLast ==
    ASSUME NEW n \in Nat, NEW s \in SUBSET (1..n), n \in s
    PROVE  Max(s) = n
<1>1. n \in s /\ \A y \in s : n >= y
    OBVIOUS
<1>2. \A x \in s : (\A y \in s : x >= y) => x = n
    OBVIOUS
<1> QED BY <1>1, <1>2 DEF Max

\* The last index is one of the indices.
LEMMA MaxIsMember ==
    ASSUME NEW n \in Nat, NEW s \in SUBSET (1..n), s # {}
    PROVE  Max(s) \in s /\ \A y \in s : y <= Max(s)
<1> DEFINE Left == {n - y : y \in s}
<1>1. Left \subseteq Nat /\ Left # {}
  <2>1. \A y \in s : y \in 1..n /\ n - y \in Nat
      OBVIOUS
  <2>2. PICK y \in s : TRUE
      OBVIOUS
  <2> QED BY <2>1, <2>2
<1>2. PICK d \in Left : \A e \in Left : d <= e
    BY <1>1, LeastNumber
<1>3. PICK x \in s : d = n - x
    BY <1>2
<1>4. \A y \in s : n - x <= n - y
    BY <1>2, <1>3
<1>5. \A y \in s : x >= y
    BY <1>4
<1>6. \E z \in s : \A y \in s : z >= y
    BY <1>3, <1>5
<1>7. Max(s) \in s /\ \A y \in s : Max(s) >= y
    BY <1>6 DEF Max
<1> QED BY <1>7

\* What a fold is defined by exists.
LEMMA FoldExists ==
    ASSUME NEW F, NEW base, NEW seq, NEW n \in Nat
    PROVE  \E h : Folding(h, F, base, seq, n)
<1> DEFINE T == {k \in Nat : \E h : Folding(h, F, base, seq, k)}
<1>1. 0 \in T
  <2>1. Folding([s \in SUBSET (1..0) |-> base], F, base, seq, 0)
    <3>1. \A s \in SUBSET (1..0) : s = {}
        OBVIOUS
    <3> QED BY <3>1 DEF Folding
  <2> QED BY <2>1
<1>2. ASSUME NEW k \in Nat, k \in T PROVE k + 1 \in T
  <2>1. PICK h : Folding(h, F, base, seq, k)
      BY <1>2
  <2> DEFINE m == k + 1
             D == SUBSET (1..m)
             g == [s \in D |-> IF m \in s THEN F[<<h[s \ {m}], seq[m]>>] ELSE h[s]]
  <2>2. ASSUME NEW s \in D
        PROVE  g[s] = IF s = {} THEN base ELSE F[<<g[s \ {Max(s)}], seq[Max(s)]>>]
    <3>1. CASE m \in s
      <4>1. m \in Nat /\ s \in SUBSET (1..m)
          BY <2>2
      <4>2. Max(s) = m
          BY <3>1, <4>1, MaxIsLast
      <4>3. s \ {m} \in D /\ m \notin s \ {m}
          OBVIOUS
      <4>4. g[s \ {m}] = h[s \ {m}]
          BY <4>3
      <4>5. g[s] = F[<<h[s \ {m}], seq[m]>>]
          BY <3>1, <2>2
      <4> QED BY <4>2, <4>4, <4>5, <3>1
    <3>2. CASE m \notin s
      <4>1. s \in SUBSET (1..k)
          BY <3>2, <2>2
      <4>2. g[s] = h[s]
          BY <3>2, <2>2
      <4>3. CASE s = {}
          BY <4>1, <4>2, <4>3, <2>1 DEF Folding
      <4>4. CASE s # {}
        <5>1. s \ {Max(s)} \in D /\ m \notin s \ {Max(s)}
            BY <3>2, <2>2
        <5>2. g[s \ {Max(s)}] = h[s \ {Max(s)}]
            BY <5>1
        <5>3. h[s] = F[<<h[s \ {Max(s)}], seq[Max(s)]>>]
            BY <4>1, <4>4, <2>1 DEF Folding
        <5> QED BY <5>2, <5>3, <4>2, <4>4
      <4> QED BY <4>3, <4>4
    <3> QED BY <3>1, <3>2
  <2>3. g = [s \in D |-> IF s = {} THEN base ELSE F[<<g[s \ {Max(s)}], seq[Max(s)]>>]]
    <3>1. g = [s \in D |-> g[s]]
        OBVIOUS
    <3> HIDE DEF g, D
    <3> QED BY <2>2, <3>1
  <2>4. Folding(g, F, base, seq, m)
      BY <2>3 DEF Folding
  <2>5. \E f : Folding(f, F, base, seq, m)
      BY <2>4
  <2>6. m \in Nat
      OBVIOUS
  <2> QED BY <2>5, <2>6
<1>3. Nat \subseteq T
  <2> HIDE DEF T
  <2> QED BY <1>1, <1>2, NumbersInduct
<1> QED BY <1>3

\* A fold whose steps stay within a set stays within it.
LEMMA FoldTyped ==
    ASSUME NEW A, NEW B, NEW F \in [A \X B -> A], NEW base \in A, NEW n \in Nat,
           NEW seq \in [1..n -> B], NEW h, Folding(h, F, base, seq, n)
    PROVE  \A s \in SUBSET (1..n) : h[s] \in A
<1> DEFINE T == {k \in Nat : k <= n => \A s \in SUBSET (1..k) : h[s] \in A}
<1>1. \A s \in SUBSET (1..n) :
          h[s] = IF s = {} THEN base ELSE F[<<h[s \ {Max(s)}], seq[Max(s)]>>]
    BY DEF Folding
<1>2. 0 \in T
  <2>1. \A s \in SUBSET (1..0) : s = {} /\ s \in SUBSET (1..n)
      OBVIOUS
  <2> QED BY <1>1, <2>1
<1>3. ASSUME NEW k \in Nat, k \in T PROVE k + 1 \in T
  <2> SUFFICES ASSUME k + 1 <= n PROVE \A s \in SUBSET (1..(k + 1)) : h[s] \in A
    <3>1. k + 1 \in Nat
        OBVIOUS
    <3> QED BY <3>1
  <2> SUFFICES ASSUME NEW s \in SUBSET (1..(k + 1)) PROVE h[s] \in A
      OBVIOUS
  <2>1. k <= n /\ \A t \in SUBSET (1..k) : h[t] \in A
      BY <1>3
  <2>2. CASE s = {}
      BY <1>1, <2>2
  <2>3. CASE s # {}
    <3>1. k + 1 \in Nat /\ s \in SUBSET (1..n)
        OBVIOUS
    <3>2. Max(s) \in s /\ \A y \in s : y <= Max(s)
        BY <2>3, <3>1, MaxIsMember
    <3>3. s \ {Max(s)} \in SUBSET (1..k)
      <4> DEFINE m == Max(s)
      <4>1. m \in 1..(k + 1)
          BY <3>2
      <4>2. \A y \in s \ {m} : y \in 1..(k + 1) /\ y # m /\ y <= m
          BY <3>2
      <4> HIDE DEF m
      <4>3. \A y \in s \ {m} : y \in 1..k
          BY <4>1, <4>2
      <4> QED BY <4>3 DEF m
    <3>4. Max(s) \in 1..n
        BY <3>1, <3>2
    <3>5. h[s \ {Max(s)}] \in A /\ seq[Max(s)] \in B
        BY <2>1, <3>3, <3>4
    <3>6. h[s] = F[<<h[s \ {Max(s)}], seq[Max(s)]>>]
        BY <1>1, <2>3, <3>1
    <3> QED BY <3>5, <3>6
  <2> QED BY <2>2, <2>3
<1>4. Nat \subseteq T
  <2> HIDE DEF T
  <2> QED BY <1>2, <1>3, NumbersInduct
<1> QED BY <1>4

\* A fold whose accumulators are in A and whose items are in B, step by step.
TypedFolding(h, F, base, seq, n, A, B) ==
    /\ Folding(h, F, base, seq, n)
    /\ \A s \in SUBSET (1..n) : s # {} => h[s \ {Max(s)}] \in A /\ seq[Max(s)] \in B

\* There is such a fold when its steps stay within A.
LEMMA TypedFoldExists ==
    ASSUME NEW A, NEW B, NEW F \in [A \X B -> A], NEW base \in A, NEW n \in Nat,
           NEW seq \in [1..n -> B]
    PROVE  \E h : TypedFolding(h, F, base, seq, n, A, B)
<1>1. PICK h : Folding(h, F, base, seq, n)
    BY FoldExists
<1>2. \A s \in SUBSET (1..n) : h[s] \in A
    BY <1>1, FoldTyped
<1>3. \A s \in SUBSET (1..n) : s # {} =>
          h[s \ {Max(s)}] \in A /\ seq[Max(s)] \in B
    BY <1>2, MaxIsMember
<1> QED BY <1>1, <1>3 DEF TypedFolding

\* The last index of an interval, and what is before it.
LEMMA MaxOfInterval ==
    ASSUME NEW n \in Nat, NEW k \in 1..n
    PROVE  /\ 1..k \in SUBSET (1..n) /\ 1..k # {} /\ Max(1..k) = k
           /\ (1..k) \ {k} = 1..(k - 1)
<1>1. k \in Nat /\ 1..k \in SUBSET (1..k) /\ k \in 1..k
    OBVIOUS
<1>2. Max(1..k) = k
    BY <1>1, MaxIsLast
<1> QED BY <1>2

\* What holds before the first item and is kept by each holds after the last.
LEMMA FoldKeeps ==
    ASSUME NEW n \in Nat, NEW h, NEW J, h[{}] \in J,
           \A k \in 1..n : h[(1..k) \ {k}] \in J => h[1..k] \in J
    PROVE  h[1..n] \in J
<1> DEFINE T == {k \in Nat : k <= n => h[1..k] \in J}
<1>1. 0 \in T
  <2>1. 1..0 = {}
      OBVIOUS
  <2> QED BY <2>1
<1>2. ASSUME NEW k \in Nat, k \in T PROVE k + 1 \in T
  <2> SUFFICES ASSUME k + 1 <= n PROVE h[1..(k + 1)] \in J
      OBVIOUS
  <2>1. (1..(k + 1)) \ {k + 1} = 1..k /\ k + 1 \in 1..n
      OBVIOUS
  <2>2. h[1..k] \in J
      BY <1>2
  <2> QED BY <2>1, <2>2
<1>3. Nat \subseteq T
  <2> HIDE DEF T
  <2> QED BY <1>1, <1>2, NumbersInduct
<1> QED BY <1>3

\* What holds after k items for every k is a family of sets, one for each k.
LEMMA FoldKeepsAlong ==
    ASSUME NEW n \in Nat, NEW h, NEW J, h[{}] \in J[0],
           \A k \in 1..n : h[(1..k) \ {k}] \in J[k - 1] => h[1..k] \in J[k]
    PROVE  h[1..n] \in J[n]
<1> DEFINE T == {k \in Nat : k <= n => h[1..k] \in J[k]}
<1>1. 0 \in T
  <2>1. 1..0 = {}
      OBVIOUS
  <2> QED BY <2>1
<1>2. ASSUME NEW k \in Nat, k \in T PROVE k + 1 \in T
  <2> SUFFICES ASSUME k + 1 <= n PROVE h[1..(k + 1)] \in J[k + 1]
      OBVIOUS
  <2>1. (1..(k + 1)) \ {k + 1} = 1..k /\ k + 1 \in 1..n /\ (k + 1) - 1 = k
      OBVIOUS
  <2>2. h[1..k] \in J[k]
      BY <1>2
  <2> QED BY <2>1, <2>2
<1>3. Nat \subseteq T
  <2> HIDE DEF T
  <2> QED BY <1>1, <1>2, NumbersInduct
<1> QED BY <1>3

----------------------------------------------------------------------------
(* Recursion that goes down: from x to pred[x], whose rank is lower, until it *)
(* is in Z.                                                                   *)

Descending(S, Z, rank, pred) ==
    /\ rank \in [S -> Nat] /\ pred \in [S -> S]
    /\ \A x \in S \ Z : rank[pred[x]] < rank[x]

\* f is what the recursion says, up to rank n.
Recursion(f, S, Z, base, pred, F, rank, n) ==
    \A x \in S : rank[x] < n =>
        f[x] = IF x \in Z THEN base[x] ELSE F[<<x, f[pred[x]]>>]

\* Two functions that both are what the recursion says are the same.
LEMMA RecursionAgrees ==
    ASSUME NEW S, NEW Z, NEW rank, NEW pred, Descending(S, Z, rank, pred),
           NEW base, NEW F, NEW n \in Nat, NEW f, NEW g,
           Recursion(f, S, Z, base, pred, F, rank, n),
           Recursion(g, S, Z, base, pred, F, rank, n)
    PROVE  \A x \in S : rank[x] < n => f[x] = g[x]
<1> DEFINE T == {k \in Nat : k <= n => \A x \in S : rank[x] < k => f[x] = g[x]}
<1>1. 0 \in T
    BY DEF Descending
<1>2. ASSUME NEW k \in Nat, k \in T PROVE k + 1 \in T
  <2> SUFFICES ASSUME k + 1 <= n, NEW x \in S, rank[x] < k + 1 PROVE f[x] = g[x]
      OBVIOUS
  <2>1. rank[x] \in Nat /\ rank[x] < n /\ pred[x] \in S
      BY DEF Descending
  <2>2. x \in Z \/ rank[pred[x]] < k
      BY <2>1 DEF Descending
  <2>3. x \in Z \/ f[pred[x]] = g[pred[x]]
      BY <1>2, <2>1, <2>2
  <2> QED BY <2>1, <2>3 DEF Recursion
<1>3. Nat \subseteq T
  <2> HIDE DEF T
  <2> QED BY <1>1, <1>2, NumbersInduct
<1> QED BY <1>3

\* There are functions that are what the recursion says up to any rank.
LEMMA RecursionReaches ==
    ASSUME NEW S, NEW Z, NEW rank, NEW pred, Descending(S, Z, rank, pred),
           NEW B, NEW base \in [S -> B], NEW F \in [S \X B -> B], NEW n \in Nat
    PROVE  \E f \in [S -> B] : Recursion(f, S, Z, base, pred, F, rank, n)
<1> DEFINE T == {k \in Nat : \E f \in [S -> B] : Recursion(f, S, Z, base, pred, F, rank, k)}
<1>1. 0 \in T
  <2>1. Recursion(base, S, Z, base, pred, F, rank, 0)
      BY DEF Recursion, Descending
  <2> QED BY <2>1
<1>2. ASSUME NEW k \in Nat, k \in T PROVE k + 1 \in T
  <2>1. PICK f \in [S -> B] : Recursion(f, S, Z, base, pred, F, rank, k)
      BY <1>2
  <2> DEFINE g == [x \in S |-> IF x \in Z THEN base[x] ELSE F[<<x, f[pred[x]]>>]]
  <2>2. g \in [S -> B]
      BY DEF Descending
  <2>3. ASSUME NEW x \in S, rank[x] < k + 1
        PROVE  g[x] = IF x \in Z THEN base[x] ELSE F[<<x, g[pred[x]]>>]
    <3>1. CASE x \in Z
        BY <3>1
    <3>2. CASE x \notin Z
      <4>1. rank[x] \in Nat /\ pred[x] \in S /\ rank[pred[x]] \in Nat /\ rank[pred[x]] < rank[x]
          BY <3>2 DEF Descending
      <4>2. rank[pred[x]] < k
          BY <2>3, <4>1
      <4>3. g[pred[x]] = f[pred[x]]
          BY <2>1, <4>1, <4>2 DEF Recursion
      <4> QED BY <3>2, <4>3
    <3> QED BY <3>1, <3>2
  <2>4. Recursion(g, S, Z, base, pred, F, rank, k + 1)
    <3> HIDE DEF g
    <3> QED BY <2>3 DEF Recursion
  <2> HIDE DEF g
  <2>5. k + 1 \in Nat /\ \E e \in [S -> B] : Recursion(e, S, Z, base, pred, F, rank, k + 1)
      BY <2>2, <2>4
  <2> QED BY <2>5
<1>3. Nat \subseteq T
  <2> HIDE DEF T
  <2> QED BY <1>1, <1>2, NumbersInduct
<1> QED BY <1>3

\* What the recursion says for every element.
Recursive(f, S, Z, base, pred, F) ==
    \A x \in S : f[x] = IF x \in Z THEN base[x] ELSE F[<<x, f[pred[x]]>>]

\* What is defined by such a recursion exists.
LEMMA RecursionExists ==
    ASSUME NEW S, NEW Z, NEW rank, NEW pred, Descending(S, Z, rank, pred),
           NEW B, NEW base \in [S -> B], NEW F \in [S \X B -> B]
    PROVE  \E f \in [S -> B] : Recursive(f, S, Z, base, pred, F)
<1> DEFINE Reaching(n) == {f \in [S -> B] : Recursion(f, S, Z, base, pred, F, rank, n)}
           upTo == [n \in Nat |-> CHOOSE f \in Reaching(n) : TRUE]
           f == [x \in S |-> upTo[rank[x] + 1][x]]
<1>1. \A n \in Nat : upTo[n] \in Reaching(n)
    BY RecursionReaches
<1> HIDE DEF upTo
<1>2. \A n \in Nat : upTo[n] \in [S -> B] /\ Recursion(upTo[n], S, Z, base, pred, F, rank, n)
    BY <1>1
<1>3. \A x \in S : rank[x] \in Nat /\ rank[x] + 1 \in Nat /\ pred[x] \in S
    BY DEF Descending
<1>4. f \in [S -> B]
    BY <1>2, <1>3
<1>5. ASSUME NEW x \in S PROVE f[x] = IF x \in Z THEN base[x] ELSE F[<<x, f[pred[x]]>>]
  <2> DEFINE m == rank[x] + 1
  <2>1. f[x] = IF x \in Z THEN base[x] ELSE F[<<x, upTo[m][pred[x]]>>]
    <3>1. m \in Nat /\ rank[x] < m
        BY <1>3
    <3>2. Recursion(upTo[m], S, Z, base, pred, F, rank, m)
        BY <1>2, <3>1
    <3>3. f[x] = upTo[m][x]
        OBVIOUS
    <3> HIDE DEF m, f
    <3> QED BY <3>1, <3>2, <3>3 DEF Recursion
  <2>2. CASE x \in Z
      BY <2>1, <2>2
  <2>3. CASE x \notin Z
    <3> DEFINE y == pred[x]
               k == rank[y] + 1
    <3>1. y \in S /\ rank[y] \in Nat /\ rank[y] < rank[x] /\ rank[x] \in Nat
        BY <2>3 DEF Descending
    <3>2. k \in Nat /\ m \in Nat /\ k <= m /\ rank[y] < k
        BY <3>1
    <3>3. Recursion(upTo[m], S, Z, base, pred, F, rank, m)
        BY <1>2, <3>2
    <3>4. Recursion(upTo[k], S, Z, base, pred, F, rank, k)
        BY <1>2, <3>2
    <3>5. f[y] = upTo[k][y]
        BY <3>1
    <3> HIDE DEF k, m, y, f
    <3>6. Recursion(upTo[m], S, Z, base, pred, F, rank, k)
      <4>1. \A z \in S : rank[z] < k => rank[z] < m
          BY <1>3, <3>2
      <4> QED BY <3>3, <4>1 DEF Recursion
    <3>7. \A z \in S : rank[z] < k => upTo[m][z] = upTo[k][z]
      <4> DEFINE e == upTo[m]
                 g == upTo[k]
      <4>1. Recursion(e, S, Z, base, pred, F, rank, k) /\ Recursion(g, S, Z, base, pred, F, rank, k)
          BY <3>4, <3>6
      <4> HIDE DEF e, g
      <4>2. \A z \in S : rank[z] < k => e[z] = g[z]
          BY <3>2, <4>1, RecursionAgrees
      <4> QED BY <4>2 DEF e, g
    <3> QED BY <2>1, <2>3, <3>1, <3>2, <3>5, <3>7 DEF y
  <2> QED BY <2>2, <2>3
<1> HIDE DEF f
<1>6. Recursive(f, S, Z, base, pred, F)
    BY <1>5 DEF Recursive
<1> QED BY <1>4, <1>6

\* There is only one.
LEMMA RecursionUnique ==
    ASSUME NEW S, NEW Z, NEW rank, NEW pred, Descending(S, Z, rank, pred),
           NEW base, NEW F, NEW f, NEW g,
           Recursive(f, S, Z, base, pred, F), Recursive(g, S, Z, base, pred, F)
    PROVE  \A x \in S : f[x] = g[x]
<1> SUFFICES ASSUME NEW x \in S PROVE f[x] = g[x]
    OBVIOUS
<1> DEFINE n == rank[x] + 1
<1>1. n \in Nat /\ rank[x] < n
    BY DEF Descending
<1> HIDE DEF n
<1>2. Recursion(f, S, Z, base, pred, F, rank, n) /\ Recursion(g, S, Z, base, pred, F, rank, n)
    BY DEF Recursion, Recursive
<1> QED BY <1>1, <1>2, RecursionAgrees

----------------------------------------------------------------------------
(* Sums over sets of numbers that MapThenSumSet makes, item by item. *)

\* A set that has every element whose lower ones it has has them all.
LEMMA RankInduction ==
    ASSUME NEW S, NEW rank \in [S -> Nat], NEW P,
           \A x \in S : (\A y \in S : rank[y] < rank[x] => y \in P) => x \in P
    PROVE  S \subseteq P
<1> DEFINE T == {k \in Nat : \A x \in S : rank[x] < k => x \in P}
<1>1. 0 \in T
    OBVIOUS
<1>2. ASSUME NEW k \in Nat, k \in T PROVE k + 1 \in T
  <2>1. \A x \in S : rank[x] < k => x \in P
      BY <1>2
  <2>2. ASSUME NEW x \in S, rank[x] < k + 1 PROVE x \in P
    <3>1. \A y \in S : rank[y] < rank[x] => rank[y] < k
        BY <2>2
    <3> QED BY <2>1, <3>1
  <2> QED BY <2>2
<1>3. Nat \subseteq T
  <2> HIDE DEF T
  <2> QED BY <1>1, <1>2, NumbersInduct
<1>4. ASSUME NEW x \in S PROVE x \in P
  <2>1. rank[x] + 1 \in T /\ rank[x] < rank[x] + 1
      BY <1>3
  <2> QED BY <2>1
<1> QED BY <1>4

Some1(s) == CHOOSE x \in s : TRUE

Summing(h, f, S) ==
    h = [s \in SUBSET S |-> IF s = {} THEN 0 ELSE f[Some1(s)] + h[s \ {Some1(s)}]]

\* All the sums, over every subset of S.
Sums(h, f, S) ==
    /\ f \in [S -> Int] /\ h \in [SUBSET S -> Int]
    /\ Summing(h, f, S)

\* The sum of f over S.
SumOf(f, S) == (CHOOSE h : Summing(h, f, S))[S]

\* Taking an element away makes a set smaller.
LEMMA SmallerWithout ==
    ASSUME NEW S, IsFiniteSet(S), NEW s \in SUBSET S, NEW x \in s
    PROVE  /\ Cardinality(s) \in Nat /\ Cardinality(s \ {x}) \in Nat
           /\ Cardinality(s \ {x}) < Cardinality(s)
<1>1. IsFiniteSet(s)
    BY FS_Subset
<1>2. IsFiniteSet(s \ {x}) /\ Cardinality(s \ {x}) = Cardinality(s) - 1
    BY <1>1, FS_RemoveElement
<1> QED BY <1>1, <1>2, FS_CardinalityType

\* The sums over all subsets exist.
LEMMA SumExists ==
    ASSUME NEW S, IsFiniteSet(S), NEW f \in [S -> Int]
    PROVE  \E h \in [SUBSET S -> Int] : Summing(h, f, S)
<1> DEFINE D == SUBSET S
           rank == [s \in D |-> Cardinality(s)]
           pred == [s \in D |-> IF s = {} THEN s ELSE s \ {Some1(s)}]
           zero == [s \in D |-> 0]
           F == [p \in D \X Int |-> IF p[1] = {} THEN 0 ELSE f[Some1(p[1])] + p[2]]
<1>1. \A s \in D : s # {} => Some1(s) \in s
    BY DEF Some1
<1>2. Descending(D, {{}}, rank, pred)
  <2>1. \A s \in D : IsFiniteSet(s) /\ Cardinality(s) \in Nat
      BY FS_Subset, FS_CardinalityType
  <2>2. pred \in [D -> D]
      OBVIOUS
  <2>3. \A s \in D \ {{}} : Cardinality(s \ {Some1(s)}) < Cardinality(s)
      BY <1>1, SmallerWithout
  <2> QED BY <2>1, <2>2, <2>3 DEF Descending
<1>3. F \in [D \X Int -> Int]
  <2>1. \A s \in D : s # {} => f[Some1(s)] \in Int
      BY <1>1
  <2> QED BY <2>1
<1>4. \A s \in D : \A b \in Int : s # {} => F[<<s, b>>] = f[Some1(s)] + b
    OBVIOUS
<1>5. \A s \in D : zero[s] = 0 /\ (s # {} => pred[s] = s \ {Some1(s)} /\ pred[s] \in D)
    OBVIOUS
<1>6. zero \in [D -> Int]
    OBVIOUS
<1> HIDE DEF F, D, rank, pred, zero
<1>7. PICK h \in [D -> Int] : Recursive(h, D, {{}}, zero, pred, F)
    BY <1>2, <1>3, <1>6, RecursionExists
<1>8. ASSUME NEW s \in D
      PROVE  h[s] = IF s = {} THEN 0 ELSE f[Some1(s)] + h[s \ {Some1(s)}]
  <2>1. h[s] = IF s \in {{}} THEN zero[s] ELSE F[<<s, h[pred[s]]>>]
      BY <1>7 DEF Recursive
  <2>2. CASE s = {}
      BY <1>5, <2>1, <2>2
  <2>3. CASE s # {}
    <3>1. pred[s] = s \ {Some1(s)} /\ h[pred[s]] \in Int
        BY <1>5, <1>7, <2>3
    <3> QED BY <1>4, <2>1, <2>3, <3>1
  <2> QED BY <2>2, <2>3
<1>9. h = [s \in D |-> h[s]]
    BY <1>7
<1>10. Summing(h, f, S)
  <2>1. h = [s \in D |-> IF s = {} THEN 0 ELSE f[Some1(s)] + h[s \ {Some1(s)}]]
      BY <1>8, <1>9
  <2> QED BY <2>1 DEF Summing, D
<1> QED BY <1>7, <1>10 DEF D

\* A sum is made of any one of its items and the sum without it.
LEMMA SumTakes ==
    ASSUME NEW S, IsFiniteSet(S), NEW f, NEW h, Sums(h, f, S)
    PROVE  \A s \in SUBSET S : \A x \in s : h[s] = f[x] + h[s \ {x}]
<1> DEFINE D == SUBSET S
           rank == [s \in D |-> Cardinality(s)]
           P == {s \in D : \A x \in s : h[s] = f[x] + h[s \ {x}]}
<1>1. rank \in [D -> Nat]
    BY FS_Subset, FS_CardinalityType
<1>2. ASSUME NEW s \in D, \A t \in D : rank[t] < rank[s] => t \in P, NEW x \in s
      PROVE  h[s] = f[x] + h[s \ {x}]
  <2> DEFINE c == Some1(s)
  <2>1. c \in s
      BY DEF Some1
  <2>2. h[s] = f[c] + h[s \ {c}]
      BY DEF Sums, Summing
  <2> HIDE DEF c
  <2>3. CASE x = c
      BY <2>2, <2>3
  <2>4. CASE x # c
    <3> DEFINE t == s \ {c}
               u == s \ {x}
    <3>1. t \in D /\ u \in D /\ x \in t /\ c \in u
        BY <2>1, <2>4
    <3>2. rank[t] < rank[s] /\ rank[u] < rank[s]
        BY <2>1, <3>1, SmallerWithout
    <3>3. t \in P /\ u \in P
        BY <1>2, <3>1, <3>2
    <3>4. h[t] = f[x] + h[t \ {x}] /\ h[u] = f[c] + h[u \ {c}]
        BY <3>1, <3>3
    <3>5. t \ {x} = u \ {c} /\ u \ {c} \in D
        OBVIOUS
    <3>6. f[x] \in Int /\ f[c] \in Int /\ h[u \ {c}] \in Int
        BY <2>1, <3>5 DEF Sums
    <3>7. h[s] = f[c] + h[t]
        BY <2>2
    <3>8. h[t] = f[x] + h[u \ {c}] /\ h[u] = f[c] + h[u \ {c}]
        BY <3>4, <3>5
    <3> HIDE DEF t, u
    <3>9. h[s] = f[x] + h[u]
        BY <3>6, <3>7, <3>8
    <3> QED BY <3>9 DEF u
  <2> QED BY <2>3, <2>4
<1>3. \A s \in D : (\A t \in D : rank[t] < rank[s] => t \in P) => s \in P
  <2> HIDE DEF rank
  <2> QED BY <1>2
<1>4. D \subseteq P
  <2> HIDE DEF D, rank, P
  <2> QED BY <1>1, <1>3, RankInduction
<1> QED BY <1>4

\* Sums of the same items are the same.
LEMMA SumAgrees ==
    ASSUME NEW S, IsFiniteSet(S), NEW f, NEW h, Sums(h, f, S),
           NEW R, IsFiniteSet(R), NEW e, NEW g, Sums(g, e, R)
    PROVE  \A s \in SUBSET (S \cap R) : (\A x \in s : f[x] = e[x]) => h[s] = g[s]
<1> DEFINE D == SUBSET (S \cap R)
           rank == [s \in D |-> Cardinality(s)]
           P == {s \in D : (\A x \in s : f[x] = e[x]) => h[s] = g[s]}
<1>1. rank \in [D -> Nat]
    BY FS_Subset, FS_CardinalityType
<1>2. ASSUME NEW s \in D, \A t \in D : rank[t] < rank[s] => t \in P, \A x \in s : f[x] = e[x]
      PROVE  h[s] = g[s]
  <2> DEFINE c == Some1(s)
  <2>1. CASE s = {}
      BY <2>1 DEF Sums, Summing
  <2>2. CASE s # {}
    <3>1. c \in s /\ s \in SUBSET S /\ s \in SUBSET R
        BY <2>2 DEF Some1
    <3>2. h[s] = f[c] + h[s \ {c}] /\ g[s] = e[c] + g[s \ {c}]
        BY <2>2, <3>1 DEF Sums, Summing
    <3> HIDE DEF c
    <3>3. s \ {c} \in D /\ rank[s \ {c}] < rank[s]
        BY <3>1, SmallerWithout
    <3>4. h[s \ {c}] = g[s \ {c}]
        BY <1>2, <3>3
    <3> QED BY <1>2, <3>1, <3>2, <3>4
  <2> QED BY <2>1, <2>2
<1>3. \A s \in D : (\A t \in D : rank[t] < rank[s] => t \in P) => s \in P
  <2> HIDE DEF rank
  <2> QED BY <1>2
<1>4. D \subseteq P
  <2> HIDE DEF D, rank, P
  <2> QED BY <1>1, <1>3, RankInduction
<1> QED BY <1>4

\* What adds the items up in any order gives their sum.
LEMMA SummingSums ==
    ASSUME NEW S, IsFiniteSet(S), NEW f \in [S -> Int], NEW g, Summing(g, f, S)
    PROVE  \E h : Sums(h, f, S) /\ SumOf(f, S) = h[S] /\ g[S] = h[S]
<1> DEFINE D == SUBSET S
           rank == [s \in D |-> Cardinality(s)]
           chosen == CHOOSE h : Summing(h, f, S)
<1>1. PICK h \in [D -> Int] : Summing(h, f, S)
    BY SumExists
<1>2. Summing(chosen, f, S) /\ SumOf(f, S) = chosen[S]
    BY <1>1 DEF SumOf
<1> HIDE DEF chosen
<1>3. rank \in [D -> Nat]
    BY FS_Subset, FS_CardinalityType
<1>4. ASSUME NEW k, Summing(k, f, S) PROVE k[S] = h[S]
  <2> DEFINE P == {s \in D : k[s] = h[s]}
  <2>1. ASSUME NEW s \in D, \A t \in D : rank[t] < rank[s] => t \in P PROVE k[s] = h[s]
    <3> DEFINE c == Some1(s)
    <3>1. CASE s = {}
        BY <1>1, <1>4, <3>1 DEF Summing
    <3>2. CASE s # {}
      <4>1. c \in s
          BY <3>2 DEF Some1
      <4>2. h[s] = f[c] + h[s \ {c}] /\ k[s] = f[c] + k[s \ {c}]
          BY <1>1, <1>4, <3>2 DEF Summing
      <4> HIDE DEF c
      <4>3. s \ {c} \in D /\ rank[s \ {c}] < rank[s]
          BY <4>1, SmallerWithout
      <4> QED BY <2>1, <4>2, <4>3
    <3> QED BY <3>1, <3>2
  <2>2. \A s \in D : (\A t \in D : rank[t] < rank[s] => t \in P) => s \in P
    <3> HIDE DEF rank
    <3> QED BY <2>1
  <2>3. D \subseteq P
    <3> HIDE DEF D, rank, P
    <3> QED BY <1>3, <2>2, RankInduction
  <2> QED BY <2>3
<1>5. chosen[S] = h[S] /\ g[S] = h[S]
    BY <1>2, <1>4
<1> QED BY <1>1, <1>2, <1>5 DEF Sums

\* The sum is one of those sums.
LEMMA SumIsSumming ==
    ASSUME NEW S, IsFiniteSet(S), NEW f \in [S -> Int]
    PROVE  \E h : Sums(h, f, S) /\ SumOf(f, S) = h[S]
<1>1. PICK g : Summing(g, f, S)
    BY SumExists
<1> QED BY <1>1, SummingSums

\* A sum of integers is an integer.
LEMMA SumTyped ==
    ASSUME NEW S, IsFiniteSet(S), NEW f \in [S -> Int]
    PROVE  SumOf(f, S) \in Int
<1>1. PICK h : Sums(h, f, S) /\ SumOf(f, S) = h[S]
    BY SumIsSumming
<1>2. S \in SUBSET S
    OBVIOUS
<1> QED BY <1>1, <1>2 DEF Sums

\* A sum of natural numbers is a natural number.
LEMMA SumNatural ==
    ASSUME NEW S, IsFiniteSet(S), NEW f \in [S -> Nat]
    PROVE  SumOf(f, S) \in Nat
<1>1. f \in [S -> Int]
    OBVIOUS
<1>2. PICK h : Sums(h, f, S) /\ SumOf(f, S) = h[S]
    BY <1>1, SumIsSumming
<1> DEFINE D == SUBSET S
           rank == [s \in D |-> Cardinality(s)]
           P == {s \in D : h[s] \in Nat}
<1>3. rank \in [D -> Nat]
    BY FS_Subset, FS_CardinalityType
<1>4. ASSUME NEW s \in D, \A t \in D : rank[t] < rank[s] => t \in P PROVE h[s] \in Nat
  <2> DEFINE c == Some1(s)
  <2>1. CASE s = {}
      BY <1>2, <2>1 DEF Sums, Summing
  <2>2. CASE s # {}
    <3>1. c \in s /\ f[c] \in Nat
        BY <2>2 DEF Some1
    <3>2. h[s] = f[c] + h[s \ {c}]
        BY <1>2, <2>2 DEF Sums, Summing
    <3> HIDE DEF c
    <3>3. s \ {c} \in D /\ rank[s \ {c}] < rank[s]
        BY <3>1, SmallerWithout
    <3>4. h[s \ {c}] \in Nat
        BY <1>4, <3>3
    <3> QED BY <3>1, <3>2, <3>4
  <2> QED BY <2>1, <2>2
<1>5. \A s \in D : (\A t \in D : rank[t] < rank[s] => t \in P) => s \in P
  <2> HIDE DEF rank
  <2> QED BY <1>4
<1>6. D \subseteq P
  <2> HIDE DEF D, rank, P
  <2> QED BY <1>3, <1>5, RankInduction
<1> QED BY <1>2, <1>6

\* f and g are the same but for one item.
DiffersAt(f, g, S, a) ==
    /\ f \in [S -> Int] /\ g \in [S -> Int] /\ a \in S
    /\ \A x \in S : x # a => g[x] = f[x]

\* When one item changes, so does the sum.
LEMMA SumMoves ==
    ASSUME NEW S, IsFiniteSet(S), NEW f, NEW g, NEW a, DiffersAt(f, g, S, a)
    PROVE  SumOf(g, S) = SumOf(f, S) + g[a] - f[a]
<1>. USE DEF DiffersAt
<1>1. PICK h : Sums(h, f, S) /\ SumOf(f, S) = h[S]
    BY SumIsSumming
<1>2. PICK k : Sums(k, g, S) /\ SumOf(g, S) = k[S]
    BY SumIsSumming
<1>3. /\ \A s \in SUBSET S : \A x \in s : h[s] = f[x] + h[s \ {x}]
      /\ \A s \in SUBSET S : \A x \in s : k[s] = g[x] + k[s \ {x}]
    BY <1>1, <1>2, SumTakes
<1> DEFINE rest == S \ {a}
<1>4. S \in SUBSET S /\ rest \in SUBSET S /\ rest \in SUBSET (S \cap S)
      /\ \A x \in rest : f[x] = g[x]
    OBVIOUS
<1>5. h[S] = f[a] + h[rest] /\ k[S] = g[a] + k[rest]
    BY <1>3, <1>4
<1> HIDE DEF rest
<1>6. \A s \in SUBSET (S \cap S) : (\A x \in s : f[x] = g[x]) => h[s] = k[s]
    BY <1>1, <1>2, SumAgrees
<1>7. h[rest] = k[rest]
    BY <1>4, <1>6
<1>8. f[a] \in Int /\ g[a] \in Int /\ h[rest] \in Int
    BY <1>1, <1>4 DEF Sums
<1> QED BY <1>1, <1>2, <1>5, <1>7, <1>8
=============================================================================
