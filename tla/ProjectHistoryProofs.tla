------------------------ MODULE ProjectHistoryProofs ------------------------
(***************************************************************************)
(* What the delta tree of ProjectHistory promises, for any sources, sizes, *)
(* limits and numbers of snapshots.                                        *)
(*                                                                         *)
(* The inductive invariant HistoryInv says that the deltas form a tree     *)
(* with the current snapshot at its root: there is a rank that grows with  *)
(* every base, so that each source can be put together and every walk to   *)
(* the root ends.  A walk is followed step by step: each step leaves a     *)
(* tree that stands for the same sources and costs the same bytes (Moved), *)
(* so that reroot, add_child and prune all leave a coherent history, and   *)
(* the document a visit writes is known before the visit.                  *)
(*                                                                         *)
(* Recursion over the tree is handled with the inductions of FoldTheorems. *)
(* The theorems rest on HistoryAssumption, VersionAssumption and           *)
(* FirstAssumption of ProjectHistory.                                      *)
(***************************************************************************)
EXTENDS ProjectHistory, FoldTheorems, FiniteSetTheorems, SequenceTheorems

----------------------------------------------------------------------------
(* Deltas *)

Delta == [prefix : Nat, suffix : Nat, replacement : Source,
          reverse_replacement_bytes : Nat]

\* A delta that leads from one source to another, and knows the size of its reverse.
Joins(delta, base, target) ==
    /\ InBounds(base, delta)
    /\ apply_snapshot_delta(base, delta) = target
    /\ delta.reverse_replacement_bytes
          = serialized_string_bytes(Between(base, delta.prefix, delta.suffix))

\* A set of numbers that is bounded has a largest element, which Max finds.
LEMMA MaxOfBounded ==
    ASSUME NEW n \in Nat, NEW s \in SUBSET (0..n), s # {}
    PROVE  Max(s) \in s /\ \A y \in s : y <= Max(s)
<1> DEFINE Distances == {n - y : y \in s}
<1>1. Distances \subseteq Nat /\ Distances # {}
  <2>1. \A y \in s : y \in 0..n /\ n - y \in Nat
      OBVIOUS
  <2>2. PICK y \in s : TRUE
      OBVIOUS
  <2> QED BY <2>1, <2>2
<1>2. PICK d \in Distances : \A e \in Distances : d <= e
    BY <1>1, LeastNumber
<1>3. PICK x \in s : d = n - x
    BY <1>2
<1>4. \A y \in s : n - x <= n - y
    BY <1>2, <1>3
<1>5. \A y \in s : x >= y
    BY <1>4
<1>6. \E z \in s : \A y \in s : z >= y
    BY <1>3, <1>5
<1>7. Max(s) \in s /\ \A y \in s : Max(s) >= y
    BY <1>6 DEF Max
<1> QED BY <1>7

\* What is between a prefix and a suffix that fit.
LEMMA BetweenElements ==
    ASSUME NEW source \in Source, NEW prefix \in Nat, NEW suffix \in Nat,
           prefix + suffix <= Len(source)
    PROVE  /\ Between(source, prefix, suffix) \in Source
           /\ Len(Between(source, prefix, suffix)) = Len(source) - prefix - suffix
           /\ \A i \in 1..(Len(source) - prefix - suffix) :
                 Between(source, prefix, suffix)[i] = source[prefix + i]
<1>1. /\ Len(source) \in Nat
      /\ \A i \in 1..Len(source) : source[i] \in Character
    BY LenProperties, ElementOfSeq DEF Source
<1> DEFINE m == prefix + 1
           n == Len(source) - suffix
<1>2. m \in Int /\ n \in Int /\ \A i \in m..n : source[i] \in Character
    BY <1>1
<1> DEFINE c == Len(source) - prefix - suffix
<1>3. c = n - m + 1 /\ \A i \in 1..c : m + i - 1 = prefix + i
    BY <1>1
<1>4. ~(m <= n) => c = 0
    BY <1>1
<1> HIDE DEF m, n, c
<1>5. /\ SubSeq(source, m, n) \in Seq(Character)
      /\ Len(SubSeq(source, m, n)) = IF m <= n THEN n - m + 1 ELSE 0
      /\ \A i \in 1 .. n - m + 1 : SubSeq(source, m, n)[i] = source[m + i - 1]
    BY <1>2, SubSeqProperties
<1>6. Between(source, prefix, suffix) = SubSeq(source, m, n)
    BY DEF Between, m, n
<1>7. Len(SubSeq(source, m, n)) = c
    BY <1>3, <1>4, <1>5
<1>8. \A i \in 1..c : SubSeq(source, m, n)[i] = source[prefix + i]
    BY <1>3, <1>5
<1> QED BY <1>5, <1>6, <1>7, <1>8 DEF Source, c

\* What applying a delta makes, character by character.
LEMMA AppliedElements ==
    ASSUME NEW base \in Source, NEW delta \in Delta, InBounds(base, delta)
    PROVE  LET target == apply_snapshot_delta(base, delta)
               middle == delta.prefix + Len(delta.replacement)
           IN /\ target \in Source
              /\ Len(target) = middle + delta.suffix
              /\ \A i \in 1..delta.prefix : target[i] = base[i]
              /\ \A i \in 1..Len(delta.replacement) :
                    target[delta.prefix + i] = delta.replacement[i]
              /\ \A i \in 1..delta.suffix :
                    target[middle + i] = base[Len(base) - delta.suffix + i]
<1> DEFINE p == delta.prefix
           x == delta.suffix
           r == delta.replacement
           n == Len(base)
           head == SubSeq(base, 1, p)
           tail == SubSeq(base, n - x + 1, n)
<1>1. p \in Nat /\ x \in Nat /\ r \in Seq(Character) /\ Len(r) \in Nat /\ p + x <= n
    BY LenProperties DEF Delta, InBounds, Source
<1>2. n \in Nat /\ base \in Seq(Character) /\ \A i \in 1..n : base[i] \in Character
    BY LenProperties, ElementOfSeq DEF Source
<1> HIDE DEF p, x, r, n
<1>3. /\ head \in Seq(Character) /\ Len(head) = p
      /\ \A i \in 1..p : head[i] = base[i]
  <2>1. \A i \in 1..p : base[i] \in Character
      BY <1>1, <1>2
  <2>2. /\ head \in Seq(Character) /\ Len(head) = IF 1 <= p THEN p - 1 + 1 ELSE 0
        /\ \A i \in 1 .. p - 1 + 1 : head[i] = base[1 + i - 1]
      BY <1>1, <2>1, SubSeqProperties
  <2> QED BY <1>1, <2>2
<1>4. /\ tail \in Seq(Character) /\ Len(tail) = x
      /\ \A i \in 1..x : tail[i] = base[n - x + i]
  <2> DEFINE a == n - x + 1
  <2>1. a \in Int /\ \A i \in a..n : base[i] \in Character
      BY <1>1, <1>2
  <2>2. n - a + 1 = x /\ (~(a <= n) => x = 0) /\ \A i \in 1..x : a + i - 1 = n - x + i
      BY <1>1, <1>2
  <2> HIDE DEF a
  <2>3. /\ SubSeq(base, a, n) \in Seq(Character)
        /\ Len(SubSeq(base, a, n)) = IF a <= n THEN n - a + 1 ELSE 0
        /\ \A i \in 1 .. n - a + 1 : SubSeq(base, a, n)[i] = base[a + i - 1]
      BY <1>2, <2>1, SubSeqProperties
  <2>4. tail = SubSeq(base, a, n)
      BY DEF a
  <2> QED BY <2>2, <2>3, <2>4
<1> HIDE DEF head, tail
<1> DEFINE front == head \o r
           target == front \o tail
<1>5. /\ front \in Seq(Character) /\ Len(front) = p + Len(r)
      /\ \A i \in 1..(p + Len(r)) : front[i] = IF i <= p THEN head[i] ELSE r[i - p]
    BY <1>1, <1>3, ConcatProperties
<1>6. /\ \A i \in 1..p : front[i] = base[i]
      /\ \A i \in 1..Len(r) : front[p + i] = r[i]
  <2>1. \A i \in 1..Len(r) : p + i \in 1..(p + Len(r)) /\ ~(p + i <= p) /\ (p + i) - p = i
      BY <1>1
  <2>2. \A i \in 1..p : i \in 1..(p + Len(r)) /\ i <= p
      BY <1>1
  <2> HIDE DEF front, target
  <2>3. \A i \in 1..p : front[i] = base[i]
      BY <1>3, <1>5, <2>2
  <2>4. \A i \in 1..Len(r) : front[p + i] = r[(p + i) - p]
      BY <1>5, <2>1
  <2> QED BY <2>1, <2>3, <2>4
<1> HIDE DEF front
<1>7. /\ target \in Seq(Character) /\ Len(target) = p + Len(r) + x
      /\ \A i \in 1..(p + Len(r) + x) :
            target[i] = IF i <= p + Len(r) THEN front[i] ELSE tail[i - (p + Len(r))]
    BY <1>4, <1>5, ConcatProperties
<1>8. apply_snapshot_delta(base, delta) = target
    BY DEF apply_snapshot_delta, target, front, head, tail, p, x, r, n
<1> HIDE DEF target
<1>9. /\ \A i \in 1..p : target[i] = base[i]
      /\ \A i \in 1..Len(r) : target[p + i] = r[i]
  <2>1. \A i \in 1..Len(r) : p + i \in 1..(p + Len(r) + x) /\ p + i <= p + Len(r)
      BY <1>1
  <2>2. \A i \in 1..p : i \in 1..(p + Len(r) + x) /\ i <= p + Len(r)
      BY <1>1
  <2> QED BY <1>6, <1>7, <2>1, <2>2
<1>10. \A i \in 1..x : target[p + Len(r) + i] = base[n - x + i]
  <2>1. \A i \in 1..x : LET j == p + Len(r) + i
                        IN j \in 1..(p + Len(r) + x) /\ ~(j <= p + Len(r)) /\ j - (p + Len(r)) = i
      BY <1>1
  <2> QED BY <1>4, <1>7, <2>1
<1> QED BY <1>7, <1>8, <1>9, <1>10 DEF p, x, r, n, Source

\* What common_prefix and common_suffix find.
LEMMA CommonEnds ==
    ASSUME NEW base \in Source, NEW target \in Source
    PROVE  LET prefix == common_prefix(base, target)
               suffix == common_suffix(base, target, prefix)
           IN /\ prefix \in Nat /\ suffix \in Nat
              /\ prefix + suffix <= Len(base) /\ prefix + suffix <= Len(target)
              /\ \A i \in 1..prefix : base[i] = target[i]
              /\ \A i \in 1..suffix :
                    base[Len(base) - i + 1] = target[Len(target) - i + 1]
<1>1. Len(base) \in Nat /\ Len(target) \in Nat
    BY LenProperties DEF Source
<1> DEFINE short == Shorter(base, target)
           prefix == common_prefix(base, target)
           suffix == common_suffix(base, target, prefix)
           P == {n \in 0..short : \A i \in 1..n : base[i] = target[i]}
<1>2. short \in Nat /\ short <= Len(base) /\ short <= Len(target)
    BY <1>1 DEF Shorter
<1>3. prefix = Max(P)
    BY DEF common_prefix
<1> HIDE DEF short, prefix
<1>4. 0 \in P /\ P \subseteq 0..short
    BY <1>2
<1>5. prefix \in P
  <2> HIDE DEF P
  <2> QED BY <1>2, <1>3, <1>4, MaxOfBounded
<1>6. prefix \in 0..short /\ \A i \in 1..prefix : base[i] = target[i]
    BY <1>5
<1> DEFINE rest == short - prefix
           S == {n \in 0..rest : \A i \in 1..n :
                    base[Len(base) - i + 1] = target[Len(target) - i + 1]}
<1>7. rest \in Nat /\ prefix + rest = short
    BY <1>2, <1>6
<1>8. suffix = Max(S)
    BY DEF common_suffix, short
<1> HIDE DEF rest, suffix, P
<1>9. 0 \in S /\ S \subseteq 0..rest
    BY <1>7
<1>10. suffix \in S
  <2> HIDE DEF S
  <2> QED BY <1>7, <1>8, <1>9, MaxOfBounded
<1>11. suffix \in 0..rest /\ \A i \in 1..suffix :
          base[Len(base) - i + 1] = target[Len(target) - i + 1]
    BY <1>10
<1>12. prefix \in Nat /\ suffix \in Nat /\ prefix + suffix <= short
    BY <1>2, <1>6, <1>7, <1>11
<1>13. prefix + suffix <= Len(base) /\ prefix + suffix <= Len(target)
    BY <1>1, <1>2, <1>12
<1> QED BY <1>6, <1>11, <1>12, <1>13 DEF prefix, suffix

\* The size of a source in JSON: its quotes, its characters, and a backslash for
\* each that is escaped.
LEMMA SerializedSize ==
    ASSUME NEW source \in Source
    PROVE  /\ serialized_string_bytes(source) \in Nat
           /\ Len(source) + 2 <= serialized_string_bytes(source)
           /\ serialized_string_bytes(source) <= 2 * Len(source) + 2
<1>1. Len(source) \in Nat /\ DOMAIN source = 1..Len(source)
    BY LenProperties DEF Source
<1> DEFINE n == Len(source)
           marked == {i \in 1..n : source[i] \in Escaped}
<1>2. IsFiniteSet(1..n) /\ Cardinality(1..n) = n
  <2>1. \A k \in Nat : IsFiniteSet(1..k) /\ Cardinality(1..k) = k
      BY FS_Interval
  <2> QED BY <1>1, <2>1
<1>3. marked \subseteq 1..n
    OBVIOUS
<1>4. IsFiniteSet(marked) /\ Cardinality(marked) <= Cardinality(1..n) /\ Cardinality(marked) \in Nat
  <2> HIDE DEF marked
  <2>1. IsFiniteSet(marked) /\ Cardinality(marked) <= Cardinality(1..n)
      BY <1>2, <1>3, FS_Subset
  <2> QED BY <2>1, FS_CardinalityType
<1>5. serialized_string_bytes(source) = n + 2 + Cardinality(marked)
    BY <1>1 DEF serialized_string_bytes
<1> HIDE DEF marked
<1> QED BY <1>1, <1>2, <1>4, <1>5

\* The delta that is made of two sources leads from one to the other.
LEMMA DeltaJoins ==
    ASSUME NEW base \in Source, NEW target \in Source
    PROVE  LET delta == snapshot_delta(base, target)
           IN delta \in Delta /\ Joins(delta, base, target)
<1> DEFINE prefix == common_prefix(base, target)
           suffix == common_suffix(base, target, prefix)
           middle == Between(target, prefix, suffix)
           delta == snapshot_delta(base, target)
           applied == apply_snapshot_delta(base, delta)
<1>1. /\ prefix \in Nat /\ suffix \in Nat
      /\ prefix + suffix <= Len(base) /\ prefix + suffix <= Len(target)
      /\ \A i \in 1..prefix : base[i] = target[i]
      /\ \A i \in 1..suffix : base[Len(base) - i + 1] = target[Len(target) - i + 1]
    BY CommonEnds
<1>2. /\ delta.prefix = prefix /\ delta.suffix = suffix /\ delta.replacement = middle
      /\ delta.reverse_replacement_bytes = serialized_string_bytes(Between(base, prefix, suffix))
      /\ delta = [prefix |-> delta.prefix, suffix |-> delta.suffix,
                  replacement |-> delta.replacement,
                  reverse_replacement_bytes |-> delta.reverse_replacement_bytes]
    BY DEF snapshot_delta
<1> HIDE DEF prefix, suffix, middle, delta
<1>3. Len(base) \in Nat /\ Len(target) \in Nat
    BY LenProperties DEF Source
<1>4. /\ middle \in Source /\ Len(middle) = Len(target) - prefix - suffix
      /\ \A i \in 1..(Len(target) - prefix - suffix) : middle[i] = target[prefix + i]
    BY <1>1, BetweenElements DEF middle
<1>5. serialized_string_bytes(Between(base, prefix, suffix)) \in Nat
    BY <1>1, BetweenElements, SerializedSize
<1>6. delta \in Delta /\ InBounds(base, delta)
    BY <1>1, <1>2, <1>4, <1>5 DEF Delta, InBounds
<1>7. /\ applied \in Source /\ Len(applied) = Len(target)
      /\ \A i \in 1..prefix : applied[i] = base[i]
      /\ \A i \in 1..Len(middle) : applied[prefix + i] = middle[i]
      /\ \A i \in 1..suffix : applied[Len(target) - suffix + i] = base[Len(base) - suffix + i]
  <2>1. prefix + Len(middle) = Len(target) - suffix /\ prefix + Len(middle) + suffix = Len(target)
      BY <1>1, <1>3, <1>4
  <2> QED BY <1>2, <1>6, <2>1, AppliedElements
<1> HIDE DEF applied
<1>8. ASSUME NEW i \in 1..Len(target) PROVE applied[i] = target[i]
  <2>1. CASE i <= prefix
      BY <1>1, <1>7, <2>1
  <2>2. CASE i > prefix /\ i <= Len(target) - suffix
    <3> DEFINE j == i - prefix
    <3>1. j \in 1..Len(middle) /\ prefix + j = i /\ j \in 1..(Len(target) - prefix - suffix)
        BY <1>1, <1>3, <1>4, <2>2
    <3> HIDE DEF j
    <3> QED BY <1>4, <1>7, <3>1
  <2>3. CASE i > Len(target) - suffix
    <3> DEFINE j == i - (Len(target) - suffix)
               k == suffix - j + 1
    <3>1. /\ j \in 1..suffix /\ Len(target) - suffix + j = i
          /\ k \in 1..suffix /\ Len(base) - k + 1 = Len(base) - suffix + j
          /\ Len(target) - k + 1 = i
        BY <1>1, <1>3, <2>3
    <3> HIDE DEF j, k
    <3>2. applied[i] = base[Len(base) - suffix + j]
        BY <1>7, <3>1
    <3>3. target[i] = base[Len(base) - suffix + j]
        BY <1>1, <3>1
    <3> QED BY <3>2, <3>3
  <2> QED BY <1>1, <1>3, <2>1, <2>2, <2>3
<1>9. applied = target
    BY <1>7, <1>8, SeqEqual DEF Source
<1> QED BY <1>2, <1>6, <1>9 DEF Joins, delta, applied

\* A delta that leads from one source to another is turned around to one that leads back.
LEMMA ReverseJoins ==
    ASSUME NEW base \in Source, NEW target \in Source, NEW delta \in Delta,
           Joins(delta, base, target)
    PROVE  LET reverse == reverse_delta(base, delta)
           IN /\ reverse \in Delta /\ Joins(reverse, target, base)
              /\ reverse.prefix = delta.prefix /\ reverse.suffix = delta.suffix
              /\ serialized_string_bytes(reverse.replacement) = delta.reverse_replacement_bytes
              /\ reverse.reverse_replacement_bytes = serialized_string_bytes(delta.replacement)
<1> DEFINE p == delta.prefix
           x == delta.suffix
           r == delta.replacement
           gone == Between(base, p, x)
           reverse == reverse_delta(base, delta)
           back == apply_snapshot_delta(target, reverse)
<1>1. /\ p \in Nat /\ x \in Nat /\ r \in Source /\ Len(r) \in Nat /\ Len(base) \in Nat
      /\ Len(target) \in Nat /\ p + x <= Len(base)
    BY LenProperties DEF Delta, Source, Joins, InBounds
<1>2. /\ Len(target) = p + Len(r) + x
      /\ \A i \in 1..p : target[i] = base[i]
      /\ \A i \in 1..Len(r) : target[p + i] = r[i]
      /\ \A i \in 1..x : target[p + Len(r) + i] = base[Len(base) - x + i]
    BY AppliedElements DEF Joins
<1>3. /\ reverse.prefix = p /\ reverse.suffix = x /\ reverse.replacement = gone
      /\ reverse.reverse_replacement_bytes = serialized_string_bytes(r)
      /\ reverse = [prefix |-> p, suffix |-> x, replacement |-> gone,
                    reverse_replacement_bytes |-> serialized_string_bytes(r)]
  <2> DEFINE first == [delta EXCEPT !.replacement = gone]
  <2>1. first = [prefix |-> p, suffix |-> x, replacement |-> gone,
                 reverse_replacement_bytes |-> delta.reverse_replacement_bytes]
      BY DEF Delta
  <2>2. reverse = [first EXCEPT !.reverse_replacement_bytes = serialized_string_bytes(r)]
      BY DEF reverse_delta
  <2> HIDE DEF first, reverse, gone, p, x, r
  <2>3. reverse = [prefix |-> p, suffix |-> x, replacement |-> gone,
                   reverse_replacement_bytes |-> serialized_string_bytes(r)]
      BY <2>1, <2>2
  <2> QED BY <2>3
<1> HIDE DEF p, x, r, gone, reverse
<1>4. /\ gone \in Source /\ Len(gone) = Len(base) - p - x
      /\ \A i \in 1..(Len(base) - p - x) : gone[i] = base[p + i]
    BY <1>1, BetweenElements DEF gone
<1>5. serialized_string_bytes(r) \in Nat
    BY <1>1, SerializedSize
<1>6. reverse \in Delta /\ InBounds(target, reverse)
    BY <1>1, <1>2, <1>3, <1>4, <1>5 DEF Delta, InBounds
<1>7. /\ back \in Source /\ Len(back) = Len(base)
      /\ \A i \in 1..p : back[i] = target[i]
      /\ \A i \in 1..Len(gone) : back[p + i] = gone[i]
      /\ \A i \in 1..x : back[Len(base) - x + i] = target[Len(target) - x + i]
  <2>1. p + Len(gone) = Len(base) - x /\ p + Len(gone) + x = Len(base)
      BY <1>1, <1>4
  <2> QED BY <1>3, <1>6, <2>1, AppliedElements
<1> HIDE DEF back
<1>8. ASSUME NEW i \in 1..Len(base) PROVE back[i] = base[i]
  <2>1. CASE i <= p
      BY <1>1, <1>2, <1>7, <2>1
  <2>2. CASE i > p /\ i <= Len(base) - x
    <3> DEFINE j == i - p
    <3>1. j \in 1..Len(gone) /\ p + j = i /\ j \in 1..(Len(base) - p - x)
        BY <1>1, <1>4, <2>2
    <3> HIDE DEF j
    <3> QED BY <1>4, <1>7, <3>1
  <2>3. CASE i > Len(base) - x
    <3> DEFINE j == i - (Len(base) - x)
    <3>1. j \in 1..x /\ Len(base) - x + j = i /\ Len(target) - x + j = p + Len(r) + j
        BY <1>1, <1>2, <2>3
    <3> HIDE DEF j
    <3> QED BY <1>2, <1>7, <3>1
  <2> QED BY <1>1, <2>1, <2>2, <2>3
<1>9. back = base
    BY <1>7, <1>8, SeqEqual DEF Source
<1>10. Between(target, p, x) = r
  <2>1. /\ Between(target, p, x) \in Source
        /\ Len(Between(target, p, x)) = Len(r)
        /\ \A i \in 1..Len(r) : Between(target, p, x)[i] = target[p + i]
    <3>1. p + x <= Len(target) /\ Len(target) - p - x = Len(r)
        BY <1>1, <1>2
    <3>2. /\ Between(target, p, x) \in Source
          /\ Len(Between(target, p, x)) = Len(target) - p - x
          /\ \A i \in 1..(Len(target) - p - x) : Between(target, p, x)[i] = target[p + i]
        BY <1>1, <3>1, BetweenElements
    <3> QED BY <3>1, <3>2
  <2>2. \A i \in 1..Len(r) : Between(target, p, x)[i] = r[i]
      BY <1>2, <2>1
  <2> QED BY <1>1, <2>1, <2>2, SeqEqual DEF Source
<1>11. Joins(reverse, target, base)
    BY <1>3, <1>6, <1>9, <1>10 DEF Joins, back
<1>12. serialized_string_bytes(gone) = delta.reverse_replacement_bytes
    BY DEF Joins, gone, p, x
<1> QED BY <1>3, <1>6, <1>11, <1>12 DEF reverse, p, x, r

----------------------------------------------------------------------------
(* The tree *)

Snapshot == [base : Nat, delta : Delta, source_bytes : Nat, checksum : Source, version : Nat]

\* The snapshots have these sources, and every delta leads from the source of a
\* snapshot nearer to the root, which is the current one.
Tree(h, sources, rank) ==
    /\ h.snapshots \in Seq(Snapshot) /\ h.current \in Indices(h)
    /\ sources \in [Indices(h) -> Source] /\ rank \in [Indices(h) -> Nat]
    /\ h.snapshots[h.current].base = NoBase
    /\ \A i \in Indices(h) :
          Matches(h.snapshots[i], sources[i]) /\ Len(sources[i]) <= MAX_PROJECT_BYTES
    /\ \A i \in Indices(h) : i # h.current =>
          LET base == h.snapshots[i].base IN
          /\ base \in Indices(h) /\ rank[base] < rank[i]
          /\ Joins(h.snapshots[i].delta, sources[base], sources[i])

\* The two say the same of their source.
Same(r, s) ==
    r.source_bytes = s.source_bytes /\ r.checksum = s.checksum /\ r.version = s.version

Stored(r, s, base, delta) ==
    r \in Snapshot /\ r.base = base /\ r.delta = delta /\ Same(r, s)

\* A snapshot that is stored in another way keeps what it says of its source.
LEMMA RebasedFields ==
    ASSUME NEW s \in Snapshot, NEW base \in Nat, NEW delta \in Delta
    PROVE  Stored(Rebased(s, base, delta), s, base, delta)
<1> DEFINE first == [s EXCEPT !.base = base]
           r == Rebased(s, base, delta)
<1>1. first = [base |-> base, delta |-> s.delta, source_bytes |-> s.source_bytes,
               checksum |-> s.checksum, version |-> s.version]
    BY DEF Snapshot
<1>2. r = [first EXCEPT !.delta = delta]
    BY DEF Rebased
<1> HIDE DEF first, r
<1>3. r = [base |-> base, delta |-> delta, source_bytes |-> s.source_bytes,
           checksum |-> s.checksum, version |-> s.version]
    BY <1>1, <1>2
<1>4. s.source_bytes \in Nat /\ s.checksum \in Source /\ s.version \in Nat
    BY DEF Snapshot
<1>5. r \in Snapshot
    BY <1>3, <1>4 DEF Snapshot
<1> QED BY <1>3, <1>5 DEF r, Stored, Same

\* No delta is a delta.
LEMMA NoDeltaTyped == NoDelta \in Delta /\ NoBase \in Nat
<1>1. <<>> \in Source
    BY EmptySeq DEF Source
<1> QED BY <1>1 DEF NoDelta, Delta, NoBase

\* g is h with the root moved one delta on, and that delta turned around.
Turned(h, g, target, reverse) ==
    /\ g.current = target
    /\ g.snapshots \in Seq(Snapshot) /\ Len(g.snapshots) = Len(h.snapshots)
    /\ g.snapshots[h.current] = Rebased(h.snapshots[h.current], target, reverse)
    /\ g.snapshots[target] = Rebased(h.snapshots[target], NoBase, NoDelta)
    /\ \A i \in Indices(h) : i \notin {h.current, target} => g.snapshots[i] = h.snapshots[i]

\* What a turn leaves and what it changes.
TurnedFields(h, g, target, reverse) ==
    /\ Indices(g) = Indices(h)
    /\ \A i \in Indices(h) : h.snapshots[i] \in Snapshot /\ Same(g.snapshots[i], h.snapshots[i])
    /\ g.snapshots[h.current].base = target /\ g.snapshots[h.current].delta = reverse
    /\ g.snapshots[target].base = NoBase
    /\ \A i \in Indices(h) : i \notin {h.current, target} =>
          g.snapshots[i].base = h.snapshots[i].base
          /\ g.snapshots[i].delta = h.snapshots[i].delta

\* A turn changes how two snapshots are stored, and nothing else.
LEMMA TurnChanges ==
    ASSUME NEW h, NEW g, h.snapshots \in Seq(Snapshot), h.current \in Indices(h),
           NEW target \in Indices(h), target # h.current,
           NEW reverse \in Delta, Turned(h, g, target, reverse)
    PROVE  TurnedFields(h, g, target, reverse)
<1>1. \A i \in Indices(h) : h.snapshots[i] \in Snapshot
    BY ElementOfSeq DEF Indices
<1>2. target \in Nat /\ h.current \in Nat
    BY DEF Indices
<1>3. Stored(g.snapshots[h.current], h.snapshots[h.current], target, reverse)
    BY <1>1, <1>2, RebasedFields DEF Turned
<1>4. Stored(g.snapshots[target], h.snapshots[target], NoBase, NoDelta)
    BY <1>1, NoDeltaTyped, RebasedFields DEF Turned
<1>5. Indices(g) = Indices(h)
    BY DEF Turned, Indices
<1>6. \A i \in Indices(h) : i \notin {h.current, target} => g.snapshots[i] = h.snapshots[i]
    BY DEF Turned
<1> QED BY <1>1, <1>3, <1>4, <1>5, <1>6 DEF TurnedFields, Stored, Same

\* Moving the root along a delta keeps the tree and its sources.
LEMMA TurnKeepsTree ==
    ASSUME NEW h, NEW sources, NEW rank, Tree(h, sources, rank),
           NEW target \in Indices(h), target # h.current,
           h.snapshots[target].base = h.current,
           NEW g,
           Turned(h, g, target, reverse_delta(sources[h.current], h.snapshots[target].delta))
    PROVE  \E r : Tree(g, sources, r)
<1> DEFINE root == h.current
           delta == h.snapshots[target].delta
           reverse == reverse_delta(sources[root], delta)
           r == [i \in Indices(h) |-> IF i = target THEN 0 ELSE rank[i] + 1]
<1>1. /\ root \in Indices(h) /\ sources[root] \in Source /\ sources[target] \in Source
      /\ Joins(delta, sources[root], sources[target])
    BY DEF Tree
<1>2. delta \in Delta
  <2>1. h.snapshots[target] \in Snapshot
      BY ElementOfSeq DEF Tree, Indices
  <2> QED BY <2>1 DEF Snapshot
<1>3. reverse \in Delta /\ Joins(reverse, sources[target], sources[root])
    BY <1>1, <1>2, ReverseJoins
<1>4. TurnedFields(h, g, target, reverse)
    BY <1>1, <1>3, TurnChanges DEF Tree
<1>5. g.current = target /\ g.snapshots \in Seq(Snapshot)
    BY DEF Turned
<1>6. \A i \in Indices(h) : rank[i] \in Nat
    BY DEF Tree
<1> HIDE DEF root, delta, reverse
<1>7. r \in [Indices(g) -> Nat] /\ sources \in [Indices(g) -> Source]
    BY <1>4, <1>6 DEF Tree, TurnedFields
<1>8. ASSUME NEW i \in Indices(g)
      PROVE  Matches(g.snapshots[i], sources[i]) /\ Len(sources[i]) <= MAX_PROJECT_BYTES
  <2>1. i \in Indices(h) /\ Same(g.snapshots[i], h.snapshots[i])
      BY <1>4 DEF TurnedFields
  <2>2. Matches(h.snapshots[i], sources[i]) /\ Len(sources[i]) <= MAX_PROJECT_BYTES
      BY <2>1 DEF Tree
  <2> QED BY <2>1, <2>2 DEF Matches, Same
<1>9. ASSUME NEW i \in Indices(g), i # g.current
      PROVE  LET base == g.snapshots[i].base IN
             /\ base \in Indices(g) /\ r[base] < r[i]
             /\ Joins(g.snapshots[i].delta, sources[base], sources[i])
  <2>1. CASE i = root
    <3>1. g.snapshots[i].base = target /\ g.snapshots[i].delta = reverse
        BY <1>4, <2>1 DEF TurnedFields, root
    <3>2. target \in Indices(g) /\ r[target] = 0 /\ r[root] = rank[root] + 1 /\ rank[root] \in Nat
        BY <1>1, <1>4, <1>5, <1>6, <1>9, <2>1 DEF TurnedFields
    <3> QED BY <1>3, <2>1, <3>1, <3>2
  <2>2. CASE i # root
    <3> DEFINE base == h.snapshots[i].base
    <3>1. g.snapshots[i].base = base /\ g.snapshots[i].delta = h.snapshots[i].delta
        BY <1>4, <1>5, <1>9, <2>2 DEF TurnedFields, root
    <3>2. /\ base \in Indices(h) /\ rank[base] < rank[i]
          /\ Joins(h.snapshots[i].delta, sources[base], sources[i])
        BY <1>4, <2>2 DEF Tree, root, TurnedFields
    <3>3. r[base] < r[i]
        BY <1>4, <1>5, <1>6, <1>9, <3>2 DEF TurnedFields
    <3> QED BY <1>4, <3>1, <3>2, <3>3 DEF TurnedFields
  <2> QED BY <2>1, <2>2
<1> HIDE DEF r
<1>10. Tree(g, sources, r)
    BY <1>4, <1>5, <1>7, <1>8, <1>9 DEF Tree, TurnedFields
<1> QED BY <1>10

\* The history in the middle of a walk.
HistoryOf(at) == [snapshots |-> at.snapshots, current |-> at.root]

\* Where a walk through n snapshots can be.
Places(n) ==
    {at \in [snapshots : Seq(Snapshot), source : Source, root : Nat, failed : BOOLEAN] :
        Len(at.snapshots) = n /\ at.root \in 1..n}

\* What a reverse delta is made of.
LEMMA ReverseTyped ==
    ASSUME NEW source \in Source, NEW delta \in Delta, InBounds(source, delta)
    PROVE  reverse_delta(source, delta) \in Delta
<1> DEFINE gone == Between(source, delta.prefix, delta.suffix)
           first == [delta EXCEPT !.replacement = gone]
           bytes == serialized_string_bytes(delta.replacement)
<1>1. delta.prefix \in Nat /\ delta.suffix \in Nat /\ delta.replacement \in Source
    BY DEF Delta
<1>2. gone \in Source
    BY <1>1, BetweenElements DEF InBounds
<1>3. bytes \in Nat
    BY <1>1, SerializedSize
<1> HIDE DEF gone, bytes
<1>4. first \in Delta
    BY <1>2 DEF Delta
<1> HIDE DEF first
<1>5. [first EXCEPT !.reverse_replacement_bytes = bytes] \in Delta
    BY <1>3, <1>4 DEF Delta
<1> QED BY <1>5 DEF reverse_delta, first, gone, bytes

\* Two snapshots change.
Turning(snapshots, root, target, reverse) ==
    [snapshots EXCEPT ![root] = Rebased(snapshots[root], target, reverse),
                      ![target] = Rebased(snapshots[target], NoBase, NoDelta)]

\* What the two changes leave.
LEMMA TurningElements ==
    ASSUME NEW snapshots \in Seq(Snapshot),
           NEW root \in 1..Len(snapshots), NEW target \in 1..Len(snapshots),
           NEW reverse \in Delta
    PROVE  LET turned == Turning(snapshots, root, target, reverse)
           IN /\ turned \in Seq(Snapshot) /\ Len(turned) = Len(snapshots)
              /\ target # root => turned[root] = Rebased(snapshots[root], target, reverse)
              /\ turned[target] = Rebased(snapshots[target], NoBase, NoDelta)
              /\ \A i \in 1..Len(snapshots) : i \notin {root, target} => turned[i] = snapshots[i]
<1> DEFINE a == Rebased(snapshots[root], target, reverse)
           b == Rebased(snapshots[target], NoBase, NoDelta)
           first == [snapshots EXCEPT ![root] = a]
           turned == [first EXCEPT ![target] = b]
<1>1. snapshots[root] \in Snapshot /\ snapshots[target] \in Snapshot /\ target \in Nat
    BY ElementOfSeq
<1>2. a \in Snapshot /\ b \in Snapshot
    BY <1>1, RebasedFields, NoDeltaTyped DEF Stored
<1> HIDE DEF a, b
<1>3. /\ first \in Seq(Snapshot) /\ Len(first) = Len(snapshots)
      /\ first[root] = a
      /\ \A i \in 1..Len(snapshots) : i # root => first[i] = snapshots[i]
    BY <1>2, ExceptSeq
<1> HIDE DEF first
<1>4. /\ turned \in Seq(Snapshot) /\ Len(turned) = Len(first)
      /\ turned[target] = b
      /\ \A i \in 1..Len(first) : i # target => turned[i] = first[i]
    BY <1>2, <1>3, ExceptSeq
<1>5. turned = Turning(snapshots, root, target, reverse)
    BY DEF Turning, first, a, b
<1> HIDE DEF turned
<1> QED BY <1>3, <1>4, <1>5 DEF a, b

Replaced(at, target) ==
    Between(at.source, at.snapshots[target].delta.prefix, at.snapshots[target].delta.suffix)

\* The conditions under which a step of a walk succeeds.
StepFits(at, target) ==
    LET delta == at.snapshots[target].delta
    IN /\ ~at.failed
       /\ InBounds(at.source, delta)
       /\ Len(at.source) + at.snapshots[target].source_bytes + Len(Replaced(at, target))
             <= 3 * MAX_PROJECT_BYTES
       /\ Matches(at.snapshots[target], apply_snapshot_delta(at.source, delta))
       /\ serialized_string_bytes(Replaced(at, target)) = delta.reverse_replacement_bytes

\* Its two outcomes.
LEMMA StepOutcome ==
    ASSUME NEW at, NEW target
    PROVE  reroot_step(at, target) =
              IF StepFits(at, target)
              THEN [snapshots |-> Turning(at.snapshots, at.root, target,
                                          reverse_delta(at.source, at.snapshots[target].delta)),
                    source |-> apply_snapshot_delta(at.source, at.snapshots[target].delta),
                    root |-> target, failed |-> FALSE]
              ELSE [at EXCEPT !.failed = TRUE]
BY DEF reroot_step, StepFits, Replaced, Turning

\* A step leads from a place to a place.
LEMMA StepTyped ==
    ASSUME NEW n \in Nat, NEW at \in Places(n), NEW target \in 1..n
    PROVE  reroot_step(at, target) \in Places(n)
<1> DEFINE delta == at.snapshots[target].delta
<1>1. /\ at.snapshots \in Seq(Snapshot) /\ at.source \in Source /\ Len(at.snapshots) = n
      /\ at.root \in 1..Len(at.snapshots) /\ target \in 1..Len(at.snapshots)
    BY DEF Places
<1>2. delta \in Delta
  <2>1. at.snapshots[target] \in Snapshot
      BY <1>1, ElementOfSeq
  <2> QED BY <2>1 DEF Snapshot
<1>3. CASE StepFits(at, target)
  <2> DEFINE turned == Turning(at.snapshots, at.root, target, reverse_delta(at.source, delta))
             source == apply_snapshot_delta(at.source, delta)
  <2>1. InBounds(at.source, delta)
      BY <1>3 DEF StepFits
  <2>2. reverse_delta(at.source, delta) \in Delta
      BY <1>1, <1>2, <2>1, ReverseTyped
  <2>3. source \in Source
      BY <1>1, <1>2, <2>1, AppliedElements
  <2>4. turned \in Seq(Snapshot) /\ Len(turned) = n
      BY <1>1, <2>2, TurningElements
  <2>5. reroot_step(at, target) =
            [snapshots |-> turned, source |-> source, root |-> target, failed |-> FALSE]
      BY <1>3, StepOutcome
  <2> HIDE DEF turned, source
  <2> QED BY <2>3, <2>4, <2>5 DEF Places
<1>4. CASE ~StepFits(at, target)
  <2>1. reroot_step(at, target) = [at EXCEPT !.failed = TRUE]
      BY <1>4, StepOutcome
  <2> QED BY <2>1 DEF Places
<1> QED BY <1>3, <1>4

\* Along a delta of the tree a step succeeds, and turns the delta around.
LEMMA StepTurns ==
    ASSUME NEW n \in Nat, NEW at \in Places(n), NEW target \in 1..n, target # at.root,
           ~at.failed, NEW sources, NEW rank, Tree(HistoryOf(at), sources, rank),
           at.source = sources[at.root], at.snapshots[target].base = at.root
    PROVE  LET next == reroot_step(at, target)
               delta == at.snapshots[target].delta
           IN /\ ~next.failed /\ next.root = target /\ next.source = sources[target]
              /\ Turned(HistoryOf(at), HistoryOf(next), target, reverse_delta(at.source, delta))
<1> DEFINE delta == at.snapshots[target].delta
           next == reroot_step(at, target)
           reverse == reverse_delta(at.source, delta)
           turned == Turning(at.snapshots, at.root, target, reverse)
<1>1. /\ at.snapshots \in Seq(Snapshot) /\ at.source \in Source /\ Len(at.snapshots) = n
      /\ at.root \in 1..Len(at.snapshots) /\ target \in 1..Len(at.snapshots)
    BY DEF Places
<1>2. delta \in Delta
  <2>1. at.snapshots[target] \in Snapshot
      BY <1>1, ElementOfSeq
  <2> QED BY <2>1 DEF Snapshot
<1>3. /\ HistoryOf(at).snapshots = at.snapshots /\ HistoryOf(at).current = at.root
      /\ Indices(HistoryOf(at)) = 1..n
    BY <1>1 DEF HistoryOf, Indices
<1>4. /\ Joins(delta, at.source, sources[target]) /\ sources[target] \in Source
      /\ Matches(at.snapshots[target], sources[target])
      /\ Len(sources[target]) <= MAX_PROJECT_BYTES /\ Len(at.source) <= MAX_PROJECT_BYTES
    BY <1>1, <1>3 DEF Tree
<1>5. reverse \in Delta
  <2>1. InBounds(at.source, delta)
      BY <1>4 DEF Joins
  <2> QED BY <1>1, <1>2, <2>1, ReverseTyped
<1>6. StepFits(at, target)
  <2>1. /\ delta.prefix \in Nat /\ delta.suffix \in Nat
        /\ delta.prefix + delta.suffix <= Len(at.source)
      BY <1>2, <1>4 DEF Delta, Joins, InBounds
  <2>2. Len(Replaced(at, target)) = Len(at.source) - delta.prefix - delta.suffix
      BY <1>1, <2>1, BetweenElements DEF Replaced
  <2>3. Len(at.source) \in Nat /\ Len(sources[target]) \in Nat /\ MAX_PROJECT_BYTES \in Nat
      BY <1>1, <1>4, LenProperties, HistoryAssumption DEF Source
  <2>4. at.snapshots[target].source_bytes = Len(sources[target])
      BY <1>4 DEF Matches
  <2>5. Len(at.source) + at.snapshots[target].source_bytes + Len(Replaced(at, target))
           <= 3 * MAX_PROJECT_BYTES
    <3> DEFINE a == Len(at.source)
               b == Len(sources[target])
               c == Len(Replaced(at, target))
               x == delta.prefix
               y == delta.suffix
    <3> HIDE DEF a, b, c, x, y
    <3>1. /\ a \in Nat /\ b \in Nat /\ x \in Nat /\ y \in Nat /\ c = a - x - y
          /\ a <= MAX_PROJECT_BYTES /\ b <= MAX_PROJECT_BYTES
        BY <1>4, <2>1, <2>2, <2>3 DEF a, b, c, x, y
    <3>2. a + b + c <= 3 * MAX_PROJECT_BYTES
        BY <2>3, <3>1
    <3> QED BY <2>4, <3>2 DEF a, b, c
  <2>6. /\ InBounds(at.source, delta) /\ apply_snapshot_delta(at.source, delta) = sources[target]
        /\ serialized_string_bytes(Replaced(at, target)) = delta.reverse_replacement_bytes
      BY <1>4 DEF Joins, Replaced
  <2> QED BY <1>4, <2>5, <2>6 DEF StepFits
<1>7. next = [snapshots |-> turned, source |-> apply_snapshot_delta(at.source, delta),
              root |-> target, failed |-> FALSE]
    BY <1>6, StepOutcome
<1>8. apply_snapshot_delta(at.source, delta) = sources[target]
    BY <1>4 DEF Joins
<1>9. /\ turned \in Seq(Snapshot) /\ Len(turned) = Len(at.snapshots)
      /\ turned[at.root] = Rebased(at.snapshots[at.root], target, reverse)
      /\ turned[target] = Rebased(at.snapshots[target], NoBase, NoDelta)
      /\ \A i \in 1..Len(at.snapshots) : i \notin {at.root, target} => turned[i] = at.snapshots[i]
  <2> HIDE DEF reverse, next, delta
  <2> QED BY <1>1, <1>5, TurningElements
<1> HIDE DEF turned, next, reverse
<1>10. HistoryOf(next).snapshots = turned /\ HistoryOf(next).current = target
    BY <1>7 DEF HistoryOf
<1>11. Turned(HistoryOf(at), HistoryOf(next), target, reverse)
    BY <1>1, <1>3, <1>9, <1>10 DEF Turned
<1> QED BY <1>7, <1>8, <1>11 DEF next, reverse

----------------------------------------------------------------------------
(* Walks from the root *)

\* The root is in Z; from anywhere else the base is nearer.
Bases(h) == [i \in Indices(h) |-> IF i = h.current THEN i ELSE h.snapshots[i].base]

\* The bases of a tree lead to the root.
LEMMA BasesDescend ==
    ASSUME NEW h, NEW sources, NEW rank, Tree(h, sources, rank)
    PROVE  Descending(Indices(h), {h.current}, rank, Bases(h))
BY DEF Tree, Descending, Bases

\* s lists the snapshots on the way from the root to i.
Leads(s, h, i) ==
    /\ s \in Seq(Indices(h))
    /\ \A k \in 1..Len(s) :
          /\ s[k] # h.current
          /\ h.snapshots[s[k]].base = IF k = 1 THEN h.current ELSE s[k - 1]
    /\ IF s = <<>> THEN i = h.current ELSE s[Len(s)] = i

\* A way with one more snapshot.
LEMMA LeadsOn ==
    ASSUME NEW h, NEW i \in Indices(h), i # h.current,
           NEW s, Leads(s, h, h.snapshots[i].base)
    PROVE  Leads(Append(s, i), h, i)
<1> DEFINE t == Append(s, i)
           n == Len(s)
<1>1. s \in Seq(Indices(h)) /\ n \in Nat /\ (s = <<>> <=> n = 0)
    BY LenProperties, EmptySeq DEF Leads
<1>2. /\ t \in Seq(Indices(h)) /\ Len(t) = n + 1
      /\ \A k \in 1..n : t[k] = s[k]
      /\ t[n + 1] = i
    BY <1>1, AppendProperties
<1>3. t # <<>>
    BY <1>1, <1>2, EmptySeq
<1> HIDE DEF t
<1>4. ASSUME NEW k \in 1..(n + 1)
      PROVE  t[k] # h.current /\ h.snapshots[t[k]].base = IF k = 1 THEN h.current ELSE t[k - 1]
  <2>1. CASE k \in 1..n
    <3>1. k # 1 => k - 1 \in 1..n
        BY <1>1, <2>1
    <3> QED BY <1>2, <2>1, <3>1 DEF Leads
  <2>2. CASE k = n + 1 /\ n = 0
      BY <1>1, <1>2, <2>2 DEF Leads
  <2>3. CASE k = n + 1 /\ n # 0
    <3>1. k - 1 = n /\ n \in 1..n /\ k # 1
        BY <1>1, <2>3
    <3>2. t[n] = s[n] /\ s[n] = h.snapshots[i].base
        BY <1>1, <1>2, <3>1 DEF Leads
    <3> QED BY <1>2, <2>3, <3>1, <3>2
  <2> QED BY <1>1, <2>1, <2>2, <2>3
<1> QED BY <1>1, <1>2, <1>3, <1>4 DEF Leads, t

\* The path of a tree leads where it should.
LEMMA PathLeads ==
    ASSUME NEW h, NEW sources, NEW rank, Tree(h, sources, rank), NEW i \in Indices(h)
    PROVE  Leads(path(h, i), h, i)
<1> DEFINE S == Indices(h)
           Next0(d) == [j \in S |-> IF j = h.current THEN <<>>
                                     ELSE Append(d[h.snapshots[j].base], j)]
           down == CHOOSE d : d = Next0(d)
           base == [j \in S |-> <<>>]
           F == [p \in S \X Seq(S) |-> Append(p[2], p[1])]
           P == {j \in S : Leads(down[j], h, j)}
<1>1. path(h, i) = down[i]
    BY DEF path
<1>2. base \in [S -> Seq(S)]
  <2>1. <<>> \in Seq(S)
      BY EmptySeq
  <2> QED BY <2>1
<1>3. F \in [S \X Seq(S) -> Seq(S)] /\ \A j \in S, s \in Seq(S) : F[<<j, s>>] = Append(s, j)
  <2>1. \A j \in S, s \in Seq(S) : Append(s, j) \in Seq(S)
      BY AppendProperties
  <2> QED BY <2>1
<1>4. Descending(S, {h.current}, rank, Bases(h))
    BY BasesDescend
<1> HIDE DEF F, S, base
<1>5. PICK f \in [S -> Seq(S)] : Recursive(f, S, {h.current}, base, Bases(h), F)
    BY <1>2, <1>3, <1>4, RecursionExists
<1>6. ASSUME NEW j \in S
      PROVE  f[j] = IF j = h.current THEN <<>> ELSE Append(f[h.snapshots[j].base], j)
  <2>1. f[j] = IF j = h.current THEN base[j] ELSE F[<<j, f[Bases(h)[j]]>>]
      BY <1>5 DEF Recursive
  <2>2. base[j] = <<>> /\ (j # h.current => Bases(h)[j] = h.snapshots[j].base)
      BY DEF base, Bases, S
  <2>3. j # h.current => h.snapshots[j].base \in S
      BY DEF Tree, S
  <2> QED BY <1>3, <1>5, <2>1, <2>2, <2>3
<1>7. f = Next0(f)
  <2>1. f = [j \in S |-> f[j]]
      BY <1>5
  <2> QED BY <1>6, <2>1
<1>8. down = Next0(down)
    BY <1>7
<1> HIDE DEF down
<1>9. ASSUME NEW j \in S, \A k \in S : rank[k] < rank[j] => k \in P
      PROVE  j \in P
  <2>1. CASE j = h.current
    <3>1. down[j] = <<>>
        BY <1>8, <2>1
    <3>2. <<>> \in Seq(Indices(h)) /\ 1..Len(<<>>) = {}
        BY EmptySeq
    <3>3. Leads(<<>>, h, j)
        BY <2>1, <3>2 DEF Leads
    <3> QED BY <3>1, <3>3
  <2>2. CASE j # h.current
    <3> DEFINE k == h.snapshots[j].base
    <3>1. k \in S /\ rank[k] < rank[j]
        BY <2>2 DEF Tree, S
    <3>2. Leads(down[k], h, k)
        BY <1>9, <3>1
    <3>3. down[j] = Append(down[k], j)
        BY <1>8, <2>2
    <3>4. Leads(Append(down[k], j), h, j)
        BY <2>2, <3>2, LeadsOn DEF S
    <3> QED BY <3>3, <3>4
  <2> QED BY <2>1, <2>2
<1>10. S \subseteq P
  <2>1. rank \in [S -> Nat]
      BY DEF Tree, S
  <2> HIDE DEF P
  <2> QED BY <1>9, <2>1, RankInduction
<1> QED BY <1>1, <1>10 DEF S

----------------------------------------------------------------------------
(* Sizes *)

\* Division makes smaller and keeps the order.
LEMMA DivisionFacts ==
    ASSUME NEW r \in Nat, r > 1, NEW u \in Nat, NEW v \in Nat, u <= v
    PROVE  /\ u \div r \in Nat /\ v \div r \in Nat /\ u \div r <= v \div r
           /\ v >= r => v \div r < v
<1>1. u \div r \in Nat /\ v \div r \in Nat
    OBVIOUS
<1>2. v >= r => v \div r < v
    OBVIOUS
<1>3. u \div r <= v \div r
    OBVIOUS
<1> QED BY <1>1, <1>2, <1>3

\* A number has digits, and one more than what is left without the last of them.
LEMMA DecimalSteps ==
    \A v \in Nat : /\ decimal_bytes(v) \in Nat \ {0}
                   /\ decimal_bytes(v) = IF v < RADIX THEN 1 ELSE 1 + decimal_bytes(v \div RADIX)
<1> DEFINE Next0(d) == [v \in Nat |-> IF v < RADIX THEN 1 ELSE 1 + d[v \div RADIX]]
           bytes == CHOOSE d : d = Next0(d)
           B == Nat \ {0}
           Z == {v \in Nat : v < RADIX}
           rank == [v \in Nat |-> v]
           pred == [v \in Nat |-> v \div RADIX]
           base == [v \in Nat |-> 1]
           F == [p \in Nat \X B |-> 1 + p[2]]
<1>1. \A v \in Nat : decimal_bytes(v) = bytes[v]
    BY DEF decimal_bytes
<1>2. RADIX \in Nat /\ RADIX > 1
    BY HistoryAssumption
<1>3. \A v \in Nat : v \div RADIX \in Nat /\ (v >= RADIX => v \div RADIX < v)
    BY <1>2, DivisionFacts
<1>4. Descending(Nat, Z, rank, pred)
  <2>1. rank \in [Nat -> Nat] /\ pred \in [Nat -> Nat]
      BY <1>3
  <2>2. \A x \in Nat \ Z : pred[x] = x \div RADIX /\ rank[x] = x /\ x >= RADIX
      BY <1>2
  <2>3. \A x \in Nat : rank[x] = x
      OBVIOUS
  <2> HIDE DEF rank, pred, Z
  <2>4. \A x \in Nat \ Z : rank[pred[x]] < rank[x]
      BY <1>3, <2>2, <2>3
  <2> QED BY <2>1, <2>4 DEF Descending
<1>5. F \in [Nat \X B -> B] /\ \A v \in Nat, b \in B : F[<<v, b>>] = 1 + b
  <2>1. \A b \in B : 1 + b \in B
      OBVIOUS
  <2> QED BY <2>1
<1>6. base \in [Nat -> B] /\ \A v \in Nat : base[v] = 1 /\ pred[v] = v \div RADIX
    OBVIOUS
<1> HIDE DEF F, B, base, rank, pred
<1>7. PICK f \in [Nat -> B] : Recursive(f, Nat, Z, base, pred, F)
    BY <1>4, <1>5, <1>6, RecursionExists
<1>8. ASSUME NEW v \in Nat PROVE f[v] = IF v < RADIX THEN 1 ELSE 1 + f[v \div RADIX]
  <2>1. f[v] = IF v \in Z THEN base[v] ELSE F[<<v, f[pred[v]]>>]
      BY <1>7 DEF Recursive
  <2>2. v \in Z <=> v < RADIX
      OBVIOUS
  <2> HIDE DEF Z
  <2> QED BY <1>3, <1>5, <1>6, <1>7, <2>1, <2>2
<1>9. f = Next0(f)
  <2>1. f = [v \in Nat |-> f[v]]
      BY <1>7
  <2> QED BY <1>8, <2>1
<1>10. bytes = Next0(bytes)
    BY <1>9
<1> HIDE DEF bytes
<1>11. \A v \in Nat : bytes[v] = IF v < RADIX THEN 1 ELSE 1 + bytes[v \div RADIX]
    BY <1>10
<1> DEFINE P == {v \in Nat : bytes[v] \in B}
<1>12. ASSUME NEW v \in Nat, \A u \in Nat : rank[u] < rank[v] => u \in P PROVE v \in P
  <2>1. CASE v < RADIX
      BY <1>11, <2>1 DEF B
  <2>2. CASE ~(v < RADIX)
    <3>1. v \div RADIX \in Nat /\ v \div RADIX < v
        BY <1>2, <1>3, <2>2
    <3>2. bytes[v \div RADIX] \in B
        BY <1>12, <3>1 DEF rank
    <3> QED BY <1>11, <2>2, <3>2 DEF B
  <2> QED BY <2>1, <2>2
<1>13. Nat \subseteq P
  <2>1. rank \in [Nat -> Nat]
      BY DEF rank
  <2> HIDE DEF P
  <2> QED BY <1>12, <2>1, RankInduction
<1> QED BY <1>1, <1>3, <1>11, <1>13 DEF B

\* A larger number has no fewer digits.
LEMMA DecimalGrows ==
    ASSUME NEW u \in Nat, NEW v \in Nat, u <= v
    PROVE  decimal_bytes(u) <= decimal_bytes(v)
<1> DEFINE P == {x \in Nat : \A y \in 0..x : decimal_bytes(y) <= decimal_bytes(x)}
           rank == [x \in Nat |-> x]
<1>1. RADIX \in Nat /\ RADIX > 1
    BY HistoryAssumption
<1>2. ASSUME NEW x \in Nat, \A z \in Nat : rank[z] < rank[x] => z \in P, NEW y \in 0..x
      PROVE  decimal_bytes(y) <= decimal_bytes(x)
  <2>1. CASE y < RADIX
      BY <2>1, DecimalSteps
  <2>2. CASE ~(y < RADIX)
    <3> DEFINE a == y \div RADIX
               b == x \div RADIX
    <3>1. a \in Nat /\ b \in Nat /\ a <= b /\ b < x /\ ~(x < RADIX)
        BY <1>1, <2>2, DivisionFacts
    <3>2. decimal_bytes(y) = 1 + decimal_bytes(a) /\ decimal_bytes(x) = 1 + decimal_bytes(b)
        BY <2>2, <3>1, DecimalSteps
    <3> HIDE DEF a, b
    <3>3. b \in P /\ a \in 0..b
        BY <1>2, <3>1
    <3>4. decimal_bytes(a) <= decimal_bytes(b)
        BY <3>3
    <3>5. decimal_bytes(a) \in Nat /\ decimal_bytes(b) \in Nat
        BY <3>1, DecimalSteps
    <3> QED BY <3>2, <3>4, <3>5
  <2> QED BY <2>1, <2>2
<1>3. Nat \subseteq P
  <2>1. rank \in [Nat -> Nat] /\ \A x \in Nat : (\A z \in Nat : rank[z] < rank[x] => z \in P) => x \in P
      BY <1>2
  <2> HIDE DEF P, rank
  <2> QED BY <2>1, RankInduction
<1> QED BY <1>3

\* What the snapshots add to the document, and the room they leave for versions.
Weights(h) ==
    [i \in Indices(h) |-> SnapshotBytes(h.snapshots[i]) + decimal_bytes(h.snapshots[i].version)]
Rooms(h) == [i \in Indices(h) |-> MAX_VERSION_BYTES - decimal_bytes(h.snapshots[i].version)]

\* The indices of a history are finitely many numbers.
LEMMA IndicesFinite ==
    ASSUME NEW h, h.snapshots \in Seq(Snapshot)
    PROVE  /\ IsFiniteSet(Indices(h)) /\ Indices(h) \subseteq Nat \ {0}
           /\ \A i \in Indices(h) : h.snapshots[i] \in Snapshot
<1>1. Len(h.snapshots) \in Nat /\ \A i \in 1..Len(h.snapshots) : h.snapshots[i] \in Snapshot
    BY LenProperties, ElementOfSeq
<1>2. \A k \in Nat : IsFiniteSet(1..k)
    BY FS_Interval
<1> QED BY <1>1, <1>2 DEF Indices

\* The places of a document have digits.
LEMMA IndexBytesTyped ==
    ASSUME NEW i \in Nat \ {0}
    PROVE  IndexBytes(i) \in Nat
<1>1. i - 1 \in Nat
    OBVIOUS
<1> QED BY <1>1, DecimalSteps DEF IndexBytes

\* A snapshot adds a natural number of bytes.
LEMMA SnapshotBytesTyped ==
    ASSUME NEW snapshot \in Snapshot
    PROVE  SnapshotBytes(snapshot) \in Nat
<1>1. /\ snapshot.base \in Nat /\ snapshot.delta.prefix \in Nat /\ snapshot.delta.suffix \in Nat
      /\ snapshot.delta.replacement \in Source /\ snapshot.delta.reverse_replacement_bytes \in Nat
    BY DEF Snapshot, Delta
<1>2. CASE snapshot.base = NoBase
    BY <1>2 DEF SnapshotBytes
<1>3. CASE snapshot.base # NoBase
  <2>1. IndexBytes(snapshot.base) \in Nat
      BY <1>1, <1>3, IndexBytesTyped DEF NoBase
  <2>2. serialized_string_bytes(snapshot.delta.replacement) \in Nat
      BY <1>1, SerializedSize
  <2>3. /\ decimal_bytes(snapshot.delta.prefix) \in Nat /\ decimal_bytes(snapshot.delta.suffix) \in Nat
        /\ decimal_bytes(snapshot.delta.reverse_replacement_bytes) \in Nat
      BY <1>1, DecimalSteps
  <2> QED BY <1>3, <2>1, <2>2, <2>3 DEF SnapshotBytes
<1> QED BY <1>2, <1>3

\* Weights are natural numbers and rooms are numbers.
LEMMA WeightsTyped ==
    ASSUME NEW h, h.snapshots \in Seq(Snapshot)
    PROVE  Weights(h) \in [Indices(h) -> Nat] /\ Rooms(h) \in [Indices(h) -> Int]
<1>1. \A i \in Indices(h) : SnapshotBytes(h.snapshots[i]) \in Nat
    BY IndicesFinite, SnapshotBytesTyped
<1>2. \A i \in Indices(h) : decimal_bytes(h.snapshots[i].version) \in Nat
    BY IndicesFinite, DecimalSteps DEF Snapshot
<1>3. MAX_VERSION_BYTES \in Nat
    BY HistoryAssumption
<1>4. \A i \in Indices(h) : /\ SnapshotBytes(h.snapshots[i]) + decimal_bytes(h.snapshots[i].version) \in Nat
                            /\ MAX_VERSION_BYTES - decimal_bytes(h.snapshots[i].version) \in Int
    BY <1>1, <1>2, <1>3
<1> QED BY <1>4 DEF Weights, Rooms

\* The document and the reserve are sums over the snapshots.
LEMMA SizesAreSums ==
    ASSUME NEW h, h.snapshots \in Seq(Snapshot), NEW p
    PROVE  /\ project_document(p, h) =
                 ProjectBytes(p) + IndexBytes(h.current) + SumOf(Weights(h), Indices(h))
           /\ navigation_metadata_reserve(p, h) =
                 MAX_VERSION_BYTES - decimal_bytes(p.version) + SumOf(Rooms(h), Indices(h))
<1> DEFINE S == Indices(h)
           w(i) == SnapshotBytes(h.snapshots[i]) + decimal_bytes(h.snapshots[i].version)
           r(i) == MAX_VERSION_BYTES - decimal_bytes(h.snapshots[i].version)
           NextW(d) == [s \in SUBSET S |-> IF s = {} THEN 0
                            ELSE LET x == CHOOSE y \in s : TRUE IN w(x) + d[s \ {x}]]
           NextR(d) == [s \in SUBSET S |-> IF s = {} THEN 0
                            ELSE LET x == CHOOSE y \in s : TRUE IN r(x) + d[s \ {x}]]
           weight == CHOOSE d : d = NextW(d)
           room == CHOOSE d : d = NextR(d)
<1>1. MapThenSumSet(LAMBDA i : SnapshotBytes(h.snapshots[i])
                               + decimal_bytes(h.snapshots[i].version), S) = weight[S]
    BY DEF MapThenSumSet, MapThenFoldSet
<1>2. MapThenSumSet(LAMBDA i : MAX_VERSION_BYTES - decimal_bytes(h.snapshots[i].version), S)
        = room[S]
    BY DEF MapThenSumSet, MapThenFoldSet
<1>3. IsFiniteSet(S)
    BY IndicesFinite
<1>4. Weights(h) \in [S -> Int] /\ Rooms(h) \in [S -> Int]
    BY WeightsTyped
<1>5. \A s \in SUBSET S : s # {} => /\ (CHOOSE y \in s : TRUE) \in s
                                    /\ (CHOOSE y \in s : TRUE) = Some1(s)
                                    /\ Some1(s) \in S
    BY DEF Some1
<1>6. \A i \in S : Weights(h)[i] = w(i) /\ Rooms(h)[i] = r(i)
    BY DEF Weights, Rooms
<1> HIDE DEF S, w, r
<1>7. ASSUME NEW d PROVE Summing(d, Weights(h), S) <=> d = NextW(d)
  <2>1. ASSUME NEW s \in SUBSET S, s # {}
        PROVE  w(CHOOSE y \in s : TRUE) + d[s \ {CHOOSE y \in s : TRUE}]
                  = Weights(h)[Some1(s)] + d[s \ {Some1(s)}]
      BY <1>5, <1>6, <2>1
  <2>2. NextW(d) = [s \in SUBSET S |-> IF s = {} THEN 0
                    ELSE Weights(h)[Some1(s)] + d[s \ {Some1(s)}]]
      BY <2>1
  <2> HIDE DEF NextW
  <2> QED BY <2>2 DEF Summing
<1>8. ASSUME NEW d PROVE Summing(d, Rooms(h), S) <=> d = NextR(d)
  <2>1. ASSUME NEW s \in SUBSET S, s # {}
        PROVE  r(CHOOSE y \in s : TRUE) + d[s \ {CHOOSE y \in s : TRUE}]
                  = Rooms(h)[Some1(s)] + d[s \ {Some1(s)}]
      BY <1>5, <1>6, <2>1
  <2>2. NextR(d) = [s \in SUBSET S |-> IF s = {} THEN 0
                    ELSE Rooms(h)[Some1(s)] + d[s \ {Some1(s)}]]
      BY <2>1
  <2> HIDE DEF NextR
  <2> QED BY <2>2 DEF Summing
<1>9. Summing(weight, Weights(h), S)
  <2>1. PICK d : Summing(d, Weights(h), S)
      BY <1>3, <1>4, SumExists
  <2>2. d = NextW(d)
      BY <1>7, <2>1
  <2> HIDE DEF NextW
  <2>3. weight = NextW(weight)
      BY <2>2
  <2> QED BY <1>7, <2>3
<1>10. Summing(room, Rooms(h), S)
  <2>1. PICK d : Summing(d, Rooms(h), S)
      BY <1>3, <1>4, SumExists
  <2>2. d = NextR(d)
      BY <1>8, <2>1
  <2> HIDE DEF NextR
  <2>3. room = NextR(room)
      BY <2>2
  <2> QED BY <1>8, <2>3
<1> HIDE DEF weight, room
<1>11. weight[S] = SumOf(Weights(h), S)
    BY <1>3, <1>4, <1>9, SummingSums
<1>12. room[S] = SumOf(Rooms(h), S)
    BY <1>3, <1>4, <1>10, SummingSums
<1>13. project_document(p, h) = ProjectBytes(p) + IndexBytes(h.current) + weight[S]
    BY <1>1 DEF project_document, S
<1>14. navigation_metadata_reserve(p, h) = MAX_VERSION_BYTES - decimal_bytes(p.version) + room[S]
    BY <1>2 DEF navigation_metadata_reserve, S
<1> QED BY <1>11, <1>12, <1>13, <1>14 DEF S

Project == [source : Source, version : Nat, operations : Nat]

\* The size of the document with each of the snapshots in front.
Weighed(p, h, bytes) ==
    /\ bytes \in [Indices(h) -> Int]
    /\ bytes[h.current] = project_document(p, h)
    /\ \A i \in Indices(h) : i # h.current => bytes[i] = bytes[h.snapshots[i].base] + Growth(h, i)

\* The numbers that a delta is weighed by.
LEMMA DeltaNumbers ==
    ASSUME NEW delta \in Delta
    PROVE  /\ serialized_string_bytes(delta.replacement) \in Nat
           /\ delta.reverse_replacement_bytes \in Nat
           /\ decimal_bytes(delta.prefix) \in Nat /\ decimal_bytes(delta.suffix) \in Nat
           /\ decimal_bytes(serialized_string_bytes(delta.replacement)) \in Nat
           /\ decimal_bytes(delta.reverse_replacement_bytes) \in Nat
<1>1. /\ delta.replacement \in Source /\ delta.reverse_replacement_bytes \in Nat
      /\ delta.prefix \in Nat /\ delta.suffix \in Nat
    BY DEF Delta
<1>2. serialized_string_bytes(delta.replacement) \in Nat
    BY <1>1, SerializedSize
<1> QED BY <1>1, <1>2, DecimalSteps

\* The bytes of a snapshot that is stored as a delta.
DeltaBytes(base, delta) ==
    IndexBytes(base) + decimal_bytes(delta.prefix) + decimal_bytes(delta.suffix)
    + serialized_string_bytes(delta.replacement) + decimal_bytes(delta.reverse_replacement_bytes)

\* How the document grows along a delta from a source to another, from index base to i.
GrowthAlong(from, to, delta, base, i) ==
    LET bytes == serialized_string_bytes(delta.replacement)
    IN Len(to) - Len(from) + delta.reverse_replacement_bytes - bytes
       + decimal_bytes(bytes) - decimal_bytes(delta.reverse_replacement_bytes)
       + 2 * (IndexBytes(i) - IndexBytes(base))

\* Growth is a number.
LEMMA GrowthTyped ==
    ASSUME NEW from \in Source, NEW to \in Source, NEW delta \in Delta,
           NEW base \in Nat \ {0}, NEW i \in Nat \ {0}
    PROVE  GrowthAlong(from, to, delta, base, i) \in Int
<1> DEFINE a == Len(to)
           b == Len(from)
           back == delta.reverse_replacement_bytes
           bytes == serialized_string_bytes(delta.replacement)
           dback == decimal_bytes(back)
           dbytes == decimal_bytes(bytes)
           x == IndexBytes(i)
           y == IndexBytes(base)
<1>1. /\ a \in Nat /\ b \in Nat /\ back \in Nat /\ bytes \in Nat
      /\ dback \in Nat /\ dbytes \in Nat /\ x \in Nat /\ y \in Nat
    BY LenProperties, DeltaNumbers, IndexBytesTyped DEF Source
<1>2. GrowthAlong(from, to, delta, base, i)
        = a - b + back - bytes + dbytes - dback + 2 * (x - y)
    BY DEF GrowthAlong
<1> HIDE DEF a, b, back, bytes, dback, dbytes, x, y
<1> QED BY <1>1, <1>2

\* What a snapshot costs that is a delta, and how its document grows from its base's.
Costs(h, sources, i) ==
    LET delta == h.snapshots[i].delta
        base == h.snapshots[i].base
    IN /\ delta \in Delta /\ base \in Indices(h) /\ Growth(h, i) \in Int
       /\ SnapshotBytes(h.snapshots[i]) = DeltaBytes(base, delta)
       /\ Growth(h, i) = GrowthAlong(sources[base], sources[i], delta, base, i)

\* That is so for every snapshot but the root of a tree.
LEMMA TreeCosts ==
    ASSUME NEW h, NEW sources, NEW rank, Tree(h, sources, rank),
           NEW i \in Indices(h), i # h.current
    PROVE  Costs(h, sources, i)
<1> DEFINE delta == h.snapshots[i].delta
           base == h.snapshots[i].base
<1>1. h.snapshots[i] \in Snapshot /\ base \in Indices(h) /\ i \in Nat \ {0} /\ base \in Nat \ {0}
    BY IndicesFinite DEF Tree
<1>2. delta \in Delta
    BY <1>1 DEF Snapshot
<1>3. base # NoBase
    BY <1>1 DEF NoBase
<1>4. SnapshotBytes(h.snapshots[i]) = DeltaBytes(base, delta)
    BY <1>3 DEF SnapshotBytes, DeltaBytes
<1>5. /\ h.snapshots[i].source_bytes = Len(sources[i])
      /\ h.snapshots[base].source_bytes = Len(sources[base])
    BY <1>1 DEF Tree, Matches
<1>6. Growth(h, i) = GrowthAlong(sources[base], sources[i], delta, base, i)
    BY <1>5 DEF Growth, GrowthAlong
<1>7. sources[base] \in Source /\ sources[i] \in Source
    BY <1>1 DEF Tree
<1>8. GrowthAlong(sources[base], sources[i], delta, base, i) \in Int
    BY <1>1, <1>2, <1>7, GrowthTyped
<1> QED BY <1>1, <1>2, <1>4, <1>6, <1>8 DEF Costs

\* The reverse of a delta costs as much more as the document grows along the delta,
\* but for the two places where the current snapshot is named, and back it shrinks.
CostsReversed(from, to, delta, reverse, base, i) ==
    LET along == GrowthAlong(from, to, delta, base, i)
    IN /\ DeltaBytes(i, reverse) \in Nat /\ DeltaBytes(base, delta) \in Nat
       /\ DeltaBytes(i, reverse) - DeltaBytes(base, delta)
             + Len(to) - Len(from) + IndexBytes(i) - IndexBytes(base) = along
       /\ GrowthAlong(to, from, reverse, i, base) = - along

LEMMA ReverseCosts ==
    ASSUME NEW from \in Source, NEW to \in Source, NEW delta \in Delta, Joins(delta, from, to),
           NEW base \in Nat \ {0}, NEW i \in Nat \ {0}
    PROVE  CostsReversed(from, to, delta, reverse_delta(from, delta), base, i)
<1> DEFINE reverse == reverse_delta(from, delta)
           a == Len(to)
           b == Len(from)
           back == delta.reverse_replacement_bytes
           bytes == serialized_string_bytes(delta.replacement)
           dback == decimal_bytes(back)
           dbytes == decimal_bytes(bytes)
           pre == decimal_bytes(delta.prefix)
           suf == decimal_bytes(delta.suffix)
           x == IndexBytes(i)
           y == IndexBytes(base)
<1>1. /\ a \in Nat /\ b \in Nat /\ back \in Nat /\ bytes \in Nat
      /\ dback \in Nat /\ dbytes \in Nat /\ pre \in Nat /\ suf \in Nat /\ x \in Nat /\ y \in Nat
    BY LenProperties, DeltaNumbers, IndexBytesTyped DEF Source
<1>2. /\ reverse.prefix = delta.prefix /\ reverse.suffix = delta.suffix
      /\ serialized_string_bytes(reverse.replacement) = back
      /\ reverse.reverse_replacement_bytes = bytes
    BY ReverseJoins
<1>3. /\ DeltaBytes(base, delta) = y + pre + suf + bytes + dback
      /\ GrowthAlong(from, to, delta, base, i)
            = a - b + back - bytes + dbytes - dback + 2 * (x - y)
    BY DEF DeltaBytes, GrowthAlong
<1>4. /\ DeltaBytes(i, reverse) = x + pre + suf + back + dbytes
      /\ GrowthAlong(to, from, reverse, i, base)
            = b - a + bytes - back + dback - dbytes + 2 * (y - x)
  <2> HIDE DEF reverse
  <2> QED BY <1>2 DEF DeltaBytes, GrowthAlong
<1> DEFINE there == GrowthAlong(from, to, delta, base, i)
           here == GrowthAlong(to, from, reverse, i, base)
           cost == DeltaBytes(base, delta)
           turned == DeltaBytes(i, reverse)
<1> HIDE DEF a, b, back, bytes, dback, dbytes, pre, suf, x, y, there, here, cost, turned
<1>5. /\ cost = y + pre + suf + bytes + dback /\ turned = x + pre + suf + back + dbytes
      /\ there = a - b + back - bytes + dbytes - dback + 2 * (x - y)
      /\ here = b - a + bytes - back + dback - dbytes + 2 * (y - x)
    BY <1>3, <1>4 DEF there, here, cost, turned
<1>6. turned - cost + a - b + x - y = there
    BY <1>1, <1>5
<1>7. here = - there
    BY <1>1, <1>5
<1>8. turned \in Nat /\ cost \in Nat
    BY <1>1, <1>5
<1> QED BY <1>6, <1>7, <1>8 DEF CostsReversed, a, b, x, y, there, here, cost, turned

\* What a turn makes of the deltas and their costs.
TurnedCosts(h, g, sources, target) ==
    LET root == h.current
    IN /\ Weights(g)[root] - Weights(h)[root] + Weights(g)[target] - Weights(h)[target]
             + Len(sources[target]) - Len(sources[root]) + IndexBytes(target) - IndexBytes(root)
             = Growth(h, target)
       /\ Growth(g, root) = - Growth(h, target)
       /\ \A i \in Indices(h) : i \notin {root, target} =>
             Growth(g, i) = Growth(h, i) /\ Weights(g)[i] = Weights(h)[i]

\* That is what it makes of a tree's.
LEMMA TurnCosts ==
    ASSUME NEW h, NEW sources, NEW rank, Tree(h, sources, rank),
           NEW target \in Indices(h), target # h.current,
           h.snapshots[target].base = h.current,
           NEW g,
           Turned(h, g, target, reverse_delta(sources[h.current], h.snapshots[target].delta))
    PROVE  TurnedCosts(h, g, sources, target)
<1> DEFINE root == h.current
           delta == h.snapshots[target].delta
           reverse == reverse_delta(sources[root], delta)
           along == GrowthAlong(sources[root], sources[target], delta, root, target)
           cost == DeltaBytes(root, delta)
           turned == DeltaBytes(target, reverse)
<1>1. /\ root \in Indices(h) /\ sources[root] \in Source /\ sources[target] \in Source
      /\ Joins(delta, sources[root], sources[target])
    BY DEF Tree
<1>2. /\ delta \in Delta /\ Growth(h, target) = along /\ along \in Int
      /\ SnapshotBytes(h.snapshots[target]) = cost
    BY TreeCosts DEF Costs
<1>3. reverse \in Delta
    BY <1>1, <1>2, ReverseJoins
<1>4. TurnedFields(h, g, target, reverse)
    BY <1>1, <1>3, TurnChanges DEF Tree
<1>5. PICK r : Tree(g, sources, r)
    BY TurnKeepsTree
<1>6. g.current = target /\ Indices(g) = Indices(h) /\ g.snapshots \in Seq(Snapshot)
    BY <1>4 DEF Turned, TurnedFields
<1>7. /\ g.snapshots[root].base = target /\ g.snapshots[root].delta = reverse
      /\ g.snapshots[target].base = NoBase /\ h.snapshots[root].base = NoBase
    BY <1>4 DEF TurnedFields, Tree
<1>8. root \in Nat \ {0} /\ target \in Nat \ {0}
    BY <1>1, IndicesFinite DEF Tree
<1>9. /\ turned \in Nat /\ cost \in Nat
      /\ turned - cost + Len(sources[target]) - Len(sources[root])
            + IndexBytes(target) - IndexBytes(root) = along
      /\ GrowthAlong(sources[target], sources[root], reverse, target, root) = - along
  <2>1. CostsReversed(sources[root], sources[target], delta, reverse, root, target)
      BY <1>1, <1>2, <1>8, ReverseCosts
  <2> QED BY <1>2, <2>1 DEF CostsReversed
<1> HIDE DEF delta, reverse, along, cost, turned
<1>10. SnapshotBytes(g.snapshots[root]) = turned /\ Growth(g, root) = - along
  <2>1. Costs(g, sources, root)
      BY <1>1, <1>5, <1>6, TreeCosts
  <2> QED BY <1>7, <1>9, <2>1 DEF Costs, turned
<1>11. SnapshotBytes(h.snapshots[root]) = 0 /\ SnapshotBytes(g.snapshots[target]) = 0
    BY <1>7 DEF SnapshotBytes
<1> DEFINE vr == decimal_bytes(h.snapshots[root].version)
           vt == decimal_bytes(h.snapshots[target].version)
<1>12. /\ decimal_bytes(g.snapshots[root].version) = vr
       /\ decimal_bytes(g.snapshots[target].version) = vt
    BY <1>1, <1>4 DEF TurnedFields, Same
<1>13. vr \in Nat /\ vt \in Nat
  <2>1. h.snapshots[root].version \in Nat /\ h.snapshots[target].version \in Nat
      BY <1>1, IndicesFinite DEF Tree, Snapshot
  <2> QED BY <2>1, DecimalSteps
<1>14. \A i \in Indices(h) :
          /\ Weights(h)[i] = SnapshotBytes(h.snapshots[i]) + decimal_bytes(h.snapshots[i].version)
          /\ Weights(g)[i] = SnapshotBytes(g.snapshots[i]) + decimal_bytes(g.snapshots[i].version)
    BY <1>6 DEF Weights
<1> HIDE DEF vr, vt
<1>15. /\ Weights(h)[root] = 0 + vr /\ Weights(g)[target] = 0 + vt
       /\ Weights(h)[target] = cost + vt /\ Weights(g)[root] = turned + vr
    BY <1>1, <1>2, <1>10, <1>11, <1>12, <1>14 DEF vr, vt
<1>16. ASSUME NEW i \in Indices(h), i \notin {root, target}
       PROVE  Growth(g, i) = Growth(h, i) /\ Weights(g)[i] = Weights(h)[i]
  <2>1. /\ g.snapshots[i].base = h.snapshots[i].base /\ g.snapshots[i].delta = h.snapshots[i].delta
        /\ Same(g.snapshots[i], h.snapshots[i])
      BY <1>4, <1>16 DEF TurnedFields
  <2>2. h.snapshots[i].base \in Indices(h)
      BY <1>16 DEF Tree
  <2>3. Same(g.snapshots[h.snapshots[i].base], h.snapshots[h.snapshots[i].base])
      BY <1>4, <2>2 DEF TurnedFields
  <2>4. Growth(g, i) = Growth(h, i)
      BY <2>1, <2>3 DEF Growth, Same
  <2>5. SnapshotBytes(g.snapshots[i]) = SnapshotBytes(h.snapshots[i])
      BY <2>1 DEF SnapshotBytes
  <2> QED BY <1>14, <2>1, <2>4, <2>5 DEF Same
<1>17. Weights(g)[root] - Weights(h)[root] + Weights(g)[target] - Weights(h)[target]
          + Len(sources[target]) - Len(sources[root]) + IndexBytes(target) - IndexBytes(root)
          = along
  <2> DEFINE a == Len(sources[target])
             b == Len(sources[root])
             x == IndexBytes(target)
             y == IndexBytes(root)
             wr == Weights(g)[root]
             wt == Weights(g)[target]
             fr == Weights(h)[root]
             ft == Weights(h)[target]
  <2>1. a \in Nat /\ b \in Nat /\ x \in Nat /\ y \in Nat
      BY <1>1, <1>8, LenProperties, IndexBytesTyped DEF Source
  <2>2. turned - cost + a - b + x - y = along
      BY <1>9
  <2>3. fr = vr /\ wt = vt /\ ft = cost + vt /\ wr = turned + vr
      BY <1>13, <1>15
  <2> HIDE DEF a, b, x, y, wr, wt, fr, ft
  <2>4. wr - fr + wt - ft + a - b + x - y = along
      BY <1>9, <1>13, <2>1, <2>2, <2>3
  <2> QED BY <2>4 DEF a, b, x, y, wr, wt, fr, ft
<1> HIDE DEF root
<1>18. Growth(g, root) = - Growth(h, target)
    BY <1>2, <1>10
<1> QED BY <1>2, <1>16, <1>17, <1>18 DEF TurnedCosts, root

\* The document with the root moved on is as much larger as the delta says.
LEMMA TurnDocument ==
    ASSUME NEW h, NEW sources, NEW rank, Tree(h, sources, rank),
           NEW target \in Indices(h), target # h.current,
           h.snapshots[target].base = h.current,
           NEW g,
           Turned(h, g, target, reverse_delta(sources[h.current], h.snapshots[target].delta)),
           NEW p \in Project, p.source = sources[h.current],
           NEW q \in Project, q.source = sources[target],
           q.version = p.version, q.operations = p.operations
    PROVE  project_document(q, g) = project_document(p, h) + Growth(h, target)
<1> DEFINE root == h.current
           S == Indices(h)
           f == Weights(h)
           w == Weights(g)
           m == [i \in S |-> IF i = root THEN w[i] ELSE f[i]]
<1>1. TurnedCosts(h, g, sources, target)
    BY TurnCosts
<1>2. /\ h.snapshots \in Seq(Snapshot) /\ g.snapshots \in Seq(Snapshot)
      /\ Indices(g) = S /\ g.current = target /\ root \in S /\ target \in S
    BY DEF Turned, Tree, Indices
<1>3. IsFiniteSet(S) /\ f \in [S -> Int] /\ w \in [S -> Int]
    BY <1>2, IndicesFinite, WeightsTyped
<1>4. \A i \in S : i \notin {root, target} => w[i] = f[i]
    BY <1>1 DEF TurnedCosts
<1> HIDE DEF f, w, S, root
<1>5. m \in [S -> Int] /\ m[root] = w[root] /\ m[target] = f[target]
    BY <1>2, <1>3 DEF root
<1>6. \A i \in S : i # root => m[i] = f[i]
    OBVIOUS
<1>7. \A i \in S : i # target => w[i] = m[i]
    BY <1>4
<1> HIDE DEF m
<1>8. SumOf(m, S) = SumOf(f, S) + m[root] - f[root]
  <2>1. DiffersAt(f, m, S, root)
      BY <1>2, <1>3, <1>5, <1>6 DEF DiffersAt
  <2> QED BY <1>3, <2>1, SumMoves
<1>9. SumOf(w, S) = SumOf(m, S) + w[target] - m[target]
  <2>1. DiffersAt(m, w, S, target)
      BY <1>2, <1>3, <1>5, <1>7 DEF DiffersAt
  <2> QED BY <1>3, <2>1, SumMoves
<1> DEFINE a == Len(sources[target])
           b == Len(sources[root])
           x == IndexBytes(target)
           y == IndexBytes(root)
           wr == w[root]
           wt == w[target]
           fr == f[root]
           ft == f[target]
           sf == SumOf(f, S)
           sw == SumOf(w, S)
           sm == SumOf(m, S)
           pp == ProjectBytes(p)
           pq == ProjectBytes(q)
           grown == Growth(h, target)
           before == project_document(p, h)
           after == project_document(q, g)
<1>10. before = pp + y + sf /\ after = pq + x + sw
    BY <1>2, SizesAreSums DEF f, w, S, root
<1>11. /\ sf \in Int /\ sm \in Int /\ fr \in Int /\ ft \in Int /\ wr \in Int /\ wt \in Int
    BY <1>2, <1>3, <1>5, SumTyped
<1>12. x \in Nat /\ y \in Nat
  <2>1. root \in Nat \ {0} /\ target \in Nat \ {0}
      BY <1>2, IndicesFinite DEF S
  <2> QED BY <2>1, IndexBytesTyped
<1>13. a \in Nat /\ b \in Nat
  <2>1. sources[root] \in Source /\ sources[target] \in Source
      BY DEF Tree, root
  <2> QED BY <2>1, LenProperties DEF Source
<1>14. pp \in Int /\ pq = pp + a - b
  <2> DEFINE v == decimal_bytes(p.version)
             o == p.operations
  <2>1. v \in Nat /\ o \in Nat
      BY DecimalSteps DEF Project
  <2>2. pp = b - 1 + v + o /\ pq = a - 1 + v + o
      BY DEF ProjectBytes, root
  <2> HIDE DEF v, o, a, b, pp, pq
  <2> QED BY <1>13, <2>1, <2>2
<1>15. /\ wr - fr + wt - ft + a - b + x - y = grown
       /\ sm = sf + wr - fr /\ sw = sm + wt - ft
    BY <1>1, <1>5, <1>8, <1>9 DEF TurnedCosts, f, w, root
<1> HIDE DEF a, b, x, y, wr, wt, fr, ft, sf, sw, sm, pp, pq, grown, before, after
<1>16. after = before + grown
    BY <1>10, <1>11, <1>12, <1>13, <1>14, <1>15
<1> QED BY <1>16 DEF after, before, grown

\* A turn leaves the size of the document with each snapshot in front as it was.
LEMMA TurnKeepsWeights ==
    ASSUME NEW h, NEW sources, NEW rank, Tree(h, sources, rank),
           NEW target \in Indices(h), target # h.current,
           h.snapshots[target].base = h.current,
           NEW g,
           Turned(h, g, target, reverse_delta(sources[h.current], h.snapshots[target].delta)),
           NEW p \in Project, p.source = sources[h.current],
           NEW q \in Project, q.source = sources[target],
           q.version = p.version, q.operations = p.operations,
           NEW bytes, Weighed(p, h, bytes)
    PROVE  Weighed(q, g, bytes)
<1> DEFINE root == h.current
           reverse == reverse_delta(sources[root], h.snapshots[target].delta)
<1>1. /\ Growth(g, root) = - Growth(h, target)
      /\ \A i \in Indices(h) : i \notin {root, target} => Growth(g, i) = Growth(h, i)
  <2>1. TurnedCosts(h, g, sources, target)
      BY TurnCosts
  <2> QED BY <2>1 DEF TurnedCosts
<1>2. Growth(h, target) \in Int
    BY TreeCosts DEF Costs
<1>3. TurnedFields(h, g, target, reverse)
  <2>1. h.snapshots[target].delta \in Delta
      BY TreeCosts DEF Costs
  <2>2. reverse \in Delta
      BY <2>1, ReverseJoins DEF Tree
  <2> QED BY <2>2, TurnChanges DEF Tree
<1>4. bytes[target] = bytes[root] + Growth(h, target)
    BY DEF Weighed
<1>5. bytes[target] = project_document(q, g)
  <2>1. project_document(q, g) = project_document(p, h) + Growth(h, target)
      BY TurnDocument
  <2> QED BY <1>4, <2>1 DEF Weighed
<1>6. Indices(g) = Indices(h) /\ g.current = target
    BY <1>3 DEF TurnedFields, Turned
<1>7. ASSUME NEW i \in Indices(h), i # target
      PROVE  bytes[i] = bytes[g.snapshots[i].base] + Growth(g, i)
  <2>1. CASE i = root
    <3>1. g.snapshots[i].base = target
        BY <1>3, <2>1 DEF TurnedFields
    <3>2. bytes[root] \in Int /\ root \in Indices(h)
        BY DEF Weighed, Tree
    <3> HIDE DEF root
    <3> QED BY <1>1, <1>2, <1>4, <2>1, <3>1, <3>2
  <2>2. CASE i # root
    <3>1. g.snapshots[i].base = h.snapshots[i].base
        BY <1>3, <1>7, <2>2 DEF TurnedFields
    <3>2. bytes[i] = bytes[h.snapshots[i].base] + Growth(h, i)
        BY <2>2 DEF Weighed
    <3> QED BY <1>1, <1>7, <2>2, <3>1, <3>2
  <2> QED BY <2>1, <2>2
<1> QED BY <1>5, <1>6, <1>7 DEF Weighed

----------------------------------------------------------------------------
(* Visits *)

\* A walk through the tree h has come to a place: what is further from the root of h
\* than the place is still as it was, and the sizes are.
Standing(h, p, sources, rank, bytes, at, place) ==
    /\ at \in Places(Len(h.snapshots)) /\ ~at.failed
    /\ at.root = place /\ at.source = sources[place]
    /\ \E r : Tree(HistoryOf(at), sources, r)
    /\ \A j \in Indices(h) : rank[j] > rank[place] => at.snapshots[j] = h.snapshots[j]
    /\ \A j \in Indices(h) : at.snapshots[j].version = h.snapshots[j].version
    /\ Weighed([p EXCEPT !.source = at.source], HistoryOf(at), bytes)

\* A step of the walk.
LEMMA StandingMoves ==
    ASSUME NEW h, NEW sources, NEW rank, Tree(h, sources, rank),
           NEW p \in Project, NEW bytes, NEW at, NEW place,
           Standing(h, p, sources, rank, bytes, at, place),
           NEW target \in Indices(h), target # h.current, h.snapshots[target].base = place
    PROVE  Standing(h, p, sources, rank, bytes, reroot_step(at, target), target)
<1> DEFINE n == Len(h.snapshots)
           next == reroot_step(at, target)
           here == HistoryOf(at)
           there == HistoryOf(next)
           delta == at.snapshots[target].delta
           q == [p EXCEPT !.source = at.source]
           r == [p EXCEPT !.source = next.source]
<1>1. /\ n \in Nat /\ Indices(h) = 1..n /\ target \in 1..n
      /\ \A j \in Indices(h) : rank[j] \in Nat
      /\ rank[place] < rank[target] /\ place \in Indices(h)
    BY LenProperties DEF Tree, Indices
<1>2. at \in Places(n) /\ ~at.failed /\ at.root = place /\ at.source = sources[place]
    BY DEF Standing
<1>3. PICK k : Tree(here, sources, k)
    BY DEF Standing
<1>4. target # at.root /\ at.snapshots[target] = h.snapshots[target]
    BY <1>1, <1>2 DEF Standing
<1>5. here.snapshots = at.snapshots /\ here.current = at.root /\ Indices(here) = Indices(h)
    BY <1>1, <1>2 DEF HistoryOf, Indices, Places
<1>6. /\ ~next.failed /\ next.root = target /\ next.source = sources[target]
      /\ Turned(here, there, target, reverse_delta(at.source, delta))
    BY <1>1, <1>2, <1>3, <1>4, StepTurns
<1>7. next \in Places(n)
    BY <1>1, <1>2, StepTyped
<1>8. there.snapshots = next.snapshots /\ there.current = next.root
    BY DEF HistoryOf
<1> HIDE DEF here, there, next
<1>9. /\ target \in Indices(here) /\ target # here.current
      /\ here.snapshots[target].base = here.current
      /\ Turned(here, there, target,
                reverse_delta(sources[here.current], here.snapshots[target].delta))
    BY <1>2, <1>4, <1>5, <1>6
<1>10. \E m : Tree(there, sources, m)
    BY <1>3, <1>9, TurnKeepsTree
<1>11. reverse_delta(at.source, delta) \in Delta
  <2>1. /\ sources[here.current] \in Source /\ sources[target] \in Source
        /\ Joins(here.snapshots[target].delta, sources[here.current], sources[target])
      BY <1>3, <1>9 DEF Tree
  <2>2. here.snapshots[target] \in Snapshot
      BY <1>3, <1>9, IndicesFinite DEF Tree
  <2>3. here.snapshots[target].delta \in Delta
      BY <2>2 DEF Snapshot
  <2> QED BY <1>2, <1>5, <2>1, <2>3, ReverseJoins
<1>12. TurnedFields(here, there, target, reverse_delta(at.source, delta))
    BY <1>3, <1>6, <1>9, <1>11, TurnChanges DEF Tree
<1>13. \A j \in Indices(h) : next.snapshots[j].version = h.snapshots[j].version
  <2>1. \A j \in Indices(h) : next.snapshots[j].version = at.snapshots[j].version
      BY <1>5, <1>8, <1>12 DEF TurnedFields, Same
  <2> QED BY <2>1 DEF Standing
<1>14. ASSUME NEW j \in Indices(h), rank[j] > rank[target]
       PROVE  next.snapshots[j] = h.snapshots[j]
  <2>1. rank[j] \in Nat /\ rank[target] \in Nat /\ rank[place] \in Nat
      BY <1>1
  <2>2. rank[j] > rank[place] /\ j # target /\ j # place
      BY <1>1, <1>14, <2>1
  <2>3. at.snapshots[j] = h.snapshots[j]
      BY <2>2 DEF Standing
  <2>4. next.snapshots[j] = at.snapshots[j]
      BY <1>2, <1>5, <1>6, <1>8, <2>2 DEF Turned
  <2> QED BY <2>3, <2>4
<1>15. /\ at.source \in Source /\ next.source \in Source
    BY <1>2, <1>7 DEF Places
<1>16. /\ q \in Project /\ q.source = sources[here.current]
       /\ r \in Project /\ r.source = sources[target]
       /\ r.version = q.version /\ r.operations = q.operations
    BY <1>2, <1>5, <1>6, <1>15 DEF Project
<1>17. Weighed(q, here, bytes)
    BY DEF Standing, here
<1> HIDE DEF q, r
<1>18. Weighed(r, there, bytes)
    BY <1>3, <1>9, <1>16, <1>17, TurnKeepsWeights
<1> QED BY <1>6, <1>7, <1>10, <1>13, <1>14, <1>18 DEF Standing, next, there, r

\* A visit arrives.
LEMMA RerootArrives ==
    ASSUME NEW h, NEW sources, NEW rank, Tree(h, sources, rank),
           NEW p \in Project, p.source = sources[h.current],
           NEW bytes, Weighed(p, h, bytes), NEW i \in Indices(h)
    PROVE  Standing(h, p, sources, rank, bytes, reroot(h, p, i), i)
<1> DEFINE N == Len(h.snapshots)
           A == Places(N)
           S == Indices(h)
           s == path(h, i)
           n == Len(s)
           start == [snapshots |-> h.snapshots, source |-> p.source, root |-> h.current,
                     failed |-> ~Matches(h.snapshots[h.current], p.source)]
           F == [x \in A \X S |-> reroot_step(x[1], x[2])]
           place(k) == IF k = 0 THEN h.current ELSE s[k]
           J == [k \in 0..n |-> {at \in A : Standing(h, p, sources, rank, bytes, at, place(k))}]
           Next0(g) == [t \in SUBSET (1..n) |->
                           IF t = {} THEN start ELSE reroot_step(g[t \ {Max(t)}], s[Max(t)])]
           iter == CHOOSE g : g = Next0(g)
<1>1. Leads(s, h, i)
    BY PathLeads
<1>2. n \in Nat /\ s \in [1..n -> S] /\ DOMAIN s = 1..n /\ (s = <<>> <=> n = 0)
    BY <1>1, LenProperties, EmptySeq DEF Leads
<1>3. reroot(h, p, i) = iter[1..n]
  <2>1. DOMAIN s = 1..n
      BY <1>2
  <2> QED BY <2>1 DEF reroot, FoldLeft, MapThenFoldSet
<1>4. N \in Nat /\ S = 1..N /\ h.current \in S
    BY LenProperties DEF Tree, Indices
<1>5. \A at \in A, target \in S : reroot_step(at, target) \in A
    BY <1>4, StepTyped
<1>6. Standing(h, p, sources, rank, bytes, start, h.current)
  <2>1. Matches(h.snapshots[h.current], p.source)
      BY DEF Tree
  <2>2. /\ start.snapshots = h.snapshots /\ start.source = p.source
        /\ start.root = h.current /\ start.failed = FALSE
      BY <2>1
  <2>3. start \in A
    <3>1. h.snapshots \in Seq(Snapshot) /\ p.source \in Source
        BY DEF Tree, Project
    <3>2. start \in [snapshots : Seq(Snapshot), source : Source, root : Nat, failed : BOOLEAN]
        BY <1>4, <3>1
    <3> HIDE DEF start
    <3> QED BY <1>4, <2>2, <3>2 DEF Places
  <2> DEFINE g == HistoryOf(start)
  <2>4. g.snapshots = h.snapshots /\ g.current = h.current
      BY <2>2 DEF HistoryOf
  <2> HIDE DEF g, start
  <2>5. Indices(g) = Indices(h)
      BY <2>4 DEF Indices
  <2>6. Tree(g, sources, rank)
      BY <2>4, <2>5 DEF Tree
  <2>7. [p EXCEPT !.source = start.source] = p
      BY <2>2 DEF Project
  <2>8. project_document(p, g) = project_document(p, h)
    <3>1. g.snapshots \in Seq(Snapshot) /\ h.snapshots \in Seq(Snapshot)
        BY <2>4 DEF Tree
    <3>2. Weights(g) = Weights(h)
        BY <2>4, <2>5 DEF Weights
    <3> QED BY <2>4, <2>5, <3>1, <3>2, SizesAreSums
  <2>9. \A j : Growth(g, j) = Growth(h, j)
      BY <2>4 DEF Growth
  <2>10. Weighed(p, g, bytes)
      BY <2>4, <2>5, <2>8, <2>9 DEF Weighed
  <2> QED BY <2>2, <2>3, <2>6, <2>7, <2>10 DEF Standing, g
<1>7. start \in A
    BY <1>6 DEF Standing
<1>8. F \in [A \X S -> A] /\ \A at \in A, target \in S : F[<<at, target>>] = reroot_step(at, target)
  <2> HIDE DEF A, S
  <2> QED BY <1>5
<1> HIDE DEF F, A, S, start, s, n
<1>9. PICK g : TypedFolding(g, F, start, s, n, A, S)
    BY <1>2, <1>7, <1>8, TypedFoldExists
<1>10. g = Next0(g)
    BY <1>8, <1>9 DEF Folding, TypedFolding
<1>11. iter = Next0(iter)
    BY <1>10
<1> HIDE DEF iter
<1>12. iter[{}] \in J[0]
  <2>1. iter[{}] = start
      BY <1>11
  <2> QED BY <1>2, <1>6, <1>7, <2>1
<1>13. ASSUME NEW k \in 1..n, iter[(1..k) \ {k}] \in J[k - 1] PROVE iter[1..k] \in J[k]
  <2> DEFINE at == iter[(1..k) \ {k}]
  <2>1. iter[1..k] = reroot_step(at, s[k])
      BY <1>2, <1>11, MaxOfInterval
  <2>2. k - 1 \in 0..n /\ k \in 0..n /\ k # 0 /\ (k - 1 = 0 <=> k = 1)
      BY <1>2
  <2>3. at \in A /\ Standing(h, p, sources, rank, bytes, at, place(k - 1))
      BY <1>13, <2>2
  <2>4. s[k] # h.current /\ h.snapshots[s[k]].base = place(k - 1) /\ s[k] \in S
      BY <1>1, <1>2, <2>2 DEF Leads, s, n
  <2> HIDE DEF at, place
  <2>5. Standing(h, p, sources, rank, bytes, reroot_step(at, s[k]), s[k])
      BY <2>3, <2>4, StandingMoves DEF S
  <2>6. place(k) = s[k]
      BY <2>2 DEF place
  <2>7. reroot_step(at, s[k]) \in A
      BY <1>5, <2>3, <2>4
  <2> QED BY <2>1, <2>2, <2>5, <2>6, <2>7
<1>14. iter[1..n] \in J[n]
  <2> HIDE DEF J
  <2> QED BY <1>2, <1>12, <1>13, FoldKeepsAlong
<1>15. n \in 0..n
    BY <1>2
<1>16. Standing(h, p, sources, rank, bytes, iter[1..n], place(n))
    BY <1>14, <1>15
<1>17. place(n) = i
    BY <1>1, <1>2 DEF Leads, s, n
<1> QED BY <1>3, <1>16, <1>17

\* The sources that are put together from a tree are those it is a tree of.
LEMMA TreeRestores ==
    ASSUME NEW h, NEW sources, NEW rank, Tree(h, sources, rank),
           NEW p, p.source = sources[h.current]
    PROVE  RestoredFrom(p, h) = sources
<1> DEFINE S == Indices(h)
           Next0(f) == [i \in S |-> IF i = h.current THEN p.source
                            ELSE apply_snapshot_delta(f[h.snapshots[i].base], h.snapshots[i].delta)]
           source == CHOOSE f : f = Next0(f)
           P == {i \in S : source[i] = sources[i]}
<1>1. RestoredFrom(p, h) = source
    BY DEF RestoredFrom
<1>2. sources \in [S -> Source] /\ rank \in [S -> Nat]
    BY DEF Tree
<1>3. ASSUME NEW i \in S, i # h.current
      PROVE  /\ h.snapshots[i].base \in S /\ rank[h.snapshots[i].base] < rank[i]
             /\ sources[i] = apply_snapshot_delta(sources[h.snapshots[i].base], h.snapshots[i].delta)
    BY <1>3 DEF Tree, Joins
<1> HIDE DEF S
<1>4. sources = Next0(sources)
  <2>1. sources = [i \in S |-> sources[i]]
      BY <1>2
  <2> QED BY <1>3, <2>1
<1>5. source = Next0(source)
    BY <1>4
<1> HIDE DEF source
<1>6. ASSUME NEW i \in S, \A j \in S : rank[j] < rank[i] => j \in P
      PROVE  i \in P
  <2>1. CASE i = h.current
      BY <1>5, <2>1
  <2>2. CASE i # h.current
    <3>1. h.snapshots[i].base \in P
        BY <1>3, <1>6, <2>2
    <3>2. source[i] = apply_snapshot_delta(source[h.snapshots[i].base], h.snapshots[i].delta)
        BY <1>5, <2>2
    <3> QED BY <1>3, <2>2, <3>1, <3>2
  <2> QED BY <2>1, <2>2
<1>7. S \subseteq P
  <2> HIDE DEF P
  <2> QED BY <1>2, <1>6, RankInduction
<1>8. source = [i \in S |-> source[i]] /\ sources = [i \in S |-> sources[i]]
    BY <1>2, <1>5
<1>9. \A i \in S : source[i] = sources[i]
    BY <1>7
<1> QED BY <1>1, <1>8, <1>9

\* The document has a size.
LEMMA DocumentTyped ==
    ASSUME NEW h, h.snapshots \in Seq(Snapshot), h.current \in Indices(h), NEW p \in Project
    PROVE  project_document(p, h) \in Int /\ ProjectBytes(p) \in Int
<1>1. IsFiniteSet(Indices(h)) /\ Weights(h) \in [Indices(h) -> Int] /\ h.current \in Nat \ {0}
    BY IndicesFinite, WeightsTyped
<1>2. SumOf(Weights(h), Indices(h)) \in Int
    BY <1>1, SumTyped
<1>3. IndexBytes(h.current) \in Nat
    BY <1>1, IndexBytesTyped
<1>4. Len(p.source) \in Nat /\ decimal_bytes(p.version) \in Nat /\ p.operations \in Nat
    BY LenProperties, DecimalSteps DEF Project, Source
<1>5. ProjectBytes(p) \in Int
    BY <1>4 DEF ProjectBytes
<1>6. project_document(p, h) = ProjectBytes(p) + IndexBytes(h.current) + SumOf(Weights(h), Indices(h))
    BY SizesAreSums
<1> QED BY <1>2, <1>3, <1>5, <1>6

\* The size of the document with each snapshot in front is well defined.
LEMMA TreeIsWeighed ==
    ASSUME NEW h, NEW sources, NEW rank, Tree(h, sources, rank), NEW p \in Project
    PROVE  \E bytes : Weighed(p, h, bytes)
<1> DEFINE S == Indices(h)
           base == [i \in S |-> project_document(p, h)]
           F == [x \in S \X Int |-> IF x[1] = h.current THEN 0 ELSE x[2] + Growth(h, x[1])]
<1>1. Descending(S, {h.current}, rank, Bases(h))
    BY BasesDescend
<1>2. project_document(p, h) \in Int
    BY DocumentTyped DEF Tree
<1>3. base \in [S -> Int] /\ \A i \in S : base[i] = project_document(p, h)
    BY <1>2
<1>4. \A i \in S : i # h.current => Growth(h, i) \in Int
    BY TreeCosts DEF Costs
<1>5. /\ F \in [S \X Int -> Int]
      /\ \A i \in S, b \in Int : i # h.current => F[<<i, b>>] = b + Growth(h, i)
  <2>1. \A i \in S, b \in Int : i # h.current => b + Growth(h, i) \in Int
      BY <1>4
  <2> QED BY <2>1
<1>6. h.current \in S /\ \A i \in S : i # h.current => Bases(h)[i] = h.snapshots[i].base
                                                      /\ h.snapshots[i].base \in S
    BY DEF Tree, Bases
<1> HIDE DEF S, base, F
<1>7. PICK f \in [S -> Int] : Recursive(f, S, {h.current}, base, Bases(h), F)
    BY <1>1, <1>3, <1>5, RecursionExists
<1>8. f[h.current] = project_document(p, h)
    BY <1>3, <1>6, <1>7 DEF Recursive
<1>9. ASSUME NEW i \in S, i # h.current PROVE f[i] = f[h.snapshots[i].base] + Growth(h, i)
  <2>1. f[i] = F[<<i, f[h.snapshots[i].base]>>]
      BY <1>6, <1>7, <1>9 DEF Recursive
  <2>2. f[h.snapshots[i].base] \in Int
      BY <1>6, <1>7, <1>9
  <2> QED BY <1>5, <1>9, <2>1, <2>2
<1>10. Weighed(p, h, f)
    BY <1>7, <1>8, <1>9 DEF Weighed, S
<1> QED BY <1>10

\* root_bytes finds them.
LEMMA RootBytesWeigh ==
    ASSUME NEW h, NEW sources, NEW rank, Tree(h, sources, rank),
           NEW p, NEW bytes, Weighed(p, h, bytes)
    PROVE  root_bytes(p, h) = bytes
<1> DEFINE S == Indices(h)
           Next0(f) == [i \in S |-> IF i = h.current THEN project_document(p, h)
                                    ELSE f[h.snapshots[i].base] + Growth(h, i)]
           found == CHOOSE f : f = Next0(f)
           P == {i \in S : found[i] = bytes[i]}
<1>1. root_bytes(p, h) = found
    BY DEF root_bytes
<1>2. bytes \in [S -> Int] /\ rank \in [S -> Nat]
    BY DEF Tree, Weighed
<1>3. \A i \in S : bytes[i] = IF i = h.current THEN project_document(p, h)
                              ELSE bytes[h.snapshots[i].base] + Growth(h, i)
    BY DEF Weighed
<1>4. \A i \in S : i # h.current => h.snapshots[i].base \in S /\ rank[h.snapshots[i].base] < rank[i]
    BY DEF Tree
<1> HIDE DEF S
<1>5. bytes = Next0(bytes)
  <2>1. bytes = [i \in S |-> bytes[i]]
      BY <1>2
  <2> QED BY <1>3, <2>1
<1>6. found = Next0(found)
    BY <1>5
<1> HIDE DEF found
<1>7. ASSUME NEW i \in S, \A j \in S : rank[j] < rank[i] => j \in P
      PROVE  i \in P
  <2>1. CASE i = h.current
      BY <1>3, <1>6, <2>1
  <2>2. CASE i # h.current
    <3>1. h.snapshots[i].base \in P
        BY <1>4, <1>7, <2>2
    <3>2. found[i] = found[h.snapshots[i].base] + Growth(h, i)
        BY <1>6, <2>2
    <3> QED BY <1>3, <2>2, <3>1, <3>2
  <2> QED BY <2>1, <2>2
<1>8. S \subseteq P
  <2> HIDE DEF P
  <2> QED BY <1>2, <1>7, RankInduction
<1>9. found = [i \in S |-> found[i]] /\ bytes = [i \in S |-> bytes[i]]
    BY <1>2, <1>6
<1>10. \A i \in S : found[i] = bytes[i]
    BY <1>8
<1> QED BY <1>1, <1>9, <1>10

History == [snapshots : Seq(Snapshot), parents : Seq(Nat), current : Nat]

\* The same snapshots, stored in the same way, perhaps under other versions.
SameTree(g, h) ==
    /\ g.snapshots \in Seq(Snapshot) /\ Len(g.snapshots) = Len(h.snapshots)
    /\ g.current = h.current
    /\ \A i \in Indices(h) :
          /\ g.snapshots[i].base = h.snapshots[i].base
          /\ g.snapshots[i].delta = h.snapshots[i].delta
          /\ g.snapshots[i].source_bytes = h.snapshots[i].source_bytes
          /\ g.snapshots[i].checksum = h.snapshots[i].checksum

\* Versions are nothing to the tree.
LEMMA SameTreeIsTree ==
    ASSUME NEW h, NEW sources, NEW rank, Tree(h, sources, rank), NEW g, SameTree(g, h)
    PROVE  /\ Tree(g, sources, rank) /\ Indices(g) = Indices(h)
           /\ \A i \in Indices(h) : /\ SnapshotBytes(g.snapshots[i]) = SnapshotBytes(h.snapshots[i])
                                    /\ i # h.current => Growth(g, i) = Growth(h, i)
<1>1. Indices(g) = Indices(h)
    BY DEF SameTree, Indices
<1>2. Tree(g, sources, rank)
  <2>1. \A i \in Indices(g) : Matches(g.snapshots[i], sources[i])
      BY <1>1 DEF SameTree, Tree, Matches
  <2> QED BY <1>1, <2>1 DEF SameTree, Tree
<1>3. \A i \in Indices(h) : SnapshotBytes(g.snapshots[i]) = SnapshotBytes(h.snapshots[i])
    BY DEF SameTree, SnapshotBytes
<1>4. ASSUME NEW i \in Indices(h), i # h.current PROVE Growth(g, i) = Growth(h, i)
  <2>1. h.snapshots[i].base \in Indices(h)
      BY <1>4 DEF Tree
  <2> QED BY <2>1 DEF SameTree, Growth
<1> QED BY <1>1, <1>2, <1>3, <1>4

\* The current snapshot under a version.
Dated(g, h, version) ==
    /\ g \in History /\ SameTree(g, h) /\ g.parents = h.parents
    /\ g.snapshots[h.current].version = version
    /\ \A i \in Indices(h) : i # h.current => g.snapshots[i].version = h.snapshots[i].version

\* A history in which one snapshot was replaced.
LEMMA VersionChanges ==
    ASSUME NEW h \in History, h.current \in Indices(h), NEW version \in Nat
    PROVE  Dated(WithCurrentVersion(h, version), h, version)
<1> DEFINE c == h.current
           s == h.snapshots
           e == [s[c] EXCEPT !.version = version]
           t == [s EXCEPT ![c] = e]
           g == WithCurrentVersion(h, version)
<1>1. s \in Seq(Snapshot) /\ c \in 1..Len(s) /\ h.parents \in Seq(Nat) /\ c \in Nat
    BY DEF History, Indices
<1>2. s[c] \in Snapshot
    BY <1>1, ElementOfSeq
<1>3. /\ e \in Snapshot /\ e.version = version /\ e.base = s[c].base /\ e.delta = s[c].delta
      /\ e.source_bytes = s[c].source_bytes /\ e.checksum = s[c].checksum
    BY <1>2 DEF Snapshot
<1>4. g = [h EXCEPT !.snapshots = t]
    BY DEF WithCurrentVersion
<1> HIDE DEF e
<1>5. /\ t \in Seq(Snapshot) /\ Len(t) = Len(s) /\ t[c] = e
      /\ \A i \in 1..Len(s) : i # c => t[i] = s[i]
    BY <1>1, <1>3, ExceptSeq
<1> HIDE DEF t, g, s, c
<1>6. g.snapshots = t /\ g.parents = h.parents /\ g.current = h.current /\ g \in History
    BY <1>4, <1>5 DEF History
<1>7. \A i \in Indices(h) : g.snapshots[i] = IF i = c THEN e ELSE s[i]
    BY <1>5, <1>6 DEF Indices, s
<1>8. SameTree(g, h)
    BY <1>3, <1>5, <1>6, <1>7 DEF SameTree, s, c
<1> QED BY <1>3, <1>6, <1>7, <1>8, <1>1 DEF Dated, g, s, c, Indices

----------------------------------------------------------------------------
(* The invariant *)

\* What parents say: the first snapshot has none, every other one an earlier one.
Derived(h) ==
    /\ Len(h.parents) = Len(h.snapshots)
    /\ \A i \in Indices(h) :
          h.parents[i] \in Nat /\ IF h.parents[i] = NoBase THEN i = 1 ELSE h.parents[i] < i

\* The project and a history that it is the current snapshot of.
Coherent(p, h) ==
    /\ p \in Project /\ h \in History
    /\ \E rank : Tree(h, RestoredFrom(p, h), rank)
    /\ p.source = RestoredFrom(p, h)[h.current]
    /\ Derived(h)
    /\ Len(h.snapshots) <= MAX_HISTORY_SNAPSHOTS
    /\ p.version <= MaxVersion
    /\ \A i \in Indices(h) : h.snapshots[i].version <= MaxVersion

\* The inductive invariant.
HistoryInv == Coherent(project, history) /\ Savable(project, history)

\* A history of one snapshot is coherent when it fits.
LEMMA NewIsCoherent ==
    ASSUME NEW p \in Project, p.version <= MaxVersion, Savable(p, NewHistory(p))
    PROVE  Coherent(p, NewHistory(p)) /\ RestoredFrom(p, NewHistory(p)) = <<p.source>>
<1> DEFINE h == NewHistory(p)
           root == Root(p.source, p.version)
           rank == [i \in 1..1 |-> 0]
           sources == <<p.source>>
<1>1. p.source \in Source /\ p.version \in Nat /\ p.operations \in Nat /\ Len(p.source) \in Nat
    BY LenProperties DEF Project, Source
<1>2. /\ root \in Snapshot /\ root.base = NoBase /\ Matches(root, p.source)
      /\ root.version = p.version
    BY <1>1, NoDeltaTyped DEF Root, Snapshot, Matches
<1>3. h.snapshots = <<root>> /\ h.parents = <<NoBase>> /\ h.current = 1
      /\ h = [snapshots |-> <<root>>, parents |-> <<NoBase>>, current |-> 1]
    BY DEF NewHistory
<1> HIDE DEF h, root
<1>4. /\ <<root>> \in Seq(Snapshot) /\ Len(<<root>>) = 1 /\ <<root>>[1] = root
      /\ <<NoBase>> \in Seq(Nat) /\ Len(<<NoBase>>) = 1 /\ <<NoBase>>[1] = NoBase
    BY <1>2, NoDeltaTyped
<1>5. h \in History /\ Indices(h) = 1..1 /\ Len(h.snapshots) = 1 /\ h.snapshots[1] = root
  <2>1. [snapshots |-> <<root>>, parents |-> <<NoBase>>, current |-> 1] \in History
      BY <1>4 DEF History
  <2>2. Len(h.snapshots) = 1 /\ h.snapshots[1] = root
      BY <1>3, <1>4
  <2> QED BY <1>3, <2>1, <2>2 DEF Indices
<1>6. /\ sources \in [1..1 -> Source] /\ sources[1] = p.source /\ rank \in [1..1 -> Nat]
    BY <1>1
<1>7. Len(p.source) <= MAX_PROJECT_BYTES
  <2>1. ProjectBytes(p) <= MAX_PROJECT_BYTES
      BY DEF Savable, h
  <2>2. decimal_bytes(p.version) \in Nat \ {0}
      BY <1>1, DecimalSteps
  <2>3. MAX_PROJECT_BYTES \in Nat
      BY HistoryAssumption
  <2> QED BY <1>1, <2>1, <2>2, <2>3 DEF ProjectBytes
<1> HIDE DEF sources, rank
<1>8. Tree(h, sources, rank)
    BY <1>2, <1>3, <1>5, <1>6, <1>7 DEF Tree
<1>9. RestoredFrom(p, h) = sources
    BY <1>3, <1>6, <1>8, TreeRestores
<1>10. Derived(h)
    BY <1>3, <1>4, <1>5 DEF Derived, NoBase
<1>11. 1 <= MAX_HISTORY_SNAPSHOTS
    BY HistoryAssumption
<1>12. Coherent(p, h)
    BY <1>2, <1>3, <1>5, <1>6, <1>8, <1>9, <1>10, <1>11 DEF Coherent, h
<1> QED BY <1>9, <1>12 DEF h, sources

\* Other versions and records leave a project coherent.
LEMMA DatedIsCoherent ==
    ASSUME NEW p, NEW h, Coherent(p, h), NEW q \in Project, q.source = p.source,
           q.version <= MaxVersion, NEW g, Dated(g, h, q.version)
    PROVE  Coherent(q, g) /\ RestoredFrom(q, g) = RestoredFrom(p, h)
<1> DEFINE sources == RestoredFrom(p, h)
<1>1. PICK rank : Tree(h, sources, rank)
    BY DEF Coherent
<1>2. g.current = h.current /\ q.source = sources[g.current]
    BY DEF Coherent, Dated, SameTree
<1> HIDE DEF sources
<1>3. Tree(g, sources, rank) /\ Indices(g) = Indices(h)
    BY <1>1, SameTreeIsTree DEF Dated
<1>4. RestoredFrom(q, g) = sources
    BY <1>2, <1>3, TreeRestores
<1>5. Derived(g) /\ Len(g.snapshots) <= MAX_HISTORY_SNAPSHOTS
    BY <1>3 DEF Coherent, Derived, Dated, SameTree
<1>6. \A i \in Indices(g) : g.snapshots[i].version <= MaxVersion
    BY <1>3 DEF Coherent, Dated
<1>7. Coherent(q, g)
    BY <1>2, <1>3, <1>4, <1>5, <1>6 DEF Coherent, Dated
<1> QED BY <1>4, <1>7 DEF sources

\* The source of a coherent project fits in the memory.
LEMMA RootFits ==
    ASSUME NEW p, NEW h, Coherent(p, h)
    PROVE  /\ p.source \in Source /\ h.current \in Indices(h)
           /\ Matches(h.snapshots[h.current], p.source)
           /\ h.snapshots[h.current].base = NoBase
BY DEF Coherent, Tree, Project

\* A function on the numbers up to n is a sequence.
LEMMA SourcesAreSeq ==
    ASSUME NEW n \in Nat, NEW f \in [1..n -> Source]
    PROVE  f \in Seq(Source) /\ Len(f) = n
OBVIOUS

\* A push adds a snapshot in front and keeps all others.
LEMMA PushIsCoherent ==
    ASSUME NEW p, NEW h, Coherent(p, h), NEW next \in Project, next.version <= MaxVersion,
           CanPush(h, p, next)
    PROVE  /\ Coherent(next, push(h, p, next))
           /\ RestoredFrom(next, push(h, p, next)) = Append(RestoredFrom(p, h), next.source)
           /\ push(h, p, next).parents = Append(h.parents, h.current)
           /\ push(h, p, next).current = Len(h.snapshots) + 1
<1> DEFINE sources == RestoredFrom(p, h)
           n == Len(h.snapshots)
           c == h.current
           delta == snapshot_delta(next.source, p.source)
           e == Rebased(h.snapshots[c], n + 1, delta)
           t == [h.snapshots EXCEPT ![c] = e]
           new == Root(next.source, next.version)
           g == push(h, p, next)
           s == Append(sources, next.source)
<1>1. PICK rank : Tree(h, sources, rank)
    BY DEF Coherent
<1>2. /\ p.source \in Source /\ next.source \in Source /\ next.version \in Nat
      /\ h.snapshots \in Seq(Snapshot) /\ n \in Nat /\ n + 1 \in Nat
      /\ c \in 1..n /\ Indices(h) = 1..n /\ h.parents \in Seq(Nat) /\ Len(h.parents) = n
      /\ p.source = sources[c] /\ c \in Nat
  <2>1. p.source \in Source /\ next.source \in Source /\ next.version \in Nat
      BY RootFits DEF Project
  <2>2. h.snapshots \in Seq(Snapshot) /\ h.parents \in Seq(Nat)
      BY DEF Coherent, History
  <2>3. n \in Nat /\ n + 1 \in Nat
      BY <2>2, LenProperties
  <2>4. c \in 1..n /\ Indices(h) = 1..n
      BY RootFits DEF Indices
  <2>5. Len(h.parents) = n /\ p.source = sources[c]
      BY DEF Coherent, Derived
  <2> QED BY <2>1, <2>2, <2>3, <2>4, <2>5
<1>3. delta \in Delta /\ Joins(delta, next.source, p.source)
    BY <1>2, DeltaJoins
<1>4. h.snapshots[c] \in Snapshot
    BY <1>2, ElementOfSeq
<1>5. /\ g.snapshots = Append(t, new) /\ g.parents = Append(h.parents, c) /\ g.current = n + 1
      /\ g = [snapshots |-> Append(t, new), parents |-> Append(h.parents, c), current |-> n + 1]
    BY DEF push, WithNewRoot
<1> HIDE DEF delta, sources, n, c, g
<1>6. Stored(e, h.snapshots[c], n + 1, delta)
    BY <1>2, <1>3, <1>4, RebasedFields
<1>7. /\ new \in Snapshot /\ new.base = NoBase /\ Matches(new, next.source)
      /\ new.version = next.version
    BY <1>2, NoDeltaTyped, LenProperties DEF Root, Snapshot, Matches, Source
<1> HIDE DEF e, new
<1>8. /\ t \in Seq(Snapshot) /\ Len(t) = n /\ t[c] = e
      /\ \A i \in 1..n : i # c => t[i] = h.snapshots[i]
  <2>1. e \in Snapshot
      BY <1>6 DEF Stored
  <2> QED BY <1>2, <2>1, ExceptSeq DEF n
<1> HIDE DEF t
<1>9. /\ g.snapshots \in Seq(Snapshot) /\ Len(g.snapshots) = n + 1
      /\ \A i \in 1..n : g.snapshots[i] = t[i]
      /\ g.snapshots[n + 1] = new
  <2>1. /\ Append(t, new) \in Seq(Snapshot) /\ Len(Append(t, new)) = Len(t) + 1
        /\ \A i \in 1..Len(t) : Append(t, new)[i] = t[i]
        /\ Append(t, new)[Len(t) + 1] = new
      BY <1>7, <1>8, AppendProperties
  <2> QED BY <1>5, <1>8, <2>1
<1>10. /\ g.parents \in Seq(Nat) /\ Len(g.parents) = n + 1
       /\ \A i \in 1..n : g.parents[i] = h.parents[i]
       /\ g.parents[n + 1] = c
  <2>1. c \in Nat /\ h.parents \in Seq(Nat) /\ Len(h.parents) = n
      BY <1>2
  <2>2. /\ Append(h.parents, c) \in Seq(Nat)
        /\ Len(Append(h.parents, c)) = Len(h.parents) + 1
        /\ \A i \in 1..Len(h.parents) : Append(h.parents, c)[i] = h.parents[i]
        /\ Append(h.parents, c)[Len(h.parents) + 1] = c
      BY <2>1, AppendProperties
  <2> QED BY <1>5, <2>1, <2>2
<1>11. g \in History
    BY <1>2, <1>5, <1>9, <1>10 DEF History
<1>12. Indices(g) = 1..(n + 1)
    BY <1>9 DEF Indices
<1>13. sources \in Seq(Source) /\ Len(sources) = n
  <2>1. sources \in [1..n -> Source]
      BY <1>1, <1>2 DEF Tree
  <2> QED BY <1>2, <2>1, SourcesAreSeq
<1>14. /\ s \in [1..(n + 1) -> Source] /\ s[n + 1] = next.source
       /\ \A i \in 1..n : s[i] = sources[i]
  <2>1. /\ s \in Seq(Source) /\ Len(s) = Len(sources) + 1
        /\ \A i \in 1..Len(sources) : s[i] = sources[i]
        /\ s[Len(sources) + 1] = next.source
    <3> DEFINE x == next.source
    <3>1. x \in Source
        BY <1>2
    <3> HIDE DEF x
    <3>2. /\ Append(sources, x) \in Seq(Source) /\ Len(Append(sources, x)) = Len(sources) + 1
          /\ \A i \in 1..Len(sources) : Append(sources, x)[i] = sources[i]
          /\ Append(sources, x)[Len(sources) + 1] = x
        BY <1>13, <3>1, AppendProperties
    <3> QED BY <3>2 DEF x
  <2> HIDE DEF s
  <2>2. s \in [1..Len(s) -> Source]
      BY <2>1, LenProperties
  <2> QED BY <1>13, <2>1, <2>2
<1> DEFINE r == [i \in 1..(n + 1) |-> IF i = n + 1 THEN 0 ELSE rank[i] + 1]
<1>15. \A i \in 1..n : rank[i] \in Nat /\ i \in 1..(n + 1) /\ i # n + 1
    BY <1>1, <1>2 DEF Tree
<1>16. /\ r \in [1..(n + 1) -> Nat] /\ r[n + 1] = 0
       /\ \A i \in 1..n : r[i] = rank[i] + 1
  <2>1. \A i \in 1..(n + 1) : i # n + 1 => i \in 1..n
      BY <1>2
  <2>2. n + 1 \in 1..(n + 1)
      BY <1>2
  <2>3. \A i \in 1..(n + 1) : (IF i = n + 1 THEN 0 ELSE rank[i] + 1) \in Nat
      BY <1>15, <2>1
  <2> QED BY <1>15, <2>2, <2>3
<1> HIDE DEF r, s
<1>17. \A i \in 1..(n + 1) : i \in 1..n \/ i = n + 1
    BY <1>2
<1>18. ASSUME NEW i \in 1..(n + 1)
       PROVE  Matches(g.snapshots[i], s[i]) /\ Len(s[i]) <= MAX_PROJECT_BYTES
  <2>1. CASE i = n + 1
      BY <1>7, <1>9, <1>14, <2>1 DEF CanPush
  <2>2. CASE i \in 1..n
    <3>1. Matches(h.snapshots[i], sources[i]) /\ Len(sources[i]) <= MAX_PROJECT_BYTES
        BY <1>1, <1>2, <2>2 DEF Tree
    <3>2. g.snapshots[i].source_bytes = h.snapshots[i].source_bytes
          /\ g.snapshots[i].checksum = h.snapshots[i].checksum
        BY <1>6, <1>8, <1>9, <2>2 DEF Stored, Same
    <3> QED BY <1>14, <2>2, <3>1, <3>2 DEF Matches
  <2> QED BY <1>17, <2>1, <2>2
<1>19. ASSUME NEW i \in 1..(n + 1), i # n + 1
       PROVE  LET base == g.snapshots[i].base IN
              /\ base \in 1..(n + 1) /\ r[base] < r[i]
              /\ Joins(g.snapshots[i].delta, s[base], s[i])
  <2>1. i \in 1..n
      BY <1>17, <1>19
  <2>2. CASE i = c
    <3>1. g.snapshots[i].base = n + 1 /\ g.snapshots[i].delta = delta
        BY <1>6, <1>8, <1>9, <2>1, <2>2 DEF Stored
    <3>2. n + 1 \in 1..(n + 1) /\ r[n + 1] < r[i]
      <4>1. rank[i] \in Nat /\ r[i] = rank[i] + 1 /\ r[n + 1] = 0
          BY <1>15, <1>16, <2>1
      <4>2. 0 < rank[i] + 1
          BY <4>1
      <4>3. n + 1 \in 1..(n + 1)
          BY <1>2
      <4> QED BY <4>1, <4>2, <4>3
    <3> QED BY <1>2, <1>3, <1>14, <2>1, <2>2, <3>1, <3>2
  <2>3. CASE i # c
    <3> DEFINE base == h.snapshots[i].base
    <3>1. g.snapshots[i].base = base /\ g.snapshots[i].delta = h.snapshots[i].delta
        BY <1>8, <1>9, <2>1, <2>3
    <3>2. /\ base \in 1..n /\ rank[base] < rank[i]
          /\ Joins(h.snapshots[i].delta, sources[base], sources[i])
        BY <1>1, <1>2, <2>1, <2>3 DEF Tree, c
    <3>3. r[base] < r[i] /\ base \in 1..(n + 1)
        BY <1>15, <1>16, <2>1, <3>2
    <3> QED BY <1>14, <2>1, <3>1, <3>2, <3>3
  <2> QED BY <2>2, <2>3
<1>20. Tree(g, s, r)
  <2>1. n + 1 \in 1..(n + 1)
      BY <1>2
  <2> QED BY <1>5, <1>7, <1>9, <1>12, <1>14, <1>16, <1>18, <1>19, <2>1 DEF Tree
<1>21. RestoredFrom(next, g) = s
  <2>1. next.source = s[g.current]
      BY <1>5, <1>14
  <2> QED BY <1>20, <2>1, TreeRestores
<1>22. Derived(g)
  <2>1. ASSUME NEW i \in 1..(n + 1)
        PROVE  g.parents[i] \in Nat /\ IF g.parents[i] = NoBase THEN i = 1 ELSE g.parents[i] < i
    <3>1. CASE i = n + 1
        BY <1>2, <1>10, <3>1 DEF NoBase
    <3>2. CASE i \in 1..n
        BY <1>2, <1>10, <3>2 DEF Coherent, Derived
    <3> QED BY <1>17, <3>1, <3>2
  <2> QED BY <1>9, <1>10, <1>12, <2>1 DEF Derived
<1>23. Len(g.snapshots) <= MAX_HISTORY_SNAPSHOTS
  <2>1. n < MAX_HISTORY_SNAPSHOTS /\ MAX_HISTORY_SNAPSHOTS \in Nat
      BY HistoryAssumption DEF CanPush, n
  <2> QED BY <1>2, <1>9, <2>1
<1>24. ASSUME NEW i \in 1..(n + 1) PROVE g.snapshots[i].version <= MaxVersion
  <2>1. CASE i = n + 1
      BY <1>7, <1>9, <2>1
  <2>2. CASE i \in 1..n
      BY <1>2, <1>6, <1>8, <1>9, <2>2 DEF Coherent, Stored, Same
  <2> QED BY <1>17, <2>1, <2>2
<1>25. next.source = s[g.current]
    BY <1>5, <1>14
<1>26. Coherent(next, g)
    BY <1>11, <1>12, <1>20, <1>21, <1>22, <1>23, <1>24, <1>25 DEF Coherent
<1> QED BY <1>5, <1>21, <1>26 DEF g, s, sources, c, n

\* The project and the history with snapshot i in front, but for the new version.
MovedProject(p, h, i) == [p EXCEPT !.source = reroot(h, p, i).source]
MovedHistory(p, h, i) ==
    [h EXCEPT !.snapshots = reroot(h, p, i).snapshots, !.current = i]

\* A visit moves the root and nothing else.
Moved(p, h, i, q, g) ==
    /\ Coherent(q, g) /\ RestoredFrom(q, g) = RestoredFrom(p, h)
    /\ q.version = p.version /\ q.operations = p.operations
    /\ g.parents = h.parents /\ g.current = i /\ Indices(g) = Indices(h)
    /\ \A j \in Indices(h) : g.snapshots[j].version = h.snapshots[j].version
    /\ Weighed(p, h, root_bytes(p, h)) /\ Weighed(q, g, root_bytes(p, h))

\* That is what it does, whichever the snapshot, and it never fails.
LEMMA VisitMoves ==
    ASSUME NEW p, NEW h, Coherent(p, h), NEW i \in Indices(h)
    PROVE  /\ ~reroot(h, p, i).failed
           /\ Moved(p, h, i, MovedProject(p, h, i), MovedHistory(p, h, i))
<1> DEFINE sources == RestoredFrom(p, h)
           at == reroot(h, p, i)
           first == [h EXCEPT !.snapshots = at.snapshots]
           g == MovedHistory(p, h, i)
           q == MovedProject(p, h, i)
           n == Len(h.snapshots)
<1>1. PICK rank : Tree(h, sources, rank)
    BY DEF Coherent
<1>2. p \in Project /\ p.source = sources[h.current] /\ h \in History
    BY DEF Coherent
<1>3. PICK bytes : Weighed(p, h, bytes)
    BY <1>1, <1>2, TreeIsWeighed
<1>4. root_bytes(p, h) = bytes
    BY <1>1, <1>3, RootBytesWeigh
<1>5. Standing(h, p, sources, rank, bytes, at, i)
    BY <1>1, <1>2, <1>3, RerootArrives
<1> HIDE DEF sources, at
<1>6. /\ at.snapshots \in Seq(Snapshot) /\ Len(at.snapshots) = n /\ at.source \in Source
      /\ ~at.failed /\ at.root = i /\ at.source = sources[i]
      /\ \A j \in Indices(h) : at.snapshots[j].version = h.snapshots[j].version
    BY <1>5 DEF Standing, Places
<1>7. PICK r : Tree(HistoryOf(at), sources, r)
    BY <1>5 DEF Standing
<1>8. n \in Nat /\ Indices(h) = 1..n /\ i \in Nat
    BY <1>2, LenProperties DEF History, Indices
<1>9. /\ first.snapshots = at.snapshots /\ first.parents = h.parents /\ first \in History
    BY <1>2, <1>6 DEF History
<1>10. g = [first EXCEPT !.current = i]
    BY DEF MovedHistory, at
<1> HIDE DEF first, g
<1>11. /\ g.snapshots = at.snapshots /\ g.parents = h.parents /\ g.current = i /\ g \in History
    BY <1>8, <1>9, <1>10 DEF History
<1>12. q = [p EXCEPT !.source = at.source]
    BY DEF MovedProject, at
<1> HIDE DEF q
<1>13. /\ q \in Project /\ q.source = sources[i] /\ q.version = p.version
       /\ q.operations = p.operations
    BY <1>2, <1>6, <1>12 DEF Project
<1>14. /\ HistoryOf(at).snapshots = g.snapshots /\ HistoryOf(at).current = g.current
       /\ Indices(HistoryOf(at)) = Indices(g) /\ Indices(g) = Indices(h)
    BY <1>6, <1>11 DEF HistoryOf, Indices
<1>15. Tree(g, sources, r)
    BY <1>7, <1>14 DEF Tree
<1>16. RestoredFrom(q, g) = sources
    BY <1>11, <1>13, <1>15, TreeRestores
<1>17. Derived(g) /\ Len(g.snapshots) <= MAX_HISTORY_SNAPSHOTS
    BY <1>6, <1>11, <1>14 DEF Coherent, Derived
<1>18. p.version <= MaxVersion /\ \A j \in Indices(g) : g.snapshots[j].version <= MaxVersion
    BY <1>6, <1>11, <1>14 DEF Coherent
<1>19. Coherent(q, g)
    BY <1>11, <1>13, <1>15, <1>16, <1>17, <1>18 DEF Coherent
<1>20. Weighed(q, g, bytes)
  <2>1. Weighed(q, HistoryOf(at), bytes)
      BY <1>5, <1>12 DEF Standing
  <2>2. HistoryOf(at).snapshots \in Seq(Snapshot) /\ g.snapshots \in Seq(Snapshot)
      BY <1>6, <1>11, <1>14
  <2>3. Weights(g) = Weights(HistoryOf(at))
      BY <1>14 DEF Weights
  <2>4. project_document(q, HistoryOf(at)) = project_document(q, g)
      BY <1>14, <2>2, <2>3, SizesAreSums
  <2>5. \A j : Growth(g, j) = Growth(HistoryOf(at), j)
      BY <1>14 DEF Growth
  <2> QED BY <1>14, <2>1, <2>4, <2>5 DEF Weighed
<1>21. Moved(p, h, i, q, g)
    BY <1>3, <1>4, <1>6, <1>11, <1>13, <1>14, <1>16, <1>19, <1>20 DEF Moved, sources
<1> QED BY <1>6, <1>21 DEF at, q, g

\* What a checkout is made of.
LEMMA CheckedOutFields ==
    ASSUME NEW p, NEW h, Coherent(p, h), NEW i \in Indices(h)
    PROVE  /\ ~CheckedOut(h, p, i).failed
           /\ CheckedOut(h, p, i).project \in Project
           /\ CheckedOut(h, p, i).project.source = MovedProject(p, h, i).source
           /\ CheckedOut(h, p, i).project.version = p.version + 1
           /\ CheckedOut(h, p, i).project.operations = p.operations
           /\ Dated(CheckedOut(h, p, i).history, MovedHistory(p, h, i), p.version + 1)
<1> DEFINE q == MovedProject(p, h, i)
           g == MovedHistory(p, h, i)
           after == CheckedOut(h, p, i)
           v == p.version + 1
<1>1. ~reroot(h, p, i).failed /\ Moved(p, h, i, q, g)
    BY VisitMoves
<1>2. q \in Project /\ g \in History /\ g.current \in Indices(g) /\ v \in Nat
      /\ q.version = p.version /\ q.operations = p.operations /\ p \in Project
  <2>1. Coherent(q, g)
      BY <1>1 DEF Moved
  <2>2. q \in Project /\ g \in History /\ p \in Project
      BY <2>1 DEF Coherent
  <2>3. g.current \in Indices(g)
      BY <2>1, RootFits
  <2>4. v \in Nat
      BY <2>2 DEF Project
  <2> QED BY <1>1, <2>2, <2>3, <2>4 DEF Moved
<1>3. /\ ~after.failed
      /\ after.project = [p EXCEPT !.source = reroot(h, p, i).source, !.version = p.version + 1]
      /\ after.history = WithCurrentVersion(g, v)
    BY <1>1 DEF CheckedOut, MovedHistory
<1>4. after.project = [q EXCEPT !.version = v]
    BY <1>2, <1>3 DEF MovedProject
<1>5. Dated(after.history, g, v)
    BY <1>2, <1>3, VersionChanges
<1> HIDE DEF after, q, g, v
<1>6. after.project \in Project /\ after.project.source = q.source
      /\ after.project.version = v /\ after.project.operations = p.operations
    BY <1>2, <1>4 DEF Project
<1> QED BY <1>3, <1>5, <1>6 DEF after, q, g, v

\* The start of a sequence that something was appended to.
LEMMA AppendedStart ==
    ASSUME NEW S, NEW s \in Seq(S), NEW x \in S
    PROVE  SubSeq(Append(s, x), 1, Len(s)) = s
<1> DEFINE t == Append(s, x)
           n == Len(s)
           u == SubSeq(t, 1, n)
<1>1. n \in Nat /\ \A i \in 1..n : t[i] = s[i] /\ s[i] \in S
    BY AppendProperties, LenProperties, ElementOfSeq
<1> HIDE DEF t
<1>2. /\ u \in Seq(S) /\ Len(u) = IF 1 <= n THEN n - 1 + 1 ELSE 0
      /\ \A i \in 1 .. n - 1 + 1 : u[i] = t[1 + i - 1]
    BY <1>1, SubSeqProperties
<1> HIDE DEF u, n
<1>3. Len(u) = n /\ \A i \in 1..n : u[i] = s[i]
  <2>1. n - 1 + 1 = n /\ Len(u) = n
      BY <1>1, <1>2
  <2>2. \A i \in 1..n : 1 + i - 1 = i
      BY <1>1
  <2> QED BY <1>1, <1>2, <2>1, <2>2
<1>4. u = s
    BY <1>2, <1>3, SeqEqual DEF n
<1> QED BY <1>4 DEF u, t, n

\* What loading asks of a delta is so for every delta of a tree.
LEMMA TreeIsValid ==
    ASSUME NEW h, NEW sources, NEW rank, Tree(h, sources, rank), NEW i \in Indices(h)
    PROVE  ValidSnapshot(h, i)
<1>1. CASE i = h.current
    BY <1>1 DEF Tree, ValidSnapshot
<1>2. CASE i # h.current
  <2> DEFINE b == h.snapshots[i].base
             delta == h.snapshots[i].delta
             gone == Between(sources[b], delta.prefix, delta.suffix)
             x == delta.prefix
             y == delta.suffix
             r == Len(delta.replacement)
             m == Len(sources[b])
             n == Len(sources[i])
             back == delta.reverse_replacement_bytes
             left == m - x - y
  <2>1. /\ b \in Indices(h) /\ Joins(delta, sources[b], sources[i])
        /\ sources[b] \in Source /\ sources[i] \in Source
        /\ h.snapshots[i].source_bytes = n /\ h.snapshots[b].source_bytes = m
      BY <1>2 DEF Tree, Matches
  <2>2. b # NoBase
      BY <2>1, IndicesFinite DEF Tree, NoBase
  <2>3. h.snapshots[i] \in Snapshot
      BY IndicesFinite DEF Tree
  <2>4. delta \in Delta /\ x \in Nat /\ y \in Nat /\ r \in Nat /\ m \in Nat
      BY <2>1, <2>3, LenProperties DEF Snapshot, Delta, Source
  <2>5. x + y <= m
      BY <2>1 DEF Joins, InBounds
  <2>6. n = x + r + y
    <3>1. InBounds(sources[b], delta) /\ apply_snapshot_delta(sources[b], delta) = sources[i]
        BY <2>1 DEF Joins
    <3> HIDE DEF b, delta
    <3>2. Len(apply_snapshot_delta(sources[b], delta))
            = delta.prefix + Len(delta.replacement) + delta.suffix
        BY <2>1, <2>4, <3>1, AppliedElements
    <3> QED BY <3>1, <3>2
  <2>7. gone \in Source /\ Len(gone) = left
      BY <2>1, <2>4, <2>5, BetweenElements
  <2>8. back \in Nat /\ left + 2 <= back /\ back <= 2 * left + 2
    <3>1. back = serialized_string_bytes(gone)
        BY <2>1 DEF Joins
    <3> HIDE DEF gone, back, left
    <3> QED BY <2>7, <3>1, SerializedSize
  <2>9. ValidSnapshot(h, i) <=>
          /\ b # NoBase /\ left >= 0 /\ x + r + y = n /\ back \in (left + 2)..(2 * left + 2)
    <3> HIDE DEF left
    <3>1. left = h.snapshots[b].source_bytes - delta.prefix - delta.suffix
        BY <2>1 DEF left
    <3> QED BY <1>2, <2>1, <3>1 DEF ValidSnapshot
  <2> HIDE DEF b, back, x, y, r, m, n
  <2>10. left >= 0 /\ left \in Nat
      BY <2>4, <2>5
  <2> HIDE DEF left
  <2>11. back \in (left + 2)..(2 * left + 2)
      BY <2>8, <2>10
  <2> QED BY <2>2, <2>6, <2>9, <2>10, <2>11
<1> QED BY <1>1, <1>2

\* A document that was saved is accepted.
LEMMA SavedIsAcceptable ==
    ASSUME NEW p, NEW h, Coherent(p, h), Savable(p, h)
    PROVE  Acceptable(h, p)
<1>1. PICK rank : Tree(h, RestoredFrom(p, h), rank)
    BY DEF Coherent
<1>2. \A i \in Indices(h) : ValidSnapshot(h, i)
    BY <1>1, TreeIsValid
<1>3. Matches(h.snapshots[h.current], p.source)
    BY RootFits
<1> QED BY <1>2, <1>3 DEF Coherent, Derived, Savable, Acceptable

\* A step of the ledger in terms of two projects and their histories.
Extends(p, h, q, g, source) ==
    /\ q.version = p.version + 1
    /\ RestoredFrom(q, g) = Append(RestoredFrom(p, h), source) /\ source \in Source
    /\ g.parents = Append(h.parents, h.current) /\ g.current = Len(h.snapshots) + 1

GoesTo(p, h, q, g) ==
    /\ q.version \in {p.version, p.version + 1}
    /\ RestoredFrom(q, g) = RestoredFrom(p, h) /\ g.parents = h.parents
    /\ g.current \in Indices(h) /\ (q.version = p.version => g.current = h.current)

\* Whatever a step does, it adds one snapshot or goes to one there is.
LEMMA HistoryStep ==
    ASSUME HistoryInv, Next
    PROVE  /\ HistoryInv'
           /\ \/ \E source \in Source : Extends(project, history, project', history', source)
              \/ GoesTo(project, history, project', history')
<1>0. /\ Coherent(project, history) /\ Savable(project, history)
      /\ project \in Project /\ history \in History
      /\ project.version \in Nat /\ project.operations \in Nat /\ project.version <= MaxVersion
      /\ history.current \in Indices(history) /\ MaxVersion \in Nat
    BY RootFits, HistoryAssumption DEF HistoryInv, Coherent, Project
<1>1. ASSUME NEW source \in Sources, NEW operations \in {project.operations, project.operations + 1},
             Commit(source, operations)
      PROVE  HistoryInv' /\ Extends(project, history, project', history', source)
  <2> DEFINE next == [source |-> source, version |-> project.version + 1,
                      operations |-> operations]
             g == push(history, project, next)
  <2>1. /\ project.version < MaxVersion /\ CanPush(history, project, next) /\ Savable(next, g)
        /\ project' = next /\ history' = g
      BY <1>1 DEF Commit, Save
  <2>2. source \in Source
      BY HistoryAssumption
  <2>3. next \in Project /\ next.version <= MaxVersion /\ next.source = source
        /\ next.version = project.version + 1
      BY <1>0, <2>1, <2>2 DEF Project
  <2> HIDE DEF next, g
  <2>4. /\ Coherent(next, g)
        /\ RestoredFrom(next, g) = Append(RestoredFrom(project, history), next.source)
        /\ g.parents = Append(history.parents, history.current)
        /\ g.current = Len(history.snapshots) + 1
      BY <1>0, <2>1, <2>3, PushIsCoherent DEF g
  <2> QED BY <2>1, <2>2, <2>3, <2>4 DEF HistoryInv, Extends
<1>2. ASSUME NEW version \in {project.version, project.version + 1},
             CommitMetadata(project.operations + 1, version)
      PROVE  HistoryInv' /\ GoesTo(project, history, project', history')
  <2> DEFINE o == project.operations + 1
             q == [project EXCEPT !.operations = o, !.version = version]
             first == [project EXCEPT !.operations = o]
             g == WithCurrentVersion(history, version)
  <2>1. version <= MaxVersion /\ Savable(q, g) /\ project' = q /\ history' = g
      BY <1>2 DEF CommitMetadata, Save
  <2>2. o \in Nat /\ version \in Nat
      BY <1>0
  <2> HIDE DEF o, g
  <2>3. first \in Project /\ first.source = project.source
      BY <1>0, <2>2 DEF Project
  <2>4. q = [first EXCEPT !.version = version]
      OBVIOUS
  <2> HIDE DEF q, first
  <2>5. q \in Project /\ q.source = project.source /\ q.version = version
      BY <2>2, <2>3, <2>4 DEF Project
  <2>6. Dated(g, history, version)
      BY <1>0, <2>2, VersionChanges DEF g
  <2>7. Coherent(q, g) /\ RestoredFrom(q, g) = RestoredFrom(project, history)
      BY <1>0, <2>1, <2>5, <2>6, DatedIsCoherent
  <2>8. g.parents = history.parents /\ g.current = history.current
      BY <2>6 DEF Dated, SameTree
  <2> QED BY <1>0, <2>1, <2>5, <2>7, <2>8 DEF HistoryInv, GoesTo
<1>3. ASSUME NEW i \in Indices(history), Checkout(i)
      PROVE  HistoryInv' /\ GoesTo(project, history, project', history')
  <2> DEFINE after == CheckedOut(history, project, i)
             q == MovedProject(project, history, i)
             g == MovedHistory(project, history, i)
  <2>1. /\ project.version < MaxVersion /\ Savable(after.project, after.history)
        /\ project' = after.project /\ history' = after.history
      BY <1>3 DEF Checkout, Save
  <2>2. /\ after.project \in Project /\ after.project.source = q.source
        /\ after.project.version = project.version + 1
        /\ Dated(after.history, g, project.version + 1)
      BY <1>0, CheckedOutFields
  <2>3. Moved(project, history, i, q, g)
      BY <1>0, VisitMoves
  <2> HIDE DEF after, q, g
  <2>4. after.project.version <= MaxVersion
      BY <1>0, <2>1, <2>2
  <2>5. /\ Coherent(after.project, after.history)
        /\ RestoredFrom(after.project, after.history) = RestoredFrom(q, g)
      BY <2>2, <2>3, <2>4, DatedIsCoherent DEF Moved
  <2>6. after.history.parents = history.parents /\ after.history.current = i
      BY <2>2, <2>3 DEF Dated, SameTree, Moved
  <2>7. RestoredFrom(after.project, after.history) = RestoredFrom(project, history)
      BY <2>3, <2>5 DEF Moved
  <2>8. project.version + 1 # project.version
      BY <1>0
  <2> QED BY <2>1, <2>2, <2>5, <2>6, <2>7, <2>8 DEF HistoryInv, GoesTo
<1>4. ASSUME Reload
      PROVE  HistoryInv' /\ GoesTo(project, history, project', history')
  <2> DEFINE g == WithCurrentVersion(history, project.version)
  <2>1. Acceptable(history, project)
      BY <1>0, SavedIsAcceptable
  <2>2. project' = project /\ history' = g /\ Savable(project, g)
      BY <1>4, <2>1 DEF Reload, Save
  <2> HIDE DEF g
  <2>3. Dated(g, history, project.version)
      BY <1>0, VersionChanges DEF g
  <2>4. Coherent(project, g) /\ RestoredFrom(project, g) = RestoredFrom(project, history)
      BY <1>0, <2>3, DatedIsCoherent
  <2>5. g.parents = history.parents /\ g.current = history.current
      BY <2>3 DEF Dated, SameTree
  <2> QED BY <1>0, <2>2, <2>4, <2>5 DEF HistoryInv, GoesTo
<1>5. CASE \E source \in Sources, operations \in {project.operations, project.operations + 1} :
              operations <= MaxOperations /\ Commit(source, operations)
  <2>1. \A source \in Sources : source \in Source
      BY HistoryAssumption
  <2> QED BY <1>1, <1>5, <2>1
<1>6. CASE /\ project.operations < MaxOperations
           /\ \E version \in {project.version, project.version + 1} :
                 CommitMetadata(project.operations + 1, version)
    BY <1>2, <1>6
<1>7. CASE \E i \in Indices(history) : Checkout(i)
    BY <1>3, <1>7
<1>8. CASE Reload
    BY <1>4, <1>8
<1> QED BY <1>5, <1>6, <1>7, <1>8 DEF Next

\* The invariant holds in every state.
LEMMA HistoryInvariant == Spec => []HistoryInv
<1>1. Init => HistoryInv
  <2> SUFFICES ASSUME Init PROVE HistoryInv
      OBVIOUS
  <2>1. FirstProject \in Project /\ FirstProject.version <= MaxVersion
      BY HistoryAssumption DEF FirstProject, Project
  <2>2. Coherent(FirstProject, NewHistory(FirstProject))
      BY <2>1, FirstAssumption, NewIsCoherent
  <2> QED BY <2>2, FirstAssumption DEF Init, HistoryInv
<1>2. HistoryInv /\ [Next]_vars => HistoryInv'
  <2> SUFFICES ASSUME HistoryInv, [Next]_vars PROVE HistoryInv'
      OBVIOUS
  <2>1. CASE Next
      BY <2>1, HistoryStep
  <2>2. CASE UNCHANGED vars
      BY <2>2 DEF vars, HistoryInv
  <2> QED BY <2>1, <2>2
<1> QED BY <1>1, <1>2, PTL DEF Spec

\* The delta tree keeps the promises of ProjectLedger.
THEOREM HistoryKeepsLedger == Spec => KeepsLedger
<1>1. Init => Ledger!Init
  <2> SUFFICES ASSUME Init PROVE Ledger!Init
      OBVIOUS
  <2>1. FirstProject \in Project /\ FirstProject.version <= MaxVersion /\ FirstProject.version = 1
        /\ FirstProject.source = FirstSource
      BY HistoryAssumption DEF FirstProject, Project
  <2>2. Restored = <<FirstSource>>
      BY <2>1, FirstAssumption, NewIsCoherent DEF Init, Restored
  <2>3. history.parents = <<0>> /\ history.current = 1 /\ project.version = 1
      BY <2>1 DEF Init, NewHistory, NoBase
  <2>4. <<>> = [op \in {} |-> Ledger!NoOperation]
      OBVIOUS
  <2> QED BY <2>2, <2>3, <2>4 DEF Ledger!Init
<1>2. HistoryInv /\ [Next]_vars => [Ledger!Next]_(Ledger!ledger)
  <2> SUFFICES ASSUME HistoryInv, [Next]_vars PROVE [Ledger!Next]_(Ledger!ledger)
      OBVIOUS
  <2>1. Restored \in Seq(Source) /\ Len(Restored) = Len(history.snapshots)
    <3>1. PICK rank : Tree(history, RestoredFrom(project, history), rank)
        BY DEF HistoryInv, Coherent
    <3>2. Len(history.snapshots) \in Nat
        BY LenProperties DEF HistoryInv, Coherent, History
    <3> QED BY <3>1, <3>2, SourcesAreSeq DEF Tree, Indices, Restored
  <2>2. CASE UNCHANGED vars
      BY <2>2 DEF vars, Restored, Ledger!ledger
  <2>3. ASSUME NEW source \in Source, Extends(project, history, project', history', source)
        PROVE  Ledger!Next
    <3>1. /\ Restored' = Append(Restored, source) /\ project'.version = project.version + 1
          /\ history'.parents = Append(history.parents, history.current)
          /\ history'.current = Len(Restored) + 1
        BY <2>1, <2>3 DEF Extends, Restored
    <3>2. Len(Restored') = Len(Restored) + 1
        BY <2>1, <3>1, AppendProperties
    <3>3. SubSeq(Restored', 1, Len(Restored)) = Restored
        BY <2>1, <3>1, AppendedStart
    <3>4. Ledger!Change
        BY <3>1, <3>2, <3>3 DEF Ledger!Change
    <3> QED BY <3>4 DEF Ledger!Next
  <2>4. CASE GoesTo(project, history, project', history') /\ project'.version = project.version
      BY <2>4 DEF GoesTo, Restored, Ledger!ledger
  <2>5. CASE GoesTo(project, history, project', history') /\ project'.version = project.version + 1
    <3>1. /\ Restored' = Restored /\ history'.parents = history.parents
          /\ history'.current \in 1..Len(Restored)
        BY <2>1, <2>5 DEF GoesTo, Restored, Indices
    <3>2. Ledger!Visit
        BY <2>5, <3>1 DEF Ledger!Visit
    <3> QED BY <3>2 DEF Ledger!Next
  <2>6. CASE Next
      BY <2>3, <2>4, <2>5, <2>6, HistoryStep DEF GoesTo
  <2> QED BY <2>2, <2>6
<1> QED BY <1>1, <1>2, HistoryInvariant, PTL DEF Spec, KeepsLedger, Ledger!Spec

\* The largest of finitely many numbers.
LEMMA MaxOfNumbers ==
    ASSUME NEW n \in Nat \ {0}, NEW f, f \in [1..n -> Int]
    PROVE  /\ Max(Range(f)) \in Int
           /\ \A i \in 1..n : f[i] <= Max(Range(f))
           /\ \E i \in 1..n : f[i] = Max(Range(f))
<1> DEFINE T == {k \in Nat : k = 0 \/ k > n \/ \E m \in 1..k : \A j \in 1..k : f[j] <= f[m]}
<1>1. 0 \in T
    OBVIOUS
<1>2. ASSUME NEW k \in Nat, k \in T PROVE k + 1 \in T
  <2> SUFFICES ASSUME k + 1 <= n
               PROVE  \E m \in 1..(k + 1) : \A j \in 1..(k + 1) : f[j] <= f[m]
      BY DEF T
  <2>1. \A j \in 1..(k + 1) : f[j] \in Int /\ (j \in 1..k \/ j = k + 1)
      OBVIOUS
  <2>2. CASE k = 0
    <3>1. 1 \in 1..(k + 1) /\ \A j \in 1..(k + 1) : j = 1
        BY <2>2
    <3>2. f[1] \in Int
        BY <2>1, <3>1
    <3>3. \A j \in 1..(k + 1) : f[j] <= f[1]
        BY <3>1, <3>2
    <3> QED BY <3>1, <3>3
  <2>3. CASE k # 0
    <3>1. PICK m \in 1..k : \A j \in 1..k : f[j] <= f[m]
        BY <1>2, <2>3
    <3>2. m \in 1..(k + 1) /\ k + 1 \in 1..(k + 1) /\ f[m] \in Int /\ f[k + 1] \in Int
        BY <2>1
    <3>3. CASE f[k + 1] <= f[m]
        BY <2>1, <3>1, <3>2, <3>3
    <3>4. CASE f[m] < f[k + 1]
      <4>1. \A j \in 1..k : f[j] <= f[k + 1]
        <5> SUFFICES ASSUME NEW j \in 1..k PROVE f[j] <= f[k + 1]
            OBVIOUS
        <5>1. f[j] \in Int /\ f[j] <= f[m]
            BY <2>1, <3>1
        <5> QED BY <3>2, <3>4, <5>1
      <4> QED BY <2>1, <3>2, <4>1
    <3> QED BY <3>2, <3>3, <3>4
  <2> QED BY <2>2, <2>3
<1>3. Nat \subseteq T
  <2> HIDE DEF T
  <2> QED BY <1>1, <1>2, NumbersInduct
<1>4. PICK m \in 1..n : \A j \in 1..n : f[j] <= f[m]
  <2>1. n \in Nat /\ n # 0 /\ ~(n > n)
      OBVIOUS
  <2>2. n \in T
    <3> HIDE DEF T
    <3> QED BY <1>3, <2>1
  <2> QED BY <2>1, <2>2
<1>5. Range(f) = {f[i] : i \in 1..n}
    BY DEF Range
<1>6. f[m] \in Range(f) /\ \A y \in Range(f) : f[m] >= y
    BY <1>4, <1>5
<1>7. Max(Range(f)) \in Range(f) /\ \A y \in Range(f) : Max(Range(f)) >= y
    BY <1>6 DEF Max
<1>8. PICK i \in 1..n : f[i] = Max(Range(f))
    BY <1>5, <1>7
<1>9. Max(Range(f)) \in Int
    BY <1>8
<1>10. \A j \in 1..n : f[j] \in Int /\ Max(Range(f)) >= f[j]
    BY <1>5, <1>7
<1> QED BY <1>8, <1>9, <1>10

\* The reserve is a number.
LEMMA ReserveTyped ==
    ASSUME NEW h, h.snapshots \in Seq(Snapshot), NEW p \in Project
    PROVE  navigation_metadata_reserve(p, h) \in Int
<1>1. IsFiniteSet(Indices(h)) /\ Rooms(h) \in [Indices(h) -> Int]
    BY IndicesFinite, WeightsTyped
<1>2. SumOf(Rooms(h), Indices(h)) \in Int
    BY <1>1, SumTyped
<1>3. decimal_bytes(p.version) \in Nat /\ MAX_VERSION_BYTES \in Nat
    BY DecimalSteps, HistoryAssumption DEF Project
<1>4. navigation_metadata_reserve(p, h)
        = MAX_VERSION_BYTES - decimal_bytes(p.version) + SumOf(Rooms(h), Indices(h))
    BY SizesAreSums
<1> QED BY <1>2, <1>3, <1>4

\* The same snapshots under the same versions make the same document and reserve.
LEMMA SameSizes ==
    ASSUME NEW h, NEW sources, NEW rank, Tree(h, sources, rank), NEW g, SameTree(g, h),
           \A i \in Indices(h) : g.snapshots[i].version = h.snapshots[i].version, NEW p
    PROVE  /\ project_document(p, g) = project_document(p, h)
           /\ navigation_metadata_reserve(p, g) = navigation_metadata_reserve(p, h)
<1>1. /\ Indices(g) = Indices(h) /\ g.current = h.current
      /\ \A i \in Indices(h) : SnapshotBytes(g.snapshots[i]) = SnapshotBytes(h.snapshots[i])
    BY SameTreeIsTree DEF SameTree
<1>2. Weights(g) = Weights(h) /\ Rooms(g) = Rooms(h)
    BY <1>1 DEF Weights, Rooms
<1>3. g.snapshots \in Seq(Snapshot) /\ h.snapshots \in Seq(Snapshot)
    BY DEF SameTree, Tree
<1> QED BY <1>1, <1>2, <1>3, SizesAreSums

\* Longer versions make the document as much larger as they make the reserve smaller.
Lengthened(p, h, q, g, bytes, d) ==
    /\ d \in Int
    /\ project_document(q, g) = project_document(p, h) + d
    /\ navigation_metadata_reserve(q, g) = navigation_metadata_reserve(p, h) - d
    /\ Weighed(q, g, [i \in Indices(h) |-> bytes[i] + d])

\* That is what a new version of the current snapshot does.
LEMMA DatedLengthens ==
    ASSUME NEW p, NEW h, Coherent(p, h), NEW bytes, Weighed(p, h, bytes),
           NEW q \in Project, q.source = p.source, q.operations = p.operations,
           NEW g, Dated(g, h, q.version)
    PROVE  \E d : Lengthened(p, h, q, g, bytes, d)
<1> DEFINE c == h.current
           S == Indices(h)
           new == decimal_bytes(q.version)
           old == decimal_bytes(p.version)
           was == decimal_bytes(h.snapshots[c].version)
           d == (new - old) + (new - was)
           f == Weights(h)
           w == Weights(g)
           r == Rooms(h)
           s == Rooms(g)
<1>1. PICK rank : Tree(h, RestoredFrom(p, h), rank)
    BY DEF Coherent
<1>2. SameTree(g, h) /\ h.snapshots \in Seq(Snapshot) /\ g.snapshots \in Seq(Snapshot)
      /\ p \in Project /\ c \in S /\ IsFiniteSet(S)
    BY <1>1, IndicesFinite DEF Dated, SameTree, Coherent, Tree
<1>3. /\ Indices(g) = S /\ g.current = c
      /\ \A i \in S : /\ SnapshotBytes(g.snapshots[i]) = SnapshotBytes(h.snapshots[i])
                      /\ i # c => Growth(g, i) = Growth(h, i)
      /\ \A i \in S : i # c => g.snapshots[i].version = h.snapshots[i].version
      /\ g.snapshots[c].version = q.version
    BY <1>1, <1>2, SameTreeIsTree DEF Dated, SameTree
<1>4. new \in Nat /\ old \in Nat /\ was \in Nat /\ MAX_VERSION_BYTES \in Nat
  <2>1. q.version \in Nat /\ p.version \in Nat /\ h.snapshots[c] \in Snapshot
      BY <1>2, IndicesFinite DEF Project
  <2>2. h.snapshots[c].version \in Nat
      BY <2>1 DEF Snapshot
  <2> QED BY <2>1, <2>2, DecimalSteps, HistoryAssumption
<1>5. /\ f \in [S -> Int] /\ w \in [S -> Int] /\ r \in [S -> Int] /\ s \in [S -> Int]
    BY <1>2, <1>3, WeightsTyped
<1>6. /\ \A i \in S : i # c => w[i] = f[i] /\ s[i] = r[i]
      /\ w[c] = SnapshotBytes(h.snapshots[c]) + new /\ f[c] = SnapshotBytes(h.snapshots[c]) + was
      /\ s[c] = MAX_VERSION_BYTES - new /\ r[c] = MAX_VERSION_BYTES - was
    BY <1>2, <1>3 DEF Weights, Rooms
<1>7. SnapshotBytes(h.snapshots[c]) \in Nat
    BY <1>2, IndicesFinite, SnapshotBytesTyped
<1>8. /\ project_document(p, h) = ProjectBytes(p) + IndexBytes(c) + SumOf(f, S)
      /\ project_document(q, g) = ProjectBytes(q) + IndexBytes(c) + SumOf(w, S)
      /\ navigation_metadata_reserve(p, h) = MAX_VERSION_BYTES - old + SumOf(r, S)
      /\ navigation_metadata_reserve(q, g) = MAX_VERSION_BYTES - new + SumOf(s, S)
    BY <1>2, <1>3, SizesAreSums
<1> HIDE DEF f, w, r, s, S
<1>9. DiffersAt(f, w, S, c) /\ DiffersAt(r, s, S, c)
    BY <1>2, <1>5, <1>6 DEF DiffersAt
<1>10. SumOf(w, S) = SumOf(f, S) + w[c] - f[c] /\ SumOf(s, S) = SumOf(r, S) + s[c] - r[c]
    BY <1>2, <1>9, SumMoves
<1> DEFINE sf == SumOf(f, S)
           sw == SumOf(w, S)
           sr == SumOf(r, S)
           ss == SumOf(s, S)
           wc == w[c]
           fc == f[c]
           sc == s[c]
           rc == r[c]
           bc == SnapshotBytes(h.snapshots[c])
           ip == IndexBytes(c)
           pp == ProjectBytes(p)
           pq == ProjectBytes(q)
           dp == project_document(p, h)
           dq == project_document(q, g)
           np == navigation_metadata_reserve(p, h)
           nq == navigation_metadata_reserve(q, g)
<1>11. sf \in Int /\ sr \in Int
    BY <1>2, <1>5, SumTyped
<1>12. ip \in Nat
  <2>1. c \in Nat \ {0}
      BY <1>2, IndicesFinite DEF S
  <2> QED BY <2>1, IndexBytesTyped
<1>13. pp \in Int /\ pq = pp + (new - old)
  <2> DEFINE l == Len(p.source)
             o == p.operations
  <2>1. l \in Nat /\ o \in Nat
      BY <1>2, LenProperties DEF Project, Source
  <2>2. pp = l - 1 + old + o /\ pq = l - 1 + new + o
      BY DEF ProjectBytes
  <2> HIDE DEF l, o, pp, pq, new, old
  <2> QED BY <1>4, <2>1, <2>2
<1>14. /\ dp = pp + ip + sf /\ dq = pq + ip + sw
       /\ np = MAX_VERSION_BYTES - old + sr /\ nq = MAX_VERSION_BYTES - new + ss
       /\ sw = sf + wc - fc /\ ss = sr + sc - rc
       /\ wc = bc + new /\ fc = bc + was
       /\ sc = MAX_VERSION_BYTES - new /\ rc = MAX_VERSION_BYTES - was /\ bc \in Nat
    BY <1>6, <1>7, <1>8, <1>10
<1> HIDE DEF sf, sw, sr, ss, wc, fc, sc, rc, bc, ip, pp, pq, dp, dq, np, nq, new, old, was
<1>15. d \in Int
    BY <1>4
<1>16. dq = dp + d
    BY <1>4, <1>11, <1>12, <1>13, <1>14
<1>17. nq = np - d
    BY <1>4, <1>11, <1>14
<1> HIDE DEF d
<1>18. Weighed(q, g, [i \in S |-> bytes[i] + d])
  <2> DEFINE more == [i \in S |-> bytes[i] + d]
  <2>1. /\ bytes \in [S -> Int] /\ bytes[c] = dp
        /\ \A i \in S : i # c => bytes[i] = bytes[h.snapshots[i].base] + Growth(h, i)
      BY DEF Weighed, S, dp
  <2>2. more \in [S -> Int] /\ \A i \in S : more[i] = bytes[i] + d
      BY <1>15, <2>1
  <2> HIDE DEF more
  <2>3. more[c] = dq
      BY <1>2, <1>16, <2>1, <2>2
  <2>4. ASSUME NEW i \in S, i # c PROVE more[i] = more[g.snapshots[i].base] + Growth(g, i)
    <3> DEFINE b == h.snapshots[i].base
               gr == Growth(h, i)
    <3>1. b \in S /\ gr \in Int /\ g.snapshots[i].base = b /\ Growth(g, i) = gr
      <4>1. Costs(h, RestoredFrom(p, h), i)
          BY <1>1, <2>4, TreeCosts DEF S
      <4> QED BY <1>2, <1>3, <2>4, <4>1 DEF Costs, S, SameTree
    <3> HIDE DEF b, gr
    <3>2. bytes[i] = bytes[b] + gr
        BY <2>1, <2>4 DEF b, gr
    <3>3. bytes[b] \in Int /\ more[b] = bytes[b] + d /\ more[i] = bytes[i] + d
        BY <2>1, <2>2, <3>1
    <3> QED BY <1>15, <3>1, <3>2, <3>3
  <2> QED BY <1>3, <2>2, <2>3, <2>4 DEF Weighed, dq, more
<1>19. Lengthened(p, h, q, g, bytes, d)
    BY <1>15, <1>16, <1>17, <1>18 DEF Lengthened, dp, dq, np, nq, S
<1> QED BY <1>19

\* The largest document, and room for the versions.
LEMMA LargestDocument ==
    ASSUME NEW p, NEW h, Coherent(p, h), NEW bytes, Weighed(p, h, bytes)
    PROVE  /\ root_bytes(p, h) = bytes
           /\ Max(Range(bytes)) \in Int /\ navigation_metadata_reserve(p, h) \in Int
           /\ maximum_persisted_bytes(p, h) = Max(Range(bytes)) + navigation_metadata_reserve(p, h)
           /\ \A i \in Indices(h) : bytes[i] \in Int /\ bytes[i] <= Max(Range(bytes))
           /\ \E i \in Indices(h) : bytes[i] = Max(Range(bytes))
<1> DEFINE n == Len(h.snapshots)
<1>1. root_bytes(p, h) = bytes
    BY RootBytesWeigh DEF Coherent
<1>2. h.snapshots \in Seq(Snapshot) /\ h.current \in 1..n /\ Indices(h) = 1..n /\ p \in Project
    BY RootFits DEF Coherent, History, Indices
<1>3. n \in Nat \ {0}
    BY <1>2, LenProperties
<1> HIDE DEF n
<1>4. bytes \in [1..n -> Int]
    BY <1>2 DEF Weighed
<1>5. /\ Max(Range(bytes)) \in Int
      /\ \A i \in 1..n : bytes[i] <= Max(Range(bytes))
      /\ \E i \in 1..n : bytes[i] = Max(Range(bytes))
    BY <1>3, <1>4, MaxOfNumbers
<1>6. navigation_metadata_reserve(p, h) \in Int
    BY <1>2, ReserveTyped
<1>7. \A i \in Indices(h) : bytes[i] \in Int
    BY <1>2, <1>4
<1> QED BY <1>1, <1>2, <1>5, <1>6, <1>7 DEF maximum_persisted_bytes

\* Without its new version, what a visit writes is as large as root_bytes says.
LEMMA VisitIsWeighed ==
    ASSUME NEW p, NEW h, Coherent(p, h), NEW i \in Indices(h)
    PROVE  LET after == CheckedOut(h, p, i)
           IN project_document([after.project EXCEPT !.version = p.version],
                  [after.history EXCEPT !.snapshots[i].version = h.snapshots[i].version])
              = root_bytes(p, h)[i]
<1> DEFINE after == CheckedOut(h, p, i)
           q == MovedProject(p, h, i)
           g == MovedHistory(p, h, i)
           back == [after.project EXCEPT !.version = p.version]
           kept == [after.history EXCEPT !.snapshots[i].version = h.snapshots[i].version]
           old == h.snapshots[i].version
<1>1. Moved(p, h, i, q, g)
    BY VisitMoves
<1>2. /\ after.project \in Project /\ after.project.source = q.source
      /\ after.project.operations = p.operations
      /\ Dated(after.history, g, p.version + 1)
    BY CheckedOutFields
<1>3. back = q
  <2>1. q \in Project /\ q.version = p.version /\ q.operations = p.operations
      BY <1>1 DEF Moved, Coherent
  <2> HIDE DEF q, after
  <2>2. back \in Project /\ back.source = q.source /\ back.version = q.version
        /\ back.operations = q.operations
      BY <1>2, <2>1 DEF Project
  <2> HIDE DEF back
  <2> QED BY <2>1, <2>2 DEF Project
<1>4. PICK rank : Tree(g, RestoredFrom(q, g), rank)
    BY <1>1 DEF Moved, Coherent
<1>5. /\ after.history \in History /\ after.history.current = i /\ i \in Indices(after.history)
      /\ g.current = i /\ Indices(g) = Indices(h)
  <2>1. after.history \in History /\ SameTree(after.history, g)
      BY <1>2 DEF Dated
  <2>2. g.current = i /\ Indices(g) = Indices(h)
      BY <1>1 DEF Moved
  <2> QED BY <2>1, <2>2 DEF SameTree, Indices
<1>6. old \in Nat
  <2>1. h.snapshots[i] \in Snapshot
      BY IndicesFinite DEF Coherent, History
  <2> QED BY <2>1 DEF Snapshot
<1>7. kept = WithCurrentVersion(after.history, old)
    BY <1>5 DEF WithCurrentVersion
<1> HIDE DEF after, q, g, back, kept, old
<1>8. Dated(kept, after.history, old)
    BY <1>5, <1>6, <1>7, VersionChanges
<1>9. SameTree(kept, g)
    BY <1>2, <1>8 DEF Dated, SameTree, Indices
<1>10. \A j \in Indices(g) : kept.snapshots[j].version = g.snapshots[j].version
  <2>1. Indices(after.history) = Indices(g)
      BY <1>2 DEF Dated, SameTree, Indices
  <2>2. \A j \in Indices(g) : j # i => kept.snapshots[j].version = g.snapshots[j].version
      BY <1>2, <1>5, <1>8, <2>1 DEF Dated
  <2>3. kept.snapshots[i].version = g.snapshots[i].version
      BY <1>1, <1>5, <1>8 DEF Dated, Moved, old
  <2> QED BY <2>2, <2>3
<1>11. project_document(q, kept) = project_document(q, g)
    BY <1>4, <1>9, <1>10, SameSizes
<1>12. project_document(q, g) = root_bytes(p, h)[i]
    BY <1>1, <1>5 DEF Moved, Weighed
<1>13. project_document(back, kept) = root_bytes(p, h)[i]
    BY <1>3, <1>11, <1>12
<1> QED BY <1>13 DEF back, kept, after

\* The size that a commit is judged by is that of the largest document a visit writes.
THEOREM JudgedBySize == Spec => []MaximumIsExact
<1>1. HistoryInv => MaximumIsExact
  <2> SUFFICES ASSUME HistoryInv PROVE MaximumIsExact
      OBVIOUS
  <2> DEFINE p == project
             h == history
             bytes == root_bytes(p, h)
             size(i) == LET after == CheckedOut(h, p, i)
                        IN project_document([after.project EXCEPT !.version = p.version],
                               [after.history EXCEPT !.snapshots[i].version =
                                    h.snapshots[i].version])
             reserve == navigation_metadata_reserve(p, h)
  <2>1. Coherent(p, h) /\ h.current \in Indices(h)
      BY RootFits DEF HistoryInv
  <2>2. Weighed(p, h, bytes)
      BY <2>1, VisitMoves DEF Moved
  <2>3. /\ Max(Range(bytes)) \in Int /\ reserve \in Int
        /\ maximum_persisted_bytes(p, h) = Max(Range(bytes)) + reserve
      BY <2>1, <2>2, LargestDocument
  <2>4. \A i \in Indices(h) : size(i) = bytes[i]
      BY <2>1, VisitIsWeighed
  <2>5. DOMAIN bytes = Indices(h)
      BY <2>2 DEF Weighed
  <2> DEFINE top == Max(Range(bytes))
             sizes == {size(i) : i \in Indices(h)}
             total == maximum_persisted_bytes(p, h)
  <2> HIDE DEF bytes, size, reserve
  <2>6. {size(i) : i \in Indices(h)} = {bytes[i] : i \in Indices(h)}
      BY <2>4
  <2>7. Range(bytes) = {bytes[i] : i \in Indices(h)}
      BY <2>5 DEF Range
  <2>8. sizes = Range(bytes)
      BY <2>6, <2>7
  <2>9. top \in Int /\ total = top + reserve /\ top = Max(sizes)
      BY <2>3, <2>8
  <2> HIDE DEF top, sizes, total
  <2>10. total - reserve = Max(sizes)
      BY <2>3, <2>9
  <2> QED BY <2>10 DEF MaximumIsExact, size, sizes, total, reserve
<1> QED BY <1>1, HistoryInvariant, PTL

\* There is room for the next version of every snapshot.
LEMMA VersionsFit ==
    ASSUME NEW h, h.snapshots \in Seq(Snapshot), NEW p \in Project, p.version <= MaxVersion + 1,
           \A i \in Indices(h) : h.snapshots[i].version <= MaxVersion + 1
    PROVE  navigation_metadata_reserve(p, h) >= 0
<1>1. MAX_VERSION_BYTES \in Nat /\ MaxVersion + 1 \in Nat
    BY HistoryAssumption
<1>2. ASSUME NEW v \in Nat, v <= MaxVersion + 1 PROVE MAX_VERSION_BYTES - decimal_bytes(v) \in Nat
  <2>1. decimal_bytes(v) \in Nat /\ decimal_bytes(MaxVersion + 1) \in Nat
      BY <1>1, DecimalSteps
  <2>2. decimal_bytes(v) <= decimal_bytes(MaxVersion + 1)
      BY <1>1, <1>2, DecimalGrows
  <2> QED BY <1>1, <2>1, <2>2, VersionAssumption
<1>3. \A i \in Indices(h) : h.snapshots[i].version \in Nat
    BY IndicesFinite DEF Snapshot
<1>4. Rooms(h) \in [Indices(h) -> Nat]
    BY <1>2, <1>3 DEF Rooms
<1>5. SumOf(Rooms(h), Indices(h)) \in Nat
    BY <1>4, IndicesFinite, SumNatural
<1>6. MAX_VERSION_BYTES - decimal_bytes(p.version) \in Nat
    BY <1>2 DEF Project
<1>7. navigation_metadata_reserve(p, h)
        = MAX_VERSION_BYTES - decimal_bytes(p.version) + SumOf(Rooms(h), Indices(h))
    BY SizesAreSums
<1> QED BY <1>5, <1>6, <1>7

\* What a visit writes fits where what was judged fits.
LEMMA VisitFits ==
    ASSUME NEW p, NEW h, Coherent(p, h), Savable(p, h), NEW i \in Indices(h)
    PROVE  LET after == CheckedOut(h, p, i)
           IN /\ maximum_persisted_bytes(after.project, after.history) <= MAX_PROJECT_DOCUMENT_BYTES
              /\ project_document(after.project, after.history) <= MAX_PROJECT_DOCUMENT_BYTES
              /\ ProjectBytes(after.project) \in Int
<1> DEFINE q == MovedProject(p, h, i)
           g == MovedHistory(p, h, i)
           r == CheckedOut(h, p, i).project
           k == CheckedOut(h, p, i).history
           bytes == root_bytes(p, h)
<1>1. Moved(p, h, i, q, g)
    BY VisitMoves
<1>2. /\ r \in Project /\ r.source = q.source /\ r.version = p.version + 1
      /\ r.operations = p.operations /\ Dated(k, g, p.version + 1)
    BY CheckedOutFields
<1> HIDE DEF q, g, r, k, bytes
<1>3. /\ Coherent(q, g) /\ q.version = p.version /\ q.operations = p.operations
      /\ Weighed(p, h, bytes) /\ Weighed(q, g, bytes)
      /\ g.current = i /\ Indices(g) = Indices(h)
    BY <1>1 DEF Moved, bytes
<1>4. PICK d : Lengthened(q, g, r, k, bytes, d)
    BY <1>2, <1>3, DatedLengthens
<1> DEFINE more == [j \in Indices(g) |-> bytes[j] + d]
<1>5. /\ d \in Int
      /\ project_document(r, k) = project_document(q, g) + d
      /\ navigation_metadata_reserve(r, k) = navigation_metadata_reserve(q, g) - d
      /\ Weighed(r, k, more)
    BY <1>4 DEF Lengthened
<1>6. PICK rank : Tree(g, RestoredFrom(q, g), rank)
    BY <1>3 DEF Coherent
<1>7. Tree(k, RestoredFrom(q, g), rank) /\ Indices(k) = Indices(h) /\ k.current = i
    BY <1>2, <1>3, <1>6, SameTreeIsTree DEF Dated, SameTree
<1>8. /\ root_bytes(p, h) = bytes
      /\ Max(Range(bytes)) \in Int /\ navigation_metadata_reserve(p, h) \in Int
      /\ maximum_persisted_bytes(p, h) = Max(Range(bytes)) + navigation_metadata_reserve(p, h)
      /\ \A j \in Indices(h) : bytes[j] \in Int /\ bytes[j] <= Max(Range(bytes))
    BY <1>3, LargestDocument
<1>9. navigation_metadata_reserve(q, g) = navigation_metadata_reserve(p, h)
  <2>1. q.version = p.version /\ g.snapshots \in Seq(Snapshot) /\ h.snapshots \in Seq(Snapshot)
      BY <1>3 DEF Coherent, History
  <2>2. Rooms(g) = Rooms(h)
      BY <1>1 DEF Rooms, Moved
  <2> QED BY <1>3, <2>1, <2>2, SizesAreSums
<1>10. root_bytes(r, k) = more
    BY <1>5, <1>7, RootBytesWeigh
<1>11. /\ Max(Range(more)) \in Int
       /\ \A j \in Indices(h) : more[j] <= Max(Range(more))
       /\ \E j \in Indices(h) : more[j] = Max(Range(more))
  <2> DEFINE n == Len(k.snapshots)
  <2>1. k.snapshots \in Seq(Snapshot) /\ Indices(h) = 1..n /\ i \in 1..n
      BY <1>7 DEF Tree, Indices
  <2>2. n \in Nat \ {0}
      BY <2>1, LenProperties
  <2> HIDE DEF n, more
  <2>3. more \in [1..n -> Int]
      BY <1>5, <1>7, <2>1 DEF Weighed
  <2> QED BY <2>1, <2>2, <2>3, MaxOfNumbers
<1>12. maximum_persisted_bytes(r, k) = Max(Range(more)) + navigation_metadata_reserve(r, k)
    BY <1>10 DEF maximum_persisted_bytes
<1>13. \A j \in Indices(h) : more[j] = bytes[j] + d
    BY <1>3
<1>14. project_document(r, k) = more[i]
    BY <1>5, <1>7 DEF Weighed
<1>15. navigation_metadata_reserve(r, k) >= 0
  <2>1. p.version \in Nat /\ p.version <= MaxVersion /\ MaxVersion \in Nat
      BY HistoryAssumption DEF Coherent, Project
  <2>2. \A j \in Indices(g) : g.snapshots[j].version <= MaxVersion /\ g.snapshots[j].version \in Nat
    <3>1. g.snapshots \in Seq(Snapshot)
        BY <1>3 DEF Coherent, History
    <3>2. \A j \in Indices(g) : g.snapshots[j].version \in Nat
        BY <3>1, IndicesFinite DEF Snapshot
    <3> QED BY <1>3, <3>2 DEF Coherent
  <2>3. \A j \in Indices(k) : k.snapshots[j].version <= MaxVersion + 1
    <3>1. \A j \in Indices(k) : k.snapshots[j].version \in {p.version + 1, g.snapshots[j].version}
        BY <1>2, <1>3, <1>7 DEF Dated
    <3> SUFFICES ASSUME NEW j \in Indices(k) PROVE k.snapshots[j].version <= MaxVersion + 1
        OBVIOUS
    <3>2. CASE k.snapshots[j].version = p.version + 1
        BY <2>1, <3>2
    <3>3. CASE k.snapshots[j].version = g.snapshots[j].version
        BY <1>3, <1>7, <2>1, <2>2, <3>3
    <3> QED BY <3>1, <3>2, <3>3
  <2>4. r.version <= MaxVersion + 1
      BY <1>2, <2>1
  <2>5. k.snapshots \in Seq(Snapshot)
      BY <1>7 DEF Tree
  <2> QED BY <1>2, <2>3, <2>4, <2>5, VersionsFit
<1> DEFINE top == Max(Range(bytes))
           room == navigation_metadata_reserve(p, h)
           newTop == Max(Range(more))
           newRoom == navigation_metadata_reserve(r, k)
           limit == MAX_PROJECT_DOCUMENT_BYTES
           document == project_document(r, k)
           largest == maximum_persisted_bytes(r, k)
<1>16. top + room <= limit /\ limit \in Int
    BY <1>8, HistoryAssumption DEF Savable
<1>17. PICK j \in Indices(h) : more[j] = newTop
    BY <1>11
<1>18. bytes[j] \in Int /\ bytes[j] <= top /\ newTop = bytes[j] + d
    BY <1>8, <1>13, <1>17
<1>19. bytes[i] \in Int /\ document = bytes[i] + d /\ document <= newTop
    BY <1>8, <1>11, <1>13, <1>14
<1>20. /\ top \in Int /\ room \in Int /\ newTop \in Int /\ newRoom = room - d /\ newRoom >= 0
       /\ largest = newTop + newRoom
    BY <1>5, <1>8, <1>9, <1>11, <1>12, <1>15
<1>21. ProjectBytes(r) \in Int
    BY <1>2, <1>7, DocumentTyped DEF Tree
<1> HIDE DEF more, top, room, newTop, newRoom, limit, document, largest
<1>22. largest <= limit
    BY <1>5, <1>16, <1>18, <1>20
<1>23. document <= largest
    BY <1>5, <1>19, <1>20
<1>24. document <= limit
    BY <1>5, <1>16, <1>18, <1>19, <1>20, <1>22, <1>23
<1> QED BY <1>21, <1>22, <1>24 DEF limit, document, largest, r, k

\* Every snapshot that was accepted can be visited.
THEOREM HistoryStaysOpen == Spec => []EverySnapshotCanBeVisited
<1>1. HistoryInv => EverySnapshotCanBeVisited
  <2> SUFFICES ASSUME HistoryInv, NEW i \in Indices(history)
               PROVE  LET after == CheckedOut(history, project, i)
                      IN /\ ~after.failed
                         /\ \/ Savable(after.project, after.history)
                            \/ ProjectBytes(after.project) > MAX_PROJECT_BYTES
      BY DEF EverySnapshotCanBeVisited
  <2> DEFINE after == CheckedOut(history, project, i)
  <2>1. Coherent(project, history) /\ Savable(project, history)
      BY DEF HistoryInv
  <2>2. ~after.failed
      BY <2>1, CheckedOutFields
  <2>3. /\ maximum_persisted_bytes(after.project, after.history) <= MAX_PROJECT_DOCUMENT_BYTES
        /\ project_document(after.project, after.history) <= MAX_PROJECT_DOCUMENT_BYTES
        /\ ProjectBytes(after.project) \in Int
      BY <2>1, VisitFits
  <2> HIDE DEF after
  <2>4. MAX_PROJECT_BYTES \in Int
      BY HistoryAssumption
  <2>5. Savable(after.project, after.history) \/ ProjectBytes(after.project) > MAX_PROJECT_BYTES
      BY <2>3, <2>4 DEF Savable
  <2> QED BY <2>2, <2>5 DEF after
<1> QED BY <1>1, HistoryInvariant, PTL

=============================================================================
