-------------------------- MODULE ToolSessionProofs --------------------------
(***************************************************************************)
(* What ToolSession promises, for any projects, selections, presets,       *)
(* patterns and limits, and wherever a write fails: calls that change the  *)
(* files of a session as a whole or not at all, an undo that brings back   *)
(* music and selection, a graph that follows the server's project, ids     *)
(* that are given once, and a listen that covers what sounds different.    *)
(*                                                                         *)
(* The argument has four parts.  A list of writes leaves in each file     *)
(* what was written last, and a rollback undoes any beginning of the list. *)
(* What a tool makes of a graph is made of it in the sense of              *)
(* SoundGraphProofs.  And ToolInv, which is inductive: the files hold      *)
(* projects and regions inside them; what undo would bring back is what    *)
(* was there before the last mutation, also while a handoff is pending;    *)
(* while nobody else has changed the project, a pending graph has no ids   *)
(* but the server's and newer ones, and every id that was ever given is    *)
(* at most that of an entry of the edit log.  Last, TellInv: what waits to *)
(* be committed plays otherwise only on tracks that the listen will cover, *)
(* because each tool names the tracks whose music it changes.              *)
(*                                                                         *)
(* As in ToolSession, a graph is read from a file as it was written.       *)
(***************************************************************************)
EXTENDS ToolSession, SoundGraphProofs

----------------------------------------------------------------------------
(* Writes *)

Names == {"graph", "request", "metadata", "undo", "undo_request", "progress", "slot"}

\* The files of a session, whatever is in them.
IsFiles(f) == f = [name \in Names |-> f[name]]

\* A list of n writes to them.
IsWrites(writes, n) == DOMAIN writes = 1..n /\ \A i \in 1..n : writes[i][1] \in Names

\* The files after the first k writes: what was not written is as it was, the rest as
\* it was written last.
After(now, before, writes, k) ==
    /\ IsFiles(now)
    /\ \A name \in Names :
          (\A i \in 1..k : writes[i][1] # name) => now[name] = before[name]
    /\ \A i \in 1..k :
          (\A j \in 1..k : j > i => writes[j][1] # writes[i][1])
              => now[writes[i][1]] = writes[i][2]

\* One more write.
LEMMA OneWrite ==
    ASSUME NEW n \in Nat, NEW writes, IsWrites(writes, n), NEW k \in 1..n, NEW before,
           NEW now, After(now, before, writes, k - 1)
    PROVE  After([now EXCEPT ![writes[k][1]] = writes[k][2]], before, writes, k)
<1> DEFINE place == writes[k][1]
           then == [now EXCEPT ![place] = writes[k][2]]
<1>1. place \in Names /\ k \in Nat
    BY DEF IsWrites
<1>2. /\ IsFiles(then) /\ then[place] = writes[k][2]
      /\ \A name \in Names : name # place => then[name] = now[name]
    BY <1>1 DEF After, IsFiles
<1> HIDE DEF then, place
<1>3. \A i \in 1..k : i = k \/ i \in 1..(k - 1)
    BY <1>1
<1>4. \A i \in 1..(k - 1) : i \in 1..k /\ k > i
    BY <1>1
<1>5. ASSUME NEW name \in Names, \A i \in 1..k : writes[i][1] # name
      PROVE  then[name] = before[name]
  <2>1. name # place /\ \A i \in 1..(k - 1) : writes[i][1] # name
      BY <1>1, <1>4, <1>5 DEF place
  <2> QED BY <1>2, <2>1 DEF After
<1>6. ASSUME NEW i \in 1..k, \A j \in 1..k : j > i => writes[j][1] # writes[i][1]
      PROVE  then[writes[i][1]] = writes[i][2]
  <2>1. CASE i = k
      BY <1>2, <2>1 DEF place
  <2>2. CASE i # k
    <3>1. i \in 1..(k - 1) /\ writes[i][1] # place /\ writes[i][1] \in Names
        BY <1>1, <1>3, <1>4, <1>6, <2>2 DEF place, IsWrites
    <3>2. \A j \in 1..(k - 1) : j > i => writes[j][1] # writes[i][1]
        BY <1>4, <1>6
    <3>3. now[writes[i][1]] = writes[i][2]
        BY <3>1, <3>2 DEF After
    <3> QED BY <1>2, <3>1, <3>3
  <2> QED BY <2>1, <2>2
<1> QED BY <1>2, <1>5, <1>6 DEF After, then, place

\* What a list of writes does.
LEMMA WritesAreWritten ==
    ASSUME NEW n \in Nat, NEW writes, IsWrites(writes, n), NEW before, IsFiles(before)
    PROVE  After(Written(before, writes), before, writes, n)
<1> DEFINE V == {before[name] : name \in Names} \cup {writes[i][2] : i \in 1..n}
           A == [Names -> V]
           B == {w \in {writes[i] : i \in 1..n} : w[1] \in Names /\ w[2] \in V}
           Step(now, write) == [now EXCEPT ![write[1]] = write[2]]
           F == [p \in A \X B |-> Step(p[1], p[2])]
           J == [k \in 0..n |-> {now \in A : After(now, before, writes, k)}]
           Next0(h) == [t \in SUBSET (1..n) |->
                           IF t = {} THEN before ELSE Step(h[t \ {Max(t)}], writes[Max(t)])]
           iter == CHOOSE h : h = Next0(h)
           seq == [i \in 1..n |-> writes[i]]
<1>1. DOMAIN writes = 1..n /\ \A i \in 1..n : writes[i][1] \in Names
    BY DEF IsWrites
<1>2. Written(before, writes) = iter[1..n]
    BY <1>1 DEF Written, FoldLeft, MapThenFoldSet
<1>3. \A now \in A, w \in B : Step(now, w) \in A
    OBVIOUS
<1>4. before \in A /\ seq \in [1..n -> B]
    BY <1>1 DEF IsFiles
<1>5. F \in [A \X B -> A] /\ \A now \in A, w \in B : F[<<now, w>>] = Step(now, w)
  <2> HIDE DEF Step, A, B
  <2> QED BY <1>3
<1> HIDE DEF F, Step, A, B
<1>6. PICK h : TypedFolding(h, F, before, seq, n, A, B)
    BY <1>4, <1>5, TypedFoldExists
<1>7. \A t \in SUBSET (1..n) : t # {} => Max(t) \in 1..n
    BY MaxIsMember
<1>8. h = Next0(h)
    BY <1>5, <1>6, <1>7 DEF Folding, TypedFolding
<1>9. iter = Next0(iter)
    BY <1>8
<1> HIDE DEF iter
<1>10. iter[{}] \in J[0]
  <2>1. iter[{}] = before
      BY <1>9
  <2>2. After(before, before, writes, 0)
      BY DEF After
  <2> QED BY <1>4, <2>1, <2>2
<1>11. ASSUME NEW k \in 1..n, iter[(1..k) \ {k}] \in J[k - 1] PROVE iter[1..k] \in J[k]
  <2>1. iter[1..k] = Step(iter[(1..k) \ {k}], writes[k])
      BY <1>9, MaxOfInterval
  <2>2. k - 1 \in 0..n /\ k \in 0..n
      OBVIOUS
  <2> DEFINE now == iter[(1..k) \ {k}]
  <2>3. now \in A /\ After(now, before, writes, k - 1)
      BY <1>11, <2>2
  <2>4. writes[k] \in B
      BY <1>4
  <2> HIDE DEF now
  <2>5. Step(now, writes[k]) \in A
      BY <1>3, <2>3, <2>4
  <2>6. After(Step(now, writes[k]), before, writes, k)
      BY <2>3, OneWrite DEF Step
  <2> QED BY <2>1, <2>2, <2>5, <2>6 DEF now
<1>12. iter[1..n] \in J[n]
  <2> HIDE DEF J
  <2> QED BY <1>10, <1>11, FoldKeepsAlong
<1> QED BY <1>2, <1>12

\* A rollback that puts back everything that was written restores the files.
LEMMA RollbackRestores ==
    ASSUME NEW n \in Nat, NEW writes, IsWrites(writes, n), NEW before, IsFiles(before),
           NEW m \in Nat, NEW rollback, IsWrites(rollback, m),
           \A i \in 1..m : rollback[i][2] = before[rollback[i][1]],
           \A i \in 1..m, j \in 1..m : rollback[i][1] = rollback[j][1] => i = j,
           \A i \in 1..n : \E j \in 1..m : rollback[j][1] = writes[i][1]
    PROVE  Written(Written(before, writes), rollback) = before
<1> DEFINE now == Written(before, writes)
           then == Written(now, rollback)
<1>1. After(now, before, writes, n)
    BY WritesAreWritten
<1>2. IsFiles(now)
    BY <1>1 DEF After
<1> HIDE DEF now
<1>3. After(then, now, rollback, m)
    BY <1>2, WritesAreWritten
<1> HIDE DEF then
<1>4. ASSUME NEW name \in Names PROVE then[name] = before[name]
  <2>1. CASE \E i \in 1..m : rollback[i][1] = name
    <3>1. PICK i \in 1..m : rollback[i][1] = name
        BY <2>1
    <3>2. \A j \in 1..m : j > i => rollback[j][1] # rollback[i][1]
        OBVIOUS
    <3>3. then[rollback[i][1]] = rollback[i][2]
        BY <1>3, <3>2 DEF After
    <3> QED BY <3>1, <3>3
  <2>2. CASE \A i \in 1..m : rollback[i][1] # name
    <3>1. \A i \in 1..n : writes[i][1] # name
        BY <2>2
    <3>2. then[name] = now[name] /\ now[name] = before[name]
        BY <1>1, <1>3, <2>2, <3>1 DEF After
    <3> QED BY <3>2
  <2> QED BY <2>1, <2>2
<1>5. IsFiles(then)
    BY <1>3 DEF After
<1> QED BY <1>4, <1>5 DEF IsFiles, then, now

\* A list of writes to the files, with what it writes.
IsList(list, n) == list \in Seq({list[i] : i \in 1..n}) /\ Len(list) = n

\* A rollback of m writes puts back what was before the first k writes.
PutsBack(rollback, m, before, writes, k) ==
    /\ IsWrites(rollback, m)
    /\ \A i \in 1..m : rollback[i][2] = before[rollback[i][1]]
    /\ \A i \in 1..m, j \in 1..m : rollback[i][1] = rollback[j][1] => i = j
    /\ \A i \in 1..k : /\ writes[i][1] \in Names
                       /\ \E j \in 1..m : rollback[j][1] = writes[i][1]

\* A call that fails half way leaves the files as they were.
LEMMA FailureRestores ==
    ASSUME NEW n \in Nat, NEW writes, IsList(writes, n), NEW place \in 1..n,
           NEW before, IsFiles(before), NEW m \in Nat, NEW rollback,
           PutsBack(rollback, m, before, writes, place - 1)
    PROVE  Written(Written(before, SubSeq(writes, 1, place - 1)), rollback) = before
<1> DEFINE S == {writes[i] : i \in 1..n}
           k == place - 1
           done == SubSeq(writes, 1, k)
<1>1. k \in Nat /\ \A i \in 1..k : i \in 1..n /\ 1 + i - 1 = i
    OBVIOUS
<1>2. 1 \in Int /\ k \in Int /\ \A i \in 1..k : writes[i] \in S
    BY <1>1
<1> HIDE DEF S, k
<1>3. /\ done \in Seq(S) /\ Len(done) = IF 1 <= k THEN k - 1 + 1 ELSE 0
      /\ \A i \in 1 .. k - 1 + 1 : done[i] = writes[1 + i - 1]
    BY <1>2, SubSeqProperties
<1> HIDE DEF done
<1>4. Len(done) = k /\ k - 1 + 1 = k
    BY <1>1, <1>3
<1>5. \A i \in 1..k : done[i] = writes[i]
    BY <1>1, <1>3, <1>4
<1>6. DOMAIN done = 1..k
    BY <1>3, <1>4, LenProperties
<1>7. IsWrites(done, k) /\ \A i \in 1..k : \E j \in 1..m : rollback[j][1] = done[i][1]
    BY <1>5, <1>6 DEF IsWrites, PutsBack, k
<1>8. Written(Written(before, done), rollback) = before
    BY <1>1, <1>7, RollbackRestores DEF PutsBack
<1> QED BY <1>8 DEF done, k

\* The writes of a mutation one by one.
LEMMA MutationSteps ==
    ASSUME NEW changed, NEW region
    PROVE  LET writes == MutationWrites(changed, region)
               n == IF region = selection THEN 4 ELSE 6
           IN /\ IsList(writes, n) /\ IsWrites(writes, n)
              /\ writes[1] = <<"undo", Some(files.graph)>>
              /\ writes[2] = <<"undo_request", Some(files.request)>>
              /\ writes[3] = <<"graph", changed>>
              /\ region # selection => /\ writes[4] = <<"request", region>>
                                       /\ writes[5] = <<"metadata", region>>
              /\ writes[n] = <<"progress", Some(changed)>>
<1> DEFINE a == <<"undo", Some(files.graph)>>
           b == <<"undo_request", Some(files.request)>>
           c == <<"graph", changed>>
           d == <<"request", region>>
           e == <<"metadata", region>>
           f == <<"progress", Some(changed)>>
           writes == MutationWrites(changed, region)
<1>1. CASE region = selection
  <2>1. writes = <<a, b, c>> \o <<>> \o <<f>>
      BY <1>1 DEF MutationWrites
  <2> HIDE DEF writes
  <2>2. /\ Len(writes) = 4 /\ DOMAIN writes = 1..4
        /\ writes[1] = a /\ writes[2] = b /\ writes[3] = c /\ writes[4] = f
    <3> HIDE DEF a, b, c, f
    <3> QED BY <2>1
  <2>3. writes \in Seq({writes[i] : i \in 1..4})
    <3> HIDE DEF a, b, c, f
    <3>1. writes \in Seq({a, b, c, f})
        BY <2>1
    <3>2. {a, b, c, f} = {writes[i] : i \in 1..4}
        BY <2>2
    <3> QED BY <3>1, <3>2
  <2> QED BY <1>1, <2>2, <2>3 DEF writes, IsList, IsWrites, Names
<1>2. CASE region # selection
  <2>1. writes = <<a, b, c>> \o <<d, e>> \o <<f>>
      BY <1>2 DEF MutationWrites, SelectionWrites
  <2> HIDE DEF writes
  <2>2. /\ Len(writes) = 6 /\ DOMAIN writes = 1..6
        /\ writes[1] = a /\ writes[2] = b /\ writes[3] = c /\ writes[4] = d /\ writes[5] = e
        /\ writes[6] = f
    <3> HIDE DEF a, b, c, d, e, f
    <3> QED BY <2>1
  <2>3. writes \in Seq({writes[i] : i \in 1..6})
    <3> HIDE DEF a, b, c, d, e, f
    <3>1. writes \in Seq({a, b, c, d, e, f})
        BY <2>1
    <3>2. {a, b, c, d, e, f} = {writes[i] : i \in 1..6}
        BY <2>2
    <3> QED BY <3>1, <3>2
  <2> QED BY <1>2, <2>2, <2>3 DEF writes, IsList, IsWrites, Names
<1> QED BY <1>1, <1>2

\* What a mutation that succeeds leaves.
LEMMA MutationWritten ==
    ASSUME IsFiles(files), NEW changed, NEW region
    PROVE  LET then == Written(files, MutationWrites(changed, region))
           IN /\ IsFiles(then)
              /\ then.graph = changed /\ then.progress = Some(changed)
              /\ then.undo = Some(files.graph) /\ then.undo_request = Some(files.request)
              /\ then.slot = files.slot
              /\ IF region = selection
                 THEN then.request = files.request /\ then.metadata = files.metadata
                 ELSE then.request = region /\ then.metadata = region
<1> DEFINE writes == MutationWrites(changed, region)
           n == IF region = selection THEN 4 ELSE 6
           then == Written(files, writes)
<1>1. /\ n \in Nat /\ IsWrites(writes, n)
      /\ writes[1] = <<"undo", Some(files.graph)>>
      /\ writes[2] = <<"undo_request", Some(files.request)>>
      /\ writes[3] = <<"graph", changed>>
      /\ region # selection =>
            writes[4] = <<"request", region>> /\ writes[5] = <<"metadata", region>>
      /\ writes[n] = <<"progress", Some(changed)>>
    BY MutationSteps
<1> HIDE DEF writes
<1>2. After(then, files, writes, n)
    BY <1>1, WritesAreWritten
<1> HIDE DEF then
<1>3. CASE region = selection
  <2>1. n = 4
      BY <1>3
  <2>2. /\ writes[1][1] = "undo" /\ writes[2][1] = "undo_request" /\ writes[3][1] = "graph"
        /\ writes[4][1] = "progress"
        /\ writes[1][2] = Some(files.graph) /\ writes[2][2] = Some(files.request)
        /\ writes[3][2] = changed /\ writes[4][2] = Some(changed)
      BY <1>1, <2>1
  <2>3. \A i \in 1..4 : i = 1 \/ i = 2 \/ i = 3 \/ i = 4
      OBVIOUS
  <2>4. then.graph = changed /\ then.progress = Some(changed)
      BY <1>2, <2>1, <2>2, <2>3 DEF After
  <2>5. then.undo = Some(files.graph) /\ then.undo_request = Some(files.request)
      BY <1>2, <2>1, <2>2, <2>3 DEF After
  <2>6. /\ then.slot = files.slot /\ then.request = files.request
        /\ then.metadata = files.metadata
      BY <1>2, <2>1, <2>2, <2>3 DEF After, Names
  <2> QED BY <1>2, <1>3, <2>4, <2>5, <2>6 DEF After, then, writes
<1>4. CASE region # selection
  <2>1. n = 6
      BY <1>4
  <2>2. /\ writes[1][1] = "undo" /\ writes[2][1] = "undo_request" /\ writes[3][1] = "graph"
        /\ writes[4][1] = "request" /\ writes[5][1] = "metadata" /\ writes[6][1] = "progress"
        /\ writes[1][2] = Some(files.graph) /\ writes[2][2] = Some(files.request)
        /\ writes[3][2] = changed /\ writes[4][2] = region /\ writes[5][2] = region
        /\ writes[6][2] = Some(changed)
      BY <1>1, <1>4, <2>1
  <2>3. \A i \in 1..6 : i = 1 \/ i = 2 \/ i = 3 \/ i = 4 \/ i = 5 \/ i = 6
      OBVIOUS
  <2>4. then.graph = changed /\ then.progress = Some(changed)
      BY <1>2, <2>1, <2>2, <2>3 DEF After
  <2>5. then.undo = Some(files.graph) /\ then.undo_request = Some(files.request)
      BY <1>2, <2>1, <2>2, <2>3 DEF After
  <2>6. then.request = region /\ then.metadata = region
      BY <1>2, <2>1, <2>2, <2>3 DEF After
  <2>7. then.slot = files.slot
      BY <1>2, <2>1, <2>2, <2>3 DEF After, Names
  <2> QED BY <1>2, <1>4, <2>4, <2>5, <2>6, <2>7 DEF After, then, writes
<1> QED BY <1>3, <1>4

\* A mutation that fails leaves the files as they were, wherever it failed.
LEMMA MutationRollsBack ==
    ASSUME IsFiles(files), NEW changed, NEW region,
           NEW place \in DOMAIN MutationWrites(changed, region)
    PROVE  Written(Written(files, SubSeq(MutationWrites(changed, region), 1, place - 1)),
                   MutationRollback(region)) = files
<1> DEFINE writes == MutationWrites(changed, region)
           n == IF region = selection THEN 4 ELSE 6
           rollback == MutationRollback(region)
           m == IF region = selection THEN 3 ELSE 5
<1>1. /\ n \in Nat /\ m \in Nat /\ IsList(writes, n) /\ IsWrites(writes, n) /\ place \in 1..n
      /\ writes[1][1] = "undo" /\ writes[2][1] = "undo_request" /\ writes[3][1] = "graph"
      /\ region # selection => writes[4][1] = "request" /\ writes[5][1] = "metadata"
  <2>1. /\ IsList(writes, n) /\ IsWrites(writes, n)
        /\ writes[1] = <<"undo", Some(files.graph)>>
        /\ writes[2] = <<"undo_request", Some(files.request)>>
        /\ writes[3] = <<"graph", changed>>
        /\ region # selection =>
              writes[4] = <<"request", region>> /\ writes[5] = <<"metadata", region>>
      BY MutationSteps
  <2> QED BY <2>1 DEF IsWrites
<1> HIDE DEF writes
<1>2. /\ IsWrites(rollback, m)
      /\ rollback[1] = <<"graph", files.graph>> /\ rollback[2] = <<"undo", files.undo>>
      /\ rollback[3] = <<"undo_request", files.undo_request>>
      /\ region # selection => /\ rollback[4] = <<"request", files.request>>
                               /\ rollback[5] = <<"metadata", files.metadata>>
  <2> DEFINE a == <<"graph", files.graph>>
             b == <<"undo", files.undo>>
             c == <<"undo_request", files.undo_request>>
             d == <<"request", files.request>>
             e == <<"metadata", files.metadata>>
  <2>1. CASE region = selection
    <3>1. rollback = <<a, b, c>> \o <<>>
        BY <2>1 DEF MutationRollback
    <3> HIDE DEF rollback
    <3>2. DOMAIN rollback = 1..3 /\ rollback[1] = a /\ rollback[2] = b /\ rollback[3] = c
      <4> HIDE DEF a, b, c
      <4> QED BY <3>1
    <3>3. \A i \in 1..3 : i = 1 \/ i = 2 \/ i = 3
        OBVIOUS
    <3> QED BY <2>1, <3>2, <3>3 DEF IsWrites, Names
  <2>2. CASE region # selection
    <3>1. rollback = <<a, b, c>> \o <<d, e>>
        BY <2>2 DEF MutationRollback
    <3> HIDE DEF rollback
    <3>2. /\ DOMAIN rollback = 1..5 /\ rollback[1] = a /\ rollback[2] = b /\ rollback[3] = c
          /\ rollback[4] = d /\ rollback[5] = e
      <4> HIDE DEF a, b, c, d, e
      <4> QED BY <3>1
    <3>3. \A i \in 1..5 : i = 1 \/ i = 2 \/ i = 3 \/ i = 4 \/ i = 5
        OBVIOUS
    <3> QED BY <2>2, <3>2, <3>3 DEF IsWrites, Names
  <2> QED BY <2>1, <2>2
<1> HIDE DEF rollback
<1>3. CASE region = selection
  <2>1. n = 4 /\ m = 3
      BY <1>3
  <2>2. \A i \in 1..(place - 1) : i = 1 \/ i = 2 \/ i = 3
      BY <1>1, <2>1
  <2>3. \A i \in 1..m : i = 1 \/ i = 2 \/ i = 3
      BY <2>1
  <2>4. /\ 1 \in 1..m /\ rollback[1][1] = "graph" /\ 2 \in 1..m /\ rollback[2][1] = "undo"
        /\ 3 \in 1..m /\ rollback[3][1] = "undo_request"
        /\ rollback[1][2] = files["graph"] /\ rollback[2][2] = files["undo"]
        /\ rollback[3][2] = files["undo_request"]
      BY <1>2, <2>1
  <2> HIDE DEF n, m
  <2>5. /\ \A i \in 1..(place - 1) : writes[i][1] \in Names
        /\ \A i \in 1..(place - 1) : \E j \in 1..m : rollback[j][1] = writes[i][1]
      BY <1>1, <2>2, <2>4 DEF Names
  <2>6. /\ \A i \in 1..m : rollback[i][2] = files[rollback[i][1]]
        /\ \A i \in 1..m, j \in 1..m : rollback[i][1] = rollback[j][1] => i = j
      BY <2>3, <2>4
  <2>7. PutsBack(rollback, m, files, writes, place - 1)
      BY <1>2, <2>5, <2>6 DEF PutsBack
  <2>8. Written(Written(files, SubSeq(writes, 1, place - 1)), rollback) = files
      BY <1>1, <2>7, FailureRestores
  <2> QED BY <2>8 DEF writes, rollback
<1>4. CASE region # selection
  <2>1. n = 6 /\ m = 5
      BY <1>4
  <2>2. \A i \in 1..(place - 1) : i = 1 \/ i = 2 \/ i = 3 \/ i = 4 \/ i = 5
      BY <1>1, <2>1
  <2>3. \A i \in 1..m : i = 1 \/ i = 2 \/ i = 3 \/ i = 4 \/ i = 5
      BY <2>1
  <2>4. /\ 1 \in 1..m /\ rollback[1][1] = "graph" /\ 2 \in 1..m /\ rollback[2][1] = "undo"
        /\ 3 \in 1..m /\ rollback[3][1] = "undo_request"
        /\ 4 \in 1..m /\ rollback[4][1] = "request" /\ 5 \in 1..m /\ rollback[5][1] = "metadata"
        /\ rollback[1][2] = files["graph"] /\ rollback[2][2] = files["undo"]
        /\ rollback[3][2] = files["undo_request"] /\ rollback[4][2] = files["request"]
        /\ rollback[5][2] = files["metadata"]
      BY <1>2, <1>4, <2>1
  <2>5. writes[4][1] = "request" /\ writes[5][1] = "metadata"
      BY <1>1, <1>4
  <2> HIDE DEF n, m
  <2>6. /\ \A i \in 1..(place - 1) : writes[i][1] \in Names
        /\ \A i \in 1..(place - 1) : \E j \in 1..m : rollback[j][1] = writes[i][1]
      BY <1>1, <2>2, <2>4, <2>5 DEF Names
  <2>7. /\ \A i \in 1..m : rollback[i][2] = files[rollback[i][1]]
        /\ \A i \in 1..m, j \in 1..m : rollback[i][1] = rollback[j][1] => i = j
      BY <2>3, <2>4
  <2>8. PutsBack(rollback, m, files, writes, place - 1)
      BY <1>2, <2>6, <2>7 DEF PutsBack
  <2>9. Written(Written(files, SubSeq(writes, 1, place - 1)), rollback) = files
      BY <1>1, <2>8, FailureRestores
  <2> QED BY <2>9 DEF writes, rollback
<1> QED BY <1>3, <1>4

\* The writes of an undo one by one.
LEMMA UndoSteps ==
    ASSUME NEW restored
    PROVE  LET writes == UndoWrites(restored)
           IN /\ IsList(writes, 6) /\ IsWrites(writes, 6)
              /\ writes[1] = <<"graph", restored>>
              /\ writes[2] = <<"request", UndoRequest>> /\ writes[3] = <<"metadata", UndoRequest>>
              /\ writes[4] = <<"undo", None>> /\ writes[5] = <<"undo_request", None>>
              /\ writes[6] = <<"progress", Some(restored)>>
<1> DEFINE a == <<"graph", restored>>
           b == <<"request", UndoRequest>>
           c == <<"metadata", UndoRequest>>
           d == <<"undo", None>>
           e == <<"undo_request", None>>
           f == <<"progress", Some(restored)>>
           writes == UndoWrites(restored)
<1>1. writes = <<a>> \o <<b, c>> \o <<d, e, f>>
    BY DEF UndoWrites, SelectionWrites
<1> HIDE DEF writes
<1>2. /\ Len(writes) = 6 /\ DOMAIN writes = 1..6
      /\ writes[1] = a /\ writes[2] = b /\ writes[3] = c /\ writes[4] = d /\ writes[5] = e
      /\ writes[6] = f
  <2> HIDE DEF a, b, c, d, e, f
  <2> QED BY <1>1
<1>3. writes \in Seq({writes[i] : i \in 1..6})
  <2> HIDE DEF a, b, c, d, e, f
  <2>1. writes \in Seq({a, b, c, d, e, f})
      BY <1>1
  <2>2. {a, b, c, d, e, f} = {writes[i] : i \in 1..6}
      BY <1>2
  <2> QED BY <2>1, <2>2
<1> QED BY <1>2, <1>3 DEF writes, IsList, IsWrites, Names

\* What an undo that succeeds leaves.
LEMMA UndoWritten ==
    ASSUME IsFiles(files), NEW restored
    PROVE  LET then == Written(files, UndoWrites(restored))
           IN /\ IsFiles(then)
              /\ then.graph = restored /\ then.progress = Some(restored)
              /\ then.undo = None /\ then.undo_request = None
              /\ then.slot = files.slot
              /\ then.request = UndoRequest /\ then.metadata = UndoRequest
<1> DEFINE writes == UndoWrites(restored)
           then == Written(files, writes)
<1>1. /\ IsWrites(writes, 6)
      /\ writes[1] = <<"graph", restored>>
      /\ writes[2] = <<"request", UndoRequest>> /\ writes[3] = <<"metadata", UndoRequest>>
      /\ writes[4] = <<"undo", None>> /\ writes[5] = <<"undo_request", None>>
      /\ writes[6] = <<"progress", Some(restored)>>
    BY UndoSteps
<1> HIDE DEF writes
<1>2. After(then, files, writes, 6)
    BY <1>1, WritesAreWritten
<1> HIDE DEF then
<1>3. /\ writes[1][1] = "graph" /\ writes[2][1] = "request" /\ writes[3][1] = "metadata"
      /\ writes[4][1] = "undo" /\ writes[5][1] = "undo_request" /\ writes[6][1] = "progress"
      /\ writes[1][2] = restored /\ writes[2][2] = UndoRequest /\ writes[3][2] = UndoRequest
      /\ writes[4][2] = None /\ writes[5][2] = None /\ writes[6][2] = Some(restored)
    BY <1>1
<1>4. \A i \in 1..6 : i = 1 \/ i = 2 \/ i = 3 \/ i = 4 \/ i = 5 \/ i = 6
    OBVIOUS
<1>5. then.graph = restored /\ then.progress = Some(restored)
    BY <1>2, <1>3, <1>4 DEF After
<1>6. then.undo = None /\ then.undo_request = None
    BY <1>2, <1>3, <1>4 DEF After
<1>7. then.request = UndoRequest /\ then.metadata = UndoRequest
    BY <1>2, <1>3, <1>4 DEF After
<1>8. then.slot = files.slot
    BY <1>2, <1>3, <1>4 DEF After, Names
<1> QED BY <1>2, <1>5, <1>6, <1>7, <1>8 DEF After, then, writes

\* An undo that fails leaves the files as they were, wherever it failed.
LEMMA UndoRollsBack ==
    ASSUME IsFiles(files), NEW restored, NEW place \in DOMAIN UndoWrites(restored)
    PROVE  Written(Written(files, SubSeq(UndoWrites(restored), 1, place - 1)), UndoRollback) = files
<1> DEFINE writes == UndoWrites(restored)
           rollback == UndoRollback
<1>1. /\ IsList(writes, 6) /\ place \in 1..6
      /\ writes[1][1] = "graph" /\ writes[2][1] = "request" /\ writes[3][1] = "metadata"
      /\ writes[4][1] = "undo" /\ writes[5][1] = "undo_request"
  <2>1. /\ IsList(writes, 6) /\ IsWrites(writes, 6)
        /\ writes[1] = <<"graph", restored>>
        /\ writes[2] = <<"request", UndoRequest>> /\ writes[3] = <<"metadata", UndoRequest>>
        /\ writes[4] = <<"undo", None>> /\ writes[5] = <<"undo_request", None>>
      BY UndoSteps
  <2> QED BY <2>1 DEF IsWrites
<1> HIDE DEF writes
<1>2. /\ DOMAIN rollback = 1..5
      /\ rollback[1] = <<"graph", files.graph>> /\ rollback[2] = <<"request", files.request>>
      /\ rollback[3] = <<"metadata", files.metadata>> /\ rollback[4] = <<"undo", files.undo>>
      /\ rollback[5] = <<"undo_request", files.undo_request>>
    BY DEF UndoRollback, graph
<1> HIDE DEF rollback
<1>3. \A i \in 1..5 : i = 1 \/ i = 2 \/ i = 3 \/ i = 4 \/ i = 5
    OBVIOUS
<1>4. \A i \in 1..(place - 1) : i \in 1..5
    BY <1>1
<1>5. /\ rollback[1][1] = "graph" /\ rollback[2][1] = "request" /\ rollback[3][1] = "metadata"
      /\ rollback[4][1] = "undo" /\ rollback[5][1] = "undo_request"
      /\ \A i \in 1..5 : rollback[i][2] = files[rollback[i][1]]
    BY <1>2, <1>3
<1>6. IsWrites(rollback, 5)
    BY <1>2, <1>3, <1>5 DEF IsWrites, Names
<1>7. \A i \in 1..5 : writes[i][1] \in Names /\ rollback[i][1] \in Names
    BY <1>1, <1>3, <1>5 DEF Names
<1>8. \A i \in 1..5 : \E j \in 1..5 : rollback[j][1] = writes[i][1]
  <2>1. 1 \in 1..5 /\ 2 \in 1..5 /\ 3 \in 1..5 /\ 4 \in 1..5 /\ 5 \in 1..5
      OBVIOUS
  <2> QED BY <1>1, <1>3, <1>5, <2>1
<1>9. \A i \in 1..5, j \in 1..5 : rollback[i][1] = rollback[j][1] => i = j
    BY <1>3, <1>5
<1>10. PutsBack(rollback, 5, files, writes, place - 1)
    BY <1>4, <1>5, <1>6, <1>7, <1>8, <1>9 DEF PutsBack
<1>11. Written(Written(files, SubSeq(writes, 1, place - 1)), rollback) = files
    BY <1>1, <1>10, FailureRestores
<1> QED BY <1>11 DEF writes, rollback

\* What a preset makes.
LEMMA PresetTool ==
    ASSUME NEW p, Sound(p), NEW id, NEW q \in set_surge_preset(p, id)
    PROVE  Shaped(p, q)
<1>1. PICK preset \in Presets : q \in configure_track_preset(p, id, preset)
    BY DEF set_surge_preset
<1> DEFINE k == Cardinality(PresetSlots[preset])
<1>2. k \in Nat
    BY EngineIsFinite, FS_CardinalityType
<1>3. IsProject(p) /\ Room(p, k, Ample(p, k)) /\ PartsIn(p, Ample(p, k))
    BY <1>2, AmpleRoom DEF Sound
<1>4. Shapes(p, q, Ample(p, k))
    BY <1>1, <1>3, PresetShapes
<1> QED BY <1>2, <1>4, ShapesKeeps DEF Shaped

\* What a native parameter and then a preset make.
LEMMA ParametersTool ==
    ASSUME NEW p, Sound(p), NEW id, NEW q \in set_instrument_parameters(p, id)
    PROVE  Shaped(p, q)
<1>1. PICK m \in configure_native(p, id) : q \in set_surge_preset(m, id)
    BY DEF set_instrument_parameters, Then
<1>2. Sound(m) /\ Ids(m) = Ids(p) /\ NextId(m) = NextId(p)
    BY NativeKeepsIds
<1>3. Shaped(m, q)
    BY <1>1, <1>2, PresetTool
<1>4. 0 \in Nat /\ IsProject(p) /\ PartsIn(p, Ample(p, 0))
    BY AmpleRoom DEF Sound
<1>5. Shapes(p, m, Ample(p, 0))
    BY <1>4, NativeShapes
<1>6. Keeps(p, m) /\ TrackIds(p) \subseteq TrackIds(m)
    BY <1>4, <1>5, ShapesKeeps
<1>7. Edited(p, q)
    BY <1>2, <1>3 DEF Shaped, Keeps, Edited
<1> QED BY <1>3, <1>6, <1>7 DEF Shaped, Keeps

\* What the tools make of a sound.
LEMMA SoundTools ==
    ASSUME NEW p, Sound(p), NEW id
    PROVE  /\ \A q \in set_surge_preset(p, id) : Shaped(p, q)
           /\ \A q \in add_effect(p, id) : Shaped(p, q)
           /\ \A q \in update_effect(p, id) : Shaped(p, q)
           /\ \A q \in delete_effects(p, id) : Shaped(p, q)
           /\ \A q \in add_modulator(p, id) : Shaped(p, q)
           /\ \A q \in update_modulator(p, id) : Shaped(p, q)
           /\ \A q \in delete_modulators(p, id) : Shaped(p, q)
           /\ \A q \in set_instrument_parameter(p, id) : Shaped(p, q)
           /\ \A q \in set_instrument_parameters(p, id) : Shaped(p, q)
<1>1. 0 \in Nat /\ IsProject(p) /\ Room(p, 0, Ample(p, 0)) /\ PartsIn(p, Ample(p, 0))
    BY AmpleRoom DEF Sound
<1>2. \A q : Shapes(p, q, Ample(p, 0)) => Shaped(p, q)
    BY <1>1, ShapesKeeps DEF Shaped
<1>3. \A q \in set_surge_preset(p, id) : Shaped(p, q)
    BY PresetTool
<1>4. \A q \in add_effect(p, id) : Shaped(p, q)
    BY <1>1, <1>2, EffectAdded DEF add_effect
<1>5. \A q \in update_effect(p, id) : Shaped(p, q)
    BY <1>1, <1>2, EffectShapes DEF update_effect
<1>6. \A q \in delete_effects(p, id) : Shaped(p, q)
    BY <1>1, <1>2, EffectGone DEF delete_effects
<1>7. \A q \in add_modulator(p, id) : Shaped(p, q)
    BY <1>1, <1>2, ModulatorAdded DEF add_modulator
<1>8. \A q \in update_modulator(p, id) : Shaped(p, q)
  <2> TAKE q \in update_modulator(p, id)
  <2>1. PICK m \in ModulatorIds(p, id),
             change \in ({"target"} \X Targets) \cup ({"trigger"} \X {"free", "midi"})
                            \cup ({"enabled"} \X BOOLEAN) \cup ({"source"} \X TrackIds(p)) :
                q \in configure_modulator(p, id, m, change[1], change[2])
      BY DEF update_modulator
  <2>2. change[1] \in {"target", "trigger", "enabled", "source"}
      OBVIOUS
  <2> QED BY <1>1, <1>2, <2>1, <2>2, ModulatorShapes
<1>9. \A q \in delete_modulators(p, id) : Shaped(p, q)
    BY <1>1, <1>2, ModulatorGone DEF delete_modulators
<1>10. \A q \in set_instrument_parameter(p, id) : Shaped(p, q)
    BY <1>1, <1>2, NativeShapes DEF set_instrument_parameter
<1>11. \A q \in set_instrument_parameters(p, id) : Shaped(p, q)
    BY ParametersTool
<1> QED BY <1>3, <1>4, <1>5, <1>6, <1>7, <1>8, <1>9, <1>10, <1>11

----------------------------------------------------------------------------
(* The tools of a session *)

\* What a mutation may do to the files: the project it makes is made of the session's, and
\* the region lies inside it.
Good(results, region) ==
    /\ Timed(region)
    /\ \A result \in results :
          /\ Edited(graph, result.project)
          /\ Within(graph, selection) => Within(result.project, region)

\* A tool is a mutation that is good.
Mutates == \E results, region : apply_agent_mutation(results, region) /\ Good(results, region)

\* A project as long as the session's has room for the region that is selected.
LEMMA KeepsIsGood ==
    ASSUME Timed(selection), NEW results, \A result \in results : Keeps(graph, result.project)
    PROVE  Good(results, selection)
BY DEF Good, Keeps, Within

\* Tools that name their tracks by themselves.
LEMMA ApplyMutates ==
    ASSUME Timed(selection), NEW made, \A q \in made : Keeps(graph, q)
    PROVE  /\ \A tracks : Apply(made, tracks) => Mutates
           /\ ApplyNew(made) => Mutates
<1>1. ASSUME NEW tracks, Apply(made, tracks) PROVE Mutates
  <2> DEFINE results == {Result(changed, tracks) : changed \in made}
  <2>1. apply_agent_mutation(results, selection)
      BY <1>1 DEF Apply
  <2>2. \A result \in results : Keeps(graph, result.project)
      BY DEF Result
  <2> HIDE DEF results
  <2> QED BY <2>1, <2>2, KeepsIsGood DEF Mutates
<1>2. ASSUME ApplyNew(made) PROVE Mutates
  <2> DEFINE results == {Result(changed, NewTracks(changed)) : changed \in made}
  <2>1. apply_agent_mutation(results, selection)
      BY <1>2 DEF ApplyNew
  <2>2. \A result \in results : Keeps(graph, result.project)
      BY DEF Result
  <2> HIDE DEF results
  <2> QED BY <2>1, <2>2, KeepsIsGood DEF Mutates
<1> QED BY <1>1, <1>2

\* The files between two calls: the graph and the audition slot are projects as a whole, and
\* the region that is selected has ends.
Workable ==
    /\ IsFiles(files)
    /\ Sound(graph) /\ Timed(selection)
    /\ files.slot # None => Sound(slot) /\ 1 \in TrackIds(slot)

\* A new tempo, with the end of the project where the region reaches over it.
LEMMA TempoMutates ==
    ASSUME Workable, SetTempo
    PROVE  Mutates
<1>1. PICK bpm \in Tempos :
        LET scale == Ratio(graph.bpm, bpm)
            region == [start |-> Times(selection.start, scale), end |-> Times(selection.end, scale)]
            reach(p) == IF Less(p.duration, region.end) THEN set_duration(p, region.end) ELSE {p}
        IN /\ Leq(region.end, MaximumDuration) /\ Less(region.start, region.end)
           /\ apply_agent_mutation({Result(changed, {}) :
                                       changed \in Then(set_tempo(graph, bpm), reach)}, region)
    BY DEF SetTempo
<1> DEFINE scale == Ratio(graph.bpm, bpm)
           region == [start |-> Times(selection.start, scale), end |-> Times(selection.end, scale)]
           reach(p) == IF Less(p.duration, region.end) THEN set_duration(p, region.end) ELSE {p}
           made == UNION {reach(m) : m \in set_tempo(graph, bpm)}
           results == {Result(changed, {}) : changed \in made}
<1>2. Less(region.start, region.end) /\ apply_agent_mutation(results, region)
    BY <1>1 DEF Then
<1>3. \A result \in results : result.project \in made
    BY DEF Result
<1>4. ASSUME NEW q \in made PROVE Edited(graph, q) /\ Within(q, region) /\ Timed(region)
  <2>1. PICK m \in set_tempo(graph, bpm) : q \in reach(m)
      OBVIOUS
  <2> DEFINE I == Ample(graph, 0)
             p == graph
  <2>2. 0 \in Nat /\ Sound(graph) /\ IsProject(graph) /\ PartsIn(graph, I) /\ graph.version \in Nat
        /\ graph.bpm \in Nat
      BY AmpleRoom DEF Workable, Sound
  <2> HIDE DEF I
  <2>3. Makes(graph, m, {"bpm", "duration", "edits", "clips"}, I) /\ m.bpm = bpm /\ bpm \in 60..180
      BY <2>2, TempoSet
  <2>4. IsProject(m) /\ PartsIn(m, I) /\ m.version = graph.version + 1 /\ bpm \in Nat
      BY <2>3 DEF Makes, Touches
  <2>5. scale.man \in Int
      BY <2>2, <2>3, RatioTyped
  <2>6. Timed(region)
    <3>1. selection.start.man \in Int /\ selection.end.man \in Int
        BY DEF Workable, Timed
    <3> HIDE DEF scale
    <3> QED BY <2>5, <3>1, TimesTyped DEF Timed
  <2> HIDE DEF scale, region
  <2>7. /\ IsProject(q) /\ PartsIn(q, I) /\ q.version \in Nat /\ q.bpm \in Nat
        /\ Leq(region.end, q.duration)
    <3>1. CASE Less(m.duration, region.end)
      <4>1. q \in set_duration(m, region.end)
          BY <2>1, <3>1
      <4>2. Makes(m, q, {"duration", "clips", "edits"}, I) /\ q.duration = region.end
          BY <2>4, <4>1, DurationSet
      <4>3. IsProject(q) /\ PartsIn(q, I) /\ q.version = m.version + 1 /\ q.bpm = m.bpm
          BY <4>2 DEF Makes, Touches, Parts
      <4>4. Leq(region.end, region.end)
          BY <2>6 DEF Leq, Timed
      <4> QED BY <2>2, <2>3, <2>4, <4>2, <4>3, <4>4
    <3>2. CASE ~Less(m.duration, region.end)
      <4>1. q = m /\ Leq(region.end, m.duration)
          BY <2>1, <3>2 DEF Less
      <4> QED BY <2>2, <2>3, <2>4, <4>1
    <3> QED BY <3>1, <3>2
  <2>8. NextId(graph) + 0 \in Nat
      BY <2>2, NextIdIsNew
  <2>9. Edited(graph, q)
      BY <2>7, <2>8 DEF Edited, Ample, I
  <2> QED BY <1>2, <2>6, <2>7, <2>9 DEF Within
<1> HIDE DEF made, results
<1>5. results # {}
    BY <1>2 DEF apply_agent_mutation
<1>6. Timed(region)
    BY <1>3, <1>4, <1>5
<1> QED BY <1>2, <1>3, <1>4, <1>6 DEF Mutates, Good

\* The tools for clips name their tracks with the clips.
LEMMA ClipToolsMutate ==
    ASSUME Workable
    PROVE  /\ AddMidiClip => Mutates
           /\ UpdateMidiClip => Mutates
           /\ DeleteMidiClip => Mutates
<1>1. Sound(graph) /\ Timed(selection)
    BY DEF Workable
<1>2. ASSUME AddMidiClip PROVE Mutates
  <2>1. PICK spec \in Specs(graph) :
            apply_agent_mutation(
               {Result(changed, UNION {clip_recipient_track_ids(changed, c) :
                                           c \in ClipIds(changed) \ ClipIds(graph)}) :
                    changed \in create_midi_clip(graph, spec)}, selection)
      BY <1>2 DEF AddMidiClip
  <2> DEFINE results == {Result(changed, UNION {clip_recipient_track_ids(changed, c) :
                                           c \in ClipIds(changed) \ ClipIds(graph)}) :
                    changed \in create_midi_clip(graph, spec)}
  <2>2. spec.pattern \in Patterns
      BY DEF Specs
  <2>3. \A q \in create_midi_clip(graph, spec) : Keeps(graph, q)
      BY <1>1, <2>2, ClipsKeep
  <2>4. \A result \in results : Keeps(graph, result.project)
      BY <2>3 DEF Result
  <2>5. apply_agent_mutation(results, selection)
      BY <2>1
  <2> HIDE DEF results
  <2> QED BY <1>1, <2>4, <2>5, KeepsIsGood DEF Mutates
<1>3. ASSUME UpdateMidiClip PROVE Mutates
  <2>1. PICK c \in ClipIds(graph), spec \in Specs(graph) :
            apply_agent_mutation(
                {Result(changed, clip_recipient_track_ids(graph, c)
                                     \cup clip_recipient_track_ids(changed, c)) :
                     changed \in replace_midi_clip(graph, c, spec, selection)}, selection)
      BY <1>3 DEF UpdateMidiClip
  <2> DEFINE results == {Result(changed, clip_recipient_track_ids(graph, c)
                                     \cup clip_recipient_track_ids(changed, c)) :
                     changed \in replace_midi_clip(graph, c, spec, selection)}
  <2>2. spec.pattern \in Patterns
      BY DEF Specs
  <2>3. \A q \in replace_midi_clip(graph, c, spec, selection) : Keeps(graph, q)
      BY <1>1, <2>2, ClipsKeep
  <2>4. \A result \in results : Keeps(graph, result.project)
      BY <2>3 DEF Result
  <2>5. apply_agent_mutation(results, selection)
      BY <2>1
  <2> HIDE DEF results
  <2> QED BY <1>1, <2>4, <2>5, KeepsIsGood DEF Mutates
<1>4. ASSUME DeleteMidiClip PROVE Mutates
  <2>1. PICK c \in ClipIds(graph) :
            Apply(delete_midi_clip(graph, c, selection), clip_recipient_track_ids(graph, c))
      BY <1>4 DEF DeleteMidiClip
  <2>2. \A q \in delete_midi_clip(graph, c, selection) : Keeps(graph, q)
      BY <1>1, ClipsKeep
  <2> QED BY <1>1, <2>1, <2>2, ApplyMutates
<1> QED BY <1>2, <1>3, <1>4

\* Every tool that changes the graph is a mutation.
LEMMA ArrangementMutates ==
    ASSUME Workable, ArrangementTool
    PROVE  Mutates
<1>1. Sound(graph) /\ Timed(selection)
    BY DEF Workable
<1>2. ASSUME AddInstrumentRack PROVE Mutates
    BY <1>1, <1>2, ArrangementKeeps, ApplyMutates DEF AddInstrumentRack
<1>3. ASSUME UpdateInstrumentRack PROVE Mutates
    BY <1>1, <1>3, ArrangementKeeps, ApplyMutates DEF UpdateInstrumentRack
<1>4. ASSUME DeleteInstrumentRack PROVE Mutates
    BY <1>1, <1>4, ArrangementKeeps, ApplyMutates DEF DeleteInstrumentRack
<1>5. ASSUME NewTrack PROVE Mutates
    BY <1>1, <1>5, ArrangementKeeps, ApplyMutates DEF NewTrack
<1>6. ASSUME DeleteTrack PROVE Mutates
    BY <1>1, <1>6, ArrangementKeeps, ApplyMutates DEF DeleteTrack
<1>7. ASSUME SetTrackIdentity PROVE Mutates
    BY <1>1, <1>7, ArrangementKeeps, ApplyMutates DEF SetTrackIdentity
<1>8. ASSUME SetTrackMute PROVE Mutates
    BY <1>1, <1>8, ArrangementKeeps, ApplyMutates DEF SetTrackMute
<1>9. ASSUME AddKeyZone PROVE Mutates
    BY <1>1, <1>9, ArrangementKeeps, ApplyMutates DEF AddKeyZone
<1>10. ASSUME UpdateKeyZone PROVE Mutates
    BY <1>1, <1>10, ArrangementKeeps, ApplyMutates DEF UpdateKeyZone
<1>11. ASSUME DeleteKeyZone PROVE Mutates
    BY <1>1, <1>11, ArrangementKeeps, ApplyMutates DEF DeleteKeyZone
<1> QED BY <1>2, <1>3, <1>4, <1>5, <1>6, <1>7, <1>8, <1>9, <1>10, <1>11, ClipToolsMutate,
           TempoMutates DEF ArrangementTool

\* So is every tool for a sound.
LEMMA SoundMutates ==
    ASSUME Workable, SoundTool
    PROVE  Mutates
<1>1. Sound(graph) /\ Timed(selection)
    BY DEF Workable
<1>2. ASSUME NEW t, NEW made, Apply(made, {t}), \A q \in made : Shaped(graph, q) PROVE Mutates
    BY <1>1, <1>2, ApplyMutates DEF Shaped
<1> QED BY <1>1, <1>2, SoundTools DEF SoundTool, SetSurgePreset, AddEffect, UpdateEffect,
        DeleteEffect, AddModulator, UpdateModulator, DeleteModulator,
        SetInstrumentParameter, SetInstrumentParameters

\* So is taking the sound of a slot.
LEMMA AuditionMutates ==
    ASSUME Workable, CommitAudition
    PROVE  Mutates
<1>1. Sound(graph) /\ Timed(selection) /\ files.slot # None /\ Sound(slot) /\ 1 \in TrackIds(slot)
    BY DEF Workable, CommitAudition
<1>2. PICK r \in RackIds(graph), n \in Notes :
        ApplyNew(add_configured_channel(graph, r, TrackOf(slot, 1), "named", n[1], n[2]))
    BY DEF CommitAudition
<1>3. \A q \in add_configured_channel(graph, r, TrackOf(slot, 1), "named", n[1], n[2]) :
        Keeps(graph, q)
    BY <1>1, CommitKeeps
<1> QED BY <1>1, <1>2, <1>3, ApplyMutates

----------------------------------------------------------------------------
(* The invariant *)

\* The files hold a project and a region inside it, the selection twice, and a handoff that
\* is the graph.
FilesFit(f) ==
    /\ IsFiles(f)
    /\ Sound(f.graph) /\ Timed(f.request) /\ Within(f.graph, f.request)
    /\ f.metadata = f.request
    /\ f.progress = None \/ f.progress = Some(f.graph)
    /\ f.slot # None => Sound(Get(f.slot)) /\ 1 \in TrackIds(Get(f.slot))

\* The music and the selection of a graph.
Work(p, region) == [music |-> Music(p), selection |-> region]

\* What can be undone is what was there before the last mutation; an undo that is not yet
\* committed has brought it back.
UndoFits(f, before) ==
    /\ f.undo = None <=> f.undo_request = None
    /\ f.undo # None =>
          /\ Sound(Get(f.undo)) /\ Timed(Get(f.undo_request))
          /\ Within(Get(f.undo), Get(f.undo_request))
          /\ before = Some(Work(Get(f.undo), Get(f.undo_request)))
    /\ f.undo = None =>
          before = IF f.progress = None THEN None ELSE Some(Work(f.graph, f.request))

\* If nobody else changed the project, the graph is the server's; one that waits to be
\* committed has ids of the server's or newer ones; and an entry of the log is as new as
\* any id that was ever given.
CommitFits(f, project, version, ids) ==
    /\ version <= project.version /\ ids \subseteq Nat
    /\ project.version = version =>
          /\ f.progress = None => f.graph = project
          /\ f.progress # None /\ f.undo # None =>
                \A x \in Ids(f.graph) : x \in Ids(project) \/ x > highest_id(project)
          /\ ids # {} => \E edit \in project.edits : \A x \in ids : x <= edit.id

SessionInv ==
    session # None =>
        /\ session = Some(files)
        /\ FilesFit(files)
        /\ UndoFits(files, restorable)
        /\ CommitFits(files, server, expected, known)

ToolInv ==
    /\ Sound(server) /\ expected \in Nat
    /\ session = None => restorable = None
    /\ SessionInv

\* The files a session works on.
LEMMA SessionWorks ==
    ASSUME ToolInv, session # None
    PROVE  /\ session = Some(files) /\ Workable /\ FilesFit(files) /\ Within(graph, selection)
           /\ UndoFits(files, restorable) /\ CommitFits(files, server, expected, known)
BY DEF ToolInv, SessionInv, FilesFit, Workable, graph, selection, slot

\* A file that is there is not missing.
LEMMA SomeIsNotNone ==
    ASSUME NEW x
    PROVE  Some(x) # None /\ Get(Some(x)) = x
BY DEF Some, None, Get

\* A project that the format takes has tracks.
LEMMA AcceptedHasTracks ==
    ASSUME NEW p, Accepted(p)
    PROVE  p.tracks # {}
BY DEF Accepted, StructureAccepted

----------------------------------------------------------------------------
(* Calls *)

\* What a step may do, beside the invariant.
StepsWell ==
    /\ outcome' = "took_back" /\ session' # session =>
          [music |-> Music(server'), selection |-> selection'] = Get(restorable)
    /\ outcome' = "committed" /\ session' # session =>
          (Ids(server') \ Ids(server)) \cap known = {}
    /\ Idle /\ session' # None =>
          \/ files' = [files EXCEPT !.slot = files'.slot]
          \/ files'.progress = Some(files'.graph)

\* A step that leaves the files as they were.
LEMMA FilesStay ==
    ASSUME ToolInv, session # None, session' = Some(files), restorable' = restorable,
           UNCHANGED <<server, expected, known>>, outcome' \notin {"took_back", "committed"}
    PROVE  ToolInv' /\ StepsWell
<1>1. session = Some(files) /\ IsFiles(files)
    BY SessionWorks DEF FilesFit
<1>2. session' = session
    BY <1>1
<1>3. files' = files
    BY <1>2 DEF files, Get
<1>4. ToolInv'
    BY <1>2, <1>3 DEF ToolInv, SessionInv
<1>5. files = [files EXCEPT !.slot = files.slot]
    BY <1>1 DEF IsFiles, Names
<1> QED BY <1>3, <1>4, <1>5 DEF StepsWell

\* A step of the session's that the server does not see.
LEMMA FilesChange ==
    ASSUME ToolInv, session # None, NEW then, session' = Some(then),
           UNCHANGED <<server, expected, known>>, outcome' \notin {"took_back", "committed"},
           FilesFit(then), UndoFits(then, restorable'), CommitFits(then, server, expected, known),
           \/ then = [files EXCEPT !.slot = then.slot]
           \/ then.progress = Some(then.graph)
    PROVE  ToolInv' /\ StepsWell
<1>1. files' = then
    BY DEF files, Get, Some
<1>2. ToolInv'
    BY <1>1, SomeIsNotNone DEF ToolInv, SessionInv
<1> QED BY <1>1, <1>2 DEF StepsWell

\* A mutation that succeeds.
LEMMA MutationSucceeds ==
    ASSUME ToolInv, Idle, NEW region, Timed(region), NEW changed, Edited(graph, changed),
           Within(changed, region), Accepted(changed),
           session' = Some(Written(files, MutationWrites(changed, region))),
           restorable' = Some(Work(graph, selection)),
           UNCHANGED <<server, expected, known>>, outcome' = "ok"
    PROVE  ToolInv' /\ StepsWell
<1> DEFINE then == Written(files, MutationWrites(changed, region))
<1>1. /\ Workable /\ FilesFit(files) /\ UndoFits(files, restorable)
      /\ CommitFits(files, server, expected, known) /\ Within(graph, selection)
      /\ files.progress = None /\ session # None
    BY SessionWorks DEF Idle
<1>2. /\ IsFiles(then)
      /\ then.graph = changed /\ then.progress = Some(changed)
      /\ then.undo = Some(files.graph) /\ then.undo_request = Some(files.request)
      /\ then.slot = files.slot
      /\ IF region = selection
         THEN then.request = files.request /\ then.metadata = files.metadata
         ELSE then.request = region /\ then.metadata = region
    BY <1>1, MutationWritten DEF FilesFit
<1> HIDE DEF then
<1>3. then.request = region /\ then.metadata = region
    BY <1>1, <1>2 DEF FilesFit, selection
<1>4. Sound(changed) /\ \A x \in Ids(changed) : x \in Ids(graph) \/ x > highest_id(graph)
    BY <1>1, AcceptedHasTracks, EditedIsSound DEF Workable
<1>5. FilesFit(then)
    BY <1>1, <1>2, <1>3, <1>4 DEF FilesFit
<1>6. UndoFits(then, restorable')
  <2>1. /\ then.undo # None /\ then.undo_request # None
        /\ Get(then.undo) = graph /\ Get(then.undo_request) = selection
      BY <1>2, SomeIsNotNone DEF graph, selection
  <2> QED BY <1>1, <2>1 DEF UndoFits, Workable
<1>7. CommitFits(then, server, expected, known)
  <2>1. then.progress # None
      BY <1>2, SomeIsNotNone
  <2>2. server.version = expected => graph = server
      BY <1>1 DEF CommitFits, graph
  <2> QED BY <1>1, <1>2, <1>4, <2>1, <2>2 DEF CommitFits
<1>8. session' = Some(then)
    BY DEF then
<1> QED BY <1>1, <1>2, <1>5, <1>6, <1>7, <1>8, FilesChange

\* A tool that changes the graph.
LEMMA MutationKeeps ==
    ASSUME ToolInv, Mutates
    PROVE  ToolInv' /\ StepsWell
<1>1. PICK results, region : apply_agent_mutation(results, region) /\ Good(results, region)
    BY DEF Mutates
<1>2. Idle /\ session # None /\ FilesFit(files) /\ Within(graph, selection)
    BY <1>1, SessionWorks DEF apply_agent_mutation, Idle
<1>3. IsFiles(files)
    BY <1>2 DEF FilesFit
<1>4. PICK result \in results :
        LET changed == result.project
            writes == MutationWrites(changed, region)
            rollback == MutationRollback(region)
        IN \/ /\ Accepted(changed)
              /\ Succeeds(writes)
              /\ changes' = changes + 1
              /\ affected' = result.tracks
              /\ restorable' = Some([music |-> Music(files.graph), selection |-> selection])
              /\ outcome' = "ok"
           \/ /\ ~Accepted(changed)
              /\ Fails(writes, 3, rollback)
              /\ outcome' = Refused(changed)
           \/ WriteFails(writes, rollback)
    BY <1>1 DEF apply_agent_mutation
<1> DEFINE changed == result.project
           writes == MutationWrites(changed, region)
           rollback == MutationRollback(region)
<1>5. UNCHANGED <<server, expected, known>>
    BY <1>1 DEF apply_agent_mutation
<1>6. Edited(graph, changed) /\ Within(changed, region) /\ Timed(region)
    BY <1>1, <1>2 DEF Good
<1>7. 3 \in DOMAIN writes
  <2>1. IsWrites(writes, IF region = selection THEN 4 ELSE 6)
      BY MutationSteps
  <2> QED BY <2>1 DEF IsWrites
<1> HIDE DEF writes, rollback, changed
<1>8. ASSUME NEW place \in DOMAIN writes, Fails(writes, place, rollback),
             outcome' \notin {"took_back", "committed"}
      PROVE  ToolInv' /\ StepsWell
  <2>1. Written(Written(files, SubSeq(writes, 1, place - 1)), rollback) = files
      BY <1>3, MutationRollsBack DEF writes, rollback
  <2>2. session' = Some(files) /\ restorable' = restorable
      BY <1>8, <2>1 DEF Fails
  <2> QED BY <1>2, <1>5, <1>8, <2>2, FilesStay
<1>9. CASE Accepted(changed) /\ Succeeds(writes)
           /\ restorable' = Some([music |-> Music(files.graph), selection |-> selection])
           /\ outcome' = "ok"
    BY <1>2, <1>5, <1>6, <1>9, MutationSucceeds DEF Succeeds, Work, graph, writes
<1>10. CASE Fails(writes, 3, rollback) /\ outcome' = Refused(changed)
    BY <1>7, <1>8, <1>10 DEF Refused
<1>11. CASE WriteFails(writes, rollback)
    BY <1>8, <1>11 DEF WriteFails
<1> QED BY <1>4, <1>9, <1>10, <1>11 DEF writes, rollback, changed

----------------------------------------------------------------------------
(* Undo and the audition slots *)

\* An undo that succeeds.
LEMMA UndoSucceeds ==
    ASSUME ToolInv, Idle, files.undo # None, NEW restored,
           restored = [Get(files.undo) EXCEPT !.version = graph.version + 1],
           session' = Some(Written(files, UndoWrites(restored))),
           UNCHANGED <<server, expected, known, restorable>>, outcome' = "ok"
    PROVE  ToolInv' /\ StepsWell
<1> DEFINE then == Written(files, UndoWrites(restored))
           before == Get(files.undo)
           region == Get(files.undo_request)
<1>1. /\ Workable /\ FilesFit(files) /\ UndoFits(files, restorable)
      /\ CommitFits(files, server, expected, known)
      /\ files.progress = None /\ session # None
    BY SessionWorks DEF Idle
<1>2. /\ files.undo_request # None /\ Sound(before) /\ Timed(region) /\ Within(before, region)
      /\ restorable = Some(Work(before, region))
    BY <1>1 DEF UndoFits
<1>3. UndoRequest = region
    BY <1>2 DEF UndoRequest
<1>4. /\ IsFiles(then)
      /\ then.graph = restored /\ then.progress = Some(restored)
      /\ then.undo = None /\ then.undo_request = None
      /\ then.slot = files.slot
      /\ then.request = region /\ then.metadata = region
    BY <1>1, <1>3, UndoWritten DEF FilesFit
<1>5. session' = Some(then)
    OBVIOUS
<1> HIDE DEF then, before, region
<1>6. /\ IsProject(restored) /\ restored.version = graph.version + 1
      /\ \A part \in Parts \ {"version"} : restored[part] = before[part]
    BY <1>2 DEF Sound, IsProject, Has, Parts, before
<1>7. /\ restored.bpm = before.bpm /\ restored.duration = before.duration
      /\ restored.tracks = before.tracks /\ restored.racks = before.racks
      /\ restored.key_zones = before.key_zones /\ restored.clips = before.clips
      /\ restored.edits = before.edits
    BY <1>6 DEF Parts
<1>8. Sound(restored)
  <2>1. graph.version \in Nat
      BY <1>1 DEF Workable, Sound
  <2>2. PICK n \in Nat : PartsIn(before, 0..n)
      BY <1>2 DEF Sound
  <2>3. PartsIn(restored, 0..n)
      BY <1>7, <2>2 DEF PartsIn
  <2> QED BY <1>2, <1>6, <1>7, <2>1, <2>2, <2>3 DEF Sound
<1>9. Within(restored, region) /\ Music(restored) = Music(before)
    BY <1>2, <1>7 DEF Within, Music
<1>10. FilesFit(then)
    BY <1>1, <1>2, <1>4, <1>8, <1>9 DEF FilesFit
<1>11. then.progress # None
    BY <1>4, SomeIsNotNone
<1>12. UndoFits(then, restorable')
    BY <1>2, <1>4, <1>9, <1>11 DEF UndoFits, Work
<1>13. CommitFits(then, server, expected, known)
    BY <1>1, <1>4, <1>11 DEF CommitFits
<1> QED BY <1>1, <1>4, <1>5, <1>10, <1>12, <1>13, FilesChange

\* Undo, whether it succeeds or not.
LEMMA UndoKeeps ==
    ASSUME ToolInv, Undo
    PROVE  ToolInv' /\ StepsWell
<1> DEFINE restored == [Get(files.undo) EXCEPT !.version = graph.version + 1]
           writes == UndoWrites(restored)
<1>1. /\ Idle /\ files.undo # None /\ UNCHANGED <<server, expected, known>>
      /\ \/ Succeeds(writes) /\ outcome' = "ok" /\ UNCHANGED restorable
         \/ Fails(writes, 1, UndoRollback) /\ outcome' = Refused(restored)
         \/ WriteFails(writes, UndoRollback)
    BY DEF Undo
<1>2. session # None /\ IsFiles(files)
    BY <1>1, SessionWorks DEF Idle, FilesFit
<1>3. 1 \in DOMAIN writes
    BY UndoSteps DEF IsWrites
<1>4. ASSUME NEW place \in DOMAIN writes, Fails(writes, place, UndoRollback),
             outcome' \notin {"took_back", "committed"}
      PROVE  ToolInv' /\ StepsWell
  <2>1. Written(Written(files, SubSeq(writes, 1, place - 1)), UndoRollback) = files
      BY <1>2, UndoRollsBack
  <2> HIDE DEF writes
  <2>2. session' = Some(files) /\ restorable' = restorable
      BY <1>4, <2>1 DEF Fails
  <2> QED BY <1>1, <1>2, <1>4, <2>2, FilesStay
<1>5. CASE Succeeds(writes) /\ outcome' = "ok" /\ UNCHANGED restorable
    BY <1>1, <1>5, UndoSucceeds DEF Succeeds
<1> HIDE DEF writes, restored
<1>6. CASE Fails(writes, 1, UndoRollback) /\ outcome' = Refused(restored)
    BY <1>3, <1>4, <1>6 DEF Refused
<1>7. CASE WriteFails(writes, UndoRollback)
    BY <1>4, <1>7 DEF WriteFails
<1> QED BY <1>1, <1>5, <1>6, <1>7

\* A slot that is written or removed.
LEMMA SlotKeeps ==
    ASSUME ToolInv, Idle, NEW p, KeepSlot(p),
           p # None => Sound(Get(p)) /\ 1 \in TrackIds(Get(p))
    PROVE  ToolInv' /\ StepsWell
<1> DEFINE then == [files EXCEPT !.slot = p]
<1>1. /\ session = Some(files) /\ FilesFit(files) /\ UndoFits(files, restorable)
      /\ CommitFits(files, server, expected, known) /\ session # None
    BY SessionWorks DEF Idle
<1>2. session' = Some(then)
  <2>1. session' = [session EXCEPT ![1].slot = p]
      BY DEF KeepSlot
  <2>2. session' = [Some(files) EXCEPT ![1].slot = p]
      BY <1>1, <2>1
  <2> DEFINE f == files
  <2>3. f = files
      OBVIOUS
  <2> HIDE DEF f
  <2>4. [<<f>> EXCEPT ![1].slot = p] = <<[f EXCEPT !.slot = p]>>
      OBVIOUS
  <2> QED BY <2>2, <2>3, <2>4 DEF Some
<1>3. /\ IsFiles(then) /\ then.slot = p
      /\ then.graph = files.graph /\ then.request = files.request
      /\ then.metadata = files.metadata /\ then.undo = files.undo
      /\ then.undo_request = files.undo_request /\ then.progress = files.progress
    BY <1>1 DEF FilesFit, IsFiles, Names
<1>4. then = [files EXCEPT !.slot = then.slot]
    BY <1>3
<1> HIDE DEF then
<1>5. UNCHANGED <<server, expected, known, restorable>> /\ outcome' = "ok"
    BY DEF KeepSlot
<1>6. FilesFit(then)
    BY <1>1, <1>3 DEF FilesFit
<1>7. UndoFits(then, restorable')
    BY <1>1, <1>3, <1>5 DEF UndoFits
<1>8. CommitFits(then, server, expected, known)
    BY <1>1, <1>3 DEF CommitFits
<1> QED BY <1>1, <1>2, <1>4, <1>5, <1>6, <1>7, <1>8, FilesChange

\* What a sound tool makes of a slot is a slot.
LEMMA ShapedSlot ==
    ASSUME NEW p, Sound(p), 1 \in TrackIds(p), NEW q, Shaped(p, q)
    PROVE  Sound(q) /\ 1 \in TrackIds(q)
<1>1. 1 \in TrackIds(q) /\ Edited(p, q)
    BY DEF Shaped, Keeps
<1>2. q.tracks # {}
    BY <1>1 DEF TrackIds
<1> QED BY <1>1, <1>2, EditedIsSound

\* A slot that is made.
LEMMA CreateSlotKeeps ==
    ASSUME ToolInv, CreateAuditionSlot
    PROVE  ToolInv' /\ StepsWell
<1> DEFINE first == [InitialProject EXCEPT !.bpm = graph.bpm]
<1>1. Idle /\ Workable
    BY SessionWorks DEF CreateAuditionSlot, Idle
<1>2. PICK plain \in {first} \cup set_surge_preset(first, 1) :
        \E p \in create_key_zone(plain, 4, 101, 0, 1) : KeepSlot(Some(p))
    BY DEF CreateAuditionSlot
<1>3. PICK p \in create_key_zone(plain, 4, 101, 0, 1) : KeepSlot(Some(p))
    BY <1>2
<1>4. Sound(first) /\ 1 \in TrackIds(first)
  <2>1. graph.bpm \in Nat
      BY <1>1 DEF Workable, Sound
  <2>2. /\ IsProject(first) /\ first.bpm = graph.bpm /\ first.version = 1
        /\ \A part \in Parts \ {"version", "bpm"} : first[part] = InitialProject[part]
      BY DEF InitialProject, IsProject, Has, Parts
  <2> HIDE DEF first
  <2> QED BY <2>1, <2>2, NewIsSound
<1> HIDE DEF first
<1>5. Sound(plain) /\ 1 \in TrackIds(plain)
  <2>1. CASE plain = first
      BY <1>4, <2>1
  <2>2. CASE plain \in set_surge_preset(first, 1)
      BY <1>4, <2>2, PresetTool, ShapedSlot
  <2> QED BY <2>1, <2>2
<1>6. Keeps(plain, p) /\ TrackIds(p) = TrackIds(plain)
    BY <1>5, ArrangementKeeps
<1>7. Sound(p) /\ 1 \in TrackIds(p)
    BY <1>5, <1>6, ShapedSlot DEF Shaped
<1> QED BY <1>1, <1>3, <1>7, SlotKeeps, SomeIsNotNone

\* A slot that is shaped.
LEMMA EditSlotKeeps ==
    ASSUME ToolInv, EditAuditionSlot
    PROVE  ToolInv' /\ StepsWell
<1>1. Idle /\ Sound(slot) /\ 1 \in TrackIds(slot)
    BY SessionWorks DEF EditAuditionSlot, Idle, Workable
<1>2. PICK results \in {set_surge_preset(slot, 1), add_effect(slot, 1), update_effect(slot, 1),
                        delete_effects(slot, 1), add_modulator(slot, 1),
                        update_modulator(slot, 1), delete_modulators(slot, 1),
                        set_instrument_parameter(slot, 1), set_instrument_parameters(slot, 1)} :
        \E changed \in {p \in results : Accepted(p)} : KeepSlot(Some(changed))
    BY DEF EditAuditionSlot
<1>3. PICK changed \in results : KeepSlot(Some(changed))
    BY <1>2
<1>4. Shaped(slot, changed)
    BY <1>1, <1>2, <1>3, SoundTools
<1>5. Sound(changed) /\ 1 \in TrackIds(changed)
    BY <1>1, <1>4, ShapedSlot
<1> QED BY <1>1, <1>3, <1>5, SlotKeeps, SomeIsNotNone

\* A slot that is removed.
LEMMA DeleteSlotKeeps ==
    ASSUME ToolInv, DeleteAuditionSlot
    PROVE  ToolInv' /\ StepsWell
BY SlotKeeps DEF DeleteAuditionSlot

----------------------------------------------------------------------------
(* The server *)

\* A session that ends.
LEMMA EndKeeps ==
    ASSUME ToolInv, NEW how, EndSession(how), how \notin {"took_back", "committed"},
           Sound(server'), UNCHANGED expected
    PROVE  ToolInv' /\ StepsWell
BY DEF EndSession, ToolInv, SessionInv, StepsWell

\* A new project stands for what a parser took.
LEMMA FirstIsSound ==
    ASSUME NEW p \in FirstProjects
    PROVE  Sound(p)
<1>1. WellFormed(p) /\ p.tracks # {}
    BY FirstAssumption, AcceptedHasTracks
<1> QED BY <1>1 DEF WellFormed, Sound

\* The invariant holds at first.
LEMMA ToolInit ==
    ASSUME Init
    PROVE  ToolInv
BY FirstIsSound DEF Init, ToolInv, SessionInv

\* A session that begins.
LEMMA CreateKeeps ==
    ASSUME ToolInv, CreateSession
    PROVE  ToolInv' /\ StepsWell
<1>1. /\ session = None /\ Sound(server) /\ restorable = None
      /\ expected' = server.version /\ outcome' = "ok"
      /\ known' = (IF NewestIsAnEdit(server) THEN Ids(server) ELSE {})
      /\ UNCHANGED <<server, restorable>>
    BY DEF CreateSession, ToolInv
<1>2. PICK region \in Selections :
        /\ validate_edit_for_duration(server, region)
        /\ session' = Some([graph |-> server, request |-> region, metadata |-> region,
                            undo |-> None, undo_request |-> None, progress |-> None,
                            slot |-> None])
    BY DEF CreateSession
<1> DEFINE then == [graph |-> server, request |-> region, metadata |-> region,
                    undo |-> None, undo_request |-> None, progress |-> None, slot |-> None]
<1>3. Timed(region) /\ Within(server, region)
    BY <1>2, FirstAssumption DEF validate_edit_for_duration
<1>4. /\ IsFiles(then) /\ then.graph = server /\ then.request = region
      /\ then.metadata = region /\ then.undo = None /\ then.undo_request = None
      /\ then.progress = None /\ then.slot = None
    BY DEF IsFiles, Names
<1>5. session' = Some(then)
    BY <1>2
<1> HIDE DEF then
<1>6. FilesFit(then)
    BY <1>1, <1>3, <1>4 DEF FilesFit
<1>7. UndoFits(then, restorable')
    BY <1>1, <1>4 DEF UndoFits
<1>8. CommitFits(then, server', expected', known')
  <2>1. server.version \in Nat /\ server' = server /\ known' \subseteq Nat
      BY <1>1, NextIdIsNew DEF Sound
  <2>2. ASSUME known' # {}
        PROVE  \E edit \in server.edits : \A x \in known' : x <= edit.id
    <3>1. NewestIsAnEdit(server) /\ known' = Ids(server)
        BY <1>1, <2>2
    <3>2. PICK edit \in server.edits : edit.id = highest_id(server)
        BY <3>1 DEF NewestIsAnEdit
    <3>3. Ids(server) \subseteq 0..highest_id(server)
        BY <1>1, NextIdIsNew
    <3> QED BY <3>1, <3>2, <3>3
  <2> QED BY <1>1, <1>4, <2>1, <2>2 DEF CommitFits
<1>9. files' = then /\ session' # None
    BY <1>5, SomeIsNotNone DEF files
<1>10. ToolInv'
  <2>1. expected' \in Nat /\ Sound(server')
      BY <1>1 DEF Sound
  <2> QED BY <1>5, <1>6, <1>7, <1>8, <1>9, <2>1 DEF ToolInv, SessionInv
<1> QED BY <1>1, <1>10 DEF StepsWell, Idle

\* A commit that succeeds, and whose session goes on.
LEMMA CommitSucceeds ==
    ASSUME ToolInv, session # None, files.progress # None, server.version = expected,
           NEW candidate \in replace_graph(server, take_update, selection),
           server' = candidate, expected' = candidate.version,
           session' = Some([Taken EXCEPT !.graph = candidate]),
           known' = known \cup Ids(candidate),
           outcome' = (IF files.undo = None THEN "took_back" ELSE "committed"),
           restorable' = (IF files.undo = None THEN None ELSE restorable)
    PROVE  ToolInv' /\ StepsWell
<1> DEFINE then == [Taken EXCEPT !.graph = candidate]
<1>1. /\ Workable /\ FilesFit(files) /\ UndoFits(files, restorable)
      /\ CommitFits(files, server, expected, known) /\ Sound(server)
    BY SessionWorks DEF ToolInv
<1>2. take_update = graph /\ Sound(graph)
    BY <1>1, SomeIsNotNone DEF take_update, FilesFit, graph
<1>3. PICK newest \in Nat : Commits(server, graph, candidate, newest)
    BY <1>1, <1>2, GraphReplaced
<1>4. Sound(candidate)
    BY <1>1, <1>2, <1>3, CommitIsSound
<1>5. /\ IsFiles(then) /\ then.graph = candidate /\ then.progress = None
      /\ then.request = files.request /\ then.metadata = files.metadata
      /\ then.undo = files.undo /\ then.undo_request = files.undo_request
      /\ then.slot = files.slot
    BY <1>1 DEF FilesFit, IsFiles, Names, Taken
<1> HIDE DEF then
<1>6. /\ candidate.bpm = graph.bpm /\ candidate.duration = graph.duration
      /\ candidate.tracks = graph.tracks /\ candidate.racks = graph.racks
      /\ candidate.key_zones = graph.key_zones /\ candidate.clips = graph.clips
    BY <1>3 DEF Commits, Parts
<1>7. FilesFit(then)
  <2>1. Within(candidate, files.request)
      BY <1>1, <1>6 DEF FilesFit, Within, graph
  <2> QED BY <1>1, <1>4, <1>5, <2>1 DEF FilesFit
<1>8. UndoFits(then, restorable')
    BY <1>1, <1>5 DEF UndoFits
<1>9. /\ Ids(candidate) \subseteq Ids(graph) \cup Ids(server) \cup {newest}
      /\ \A x \in Ids(candidate) : x <= newest
    BY <1>3, IdsOfParts DEF Commits
<1>10. known # {} => \E edit \in server.edits : \A x \in known : x <= edit.id
    BY <1>1 DEF CommitFits
<1>11. /\ highest_id(server) \in Nat /\ Ids(server) \subseteq 0..highest_id(server)
       /\ \A edit \in server.edits : edit.id \in Ids(server)
    BY <1>1, NextIdIsNew, IdsAreThere
<1>12. \A edit \in server.edits : edit.id < newest
    BY <1>3 DEF Commits
<1>13. Ids(candidate) \subseteq Nat /\ known \subseteq Nat
    BY <1>1, <1>4, NextIdIsNew DEF CommitFits
<1>14. \A x \in known : x < newest
    BY <1>10, <1>11, <1>12, <1>13
<1>15. CommitFits(then, server', expected', known')
  <2>1. candidate.version = server.version + 1 /\ server.version \in Nat
      BY <1>1, <1>3 DEF Commits, Sound
  <2>2. PICK edit \in candidate.edits : edit.id = newest
      BY <1>3 DEF Commits
  <2>3. \A x \in known' : x \in Nat /\ x <= edit.id
      BY <1>9, <1>13, <1>14, <2>2
  <2> QED BY <1>5, <2>1, <2>2, <2>3 DEF CommitFits
<1>16. session' = Some(then) /\ files' = then /\ session' # None
    BY SomeIsNotNone DEF files, then
<1>17. ToolInv'
  <2>1. expected' \in Nat /\ Sound(server')
      BY <1>4 DEF Sound
  <2> QED BY <1>7, <1>8, <1>15, <1>16, <2>1 DEF ToolInv, SessionInv
<1>18. outcome' = "took_back" =>
          [music |-> Music(server'), selection |-> selection'] = Get(restorable)
  <2> SUFFICES ASSUME outcome' = "took_back"
               PROVE  [music |-> Music(server'), selection |-> selection'] = Get(restorable)
      OBVIOUS
  <2>1. files.undo = None
      OBVIOUS
  <2>2. restorable = Some(Work(files.graph, files.request))
      BY <1>1, <2>1 DEF UndoFits
  <2>3. Get(restorable) = Work(files.graph, files.request)
      BY <2>2, SomeIsNotNone
  <2>4. selection' = files.request
      BY <1>5, <1>16 DEF selection
  <2>5. Music(server') = Music(graph)
      BY <1>6 DEF Music
  <2> QED BY <2>3, <2>4, <2>5 DEF Work, graph
<1>19. outcome' = "committed" => (Ids(server') \ Ids(server)) \cap known = {}
  <2> SUFFICES ASSUME outcome' = "committed", NEW x \in Ids(candidate), x \notin Ids(server),
                      x \in known
               PROVE  FALSE
      OBVIOUS
  <2>1. files.undo # None
      OBVIOUS
  <2>2. \A y \in Ids(graph) : y \in Ids(server) \/ y > highest_id(server)
      BY <1>1, <2>1 DEF CommitFits, graph
  <2>3. x # newest
      BY <1>13, <1>14
  <2>4. x > highest_id(server)
      BY <1>9, <2>2, <2>3
  <2>5. PICK edit \in server.edits : \A y \in known : y <= edit.id
      BY <1>10
  <2>6. edit.id <= highest_id(server) /\ edit.id \in Nat /\ x <= edit.id /\ x \in Nat
      BY <1>11, <1>13, <2>5
  <2> QED BY <1>11, <2>4, <2>6
<1>20. ~Idle
    BY DEF Idle
<1> QED BY <1>17, <1>18, <1>19, <1>20 DEF StepsWell

\* A commit, whatever becomes of it.
LEMMA CommitKeepsTool ==
    ASSUME ToolInv, CommitUpdate
    PROVE  ToolInv' /\ StepsWell
<1> DEFINE candidates == replace_graph(server, take_update, selection)
<1>1. session # None /\ files.progress # None /\ Sound(server)
    BY DEF CommitUpdate, ToolInv
<1>2. \/ \E how \in {"ok", "invalid"} : EndSession(how) /\ UNCHANGED <<server, expected>>
      \/ /\ server.version = expected
         /\ \E candidate \in candidates :
            \/ /\ Accepted(candidate)
               /\ server' = candidate /\ expected' = candidate.version
               /\ session' = Some([Taken EXCEPT !.graph = candidate])
               /\ known' = known \cup Ids(candidate)
               /\ outcome' = (IF files.undo = None THEN "took_back" ELSE "committed")
               /\ restorable' = (IF files.undo = None THEN None ELSE restorable)
            \/ server' = candidate /\ EndSession("ok") /\ UNCHANGED expected
            \/ /\ EndSession(IF files.undo = None THEN "undo_refused" ELSE "save_refused")
               /\ UNCHANGED <<server, expected>>
    BY DEF CommitUpdate
<1> HIDE DEF candidates
<1>3. CASE \E how \in {"ok", "invalid"} : EndSession(how) /\ UNCHANGED <<server, expected>>
    BY <1>1, <1>3, EndKeeps
<1>4. ASSUME server.version = expected, NEW candidate \in candidates,
             server' = candidate, expected' = candidate.version,
             session' = Some([Taken EXCEPT !.graph = candidate]),
             known' = known \cup Ids(candidate),
             outcome' = (IF files.undo = None THEN "took_back" ELSE "committed"),
             restorable' = (IF files.undo = None THEN None ELSE restorable)
      PROVE  ToolInv' /\ StepsWell
    BY <1>1, <1>4, CommitSucceeds DEF candidates
<1>5. ASSUME NEW candidate \in candidates, server' = candidate, EndSession("ok"),
             UNCHANGED expected
      PROVE  ToolInv' /\ StepsWell
  <2>1. Sound(graph) /\ take_update = graph
      BY <1>1, SessionWorks, SomeIsNotNone DEF Workable, FilesFit, take_update, graph
  <2>2. PICK newest \in Nat : Commits(server, graph, candidate, newest)
      BY <1>1, <2>1, GraphReplaced DEF candidates
  <2>3. Sound(server')
      BY <1>1, <1>5, <2>1, <2>2, CommitIsSound
  <2> QED BY <1>5, <2>3, EndKeeps
<1>6. ASSUME EndSession(IF files.undo = None THEN "undo_refused" ELSE "save_refused"),
             UNCHANGED <<server, expected>>
      PROVE  ToolInv' /\ StepsWell
    BY <1>1, <1>6, EndKeeps
<1> QED BY <1>2, <1>3, <1>4, <1>5, <1>6

\* A change from the browser counts one version up and leaves a project.
LEMMA ManualCounts ==
    ASSUME ToolInv, ManualChange
    PROVE  server'.version = server.version + 1 /\ Sound(server')
<1>1. Sound(server) /\ server.version \in Nat
    BY DEF ToolInv, Sound
<1>2. server'.tracks # {}
    BY AcceptedHasTracks DEF ManualChange
<1>3. 0 \in Nat /\ IsProject(server) /\ PartsIn(server, Ample(server, 0))
    BY <1>1, AmpleRoom DEF Sound
<1>4. \/ \E d \in Durations : server' \in set_duration(server, d)
      \/ \E t \in TrackIds(server) : server' \in set_mix(server, t, TRUE)
      \/ server' \in reset(server)
    BY DEF ManualChange
<1>5. ASSUME NEW parts, Makes(server, server', parts, Ample(server, 0)), "bpm" \notin parts
      PROVE  server'.version = server.version + 1 /\ Sound(server')
  <2>1. Edited(server, server')
      BY <1>1, <1>3, <1>5, MakesEdited
  <2>2. Sound(server')
      BY <1>1, <1>2, <2>1, EditedIsSound
  <2> QED BY <1>5, <2>2 DEF Makes, Touches
<1>6. CASE \E d \in Durations : server' \in set_duration(server, d)
  <2>1. Makes(server, server', {"duration", "clips", "edits"}, Ample(server, 0))
      BY <1>3, <1>6, DurationSet
  <2> QED BY <1>5, <2>1
<1>7. CASE \E t \in TrackIds(server) : server' \in set_mix(server, t, TRUE)
  <2>1. Makes(server, server', {"tracks"}, Ample(server, 0))
      BY <1>3, <1>7, MixShapes DEF Shapes
  <2> QED BY <1>5, <2>1
<1>8. CASE server' \in reset(server)
  <2>1. /\ IsProject(server') /\ server'.version = server.version + 1 /\ server'.bpm = 120
        /\ \A part \in Parts \ {"version", "bpm"} : server'[part] = InitialProject[part]
      BY <1>8 DEF reset, Given, InitialProject, IsProject, Has, Parts
  <2> QED BY <1>1, <2>1, NewIsSound
<1> QED BY <1>4, <1>6, <1>7, <1>8

\* A change from the browser: the version grows, and a commit that builds upon the one
\* before is refused.
LEMMA ManualKeeps ==
    ASSUME ToolInv, ManualChange
    PROVE  ToolInv' /\ StepsWell
<1>1. /\ Sound(server) /\ server.version \in Nat
      /\ UNCHANGED <<session, expected, restorable, known>> /\ outcome' = "ok"
    BY DEF ManualChange, ToolInv, Sound
<1>2. server'.tracks # {}
    BY AcceptedHasTracks DEF ManualChange
<1>3. server'.version = server.version + 1 /\ Sound(server')
    BY ManualCounts
<1>4. files' = files
    BY <1>1 DEF files
<1>5. ASSUME session # None PROVE CommitFits(files, server', expected, known)
  <2>1. CommitFits(files, server, expected, known)
      BY <1>5, SessionWorks
  <2>2. expected \in Nat
      BY DEF ToolInv
  <2> QED BY <1>1, <1>3, <2>1, <2>2 DEF CommitFits
<1>6. ToolInv'
    BY <1>1, <1>3, <1>4, <1>5 DEF ToolInv, SessionInv
<1>7. session # None => files = [files EXCEPT !.slot = files.slot]
    BY SessionWorks DEF FilesFit, IsFiles, Names
<1> QED BY <1>1, <1>4, <1>6, <1>7 DEF StepsWell, Idle

\* A step that changes nothing.
LEMMA StutterKeeps ==
    ASSUME ToolInv, UNCHANGED vars
    PROVE  ToolInv'
<1>1. /\ UNCHANGED <<server, session, expected, restorable, known>> /\ files' = files
    BY DEF vars, files
<1> QED BY <1>1 DEF ToolInv, SessionInv

\* Every step.
LEMMA ToolStep ==
    ASSUME ToolInv, Next
    PROVE  ToolInv' /\ StepsWell
<1>1. ASSUME FinishSession PROVE ToolInv' /\ StepsWell
    BY <1>1, EndKeeps DEF FinishSession, ToolInv
<1>2. ASSUME ArrangementTool \/ SoundTool \/ CommitAudition PROVE ToolInv' /\ StepsWell
  <2>1. Workable
      BY <1>2, SessionWorks DEF ArrangementTool, SoundTool, CommitAudition, Idle
  <2>2. Mutates
      BY <1>2, <2>1, ArrangementMutates, SoundMutates, AuditionMutates
  <2> QED BY <2>2, MutationKeeps
<1> QED BY <1>1, <1>2, CreateKeeps, CreateSlotKeeps, EditSlotKeeps, DeleteSlotKeeps, UndoKeeps,
           CommitKeepsTool, ManualKeeps DEF Next, AuditionTool

----------------------------------------------------------------------------
(* Theorems *)

\* The files of a session fit together, and with the project of the server.
THEOREM FilesFitTogether == Spec => []ToolInv
<1>1. Init => ToolInv
    BY ToolInit
<1>2. ToolInv /\ [Next]_vars => ToolInv'
    BY ToolStep, StutterKeeps
<1> QED BY <1>1, <1>2, PTL DEF Spec

\* Between two calls the undo files hold the music and the selection before the last mutation
\* that was not taken back, or are empty when there is none (ToolSession).
THEOREM UndoFilesHold == Spec => []UndoHoldsTheLastMutation
<1>1. ToolInv => UndoHoldsTheLastMutation
  <2> SUFFICES ASSUME ToolInv, Idle
               PROVE  IF files.undo = None THEN restorable = None
                      ELSE restorable = Some([music |-> Music(Get(files.undo)),
                                              selection |-> UndoRequest])
      BY DEF UndoHoldsTheLastMutation
  <2>1. UndoFits(files, restorable) /\ files.progress = None
      BY SessionWorks DEF Idle
  <2> QED BY <2>1 DEF UndoFits, UndoRequest, Work
<1> QED BY <1>1, FilesFitTogether, PTL

\* A commit that follows an undo gives the project the music it had before the mutation that
\* was taken back, and the session its selection.
THEOREM UndoGivesBack == Spec => UndoRestores
<1>1. ToolInv /\ [Next]_vars =>
        [outcome' = "took_back" /\ session' # session =>
             [music |-> Music(server'), selection |-> selection'] = Get(restorable)]_vars
    BY ToolStep DEF StepsWell
<1> QED BY <1>1, FilesFitTogether, PTL DEF Spec, UndoRestores

\* The two files that hold the selected region agree, and the region lies inside the project
\* of the session.
THEOREM SelectionStaysWhole == Spec => []SelectionFilesAgree
<1>1. ToolInv => SelectionFilesAgree
    BY SessionWorks DEF FilesFit, SelectionFilesAgree, selection
<1> QED BY <1>1, FilesFitTogether, PTL

\* What a commit adds to the project has ids that nothing in it had before.
THEOREM NewIdsAreFresh == Spec => IdsAreFresh
<1>1. ToolInv /\ [Next]_vars =>
        [outcome' = "committed" /\ session' # session =>
             (Ids(server') \ Ids(server)) \cap known = {}]_vars
    BY ToolStep DEF StepsWell
<1> QED BY <1>1, FilesFitTogether, PTL DEF Spec, IdsAreFresh

\* Between two calls the graph of the session is the server's project, unless somebody else
\* changed that.
THEOREM SessionFollowsServer == Spec => []SessionMirrorsProject
<1>1. ToolInv => SessionMirrorsProject
    BY SessionWorks DEF SessionMirrorsProject, Idle, CommitFits, graph
<1> QED BY <1>1, FilesFitTogether, PTL

\* A call changes the files of a session as a whole or not at all.
THEOREM CallsChangeAllOrNothing == Spec => CallsAreWhole
<1>1. ToolInv /\ [Next]_vars =>
        [Idle /\ session' # None =>
             \/ files' = [files EXCEPT !.slot = files'.slot]
             \/ files'.progress = Some(files'.graph)]_vars
    BY ToolStep DEF StepsWell
<1> QED BY <1>1, FilesFitTogether, PTL DEF Spec, CallsAreWhole
----------------------------------------------------------------------------
(* What a change makes sound different *)

\* A track plays in q what it played in p.
PlaysOn(p, q, t) == Played(q, TrackOf(q, t)) = Played(p, TrackOf(p, t))

\* The listen that goes with some tracks covers all that q plays otherwise than p.
Covers(p, q, named) ==
    \A t \in TrackIds(q) \cap TrackIds(p) :
        ~PlaysOn(p, q, t) => t \in arrangement_listen_requirement(q, named)

\* A listen to all the tracks covers everything; else it is enough to name what changed.
LEMMA NamedCovers ==
    ASSUME NEW p, NEW q, NEW named
    PROVE  /\ Covers(p, q, {})
           /\ (\A t \in TrackIds(q) \cap TrackIds(p) : t \notin named => PlaysOn(p, q, t))
                  => Covers(p, q, named)
BY DEF Covers, arrangement_listen_requirement

\* A track is found by its id.
LEMMA TrackFound ==
    ASSUME NEW p, NEW I, PartsIn(p, I), NEW u \in p.tracks
    PROVE  TrackOf(p, u.id) = u
BY DEF TrackOf, PartsIn, TracksIn

\* What a track plays depends on the notes it gets; a clip of which it gets none may go or
\* come.
LEMMA NotesLead ==
    ASSUME NEW p, NEW q, NEW u,
           \A c : PitchesReceived(q, c, u) = PitchesReceived(p, c, u),
           \A c \in p.clips : c \in q.clips \/ PitchesReceived(p, c, u) = {},
           \A c \in q.clips : c \in p.clips \/ PitchesReceived(p, c, u) = {}
    PROVE  Played(q, u) = Played(p, u)
<1> DEFINE note(c, pitch) == <<c.start, c.end, c.source_start, c.pattern, pitch>>
           notes(x) == UNION {{note(c, pitch) : pitch \in PitchesReceived(x, c, u)} : c \in x.clips}
<1>1. Played(q, u) = [sound |-> [u EXCEPT !.name = "any"], notes |-> notes(q)]
      /\ Played(p, u) = [sound |-> [u EXCEPT !.name = "any"], notes |-> notes(p)]
    BY DEF Played
<1> HIDE DEF note
<1>2. \A x : x \in notes(q) <=>
          \E c \in q.clips : \E pitch \in PitchesReceived(p, c, u) : x = note(c, pitch)
    OBVIOUS
<1>3. \A x : x \in notes(p) <=>
          \E c \in p.clips : \E pitch \in PitchesReceived(p, c, u) : x = note(c, pitch)
    OBVIOUS
<1>4. notes(q) = notes(p)
  <2> DEFINE a == notes(q)
             b == notes(p)
  <2>1. \A x : x \in a <=> x \in b
      BY <1>2, <1>3
  <2> HIDE DEF a, b
  <2>2. a = b
      BY <2>1
  <2> QED BY <2>2 DEF a, b
<1> QED BY <1>1, <1>4

\* The zones that lead to its instrument.
LEMMA ZonesLead ==
    ASSUME NEW p, NEW q, NEW u, q.clips = p.clips,
           \A z : z.instrument = u.instrument => (z \in q.key_zones <=> z \in p.key_zones)
    PROVE  Played(q, u) = Played(p, u)
<1>1. \A rack, pitch : track_receives_pitch(q, rack, u, pitch)
                           <=> track_receives_pitch(p, rack, u, pitch)
    BY DEF track_receives_pitch
<1>2. \A c : PitchesReceived(q, c, u) = PitchesReceived(p, c, u)
    BY <1>1 DEF PitchesReceived
<1> QED BY <1>2, NotesLead

\* And the clips.
LEMMA ClipsLead ==
    ASSUME NEW p, NEW q, NEW u, q.key_zones = p.key_zones,
           \A c \in p.clips : c \in q.clips \/ PitchesReceived(p, c, u) = {},
           \A c \in q.clips : c \in p.clips \/ PitchesReceived(p, c, u) = {}
    PROVE  Played(q, u) = Played(p, u)
<1>1. \A c : PitchesReceived(q, c, u) = PitchesReceived(p, c, u)
    BY DEF PitchesReceived, track_receives_pitch
<1> QED BY <1>1, NotesLead

\* A change of one track.
OnlyTrack(p, q, id) ==
    /\ q.clips = p.clips /\ q.key_zones = p.key_zones
    /\ Spares(p, q, id)

LEMMA OnlyTrackCovers ==
    ASSUME NEW p, Sound(p), NEW q, Edited(p, q), NEW id, OnlyTrack(p, q, id)
    PROVE  Covers(p, q, {id})
<1>1. PICK I, J : PartsIn(p, I) /\ PartsIn(q, J)
    BY DEF Sound, Edited
<1>2. ASSUME NEW t \in TrackIds(q) \cap TrackIds(p), t # id PROVE PlaysOn(p, q, t)
  <2>1. PICK u \in p.tracks : u.id = t
      BY DEF TrackIds
  <2>2. u \in q.tracks
      BY <1>2, <2>1 DEF OnlyTrack, Spares
  <2>3. TrackOf(p, t) = u /\ TrackOf(q, t) = u
      BY <1>1, <2>1, <2>2, TrackFound
  <2>4. Played(q, u) = Played(p, u)
      BY ZonesLead DEF OnlyTrack
  <2> QED BY <2>3, <2>4 DEF PlaysOn
<1> QED BY <1>2, NamedCovers

\* More tracks, and zones that lead to none of those that were there.
LEMMA MoreTracksCover ==
    ASSUME NEW p, Sound(p), NEW q, Edited(p, q), p.tracks \subseteq q.tracks,
           q.clips = p.clips,
           \A z, u : u \in p.tracks /\ z.instrument = u.instrument
                        => (z \in q.key_zones <=> z \in p.key_zones)
    PROVE  Covers(p, q, TrackIds(q) \ TrackIds(p))
<1>1. PICK I, J : PartsIn(p, I) /\ PartsIn(q, J)
    BY DEF Sound, Edited
<1>2. ASSUME NEW t \in TrackIds(q) \cap TrackIds(p) PROVE PlaysOn(p, q, t)
  <2>1. PICK u \in p.tracks : u.id = t
      BY DEF TrackIds
  <2>2. TrackOf(p, t) = u /\ TrackOf(q, t) = u
      BY <1>1, <2>1, TrackFound
  <2>3. Played(q, u) = Played(p, u)
      BY ZonesLead
  <2> QED BY <2>2, <2>3 DEF PlaysOn
<1> QED BY <1>2, NamedCovers

\* The same tracks, and other zones: who plays an instrument that a zone led to or leads to is
\* named.
LEMMA ZonesCover ==
    ASSUME NEW p, Sound(p), NEW q, q.tracks = p.tracks, q.clips = p.clips, NEW named,
           \A z \in p.key_zones : z \in q.key_zones \/ Playing(p, z.instrument) \subseteq named,
           \A z \in q.key_zones : z \in p.key_zones \/ Playing(p, z.instrument) \subseteq named
    PROVE  Covers(p, q, named)
<1>1. PICK I : PartsIn(p, I)
    BY DEF Sound
<1>2. ASSUME NEW t \in TrackIds(q) \cap TrackIds(p), t \notin named PROVE PlaysOn(p, q, t)
  <2>1. PICK u \in p.tracks : u.id = t
      BY DEF TrackIds
  <2>2. TrackOf(p, t) = u /\ TrackOf(q, t) = u
      BY <1>1, <2>1, TrackFound DEF TrackOf
  <2>3. t \in Playing(p, u.instrument)
      BY <2>1 DEF Playing
  <2>4. \A z : z.instrument = u.instrument => (z \in q.key_zones <=> z \in p.key_zones)
      BY <1>2, <2>3
  <2>5. Played(q, u) = Played(p, u)
      BY <2>4, ZonesLead
  <2> QED BY <2>2, <2>5 DEF PlaysOn
<1> QED BY <1>2, NamedCovers

\* The same tracks, and other clips: who gets a note of one that went or came is named.
LEMMA ClipsCover ==
    ASSUME NEW p, Sound(p), NEW q, q.tracks = p.tracks, q.key_zones = p.key_zones, NEW named,
           \A u \in p.tracks : u.id \notin named =>
               /\ \A c \in p.clips : c \in q.clips \/ PitchesReceived(p, c, u) = {}
               /\ \A c \in q.clips : c \in p.clips \/ PitchesReceived(p, c, u) = {}
    PROVE  Covers(p, q, named)
<1>1. PICK I : PartsIn(p, I)
    BY DEF Sound
<1>2. ASSUME NEW t \in TrackIds(q) \cap TrackIds(p), t \notin named PROVE PlaysOn(p, q, t)
  <2>1. PICK u \in p.tracks : u.id = t
      BY DEF TrackIds
  <2>2. TrackOf(p, t) = u /\ TrackOf(q, t) = u
      BY <1>1, <2>1, TrackFound DEF TrackOf
  <2>3. Played(q, u) = Played(p, u)
      BY <1>2, <2>1, ClipsLead
  <2> QED BY <2>2, <2>3 DEF PlaysOn
<1> QED BY <1>2, NamedCovers
----------------------------------------------------------------------------
(* Tools name what they change *)

\* What the listen after a call relies on: its clips and zones are told apart, and the tracks
\* that are named cover what sounds different.
Tells(p, q, named) == Apart(q) /\ Covers(p, q, named)

NamedWell(results) == \A result \in results : Tells(graph, result.project, result.tracks)

NamesTracks == \E results, region : apply_agent_mutation(results, region) /\ NamedWell(results)

\* Tools that name their tracks by themselves.
LEMMA ApplyNames ==
    ASSUME NEW made
    PROVE  /\ \A tracks : Apply(made, tracks) /\ (\A q \in made : Tells(graph, q, tracks))
                              => NamesTracks
           /\ ApplyNew(made) /\ (\A q \in made : Tells(graph, q, NewTracks(q))) => NamesTracks
<1>1. ASSUME NEW tracks, Apply(made, tracks), \A q \in made : Tells(graph, q, tracks)
      PROVE  NamesTracks
  <2> DEFINE results == {Result(changed, tracks) : changed \in made}
  <2>1. apply_agent_mutation(results, selection)
      BY <1>1 DEF Apply
  <2>2. NamedWell(results)
      BY <1>1 DEF NamedWell, Result
  <2> HIDE DEF results
  <2> QED BY <2>1, <2>2 DEF NamesTracks
<1>2. ASSUME ApplyNew(made), \A q \in made : Tells(graph, q, NewTracks(q))
      PROVE  NamesTracks
  <2> DEFINE results == {Result(changed, NewTracks(changed)) : changed \in made}
  <2>1. apply_agent_mutation(results, selection)
      BY <1>2 DEF ApplyNew
  <2>2. NamedWell(results)
      BY <1>2 DEF NamedWell, Result
  <2> HIDE DEF results
  <2> QED BY <2>1, <2>2 DEF NamesTracks
<1> QED BY <1>1, <1>2

\* A tool for a sound changes one track.
LEMMA PresetOnlyTrack ==
    ASSUME NEW p, Sound(p), NEW id, NEW q \in set_surge_preset(p, id)
    PROVE  OnlyTrack(p, q, id)
<1>1. PICK preset \in Presets : q \in configure_track_preset(p, id, preset)
    BY DEF set_surge_preset
<1> DEFINE k == Cardinality(PresetSlots[preset])
<1>2. k \in Nat
    BY EngineIsFinite, FS_CardinalityType
<1>3. IsProject(p) /\ Room(p, k, Ample(p, k)) /\ PartsIn(p, Ample(p, k))
    BY <1>2, AmpleRoom DEF Sound
<1>4. Shapes(p, q, Ample(p, k)) /\ Spares(p, q, id)
    BY <1>1, <1>3, PresetShapes
<1> QED BY <1>4 DEF OnlyTrack, Shapes, Makes, Touches, Parts

LEMMA SoundToolsOnlyTrack ==
    ASSUME NEW p, Sound(p), NEW id
    PROVE  /\ \A q \in set_surge_preset(p, id) : OnlyTrack(p, q, id)
           /\ \A q \in add_effect(p, id) : OnlyTrack(p, q, id)
           /\ \A q \in update_effect(p, id) : OnlyTrack(p, q, id)
           /\ \A q \in delete_effects(p, id) : OnlyTrack(p, q, id)
           /\ \A q \in add_modulator(p, id) : OnlyTrack(p, q, id)
           /\ \A q \in update_modulator(p, id) : OnlyTrack(p, q, id)
           /\ \A q \in delete_modulators(p, id) : OnlyTrack(p, q, id)
           /\ \A q \in set_instrument_parameter(p, id) : OnlyTrack(p, q, id)
           /\ \A q \in set_instrument_parameters(p, id) : OnlyTrack(p, q, id)
           /\ \A q \in set_track_identity(p, id, "named") : OnlyTrack(p, q, id)
           /\ \A muted : \A q \in set_mix(p, id, muted) : OnlyTrack(p, q, id)
<1>1. IsProject(p) /\ Room(p, 0, Ample(p, 0)) /\ PartsIn(p, Ample(p, 0))
    BY AmpleRoom DEF Sound
<1>2. \A q : Shapes(p, q, Ample(p, 0)) /\ Spares(p, q, id) => OnlyTrack(p, q, id)
    BY DEF OnlyTrack, Shapes, Makes, Touches, Parts
<1>3. \A q \in set_surge_preset(p, id) : OnlyTrack(p, q, id)
    BY PresetOnlyTrack
<1>4. \A q \in add_effect(p, id) : OnlyTrack(p, q, id)
    BY <1>1, <1>2, EffectAdded DEF add_effect
<1>5. \A q \in update_effect(p, id) : OnlyTrack(p, q, id)
    BY <1>1, <1>2, EffectShapes DEF update_effect
<1>6. \A q \in delete_effects(p, id) : OnlyTrack(p, q, id)
    BY <1>1, <1>2, EffectGone DEF delete_effects
<1>7. \A q \in add_modulator(p, id) : OnlyTrack(p, q, id)
    BY <1>1, <1>2, ModulatorAdded DEF add_modulator
<1>8. \A q \in update_modulator(p, id) : OnlyTrack(p, q, id)
  <2> TAKE q \in update_modulator(p, id)
  <2>1. PICK m \in ModulatorIds(p, id),
             change \in ({"target"} \X Targets) \cup ({"trigger"} \X {"free", "midi"})
                            \cup ({"enabled"} \X BOOLEAN) \cup ({"source"} \X TrackIds(p)) :
                q \in configure_modulator(p, id, m, change[1], change[2])
      BY DEF update_modulator
  <2>2. change[1] \in {"target", "trigger", "enabled", "source"}
      OBVIOUS
  <2> QED BY <1>1, <1>2, <2>1, <2>2, ModulatorShapes
<1>9. \A q \in delete_modulators(p, id) : OnlyTrack(p, q, id)
    BY <1>1, <1>2, ModulatorGone DEF delete_modulators
<1>10. \A q \in configure_native(p, id) : OnlyTrack(p, q, id)
    BY <1>1, <1>2, NativeShapes
<1>11. \A q \in set_instrument_parameters(p, id) : OnlyTrack(p, q, id)
  <2> TAKE q \in set_instrument_parameters(p, id)
  <2>1. PICK m \in configure_native(p, id) : q \in set_surge_preset(m, id)
      BY DEF set_instrument_parameters, Then
  <2>2. Sound(m) /\ OnlyTrack(p, m, id)
      BY <1>10, NativeKeepsIds
  <2>3. OnlyTrack(m, q, id)
      BY <2>1, <2>2, PresetOnlyTrack
  <2> QED BY <2>2, <2>3 DEF OnlyTrack, Spares
<1>12. \A q \in set_track_identity(p, id, "named") : OnlyTrack(p, q, id)
    BY <1>1, <1>2, IdentityShapes
<1>13. \A muted : \A q \in set_mix(p, id, muted) : OnlyTrack(p, q, id)
    BY <1>1, <1>2, MixShapes
<1> QED BY <1>3, <1>4, <1>5, <1>6, <1>7, <1>8, <1>9, <1>10, <1>11, <1>12, <1>13
        DEF set_instrument_parameter

LEMMA OnlyTrackTells ==
    ASSUME NEW p, Sound(p), Apart(p), NEW q, Keeps(p, q), NEW id, OnlyTrack(p, q, id)
    PROVE  Tells(p, q, {id})
<1>1. Covers(p, q, {id})
    BY OnlyTrackCovers DEF Keeps
<1> QED BY <1>1, FewerApart DEF Tells, OnlyTrack

\* A tool for a sound names its track.
LEMMA SoundNames ==
    ASSUME Sound(graph), Apart(graph), SoundTool
    PROVE  NamesTracks
<1>1. ASSUME NEW t, NEW made, Apply(made, {t}),
             \A q \in made : Shaped(graph, q) /\ OnlyTrack(graph, q, t)
      PROVE  NamesTracks
    BY <1>1, OnlyTrackTells, ApplyNames DEF Shaped
<1> QED BY <1>1, SoundTools, SoundToolsOnlyTrack DEF SoundTool, SetSurgePreset, AddEffect,
        UpdateEffect, DeleteEffect, AddModulator, UpdateModulator, DeleteModulator,
        SetInstrumentParameter, SetInstrumentParameters

\* A tool that leaves clips and zones alone, and asks for a listen to everything.
LEMMA QuietTells ==
    ASSUME NEW p, Sound(p), Apart(p)
    PROVE  /\ \A q \in create_instrument_rack(p, "named") : Tells(p, q, {})
           /\ \A id : \A q \in update_instrument_rack(p, id, "named") : Tells(p, q, {})
           /\ \A id : \A q \in delete_instrument_rack(p, id) : Tells(p, q, {})
           /\ \A id : \A q \in delete_channel(p, id) : Tells(p, q, {})
<1>1. IsProject(p) /\ Room(p, 0, Ample(p, 0)) /\ PartsIn(p, Ample(p, 0))
    BY AmpleRoom DEF Sound
<1>2. \A q : Makes(p, q, {"racks"}, Ample(p, 0)) => Apart(q)
    BY ApartStays DEF Makes
<1>3. \A q : Apart(q) => Tells(p, q, {})
    BY NamedCovers DEF Tells
<1> QED BY <1>1, <1>2, <1>3, RackAdded, RackNamed, GoneApart

\* A new track sounds, and no other one.
LEMMA NewTrackTells ==
    ASSUME NEW p, Sound(p), Apart(p), NEW q \in add_described_channel(p, "named")
    PROVE  Tells(p, q, TrackIds(q) \ TrackIds(p))
<1> DEFINE new == [empty_track(NextId(p), NextId(p) + 1) EXCEPT !.name = "named"]
           all == p.tracks \cup {new}
           ok == Cardinality(p.tracks) < TRACK_LIMIT
<1>1. q \in Given(ok, [p EXCEPT !.tracks = all])
    BY DEF add_described_channel
<1>2. p.tracks \subseteq all
    OBVIOUS
<1> HIDE DEF ok, all
<1>3. Touches(p, q, {"tracks"}) /\ q.tracks = all
    BY <1>1, TouchTracks DEF Sound
<1>4. Apart(q) /\ q.clips = p.clips /\ q.key_zones = p.key_zones
    BY <1>3, ApartStays
<1>5. Edited(p, q)
    BY ArrangementKeeps DEF Keeps
<1>6. Covers(p, q, TrackIds(q) \ TrackIds(p))
    BY <1>2, <1>3, <1>4, <1>5, MoreTracksCover
<1> QED BY <1>4, <1>6 DEF Tells

\* So does the track that the sound of a slot becomes: its zone leads to nobody else.
LEMMA SoundAddedTells ==
    ASSUME NEW p, Sound(p), Apart(p), NEW sound, Sound(sound), 1 \in TrackIds(sound),
           NEW r, NEW low, NEW high,
           NEW q \in add_configured_channel(p, r, TrackOf(sound, 1), "named", low, high)
    PROVE  Tells(p, q, TrackIds(q) \ TrackIds(p))
<1>1. PICK J : PartsIn(sound, J)
    BY DEF Sound
<1>2. PICK u \in sound.tracks : u.id = 1
    BY DEF TrackIds
<1>3. TrackIn(TrackOf(sound, 1), J)
    BY <1>1, <1>2, TrackFound DEF PartsIn, TracksIn
<1>4. Apart(q) /\ q.clips = p.clips /\ p.tracks \subseteq q.tracks
    BY <1>3, SoundAddedApart
<1>5. PICK zone : /\ \A t \in p.tracks : t.instrument # zone.instrument
                  /\ q.key_zones = p.key_zones \cup {zone}
    BY <1>3, SoundAddedApart
<1>6. \A z, t : t \in p.tracks /\ z.instrument = t.instrument
                   => (z \in q.key_zones <=> z \in p.key_zones)
    BY <1>5
<1>7. Edited(p, q)
    BY CommitKeeps DEF Keeps
<1>8. Covers(p, q, TrackIds(q) \ TrackIds(p))
    BY <1>4, <1>6, <1>7, MoreTracksCover
<1> QED BY <1>4, <1>8 DEF Tells

\* Zones: who plays an instrument that a zone led to, or leads to now.
LEMMA ZonesTell ==
    ASSUME NEW p, Sound(p), Apart(p)
    PROVE  /\ \A r, i, low, high : \A q \in create_key_zone(p, r, i, low, high) :
                  Tells(p, q, Playing(p, i))
           /\ \A z, i, low, high : \A q \in update_key_zone(p, z, i, low, high) :
                  Tells(p, q, rezoned_tracks(p, z, i))
           /\ \A z : \A q \in delete_key_zone(p, z) : Tells(p, q, Playing(p, ZoneOf(p, z).instrument))
<1>1. ASSUME NEW r, NEW i, NEW low, NEW high, NEW q \in create_key_zone(p, r, i, low, high)
      PROVE  Tells(p, q, Playing(p, i))
  <2>1. Apart(q) /\ q.tracks = p.tracks /\ q.clips = p.clips
      BY ZoneAddedApart
  <2>2. PICK zone : zone.instrument = i /\ q.key_zones = p.key_zones \cup {zone}
      BY ZoneAddedApart
  <2>3. /\ \A z \in p.key_zones : z \in q.key_zones
        /\ \A z \in q.key_zones : z \in p.key_zones \/ Playing(p, z.instrument) \subseteq Playing(p, i)
      BY <2>2
  <2>4. Covers(p, q, Playing(p, i))
      BY <2>1, <2>3, ZonesCover
  <2> QED BY <2>1, <2>4 DEF Tells
<1>2. ASSUME NEW id, NEW i, NEW low, NEW high, NEW q \in update_key_zone(p, id, i, low, high)
      PROVE  Tells(p, q, rezoned_tracks(p, id, i))
  <2>1. Apart(q) /\ q.tracks = p.tracks /\ q.clips = p.clips
      BY ZoneChangedApart
  <2>2. /\ \A z \in p.key_zones : z \in q.key_zones \/ z = ZoneOf(p, id)
        /\ \A z \in q.key_zones : z \in p.key_zones \/ z.instrument = i
      BY ZoneChangedApart
  <2>3. /\ \A z \in p.key_zones :
               z \in q.key_zones \/ Playing(p, z.instrument) \subseteq rezoned_tracks(p, id, i)
        /\ \A z \in q.key_zones :
               z \in p.key_zones \/ Playing(p, z.instrument) \subseteq rezoned_tracks(p, id, i)
      BY <2>2 DEF rezoned_tracks
  <2>4. Covers(p, q, rezoned_tracks(p, id, i))
      BY <2>1, <2>3, ZonesCover
  <2> QED BY <2>1, <2>4 DEF Tells
<1>3. ASSUME NEW id, NEW q \in delete_key_zone(p, id)
      PROVE  Tells(p, q, Playing(p, ZoneOf(p, id).instrument))
  <2>1. Apart(q) /\ q.tracks = p.tracks /\ q.clips = p.clips
      BY ZoneGoneApart
  <2>2. /\ \A z \in p.key_zones : z \in q.key_zones \/ z = ZoneOf(p, id)
        /\ q.key_zones \subseteq p.key_zones
      BY ZoneGoneApart
  <2>3. Covers(p, q, Playing(p, ZoneOf(p, id).instrument))
      BY <2>1, <2>2, ZonesCover
  <2> QED BY <2>1, <2>3 DEF Tells
<1> QED BY <1>1, <1>2, <1>3

\* A track that is not told of gets no note of the clip, nor of what is left of it.
LEMMA NotToldNoNotes ==
    ASSUME NEW p, NEW id, NEW u \in p.tracks, u.id \notin clip_recipient_track_ids(p, id)
    PROVE  \A c : c = ClipOf(p, id) \/ Copies(c, ClipOf(p, id)) => PitchesReceived(p, c, u) = {}
<1>1. PitchesReceived(p, ClipOf(p, id), u) = {}
    BY DEF clip_recipient_track_ids
<1> QED BY <1>1 DEF PitchesReceived, Copies

\* Clips: who gets a note of one that comes, goes or changes.
LEMMA ClipsTell ==
    ASSUME NEW p, Sound(p), Apart(p), NEW region
    PROVE  /\ \A spec : \A q \in create_midi_clip(p, spec) :
                  Tells(p, q, UNION {clip_recipient_track_ids(q, c) : c \in ClipIds(q) \ ClipIds(p)})
           /\ \A id, spec : id \in ClipIds(p) /\ spec.pattern \in Patterns =>
                  \A q \in replace_midi_clip(p, id, spec, region) :
                      Tells(p, q, clip_recipient_track_ids(p, id) \cup clip_recipient_track_ids(q, id))
           /\ \A id \in ClipIds(p) : \A q \in delete_midi_clip(p, id, region) :
                  Tells(p, q, clip_recipient_track_ids(p, id))
<1>1. ASSUME NEW spec, NEW q \in create_midi_clip(p, spec)
      PROVE  Tells(p, q, UNION {clip_recipient_track_ids(q, c) : c \in ClipIds(q) \ ClipIds(p)})
  <2> DEFINE named == UNION {clip_recipient_track_ids(q, c) : c \in ClipIds(q) \ ClipIds(p)}
  <2>1. Apart(q) /\ q.tracks = p.tracks /\ q.key_zones = p.key_zones /\ NextId(p) \notin ClipIds(p)
      BY ClipAddedApart
  <2>2. PICK clip : clip.id = NextId(p) /\ q.clips = p.clips \cup {clip}
      BY ClipAddedApart
  <2>3. NextId(p) \in ClipIds(q) /\ ClipOf(q, NextId(p)) = clip
      BY <2>1, <2>2 DEF ClipIds, ClipOf, Apart
  <2>4. clip_recipient_track_ids(q, NextId(p)) \subseteq named
      BY <2>1, <2>3
  <2> HIDE DEF named
  <2>5. ASSUME NEW u \in p.tracks, u.id \notin named PROVE PitchesReceived(p, clip, u) = {}
    <3>1. PitchesReceived(q, clip, u) = {}
        BY <2>1, <2>3, <2>4, <2>5, NotToldNoNotes
    <3> QED BY <2>1, <3>1 DEF PitchesReceived, track_receives_pitch
  <2>6. Covers(p, q, named)
      BY <2>1, <2>2, <2>5, ClipsCover
  <2> QED BY <2>1, <2>6 DEF Tells, named
<1>2. ASSUME NEW id, NEW spec, id \in ClipIds(p), spec.pattern \in Patterns,
             NEW q \in replace_midi_clip(p, id, spec, region)
      PROVE  Tells(p, q, clip_recipient_track_ids(p, id) \cup clip_recipient_track_ids(q, id))
  <2> DEFINE named == clip_recipient_track_ids(p, id) \cup clip_recipient_track_ids(q, id)
  <2>1. Apart(q) /\ q.tracks = p.tracks /\ q.key_zones = p.key_zones
      BY <1>2, ClipReplacedApart
  <2>2. /\ \A c \in p.clips : c \in q.clips \/ c = ClipOf(p, id)
        /\ \A c \in q.clips : c \in p.clips \/ Copies(c, ClipOf(p, id)) \/ c = ClipOf(q, id)
      BY <1>2, ClipReplacedApart
  <2>3. ASSUME NEW u \in p.tracks, u.id \notin named
        PROVE  /\ \A c : c = ClipOf(p, id) \/ Copies(c, ClipOf(p, id)) => PitchesReceived(p, c, u) = {}
               /\ PitchesReceived(p, ClipOf(q, id), u) = {}
    <3>1. \A c : c = ClipOf(p, id) \/ Copies(c, ClipOf(p, id)) => PitchesReceived(p, c, u) = {}
        BY <2>3, NotToldNoNotes
    <3>2. PitchesReceived(q, ClipOf(q, id), u) = {}
        BY <2>1, <2>3, NotToldNoNotes
    <3>3. PitchesReceived(p, ClipOf(q, id), u) = {}
        BY <2>1, <3>2 DEF PitchesReceived, track_receives_pitch
    <3> QED BY <3>1, <3>3
  <2> HIDE DEF named
  <2>4. Covers(p, q, named)
      BY <2>1, <2>2, <2>3, ClipsCover
  <2> QED BY <2>1, <2>4 DEF Tells, named
<1>3. ASSUME NEW id \in ClipIds(p), NEW q \in delete_midi_clip(p, id, region)
      PROVE  Tells(p, q, clip_recipient_track_ids(p, id))
  <2>1. Apart(q) /\ q.tracks = p.tracks /\ q.key_zones = p.key_zones
      BY ClipGoneApart
  <2>2. /\ \A c \in p.clips : c \in q.clips \/ c = ClipOf(p, id)
        /\ \A c \in q.clips : c \in p.clips \/ Copies(c, ClipOf(p, id))
      BY ClipGoneApart
  <2>3. \A u \in p.tracks : u.id \notin clip_recipient_track_ids(p, id) =>
            \A c : c = ClipOf(p, id) \/ Copies(c, ClipOf(p, id)) => PitchesReceived(p, c, u) = {}
      BY NotToldNoNotes
  <2>4. Covers(p, q, clip_recipient_track_ids(p, id))
      BY <2>1, <2>2, <2>3, ClipsCover
  <2> QED BY <2>1, <2>4 DEF Tells
<1> QED BY <1>1, <1>2, <1>3
\* A new tempo asks for a listen to everything.
LEMMA TempoNames ==
    ASSUME Workable, Apart(graph), SetTempo
    PROVE  NamesTracks
<1>1. PICK bpm \in Tempos :
        LET scale == Ratio(graph.bpm, bpm)
            region == [start |-> Times(selection.start, scale), end |-> Times(selection.end, scale)]
            reach(p) == IF Less(p.duration, region.end) THEN set_duration(p, region.end) ELSE {p}
        IN /\ Leq(region.end, MaximumDuration) /\ Less(region.start, region.end)
           /\ apply_agent_mutation({Result(changed, {}) :
                                       changed \in Then(set_tempo(graph, bpm), reach)}, region)
    BY DEF SetTempo
<1> DEFINE scale == Ratio(graph.bpm, bpm)
           region == [start |-> Times(selection.start, scale), end |-> Times(selection.end, scale)]
           reach(p) == IF Less(p.duration, region.end) THEN set_duration(p, region.end) ELSE {p}
           made == UNION {reach(m) : m \in set_tempo(graph, bpm)}
           results == {Result(changed, {}) : changed \in made}
<1>2. apply_agent_mutation(results, region)
    BY <1>1 DEF Then
<1>3. ASSUME NEW q \in made PROVE Tells(graph, q, {})
  <2>1. PICK m \in set_tempo(graph, bpm) : q \in reach(m)
      OBVIOUS
  <2>2. 0 \in Nat /\ Sound(graph) /\ IsProject(graph) /\ PartsIn(graph, Ample(graph, 0))
      BY AmpleRoom DEF Workable, Sound
  <2>3. Apart(m) /\ Sound(m)
    <3>1. Makes(graph, m, {"bpm", "duration", "edits", "clips"}, Ample(graph, 0))
          /\ m.bpm \in Nat
        BY <2>2, TempoSet
    <3>2. Edited(graph, m) /\ m.tracks = graph.tracks
        BY <2>2, <3>1, MakesEdited DEF Makes, Touches, Parts
    <3>3. Sound(m)
        BY <2>2, <3>2, EditedIsSound DEF Sound
    <3> QED BY <2>2, <3>3, TimelineApart
  <2> HIDE DEF region
  <2>4. Apart(q)
      BY <2>1, <2>3, TimelineApart
  <2> QED BY <2>4, NamedCovers DEF Tells
<1> HIDE DEF made, region
<1>4. NamedWell(results)
    BY <1>3 DEF NamedWell, Result
<1> HIDE DEF results
<1> QED BY <1>2, <1>4 DEF NamesTracks

\* The tools for clips.
LEMMA ClipToolsName ==
    ASSUME Sound(graph), Apart(graph)
    PROVE  /\ AddMidiClip => NamesTracks
           /\ UpdateMidiClip => NamesTracks
           /\ DeleteMidiClip => NamesTracks
<1>1. ASSUME AddMidiClip PROVE NamesTracks
  <2>1. PICK spec \in Specs(graph) :
            apply_agent_mutation(
               {Result(changed, UNION {clip_recipient_track_ids(changed, c) :
                                           c \in ClipIds(changed) \ ClipIds(graph)}) :
                    changed \in create_midi_clip(graph, spec)}, selection)
      BY <1>1 DEF AddMidiClip
  <2> DEFINE named(q) == UNION {clip_recipient_track_ids(q, c) : c \in ClipIds(q) \ ClipIds(graph)}
             results == {Result(changed, named(changed)) : changed \in create_midi_clip(graph, spec)}
  <2>2. apply_agent_mutation(results, selection)
      BY <2>1
  <2>3. \A q \in create_midi_clip(graph, spec) : Tells(graph, q, named(q))
      BY ClipsTell
  <2> HIDE DEF named
  <2>4. NamedWell(results)
      BY <2>3 DEF NamedWell, Result
  <2> HIDE DEF results
  <2> QED BY <2>2, <2>4 DEF NamesTracks
<1>2. ASSUME UpdateMidiClip PROVE NamesTracks
  <2>1. PICK c \in ClipIds(graph), spec \in Specs(graph) :
            apply_agent_mutation(
                {Result(changed, clip_recipient_track_ids(graph, c)
                                     \cup clip_recipient_track_ids(changed, c)) :
                     changed \in replace_midi_clip(graph, c, spec, selection)}, selection)
      BY <1>2 DEF UpdateMidiClip
  <2> DEFINE named(q) == clip_recipient_track_ids(graph, c) \cup clip_recipient_track_ids(q, c)
             results == {Result(changed, named(changed)) :
                            changed \in replace_midi_clip(graph, c, spec, selection)}
  <2>2. apply_agent_mutation(results, selection)
      BY <2>1
  <2>3. spec.pattern \in Patterns
      BY DEF Specs
  <2>4. \A q \in replace_midi_clip(graph, c, spec, selection) : Tells(graph, q, named(q))
      BY <2>3, ClipsTell
  <2> HIDE DEF named
  <2>5. NamedWell(results)
      BY <2>4 DEF NamedWell, Result
  <2> HIDE DEF results
  <2> QED BY <2>2, <2>5 DEF NamesTracks
<1>3. ASSUME DeleteMidiClip PROVE NamesTracks
  <2>1. PICK c \in ClipIds(graph) :
            Apply(delete_midi_clip(graph, c, selection), clip_recipient_track_ids(graph, c))
      BY <1>3 DEF DeleteMidiClip
  <2>2. \A q \in delete_midi_clip(graph, c, selection) :
            Tells(graph, q, clip_recipient_track_ids(graph, c))
      BY ClipsTell
  <2> QED BY <2>1, <2>2, ApplyNames
<1> QED BY <1>1, <1>2, <1>3

\* Every tool that changes the graph names the tracks that sound different.
LEMMA ToolsName ==
    ASSUME Workable, Apart(graph), ArrangementTool \/ SoundTool \/ CommitAudition
    PROVE  NamesTracks
<1>1. Sound(graph)
    BY DEF Workable
<1>2. ASSUME NEW t, NEW made, Apply(made, {t}), \A q \in made : Keeps(graph, q),
             \A q \in made : OnlyTrack(graph, q, t)
      PROVE  NamesTracks
    BY <1>1, <1>2, OnlyTrackTells, ApplyNames
<1>3. ASSUME AddInstrumentRack PROVE NamesTracks
    BY <1>1, <1>3, QuietTells, ApplyNames DEF AddInstrumentRack
<1>4. ASSUME UpdateInstrumentRack PROVE NamesTracks
    BY <1>1, <1>4, QuietTells, ApplyNames DEF UpdateInstrumentRack
<1>5. ASSUME DeleteInstrumentRack PROVE NamesTracks
    BY <1>1, <1>5, QuietTells, ApplyNames DEF DeleteInstrumentRack
<1>6. ASSUME NewTrack PROVE NamesTracks
    BY <1>1, <1>6, NewTrackTells, ApplyNames DEF NewTrack, NewTracks
<1>7. ASSUME DeleteTrack PROVE NamesTracks
    BY <1>1, <1>7, QuietTells, ApplyNames DEF DeleteTrack
<1>8. ASSUME SetTrackIdentity PROVE NamesTracks
    BY <1>1, <1>2, <1>8, ArrangementKeeps, SoundToolsOnlyTrack DEF SetTrackIdentity
<1>9. ASSUME SetTrackMute PROVE NamesTracks
  <2>1. PICK t \in TrackIds(graph), muted \in BOOLEAN : Apply(set_mix(graph, t, muted), {t})
      BY <1>9 DEF SetTrackMute
  <2>2. \A q \in set_mix(graph, t, muted) : Keeps(graph, q)
      BY <1>1, ArrangementKeeps
  <2>3. \A q \in set_mix(graph, t, muted) : OnlyTrack(graph, q, t)
      BY <1>1, SoundToolsOnlyTrack
  <2> QED BY <1>2, <2>1, <2>2, <2>3
<1>10. ASSUME AddKeyZone PROVE NamesTracks
    BY <1>1, <1>10, ZonesTell, ApplyNames DEF AddKeyZone
<1>11. ASSUME UpdateKeyZone PROVE NamesTracks
    BY <1>1, <1>11, ZonesTell, ApplyNames DEF UpdateKeyZone
<1>12. ASSUME DeleteKeyZone PROVE NamesTracks
    BY <1>1, <1>12, ZonesTell, ApplyNames DEF DeleteKeyZone
<1>13. ASSUME ArrangementTool PROVE NamesTracks
    BY <1>1, <1>3, <1>4, <1>5, <1>6, <1>7, <1>8, <1>9, <1>10, <1>11, <1>12, <1>13, ClipToolsName,
       TempoNames DEF ArrangementTool
<1>14. ASSUME CommitAudition PROVE NamesTracks
  <2>1. files.slot # None /\ Sound(slot) /\ 1 \in TrackIds(slot)
      BY <1>14 DEF Workable, CommitAudition
  <2>2. PICK r \in RackIds(graph), n \in Notes :
          ApplyNew(add_configured_channel(graph, r, TrackOf(slot, 1), "named", n[1], n[2]))
      BY <1>14 DEF CommitAudition
  <2>3. \A q \in add_configured_channel(graph, r, TrackOf(slot, 1), "named", n[1], n[2]) :
          Tells(graph, q, NewTracks(q))
      BY <1>1, <2>1, SoundAddedTells DEF NewTracks
  <2> QED BY <2>2, <2>3, ApplyNames
<1> QED BY <1>1, <1>13, <1>14, SoundNames

----------------------------------------------------------------------------
(* What waits to be committed is told of *)

\* Clips and zones of every graph there is are told apart, and while nobody else has changed
\* the project, a graph that waits to be committed plays otherwise than the project only on
\* tracks that the listen will cover.
ToldFits(f, project, version, named) ==
    /\ Apart(f.graph)
    /\ f.undo # None => Apart(Get(f.undo))
    /\ f.progress # None /\ project.version = version => Covers(project, f.graph, named)

TellInv ==
    /\ ToolInv
    /\ Apart(server)
    /\ session # None => ToldFits(files, server, expected, affected)

\* What a commit may do.
CommitTells ==
    outcome' \in {"committed", "took_back"} /\ session' # session =>
        \A t \in TrackIds(server') \cap TrackIds(server) :
            Played(server', TrackOf(server', t)) # Played(server, TrackOf(server, t))
                => t \in arrangement_listen_requirement(server', affected)

\* A call that fails, and a step that leaves the files alone.
LEMMA FilesStayTold ==
    ASSUME TellInv, ToolInv', session # None, session' = Some(files),
           UNCHANGED <<server, expected, affected>>
    PROVE  TellInv'
<1>1. files' = files
    BY SomeIsNotNone DEF files
<1> QED BY <1>1 DEF TellInv

\* A call that succeeds.
LEMMA CallTold ==
    ASSUME TellInv, ToolInv', session # None, NEW then, session' = Some(then),
           UNCHANGED <<server, expected>>,
           ToldFits(then, server, expected, affected')
    PROVE  TellInv'
<1>1. files' = then
    BY SomeIsNotNone DEF files
<1> QED BY <1>1 DEF TellInv

\* A tool.
LEMMA NamesKeepTold ==
    ASSUME TellInv, ToolInv', NamesTracks
    PROVE  TellInv' /\ outcome' \notin {"committed", "took_back"}
<1>1. PICK results, region : apply_agent_mutation(results, region) /\ NamedWell(results)
    BY DEF NamesTracks
<1>2. Idle /\ session # None /\ FilesFit(files) /\ CommitFits(files, server, expected, known)
    BY <1>1, SessionWorks DEF TellInv, apply_agent_mutation, Idle
<1>3. IsFiles(files)
    BY <1>2 DEF FilesFit
<1>4. PICK result \in results :
        LET changed == result.project
            writes == MutationWrites(changed, region)
            rollback == MutationRollback(region)
        IN \/ /\ Accepted(changed)
              /\ Succeeds(writes)
              /\ changes' = changes + 1
              /\ affected' = result.tracks
              /\ restorable' = Some([music |-> Music(files.graph), selection |-> selection])
              /\ outcome' = "ok"
           \/ /\ ~Accepted(changed)
              /\ Fails(writes, 3, rollback)
              /\ outcome' = Refused(changed)
           \/ WriteFails(writes, rollback)
    BY <1>1 DEF apply_agent_mutation
<1> DEFINE changed == result.project
           writes == MutationWrites(changed, region)
           rollback == MutationRollback(region)
<1>5. UNCHANGED <<server, expected>>
    BY <1>1 DEF apply_agent_mutation
<1>6. Tells(graph, changed, result.tracks)
    BY <1>1 DEF NamedWell
<1>7. 3 \in DOMAIN writes
  <2>1. IsWrites(writes, IF region = selection THEN 4 ELSE 6)
      BY MutationSteps
  <2> QED BY <2>1 DEF IsWrites
<1> HIDE DEF writes, rollback, changed
<1>8. ASSUME NEW place \in DOMAIN writes, Fails(writes, place, rollback)
      PROVE  TellInv'
  <2>1. Written(Written(files, SubSeq(writes, 1, place - 1)), rollback) = files
      BY <1>3, MutationRollsBack DEF writes, rollback
  <2>2. session' = Some(files) /\ affected' = affected
      BY <1>8, <2>1 DEF Fails
  <2> QED BY <1>2, <1>5, <2>2, FilesStayTold
<1>9. CASE Succeeds(writes) /\ affected' = result.tracks /\ outcome' = "ok"
  <2> DEFINE then == Written(files, writes)
  <2>1. then.graph = changed /\ then.undo = Some(graph)
      BY <1>3, MutationWritten DEF writes, graph
  <2>2. session' = Some(then)
      BY <1>9 DEF Succeeds
  <2> HIDE DEF then
  <2>3. server.version = expected => graph = server
      BY <1>2 DEF CommitFits, Idle, graph
  <2>4. Apart(graph)
      BY <1>2 DEF TellInv, ToldFits, graph
  <2>5. ToldFits(then, server, expected, affected')
      BY <1>6, <1>9, <2>1, <2>3, <2>4, SomeIsNotNone DEF ToldFits, Tells
  <2> QED BY <1>2, <1>5, <1>9, <2>2, <2>5, CallTold
<1>10. CASE Fails(writes, 3, rollback) /\ outcome' = Refused(changed)
    BY <1>7, <1>8, <1>10 DEF Refused
<1>11. CASE WriteFails(writes, rollback)
    BY <1>8, <1>11 DEF WriteFails
<1> QED BY <1>4, <1>9, <1>10, <1>11 DEF writes, rollback, changed

\* Undo asks for a listen to everything.
LEMMA UndoKeepsTold ==
    ASSUME TellInv, ToolInv', Undo
    PROVE  TellInv' /\ outcome' \notin {"committed", "took_back"}
<1> DEFINE restored == [Get(files.undo) EXCEPT !.version = graph.version + 1]
           writes == UndoWrites(restored)
<1>1. /\ Idle /\ files.undo # None /\ UNCHANGED <<server, expected>>
      /\ \/ Succeeds(writes) /\ outcome' = "ok" /\ affected' = {}
         \/ Fails(writes, 1, UndoRollback) /\ outcome' = Refused(restored)
         \/ WriteFails(writes, UndoRollback)
    BY DEF Undo
<1>2. session # None /\ FilesFit(files) /\ UndoFits(files, restorable)
    BY <1>1, SessionWorks DEF Idle, TellInv
<1>3. IsFiles(files) /\ 1 \in DOMAIN writes
    BY <1>2, UndoSteps DEF IsWrites, FilesFit
<1>4. ASSUME NEW place \in DOMAIN writes, Fails(writes, place, UndoRollback)
      PROVE  TellInv'
  <2>1. Written(Written(files, SubSeq(writes, 1, place - 1)), UndoRollback) = files
      BY <1>3, UndoRollsBack
  <2> HIDE DEF writes
  <2>2. session' = Some(files) /\ affected' = affected
      BY <1>4, <2>1 DEF Fails
  <2> QED BY <1>1, <1>2, <2>2, FilesStayTold
<1>5. CASE Succeeds(writes) /\ outcome' = "ok" /\ affected' = {}
  <2> DEFINE then == Written(files, writes)
  <2>1. then.graph = restored /\ then.undo = None
      BY <1>3, UndoWritten
  <2>2. session' = Some(then)
      BY <1>5 DEF Succeeds
  <2>3. Apart(Get(files.undo)) /\ IsProject(Get(files.undo))
      BY <1>1, <1>2 DEF TellInv, ToldFits, UndoFits, Sound
  <2>4. Apart(restored)
      BY <2>3 DEF Apart, IsProject, Has, Parts
  <2> HIDE DEF then, restored, writes
  <2>5. ToldFits(then, server, expected, affected')
      BY <1>5, <2>1, <2>4, NamedCovers DEF ToldFits
  <2> QED BY <1>1, <1>2, <1>5, <2>2, <2>5, CallTold
<1> HIDE DEF writes, restored
<1>6. CASE Fails(writes, 1, UndoRollback) /\ outcome' = Refused(restored)
    BY <1>3, <1>4, <1>6 DEF Refused
<1>7. CASE WriteFails(writes, UndoRollback)
    BY <1>4, <1>7 DEF WriteFails
<1> QED BY <1>1, <1>5, <1>6, <1>7

\* A slot that is written or removed.
LEMMA SlotKeepsTold ==
    ASSUME TellInv, ToolInv', Idle, NEW p, KeepSlot(p)
    PROVE  TellInv' /\ outcome' \notin {"committed", "took_back"}
<1> DEFINE then == [files EXCEPT !.slot = p]
<1>1. session = Some(files) /\ FilesFit(files) /\ session # None
    BY SessionWorks DEF Idle, TellInv
<1>2. session' = Some(then)
  <2>1. session' = [session EXCEPT ![1].slot = p]
      BY DEF KeepSlot
  <2>2. session' = [Some(files) EXCEPT ![1].slot = p]
      BY <1>1, <2>1
  <2> DEFINE f == files
  <2>3. f = files
      OBVIOUS
  <2> HIDE DEF f
  <2>4. [<<f>> EXCEPT ![1].slot = p] = <<[f EXCEPT !.slot = p]>>
      OBVIOUS
  <2> QED BY <2>2, <2>3, <2>4 DEF Some
<1>3. then.graph = files.graph /\ then.undo = files.undo /\ then.progress = files.progress
    BY <1>1 DEF FilesFit, IsFiles, Names
<1> HIDE DEF then
<1>4. UNCHANGED <<server, expected, affected>> /\ outcome' = "ok"
    BY DEF KeepSlot
<1>5. ToldFits(then, server, expected, affected')
    BY <1>1, <1>3, <1>4 DEF ToldFits, TellInv
<1> QED BY <1>1, <1>2, <1>4, <1>5, CallTold

\* A session that ends, whatever the project is now.
LEMMA EndKeepsTold ==
    ASSUME TellInv, ToolInv', NEW how, EndSession(how), Apart(server')
    PROVE  TellInv'
BY DEF TellInv, EndSession

\* A commit: the music is that of the graph that waited.
LEMMA CommitKeepsTold ==
    ASSUME TellInv, ToolInv', CommitUpdate
    PROVE  TellInv' /\ CommitTells
<1>1. /\ session # None /\ files.progress # None /\ Sound(server) /\ Apart(server)
      /\ FilesFit(files) /\ ToldFits(files, server, expected, affected)
    BY SessionWorks DEF TellInv, ToolInv, CommitUpdate
<1>2. Sound(graph) /\ Apart(graph) /\ take_update = graph
    BY <1>1, SomeIsNotNone DEF FilesFit, ToldFits, graph, take_update
<1>3. \/ \E how \in {"ok", "invalid", "undo_refused", "save_refused"} :
             EndSession(how) /\ UNCHANGED <<server, expected>>
      \/ /\ server.version = expected
         /\ \E candidate \in replace_graph(server, take_update, selection) :
            \/ /\ server' = candidate /\ expected' = candidate.version
               /\ session' = Some([Taken EXCEPT !.graph = candidate])
            \/ server' = candidate /\ EndSession("ok")
    BY DEF CommitUpdate
<1>4. ASSUME NEW how \in {"ok", "invalid", "undo_refused", "save_refused"}, EndSession(how),
             UNCHANGED <<server, expected>>
      PROVE  TellInv' /\ CommitTells
    BY <1>1, <1>4, EndKeepsTold DEF EndSession, CommitTells
<1>5. ASSUME NEW candidate \in replace_graph(server, take_update, selection),
             server.version = expected
      PROVE  /\ Apart(candidate)
             /\ \A t \in TrackIds(candidate) \cap TrackIds(server) :
                   ~PlaysOn(server, candidate, t)
                       => t \in arrangement_listen_requirement(candidate, affected)
  <2>1. PICK newest \in Nat : Commits(server, graph, candidate, newest)
      BY <1>1, <1>2, GraphReplaced
  <2>2. Apart(candidate)
      BY <1>2, <2>1, ReplacedApart
  <2>3. candidate.tracks = graph.tracks /\ candidate.clips = graph.clips
        /\ candidate.key_zones = graph.key_zones
      BY <2>1 DEF Commits, Parts
  <2>4. Covers(server, graph, affected)
      BY <1>1, <1>5 DEF ToldFits, graph
  <2>5. /\ TrackIds(candidate) = TrackIds(graph)
        /\ \A t : TrackOf(candidate, t) = TrackOf(graph, t)
        /\ \A u : Played(candidate, u) = Played(graph, u)
      BY <2>3, ZonesLead DEF TrackIds, TrackOf
  <2> QED BY <2>2, <2>4, <2>5 DEF Covers, PlaysOn, arrangement_listen_requirement
<1>6. ASSUME NEW candidate \in replace_graph(server, take_update, selection),
             server.version = expected,
             server' = candidate, session' = Some([Taken EXCEPT !.graph = candidate])
      PROVE  TellInv' /\ CommitTells
  <2> DEFINE then == [Taken EXCEPT !.graph = candidate]
  <2>1. then.graph = candidate /\ then.progress = None /\ then.undo = files.undo
      BY <1>1 DEF FilesFit, IsFiles, Names, Taken
  <2>2. files' = then
      BY <1>6, SomeIsNotNone DEF files
  <2> HIDE DEF then
  <2>3. ToldFits(then, server', expected', affected')
      BY <1>1, <1>5, <1>6, <2>1 DEF ToldFits
  <2>4. TellInv'
      BY <1>5, <1>6, <2>2, <2>3 DEF TellInv
  <2>5. CommitTells
      BY <1>5, <1>6 DEF CommitTells, PlaysOn
  <2> QED BY <2>4, <2>5
<1>7. ASSUME NEW candidate \in replace_graph(server, take_update, selection),
             server.version = expected, server' = candidate, EndSession("ok")
      PROVE  TellInv' /\ CommitTells
    BY <1>5, <1>7, EndKeepsTold DEF EndSession, CommitTells
<1> QED BY <1>3, <1>4, <1>6, <1>7

\* A change from the browser: a graph that waits will be refused.
LEMMA ManualKeepsTold ==
    ASSUME TellInv, ToolInv', ManualChange
    PROVE  TellInv' /\ outcome' \notin {"committed", "took_back"}
<1>1. /\ Sound(server) /\ Apart(server) /\ UNCHANGED <<session, expected, affected>>
      /\ outcome' = "ok" /\ files' = files
    BY DEF TellInv, ToolInv, ManualChange, files
<1>2. \/ \E d \in Durations : server' \in set_duration(server, d)
      \/ \E t \in TrackIds(server) : server' \in set_mix(server, t, TRUE)
      \/ server' \in reset(server)
    BY DEF ManualChange
<1>3. Apart(server')
  <2>1. CASE \E t \in TrackIds(server) : server' \in set_mix(server, t, TRUE)
    <3>1. \E id : OnlyTrack(server, server', id)
        BY <1>1, <2>1, SoundToolsOnlyTrack
    <3> QED BY <1>1, <3>1, FewerApart DEF OnlyTrack
  <2> QED BY <1>1, <1>2, <2>1, TimelineApart, ReplacedApart
<1>4. server'.version = server.version + 1
    BY ManualCounts DEF TellInv
<1>5. session # None => server'.version # expected
  <2>1. session # None => expected <= server.version
      BY SessionWorks DEF TellInv, CommitFits
  <2> QED BY <1>1, <1>4, <2>1 DEF Sound, TellInv, ToolInv
<1>6. session # None => ToldFits(files, server', expected, affected)
    BY <1>5 DEF TellInv, ToldFits
<1> QED BY <1>1, <1>3, <1>6 DEF TellInv

\* A session that begins.
LEMMA CreateKeepsTold ==
    ASSUME TellInv, ToolInv', CreateSession
    PROVE  TellInv' /\ outcome' \notin {"committed", "took_back"}
<1>1. PICK region \in Selections :
        session' = Some([graph |-> server, request |-> region, metadata |-> region,
                         undo |-> None, undo_request |-> None, progress |-> None,
                         slot |-> None])
    BY DEF CreateSession
<1>2. UNCHANGED server /\ outcome' = "ok" /\ Apart(server)
    BY DEF CreateSession, TellInv
<1>3. files'.graph = server /\ files'.undo = None /\ files'.progress = None
    BY <1>1, SomeIsNotNone DEF files
<1> QED BY <1>2, <1>3 DEF TellInv, ToldFits

\* Every step.
LEMMA TellStep ==
    ASSUME TellInv, Next
    PROVE  TellInv' /\ CommitTells
<1>1. ToolInv' /\ ToolInv
    BY ToolStep DEF TellInv
<1>2. ASSUME FinishSession PROVE TellInv' /\ outcome' \notin {"committed", "took_back"}
    BY <1>1, <1>2, EndKeepsTold DEF FinishSession, EndSession, TellInv
<1>3. ASSUME ArrangementTool \/ SoundTool \/ CommitAudition
      PROVE  TellInv' /\ outcome' \notin {"committed", "took_back"}
  <2>1. session # None /\ Workable
      BY <1>1, <1>3, SessionWorks DEF ArrangementTool, SoundTool, CommitAudition, Idle
  <2>2. Apart(graph)
      BY <2>1 DEF TellInv, ToldFits, graph
  <2>3. NamesTracks
      BY <1>3, <2>1, <2>2, ToolsName
  <2> QED BY <1>1, <2>3, NamesKeepTold
<1>4. ASSUME CreateAuditionSlot \/ EditAuditionSlot \/ DeleteAuditionSlot
      PROVE  TellInv' /\ outcome' \notin {"committed", "took_back"}
  <2>1. Idle /\ \E p : KeepSlot(p)
      BY <1>4 DEF CreateAuditionSlot, EditAuditionSlot, DeleteAuditionSlot
  <2> QED BY <1>1, <2>1, SlotKeepsTold
<1>5. outcome' \notin {"committed", "took_back"} => CommitTells
    BY DEF CommitTells
<1> QED BY <1>1, <1>2, <1>3, <1>4, <1>5, CreateKeepsTold, UndoKeepsTold, CommitKeepsTold,
           ManualKeepsTold DEF Next, AuditionTool

\* While nobody else has changed the project, what waits to be committed plays otherwise than
\* the project only on tracks that the listen will cover.
THEOREM ChangesAreTold == Spec => []TellInv
<1>1. Init => TellInv
  <2> SUFFICES ASSUME Init PROVE TellInv
      OBVIOUS
  <2>1. ToolInv /\ session = None /\ server \in FirstProjects
      BY ToolInit DEF Init
  <2>2. Apart(server)
      BY <2>1, FirstAssumption DEF WellFormed
  <2> QED BY <2>1, <2>2 DEF TellInv
<1>2. TellInv /\ [Next]_vars => TellInv'
  <2>1. ASSUME TellInv, UNCHANGED vars PROVE TellInv'
    <3>1. ToolInv' /\ files' = files /\ UNCHANGED <<server, session, expected, affected>>
        BY <2>1, StutterKeeps DEF TellInv, vars, files
    <3> QED BY <2>1, <3>1 DEF TellInv
  <2> QED BY <2>1, TellStep
<1> QED BY <1>1, <1>2, PTL DEF Spec

\* The listen that the planner must make before it may finish covers every track that the
\* change made sound different, the one a note was led away from included (ToolSession).
THEOREM ListensToWhatChanged == Spec => ListenCoversWhatChanged
<1>1. TellInv /\ [Next]_vars =>
        [outcome' \in {"committed", "took_back"} /\ session' # session =>
             \A t \in TrackIds(server') \cap TrackIds(server) :
                 Played(server', TrackOf(server', t)) # Played(server, TrackOf(server, t))
                     => t \in arrangement_listen_requirement(server', affected)]_vars
    BY TellStep DEF CommitTells
<1> QED BY <1>1, ChangesAreTold, PTL DEF Spec, ListenCoversWhatChanged
=============================================================================
