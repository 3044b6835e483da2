-------------------------- MODULE PlannerLoopProofs --------------------------
(***************************************************************************)
(* Theorems about PlannerLoop, for any limits, requirements, renders and   *)
(* sessions, and however interrupts, failures, crashes and retention       *)
(* passes come in between.                                                 *)
(*                                                                         *)
(* Neither gate is an invariant by itself.  What makes them one is that    *)
(* the loop state follows the history: the count of changes without        *)
(* feedback is that of the edits nobody heard, the requirement is what the *)
(* last edit still asks for, and a render that is under way was judged by  *)
(* the requirement that holds when it ends.                                *)
(*                                                                         *)
(* Retention is sound because a pass that has still to reach the session   *)
(* of the planner began after the edit did, so that its lease cannot be    *)
(* over, and because a pass is over before a lease that begins with it.    *)
(* It takes sounds before sessions because what it has seen of a closed    *)
(* session is still true of its record when it prunes.                     *)
(***************************************************************************)
EXTENDS PlannerLoop, FoldTheorems, FiniteSetTheorems, TLAPS

Loop == [published: Nat, since_feedback: Nat, since_arrangement_listen: Nat,
         requirement: {None} \cup {Some(r) : r \in Requirements}]

\* The history of the edits and the loop state say the same, but for the moment
\* between the end of the loop and the last status.
FollowsHistory ==
    /\ unheard = state.since_feedback
    /\ phase # "closing" => unproven = state.requirement
    /\ phase = "closing" => state = LoopState
    /\ state.requirement # None => state.since_arrangement_listen > 0

\* Whether the render under way will do was decided when it was asked for.
RenderIsJudged ==
    phase = "rendering" =>
        \E name \in {"render_audio", "analyze_audio", "audition"}, does \in BOOLEAN :
            /\ render = Some([name |-> name, covers |-> does, proves |-> does])
            /\ name # "render_audio" => does = FALSE

LoopInv ==
    /\ state \in Loop
    /\ FollowsHistory
    /\ RenderIsJudged
    /\ FeedbackInTime
    /\ ListenedBeforeCompletion

\* The two gates read and write the same limit.
LEMMA LimitIsNumber == MAX_MUTATIONS_WITHOUT_FEEDBACK \in Nat
BY LeaseAssumption

\* The loop starts with nothing unheard.
LEMMA FreshLoopState ==
    /\ LoopState \in Loop
    /\ LoopState.since_feedback = 0 /\ LoopState.requirement = None
BY DEF LoopState, Loop

\* A requirement that somebody asks for is told from none.
LEMMA SomeIsNotNone == \A x, y : Some(x) # None /\ (Some(x) = Some(y) => x = y) /\ Some(x)[1] = x
BY DEF Some, None

----------------------------------------------------------------------------
\* What most steps do to the loop: nothing, or start it over, or return from it.
LoopStays == UNCHANGED <<state, unheard, unproven>>

\* Steps that leave the loop state alone and do not end the loop.
LEMMA StayKeeps ==
    ASSUME LoopInv, LoopStays,
           \/ UNCHANGED <<phase, result, render>>
           \/ phase # "closing" /\ phase' \notin {"closing", "rendering"}
    PROVE  LoopInv'
BY DEF LoopInv, LoopStays, FollowsHistory, RenderIsJudged, FeedbackInTime, ListenedBeforeCompletion

\* Steps that start over.
LEMMA FreshKeeps ==
    ASSUME FreshLoop, phase' \notin {"closing", "rendering"}, unproven' = None
    PROVE  LoopInv'
BY LimitIsNumber, FreshLoopState
   DEF FreshLoop, LoopInv, FollowsHistory, RenderIsJudged, FeedbackInTime, ListenedBeforeCompletion

\* The loop returns: it may say that it completed the edit when nothing is unproven.
LEMMA ReturnKeeps ==
    ASSUME NEW how, Return(how), how = "completed" => unproven = None
    PROVE  LoopInv'
<1>1. /\ phase' = "closing" /\ result' = how /\ unproven' = unproven
      /\ state' = LoopState /\ unheard' = 0
    BY DEF Return, FreshLoop
<1> QED BY <1>1, LimitIsNumber, FreshLoopState
        DEF LoopInv, FollowsHistory, RenderIsJudged, FeedbackInTime, ListenedBeforeCompletion

\* What a step of the passes, the clock, the clients or the sessions does.
LEMMA OthersKeep ==
    ASSUME LoopInv,
           \/ StartEdit \/ OpenSession \/ Interrupt \/ View \/ Viewed \/ Tick
           \/ \E a \in Passes : Sweep(a)
    PROVE  LoopInv'
<1>1. CASE StartEdit
    BY <1>1, StayKeeps DEF StartEdit, LoopStays, loopVars
<1>2. CASE OpenSession
    BY <1>2, StayKeeps DEF OpenSession, LoopStays, loopVars
<1>3. CASE Interrupt \/ View \/ Viewed \/ Tick
    BY <1>3, StayKeeps DEF Interrupt, View, Viewed, Tick, LoopStays, loopVars, planVars
<1>4. CASE \E a \in Passes : Sweep(a)
    BY <1>4, StayKeeps DEF Sweep, LoopStays, loopVars, planVars
<1> QED BY <1>1, <1>2, <1>3, <1>4

\* The edit is over, in the record or by a crash.
LEMMA EndsKeep ==
    ASSUME LoopInv, OpenFails \/ Finish \/ Crash \/ CloseSession
    PROVE  LoopInv'
<1>1. CASE OpenFails \/ Finish \/ Crash
    BY <1>1, FreshKeeps DEF OpenFails, Finish, Crash, NoEdit
<1>2. CASE CloseSession
  <2>1. /\ phase = "closing" /\ phase' = "sweeping" /\ unproven' = None
        /\ state' = state /\ unheard' = unheard
      BY <1>2 DEF CloseSession
  <2> QED BY <2>1, FreshLoopState
          DEF LoopInv, FollowsHistory, RenderIsJudged, FeedbackInTime, ListenedBeforeCompletion
<1> QED BY <1>1, <1>2

\* Turns and answers: the loop goes on, or returns.
LEMMA TurnsKeep ==
    ASSUME LoopInv,
           Turn \/ Fail \/ CallEnds \/ Unavailable \/ Wait \/ AnswerDone \/ AnswerCall
    PROVE  LoopInv'
<1>1. CASE CutOff \/ Return("failed")
    BY <1>1, ReturnKeeps DEF CutOff
<1>2. ASSUME NEW next \in {"turn", "calling", "waiting", "tool"}, GoTo(next), LoopStays,
             phase # "closing"
      PROVE  LoopInv'
    BY <1>2, StayKeeps DEF GoTo
<1>3. CASE Turn
    BY <1>1, <1>2, <1>3 DEF Turn, LoopStays, loopVars
<1>4. CASE Fail \/ CallEnds
    BY <1>1, <1>4 DEF Fail, CallEnds
<1>5. CASE Unavailable \/ AnswerCall
    BY <1>2, <1>5 DEF Unavailable, AnswerCall, LoopStays
<1>6. CASE Wait
    BY <1>1, <1>2, <1>6 DEF Wait, LoopStays, loopVars
<1>7. CASE AnswerDone
  <2>1. CASE ~completion_listen_required /\ Return("completed")
    <3>1. state.since_arrangement_listen \in Nat
        BY DEF LoopInv, Loop
    <3>2. unproven = state.requirement /\ state.requirement = None
        BY <1>7, <2>1, <3>1
           DEF AnswerDone, LoopInv, FollowsHistory, completion_listen_required
    <3> QED BY <2>1, <3>2, ReturnKeeps
  <2>2. CASE GoTo("turn") /\ LoopStays
      BY <1>2, <1>7, <2>2 DEF AnswerDone
  <2> QED BY <1>7, <2>1, <2>2 DEF AnswerDone, LoopStays
<1> QED BY <1>3, <1>4, <1>5, <1>6, <1>7

\* Tools that leave the counts.
LEMMA OtherToolsKeep ==
    ASSUME LoopInv, LoadToolGroup \/ OtherCall \/ CommitRefused \/ RenderFails
    PROVE  LoopInv'
<1>1. CASE CommitRefused
    BY <1>1, ReturnKeeps DEF CommitRefused
<1>2. CASE LoadToolGroup \/ OtherCall \/ RenderFails
    BY <1>2, StayKeeps
       DEF LoadToolGroup, OtherCall, RenderFails, Continue, GoTo, LoopStays, loopVars
<1> QED BY <1>1, <1>2

\* A change that is let through leaves room for it.
LEMMA MutateKeeps == ASSUME LoopInv, Mutate PROVE LoopInv'
<1>1. ~periodic_feedback_required
    BY DEF Mutate, LetThrough
<1>2. PICK r \in Requirements : record_project_mutation(r) /\ unproven' = Some(r)
    BY DEF Mutate
<1>3. /\ state.published \in Nat /\ state.since_feedback \in Nat
      /\ state.since_arrangement_listen \in Nat
    BY DEF LoopInv, Loop
<1>4. state' = [state EXCEPT !.published = state.published + 1,
                             !.since_feedback = state.since_feedback + 1,
                             !.since_arrangement_listen = state.since_arrangement_listen + 1,
                             !.requirement = Some(r)]
    BY <1>2 DEF record_project_mutation
<1>5. /\ state' \in Loop
      /\ state'.since_feedback = state.since_feedback + 1
      /\ state'.since_arrangement_listen > 0 /\ state'.requirement = Some(r)
  <2>1. /\ state.published + 1 \in Nat /\ state.since_feedback + 1 \in Nat
        /\ state.since_arrangement_listen + 1 \in Nat /\ state.since_arrangement_listen + 1 > 0
        /\ Some(r) \in {None} \cup {Some(x) : x \in Requirements}
      BY <1>3
  <2>2. state \in Loop
      BY DEF LoopInv
  <2>3. state' = [published |-> state.published + 1,
                  since_feedback |-> state.since_feedback + 1,
                  since_arrangement_listen |-> state.since_arrangement_listen + 1,
                  requirement |-> Some(r)]
      BY <1>4, <2>2 DEF Loop
  <2> QED BY <2>1, <2>3 DEF Loop
<1>6. phase = "tool" /\ phase' = "turn" /\ unheard' = unheard + 1
    BY DEF Mutate, Continue, GoTo
<1>7. FollowsHistory' /\ RenderIsJudged' /\ ListenedBeforeCompletion'
    BY <1>2, <1>5, <1>6
       DEF LoopInv, FollowsHistory, RenderIsJudged, ListenedBeforeCompletion
<1>8. FeedbackInTime'
    BY <1>1, <1>3, <1>6, LimitIsNumber
       DEF LoopInv, FollowsHistory, FeedbackInTime, periodic_feedback_required
<1> QED BY <1>5, <1>7, <1>8 DEF LoopInv

\* The requirement judges a render as the history does.
LEMMA JudgesAlike ==
    ASSUME LoopInv, phase = "tool", NEW request \in Requests
    PROVE  arrangement_render_covers_latest_mutation(request) <=> Proves(request)
<1>1. unproven = state.requirement
    BY DEF LoopInv, FollowsHistory
<1>2. CASE state.requirement = None
    BY <1>1, <1>2, SomeIsNotNone DEF arrangement_render_covers_latest_mutation, Proves
<1>3. ASSUME NEW r \in Requirements, state.requirement = Some(r)
      PROVE  arrangement_render_covers_latest_mutation(request) <=> Proves(request)
  <2>1. arrangement_render_covers_latest_mutation(request) <=> covers(r, request)
      BY <1>3, SomeIsNotNone DEF arrangement_render_covers_latest_mutation
  <2>2. Proves(request) <=> /\ r.tracks \ request.tracks = {}
                            /\ \E part \in request.parts : part \in r.parts
      BY <1>1, <1>3, SomeIsNotNone DEF Proves
  <2> QED BY <2>1, <2>2 DEF covers
<1>4. state.requirement \in {None} \cup {Some(r) : r \in Requirements}
    BY DEF LoopInv, Loop
<1> QED BY <1>2, <1>3, <1>4

\* A render is judged when it starts.
LEMMA StartRenderKeeps == ASSUME LoopInv, StartRender PROVE LoopInv'
<1>1. PICK name \in {"render_audio", "analyze_audio", "audition"}, request \in Requests :
        render' = Some([name |-> name,
                        covers |-> name = "render_audio"
                                     /\ arrangement_render_covers_latest_mutation(request),
                        proves |-> name = "render_audio" /\ Proves(request)])
    BY DEF StartRender
<1>2. phase = "tool" /\ phase' = "rendering" /\ LoopStays
    BY DEF StartRender, GoTo, LoopStays
<1>3. DEFINE does == name = "render_audio" /\ Proves(request)
<1>4. does \in BOOLEAN /\ (name # "render_audio" => does = FALSE)
    OBVIOUS
<1>5. render' = Some([name |-> name, covers |-> does, proves |-> does])
    BY <1>1, <1>2, JudgesAlike
<1>6. RenderIsJudged'
    BY <1>4, <1>5 DEF RenderIsJudged
<1> QED BY <1>2, <1>6
        DEF LoopInv, LoopStays, FollowsHistory, FeedbackInTime, ListenedBeforeCompletion

\* What was listened to, all of it, is proven; what was measured is not.
LEMMA RenderEndsKeeps == ASSUME LoopInv, RenderEnds PROVE LoopInv'
<1>1. PICK name \in {"render_audio", "analyze_audio", "audition"}, does \in BOOLEAN :
        /\ render = Some([name |-> name, covers |-> does, proves |-> does])
        /\ name # "render_audio" => does = FALSE
    BY DEF RenderEnds, LoopInv, RenderIsJudged
<1>2. render[1] = [name |-> name, covers |-> does, proves |-> does]
    BY <1>1, SomeIsNotNone
<1>3. /\ phase = "rendering" /\ phase' = "turn"
      /\ state' = Rendered(render[1])
      /\ unheard' = IF name = "audition" THEN unheard ELSE 0
      /\ unproven' = IF does THEN None ELSE unproven
    BY <1>2 DEF RenderEnds, GoTo
<1>4. state \in Loop /\ FollowsHistory /\ FeedbackInTime /\ unproven = state.requirement
    BY <1>3 DEF LoopInv, FollowsHistory
<1>5. /\ RenderIsJudged' /\ ListenedBeforeCompletion'
    BY <1>3 DEF RenderIsJudged, ListenedBeforeCompletion
<1>6. CASE name = "audition"
  <2>1. state' = state /\ unheard' = unheard /\ unproven' = unproven
      BY <1>1, <1>2, <1>3, <1>6 DEF Rendered
  <2> QED BY <1>3, <1>4, <1>5, <2>1 DEF LoopInv, FollowsHistory, FeedbackInTime
<1>7. CASE name # "audition" /\ ~does
  <2>1. state' = [state EXCEPT !.since_feedback = 0]
      BY <1>1, <1>2, <1>3, <1>7
         DEF Rendered, record_arrangement_listen, record_arrangement_feedback
  <2>2. unheard' = 0 /\ unproven' = unproven
      BY <1>3, <1>7
  <2> QED BY <1>3, <1>4, <1>5, <2>1, <2>2, LimitIsNumber
          DEF LoopInv, Loop, FollowsHistory, FeedbackInTime
<1>8. CASE name = "render_audio" /\ does
  <2>1. state' = [[state EXCEPT !.since_feedback = 0]
                     EXCEPT !.since_arrangement_listen = 0, !.requirement = None]
      BY <1>2, <1>3, <1>8
         DEF Rendered, record_arrangement_listen, record_arrangement_feedback
  <2>2. unheard' = 0 /\ unproven' = None
      BY <1>3, <1>8
  <2>3. state' = [published |-> state.published, since_feedback |-> 0,
                  since_arrangement_listen |-> 0, requirement |-> None]
      BY <1>4, <2>1 DEF Loop
  <2>4. state' \in Loop
      BY <1>4, <2>3 DEF Loop
  <2> QED BY <1>3, <1>5, <2>2, <2>3, <2>4, LimitIsNumber
          DEF LoopInv, FollowsHistory, FeedbackInTime
<1> QED BY <1>1, <1>6, <1>7, <1>8

----------------------------------------------------------------------------
\* Every step of an edit, of the passes and of the clock keeps the invariant.
LEMMA StepKeepsLoop == ASSUME LoopInv, [Next]_vars PROVE LoopInv'
<1>1. CASE UNCHANGED vars
    BY <1>1, StayKeeps DEF vars, loopVars, planVars, LoopStays
<1>2. CASE Planner
  <2>1. CASE Tool
      BY <2>1, OtherToolsKeep, MutateKeeps, StartRenderKeeps DEF Tool
  <2>2. CASE RenderStops
      BY <2>2, OtherToolsKeep DEF RenderStops
  <2> QED BY <1>2, <2>1, <2>2, OthersKeep, EndsKeep, TurnsKeep DEF Planner
<1>3. CASE Gemini
    BY <1>3, TurnsKeep DEF Gemini
<1>4. CASE RenderEnds \/ RenderFails
    BY <1>4, RenderEndsKeeps, OtherToolsKeep
<1> QED BY <1>1, <1>2, <1>3, <1>4, OthersKeep, EndsKeep DEF Next

\* The loop state follows the history from the start to the end of every edit.
THEOREM LoopFollowsHistory == Spec => []LoopInv
<1>1. Init => LoopInv
    BY LimitIsNumber, FreshLoopState
       DEF Init, LoopInv, FollowsHistory, RenderIsJudged, FeedbackInTime, ListenedBeforeCompletion
<1>2. LoopInv /\ [Next]_vars => LoopInv'
    BY StepKeepsLoop
<1> QED BY <1>1, <1>2, PTL DEF Spec

\* Whatever Gemini asks for, no more changes reach the project in a row than may go
\* without hearing or measuring the arrangement (periodic_feedback_required).
THEOREM FeedbackComesInTime == Spec => []FeedbackInTime
BY LoopFollowsHistory, PTL DEF LoopInv

\* An edit is completed only when the whole of what its last change asks for was
\* listened to after that change (completion_listen_required).
THEOREM CompletionWasListenedTo == Spec => []ListenedBeforeCompletion
BY LoopFollowsHistory, PTL DEF LoopInv

----------------------------------------------------------------------------
(* Retention.  A planner at work keeps its record because no pass can take *)
(* it for abandoned: a pass that has the session on its list began after   *)
(* the edit did, so between an update and the end of the pass lies less    *)
(* than a lease; and pruning leaves out what runs.                         *)

\* The order of pruning lists the sessions seen.
LEMMA OrderListsSeen ==
    ASSUME NEW seen, IsFiniteSet(seen), NEW order \in Orders(seen)
    PROVE  \E n \in Nat : order \in [1..n -> seen] /\ DOMAIN order = 1..n
<1>1. order \in SetToSeqs(seen)
    BY DEF Orders
<1>2. Cardinality(seen) \in Nat
    BY FS_CardinalityType
<1>3. order \in [1..Cardinality(seen) -> seen]
    BY <1>1 DEF SetToSeqs
<1> QED BY <1>2, <1>3

\* What the first part of pruning can leave: sessions as they were seen or without
\* their sounds.
Left(seen) == seen \cup {[s EXCEPT !.audio = FALSE] : s \in seen}

\* Whatever keeps a set of running sessions in an accumulator of the fold keeps it in
\* the result: the sounds of running sessions are not touched.
LEMMA SilencingSparesRunning ==
    ASSUME NEW seen, IsFiniteSet(seen), NEW order \in Orders(seen), NEW now,
           NEW spared, spared \subseteq seen, \A s \in spared : s.running
    PROVE  spared \subseteq Silenced(seen, order, now) /\ Silenced(seen, order, now) \subseteq Left(seen)
<1> DEFINE A == SUBSET Left(seen)
           Goes(left, s) == ~s.running /\ (Expired(s, now) \/ Bytes(left) > MAXIMUM_BYTES)
           Step(left, s) ==
               IF Goes(left, s) THEN (left \ {s}) \cup {[s EXCEPT !.audio = FALSE]} ELSE left
           F == [p \in A \X seen |-> Step(p[1], p[2])]
           J == {left \in A : spared \subseteq left}
<1>1. PICK n \in Nat : order \in [1..n -> seen] /\ DOMAIN order = 1..n
    BY OrderListsSeen
<1> DEFINE Next0(h) == [t \in SUBSET (1..n) |->
                           IF t = {} THEN seen ELSE Step(h[t \ {Max(t)}], order[Max(t)])]
           iter == CHOOSE h : h = Next0(h)
<1>2. Silenced(seen, order, now) = iter[1..n]
    BY <1>1 DEF Silenced, FoldLeft, MapThenFoldSet
<1>3. \A left \in A, s \in seen : Step(left, s) \in A
    BY DEF Left
<1>4. seen \in A /\ seen \in J
    BY DEF Left
<1>5. F \in [A \X seen -> A] /\ \A left \in A, s \in seen : F[<<left, s>>] = Step(left, s)
  <2> HIDE DEF Step, A
  <2> QED BY <1>3
<1> HIDE DEF F, Step, A, J
<1>6. PICK h : TypedFolding(h, F, seen, order, n, A, seen)
    BY <1>1, <1>4, <1>5, TypedFoldExists
<1>7. h = Next0(h)
    BY <1>5, <1>6 DEF Folding, TypedFolding
<1>8. iter = Next0(iter)
    BY <1>7
<1> HIDE DEF iter
<1>9. iter[{}] \in J
    BY <1>4, <1>8
<1>10. ASSUME NEW k \in 1..n, iter[(1..k) \ {k}] \in J PROVE iter[1..k] \in J
  <2>1. iter[1..k] = Step(iter[(1..k) \ {k}], order[k])
      BY <1>8, MaxOfInterval
  <2>2. order[k] \in seen
      BY <1>1
  <2>3. \A left \in J, s \in seen : Step(left, s) \in J
      BY <1>3 DEF J, Step
  <2> QED BY <1>10, <2>1, <2>2, <2>3
<1>11. iter[1..n] \in J
    BY <1>9, <1>10, FoldKeeps
<1> QED BY <1>2, <1>11 DEF J, A

\* Sessions go by their ids, and only ids of sessions that do not run.
LEMMA RetainingSparesRunning ==
    ASSUME NEW seen, IsFiniteSet(seen), NEW order \in Orders(seen), NEW now, NEW base,
           NEW spared, spared \subseteq base,
           \A s \in spared, e \in seen : s.id = e.id => e.running
    PROVE  spared \subseteq Retained(base, order, now)
<1> DEFINE A == SUBSET base
           Goes(left, s) == ~s.running /\ (\/ Expired(s, now) \/ Cardinality(left) > MAXIMUM_COUNT
                                           \/ Bytes(left) > MAXIMUM_BYTES)
           Step(left, s) == IF Goes(left, s) THEN {kept \in left : kept.id # s.id} ELSE left
           F == [p \in A \X seen |-> Step(p[1], p[2])]
           J == {left \in A : spared \subseteq left}
<1>1. PICK n \in Nat : order \in [1..n -> seen] /\ DOMAIN order = 1..n
    BY OrderListsSeen
<1> DEFINE Next0(h) == [t \in SUBSET (1..n) |->
                           IF t = {} THEN base ELSE Step(h[t \ {Max(t)}], order[Max(t)])]
           iter == CHOOSE h : h = Next0(h)
<1>2. Retained(base, order, now) = iter[1..n]
    BY <1>1 DEF Retained, FoldLeft, MapThenFoldSet
<1>3. \A left \in A, s \in seen : Step(left, s) \in A
    OBVIOUS
<1>4. base \in A /\ base \in J
    OBVIOUS
<1>5. F \in [A \X seen -> A] /\ \A left \in A, s \in seen : F[<<left, s>>] = Step(left, s)
  <2> HIDE DEF Step, A
  <2> QED BY <1>3
<1> HIDE DEF F, Step, A, J
<1>6. PICK h : TypedFolding(h, F, base, order, n, A, seen)
    BY <1>1, <1>4, <1>5, TypedFoldExists
<1>7. h = Next0(h)
    BY <1>5, <1>6 DEF Folding, TypedFolding
<1>8. iter = Next0(iter)
    BY <1>7
<1> HIDE DEF iter
<1>9. iter[{}] \in J
    BY <1>4, <1>8
<1>10. ASSUME NEW k \in 1..n, iter[(1..k) \ {k}] \in J PROVE iter[1..k] \in J
  <2>1. iter[1..k] = Step(iter[(1..k) \ {k}], order[k])
      BY <1>8, MaxOfInterval
  <2>2. order[k] \in seen
      BY <1>1
  <2>3. \A left \in J, s \in seen : Step(left, s) \in J
      BY <1>3 DEF J, Step
  <2> QED BY <1>10, <2>1, <2>2, <2>3
<1>11. iter[1..n] \in J
    BY <1>9, <1>10, FoldKeeps
<1> QED BY <1>2, <1>11 DEF J

\* The file of a session that was seen only as running stays.
LEMMA PruningSparesRunning ==
    ASSUME NEW seen, IsFiniteSet(seen), NEW order \in Orders(seen), NEW now, NEW id,
           \A e \in seen : e.id = id => e.running
    PROVE  id \notin {s.id : s \in seen} \ {s.id : s \in Pruned(seen, order, now)}
<1> DEFINE spared == {e \in seen : e.id = id}
<1>1. spared \subseteq Silenced(seen, order, now)
    BY SilencingSparesRunning
<1>2. \A s \in spared, e \in seen : s.id = e.id => e.running
    OBVIOUS
<1>3. spared \subseteq Pruned(seen, order, now)
  <2> DEFINE base == Silenced(seen, order, now)
  <2> HIDE DEF base, spared
  <2>1. spared \subseteq base
      BY <1>1 DEF base
  <2>2. spared \subseteq Retained(base, order, now)
      BY <1>2, <2>1, RetainingSparesRunning
  <2> QED BY <2>2 DEF Pruned, base
<1> QED BY <1>3

----------------------------------------------------------------------------
Entries == [id : Nat, updated : Nat, running : BOOLEAN, audio : BOOLEAN]

AtWork(a) == pass[a].at \in {"visiting", "writing"}
Underway == phase \notin {"idle", "sweeping"}

\* Sessions are numbered in the order they are made.
RecordsTyped ==
    /\ clock \in Nat /\ opened \in Nat /\ DOMAIN pass = Passes
    /\ Present \subseteq 1..opened
    /\ \A s \in Present : records[s] \in SessionRecords
    /\ phase = "closing" => result \in {"completed", "failed"}

PassTyped(a) ==
    \/ pass[a] = Resting
    \/ pass[a] \in [at : {"ended", "failed"}]
    \/ pass[a] \in [at : {"visiting"}, now : Nat, todo : SUBSET (1..opened),
                    seen : SUBSET Entries]
    \/ pass[a] \in [at : {"writing"}, now : Nat, todo : SUBSET (1..opened),
                    seen : SUBSET Entries, id : Nat, record : SessionRecords]

\* A pass writes a record only with its own time, and is soon over.
PassSound(a) ==
    /\ AtWork(a) => /\ pass[a].now <= clock /\ clock <= pass[a].now + PASS_TIME
                    /\ IsFiniteSet(pass[a].seen)
                    /\ \A e \in pass[a].seen : e.id \in 1..opened
    /\ pass[a].at = "writing" =>
           pass[a].id \in pass[a].todo /\ pass[a].record.updated = pass[a].now

\* Of what the pass has been to, nothing runs past its lease.
Swept(a) ==
    AtWork(a) => \A s \in Present \ pass[a].todo : ~LeaseIsOver(records[s], pass[a].now)

\* A pass that can find the session of the planner began after the edit did, has seen
\* it running, and writes that it runs.
Spared(a) ==
    Live /\ AtWork(a) =>
        /\ me \in pass[a].todo => pass[a].now + EDIT_TIMEOUT >= deadline
        /\ \A e \in pass[a].seen : e.id = me => e.running
        /\ pass[a].at = "writing" /\ pass[a].id = me => pass[a].record.status = "running"

PassInv(a) == PassTyped(a) /\ PassSound(a) /\ Swept(a) /\ Spared(a)

\* No edit is out of its time by more than the slack.
InTime ==
    Underway => /\ deadline \in Nat
                /\ deadline <= clock + EDIT_TIMEOUT /\ clock <= deadline + SLACK

\* The planner's record runs, and was written since the edit began.
Mine ==
    Live => /\ me \in Present /\ records[me].status = "running"
            /\ records[me].updated + EDIT_TIMEOUT >= deadline

RetentionInv == RecordsTyped /\ InTime /\ Mine /\ \A a \in Passes : PassInv(a)

\* The limits are numbers, and the lease outlasts an edit and a pass.
LEMMA Limits ==
    /\ RUNNING_SESSION_LEASE \in Nat /\ PASS_TIME \in Nat
    /\ EDIT_TIMEOUT \in Nat /\ SLACK \in Nat
    /\ EDIT_TIMEOUT + SLACK <= RUNNING_SESSION_LEASE /\ PASS_TIME <= RUNNING_SESSION_LEASE
BY SessionsAssumption, LeaseAssumption, PassTimeAssumption

\* The planner has its session only while the edit is under way.
LEMMA LiveIsUnderway == (Live => Underway) /\ (Live' => Underway')
BY DEF Live, Underway

----------------------------------------------------------------------------
\* A pass that is not at work.
LEMMA IdlePass ==
    ASSUME NEW a, pass'[a] = Resting \/ pass'[a] \in [at : {"ended", "failed"}]
    PROVE  PassInv(a)'
<1>1. pass'[a].at \notin {"visiting", "writing"}
    BY DEF Resting
<1> QED BY <1>1 DEF PassInv, PassTyped, PassSound, Swept, Spared, AtWork

\* A pass that begins.
LEMMA NewPass ==
    ASSUME NEW a, RecordsTyped', Live' => deadline' <= clock' + EDIT_TIMEOUT,
           pass'[a] = [at |-> "visiting", now |-> clock', todo |-> DOMAIN records', seen |-> {}]
    PROVE  PassInv(a)'
<1>1. /\ clock' \in Nat /\ DOMAIN records' \in SUBSET (1..opened') /\ {} \in SUBSET Entries
      /\ IsFiniteSet({})
    BY FS_EmptySet DEF RecordsTyped, Present
<1>2. PassTyped(a)'
    BY <1>1 DEF PassTyped
<1>3. PassSound(a)'
  <2>1. /\ pass'[a].at = "visiting" /\ pass'[a].now = clock' /\ pass'[a].seen = {}
        /\ clock' <= clock' /\ clock' <= clock' + PASS_TIME
      BY <1>1, Limits
  <2> QED BY <1>1, <2>1 DEF PassSound
<1>4. Swept(a)' /\ Spared(a)'
    BY <1>1, Limits DEF Swept, Spared, Present
<1> QED BY <1>2, <1>3, <1>4 DEF PassInv

\* What others do to the records while a pass is at work: a record keeps its status and
\* time, or is as young as the lease.
RecordsMove ==
    \A s \in DOMAIN records' :
        \/ /\ s \in Present
           /\ records'[s].status = records[s].status /\ records'[s].updated = records[s].updated
        \/ records'[s].updated \in Nat /\ records'[s].updated + RUNNING_SESSION_LEASE >= clock

\* The planner's session stays, goes, or is a new one.
SessionMoves ==
    Live' => \/ Live /\ me' = me /\ deadline' = deadline
             \/ me' \in Nat /\ me' > opened

\* A pass in whose pauses others work.
LEMMA OtherPass ==
    ASSUME RetentionInv, NEW a \in Passes, pass'[a] = pass[a], clock' = clock,
           opened' \in Nat, opened' >= opened, RecordsMove, SessionMoves
    PROVE  PassInv(a)'
<1>1. PassInv(a) /\ clock \in Nat /\ opened \in Nat
    BY DEF RetentionInv, RecordsTyped
<1>2. \A x : x \in SUBSET (1..opened) => x \in SUBSET (1..opened')
    BY <1>1
<1>3. PassTyped(a)'
    BY <1>1, <1>2 DEF PassInv, PassTyped
<1>4. AtWork(a) => /\ pass[a].now \in Nat /\ pass[a].now <= clock
                   /\ pass[a].todo \subseteq 1..opened
    BY <1>1 DEF PassInv, PassTyped, PassSound, AtWork, Resting
<1>5. PassSound(a)'
    BY <1>1 DEF PassInv, PassSound, AtWork
<1>6. Swept(a)'
  <2> SUFFICES ASSUME AtWork(a), NEW s \in DOMAIN records' \ pass[a].todo
               PROVE  ~LeaseIsOver(records'[s], pass[a].now)
      BY DEF Swept, AtWork, Present
  <2>1. CASE /\ s \in Present /\ records'[s].status = records[s].status
             /\ records'[s].updated = records[s].updated
      BY <1>1, <2>1 DEF PassInv, Swept, LeaseIsOver
  <2>2. CASE /\ records'[s].updated \in Nat
             /\ records'[s].updated + RUNNING_SESSION_LEASE >= clock
    <3>1. ~(pass[a].now - records'[s].updated > RUNNING_SESSION_LEASE)
        BY <1>1, <1>4, <2>2, Limits
    <3> QED BY <3>1 DEF LeaseIsOver
  <2> QED BY <2>1, <2>2 DEF RecordsMove
<1>7. Spared(a)'
  <2> SUFFICES ASSUME Live', AtWork(a) PROVE Spared(a)'
      BY DEF Spared, AtWork
  <2>1. CASE Live /\ me' = me /\ deadline' = deadline
      BY <1>1, <2>1 DEF PassInv, Spared, AtWork
  <2>2. CASE me' \in Nat /\ me' > opened
    <3>1. me' \notin 1..opened
        BY <1>1, <2>2
    <3>2. me' \notin pass[a].todo /\ \A e \in pass[a].seen : e.id # me'
        BY <1>1, <1>4, <3>1 DEF PassInv, PassSound
    <3>3. pass[a].at = "writing" => pass[a].id # me'
        BY <1>1, <3>2 DEF PassInv, PassSound
    <3> QED BY <3>2, <3>3 DEF Spared
  <2> QED BY <2>1, <2>2 DEF SessionMoves
<1> QED BY <1>3, <1>5, <1>6, <1>7 DEF PassInv

----------------------------------------------------------------------------
\* Steps that leave the sessions alone, or give them up.
LEMMA QuietKeeps ==
    ASSUME RetentionInv, UNCHANGED sessionVars, opened' = opened,
           Live' => Live /\ UNCHANGED <<me, deadline>>,
           Underway' => Underway /\ UNCHANGED deadline,
           phase' = "closing" => result' \in {"completed", "failed"}
    PROVE  RetentionInv'
<1>1. clock' = clock /\ records' = records /\ pass' = pass
    BY DEF sessionVars
<1>2. RecordsTyped'
    BY <1>1 DEF RetentionInv, RecordsTyped, Present
<1>3. InTime' /\ Mine'
    BY <1>1 DEF RetentionInv, InTime, Mine, Present
<1>4. ASSUME NEW a \in Passes PROVE PassInv(a)'
  <2>1. RecordsMove /\ SessionMoves
      BY <1>1 DEF RecordsMove, SessionMoves, Present
  <2>2. opened' \in Nat /\ opened' >= opened
      BY DEF RetentionInv, RecordsTyped
  <2> QED BY <1>1, <2>1, <2>2, OtherPass
<1> QED BY <1>2, <1>3, <1>4 DEF RetentionInv

\* The planner brings its record up to date.
LEMMA WorkKeeps ==
    ASSUME RetentionInv, Live, phase' \in {"turn", "rendering"},
           NEW rec \in SessionRecords, rec.status = "running", rec.updated = clock,
           me \in Present, Put(me, rec),
           UNCHANGED <<clock, pass, me, deadline, opened>>
    PROVE  RetentionInv'
<1>1. /\ Present' = Present /\ records'[me] = rec
      /\ \A s \in Present : s # me => records'[s] = records[s]
    BY DEF Put, Present
<1>2. RecordsTyped'
    BY <1>1 DEF RetentionInv, RecordsTyped
<1>3. InTime' /\ Mine'
    BY <1>1, LiveIsUnderway, Limits
       DEF RetentionInv, RecordsTyped, InTime, Mine, Underway, Live
<1>4. ASSUME NEW a \in Passes PROVE PassInv(a)'
  <2>1. RecordsMove
      BY <1>1, Limits DEF RecordsMove, Present, RetentionInv, RecordsTyped
  <2>2. SessionMoves /\ pass'[a] = pass[a] /\ opened' \in Nat /\ opened' >= opened
      BY DEF SessionMoves, RetentionInv, RecordsTyped
  <2> QED BY <2>1, <2>2, OtherPass
<1> QED BY <1>2, <1>3, <1>4 DEF RetentionInv

\* A pass is begun, or its result is taken; the sessions stay.
LEMMA BeginsOrRests ==
    ASSUME RetentionInv, NEW a \in Passes, NEW next,
           next = Resting \/ next = Started(Present),
           pass' = [pass EXCEPT ![a] = next],
           UNCHANGED <<clock, records, opened>>,
           Live' => Live /\ UNCHANGED <<me, deadline>>,
           InTime', phase' # "closing" \/ UNCHANGED <<phase, result>>
    PROVE  RetentionInv'
<1>1. RecordsTyped'
    BY DEF RetentionInv, RecordsTyped, Present
<1>2. Mine'
    BY DEF RetentionInv, Mine, Present
<1>3. ASSUME NEW b \in Passes PROVE PassInv(b)'
  <2>1. pass'[a] = next /\ (b # a => pass'[b] = pass[b])
      BY DEF RetentionInv, RecordsTyped
  <2>2. CASE b # a
    <3>1. RecordsMove /\ SessionMoves
        BY DEF RecordsMove, SessionMoves, Present
    <3>2. opened' \in Nat /\ opened' >= opened
        BY DEF RetentionInv, RecordsTyped
    <3> QED BY <2>1, <2>2, <3>1, <3>2, OtherPass
  <2>3. CASE b = a /\ next = Resting
      BY <2>1, <2>3, IdlePass
  <2>4. CASE b = a /\ next = Started(Present)
    <3>1. Live' => deadline' <= clock' + EDIT_TIMEOUT
        BY LiveIsUnderway DEF InTime
    <3>2. pass'[a] = [at |-> "visiting", now |-> clock', todo |-> DOMAIN records', seen |-> {}]
        BY <2>1, <2>4 DEF Started, Present
    <3> QED BY <1>1, <2>4, <3>1, <3>2, NewPass
  <2> QED BY <2>2, <2>3, <2>4
<1> QED BY <1>1, <1>2, <1>3 DEF RetentionInv

\* The worker's own pass.
LEMMA PassesOfPlanner == Worker \in Passes /\ Viewer \in Passes
BY PassesAssumption

\* Steps of the planner that leave its record or bring it up to date.
LEMMA PlannerKeeps ==
    ASSUME RetentionInv,
           \/ Turn \/ Fail \/ CallEnds \/ Wait \/ Unavailable \/ AnswerDone \/ AnswerCall
           \/ Tool \/ RenderEnds \/ RenderFails \/ Interrupt
    PROVE  RetentionInv'
<1>1. ASSUME NEW how \in {"completed", "failed"}, Return(how), Live PROVE RetentionInv'
    BY <1>1, QuietKeeps DEF Return, Live, Underway, FreshLoop
<1>2. ASSUME NEW next \in {"turn", "calling", "waiting", "tool", "rendering"}, GoTo(next), Live,
             UNCHANGED sessionVars
      PROVE  RetentionInv'
    BY <1>2, QuietKeeps DEF GoTo, Live, Underway
<1>3. ASSUME Continue, Live PROVE RetentionInv'
  <2> DEFINE rec == [records[me] EXCEPT !.status = "running", !.updated = clock]
  <2>1. me \in Present /\ Put(me, rec)
      BY <1>3 DEF Continue, update_status
  <2>2. rec \in SessionRecords /\ rec.status = "running" /\ rec.updated = clock
      BY <2>1 DEF RetentionInv, RecordsTyped, SessionRecords
  <2>3. phase' = "turn" /\ UNCHANGED <<clock, pass, me, deadline, opened>>
      BY <1>3 DEF Continue, GoTo
  <2> HIDE DEF rec
  <2> QED BY <1>3, <2>1, <2>2, <2>3, WorkKeeps
<1>4. CASE Turn \/ Fail \/ CallEnds \/ Wait
    BY <1>1, <1>2, <1>4 DEF Turn, Fail, CallEnds, Wait, CutOff, Live
<1>5. CASE Unavailable \/ AnswerDone \/ AnswerCall
    BY <1>1, <1>2, <1>5 DEF Unavailable, AnswerDone, AnswerCall, Live
<1>6. CASE Tool
    BY <1>1, <1>2, <1>3, <1>6
       DEF Tool, LoadToolGroup, OtherCall, Mutate, CommitRefused, StartRender, Live
<1>7. CASE RenderFails
    BY <1>3, <1>7 DEF RenderFails, Live
<1>8. CASE RenderEnds
  <2>1. PICK rec : /\ rec = [status |-> "running", updated |-> clock,
                             audio |-> records[me].audio \/ render[1].name # "analyze_audio"]
                   /\ Put(me, rec)
      BY <1>8 DEF RenderEnds
  <2>2. me \in Present /\ records[me] \in SessionRecords /\ clock \in Nat
      BY <1>8 DEF RenderEnds, RetentionInv, RecordsTyped
  <2>3. rec \in SessionRecords /\ rec.status = "running" /\ rec.updated = clock
      BY <2>1, <2>2 DEF SessionRecords
  <2>4. Live /\ phase' = "turn" /\ UNCHANGED <<clock, pass, me, deadline, opened>>
      BY <1>8 DEF RenderEnds, GoTo, Live
  <2> QED BY <2>1, <2>2, <2>3, <2>4, WorkKeeps
<1>9. CASE Interrupt
    BY <1>9, QuietKeeps DEF Interrupt, Live, Underway, RetentionInv, RecordsTyped
<1> QED BY <1>4, <1>5, <1>6, <1>7, <1>8, <1>9

\* An edit or a listing begins with a pass; their results are taken.
LEMMA PassBoundsKeep ==
    ASSUME RetentionInv, StartEdit \/ View \/ Viewed \/ OpenFails \/ Finish
    PROVE  RetentionInv'
<1>1. CASE StartEdit
  <2>1. /\ pass' = [pass EXCEPT ![Worker] = Started(Present)]
        /\ UNCHANGED <<clock, records, opened, result>>
        /\ phase' = "opening" /\ deadline' = clock + EDIT_TIMEOUT
      BY <1>1 DEF StartEdit, BeginPass
  <2>2. InTime'
      BY <2>1, Limits DEF InTime, RetentionInv, RecordsTyped
  <2>3. ~Live' /\ phase' # "closing"
      BY <2>1 DEF Live
  <2> QED BY <2>1, <2>2, <2>3, PassesOfPlanner, BeginsOrRests
<1>2. CASE View
  <2>1. /\ pass' = [pass EXCEPT ![Viewer] = Started(Present)]
        /\ UNCHANGED <<clock, records, opened, phase, me, deadline, result>>
      BY <1>2 DEF View, BeginPass, planVars
  <2>2. InTime'
      BY <2>1 DEF InTime, RetentionInv, Underway
  <2>3. Live' => Live
      BY <2>1 DEF Live
  <2> QED BY <2>1, <2>2, <2>3, PassesOfPlanner, BeginsOrRests
<1>3. CASE Viewed
  <2>1. /\ pass' = [pass EXCEPT ![Viewer] = Resting]
        /\ UNCHANGED <<clock, records, opened, phase, me, deadline, result>>
      BY <1>3 DEF Viewed, TakeResult, planVars
  <2>2. InTime'
      BY <2>1 DEF InTime, RetentionInv, Underway
  <2>3. Live' => Live
      BY <2>1 DEF Live
  <2> QED BY <2>1, <2>2, <2>3, PassesOfPlanner, BeginsOrRests
<1>4. CASE OpenFails \/ Finish
  <2>1. /\ pass' = [pass EXCEPT ![Worker] = Resting]
        /\ UNCHANGED <<clock, records, opened>> /\ phase' = "idle"
      BY <1>4 DEF OpenFails, Finish, TakeResult, NoEdit
  <2>2. InTime' /\ ~Live' /\ phase' # "closing"
      BY <2>1 DEF InTime, Underway, Live
  <2> QED BY <2>1, <2>2, PassesOfPlanner, BeginsOrRests
<1> QED BY <1>1, <1>2, <1>3, <1>4

\* A new session is on no list yet.
LEMMA OpenKeeps == ASSUME RetentionInv, OpenSession PROVE RetentionInv'
<1>1. /\ phase = "opening" /\ phase' = "turn" /\ opened' = opened + 1 /\ me' = opened + 1
      /\ UNCHANGED <<clock, deadline>> /\ pass' = [pass EXCEPT ![Worker] = Resting]
      /\ Put(me', Record("running"))
    BY DEF OpenSession, TakeResult
<1>2. /\ clock \in Nat /\ opened \in Nat /\ opened + 1 \in Nat
      /\ Record("running") \in SessionRecords
    BY DEF RetentionInv, RecordsTyped, Record, SessionRecords
<1>3. /\ Present' = Present \cup {me'} /\ records'[me'] = Record("running")
      /\ \A s \in Present : s # me' => records'[s] = records[s]
    BY <1>1 DEF Put, Present
<1>4. RecordsTyped'
  <2>1. Present' \subseteq 1..opened'
      BY <1>1, <1>2, <1>3 DEF RetentionInv, RecordsTyped
  <2>2. \A s \in Present' : records'[s] \in SessionRecords
      BY <1>2, <1>3 DEF RetentionInv, RecordsTyped
  <2> QED BY <1>1, <1>2, <2>1, <2>2 DEF RetentionInv, RecordsTyped
<1>5. InTime'
    BY <1>1 DEF RetentionInv, InTime, Underway
<1>6. Mine'
    BY <1>1, <1>3, <1>5 DEF Mine, Record, InTime, Underway
<1>7. ASSUME NEW a \in Passes PROVE PassInv(a)'
  <2>1. CASE a = Worker
    <3>1. pass'[a] = Resting
        BY <1>1, <2>1 DEF RetentionInv, RecordsTyped
    <3> QED BY <3>1, IdlePass
  <2>2. CASE a # Worker
    <3>1. pass'[a] = pass[a]
        BY <1>1, <2>2 DEF RetentionInv, RecordsTyped
    <3>2. RecordsMove
        BY <1>2, <1>3, Limits DEF RecordsMove, Record, Present
    <3>3. SessionMoves /\ opened' \in Nat /\ opened' >= opened
        BY <1>1, <1>2 DEF SessionMoves
    <3> QED BY <1>1, <3>1, <3>2, <3>3, OtherPass
  <2> QED BY <2>1, <2>2
<1> QED BY <1>4, <1>5, <1>6, <1>7 DEF RetentionInv

\* The last status of a session; the planner lets go of it.
LEMMA CloseKeeps == ASSUME RetentionInv, CloseSession PROVE RetentionInv'
<1>1. /\ phase = "closing" /\ phase' = "sweeping" /\ UNCHANGED <<clock, opened>>
      /\ pass' = [pass EXCEPT ![Worker] = Started(DOMAIN records')]
    BY DEF CloseSession
<1>2. /\ DOMAIN records' = Present
      /\ \A s \in Present :
             \/ records'[s] = records[s]
             \/ records'[s] \in SessionRecords /\ records'[s].updated = clock
  <2>1. CASE UNCHANGED records
      BY <2>1 DEF Present
  <2>2. CASE me \in Present /\ update_status(me, result)
    <3> DEFINE rec == [records[me] EXCEPT !.status = result, !.updated = clock]
    <3>1. rec \in SessionRecords /\ rec.updated = clock
        BY <1>1, <2>2 DEF RetentionInv, RecordsTyped, SessionRecords
    <3>2. Put(me, rec)
        BY <2>2 DEF update_status
    <3> HIDE DEF rec
    <3> QED BY <2>2, <3>1, <3>2 DEF Put, Present
  <2> QED BY <2>1, <2>2 DEF CloseSession
<1>3. RecordsTyped'
    BY <1>1, <1>2 DEF RetentionInv, RecordsTyped, Present
<1>4. InTime' /\ Mine' /\ ~Live'
    BY <1>1 DEF InTime, Mine, Underway, Live
<1>5. ASSUME NEW a \in Passes PROVE PassInv(a)'
  <2>1. CASE a = Worker
    <3>1. pass'[a] = [at |-> "visiting", now |-> clock', todo |-> DOMAIN records', seen |-> {}]
        BY <1>1, <2>1 DEF RetentionInv, RecordsTyped, Started
    <3> QED BY <1>3, <1>4, <3>1, NewPass
  <2>2. CASE a # Worker
    <3>1. pass'[a] = pass[a]
        BY <1>1, <2>2 DEF RetentionInv, RecordsTyped
    <3>2. clock \in Nat /\ opened' \in Nat /\ opened' >= opened
        BY <1>1 DEF RetentionInv, RecordsTyped
    <3>3. RecordsMove /\ SessionMoves
        BY <1>2, <1>4, <3>2, Limits DEF RecordsMove, SessionMoves, Present
    <3> QED BY <1>1, <3>1, <3>2, <3>3, OtherPass
  <2> QED BY <2>1, <2>2
<1> QED BY <1>3, <1>4, <1>5 DEF RetentionInv

\* A crash ends edit and passes; the records stay.
LEMMA CrashKeeps == ASSUME RetentionInv, Crash PROVE RetentionInv'
<1>1. /\ phase' = "idle" /\ UNCHANGED <<clock, records, opened>>
      /\ pass' = [a \in Passes |-> Resting]
    BY DEF Crash, NoEdit
<1>2. RecordsTyped' /\ InTime' /\ Mine'
    BY <1>1 DEF RetentionInv, RecordsTyped, InTime, Mine, Underway, Live, Present
<1>3. \A a \in Passes : PassInv(a)'
  <2> TAKE a \in Passes
  <2>1. pass'[a] = Resting
      BY <1>1
  <2> QED BY <2>1, IdlePass
<1> QED BY <1>2, <1>3 DEF RetentionInv

\* Time passes as long as neither the edit nor a pass has used up its own.
LEMMA TickKeeps == ASSUME RetentionInv, Tick PROVE RetentionInv'
<1>1. /\ clock' = clock + 1 /\ UNCHANGED <<records, pass, phase, me, opened, deadline, result>>
      /\ Underway => clock < deadline + SLACK
      /\ \A a \in Passes : AtWork(a) => clock < pass[a].now + PASS_TIME
    BY DEF Tick, planVars, Underway, AtWork
<1>2. clock \in Nat /\ clock + 1 \in Nat
    BY DEF RetentionInv, RecordsTyped
<1>3. RecordsTyped' /\ Mine'
    BY <1>1, <1>2 DEF RetentionInv, RecordsTyped, Mine, Present, Live
<1>4. InTime'
    BY <1>1, <1>2, Limits DEF RetentionInv, InTime, Underway
<1>5. ASSUME NEW a \in Passes PROVE PassInv(a)'
  <2>1. PassInv(a)
      BY DEF RetentionInv
  <2>2. PassTyped(a)' /\ Swept(a)' /\ Spared(a)'
      BY <1>1, <2>1 DEF PassInv, PassTyped, Swept, Spared, AtWork, Present, Live
  <2>3. PassSound(a)'
    <3>1. AtWork(a) => pass[a].now \in Nat
        BY <2>1 DEF PassInv, PassTyped, AtWork, Resting
    <3>2. AtWork(a) => pass[a].now <= clock + 1 /\ clock + 1 <= pass[a].now + PASS_TIME
        BY <1>1, <1>2, <2>1, <3>1, Limits DEF PassInv, PassSound
    <3> QED BY <1>1, <2>1, <3>2 DEF PassInv, PassSound, AtWork
  <2> QED BY <2>2, <2>3 DEF PassInv
<1> QED BY <1>3, <1>4, <1>5 DEF RetentionInv

----------------------------------------------------------------------------
\* What a pass makes of a record: nothing runs past its lease, a change has the time of
\* the pass, and who runs within the lease goes on.
LEMMA ReconciledRecord ==
    ASSUME NEW record \in SessionRecords, NEW now \in Nat
    PROVE  LET known == Reconciled(record, now)
           IN /\ known \in SessionRecords
              /\ ~LeaseIsOver(known, now)
              /\ known # record => known.updated = now
              /\ record.status = "running" /\ now <= record.updated + RUNNING_SESSION_LEASE =>
                     known.status = "running"
<1> DEFINE clamped == Clamped(record, now)
<1>1. /\ clamped \in SessionRecords /\ clamped.status = record.status
      /\ \/ clamped = record /\ record.updated <= now
         \/ clamped.updated = now /\ record.updated > now
    BY DEF Clamped, SessionRecords
<1>2. Reconciled(record, now) = IF LeaseIsOver(clamped, now)
                                THEN [clamped EXCEPT !.status = "failed", !.updated = now]
                                ELSE clamped
    BY DEF Reconciled
<1> HIDE DEF clamped
<1>3. CASE LeaseIsOver(clamped, now)
  <2> DEFINE known == [clamped EXCEPT !.status = "failed", !.updated = now]
  <2>1. known \in SessionRecords /\ known.status = "failed" /\ known.updated = now
      BY <1>1 DEF SessionRecords
  <2>2. ~LeaseIsOver(known, now)
      BY <2>1 DEF LeaseIsOver
  <2>3. clamped.updated \in Nat /\ record.updated \in Nat
      BY <1>1 DEF SessionRecords
  <2>4. ~(record.status = "running" /\ now <= record.updated + RUNNING_SESSION_LEASE)
      BY <1>1, <1>3, <2>3, Limits DEF LeaseIsOver
  <2> QED BY <1>2, <1>3, <2>1, <2>2, <2>4
<1>4. CASE ~LeaseIsOver(clamped, now)
    BY <1>1, <1>2, <1>4
<1> QED BY <1>3, <1>4

\* A pass works on one record after the other.
LEMMA OwnPass ==
    ASSUME RetentionInv, NEW a \in Passes, NEW next, pass' = [pass EXCEPT ![a] = next],
           UNCHANGED <<clock, opened, phase, me, deadline, result>>,
           RecordsTyped', Mine', RecordsMove, PassInv(a)'
    PROVE  RetentionInv'
<1>1. InTime'
    BY DEF RetentionInv, InTime, Underway
<1>2. ASSUME NEW b \in Passes, b # a PROVE PassInv(b)'
  <2>1. pass'[b] = pass[b] /\ opened' \in Nat /\ opened' >= opened
      BY <1>2 DEF RetentionInv, RecordsTyped
  <2>2. SessionMoves
      BY DEF SessionMoves, Live
  <2> QED BY <2>1, <2>2, OtherPass
<1> QED BY <1>1, <1>2 DEF RetentionInv

\* A pass that is visiting, with other lists.
LEMMA ListMoves ==
    ASSUME NEW visiting \in [at : {"visiting"}, now : Nat, todo : SUBSET (1..opened),
                             seen : SUBSET Entries],
           NEW todo, NEW seen
    PROVE  [visiting EXCEPT !.todo = todo, !.seen = seen]
           = [at |-> "visiting", now |-> visiting.now, todo |-> todo, seen |-> seen]
<1> DEFINE first == [visiting EXCEPT !.todo = todo]
<1>1. first = [at |-> "visiting", now |-> visiting.now, todo |-> todo, seen |-> visiting.seen]
    OBVIOUS
<1>2. [visiting EXCEPT !.todo = todo, !.seen = seen] = [first EXCEPT !.seen = seen]
    OBVIOUS
<1> HIDE DEF first
<1>3. [first EXCEPT !.seen = seen]
      = [at |-> "visiting", now |-> visiting.now, todo |-> todo, seen |-> seen]
    BY <1>1
<1> QED BY <1>2, <1>3

\* A record is read, and kept as it is or to be written back.
LEMMA VisitKeeps ==
    ASSUME RetentionInv, NEW a \in Passes, Visit(a),
           UNCHANGED <<phase, me, opened, deadline, result>>
    PROVE  RetentionInv'
<1>1. UNCHANGED <<clock, records>> /\ pass[a].at = "visiting"
    BY DEF Visit
<1>2. /\ clock \in Nat /\ opened \in Nat /\ a \in DOMAIN pass
      /\ PassInv(a) /\ InTime /\ Mine
      /\ \A s \in Present : s \in 1..opened /\ records[s] \in SessionRecords
    BY DEF RetentionInv, RecordsTyped
<1>3. pass[a] \in [at : {"visiting"}, now : Nat, todo : SUBSET (1..opened), seen : SUBSET Entries]
    BY <1>1, <1>2 DEF PassInv, PassTyped, Resting
<1>4. /\ pass[a].now \in Nat /\ pass[a].todo \subseteq 1..opened /\ pass[a].seen \subseteq Entries
      /\ pass[a].now <= clock /\ clock <= pass[a].now + PASS_TIME
      /\ IsFiniteSet(pass[a].seen) /\ \A e \in pass[a].seen : e.id \in 1..opened
      /\ \A s \in Present \ pass[a].todo : ~LeaseIsOver(records[s], pass[a].now)
    BY <1>1, <1>2, <1>3 DEF PassInv, PassSound, Swept, AtWork
<1>5. Live => /\ me \in pass[a].todo => pass[a].now + EDIT_TIMEOUT >= deadline
              /\ \A e \in pass[a].seen : e.id = me => e.running
    BY <1>1, <1>2 DEF PassInv, Spared, AtWork
<1>6. RecordsTyped' /\ Mine' /\ RecordsMove
    BY <1>1 DEF RetentionInv, RecordsTyped, Mine, RecordsMove, Present, Live, Visit
<1>7. PICK id \in pass[a].todo :
        \/ /\ id \notin Present
           /\ pass' = [pass EXCEPT ![a].todo = @ \ {id}]
        \/ /\ id \in Present
           /\ LET known == Reconciled(records[id], pass[a].now)
              IN \/ /\ known = records[id]
                    /\ pass' = [pass EXCEPT ![a].todo = @ \ {id},
                                            ![a].seen = @ \cup {Seen(id, known)}]
                 \/ /\ known # records[id]
                    /\ pass' = [pass EXCEPT ![a] =
                          [at |-> "writing", now |-> @.now, todo |-> @.todo, seen |-> @.seen,
                           id |-> id, record |-> known]]
    BY DEF Visit
<1>8. id \in 1..opened /\ id \in Nat
    BY <1>2, <1>4
<1>9. CASE id \notin Present
  <2> DEFINE next == [pass[a] EXCEPT !.todo = pass[a].todo \ {id}]
  <2>1. pass' = [pass EXCEPT ![a] = next]
      BY <1>7, <1>9
  <2>2. next = [at |-> "visiting", now |-> pass[a].now, todo |-> pass[a].todo \ {id},
                seen |-> pass[a].seen]
      BY <1>3
  <2> HIDE DEF next
  <2>3. pass'[a] = next
      BY <1>2, <2>1
  <2>4. PassTyped(a)' /\ PassSound(a)'
      BY <1>1, <1>4, <2>2, <2>3 DEF PassTyped, PassSound
  <2>5. Swept(a)' /\ Spared(a)'
      BY <1>1, <1>4, <1>5, <1>9, <2>2, <2>3 DEF Swept, Spared, Present, Live
  <2> QED BY <1>1, <1>6, <2>1, <2>4, <2>5, OwnPass DEF PassInv
<1>10. CASE id \in Present
  <2> DEFINE known == Reconciled(records[id], pass[a].now)
  <2>1. /\ known \in SessionRecords /\ ~LeaseIsOver(known, pass[a].now)
        /\ known # records[id] => known.updated = pass[a].now
        /\ records[id].status = "running"
               /\ pass[a].now <= records[id].updated + RUNNING_SESSION_LEASE =>
                    known.status = "running"
      BY <1>2, <1>4, <1>10, ReconciledRecord
  <2>2. Live /\ id = me => known.status = "running"
    <3> SUFFICES ASSUME Live, id = me PROVE known.status = "running"
        OBVIOUS
    <3> HIDE DEF known
    <3>1. /\ deadline \in Nat /\ clock <= deadline + SLACK
          /\ records[me].status = "running" /\ records[me].updated + EDIT_TIMEOUT >= deadline
          /\ records[me].updated \in Nat
        BY <1>2, LiveIsUnderway DEF InTime, Mine, SessionRecords
    <3>2. pass[a].now <= records[me].updated + RUNNING_SESSION_LEASE
        BY <1>2, <1>4, <3>1, Limits
    <3> QED BY <2>1, <3>1, <3>2
  <2>3. CASE known = records[id]
    <3> DEFINE entry == Seen(id, known)
               next == [pass[a] EXCEPT !.todo = pass[a].todo \ {id},
                                       !.seen = pass[a].seen \cup {entry}]
    <3>1. pass' = [pass EXCEPT ![a] = next]
        BY <1>7, <1>10, <2>3
    <3>2. next = [at |-> "visiting", now |-> pass[a].now, todo |-> pass[a].todo \ {id},
                  seen |-> pass[a].seen \cup {entry}]
      <4> HIDE DEF entry, known
      <4> QED BY <1>3, ListMoves
    <3>3. /\ entry \in Entries /\ entry.id = id
          /\ Live /\ id = me => entry.running
      <4> HIDE DEF known
      <4> QED BY <1>8, <2>1, <2>2 DEF Seen, Entries, SessionRecords
    <3>4. ~LeaseIsOver(records[id], pass[a].now)
        BY <2>1, <2>3
    <3> HIDE DEF next, entry, known
    <3>5. pass'[a] = next
        BY <1>2, <3>1
    <3>6. IsFiniteSet(pass[a].seen \cup {entry})
        BY <1>4, FS_AddElement
    <3>7. PassTyped(a)' /\ PassSound(a)'
        BY <1>1, <1>4, <1>8, <3>2, <3>3, <3>5, <3>6 DEF PassTyped, PassSound
    <3>8. Swept(a)' /\ Spared(a)'
        BY <1>1, <1>4, <1>5, <3>2, <3>3, <3>4, <3>5 DEF Swept, Spared, Present, Live
    <3> QED BY <1>1, <1>6, <3>1, <3>7, <3>8, OwnPass DEF PassInv
  <2>4. CASE known # records[id]
    <3> DEFINE next == [at |-> "writing", now |-> pass[a].now, todo |-> pass[a].todo,
                        seen |-> pass[a].seen, id |-> id, record |-> known]
    <3>1. pass' = [pass EXCEPT ![a] = next]
        BY <1>7, <1>10, <2>4
    <3>2. /\ next.at = "writing" /\ next.now = pass[a].now /\ next.todo = pass[a].todo
          /\ next.seen = pass[a].seen /\ next.id = id /\ next.record = known
          /\ next \in [at : {"writing"}, now : Nat, todo : SUBSET (1..opened),
                       seen : SUBSET Entries, id : Nat, record : SessionRecords]
      <4> HIDE DEF known
      <4> QED BY <1>4, <1>8, <2>1
    <3> HIDE DEF next, known
    <3>3. pass'[a] = next
        BY <1>2, <3>1
    <3>4. PassTyped(a)' /\ PassSound(a)'
        BY <1>1, <1>4, <2>1, <2>4, <3>2, <3>3 DEF PassTyped, PassSound
    <3>5. Swept(a)' /\ Spared(a)'
        BY <1>1, <1>4, <1>5, <2>2, <3>2, <3>3 DEF Swept, Spared, Present, Live
    <3> QED BY <1>1, <1>6, <3>1, <3>4, <3>5, OwnPass DEF PassInv
  <2> QED BY <2>3, <2>4
<1> QED BY <1>9, <1>10

\* A record is written back with the time of the pass, or its directory is gone.
LEMMA RewriteKeeps ==
    ASSUME RetentionInv, NEW a \in Passes, Rewrite(a),
           UNCHANGED <<phase, me, opened, deadline, result>>
    PROVE  RetentionInv'
<1> DEFINE id == pass[a].id
           rec == [pass[a].record EXCEPT !.audio = records[id].audio]
           entry == Seen(id, records'[id])
           next == [at |-> "visiting", now |-> pass[a].now, todo |-> pass[a].todo \ {id},
                    seen |-> pass[a].seen \cup {entry}]
<1>1. clock' = clock /\ pass[a].at = "writing"
    BY DEF Rewrite
<1>2. /\ clock \in Nat /\ opened \in Nat /\ a \in DOMAIN pass
      /\ PassInv(a) /\ InTime /\ Mine
      /\ \A s \in Present : s \in 1..opened /\ records[s] \in SessionRecords
    BY DEF RetentionInv, RecordsTyped
<1>3. pass[a] \in [at : {"writing"}, now : Nat, todo : SUBSET (1..opened),
                   seen : SUBSET Entries, id : Nat, record : SessionRecords]
    BY <1>1, <1>2 DEF PassInv, PassTyped, Resting
<1>4. /\ pass[a].now \in Nat /\ pass[a].todo \subseteq 1..opened /\ pass[a].seen \subseteq Entries
      /\ pass[a].record \in SessionRecords /\ pass[a].record.updated = pass[a].now
      /\ id \in pass[a].todo /\ id \in 1..opened /\ id \in Nat
      /\ pass[a].now <= clock /\ clock <= pass[a].now + PASS_TIME
      /\ IsFiniteSet(pass[a].seen) /\ \A e \in pass[a].seen : e.id \in 1..opened
      /\ \A s \in Present \ pass[a].todo : ~LeaseIsOver(records[s], pass[a].now)
    BY <1>1, <1>2, <1>3 DEF PassInv, PassSound, Swept, AtWork
<1>5. Live => /\ me \in pass[a].todo => pass[a].now + EDIT_TIMEOUT >= deadline
              /\ \A e \in pass[a].seen : e.id = me => e.running
              /\ id = me => pass[a].record.status = "running"
    BY <1>1, <1>2 DEF PassInv, Spared, AtWork
<1>6. CASE id \in Present
  <2>1. Put(id, rec) /\ pass' = [pass EXCEPT ![a] = next]
      BY <1>6 DEF Rewrite
  <2>2. /\ rec \in SessionRecords /\ rec.updated = pass[a].now
        /\ Live /\ id = me => rec.status = "running"
      BY <1>2, <1>4, <1>5, <1>6 DEF SessionRecords
  <2> HIDE DEF rec, next
  <2>3. /\ Present' = Present /\ records'[id] = rec
        /\ \A s \in Present : s # id => records'[s] = records[s]
      BY <1>6, <2>1 DEF Put, Present
  <2>4. pass'[a] = next /\ DOMAIN pass' = DOMAIN pass
      BY <1>2, <2>1
  <2>5. RecordsTyped'
      BY <1>1, <2>2, <2>3, <2>4 DEF RetentionInv, RecordsTyped
  <2>6. Mine'
    <3> SUFFICES ASSUME Live PROVE Mine'
        BY DEF Mine, Live
    <3>1. CASE id = me
        BY <1>4, <1>5, <1>6, <2>2, <2>3, <3>1 DEF Mine
    <3>2. CASE id # me
        BY <1>2, <2>3, <3>2 DEF Mine
    <3> QED BY <3>1, <3>2
  <2>7. RecordsMove
    <3>1. rec.updated \in Nat /\ rec.updated + RUNNING_SESSION_LEASE >= clock
        BY <1>2, <1>4, <2>2, Limits
    <3> QED BY <2>3, <3>1 DEF RecordsMove, Present
  <2>8. /\ entry \in Entries /\ entry.id = id
        /\ Live /\ id = me => entry.running
      BY <1>4, <2>2, <2>3 DEF Seen, Entries, SessionRecords
  <2>9. ~LeaseIsOver(records'[id], pass[a].now)
      BY <1>4, <2>2, <2>3, Limits DEF LeaseIsOver
  <2> HIDE DEF entry
  <2>10. IsFiniteSet(pass[a].seen \cup {entry})
      BY <1>4, FS_AddElement
  <2>11. /\ next.at = "visiting" /\ next.now = pass[a].now /\ next.todo = pass[a].todo \ {id}
         /\ next.seen = pass[a].seen \cup {entry}
         /\ next \in [at : {"visiting"}, now : Nat, todo : SUBSET (1..opened),
                      seen : SUBSET Entries]
      BY <1>4, <2>8 DEF next
  <2>12. PassTyped(a)' /\ PassSound(a)'
      BY <1>1, <1>4, <2>4, <2>8, <2>10, <2>11 DEF PassTyped, PassSound
  <2>13. Swept(a)' /\ Spared(a)'
    <3>1. ASSUME NEW s \in Present' \ next.todo PROVE ~LeaseIsOver(records'[s], pass[a].now)
        BY <1>4, <2>3, <2>9, <2>11, <3>1
    <3> QED BY <1>5, <2>4, <2>8, <2>11, <3>1 DEF Swept, Spared, Live
  <2> QED BY <1>1, <2>1, <2>5, <2>6, <2>7, <2>12, <2>13, OwnPass DEF PassInv
<1>7. CASE id \notin Present
  <2>1. pass' = [pass EXCEPT ![a] = [at |-> "failed"]] /\ UNCHANGED records
      BY <1>7 DEF Rewrite, Fails
  <2>2. RecordsTyped' /\ Mine' /\ RecordsMove
      BY <1>1, <2>1 DEF RetentionInv, RecordsTyped, Mine, RecordsMove, Present, Live
  <2>3. pass'[a] = [at |-> "failed"]
      BY <1>2, <2>1
  <2>4. PassInv(a)'
      BY <2>3, IdlePass
  <2> QED BY <1>1, <2>1, <2>2, <2>4, OwnPass
<1> QED BY <1>6, <1>7

\* What pruning does to the records: some go, but none that was seen running only,
\* and the others keep their status and time.
LEMMA PrunedRecords ==
    ASSUME RetentionInv, NEW a \in Passes, Prune(a)
    PROVE  /\ DOMAIN records' \subseteq Present
           /\ \A s \in DOMAIN records' :
                  /\ records'[s].status = records[s].status
                  /\ records'[s].updated = records[s].updated
                  /\ records'[s] \in SessionRecords
           /\ \A s \in Present :
                  (\A e \in pass[a].seen : e.id = s => e.running) => s \in DOMAIN records'
<1> DEFINE seen == pass[a].seen
           now == pass[a].now
<1>1. PICK order \in Orders(seen) :
        LET silent == {s.id : s \in seen \ Silenced(seen, order, now)}
            gone == {s.id : s \in seen} \ {s.id : s \in Pruned(seen, order, now)}
        IN records' = [s \in Present \ gone |->
                          IF s \in silent THEN [records[s] EXCEPT !.audio = FALSE] ELSE records[s]]
    BY DEF Prune
<1> DEFINE silent == {s.id : s \in seen \ Silenced(seen, order, now)}
           gone == {s.id : s \in seen} \ {s.id : s \in Pruned(seen, order, now)}
<1>2. IsFiniteSet(seen)
    BY DEF RetentionInv, PassInv, PassSound, AtWork, Prune
<1>3. \A s : (\A e \in seen : e.id = s => e.running) => s \notin gone
  <2> TAKE s
  <2> HIDE DEF seen, now
  <2> QED BY <1>2, PruningSparesRunning
<1>4. \A s \in Present : records[s] \in SessionRecords
    BY DEF RetentionInv, RecordsTyped
<1> HIDE DEF silent, gone, seen
<1>5. records' = [s \in Present \ gone |->
                     IF s \in silent THEN [records[s] EXCEPT !.audio = FALSE] ELSE records[s]]
    BY <1>1 DEF silent, gone, seen
<1>6. \A r \in SessionRecords :
          LET quiet == [r EXCEPT !.audio = FALSE]
          IN quiet \in SessionRecords /\ quiet.status = r.status /\ quiet.updated = r.updated
    BY DEF SessionRecords
<1> QED BY <1>3, <1>4, <1>5, <1>6 DEF seen

\* Pruning ends a pass.
LEMMA PruneKeeps ==
    ASSUME RetentionInv, NEW a \in Passes, Prune(a),
           UNCHANGED <<phase, me, opened, deadline, result>>
    PROVE  RetentionInv'
<1>1. /\ clock' = clock /\ pass' = [pass EXCEPT ![a] = [at |-> "ended"]]
      /\ pass[a].at = "visiting"
    BY DEF Prune
<1>2. a \in DOMAIN pass /\ PassInv(a)
    BY DEF RetentionInv, RecordsTyped
<1>3. RecordsTyped'
    BY <1>1, PrunedRecords DEF RetentionInv, RecordsTyped, Present
<1>4. RecordsMove
    BY PrunedRecords DEF RecordsMove
<1>5. Mine'
  <2> SUFFICES ASSUME Live PROVE Mine'
      BY DEF Mine, Live
  <2>1. \A e \in pass[a].seen : e.id = me => e.running
      BY <1>1, <1>2 DEF PassInv, Spared, AtWork
  <2>2. me \in DOMAIN records'
      BY <2>1, PrunedRecords DEF RetentionInv, Mine
  <2> QED BY <2>2, PrunedRecords DEF RetentionInv, Mine, Present
<1>6. PassInv(a)'
  <2>1. pass'[a] = [at |-> "ended"]
      BY <1>1, <1>2
  <2> QED BY <2>1, IdlePass
<1> QED BY <1>1, <1>3, <1>4, <1>5, <1>6, OwnPass

----------------------------------------------------------------------------
\* Every step keeps what retention relies on.
LEMMA StepKeepsRetention == ASSUME RetentionInv, [Next]_vars PROVE RetentionInv'
<1>1. CASE UNCHANGED vars
    BY <1>1, QuietKeeps DEF vars, planVars, Live, Underway, RetentionInv, RecordsTyped
<1>2. ASSUME NEW a \in Passes, Sweep(a) PROVE RetentionInv'
  <2>1. UNCHANGED <<phase, me, opened, deadline, result>> /\ (Visit(a) \/ Rewrite(a) \/ Prune(a))
      BY <1>2 DEF Sweep, planVars, PassStep
  <2> QED BY <2>1, VisitKeeps, RewriteKeeps, PruneKeeps
<1>3. CASE StartEdit \/ Interrupt \/ Crash \/ View \/ Viewed \/ Tick
    BY <1>3, PassBoundsKeep, PlannerKeeps, CrashKeeps, TickKeeps
<1>4. CASE Planner
  <2>1. CASE RenderStops
      BY <2>1, PlannerKeeps DEF RenderStops
  <2> QED BY <1>4, <2>1, PassBoundsKeep, OpenKeeps, PlannerKeeps, CloseKeeps DEF Planner
<1>5. CASE Gemini \/ RenderEnds \/ RenderFails
    BY <1>5, PlannerKeeps DEF Gemini
<1> QED BY <1>1, <1>2, <1>3, <1>4, <1>5 DEF Next

\* It holds of what earlier runs of the server leave.
LEMMA InitRetention == Init => RetentionInv
<1> SUFFICES ASSUME Init PROVE RetentionInv
    OBVIOUS
<1>1. /\ records \in Seq(SessionRecords) /\ opened = Cardinality(Present)
      /\ clock = 0 /\ phase = "idle" /\ pass = [a \in Passes |-> Resting]
    BY FirstRecordsAssumption DEF Init
<1>2. /\ Present = 1..Len(records) /\ Len(records) \in Nat
      /\ \A s \in Present : records[s] \in SessionRecords
    BY <1>1 DEF Present
<1>3. opened = Len(records)
  <2>1. \A n \in Nat : Cardinality(1..n) = n
      BY FS_Interval
  <2> QED BY <1>1, <1>2, <2>1
<1>4. RecordsTyped
    BY <1>1, <1>2, <1>3 DEF RecordsTyped
<1>5. InTime /\ Mine
    BY <1>1 DEF InTime, Mine, Underway, Live
<1>6. ASSUME NEW a \in Passes PROVE PassInv(a)
  <2>1. pass[a] = Resting /\ ~AtWork(a) /\ pass[a].at # "writing"
      BY <1>1 DEF Resting, AtWork
  <2> QED BY <2>1 DEF PassInv, PassTyped, PassSound, Swept, Spared
<1> QED BY <1>4, <1>5, <1>6 DEF RetentionInv

\* Passes and planners keep out of each other's way.
THEOREM RetentionIsSound == Spec => []RetentionInv
<1>1. RetentionInv /\ [Next]_vars => RetentionInv'
    BY StepKeepsRetention
<1> QED BY <1>1, InitRetention, PTL DEF Spec

\* However passes come in between, and however late the edit is, a planner at work
\* keeps a record that says so (apply_session_retention, RUNNING_SESSION_LEASE).
THEOREM LiveSessionsKeepTheirRecords == Spec => []LiveSessionKeepsItsRecord
<1>1. RetentionInv => LiveSessionKeepsItsRecord
    BY DEF RetentionInv, Mine, LiveSessionKeepsItsRecord
<1> QED BY <1>1, RetentionIsSound, PTL

\* Only pruning ends a pass without a failure.
LEMMA OnlyPruningEnds ==
    ASSUME RetentionInv, [Next]_vars, NEW a \in Passes, pass[a].at = "visiting", pass'[a].at = "ended"
    PROVE  Prune(a)
<1>1. DOMAIN pass = Passes /\ pass[a].at # "ended" /\ pass[a] # Resting
    BY DEF RetentionInv, RecordsTyped, Resting
<1>2. ASSUME NEW b \in Passes, NEW next, pass' = [pass EXCEPT ![b] = next], next.at # "ended"
      PROVE  FALSE
    BY <1>1, <1>2
<1>3. pass' # pass
    BY <1>1
<1>4. ASSUME NEW b \in Passes, Visit(b) PROVE FALSE
  <2>1. \A c \in Passes : c # b => pass'[c] = pass[c]
      BY <1>1, <1>4 DEF Visit
  <2>2. pass[b] \in [at : {"visiting"}, now : Nat, todo : SUBSET (1..opened),
                     seen : SUBSET Entries]
      BY <1>4 DEF Visit, RetentionInv, PassInv, PassTyped, Resting
  <2>3. \E id \in pass[b].todo : \E todo, seen, record :
          \/ pass' = [pass EXCEPT ![b].todo = todo]
          \/ pass' = [pass EXCEPT ![b].todo = todo, ![b].seen = seen]
          \/ pass' = [pass EXCEPT ![b] = [at |-> "writing", now |-> @.now, todo |-> @.todo,
                                         seen |-> @.seen, id |-> id, record |-> record]]
      BY <1>4 DEF Visit
  <2>4. pass'[b].at # "ended"
      BY <1>1, <2>2, <2>3
  <2> QED BY <1>1, <2>1, <2>4
<1>5. ASSUME NEW b \in Passes, Rewrite(b) PROVE FALSE
    BY <1>2, <1>5 DEF Rewrite, Fails
<1>6. ASSUME NEW b \in Passes, Prune(b), b # a PROVE FALSE
    BY <1>1, <1>6 DEF Prune
<1>7. ASSUME TakeResult(Worker) \/ TakeResult(Viewer) PROVE FALSE
    BY <1>2, <1>7, PassesOfPlanner DEF TakeResult, Resting
<1>8. ASSUME BeginPass(Worker) \/ BeginPass(Viewer) PROVE FALSE
    BY <1>2, <1>8, PassesOfPlanner DEF BeginPass, Started
<1>9. ~UNCHANGED vars /\ ~UNCHANGED sessionVars
    BY <1>3 DEF vars, sessionVars
<1>10. CASE StartEdit \/ View \/ Viewed \/ Interrupt \/ Tick
    BY <1>3, <1>7, <1>8, <1>9, <1>10 DEF StartEdit, View, Viewed, Interrupt, Tick
<1>11. CASE Crash
    BY <1>11 DEF Crash, Resting
<1>12. CASE CloseSession
    BY <1>2, <1>12, PassesOfPlanner DEF CloseSession, Started
<1>13. CASE OpenSession \/ OpenFails \/ Finish
    BY <1>7, <1>13 DEF OpenSession, OpenFails, Finish
<1>14. CASE Turn \/ CallEnds \/ Wait \/ Gemini
    BY <1>9, <1>14 DEF Turn, CallEnds, Wait, Gemini, Fail, Unavailable, AnswerDone, AnswerCall,
                      CutOff, Return
<1>15. CASE Tool \/ RenderStops \/ RenderEnds \/ RenderFails
    BY <1>3, <1>9, <1>15
       DEF Tool, RenderStops, RenderEnds, RenderFails, LoadToolGroup, OtherCall, Mutate,
           CommitRefused, StartRender, Continue, Return
<1>16. CASE \E b \in Passes : Sweep(b)
    BY <1>4, <1>5, <1>6, <1>16 DEF Sweep, PassStep
<1> QED BY <1>9, <1>10, <1>11, <1>12, <1>13, <1>14, <1>15, <1>16 DEF Next, Planner

\* A pass that comes to its end leaves no session that runs past its lease, whatever
\* workers, crashes and other passes did meanwhile (apply_session_retention_with).
THEOREM PassesCloseTheAbandoned == Spec => PassClosesTheAbandoned
<1>1. ASSUME RetentionInv, [Next]_vars, NEW a \in Passes,
             pass[a].at = "visiting", pass'[a].at = "ended",
             NEW s \in DOMAIN records'
      PROVE  ~LeaseIsOver(records'[s], pass[a].now)
  <2>1. Prune(a)
      BY <1>1, OnlyPruningEnds
  <2>2. s \in Present /\ records'[s].status = records[s].status
        /\ records'[s].updated = records[s].updated
      BY <1>1, <2>1, PrunedRecords
  <2>3. ~LeaseIsOver(records[s], pass[a].now)
      BY <1>1, <2>1, <2>2 DEF Prune, RetentionInv, PassInv, Swept, AtWork
  <2> QED BY <2>2, <2>3 DEF LeaseIsOver
<1>2. RetentionInv /\ [Next]_vars =>
          [\A a \in Passes : pass[a].at = "visiting" /\ pass'[a].at = "ended" =>
               \A s \in DOMAIN records' : ~LeaseIsOver(records'[s], pass[a].now)]_vars
    BY <1>1
<1> QED BY <1>2, RetentionIsSound, PTL DEF Spec, PassClosesTheAbandoned
----------------------------------------------------------------------------
(* Sounds go before sessions.  Pruning takes the sounds of every closed     *)
(* session as long as the sessions are too big together, so when it still   *)
(* finds them too big afterwards, no sounds are left.  What it goes by is   *)
(* what the pass saw: a closed session that was seen is not heard of again, *)
(* for its worker is gone and no other pass has a change of it in hand.     *)

\* The order of pruning lists each session that was seen once.
LEMMA OrderListsEach ==
    ASSUME NEW seen, IsFiniteSet(seen), NEW order \in Orders(seen), NEW n \in Nat,
           DOMAIN order = 1..n
    PROVE  /\ \A i, j \in 1..n : i # j => order[i] # order[j]
           /\ \A s \in seen : \E j \in 1..n : order[j] = s
<1>1. Cardinality(seen) \in Nat
    BY FS_CardinalityType
<1>2. /\ order \in [1..Cardinality(seen) -> seen]
      /\ \A i, j \in 1..Cardinality(seen) : i # j => order[i] # order[j]
    BY DEF Orders, SetToSeqs
<1>3. 1..n = 1..Cardinality(seen)
    BY <1>2
<1>4. order \in Injection(1..n, seen)
    BY <1>2, <1>3 DEF Injection, IsInjective
<1>5. IsFiniteSet(1..n) /\ Cardinality(1..n) = Cardinality(seen)
    BY <1>1, <1>3, FS_Interval
<1>6. order \in Surjection(1..n, seen)
    BY <1>4, <1>5, FS_Injection
<1> QED BY <1>2, <1>3, <1>6 DEF Surjection

\* Sizes are numbers, and taking the sounds of a session makes none of them bigger.
LEMMA TakingSounds ==
    ASSUME NEW left, IsFiniteSet(left), NEW s \in left, s \in Entries, NEW next,
           next = (left \ {s}) \cup {[s EXCEPT !.audio = FALSE]}
    PROVE  /\ IsFiniteSet(next) /\ Cardinality(next) <= Cardinality(left)
           /\ Bytes(next) <= Bytes(left) /\ Bytes(left) \in Nat /\ Bytes(next) \in Nat
           /\ Cardinality(left) \in Nat /\ Cardinality(next) \in Nat
<1> DEFINE quiet == [s EXCEPT !.audio = FALSE]
           rest == left \ {s}
           loud(set) == {x \in set : x.audio}
<1>1. quiet.audio = FALSE
    BY DEF Entries
<1>2. IsFiniteSet(rest) /\ Cardinality(rest) = Cardinality(left) - 1 /\ Cardinality(left) \in Nat
    BY FS_RemoveElement, FS_CardinalityType
<1> HIDE DEF rest, quiet
<1>3. next = rest \cup {quiet}
    BY DEF rest, quiet
<1>4. IsFiniteSet(next) /\ Cardinality(next) <= Cardinality(rest) + 1
  <2>1. Cardinality(rest) \in Nat
      BY <1>2, FS_CardinalityType
  <2>2. /\ IsFiniteSet(rest \cup {quiet})
        /\ Cardinality(rest \cup {quiet})
           = IF quiet \in rest THEN Cardinality(rest) ELSE Cardinality(rest) + 1
      BY <1>2, FS_AddElement
  <2> QED BY <1>3, <2>1, <2>2
<1>5. loud(next) \in SUBSET loud(left) /\ loud(left) \in SUBSET left
    BY <1>1, <1>3 DEF rest
<1>6. IsFiniteSet(loud(left)) /\ IsFiniteSet(loud(next)) /\ Cardinality(loud(next)) <= Cardinality(loud(left))
    BY <1>5, FS_Subset
<1>7. /\ Cardinality(next) \in Nat /\ Cardinality(loud(left)) \in Nat
      /\ Cardinality(loud(next)) \in Nat
    BY <1>4, <1>6, FS_CardinalityType
<1>8. /\ Bytes(left) = Cardinality(left) + Cardinality(loud(left))
      /\ Bytes(next) = Cardinality(next) + Cardinality(loud(next))
    BY DEF Bytes
<1> HIDE DEF loud
<1> QED BY <1>2, <1>4, <1>6, <1>7, <1>8

\* What the first part of pruning leaves of the sessions seen: one entry or more for
\* each, no more than there were, and when they are still too big, no sounds of those
\* that are closed.
SoundsGone(seen, left) ==
    /\ IsFiniteSet(left) /\ Cardinality(left) <= Cardinality(seen)
    /\ \A s \in seen : \E kept \in left : kept.id = s.id
    /\ Bytes(left) > MAXIMUM_BYTES => \A s \in seen : ~s.running /\ s.audio => s \notin left

LEMMA SilencingTakesSounds ==
    ASSUME NEW seen \in SUBSET Entries, IsFiniteSet(seen), NEW order \in Orders(seen), NEW now
    PROVE  SoundsGone(seen, Silenced(seen, order, now))
<1> DEFINE A == SUBSET Left(seen)
           Goes(left, s) == ~s.running /\ (Expired(s, now) \/ Bytes(left) > MAXIMUM_BYTES)
           Step(left, s) ==
               IF Goes(left, s) THEN (left \ {s}) \cup {[s EXCEPT !.audio = FALSE]} ELSE left
           F == [p \in A \X seen |-> Step(p[1], p[2])]
<1>1. PICK n \in Nat : order \in [1..n -> seen] /\ DOMAIN order = 1..n
    BY OrderListsSeen
<1> DEFINE Next0(h) == [t \in SUBSET (1..n) |->
                           IF t = {} THEN seen ELSE Step(h[t \ {Max(t)}], order[Max(t)])]
           iter == CHOOSE h : h = Next0(h)
           Good(left, k) ==
               /\ IsFiniteSet(left) /\ Cardinality(left) <= Cardinality(seen)
               /\ \A s \in seen : \E kept \in left : kept.id = s.id
               /\ \A j \in 1..n : j > k => order[j] \in left
               /\ Bytes(left) > MAXIMUM_BYTES =>
                      \A j \in 1..n : j <= k /\ ~order[j].running /\ order[j].audio =>
                          order[j] \notin left
           J == [k \in 0..n |-> {left \in A : Good(left, k)}]
<1>2. Silenced(seen, order, now) = iter[1..n]
    BY <1>1 DEF Silenced, FoldLeft, MapThenFoldSet
<1>3. \A left \in A, s \in seen : Step(left, s) \in A
    BY DEF Left
<1>4. seen \in A
    BY DEF Left
<1>5. F \in [A \X seen -> A] /\ \A left \in A, s \in seen : F[<<left, s>>] = Step(left, s)
  <2> HIDE DEF Step, A
  <2> QED BY <1>3
<1> HIDE DEF F, Step, A
<1>6. PICK h : TypedFolding(h, F, seen, order, n, A, seen)
    BY <1>1, <1>4, <1>5, TypedFoldExists
<1>7. h = Next0(h)
    BY <1>5, <1>6 DEF Folding, TypedFolding
<1>8. iter = Next0(iter)
    BY <1>7
<1> HIDE DEF iter, J
<1>9. /\ \A i, j \in 1..n : i # j => order[i] # order[j]
      /\ \A s \in seen : \E j \in 1..n : order[j] = s
    BY <1>1, OrderListsEach
<1>10. Cardinality(seen) \in Nat /\ MAXIMUM_BYTES \in Nat
    BY FS_CardinalityType, SessionsAssumption
<1>11. iter[{}] \in J[0]
  <2>1. iter[{}] = seen
      BY <1>8
  <2>2. Good(seen, 0)
      BY <1>1, <1>10
  <2> QED BY <1>4, <2>1, <2>2 DEF J
<1>12. ASSUME NEW k \in 1..n, iter[(1..k) \ {k}] \in J[k - 1] PROVE iter[1..k] \in J[k]
  <2> DEFINE left == iter[(1..k) \ {k}]
             s == order[k]
             next == Step(left, s)
  <2>1. iter[1..k] = next
      BY <1>8, MaxOfInterval
  <2>2. /\ left \in A /\ Good(left, k - 1) /\ k - 1 \in 0..n /\ k \in 0..n
    <3>1. k - 1 \in 0..n /\ k \in 0..n /\ left \in J[k - 1]
        BY <1>12
    <3> HIDE DEF left, Good
    <3> QED BY <3>1 DEF J
  <2>3. s \in seen /\ s \in left /\ s \in Entries
    <3> HIDE DEF left
    <3>1. \A j \in 1..n : j > k - 1 => order[j] \in left
        BY <2>2
    <3>2. k > k - 1
        OBVIOUS
    <3> QED BY <1>1, <3>1, <3>2
  <2>4. next \in A
      BY <1>3, <2>2, <2>3
  <2> HIDE DEF left, next
  <2>5. CASE Goes(left, s)
    <3> DEFINE quiet == [s EXCEPT !.audio = FALSE]
    <3>1. quiet.id = s.id /\ quiet.audio = FALSE
        BY <2>3 DEF Entries
    <3>2. next = (left \ {s}) \cup {quiet}
        BY <2>5 DEF next, Step
    <3>3. /\ IsFiniteSet(next) /\ Cardinality(next) <= Cardinality(left)
          /\ Bytes(next) <= Bytes(left) /\ Bytes(left) \in Nat /\ Bytes(next) \in Nat
          /\ Cardinality(left) \in Nat /\ Cardinality(next) \in Nat
      <4> HIDE DEF s
      <4>1. IsFiniteSet(left)
          BY <2>2
      <4> QED BY <2>3, <3>2, <4>1, TakingSounds DEF quiet
    <3> HIDE DEF quiet
    <3>4. Cardinality(next) <= Cardinality(seen)
        BY <1>10, <2>2, <3>3
    <3>5. \A x \in seen : \E kept \in next : kept.id = x.id
        BY <2>2, <3>1, <3>2
    <3>6. \A j \in 1..n : j > k => order[j] \in next
        BY <1>9, <2>2, <3>2
    <3>7. ASSUME Bytes(next) > MAXIMUM_BYTES,
                 NEW j \in 1..n, j <= k, ~order[j].running, order[j].audio
          PROVE  order[j] \notin next
      <4>1. order[j] # quiet
          BY <3>1, <3>7
      <4>2. Bytes(left) > MAXIMUM_BYTES
          BY <1>10, <3>3, <3>7
      <4>3. j = k \/ j <= k - 1
          BY <3>7
      <4> QED BY <2>2, <3>2, <3>7, <4>1, <4>2, <4>3
    <3>8. Good(next, k)
        BY <3>3, <3>4, <3>5, <3>6, <3>7
    <3> QED BY <2>1, <2>2, <2>4, <3>8 DEF J
  <2>6. CASE ~Goes(left, s)
    <3>1. next = left
        BY <2>6 DEF next, Step
    <3>2. \A j \in 1..n : j > k => order[j] \in left
        BY <2>2
    <3>3. ASSUME Bytes(left) > MAXIMUM_BYTES,
                 NEW j \in 1..n, j <= k, ~order[j].running, order[j].audio
          PROVE  order[j] \notin left
      <4>1. j # k
          BY <2>6, <3>3
      <4>2. j <= k - 1
          BY <3>3, <4>1
      <4> QED BY <2>2, <3>3, <4>2
    <3>4. Good(left, k)
        BY <2>2, <3>2, <3>3
    <3> QED BY <2>1, <2>2, <3>1, <3>4 DEF J
  <2> QED BY <2>5, <2>6
<1>13. iter[1..n] \in J[n]
    BY <1>11, <1>12, FoldKeepsAlong
<1>14. Good(iter[1..n], n)
    BY <1>13 DEF J
<1> QED BY <1>2, <1>9, <1>14 DEF SoundsGone
\* Fewer sessions are not bigger.
LEMMA FewerAreSmaller ==
    ASSUME NEW base, IsFiniteSet(base), NEW left \in SUBSET base
    PROVE  /\ Cardinality(left) <= Cardinality(base) /\ Bytes(left) <= Bytes(base)
           /\ {Cardinality(left), Cardinality(base), Bytes(left), Bytes(base)} \subseteq Nat
<1> DEFINE loud(set) == {x \in set : x.audio}
<1>1. loud(left) \in SUBSET loud(base) /\ loud(base) \in SUBSET base
    OBVIOUS
<1>2. /\ IsFiniteSet(left) /\ Cardinality(left) <= Cardinality(base)
      /\ IsFiniteSet(loud(base))
    BY <1>1, FS_Subset
<1>3. IsFiniteSet(loud(left)) /\ Cardinality(loud(left)) <= Cardinality(loud(base))
    BY <1>1, <1>2, FS_Subset
<1>4. /\ Cardinality(left) \in Nat /\ Cardinality(base) \in Nat
      /\ Cardinality(loud(left)) \in Nat /\ Cardinality(loud(base)) \in Nat
    BY <1>2, <1>3, FS_CardinalityType
<1>5. /\ Bytes(left) = Cardinality(left) + Cardinality(loud(left))
      /\ Bytes(base) = Cardinality(base) + Cardinality(loud(base))
    BY DEF Bytes
<1> HIDE DEF loud
<1> QED BY <1>2, <1>3, <1>4, <1>5

\* A session goes only when it was seen closed, and is too old, or the sessions are too
\* many or too big.
LEMMA RetainingGivesUp ==
    ASSUME NEW seen, IsFiniteSet(seen), NEW order \in Orders(seen), NEW now,
           NEW base, IsFiniteSet(base), NEW id, \E kept \in base : kept.id = id,
           \A kept \in Retained(base, order, now) : kept.id # id
    PROVE  \E e \in seen : /\ e.id = id /\ ~e.running
                           /\ \/ Expired(e, now) \/ Cardinality(base) > MAXIMUM_COUNT
                              \/ Bytes(base) > MAXIMUM_BYTES
<1> DEFINE A == SUBSET base
           Goes(left, s) == ~s.running /\ (\/ Expired(s, now) \/ Cardinality(left) > MAXIMUM_COUNT
                                           \/ Bytes(left) > MAXIMUM_BYTES)
           Step(left, s) == IF Goes(left, s) THEN {kept \in left : kept.id # s.id} ELSE left
           F == [p \in A \X seen |-> Step(p[1], p[2])]
           Why == \E e \in seen : /\ e.id = id /\ ~e.running
                                  /\ \/ Expired(e, now) \/ Cardinality(base) > MAXIMUM_COUNT
                                     \/ Bytes(base) > MAXIMUM_BYTES
           J == {left \in A : Why \/ \E kept \in left : kept.id = id}
<1>1. PICK n \in Nat : order \in [1..n -> seen] /\ DOMAIN order = 1..n
    BY OrderListsSeen
<1> DEFINE Next0(h) == [t \in SUBSET (1..n) |->
                           IF t = {} THEN base ELSE Step(h[t \ {Max(t)}], order[Max(t)])]
           iter == CHOOSE h : h = Next0(h)
<1>2. Retained(base, order, now) = iter[1..n]
    BY <1>1 DEF Retained, FoldLeft, MapThenFoldSet
<1>3. \A left \in A, s \in seen : Step(left, s) \in A
    OBVIOUS
<1>4. base \in A /\ base \in J
    OBVIOUS
<1>5. F \in [A \X seen -> A] /\ \A left \in A, s \in seen : F[<<left, s>>] = Step(left, s)
  <2> HIDE DEF Step, A
  <2> QED BY <1>3
<1>6. \A left \in J, s \in seen : Step(left, s) \in J
  <2> SUFFICES ASSUME NEW left \in J, NEW s \in seen, Goes(left, s), ~Why,
                      \A kept \in left : kept.id = id => kept.id = s.id
               PROVE  FALSE
    <3> HIDE DEF Goes, Why
    <3> QED BY DEF Step, J, A
  <2>1. s.id = id
    <3> HIDE DEF Why
    <3> QED BY DEF J
  <2>2. left \in SUBSET base
      BY DEF J, A
  <2>3. /\ Cardinality(left) <= Cardinality(base) /\ Bytes(left) <= Bytes(base)
        /\ {Cardinality(left), Cardinality(base), Bytes(left), Bytes(base)} \subseteq Nat
    <3> HIDE DEF J
    <3> QED BY <2>2, FewerAreSmaller
  <2>4. \/ Expired(s, now) \/ Cardinality(base) > MAXIMUM_COUNT \/ Bytes(base) > MAXIMUM_BYTES
    <3> HIDE DEF J, Why
    <3> QED BY <2>3, SessionsAssumption
  <2> QED BY <2>1, <2>4
<1> HIDE DEF F, Step, A, J, Why
<1>7. PICK h : TypedFolding(h, F, base, order, n, A, seen)
    BY <1>1, <1>4, <1>5, TypedFoldExists
<1>8. h = Next0(h)
    BY <1>5, <1>7 DEF Folding, TypedFolding
<1>9. iter = Next0(iter)
    BY <1>8
<1> HIDE DEF iter
<1>10. iter[{}] \in J
    BY <1>4, <1>9
<1>11. ASSUME NEW k \in 1..n, iter[(1..k) \ {k}] \in J PROVE iter[1..k] \in J
  <2>1. iter[1..k] = Step(iter[(1..k) \ {k}], order[k])
      BY <1>9, MaxOfInterval
  <2>2. order[k] \in seen
      BY <1>1
  <2> QED BY <1>6, <1>11, <2>1, <2>2
<1>12. iter[1..n] \in J
    BY <1>10, <1>11, FoldKeeps
<1>13. Why
    BY <1>2, <1>12 DEF J
<1> QED BY <1>13 DEF Why

\* Why pruning takes a session: it was seen closed, and is too old, there are too many,
\* or pruning took the sounds of all that are closed, and it was not enough.
LEMMA PruningGivesUp ==
    ASSUME NEW seen \in SUBSET Entries, IsFiniteSet(seen), NEW order \in Orders(seen), NEW now,
           NEW id \in {s.id : s \in seen} \ {s.id : s \in Pruned(seen, order, now)}
    PROVE  \E e \in seen :
               /\ e.id = id /\ ~e.running
               /\ \/ Expired(e, now)
                  \/ Cardinality(seen) > MAXIMUM_COUNT
                  \/ \A s \in seen : ~s.running /\ s.audio => s \notin Silenced(seen, order, now)
<1> DEFINE base == Silenced(seen, order, now)
<1>1. SoundsGone(seen, base)
    BY SilencingTakesSounds
<1> HIDE DEF base
<1>2. IsFiniteSet(base) /\ \E kept \in base : kept.id = id
    BY <1>1 DEF SoundsGone
<1>3. \A kept \in Retained(base, order, now) : kept.id # id
    BY DEF Pruned, base
<1>4. PICK e \in seen : /\ e.id = id /\ ~e.running
                        /\ \/ Expired(e, now) \/ Cardinality(base) > MAXIMUM_COUNT
                           \/ Bytes(base) > MAXIMUM_BYTES
    BY <1>2, <1>3, RetainingGivesUp
<1>5. CASE Cardinality(base) > MAXIMUM_COUNT
  <2>1. Cardinality(base) \in Nat /\ Cardinality(seen) \in Nat /\ MAXIMUM_COUNT \in Nat
      BY <1>2, FS_CardinalityType, SessionsAssumption
  <2>2. Cardinality(seen) > MAXIMUM_COUNT
      BY <1>1, <1>5, <2>1 DEF SoundsGone
  <2> QED BY <1>4, <2>2
<1>6. CASE Bytes(base) > MAXIMUM_BYTES
    BY <1>1, <1>4, <1>6 DEF SoundsGone, base
<1>7. CASE Expired(e, now)
    BY <1>4, <1>7
<1> QED BY <1>4, <1>5, <1>6, <1>7
----------------------------------------------------------------------------
\* What an entry of a closed session says is still true of its record: too old stays
\* too old, and no sounds come back.
Told(recs, e, now) ==
    ~e.running /\ e.id \in DOMAIN recs =>
        /\ Expired(e, now) => recs[e.id].status # "running" /\ Expired(recs[e.id], now)
        /\ recs[e.id].audio => e.audio

SeenIsTrue(a) == AtWork(a) => \A e \in pass[a].seen : Told(records, e, pass[a].now)

\* A pass has a change in hand only of a record that still runs or is young.
ChangeIsYoung(a) ==
    pass[a].at = "writing" /\ pass[a].id \in Present
        /\ records[pass[a].id].status # "running" =>
        records[pass[a].id].updated + PASS_TIME >= pass[a].now

SeenInv == \A a \in Passes : SeenIsTrue(a) /\ ChangeIsYoung(a)

\* The limits of passes are numbers, and what is too old is older than two passes.
LEMMA AgeOutlastsPasses ==
    PASS_TIME \in Nat /\ MAXIMUM_AGE \in Nat /\ 2 * PASS_TIME <= MAXIMUM_AGE
BY SessionsAssumption, PassTimeAssumption

\* What a step does to a record: it keeps what passes go by, or the planner at work
\* writes its own, or the session is new, or a pass writes the change it has in hand.
Kept(s) ==
    /\ s \in Present
    /\ records'[s].status = records[s].status /\ records'[s].updated = records[s].updated
    /\ records'[s].audio => records[s].audio
Worked(s) == Live /\ s = me /\ s \in Present /\ records'[s].updated = clock
Fresh(s) == s \notin 1..opened
WrittenBack(s) ==
    /\ s \in Present /\ records'[s].audio = records[s].audio
    /\ \E b \in Passes : /\ pass[b].at = "writing" /\ pass[b].id = s
                         /\ records'[s].updated = pass[b].now

RecordsFollow ==
    \A s \in DOMAIN records' : Kept(s) \/ Worked(s) \/ Fresh(s) \/ WrittenBack(s)

\* What is known of a pass at work and of those seen.
LEMMA WorkingPass ==
    ASSUME RetentionInv, NEW a \in Passes, AtWork(a)
    PROVE  /\ pass[a].now \in Nat /\ clock \in Nat /\ opened \in Nat
           /\ pass[a].now <= clock /\ clock <= pass[a].now + PASS_TIME
           /\ IsFiniteSet(pass[a].seen)
           /\ \A e \in pass[a].seen :
                  /\ e \in Entries /\ e.id \in 1..opened
                  /\ Live /\ e.id = me => e.running
           /\ pass[a].at = "writing" => pass[a].id \in 1..opened
<1>1. PassTyped(a) /\ PassSound(a) /\ Spared(a) /\ clock \in Nat /\ opened \in Nat
    BY DEF RetentionInv, PassInv, RecordsTyped
<1>2. /\ pass[a].now \in Nat /\ pass[a].seen \subseteq Entries /\ pass[a].todo \subseteq 1..opened
    BY <1>1 DEF PassTyped, AtWork, Resting
<1> QED BY <1>1, <1>2 DEF PassSound, Spared

\* A closed session that is too old is in no pass's hand.
LEMMA OldIsInNoHand ==
    ASSUME RetentionInv, SeenInv, NEW a \in Passes, NEW b \in Passes, AtWork(a),
           pass[b].at = "writing", pass[b].id \in Present,
           records[pass[b].id].status # "running", Expired(records[pass[b].id], pass[a].now)
    PROVE  FALSE
<1>1. records[pass[b].id].updated + PASS_TIME >= pass[b].now
    BY DEF SeenInv, ChangeIsYoung
<1>2. pass[a].now \in Nat /\ clock \in Nat /\ pass[a].now <= clock
    BY WorkingPass
<1>3. pass[b].now \in Nat /\ clock <= pass[b].now + PASS_TIME
    BY WorkingPass DEF AtWork
<1>4. records[pass[b].id].updated \in Nat
    BY DEF RetentionInv, RecordsTyped, SessionRecords
<1>5. pass[a].now - records[pass[b].id].updated > MAXIMUM_AGE
    BY DEF Expired
<1> QED BY <1>1, <1>2, <1>3, <1>4, <1>5, AgeOutlastsPasses

\* What is said of those seen stays true, whatever others write.
LEMMA ToldStays ==
    ASSUME RetentionInv, SeenInv, RecordsFollow, NEW a \in Passes, AtWork(a),
           NEW e \in pass[a].seen
    PROVE  Told(records', e, pass[a].now)
<1> DEFINE s == e.id
           now == pass[a].now
<1> SUFFICES ASSUME ~e.running, s \in DOMAIN records'
             PROVE  /\ Expired(e, now) => /\ records'[s].status # "running"
                                          /\ Expired(records'[s], now)
                    /\ records'[s].audio => e.audio
    BY DEF Told
<1>1. s \in 1..opened /\ ~(Live /\ s = me)
    BY WorkingPass
<1>2. Told(records, e, now)
    BY DEF SeenInv, SeenIsTrue
<1>3. CASE Kept(s)
    BY <1>2, <1>3 DEF Kept, Told, Expired, Present
<1>4. CASE WrittenBack(s)
  <2>1. ~Expired(e, now)
    <3> SUFFICES ASSUME Expired(e, now) PROVE FALSE
        OBVIOUS
    <3>1. s \in Present /\ records[s].status # "running" /\ Expired(records[s], now)
        BY <1>2, <1>4 DEF WrittenBack, Told, Present
    <3>2. PICK b \in Passes : pass[b].at = "writing" /\ pass[b].id = s
        BY <1>4 DEF WrittenBack
    <3> QED BY <3>1, <3>2, OldIsInNoHand
  <2>2. records'[s].audio => e.audio
      BY <1>2, <1>4 DEF WrittenBack, Told, Present
  <2> QED BY <2>1, <2>2
<1> QED BY <1>1, <1>3, <1>4 DEF RecordsFollow, Worked, Fresh

\* A change in hand stays one of a record that runs or is young.
LEMMA YoungStays ==
    ASSUME RetentionInv, SeenInv, RecordsFollow, NEW a \in Passes, pass'[a] = pass[a]
    PROVE  ChangeIsYoung(a)'
<1> DEFINE s == pass[a].id
<1> SUFFICES ASSUME pass[a].at = "writing", s \in DOMAIN records',
                    records'[s].status # "running"
             PROVE  records'[s].updated + PASS_TIME >= pass[a].now
    BY DEF ChangeIsYoung, Present
<1>1. /\ s \in 1..opened /\ pass[a].now \in Nat /\ clock \in Nat /\ pass[a].now <= clock
    BY WorkingPass DEF AtWork
<1>2. CASE Kept(s)
    BY <1>2 DEF Kept, SeenInv, ChangeIsYoung
<1>3. CASE Worked(s)
    BY <1>1, <1>3, AgeOutlastsPasses DEF Worked
<1>4. CASE WrittenBack(s)
  <2>1. PICK b \in Passes : pass[b].at = "writing" /\ records'[s].updated = pass[b].now
      BY <1>4 DEF WrittenBack
  <2>2. pass[b].now \in Nat /\ clock <= pass[b].now + PASS_TIME
      BY <2>1, WorkingPass DEF AtWork
  <2> QED BY <1>1, <2>1, <2>2, AgeOutlastsPasses
<1> QED BY <1>1, <1>2, <1>3, <1>4 DEF RecordsFollow, Fresh

\* A pass whose step it is not, or that begins or is over.
Elsewhere(a) ==
    \/ pass'[a] = pass[a]
    \/ pass'[a].at \notin {"visiting", "writing"}
    \/ pass'[a].at = "visiting" /\ pass'[a].seen = {}

LEMMA ElsewhereKeeps ==
    ASSUME RetentionInv, SeenInv, RecordsFollow, NEW a \in Passes, Elsewhere(a)
    PROVE  SeenIsTrue(a)' /\ ChangeIsYoung(a)'
<1>1. CASE pass'[a] = pass[a]
  <2>1. SeenIsTrue(a)'
    <3> SUFFICES ASSUME AtWork(a), NEW e \in pass[a].seen
                 PROVE  Told(records', e, pass[a].now)
        BY <1>1 DEF SeenIsTrue, AtWork
    <3> QED BY ToldStays
  <2> QED BY <1>1, <2>1, YoungStays
<1>2. CASE pass'[a].at \notin {"visiting", "writing"}
    BY <1>2 DEF SeenIsTrue, ChangeIsYoung, AtWork
<1>3. CASE pass'[a].at = "visiting" /\ pass'[a].seen = {}
    BY <1>3 DEF SeenIsTrue, ChangeIsYoung, AtWork
<1> QED BY <1>1, <1>2, <1>3 DEF Elsewhere
\* What a visit adds to what a pass knows: nothing, an entry as the record says, or a
\* change of a record that runs or lies in the future.
LEMMA VisitFinds ==
    ASSUME RetentionInv, NEW a \in Passes, Visit(a)
    PROVE  /\ UNCHANGED <<clock, records>> /\ \A b \in Passes : b # a => pass'[b] = pass[b]
           /\ pass'[a].now = pass[a].now
           /\ \/ pass'[a].at = "visiting" /\ pass'[a].seen = pass[a].seen
              \/ /\ pass'[a].at = "visiting"
                 /\ \E id \in Present :
                        pass'[a].seen = pass[a].seen \cup {Seen(id, records[id])}
              \/ /\ pass'[a].at = "writing" /\ pass'[a].seen = pass[a].seen
                 /\ pass'[a].id \in Present
                 /\ \/ records[pass'[a].id].status = "running"
                    \/ records[pass'[a].id].updated > pass[a].now
<1>1. UNCHANGED <<clock, records>> /\ pass[a].at = "visiting" /\ a \in DOMAIN pass
      /\ \A b \in Passes : b # a => pass'[b] = pass[b]
    BY DEF Visit, RetentionInv, RecordsTyped
<1>2. pass[a] \in [at : {"visiting"}, now : Nat, todo : SUBSET (1..opened), seen : SUBSET Entries]
    BY <1>1 DEF RetentionInv, PassInv, PassTyped, Resting
<1>3. PICK id \in pass[a].todo :
        \/ /\ id \notin Present
           /\ pass' = [pass EXCEPT ![a].todo = @ \ {id}]
        \/ /\ id \in Present
           /\ LET known == Reconciled(records[id], pass[a].now)
              IN \/ /\ known = records[id]
                    /\ pass' = [pass EXCEPT ![a].todo = @ \ {id},
                                            ![a].seen = @ \cup {Seen(id, known)}]
                 \/ /\ known # records[id]
                    /\ pass' = [pass EXCEPT ![a] =
                          [at |-> "writing", now |-> @.now, todo |-> @.todo, seen |-> @.seen,
                           id |-> id, record |-> known]]
    BY DEF Visit
<1> DEFINE known == Reconciled(records[id], pass[a].now)
<1>4. CASE id \notin Present
  <2>1. pass'[a] = [pass[a] EXCEPT !.todo = pass[a].todo \ {id}]
      BY <1>1, <1>3, <1>4
  <2>2. pass'[a].at = "visiting" /\ pass'[a].seen = pass[a].seen /\ pass'[a].now = pass[a].now
      BY <1>2, <2>1
  <2> QED BY <1>1, <2>2
<1>5. CASE id \in Present /\ known = records[id]
  <2> DEFINE entry == Seen(id, known)
             next == [pass[a] EXCEPT !.todo = pass[a].todo \ {id},
                                     !.seen = pass[a].seen \cup {entry}]
  <2>1. pass' = [pass EXCEPT ![a] = next]
      BY <1>3, <1>5
  <2>2. entry = Seen(id, records[id])
      BY <1>5
  <2> HIDE DEF known, entry
  <2>3. next = [at |-> "visiting", now |-> pass[a].now, todo |-> pass[a].todo \ {id},
                seen |-> pass[a].seen \cup {entry}]
      BY <1>2, ListMoves
  <2> HIDE DEF next
  <2>4. pass'[a] = next
      BY <1>1, <2>1
  <2> QED BY <1>1, <1>5, <2>2, <2>3, <2>4
<1>6. CASE id \in Present /\ known # records[id]
  <2>1. records[id].status = "running" \/ records[id].updated > pass[a].now
      BY <1>6 DEF Reconciled, Clamped, LeaseIsOver
  <2>2. pass'[a] = [at |-> "writing", now |-> pass[a].now, todo |-> pass[a].todo,
                    seen |-> pass[a].seen, id |-> id, record |-> known]
      BY <1>1, <1>3, <1>6
  <2> HIDE DEF known
  <2> QED BY <1>1, <1>6, <2>1, <2>2
<1> QED BY <1>3, <1>4, <1>5, <1>6

\* The entry of a record as it is says what is true of it.
LEMMA EntryIsTold ==
    ASSUME NEW recs, NEW id, NEW now
    PROVE  Told(recs, Seen(id, recs[id]), now)
BY DEF Told, Seen, Expired

LEMMA VisitKeepsSeen ==
    ASSUME RetentionInv, SeenInv, NEW a \in Passes, Visit(a)
    PROVE  SeenInv'
<1>1. RecordsFollow
    BY VisitFinds DEF RecordsFollow, Kept, Present
<1>2. \A b \in Passes : b # a => Elsewhere(b)
    BY VisitFinds DEF Elsewhere
<1>3. AtWork(a) /\ records' = records /\ pass'[a].now = pass[a].now
    BY VisitFinds DEF Visit, AtWork
<1>4. \A e \in pass[a].seen : Told(records', e, pass'[a].now)
    BY <1>1, <1>3, ToldStays
<1>5. SeenIsTrue(a)' /\ ChangeIsYoung(a)'
  <2>1. CASE pass'[a].at = "visiting" /\ pass'[a].seen = pass[a].seen
      BY <1>4, <2>1 DEF SeenIsTrue, ChangeIsYoung
  <2>2. ASSUME pass'[a].at = "visiting", NEW id \in Present,
               pass'[a].seen = pass[a].seen \cup {Seen(id, records[id])}
        PROVE  SeenIsTrue(a)' /\ ChangeIsYoung(a)'
    <3>1. Told(records', Seen(id, records[id]), pass'[a].now)
        BY <1>3, EntryIsTold
    <3> QED BY <1>4, <2>2, <3>1 DEF SeenIsTrue, ChangeIsYoung
  <2>3. CASE /\ pass'[a].at = "writing" /\ pass'[a].seen = pass[a].seen
             /\ pass'[a].id \in Present
             /\ \/ records[pass'[a].id].status = "running"
                \/ records[pass'[a].id].updated > pass[a].now
    <3>1. pass[a].now \in Nat /\ records[pass'[a].id].updated \in Nat
        BY <1>3, <2>3, WorkingPass DEF RetentionInv, RecordsTyped, SessionRecords
    <3>2. ChangeIsYoung(a)'
        BY <1>3, <2>3, <3>1, AgeOutlastsPasses DEF ChangeIsYoung
    <3> QED BY <1>4, <2>3, <3>2 DEF SeenIsTrue
  <2> QED BY <2>1, <2>2, <2>3, VisitFinds
<1> QED BY <1>1, <1>2, <1>5, ElsewhereKeeps DEF SeenInv

\* A record that is written back is as young as the pass.
LEMMA RewriteKeepsSeen ==
    ASSUME RetentionInv, SeenInv, NEW a \in Passes, Rewrite(a)
    PROVE  SeenInv'
<1> DEFINE id == pass[a].id
           rec == [pass[a].record EXCEPT !.audio = records[id].audio]
           entry == Seen(id, records'[id])
           next == [at |-> "visiting", now |-> pass[a].now, todo |-> pass[a].todo \ {id},
                    seen |-> pass[a].seen \cup {entry}]
<1>1. /\ pass[a].at = "writing" /\ AtWork(a) /\ a \in DOMAIN pass /\ DOMAIN pass = Passes
      /\ pass[a].record \in SessionRecords /\ pass[a].record.updated = pass[a].now
    BY DEF Rewrite, AtWork, RetentionInv, RecordsTyped, PassInv, PassTyped, PassSound, Resting
<1>2. CASE id \in Present
  <2>1. Put(id, rec) /\ pass' = [pass EXCEPT ![a] = next]
      BY <1>2 DEF Rewrite
  <2>2. rec.updated = pass[a].now /\ rec.audio = records[id].audio
      BY <1>1 DEF SessionRecords
  <2> HIDE DEF rec, entry, next
  <2>3. /\ DOMAIN records' = Present /\ records'[id] = rec
        /\ \A s \in Present : s # id => records'[s] = records[s]
      BY <1>2, <2>1 DEF Put, Present
  <2>4. RecordsFollow
    <3>1. WrittenBack(id)
        BY <1>1, <1>2, <2>2, <2>3 DEF WrittenBack
    <3>2. \A s \in Present : s # id => Kept(s)
        BY <2>3 DEF Kept
    <3> QED BY <2>3, <3>1, <3>2 DEF RecordsFollow
  <2>5. \A b \in Passes : b # a => Elsewhere(b)
      BY <1>1, <2>1 DEF Elsewhere
  <2>6. pass'[a] = next
      BY <1>1, <2>1
  <2>7. \A e \in pass[a].seen : Told(records', e, pass[a].now)
      BY <1>1, <2>4, ToldStays
  <2>8. Told(records', entry, pass[a].now)
      BY EntryIsTold DEF entry
  <2>9. SeenIsTrue(a)' /\ ChangeIsYoung(a)'
      BY <2>6, <2>7, <2>8 DEF SeenIsTrue, ChangeIsYoung, next
  <2> QED BY <2>4, <2>5, <2>9, ElsewhereKeeps DEF SeenInv
<1>3. CASE id \notin Present
  <2>1. pass' = [pass EXCEPT ![a] = [at |-> "failed"]] /\ UNCHANGED records
      BY <1>3 DEF Rewrite, Fails
  <2>2. RecordsFollow
      BY <2>1 DEF RecordsFollow, Kept, Present
  <2>3. \A b \in Passes : Elsewhere(b)
      BY <1>1, <2>1 DEF Elsewhere
  <2> QED BY <2>2, <2>3, ElsewhereKeeps DEF SeenInv
<1> QED BY <1>2, <1>3
\* What pruning makes of the records, for some order of the sessions seen.
Silent(a, order) == {s.id : s \in pass[a].seen \ Silenced(pass[a].seen, order, pass[a].now)}
Gone(a, order) ==
    {s.id : s \in pass[a].seen} \ {s.id : s \in Pruned(pass[a].seen, order, pass[a].now)}

LEMMA PruneWrites ==
    ASSUME RetentionInv, NEW a \in Passes, Prune(a)
    PROVE  \E order \in Orders(pass[a].seen) :
               /\ DOMAIN records' = Present \ Gone(a, order)
               /\ \A s \in DOMAIN records' :
                      /\ s \in Present
                      /\ records'[s].audio => records[s].audio
                      /\ s \in Silent(a, order) => records'[s].audio = FALSE
<1>1. PICK order \in Orders(pass[a].seen) :
        records' = [s \in Present \ Gone(a, order) |->
                       IF s \in Silent(a, order) THEN [records[s] EXCEPT !.audio = FALSE]
                       ELSE records[s]]
    BY DEF Prune, Silent, Gone
<1>2. \A r \in SessionRecords : [r EXCEPT !.audio = FALSE].audio = FALSE
    BY DEF SessionRecords
<1>3. \A s \in Present : records[s] \in SessionRecords
    BY DEF RetentionInv, RecordsTyped
<1> QED BY <1>1, <1>2, <1>3

LEMMA PruneKeepsSeen ==
    ASSUME RetentionInv, SeenInv, NEW a \in Passes, Prune(a)
    PROVE  SeenInv'
<1>1. RecordsFollow
  <2> SUFFICES ASSUME NEW s \in DOMAIN records' PROVE Kept(s)
      BY DEF RecordsFollow
  <2>1. s \in Present /\ (records'[s].audio => records[s].audio)
      BY PruneWrites
  <2>2. records'[s].status = records[s].status /\ records'[s].updated = records[s].updated
      BY PrunedRecords
  <2> QED BY <2>1, <2>2 DEF Kept
<1>2. pass' = [pass EXCEPT ![a] = [at |-> "ended"]] /\ DOMAIN pass = Passes
    BY DEF Prune, RetentionInv, RecordsTyped
<1>3. \A b \in Passes : Elsewhere(b)
    BY <1>2 DEF Elsewhere
<1> QED BY <1>1, <1>3, ElsewhereKeeps DEF SeenInv

\* Passes begin, are taken and are cut off.
LEMMA BoundsAreElsewhere ==
    ASSUME RetentionInv, NEW b \in Passes, NEW next, pass' = [pass EXCEPT ![b] = next],
           next.at \notin {"visiting", "writing"} \/ (next.at = "visiting" /\ next.seen = {})
    PROVE  \A a \in Passes : Elsewhere(a)
BY DEF Elsewhere, RetentionInv, RecordsTyped

\* Steps of planner and clients, as passes find them.
LEMMA OthersAreElsewhere ==
    ASSUME RetentionInv, [Next]_vars, \A a \in Passes : ~Sweep(a)
    PROVE  RecordsFollow /\ \A a \in Passes : Elsewhere(a)
<1>1. \A a \in Passes : pass' = pass => Elsewhere(a)
    BY DEF Elsewhere
<1>2. records' = records => RecordsFollow
    BY DEF RecordsFollow, Kept, Present
<1>3. Resting.at \notin {"visiting", "writing"}
    BY DEF Resting
<1>4. \A d : Started(d).at = "visiting" /\ Started(d).seen = {}
    BY DEF Started
<1>5. ASSUME NEW rec, Put(me, rec), me \in Present, Live, rec.updated = clock PROVE RecordsFollow
  <2>1. DOMAIN records' = Present /\ records'[me] = rec
        /\ \A s \in Present : s # me => records'[s] = records[s]
      BY <1>5 DEF Put, Present
  <2> QED BY <1>5, <2>1 DEF RecordsFollow, Kept, Worked
<1>6. ASSUME NEW status, update_status(me, status), me \in Present, Live PROVE RecordsFollow
  <2> DEFINE rec == [records[me] EXCEPT !.status = status, !.updated = clock]
  <2>1. rec.updated = clock
      BY <1>6 DEF RetentionInv, RecordsTyped, SessionRecords
  <2>2. Put(me, rec)
      BY <1>6 DEF update_status
  <2> HIDE DEF rec
  <2> QED BY <1>5, <1>6, <2>1, <2>2
<1>7. CASE UNCHANGED vars \/ Interrupt \/ Tick
    BY <1>1, <1>2, <1>7 DEF vars, sessionVars, Interrupt, Tick
<1>8. CASE StartEdit \/ View
    BY <1>2, <1>4, <1>8, PassesOfPlanner, BoundsAreElsewhere DEF StartEdit, View, BeginPass
<1>9. CASE Viewed \/ OpenFails \/ Finish
    BY <1>2, <1>3, <1>9, PassesOfPlanner, BoundsAreElsewhere DEF Viewed, OpenFails, Finish, TakeResult
<1>10. CASE Crash
    BY <1>2, <1>3, <1>10 DEF Crash, Elsewhere
<1>11. CASE OpenSession
  <2>1. pass' = [pass EXCEPT ![Worker] = Resting] /\ me' = opened + 1 /\ opened \in Nat
        /\ Put(me', Record("running"))
      BY <1>11 DEF OpenSession, TakeResult, RetentionInv, RecordsTyped
  <2>2. Fresh(me')
      BY <2>1 DEF Fresh
  <2>3. RecordsFollow
      BY <2>1, <2>2 DEF Put, RecordsFollow, Kept, Present
  <2> QED BY <1>3, <2>1, <2>3, PassesOfPlanner, BoundsAreElsewhere
<1>12. CASE CloseSession
  <2>1. pass' = [pass EXCEPT ![Worker] = Started(DOMAIN records')]
      BY <1>12 DEF CloseSession
  <2>2. RecordsFollow
      BY <1>2, <1>6, <1>12 DEF CloseSession, Live
  <2> QED BY <1>4, <2>1, <2>2, PassesOfPlanner, BoundsAreElsewhere
<1>13. CASE Turn \/ CallEnds \/ Wait \/ Gemini
    BY <1>1, <1>2, <1>13
       DEF Turn, CallEnds, Wait, Gemini, Fail, Unavailable, AnswerDone, AnswerCall, CutOff, Return,
           sessionVars
<1>14. CASE RenderEnds
  <2>1. PICK rec : /\ rec = [status |-> "running", updated |-> clock,
                             audio |-> records[me].audio \/ render[1].name # "analyze_audio"]
                   /\ Put(me, rec)
      BY <1>14 DEF RenderEnds
  <2>2. RecordsFollow /\ pass' = pass
      BY <1>5, <1>14, <2>1 DEF RenderEnds, Live
  <2> QED BY <1>1, <2>2
<1>15. ASSUME Continue, Live PROVE RecordsFollow /\ \A a \in Passes : Elsewhere(a)
    BY <1>1, <1>6, <1>15 DEF Continue
<1>16. CASE Tool
  <2>1. CASE CommitRefused \/ StartRender
      BY <1>1, <1>2, <2>1 DEF CommitRefused, StartRender, Return, sessionVars
  <2>2. CASE LoadToolGroup \/ OtherCall \/ Mutate
      BY <1>15, <2>2 DEF LoadToolGroup, OtherCall, Mutate, Live
  <2> QED BY <1>16, <2>1, <2>2 DEF Tool
<1>17. CASE RenderStops \/ RenderFails
    BY <1>15, <1>17 DEF RenderStops, RenderFails, Live
<1> QED BY <1>7, <1>8, <1>9, <1>10, <1>11, <1>12, <1>13, <1>14, <1>16, <1>17 DEF Next, Planner

\* Every step keeps what pruning relies on.
LEMMA StepKeepsSeen == ASSUME RetentionInv, SeenInv, [Next]_vars PROVE SeenInv'
<1>1. ASSUME NEW a \in Passes, Sweep(a) PROVE SeenInv'
    BY <1>1, VisitKeepsSeen, RewriteKeepsSeen, PruneKeepsSeen DEF Sweep, PassStep
<1>2. CASE \A a \in Passes : ~Sweep(a)
    BY <1>2, OthersAreElsewhere, ElsewhereKeeps DEF SeenInv
<1> QED BY <1>1, <1>2

THEOREM SeenIsSound == Spec => []SeenInv
<1>1. Init => SeenInv
  <2> SUFFICES ASSUME Init, NEW a \in Passes PROVE SeenIsTrue(a) /\ ChangeIsYoung(a)
      BY DEF SeenInv
  <2>1. pass[a] = Resting
      BY DEF Init
  <2> QED BY <2>1 DEF SeenIsTrue, ChangeIsYoung, AtWork, Resting
<1>2. RetentionInv /\ SeenInv /\ [Next]_vars => SeenInv'
    BY StepKeepsSeen
<1> QED BY <1>1, <1>2, RetentionIsSound, PTL DEF Spec

\* A closed session that is not too old goes for its size only when the sounds of all
\* closed sessions are gone, or when there are too many (apply_session_retention_with).
THEOREM SoundsGoFirst == Spec => AudioGoesFirst
<1>1. ASSUME RetentionInv, SeenInv, [Next]_vars, NEW a \in Passes,
             pass[a].at = "visiting", pass'[a].at = "ended",
             NEW s \in Present \ DOMAIN records'
      PROVE  \/ pass[a].now - records[s].updated > MAXIMUM_AGE
             \/ Cardinality(pass[a].seen) > MAXIMUM_COUNT
             \/ \A other \in pass[a].seen :
                    ~other.running /\ other.id \in DOMAIN records' => ~records'[other.id].audio
  <2> DEFINE seen == pass[a].seen
             now == pass[a].now
  <2>1. Prune(a) /\ AtWork(a)
      BY <1>1, OnlyPruningEnds DEF AtWork
  <2>2. PICK order \in Orders(seen) :
          /\ DOMAIN records' = Present \ Gone(a, order)
          /\ \A x \in DOMAIN records' :
                 /\ x \in Present
                 /\ records'[x].audio => records[x].audio
                 /\ x \in Silent(a, order) => records'[x].audio = FALSE
      BY <1>1, <2>1, PruneWrites
  <2>3. seen \in SUBSET Entries /\ IsFiniteSet(seen)
      BY <1>1, <2>1, WorkingPass
  <2>4. s \in Gone(a, order)
      BY <1>1, <2>2
  <2>5. \A e \in seen : Told(records, e, now)
      BY <1>1, <2>1 DEF SeenInv, SeenIsTrue
  <2>6. s \in {x.id : x \in seen} \ {x.id : x \in Pruned(seen, order, now)}
      BY <2>4 DEF Gone
  <2> HIDE DEF seen, now
  <2>7. PICK e \in seen :
          /\ e.id = s /\ ~e.running
          /\ \/ Expired(e, now)
             \/ Cardinality(seen) > MAXIMUM_COUNT
             \/ \A x \in seen : ~x.running /\ x.audio => x \notin Silenced(seen, order, now)
      BY <2>3, <2>6, PruningGivesUp
  <2>8. CASE Expired(e, now)
    <3>1. Expired(records[s], now)
        BY <1>1, <2>5, <2>7, <2>8 DEF Told, Present
    <3> QED BY <3>1 DEF Expired, now
  <2>9. ASSUME \A x \in seen : ~x.running /\ x.audio => x \notin Silenced(seen, order, now),
               NEW other \in seen, ~other.running, other.id \in DOMAIN records'
        PROVE  ~records'[other.id].audio
    <3>1. CASE other.audio
      <4>1. other \in seen \ Silenced(seen, order, now)
          BY <2>9, <3>1
      <4>2. other.id \in Silent(a, order)
          BY <4>1 DEF Silent, seen, now
      <4> QED BY <2>2, <2>9, <4>2
    <3>2. CASE ~other.audio
        BY <2>2, <2>5, <2>9, <3>2 DEF Told, Present
    <3> QED BY <3>1, <3>2
  <2> QED BY <2>7, <2>8, <2>9 DEF seen, now
<1>2. RetentionInv /\ SeenInv /\ [Next]_vars =>
          [\A a \in Passes : pass[a].at = "visiting" /\ pass'[a].at = "ended" =>
               \A s \in Present \ DOMAIN records' :
                   \/ pass[a].now - records[s].updated > MAXIMUM_AGE
                   \/ Cardinality(pass[a].seen) > MAXIMUM_COUNT
                   \/ \A other \in pass[a].seen :
                          ~other.running /\ other.id \in DOMAIN records' =>
                              ~records'[other.id].audio]_vars
    BY <1>1
<1> QED BY <1>2, RetentionIsSound, SeenIsSound, PTL DEF Spec, AudioGoesFirst
=============================================================================
