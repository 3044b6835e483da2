-------------------------- MODULE AudioServingProofs --------------------------
(***************************************************************************)
(* Theorems about the renderer (AudioRenderer) and the server around it    *)
(* (AudioServing), for any finite set of callers, any split of it into     *)
(* edits and streams, any users and any limits.                            *)
(*                                                                         *)
(* The renderer's safety properties are one inductive invariant but for    *)
(* the link between the flag and its holder (Exclusive): without it a      *)
(* release could give the renderer away under another render.              *)
(*                                                                         *)
(* Whatever connections, registry and handlers do, the renderer sees the   *)
(* steps of AudioRenderer and nothing else, so that its theorems hold of   *)
(* the whole server.  That a project has one owner is inductive with the   *)
(* types alone: who holds a project keeps it in the cache.                 *)
(***************************************************************************)
EXTENDS AudioServing, FiniteSetTheorems, TLAPS

----------------------------------------------------------------------------
(* The renderer *)

\* The flag is up exactly while one caller holds the permit.
Exclusive ==
    /\ rendering <=> Holding # {}
    /\ \A c, d \in Holding : c = d

RendererInv == TypeOK /\ CountsExact /\ Exclusive /\ NoMissedWakeup

\* Every set of waiters is finite, so that it has a cardinality.
LEMMA WaitersFinite ==
    /\ IsFiniteSet(Waiting \ Background) /\ IsFiniteSet(Waiting \cap Background)
    /\ Cardinality(Waiting \ Background) \in Nat
    /\ Cardinality(Waiting \cap Background) \in Nat
<1>1. Waiting \ Background \subseteq Callers /\ Waiting \cap Background \subseteq Callers
    BY DEF Waiting
<1> QED BY <1>1, CallersAssumption, FS_Subset, FS_CardinalityType

\* The waiters stay the same: the counts do, too.
LEMMA SameWaiters ==
    ASSUME CountsExact, CountsStay, Waiting' = Waiting
    PROVE  CountsExact'
BY DEF CountsExact, CountsStay

\* A caller that enters the queue is counted once, on its own side.
LEMMA OneMoreWaiter ==
    ASSUME TypeOK, CountsExact, NEW c \in Callers, c \notin Waiting,
           Waiting' = Waiting \cup {c}, CountWaiter(c, 1)
    PROVE  /\ CountsExact'
           /\ foreground_waiters' \in Nat /\ background_waiters' \in Nat
<1>1. CASE c \in Background
  <2>1. (Waiting \ Background)' = Waiting \ Background
      BY <1>1
  <2>2. (Waiting \cap Background)' = (Waiting \cap Background) \cup {c}
      BY <1>1
  <2>3. Cardinality((Waiting \cap Background) \cup {c})
            = Cardinality(Waiting \cap Background) + 1
      BY WaitersFinite, FS_AddElement
  <2> QED BY <1>1, <2>1, <2>2, <2>3 DEF CountsExact, CountWaiter, TypeOK
<1>2. CASE c \notin Background
  <2>1. (Waiting \cap Background)' = Waiting \cap Background
      BY <1>2
  <2>2. (Waiting \ Background)' = (Waiting \ Background) \cup {c}
      BY <1>2
  <2>3. Cardinality((Waiting \ Background) \cup {c})
            = Cardinality(Waiting \ Background) + 1
      BY WaitersFinite, FS_AddElement
  <2>4. /\ foreground_waiters' = foreground_waiters + 1
        /\ background_waiters' = background_waiters
      BY <1>2 DEF CountWaiter
  <2>5. foreground_waiters' \in Nat /\ background_waiters' \in Nat
      BY <2>4 DEF TypeOK
  <2>6. CountsExact'
      BY <2>1, <2>2, <2>3, <2>4 DEF CountsExact
  <2> QED BY <2>5, <2>6
<1> QED BY <1>1, <1>2

\* A waiter that leaves the queue was counted, so the count does not underflow.
LEMMA OneWaiterLess ==
    ASSUME TypeOK, CountsExact, NEW c \in Waiting,
           Waiting' = Waiting \ {c}, CountWaiter(c, -1)
    PROVE  /\ CountsExact'
           /\ foreground_waiters' \in Nat /\ background_waiters' \in Nat
<1>1. CASE c \in Background
  <2>1. (Waiting \ Background)' = Waiting \ Background
      BY <1>1
  <2>2. (Waiting \cap Background)' = (Waiting \cap Background) \ {c}
      BY <1>1
  <2>3. /\ Cardinality((Waiting \cap Background) \ {c})
               = Cardinality(Waiting \cap Background) - 1
        /\ Cardinality((Waiting \cap Background) \ {c}) \in Nat
    <3>1. c \in Waiting \cap Background
        BY <1>1
    <3>2. IsFiniteSet((Waiting \cap Background) \ {c})
        BY WaitersFinite, FS_RemoveElement
    <3> QED BY <3>1, <3>2, WaitersFinite, FS_RemoveElement, FS_CardinalityType
  <2> QED BY <1>1, <2>1, <2>2, <2>3 DEF CountsExact, CountWaiter, TypeOK
<1>2. CASE c \notin Background
  <2>1. (Waiting \cap Background)' = Waiting \cap Background
      BY <1>2
  <2>2. (Waiting \ Background)' = (Waiting \ Background) \ {c}
      BY <1>2
  <2>3. /\ Cardinality((Waiting \ Background) \ {c})
               = Cardinality(Waiting \ Background) - 1
        /\ Cardinality((Waiting \ Background) \ {c}) \in Nat
    <3>1. c \in Waiting \ Background
        BY <1>2
    <3>2. IsFiniteSet((Waiting \ Background) \ {c})
        BY WaitersFinite, FS_RemoveElement
    <3> QED BY <3>1, <3>2, WaitersFinite, FS_RemoveElement, FS_CardinalityType
  <2> QED BY <1>2, <2>1, <2>2, <2>3 DEF CountsExact, CountWaiter, TypeOK
<1> QED BY <1>1, <1>2

\* At the start nobody waits and nobody renders.
LEMMA InitRenderer == Init => RendererInv
<1> SUFFICES ASSUME Init PROVE RendererInv
    OBVIOUS
<1>1. Waiting \ Background = {} /\ Waiting \cap Background = {} /\ Holding = {}
    BY DEF Init, Waiting, Holding, WaiterPC, HolderPC
<1>2. CountsExact
    BY <1>1, FS_EmptySet DEF CountsExact, Init
<1> QED BY <1>1, <1>2 DEF RendererInv, TypeOK, Init, PC, Exclusive, NoMissedWakeup

----------------------------------------------------------------------------
\* The steps that neither enter nor leave the queue, nor touch the permit.
Moves(c) ==
    Request(c) \/ (Register(c) /\ c \in cancelled) \/ Check(c) \/ TimeOut(c)
    \/ (Try(c) /\ ~MayRender(c)) \/ BeginRender(c) \/ EndRender(c) \/ Cancel(c)

\* Such a step leaves the queue and the holder alone.
LEMMA MovesKeep ==
    ASSUME TypeOK, NEW c \in Callers, Moves(c)
    PROVE  /\ Waiting' = Waiting /\ Holding' = Holding
           /\ rendering' = rendering /\ CountsStay
           /\ TypeOK'
           /\ \A d \in Callers : pc'[d] = "sleeping" =>
                  pc[d] = "sleeping" \/ (d = c /\ ~MayRender(c))
<1>1. CASE Request(c)
    BY <1>1 DEF Request, Goes, TypeOK, Waiting, Holding, WaiterPC, HolderPC, PC, CountsStay
<1>2. CASE Register(c) /\ c \in cancelled
    BY <1>2 DEF Register, Goes, TypeOK, Waiting, Holding, WaiterPC, HolderPC, PC, CountsStay
<1>3. CASE Check(c)
    BY <1>3 DEF Check, Goes, TypeOK, Waiting, Holding, WaiterPC, HolderPC, PC, CountsStay
<1>4. CASE TimeOut(c)
    BY <1>4 DEF TimeOut, Goes, TypeOK, Waiting, Holding, WaiterPC, HolderPC, PC, CountsStay
<1>5. CASE Try(c) /\ ~MayRender(c)
    BY <1>5 DEF Try, Goes, TypeOK, Waiting, Holding, WaiterPC, HolderPC, PC, CountsStay
<1>6. CASE BeginRender(c)
    BY <1>6 DEF BeginRender, Goes, TypeOK, Waiting, Holding, WaiterPC, HolderPC, PC, CountsStay
<1>7. CASE EndRender(c)
    BY <1>7 DEF EndRender, Goes, TypeOK, Waiting, Holding, WaiterPC, HolderPC, PC, CountsStay
<1>8. CASE Cancel(c)
    BY <1>8 DEF Cancel, TypeOK, Waiting, Holding, CountsStay
<1> QED BY <1>1, <1>2, <1>3, <1>4, <1>5, <1>6, <1>7, <1>8 DEF Moves

\* A caller enters the queue, and wakes the others.
LEMMA RegisterEnters ==
    ASSUME TypeOK, NEW c \in Callers, Register(c), c \notin cancelled
    PROVE  /\ c \notin Waiting /\ c \notin Holding
           /\ Waiting' = Waiting \cup {c} /\ Holding' = Holding
           /\ rendering' = rendering /\ CountWaiter(c, 1)
           /\ pc' \in [Callers -> PC] /\ cancelled' = cancelled
           /\ \A d \in Callers : pc'[d] # "sleeping"
BY DEF Register, GoesNotifying, TypeOK, Waiting, Holding, WaiterPC, HolderPC, PC

\* A waiter takes the free renderer.
LEMMA TryAdmits ==
    ASSUME TypeOK, NEW c \in Callers, Try(c), MayRender(c)
    PROVE  /\ c \in Waiting
           /\ Waiting' = Waiting \ {c} /\ Holding' = Holding \cup {c}
           /\ rendering' = TRUE /\ CountWaiter(c, -1)
           /\ pc' \in [Callers -> PC] /\ cancelled' = cancelled
BY DEF Try, Goes, TypeOK, Waiting, Holding, WaiterPC, HolderPC, PC

\* A waiter gives up, and wakes the others.
LEMMA LeaveLeaves ==
    ASSUME TypeOK, NEW c \in Callers, Leave(c)
    PROVE  /\ c \in Waiting
           /\ Waiting' = Waiting \ {c} /\ Holding' = Holding
           /\ rendering' = rendering /\ CountWaiter(c, -1)
           /\ pc' \in [Callers -> PC] /\ cancelled' \subseteq Callers
           /\ \A d \in Callers : pc'[d] # "sleeping"
BY DEF Leave, GoesNotifying, TypeOK, Waiting, Holding, WaiterPC, HolderPC, PC

\* The holder gives the renderer back, and wakes the others.
LEMMA ReleaseReturns ==
    ASSUME TypeOK, NEW c \in Callers, Release(c)
    PROVE  /\ c \in Holding
           /\ Waiting' = Waiting /\ Holding' = Holding \ {c}
           /\ rendering' = FALSE /\ CountsStay
           /\ pc' \in [Callers -> PC] /\ cancelled' \subseteq Callers
           /\ \A d \in Callers : pc'[d] # "sleeping"
BY DEF Release, GoesNotifying, TypeOK, Waiting, Holding, WaiterPC, HolderPC, PC

\* The interrupt handler wakes the waiters.
LEMMA WakeWakes ==
    ASSUME TypeOK, wake_waiters
    PROVE  /\ Waiting' = Waiting /\ Holding' = Holding
           /\ rendering' = rendering /\ CountsStay
           /\ pc' \in [Callers -> PC] /\ cancelled' = cancelled
           /\ \A d \in Callers : pc'[d] # "sleeping"
BY DEF wake_waiters, TypeOK, Waiting, Holding, WaiterPC, HolderPC, PC

\* Every step of a caller is one of those.
LEMMA StepCases ==
    ASSUME Next
    PROVE  \/ wake_waiters
           \/ \E c \in Callers :
                 \/ Moves(c)
                 \/ Register(c) /\ c \notin cancelled
                 \/ Try(c) /\ MayRender(c)
                 \/ Leave(c)
                 \/ Release(c)
BY DEF Next, Moves

----------------------------------------------------------------------------
\* The invariant is kept by every step.
LEMMA RendererInductive == RendererInv /\ [Next]_vars => RendererInv'
<1> SUFFICES ASSUME RendererInv, [Next]_vars PROVE RendererInv'
    OBVIOUS
<1> USE DEF RendererInv
<1>1. CASE UNCHANGED vars
    BY <1>1 DEF vars, TypeOK, CountsExact, Exclusive, NoMissedWakeup, MayRender, Waiting, Holding
<1>2. CASE wake_waiters
  <2>1. TypeOK'
      BY <1>2, WakeWakes DEF TypeOK, CountsStay
  <2>2. CountsExact'
      BY <1>2, WakeWakes, SameWaiters
  <2> QED BY <1>2, <2>1, <2>2, WakeWakes DEF Exclusive, NoMissedWakeup
<1>3. ASSUME NEW c \in Callers, Moves(c) PROVE RendererInv'
  <2>1. CountsExact'
      BY <1>3, MovesKeep, SameWaiters
  <2>2. NoMissedWakeup'
      BY <1>3, MovesKeep DEF NoMissedWakeup, MayRender, CountsStay
  <2> QED BY <1>3, <2>1, <2>2, MovesKeep DEF Exclusive
<1>4. ASSUME NEW c \in Callers, Register(c), c \notin cancelled PROVE RendererInv'
  <2>1. CountsExact' /\ TypeOK'
      BY <1>4, RegisterEnters, OneMoreWaiter DEF TypeOK
  <2> QED BY <1>4, <2>1, RegisterEnters DEF Exclusive, NoMissedWakeup
<1>5. ASSUME NEW c \in Callers, Try(c), MayRender(c) PROVE RendererInv'
  <2>1. CountsExact' /\ TypeOK'
      BY <1>5, TryAdmits, OneWaiterLess DEF TypeOK
  <2>2. Exclusive'
      BY <1>5, TryAdmits DEF Exclusive, MayRender
  <2>3. NoMissedWakeup'
      BY <1>5, TryAdmits DEF NoMissedWakeup, MayRender
  <2> QED BY <2>1, <2>2, <2>3
<1>6. ASSUME NEW c \in Callers, Leave(c) PROVE RendererInv'
  <2>1. CountsExact' /\ TypeOK'
      BY <1>6, LeaveLeaves, OneWaiterLess DEF TypeOK
  <2> QED BY <1>6, <2>1, LeaveLeaves DEF Exclusive, NoMissedWakeup
<1>7. ASSUME NEW c \in Callers, Release(c) PROVE RendererInv'
  <2>1. TypeOK'
      BY <1>7, ReleaseReturns DEF TypeOK, CountsStay
  <2>2. CountsExact'
      BY <1>7, ReleaseReturns, SameWaiters
  <2> QED BY <1>7, <2>1, <2>2, ReleaseReturns DEF Exclusive, NoMissedWakeup
<1> QED BY <1>1, <1>2, <1>3, <1>4, <1>5, <1>6, <1>7, StepCases

\* Every reachable state satisfies the invariant.
THEOREM RendererInvariant == Spec => []RendererInv
BY InitRenderer, RendererInductive, PTL DEF Spec

\* The waiter counts never underflow and never leak, whichever way a caller
\* leaves the queue (the Drop of AudioWaiter, its disarming in acquire).
THEOREM CountsStayExact == Spec => [](TypeOK /\ CountsExact)
<1>1. RendererInv => TypeOK /\ CountsExact
    BY DEF RendererInv
<1> QED BY <1>1, RendererInvariant, PTL

\* Nobody sleeps on the condition variable while it could render: every change
\* that lets somebody in notifies the waiters.
THEOREM WakeupsAreNotMissed == Spec => []NoMissedWakeup
<1>1. RendererInv => NoMissedWakeup
    BY DEF RendererInv
<1> QED BY <1>1, RendererInvariant, PTL

----------------------------------------------------------------------------
\* A step of the renderer is a step of the queue, or none.
LEMMA StepKeepsQueue ==
    ASSUME RendererInv, [Next]_vars
    PROVE  [Queue!Next]_(Queue!queue)
<1> USE DEF RendererInv, Queue!queue
<1>1. CASE UNCHANGED vars
    BY <1>1 DEF vars, Waiting, Holding
<1>2. CASE wake_waiters
    BY <1>2, WakeWakes
<1>3. ASSUME NEW c \in Callers, Moves(c) PROVE UNCHANGED Queue!queue
    BY <1>3, MovesKeep
<1>4. ASSUME NEW c \in Callers, Register(c), c \notin cancelled PROVE Queue!Enter(c)
    BY <1>4, RegisterEnters DEF Queue!Enter
<1>5. ASSUME NEW c \in Callers, Try(c), MayRender(c) PROVE Queue!Admit(c)
  <2>1. Holding = {}
      BY <1>5 DEF Exclusive, MayRender
  <2>2. ASSUME c \in Background PROVE Waiting \subseteq Background
    <3>1. Cardinality(Waiting \ Background) = 0
        BY <1>5, <2>2 DEF MayRender, CountsExact
    <3>2. Waiting \ Background = {}
        BY <3>1, WaitersFinite, FS_EmptySet
    <3> QED BY <3>2
  <2> QED BY <1>5, <2>1, <2>2, TryAdmits DEF Queue!Admit
<1>6. ASSUME NEW c \in Callers, Leave(c) PROVE Queue!GiveUp(c)
    BY <1>6, LeaveLeaves DEF Queue!GiveUp
<1>7. ASSUME NEW c \in Callers, Release(c) PROVE Queue!Finish(c)
    BY <1>7, ReleaseReturns DEF Queue!Finish
<1> QED BY <1>1, <1>2, <1>3, <1>4, <1>5, <1>6, <1>7, StepCases DEF Queue!Next

\* The renderer implements the priority queue of RenderQueue: at most one render
\* at a time, and a background render starts only when no edit waits.
THEOREM RendererImplementsQueue == Spec => KeepsQueue
<1>1. Init => Queue!Init
    BY DEF Init, Queue!Init, Waiting, Holding, WaiterPC, HolderPC
<1>2. RendererInv /\ [Next]_vars => [Queue!Next]_(Queue!queue)
    BY StepKeepsQueue
<1> QED BY <1>1, <1>2, RendererInvariant, PTL DEF Spec, KeepsQueue, Queue!Spec

----------------------------------------------------------------------------
(* The server around it *)

ConnPC == {"none", "reading", "waiting", "body", "answering"}

ServingTypeOK ==
    /\ conn \in [Streams -> ConnPC]
    /\ permits \in Nat
    /\ cached \in [Users -> Instance \cup {NotOpen}]
    /\ router \in [Callers -> Router]

ServingInv == ServingTypeOK /\ OneOwner /\ PermitsFollowBodies

Bodies == {s \in Streams : conn[s] = "body"}

\* Requests for streams are finitely many.
LEMMA StreamsFinite == Streams \subseteq Callers /\ IsFiniteSet(Streams)
BY ServingAssumption, CallersAssumption, FS_Subset

\* So are bodies.
LEMMA BodiesFinite == IsFiniteSet(Bodies) /\ Cardinality(Bodies) \in Nat
<1>1. Bodies \subseteq Streams
    BY DEF Bodies
<1> QED BY <1>1, StreamsFinite, FS_Subset, FS_CardinalityType

----------------------------------------------------------------------------
\* To the renderer, telling a stream that it is cancelled is Cancel or nothing.
LEMMA TellsCancels ==
    ASSUME NEW s \in Streams, Tells(s),
           UNCHANGED <<rendering, foreground_waiters, background_waiters, pc>>
    PROVE  Cancel(s) \/ UNCHANGED vars
BY DEF Tells, Cancel, CountsStay, vars

\* A step of the server is one of the renderer, or none.
LEMMA StepIsRendering == ASSUME [ServingNext]_allVars PROVE [Next]_vars
<1>1. CASE UNCHANGED allVars
    BY <1>1 DEF allVars, vars
<1>2. ASSUME NEW s \in Streams, Cancel(s) PROVE Next
    BY <1>2, StreamsFinite DEF Next
<1>3. ASSUME NEW s \in Streams,
             \/ Accept(s) \/ Receive(s) \/ Answered(s) \/ EndOfBody(s) \/ Scope(s)
             \/ HandlePlain(s) \/ HandleStream(s) \/ Begin(s) \/ Send(s) \/ SendError(s)
      PROVE  UNCHANGED vars
    BY <1>3 DEF Accept, Receive, Answered, EndOfBody, Scope, HandlePlain, HandleStream,
                Begin, Send, SendError, RendererStays
<1>4. ASSUME NEW s \in Streams, ClientLeaves(s) \/ Abort(s) PROVE Cancel(s) \/ UNCHANGED vars
    BY <1>4, TellsCancels DEF ClientLeaves, Abort, Drop, DropStays
<1>5. ASSUME NEW s \in Streams, PollFrame(s) PROVE Cancel(s) \/ UNCHANGED vars
    BY <1>5, TellsCancels DEF PollFrame, Drop, DropStays, RendererStays
<1>6. ASSUME NEW s \in Streams, ProjectChanges(s) PROVE Cancel(s) \/ UNCHANGED vars
    BY <1>6, TellsCancels DEF ProjectChanges
<1>7. ASSUME NEW s \in Streams, Pace(s) PROVE [Next]_vars
    BY <1>7, StreamsFinite DEF Pace, RendererStays, Next
<1>8. ASSUME NEW s \in Streams, StreamRenders(s) PROVE Next
    BY <1>8, StreamsFinite DEF StreamRenders, Next
<1>9. ASSUME NEW e \in Edits, EditRenders(e) PROVE Next
    BY <1>9 DEF EditRenders, Edits, Next
<1>10. ASSUME NEW e \in Edits, StartEdit(e) \/ EndJob(e) \/ EndEdit(e) PROVE UNCHANGED vars
    BY <1>10 DEF StartEdit, EndJob, EndEdit, RendererStays
<1>11. CASE WakeWaiters
    BY <1>11 DEF WakeWaiters, Next
<1>12. CASE Shutdown
    BY <1>12 DEF Shutdown, RendererStays
<1> QED BY <1>1, <1>2, <1>3, <1>4, <1>5, <1>6, <1>7, <1>8, <1>9, <1>10, <1>11, <1>12
        DEF ServingNext

\* The server drives the renderer only as AudioRenderer allows.
THEOREM ServingIsRendering == ServingSpec => Spec
<1>1. ServingInit => Init
    BY DEF ServingInit
<1>2. [ServingNext]_allVars => [Next]_vars
    BY StepIsRendering
<1> QED BY <1>1, <1>2, PTL DEF ServingSpec, Spec

\* Therefore, under any traffic, interrupts, disconnections and shutdown: the waiter
\* counts are exact, no wake-up is missed, and edits render before streams.
THEOREM ServerKeepsQueue == ServingSpec => [](CountsExact /\ NoMissedWakeup) /\ KeepsQueue
BY ServingIsRendering, CountsStayExact, WakeupsAreNotMissed, RendererImplementsQueue, PTL

----------------------------------------------------------------------------
\* A permit goes with its body.  What a step does to both:
BodyStays == permits' = permits /\ Bodies' = Bodies
BodyBegins(s) ==
    /\ s \notin Bodies /\ Bodies' = Bodies \cup {s}
    /\ permits < MAX_ACTIVE_HTTP_STREAMS /\ permits' = permits + 1
BodyEnds(s) == s \in Bodies /\ Bodies' = Bodies \ {s} /\ permits' = permits - 1

\* Each of these keeps the permits with the bodies; the limit is never passed.
LEMMA PermitsFollow ==
    ASSUME ServingTypeOK, PermitsFollowBodies, NEW s \in Streams,
           BodyStays \/ BodyBegins(s) \/ BodyEnds(s)
    PROVE  permits' \in Nat /\ PermitsFollowBodies'
<1>1. PermitsFollowBodies <=> permits = Cardinality(Bodies) /\ permits <= MAX_ACTIVE_HTTP_STREAMS
    BY DEF PermitsFollowBodies, Bodies
<1>2. PermitsFollowBodies'
        <=> permits' = Cardinality(Bodies') /\ permits' <= MAX_ACTIVE_HTTP_STREAMS
    BY DEF PermitsFollowBodies, Bodies
<1>3. permits \in Nat /\ MAX_ACTIVE_HTTP_STREAMS \in Nat
    BY ServingAssumption DEF ServingTypeOK
<1>4. CASE BodyStays
    BY <1>1, <1>2, <1>3, <1>4 DEF BodyStays
<1>5. CASE BodyBegins(s)
  <2>1. Cardinality(Bodies \cup {s}) = Cardinality(Bodies) + 1
      BY <1>5, BodiesFinite, FS_AddElement DEF BodyBegins
  <2> QED BY <1>1, <1>2, <1>3, <1>5, <2>1 DEF BodyBegins
<1>6. CASE BodyEnds(s)
  <2>1. /\ Cardinality(Bodies \ {s}) = Cardinality(Bodies) - 1
        /\ IsFiniteSet(Bodies \ {s})
      BY <1>6, BodiesFinite, FS_RemoveElement DEF BodyEnds
  <2>2. Cardinality(Bodies \ {s}) \in Nat
      BY <2>1, FS_CardinalityType
  <2> QED BY <1>1, <1>2, <1>3, <1>6, <2>1, <2>2 DEF BodyEnds
<1> QED BY <1>4, <1>5, <1>6

\* A task that is dropped takes its body along, and the permit in it.
LEMMA DropEnds ==
    ASSUME ServingTypeOK, NEW s \in Streams, Drop(s)
    PROVE  /\ conn' \in [Streams -> ConnPC]
           /\ BodyStays \/ BodyEnds(s)
<1>1. conn' = [conn EXCEPT ![s] = "none"] /\ conn \in [Streams -> ConnPC]
    BY DEF Drop, Connects, ServingTypeOK, ConnPC
<1>2. CASE conn[s] = "body"
  <2>1. permits' = permits - 1
      BY <1>2 DEF Drop
  <2>2. s \in Bodies /\ Bodies' = Bodies \ {s}
      BY <1>1, <1>2 DEF Bodies
  <2> QED BY <1>1, <2>1, <2>2 DEF BodyEnds, ConnPC
<1>3. CASE conn[s] # "body"
  <2>1. permits' = permits
      BY <1>3 DEF Drop
  <2>2. Bodies' = Bodies
      BY <1>1, <1>3 DEF Bodies
  <2> QED BY <1>1, <2>1, <2>2 DEF BodyStays, ConnPC
<1> QED BY <1>2, <1>3

\* A task that begins or ends anything but a body leaves them alone.
LEMMA ConnectsStays ==
    ASSUME ServingTypeOK, NEW s \in Streams, NEW what \in ConnPC, what # "body",
           conn[s] # "body", Connects(s, what), UNCHANGED permits
    PROVE  conn' \in [Streams -> ConnPC] /\ BodyStays
<1>1. conn' = [conn EXCEPT ![s] = what] /\ conn \in [Streams -> ConnPC]
    BY DEF Connects, ServingTypeOK
<1>2. Bodies' = Bodies
    BY <1>1 DEF Bodies
<1> QED BY <1>1, <1>2 DEF BodyStays

\* A worker that is done answers only a task that still waits.
LEMMA RespondStays ==
    ASSUME ServingTypeOK, NEW s \in Streams, Respond(s), UNCHANGED permits
    PROVE  conn' \in [Streams -> ConnPC] /\ BodyStays
<1>1. CASE conn[s] = "waiting"
  <2>1. Connects(s, "answering")
      BY <1>1 DEF Respond
  <2> QED BY <1>1, <2>1, ConnectsStays DEF ConnPC
<1>2. CASE conn[s] # "waiting"
  <2>1. conn' = [conn EXCEPT ![s] = conn[s]] /\ conn \in [Streams -> ConnPC]
      BY <1>2 DEF Respond, Connects, ServingTypeOK
  <2>2. conn' = conn
      BY <2>1
  <2>3. Bodies' = Bodies
      BY <2>2 DEF Bodies
  <2> QED BY <2>1, <2>2, <2>3 DEF BodyStays
<1> QED BY <1>1, <1>2

\* Tasks and bodies as they were.
LEMMA ConnStays ==
    ASSUME ServingTypeOK, UNCHANGED <<conn, permits>>
    PROVE  conn' \in [Streams -> ConnPC] /\ BodyStays
BY DEF ServingTypeOK, BodyStays, Bodies

\* Every step of the server does one of the three to bodies and permits.
LEMMA StepKeepsPermits ==
    ASSUME ServingTypeOK, PermitsFollowBodies, [ServingNext]_allVars
    PROVE  /\ conn' \in [Streams -> ConnPC]
           /\ permits' \in Nat /\ PermitsFollowBodies'
<1>1. CASE UNCHANGED <<conn, permits>>
    BY <1>1, ConnStays DEF ServingTypeOK, PermitsFollowBodies
<1>2. ASSUME NEW s \in Streams,
             conn' \in [Streams -> ConnPC] /\ (BodyStays \/ BodyBegins(s) \/ BodyEnds(s))
      PROVE  conn' \in [Streams -> ConnPC] /\ permits' \in Nat /\ PermitsFollowBodies'
    BY <1>2, PermitsFollow
<1>3. ASSUME NEW s \in Streams, Accept(s) \/ Answered(s)
      PROVE  conn' \in [Streams -> ConnPC] /\ BodyStays
  <2>1. UNCHANGED permits /\ conn[s] # "body"
      BY <1>3 DEF Accept, Answered, StreamStays
  <2>2. Connects(s, "reading") \/ Connects(s, "none")
      BY <1>3 DEF Accept, Answered
  <2> QED BY <2>1, <2>2, ConnectsStays DEF ConnPC
<1>4. ASSUME NEW s \in Streams, Receive(s)
      PROVE  conn' \in [Streams -> ConnPC] /\ BodyStays
  <2>1. UNCHANGED permits /\ conn[s] # "body"
      BY <1>4 DEF Receive, StreamStays
  <2>2. Connects(s, "waiting") \/ Connects(s, "answering")
      BY <1>4 DEF Receive
  <2> QED BY <2>1, <2>2, ConnectsStays DEF ConnPC
<1>5. ASSUME NEW s \in Streams, ClientLeaves(s) \/ Abort(s)
      PROVE  conn' \in [Streams -> ConnPC] /\ (BodyStays \/ BodyEnds(s))
    BY <1>5, DropEnds DEF ClientLeaves, Abort
<1>6. ASSUME NEW s \in Streams, PollFrame(s)
      PROVE  conn' \in [Streams -> ConnPC] /\ (BodyStays \/ BodyEnds(s))
    BY <1>6, DropEnds, ConnStays DEF PollFrame
<1>7. ASSUME NEW s \in Streams, EndOfBody(s)
      PROVE  conn' \in [Streams -> ConnPC] /\ BodyEnds(s)
  <2>1. /\ conn' = [conn EXCEPT ![s] = "answering"] /\ conn \in [Streams -> ConnPC]
        /\ conn[s] = "body" /\ permits' = permits - 1
      BY <1>7 DEF EndOfBody, Connects, ServingTypeOK
  <2>2. s \in Bodies /\ Bodies' = Bodies \ {s}
      BY <2>1 DEF Bodies
  <2> QED BY <2>1, <2>2 DEF BodyEnds, ConnPC
<1>8. ASSUME NEW s \in Streams, Scope(s) \/ HandlePlain(s)
      PROVE  conn' \in [Streams -> ConnPC] /\ BodyStays
  <2>1. UNCHANGED permits
      BY <1>8 DEF Scope, HandlePlain
  <2>2. UNCHANGED conn \/ Respond(s)
      BY <1>8 DEF Scope, HandlePlain
  <2> QED BY <2>1, <2>2, ConnStays, RespondStays
<1>9. ASSUME NEW s \in Streams, HandleStream(s)
      PROVE  conn' \in [Streams -> ConnPC] /\ (BodyStays \/ BodyBegins(s))
  <2>1. CASE UNCHANGED <<conn, permits>>
      BY <2>1, ConnStays
  <2>2. CASE conn[s] = "waiting" /\ Connects(s, "body") /\ permits' = permits + 1
    <3>1. conn' = [conn EXCEPT ![s] = "body"] /\ conn \in [Streams -> ConnPC]
        BY <2>2 DEF Connects, ServingTypeOK
    <3>2. s \notin Bodies /\ Bodies' = Bodies \cup {s}
        BY <2>2, <3>1 DEF Bodies
    <3>3. permits < MAX_ACTIVE_HTTP_STREAMS
        BY <1>9 DEF HandleStream
    <3> QED BY <2>2, <3>1, <3>2, <3>3 DEF BodyBegins, ConnPC
  <2> QED BY <1>9, <2>1, <2>2 DEF HandleStream
<1>10. ASSUME NEW s \in Streams,
              ProjectChanges(s) \/ Begin(s) \/ Pace(s) \/ StreamRenders(s) \/ Send(s) \/ SendError(s)
       PROVE  UNCHANGED <<conn, permits>>
    BY <1>10 DEF ProjectChanges, Begin, Pace, StreamRenders, Send, SendError, ProducerStays
<1>11. ASSUME NEW e \in Edits, StartEdit(e) \/ EditRenders(e) \/ EndJob(e) \/ EndEdit(e)
       PROVE  UNCHANGED <<conn, permits>>
    BY <1>11 DEF StartEdit, EditRenders, EndJob, EndEdit, EditStays
<1>12. CASE WakeWaiters \/ Shutdown \/ UNCHANGED allVars
  <2>1. UNCHANGED <<conn, permits>>
      BY <1>12 DEF WakeWaiters, Shutdown, StreamStays, allVars, serving
  <2> QED BY <1>1, <2>1
<1> QED BY <1>1, <1>2, <1>3, <1>4, <1>5, <1>6, <1>7, <1>8, <1>9, <1>10, <1>11, <1>12
        DEF ServingNext

----------------------------------------------------------------------------
\* The part of the invariant that is about the cache.
OwnerInv ==
    /\ cached \in [Users -> Instance \cup {NotOpen}]
    /\ router \in [Callers -> Router]
    /\ OneOwner

\* The number that says a project is not open is the number of none.
LEMMA InstancesOpen == 0 \in Instance /\ NotOpen \notin Instance
<1>1. Cardinality(Callers) \in Nat
    BY CallersAssumption, FS_CardinalityType
<1> QED BY <1>1 DEF Instance, NotOpen

\* A project that somebody holds is in the cache.
LEMMA HeldIsCached ==
    ASSUME OwnerInv, NEW c \in Callers, router[c] # NoRouter
    PROVE  /\ router[c].user \in Users /\ router[c].instance \in Instance
           /\ cached[router[c].user] = router[c].instance
           /\ router[c].user \in Cached
           /\ c \in Holders(router[c].user)
<1>1. router[c] \in [user: Users, instance: Instance]
    BY DEF OwnerInv, Router
<1>2. cached[router[c].user] = router[c].instance
    BY DEF OwnerInv, OneOwner
<1> QED BY <1>1, <1>2, InstancesOpen DEF Cached, Holders

\* It stays there when users expire or make room for another.
LEMMA HeldIsKept ==
    ASSUME OwnerInv, NEW c \in Callers, router[c] # NoRouter, NEW v, NEW K \in Kept(v)
    PROVE  router[c].user \in K
<1>1. ~can_evict(router[c].user)
    BY HeldIsCached DEF can_evict
<1>2. router[c].user \in Cached
    BY HeldIsCached
<1> QED BY <1>1, <1>2 DEF Kept

\* Nobody holds a project that is not kept, so that any number is new to it.
LEMMA OpenedAnew ==
    ASSUME OwnerInv, NEW v, NEW K \in Kept(v), NEW u \in Users, u \notin K
    PROVE  Holders(u) = {} /\ NewInstance(u) \in Instance
<1>1. ASSUME NEW c \in Callers, router[c].user = u PROVE FALSE
  <2>1. router[c] # NoRouter
      BY <1>1, ServingAssumption DEF NoRouter
  <2> QED BY <1>1, <2>1, HeldIsKept
<1>2. Holders(u) = {}
    BY <1>1 DEF Holders
<1> QED BY <1>2, InstancesOpen DEF NewInstance

\* A worker that ends lets go of its project, while others may be dropped.
LEMMA EndOwns ==
    ASSUME OwnerInv, NEW c \in Callers, NEW v, NEW K \in Kept(v),
           Keeps(K), router' = [router EXCEPT ![c] = NoRouter]
    PROVE  OwnerInv'
<1>1. cached' \in [Users -> Instance \cup {NotOpen}]
    BY DEF OwnerInv, Keeps
<1>2. router' \in [Callers -> Router]
    BY DEF OwnerInv, Router
<1>3. ASSUME NEW d \in Callers, router'[d] # NoRouter
      PROVE  cached'[router'[d].user] = router'[d].instance
  <2>1. router'[d] = router[d] /\ router[d] # NoRouter
      BY <1>3 DEF OwnerInv
  <2>2. router[d].user \in K /\ router[d].user \in Users
      BY <2>1, HeldIsKept, HeldIsCached
  <2>3. cached'[router[d].user] = cached[router[d].user]
      BY <2>2 DEF Keeps
  <2> QED BY <2>1, <2>3, HeldIsCached
<1> QED BY <1>1, <1>2, <1>3 DEF OwnerInv, OneOwner

\* A worker that opens a project, or finds it open, has the one in the cache; those
\* who had it before have the same.
LEMMA OpensOwns ==
    ASSUME OwnerInv, NEW c \in Callers, NEW u \in Users, NEW K \in Kept(u), Opens(c, K, u)
    PROVE  OwnerInv'
<1> DEFINE i == IF u \in K THEN cached[u] ELSE NewInstance(u)
<1>1. K \subseteq Cached
    BY DEF Kept
<1>2. i \in Instance
  <2>1. CASE u \in K
      BY <1>1, <2>1 DEF Cached, OwnerInv
  <2>2. CASE u \notin K
      BY <2>2, OpenedAnew
  <2> QED BY <2>1, <2>2
<1>3. /\ cached' = [v \in Users |-> IF v = u THEN i ELSE IF v \in K THEN cached[v] ELSE NotOpen]
      /\ router' = [router EXCEPT ![c] = [user |-> u, instance |-> i]]
    BY DEF Opens
<1> HIDE DEF i
<1>4. cached' \in [Users -> Instance \cup {NotOpen}]
    BY <1>2, <1>3 DEF OwnerInv
<1>5. [user |-> u, instance |-> i] \in Router
    BY <1>2 DEF Router
<1>6. router' \in [Callers -> Router]
    BY <1>3, <1>5 DEF OwnerInv
<1>7. ASSUME NEW d \in Callers, router'[d] # NoRouter
      PROVE  cached'[router'[d].user] = router'[d].instance
  <2>1. CASE d = c
    <3>1. router'[d] = [user |-> u, instance |-> i]
        BY <1>3, <2>1 DEF OwnerInv
    <3>2. cached'[u] = i
        BY <1>3
    <3> QED BY <3>1, <3>2
  <2>2. CASE d # c
    <3>1. router'[d] = router[d] /\ router[d] # NoRouter
        BY <1>3, <1>7, <2>2 DEF OwnerInv
    <3>2. router[d].user \in K /\ router[d].user \in Users
        BY <3>1, HeldIsKept, HeldIsCached
    <3>3. cached'[router[d].user] = cached[router[d].user]
        BY <1>3, <3>2 DEF i
    <3> QED BY <3>1, <3>3, HeldIsCached
  <2> QED BY <2>1, <2>2
<1> QED BY <1>4, <1>6, <1>7 DEF OwnerInv, OneOwner

\* The registry as it was.
LEMMA OwnersStay == ASSUME OwnerInv, UNCHANGED <<cached, router>> PROVE OwnerInv'
BY DEF OwnerInv, OneOwner

\* A worker ends and the registry is as it was.
LEMMA EndKeeps ==
    ASSUME OwnerInv, NEW c \in Callers, UNCHANGED cached,
           router' = [router EXCEPT ![c] = NoRouter]
    PROVE  OwnerInv'
<1>1. router' \in [Callers -> Router]
    BY DEF OwnerInv, Router
<1>2. ASSUME NEW d \in Callers, router'[d] # NoRouter
      PROVE  cached'[router'[d].user] = router'[d].instance
    BY <1>2 DEF OwnerInv, OneOwner
<1> QED BY <1>1, <1>2 DEF OwnerInv, OneOwner

\* Every step keeps the owners.
LEMMA StepKeepsOwners == ASSUME OwnerInv, [ServingNext]_allVars PROVE OwnerInv'
<1>1. CASE UNCHANGED <<cached, router>>
    BY <1>1, OwnersStay
<1>2. ASSUME NEW s \in Streams,
             \/ Accept(s) \/ Receive(s) \/ ClientLeaves(s) \/ Answered(s) \/ PollFrame(s)
             \/ EndOfBody(s) \/ Abort(s) \/ ProjectChanges(s) \/ HandleStream(s)
      PROVE  UNCHANGED <<cached, router>>
    BY <1>2 DEF Accept, Receive, ClientLeaves, Answered, PollFrame, EndOfBody, Abort,
                ProjectChanges, HandleStream, RegistryStays, DropStays
<1>3. ASSUME NEW s \in Streams,
             HandlePlain(s) \/ Begin(s) \/ Pace(s) \/ StreamRenders(s) \/ Send(s) \/ SendError(s)
      PROVE  OwnerInv'
  <2>1. UNCHANGED cached
      BY <1>3 DEF HandlePlain, Begin, Pace, StreamRenders, Send, SendError,
                  ProducerStays, RegistryStays
  <2>2. UNCHANGED router \/ router' = [router EXCEPT ![s] = NoRouter]
      BY <1>3 DEF HandlePlain, Begin, Pace, StreamRenders, Returned, Send, SendError, Ends, GoesOn
  <2> QED BY <2>1, <2>2, EndKeeps, OwnersStay, StreamsFinite
<1>4. ASSUME NEW s \in Streams, Scope(s) PROVE OwnerInv'
  <2>1. s \in Callers /\ Cookies[s] \subseteq Users
      BY StreamsFinite, ServingAssumption
  <2>2. CASE \E u \in Cookies[s] : \E K \in Kept(u) : Opens(s, K, u)
      BY <2>1, <2>2, OpensOwns
  <2>3. CASE \E u : \E K \in Kept(u) : Keeps(K) /\ Ends(s)
      BY <2>1, <2>3, EndOwns DEF Ends
  <2>4. CASE UNCHANGED cached /\ Ends(s)
      BY <2>1, <2>4, EndKeeps DEF Ends
  <2> QED BY <1>4, <2>2, <2>3, <2>4 DEF Scope, OpenFails
<1>5. ASSUME NEW e \in Edits, StartEdit(e) PROVE OwnerInv'
  <2>1. e \in Callers /\ Cookies[e] \subseteq Users
      BY ServingAssumption DEF Edits
  <2> QED BY <1>5, <2>1, OpensOwns DEF StartEdit
<1>6. ASSUME NEW e \in Edits, EditRenders(e) \/ EndJob(e) PROVE UNCHANGED <<cached, router>>
    BY <1>6 DEF EditRenders, EndJob, RegistryStays
<1>7. ASSUME NEW e \in Edits, EndEdit(e) PROVE OwnerInv'
    BY <1>7, EndKeeps DEF EndEdit, RegistryStays, Edits
<1>8. CASE WakeWaiters \/ Shutdown \/ UNCHANGED allVars
    BY <1>1, <1>8 DEF WakeWaiters, Shutdown, RegistryStays, allVars, serving
<1> QED BY <1>1, <1>2, <1>3, <1>4, <1>5, <1>6, <1>7, <1>8 DEF ServingNext

----------------------------------------------------------------------------
\* At the start nothing is open and nothing is sent.
LEMMA InitServing == ServingInit => ServingTypeOK /\ OwnerInv /\ PermitsFollowBodies
<1> SUFFICES ASSUME ServingInit PROVE ServingTypeOK /\ OwnerInv /\ PermitsFollowBodies
    OBVIOUS
<1>1. ServingTypeOK
    BY DEF ServingInit, ServingTypeOK, ConnPC, Router
<1>2. OwnerInv
    BY <1>1 DEF ServingInit, ServingTypeOK, OwnerInv, OneOwner
<1>3. {s \in Streams : conn[s] = "body"} = {}
    BY DEF ServingInit
<1>4. Cardinality({s \in Streams : conn[s] = "body"}) = 0
    BY <1>3, FS_EmptySet
<1>5. permits = 0 /\ 0 <= MAX_ACTIVE_HTTP_STREAMS
    BY ServingAssumption DEF ServingInit
<1>6. PermitsFollowBodies
    BY <1>4, <1>5 DEF PermitsFollowBodies
<1> QED BY <1>1, <1>2, <1>6

\* The invariant is kept by every step.
LEMMA ServingInductive == ServingInv /\ [ServingNext]_allVars => ServingInv'
<1> SUFFICES ASSUME ServingInv, [ServingNext]_allVars PROVE ServingInv'
    OBVIOUS
<1>1. ServingTypeOK /\ PermitsFollowBodies /\ OwnerInv
    BY DEF ServingInv, ServingTypeOK, OwnerInv
<1>2. conn' \in [Streams -> ConnPC] /\ permits' \in Nat /\ PermitsFollowBodies'
    BY <1>1, StepKeepsPermits
<1>3. OwnerInv'
    BY <1>1, StepKeepsOwners
<1> QED BY <1>2, <1>3 DEF ServingInv, ServingTypeOK, OwnerInv

\* A stream permit is out exactly while a body is being sent, and never more of them
\* than the limit: however bodies, their tasks and their producers end (ReceiverBody).
THEOREM PermitsStayWithBodies == ServingSpec => []PermitsFollowBodies
<1>1. ServingInit => ServingInv
    BY InitServing DEF ServingInv, OwnerInv
<1>2. ServingInv => PermitsFollowBodies
    BY DEF ServingInv
<1> QED BY <1>1, <1>2, ServingInductive, PTL DEF ServingSpec

\* A user's project is never open twice, whatever expires or makes room while edits,
\* streams and abandoned requests hold it (Router::scoped, CachedUser::can_evict).
THEOREM ProjectsHaveOneOwner == ServingSpec => []OneOwner
<1>1. ServingInit => ServingInv
    BY InitServing DEF ServingInv, OwnerInv
<1>2. ServingInv => OneOwner
    BY DEF ServingInv
<1> QED BY <1>1, <1>2, ServingInductive, PTL DEF ServingSpec

==============================================================================
