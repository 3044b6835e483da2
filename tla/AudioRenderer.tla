---------------------------- MODULE AudioRenderer ----------------------------
(***************************************************************************)
(* The process-wide audio renderer (src/src/audio_renderer.rs): edits and  *)
(* audio streams share one native renderer.  A caller registers as a       *)
(* waiter, then alternates between asking whether it was cancelled, which  *)
(* it does without the mutex, and trying to take the renderer, which it    *)
(* does under it; when it may not, it sleeps on the condition variable for *)
(* at most CANCELLATION_POLL_INTERVAL.                                     *)
(*                                                                         *)
(* A step is one critical section of AudioRenderState or one call of the   *)
(* caller's is_cancelled.  Dropping AudioWaiter and AudioRenderPermit are  *)
(* steps of their own, whichever way the caller leaves, a panic included.  *)
(***************************************************************************)
EXTENDS Integers, FiniteSets

CONSTANTS
    Callers,        \* threads that render
    Background      \* those of them that render ahead for a stream

ASSUME CallersAssumption == IsFiniteSet(Callers) /\ Background \subseteq Callers

VARIABLES
    rendering,          \* AudioRenderState.rendering
    foreground_waiters, \* AudioRenderState.foreground_waiters
    background_waiters, \* AudioRenderState.background_waiters
    pc,                 \* where each caller is in render_with
    cancelled           \* callers whose is_cancelled answers true

vars == <<rendering, foreground_waiters, background_waiters, pc, cancelled>>

\* A waiter is between add_waiter and remove_waiter, a holder has the permit.
WaiterPC == {"checking", "trying", "sleeping", "leaving"}
HolderPC == {"holding", "rendering", "releasing"}

Waiting == {c \in Callers : pc[c] \in WaiterPC}
Holding == {c \in Callers : pc[c] \in HolderPC}

Init ==
    /\ rendering = FALSE
    /\ foreground_waiters = 0 /\ background_waiters = 0
    /\ pc = [c \in Callers |-> "idle"]
    /\ cancelled = {}

\* add_waiter and remove_waiter of the state.
CountWaiter(c, change) ==
    IF c \in Background
    THEN background_waiters' = background_waiters + change /\ UNCHANGED foreground_waiters
    ELSE foreground_waiters' = foreground_waiters + change /\ UNCHANGED background_waiters

CountsStay == UNCHANGED <<foreground_waiters, background_waiters>>

\* c goes on; notify_all wakes the others.
Goes(c, where) == pc' = [pc EXCEPT ![c] = where]

GoesNotifying(c, where) ==
    pc' = [d \in Callers |-> IF d = c THEN where
                             ELSE IF pc[d] = "sleeping" THEN "checking" ELSE pc[d]]

----------------------------------------------------------------------------
\* render_with is called.
Request(c) ==
    /\ pc[c] = "idle"
    /\ Goes(c, "asking")
    /\ UNCHANGED <<rendering, cancelled>> /\ CountsStay

\* acquire: a request that is cancelled already does not queue.
Register(c) ==
    /\ pc[c] = "asking"
    /\ \/ /\ c \in cancelled
          /\ Goes(c, "idle") /\ cancelled' = cancelled \ {c}
          /\ CountsStay
       \/ /\ c \notin cancelled
          /\ CountWaiter(c, 1)
          /\ GoesNotifying(c, "checking")
          /\ UNCHANGED cancelled
    /\ UNCHANGED rendering

Check(c) ==
    /\ pc[c] = "checking"
    /\ Goes(c, IF c \in cancelled THEN "leaving" ELSE "trying")
    /\ UNCHANGED <<rendering, cancelled>> /\ CountsStay

\* A plausible slip: whoever finds the renderer free takes it.
FreeForAnyone(c) == ~rendering

MayRender(c) == ~rendering /\ (c \notin Background \/ foreground_waiters = 0)

Try(c) ==
    /\ pc[c] = "trying"
    /\ \/ /\ MayRender(c)
          /\ rendering' = TRUE
          /\ CountWaiter(c, -1)
          /\ Goes(c, "holding")
       \/ /\ ~MayRender(c)
          /\ Goes(c, "sleeping")
          /\ UNCHANGED rendering /\ CountsStay
    /\ UNCHANGED cancelled

\* A plausible slip: waiters wait for a notification only.
NeverTimesOut(c) == pc[c] = "sleeping" /\ FALSE /\ UNCHANGED vars

\* wait_timeout returns after the poll interval, or for no reason.
TimeOut(c) ==
    /\ pc[c] = "sleeping"
    /\ Goes(c, "checking")
    /\ UNCHANGED <<rendering, cancelled>> /\ CountsStay

\* A plausible slip: whoever gives up leaves without telling the others.
LeaveQuietly(c) ==
    /\ pc[c] = "leaving"
    /\ CountWaiter(c, -1)
    /\ Goes(c, "idle") /\ cancelled' = cancelled \ {c}
    /\ UNCHANGED rendering

\* A plausible slip: a waiter that gives up stays counted.
LeaveCounted(c) ==
    /\ pc[c] = "leaving"
    /\ GoesNotifying(c, "idle") /\ cancelled' = cancelled \ {c}
    /\ UNCHANGED rendering /\ CountsStay

\* A cancelled waiter gives up: AudioWaiter is dropped.
Leave(c) ==
    /\ pc[c] = "leaving"
    /\ CountWaiter(c, -1)
    /\ GoesNotifying(c, "idle") /\ cancelled' = cancelled \ {c}
    /\ UNCHANGED rendering

\* The permit is held; a request cancelled by now does not render.
BeginRender(c) ==
    /\ pc[c] = "holding"
    /\ Goes(c, IF c \in cancelled THEN "releasing" ELSE "rendering")
    /\ UNCHANGED <<rendering, cancelled>> /\ CountsStay

\* The render ends, fails, is cancelled or panics.
EndRender(c) ==
    /\ pc[c] = "rendering"
    /\ Goes(c, "releasing")
    /\ UNCHANGED <<rendering, cancelled>> /\ CountsStay

\* A plausible slip: a request that was cancelled returns with the flag still up.
ReleaseUnlessCancelled(c) ==
    /\ pc[c] = "releasing"
    /\ rendering' = (c \in cancelled)
    /\ GoesNotifying(c, "idle") /\ cancelled' = cancelled \ {c}
    /\ CountsStay

\* AudioRenderPermit is dropped.
Release(c) ==
    /\ pc[c] = "releasing"
    /\ rendering' = FALSE
    /\ GoesNotifying(c, "idle") /\ cancelled' = cancelled \ {c}
    /\ CountsStay

\* The user interrupts, a listener disconnects, a deadline passes: is_cancelled
\* turns true without the mutex and without a notification.
Cancel(c) ==
    /\ pc[c] # "idle" /\ c \notin cancelled
    /\ cancelled' = cancelled \cup {c}
    /\ UNCHANGED <<rendering, pc>> /\ CountsStay

\* The interrupt handler notifies the waiters afterwards.
wake_waiters ==
    /\ pc' = [d \in Callers |-> IF pc[d] = "sleeping" THEN "checking" ELSE pc[d]]
    /\ UNCHANGED <<rendering, cancelled>> /\ CountsStay

Next ==
    \/ \E c \in Callers :
          \/ Request(c) \/ Register(c) \/ Check(c) \/ Try(c) \/ TimeOut(c) \/ Leave(c)
          \/ BeginRender(c) \/ EndRender(c) \/ Release(c) \/ Cancel(c)
    \/ wake_waiters

Spec == Init /\ [][Next]_vars

----------------------------------------------------------------------------
PC == {"idle", "asking"} \cup WaiterPC \cup HolderPC

\* The state has the shape the declarations say; the waiter counts are unsigned.
TypeOK ==
    /\ rendering \in BOOLEAN
    /\ foreground_waiters \in Nat /\ background_waiters \in Nat
    /\ pc \in [Callers -> PC]
    /\ cancelled \subseteq Callers

\* Both counts are those of the callers between add_waiter and remove_waiter,
\* whichever way each of them left: a leaked foreground waiter would shut the
\* background out for good.
CountsExact ==
    /\ foreground_waiters = Cardinality(Waiting \ Background)
    /\ background_waiters = Cardinality(Waiting \cap Background)

\* No missed wake-up: nobody sleeps while it could render.  So no waiter depends
\* on the poll to get its turn, only to notice that it was cancelled.
NoMissedWakeup == \A c \in Callers : pc[c] = "sleeping" => ~MayRender(c)

Queue == INSTANCE RenderQueue WITH waiting <- Waiting, admitted <- Holding

\* The renderer keeps the promises of RenderQueue: one render at a time, and the
\* foreground first.
KeepsQueue == Queue!Spec

\* The renderer does not stand idle while somebody waits for it who may have it.
\* Edits that keep arriving and giving up can hold a stream off for ever: that is
\* what their priority means.
NobodyIsForgotten ==
    \A c \in Callers :
        (c \in Waiting) ~>
            \/ c \notin Waiting
            \/ Holding # {}
            \/ c \in Background /\ ~(Waiting \subseteq Background)
=============================================================================
