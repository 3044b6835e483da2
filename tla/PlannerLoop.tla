---------------------------- MODULE PlannerLoop ----------------------------
(***************************************************************************)
(* The planner of an edit (src/src/gemini.rs): it opens a session, asks    *)
(* Gemini turn by turn what to do, carries out one tool call of each       *)
(* answer, and closes the session.  What the tools do to the graph is in   *)
(* ToolSession; here is when a tool is let through, when the edit may end, *)
(* and how the session's record fares among the retention passes.          *)
(*                                                                         *)
(* An edit can be interrupted, run out of time, fail and be cut off by a   *)
(* crash of the server at any moment.  Gemini may answer whatever it likes *)
(* or never; what a tool call asks for does not depend on what was heard.  *)
(***************************************************************************)
EXTENDS EditSessions

CONSTANTS
    Worker, Viewer,         \* the passes: the planner's own, and a listing of the sessions
    FirstRecords,           \* records that earlier runs of the server may have left
    Requirements,           \* what an edit can ask to be listened to
    Requests,               \* what a render can be asked for
    MAX_MUTATIONS_WITHOUT_FEEDBACK,
    TOOL_GROUPS,            \* arrangement and sound
    EDIT_TIMEOUT,
    RETRIES,                \* delays in TRANSIENT_RETRY_DELAYS
    SLACK,                  \* an edit is over this long after its deadline
    MUTATIONS,              \* bound: mutations of an edit
    EDITS, VIEWS, CRASHES   \* bounds

ASSUME PassesAssumption == Worker # Viewer /\ Passes = {Worker, Viewer}

\* 25 minutes against 20; the lease has to outlast the edit.
ASSUME LeaseAssumption ==
    /\ {MAX_MUTATIONS_WITHOUT_FEEDBACK, EDIT_TIMEOUT, RETRIES, SLACK} \subseteq Nat
    /\ EDIT_TIMEOUT + SLACK <= RUNNING_SESSION_LEASE

\* A pass is over long before a lease that begins with it, and takes no part of the
\* days after which a session is too old.
ASSUME PassTimeAssumption ==
    PASS_TIME <= RUNNING_SESSION_LEASE /\ 2 * PASS_TIME <= MAXIMUM_AGE

\* The sessions of earlier runs come first in the order; their records are complete.
ASSUME FirstRecordsAssumption == FirstRecords \subseteq Seq(SessionRecords)

VARIABLES
    phase,      \* where the planner is
    me,         \* its session
    opened,     \* sessions made so far
    deadline,
    cancelled,
    state,      \* LoopState
    group,      \* the tools loaded
    attempt,    \* of the current call to Gemini
    render,     \* what is being rendered
    result,     \* the status with which the edit ends: completed or failed
    unheard,    \* history: edits since the arrangement was last heard or measured
    unproven,   \* history: what the last edit asks for until it was listened to
    edits, views, crashes

loopVars == <<state, group, attempt, render, unheard, unproven>>
planVars == <<phase, me, opened, deadline, cancelled, result, edits>>
budgetVars == <<views, crashes>>
vars == <<sessionVars, loopVars, planVars, budgetVars>>

None == <<>>
Some(x) == <<x>>

LoopState == [published |-> 0, since_feedback |-> 0, since_arrangement_listen |-> 0,
              requirement |-> None]

Init ==
    /\ clock = 0 /\ records \in FirstRecords /\ pass = [a \in Passes |-> Resting]
    /\ phase = "idle" /\ me = 0 /\ opened = Cardinality(Present)
    /\ deadline = 0 /\ cancelled = FALSE /\ result = "none"
    /\ state = LoopState /\ group = "none" /\ attempt = 0 /\ render = None
    /\ unheard = 0 /\ unproven = None
    /\ edits = 0 /\ views = 0 /\ crashes = 0

\* A plausible slip: nothing looks at the deadline.
NeverOutOfTime == clock < 0
OutOfTime == clock >= deadline

\* What run_session starts from; it keeps nothing when it returns.
FreshLoop ==
    /\ state' = LoopState /\ group' = "none" /\ attempt' = 0 /\ render' = None
    /\ unheard' = 0

NoEdit ==
    /\ phase' = "idle" /\ me' = 0 /\ deadline' = 0 /\ cancelled' = FALSE /\ result' = "none"
    /\ FreshLoop /\ unproven' = None

GoTo(next) ==
    /\ phase' = next
    /\ UNCHANGED <<me, opened, deadline, cancelled, result, edits, budgetVars>>

\* run_session returns; the record does not say so yet.
Return(how) ==
    /\ phase' = "closing" /\ result' = how
    /\ FreshLoop
    /\ UNCHANGED <<sessionVars, me, opened, deadline, cancelled, edits, unproven, budgetVars>>

\* The edit was interrupted, or its deadline is over.
CutOff == (cancelled \/ OutOfTime) /\ Return("failed")

----------------------------------------------------------------------------
\* start_edit gives the edit its deadline; create_in begins with a pass.
StartEdit ==
    /\ phase = "idle" /\ edits < EDITS /\ opened + 1 \in Sessions
    /\ clock + EDIT_TIMEOUT + SLACK <= LAST_TIME
    /\ BeginPass(Worker)
    /\ phase' = "opening" /\ edits' = edits + 1
    /\ deadline' = clock + EDIT_TIMEOUT
    /\ UNCHANGED <<me, opened, cancelled, result, loopVars, budgetVars>>

\* The session exists from its record on.
OpenSession ==
    /\ phase = "opening" /\ pass[Worker].at = "ended"
    /\ TakeResult(Worker)
    /\ opened' = opened + 1 /\ me' = opened'
    /\ Put(me', Record("running"))
    /\ phase' = "turn"
    /\ UNCHANGED <<clock, deadline, cancelled, result, edits, loopVars, budgetVars>>

\* The pass or one of the writes failed; what was written is removed.
OpenFails ==
    /\ phase = "opening" /\ Ended(Worker)
    /\ TakeResult(Worker)
    /\ NoEdit
    /\ UNCHANGED <<clock, records, opened, edits, budgetVars>>

Turn ==
    /\ phase = "turn"
    /\ \/ CutOff
       \/ /\ ~cancelled /\ ~OutOfTime
          /\ GoTo("calling")
          /\ UNCHANGED <<sessionVars, loopVars>>

\* The files of the session, the connection or the answer are at fault.
Fail == phase \in {"turn", "calling", "tool", "rendering"} /\ Return("failed")

\* A call to Gemini that is cut off.
CallEnds == phase = "calling" /\ CutOff

\* retry_transient_interaction, and the wait between two attempts.
Unavailable ==
    /\ phase = "calling" /\ attempt < RETRIES
    /\ GoTo("waiting") /\ attempt' = attempt + 1
    /\ UNCHANGED <<sessionVars, state, group, render, unheard, unproven>>

Wait ==
    /\ phase = "waiting"
    /\ \/ CutOff
       \/ ~cancelled /\ ~OutOfTime /\ GoTo("calling") /\ UNCHANGED <<sessionVars, loopVars>>

\* A plausible slip: measurements will do.
CompletionFeedbackRequired == state.since_feedback > 0
completion_listen_required == state.since_arrangement_listen > 0

\* An answer without calls ends the edit, or is turned down.
AnswerDone ==
    /\ phase = "calling" /\ ~OutOfTime
    /\ \/ /\ state.published > 0 /\ ~completion_listen_required
          /\ Return("completed")
       \/ /\ state.published = 0 \/ completion_listen_required
          /\ GoTo("turn") /\ attempt' = 0
          /\ UNCHANGED <<sessionVars, state, group, render, unheard, unproven>>

\* An answer with calls: the first is carried out, the others are sent back.
AnswerCall ==
    /\ phase = "calling" /\ ~OutOfTime /\ ~cancelled
    /\ GoTo("tool") /\ attempt' = 0
    /\ UNCHANGED <<sessionVars, state, group, render, unheard, unproven>>

----------------------------------------------------------------------------
\* Of a tool group any tool; of the tools that only read, one.
Tools == {"read", "render_audio", "analyze_audio", "audition", "commit_audition", "undo"}
             \cup TOOL_GROUPS
MutationTools == {"commit_audition", "undo"} \cup TOOL_GROUPS

dynamic_tool_declarations ==
    {"read", "render_audio", "analyze_audio", "audition", "commit_audition"}
        \cup (IF group = "none" THEN {} ELSE {group, "undo"})

\* A mutation tool works on the arrangement or on an audition slot.
Calls == [name : Tools, in_slot : BOOLEAN]
is_project_mutation_call(call) ==
    call.name \in MutationTools /\ (call.name = "commit_audition" \/ ~call.in_slot)

periodic_feedback_required == state.since_feedback >= MAX_MUTATIONS_WITHOUT_FEEDBACK

\* A plausible slip: committing an audition is taken for a change of the audition.
LetThroughInSlot(call) ==
    /\ call.name \in dynamic_tool_declarations
    /\ ~(periodic_feedback_required /\ is_project_mutation_call(call) /\ ~call.in_slot)

LetThrough(call) ==
    /\ call.name \in dynamic_tool_declarations
    /\ ~(periodic_feedback_required /\ is_project_mutation_call(call))

\* The rest of a turn: the record is brought up to date.
Continue ==
    /\ me \in Present
    /\ update_status(me, "running")
    /\ GoTo("turn")
    /\ UNCHANGED <<clock, pass>>

LoadToolGroup ==
    /\ phase = "tool"
    /\ group' \in TOOL_GROUPS
    /\ Continue
    /\ UNCHANGED <<state, attempt, render, unheard, unproven>>

\* A call that is not let through, that fails, that only reads, or that works on
\* an audition slot: the loop state keeps its counts.
OtherCall ==
    /\ phase = "tool"
    /\ Continue
    /\ UNCHANGED loopVars

\* apply_and_commit_mutation: the server takes what the tool published ...
record_project_mutation(requirement) ==
    state' = [state EXCEPT !.published = @ + 1, !.since_feedback = @ + 1,
                           !.since_arrangement_listen = @ + 1,
                           !.requirement = Some(requirement)]

Mutate ==
    /\ phase = "tool" /\ state.published < MUTATIONS
    /\ \E call \in Calls : is_project_mutation_call(call) /\ LetThrough(call)
    /\ \E requirement \in Requirements :
        record_project_mutation(requirement) /\ unproven' = Some(requirement)
    /\ unheard' = unheard + 1
    /\ Continue
    /\ UNCHANGED <<group, attempt, render>>

\* ... or not: the project changed, the save failed, or the edit was interrupted.
CommitRefused ==
    /\ phase = "tool"
    /\ \E call \in Calls : is_project_mutation_call(call) /\ LetThrough(call)
    /\ Return("failed")

----------------------------------------------------------------------------
covers(requirement, request) ==
    /\ request.parts \cap requirement.parts # {}
    /\ requirement.tracks \subseteq request.tracks

arrangement_render_covers_latest_mutation(request) ==
    state.requirement = None \/ covers(state.requirement[1], request)

\* History: the request has every track the last edit asks for, in its part.
Proves(request) ==
    \A edit \in Requirements : unproven = Some(edit) =>
        /\ edit.tracks \ request.tracks = {}
        /\ \E part \in request.parts : part \in edit.parts

StartRender ==
    /\ phase = "tool"
    /\ \E name \in {"render_audio", "analyze_audio", "audition"}, request \in Requests :
        LET listens == name = "render_audio"
        IN render' = Some([name |-> name,
                           covers |-> listens /\ arrangement_render_covers_latest_mutation(request),
                           proves |-> listens /\ Proves(request)])
    /\ GoTo("rendering")
    /\ UNCHANGED <<sessionVars, state, group, attempt, unheard, unproven>>

\* Only the arrangement counts as feedback, and as heard only what was listened
\* to, all of it.
record_arrangement_feedback == [state EXCEPT !.since_feedback = 0]
record_arrangement_listen(covered) ==
    IF covered
    THEN [record_arrangement_feedback EXCEPT !.since_arrangement_listen = 0, !.requirement = None]
    ELSE record_arrangement_feedback

Rendered(done) ==
    CASE done.name = "render_audio" -> record_arrangement_listen(done.covers)
      [] done.name = "analyze_audio" -> record_arrangement_feedback
      [] done.name = "audition" -> state

RenderEnds ==
    /\ phase = "rendering" /\ me \in Present
    /\ LET done == render[1]
       IN /\ state' = Rendered(done)
          /\ unheard' = IF done.name = "audition" THEN unheard ELSE 0
          /\ unproven' = IF done.proves THEN None ELSE unproven
          /\ Put(me, [status |-> "running", updated |-> clock,
                      audio |-> records[me].audio \/ done.name # "analyze_audio"])
    /\ GoTo("turn") /\ render' = None
    /\ UNCHANGED <<clock, pass, group, attempt>>

\* The error is the answer to the call.
RenderFails ==
    /\ phase = "rendering"
    /\ Continue
    /\ render' = None
    /\ UNCHANGED <<state, group, attempt, unheard, unproven>>

\* A render polls its cancellation, which the deadline is part of.
RenderStops == (cancelled \/ OutOfTime) /\ RenderFails

----------------------------------------------------------------------------
\* interpret_with_updates: the record gets its last status, if it can be written,
\* and a pass follows whose failure is only logged.
CloseSession ==
    /\ phase = "closing" /\ pass[Worker] = Resting
    /\ \/ /\ me \in Present
          /\ update_status(me, result)
       \/ UNCHANGED records
    /\ pass' = [pass EXCEPT ![Worker] = Started(DOMAIN records')]
    /\ phase' = "sweeping" /\ me' = 0 /\ deadline' = 0 /\ unproven' = None
    /\ UNCHANGED <<clock, opened, cancelled, result, edits, budgetVars, state, group, attempt,
                   render, unheard>>

Finish ==
    /\ phase = "sweeping" /\ Ended(Worker)
    /\ TakeResult(Worker)
    /\ NoEdit
    /\ UNCHANGED <<clock, records, opened, edits, budgetVars>>

Interrupt ==
    /\ phase \notin {"idle", "sweeping"} /\ ~cancelled
    /\ cancelled' = TRUE
    /\ UNCHANGED <<sessionVars, phase, me, opened, deadline, result, edits, loopVars, budgetVars>>

\* The server stops in the middle of an edit and starts again; the records stay as
\* they are.  (Without an edit it leaves what FirstRecords begins with.)
Crash ==
    /\ crashes < CRASHES /\ phase # "idle"
    /\ crashes' = crashes + 1
    /\ pass' = [a \in Passes |-> Resting]
    /\ NoEdit
    /\ UNCHANGED <<clock, records, opened, edits, views>>

\* The browser asks for the list of sessions.
View ==
    /\ views < VIEWS
    /\ BeginPass(Viewer) /\ views' = views + 1
    /\ UNCHANGED <<loopVars, planVars, crashes>>

Viewed == TakeResult(Viewer) /\ UNCHANGED <<clock, records, loopVars, planVars, budgetVars>>

Sweep(a) == PassStep(a) /\ UNCHANGED <<loopVars, planVars, budgetVars>>

Tick ==
    /\ clock < LAST_TIME
    /\ phase \notin {"idle", "sweeping"} => clock < deadline + SLACK
    /\ \A a \in Passes : /\ ~Ended(a)
                         /\ pass[a].at \in {"visiting", "writing"} => clock < pass[a].now + PASS_TIME
    /\ clock' = clock + 1
    /\ UNCHANGED <<records, pass, loopVars, planVars, budgetVars>>

Live == phase \in {"turn", "calling", "waiting", "tool", "rendering", "closing"}

Gemini == Fail \/ Unavailable \/ AnswerDone \/ AnswerCall

Tool == LoadToolGroup \/ OtherCall \/ Mutate \/ CommitRefused \/ StartRender

Planner == OpenSession \/ OpenFails \/ Turn \/ CallEnds \/ Wait \/ Tool \/ RenderStops
           \/ CloseSession \/ Finish

Next ==
    \/ StartEdit \/ Interrupt \/ Crash \/ View \/ Viewed \/ Tick
    \/ Planner \/ Gemini \/ RenderEnds \/ RenderFails
    \/ \E a \in Passes : Sweep(a)

\* The worker goes on, time passes, and passes come to an end; that Gemini
\* answers or that a render succeeds is not taken for granted.
Fairness ==
    /\ WF_vars(Planner) /\ WF_vars(Tick) /\ WF_vars(Viewed)
    /\ \A a \in Passes : WF_vars(Sweep(a))

Spec == Init /\ [][Next]_vars /\ Fairness

----------------------------------------------------------------------------
(* Properties.                                                             *)

\* An edit is completed only when the whole of what its last mutation asks for
\* was listened to after that mutation (gemini.rs, the gates of the turn).
ListenedBeforeCompletion == phase = "closing" /\ result = "completed" => unproven = None

\* No more mutations reach the project in a row than the planner may make
\* without hearing or measuring the arrangement (STUDIO.md asks for it).
FeedbackInTime == unheard <= MAX_MUTATIONS_WITHOUT_FEEDBACK

\* However passes come in between, and however late the edit is, a planner that
\* is at work keeps a record that says so: no pass takes it for abandoned.
LiveSessionKeepsItsRecord == Live => me \in Present /\ records[me].status = "running"

\* A pass that comes to its end leaves no session that runs past its lease,
\* whatever workers, crashes and other passes did meanwhile.
PassClosesTheAbandoned ==
    [][\A a \in Passes : pass[a].at = "visiting" /\ pass'[a].at = "ended" =>
           \A s \in DOMAIN records' : ~LeaseIsOver(records'[s], pass[a].now)]_vars

\* A closed session that is not too old goes for its size only when the sounds
\* of all closed sessions are gone, or when there are too many (README.md:75).
AudioGoesFirst ==
    [][\A a \in Passes : pass[a].at = "visiting" /\ pass'[a].at = "ended" =>
           \A s \in Present \ DOMAIN records' :
               \/ pass[a].now - records[s].updated > MAXIMUM_AGE
               \/ Cardinality(pass[a].seen) > MAXIMUM_COUNT
               \/ \A other \in pass[a].seen :
                      ~other.running /\ other.id \in DOMAIN records' => ~records'[other.id].audio]_vars

\* An edit under way comes to its end, whatever Gemini does.
PlannerEnds == phase # "idle" ~> phase = "idle"

\* README.md:75 on what becomes of a session: one that is closed stays so.
ClosedStaysClosed ==
    [][\A s \in Present \cap DOMAIN records' :
           records[s].status # "running" => records'[s].status = records[s].status]_vars
=============================================================================
