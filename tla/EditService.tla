----------------------------- MODULE EditService -----------------------------
(***************************************************************************)
(* The prompted-edit service of one user (src/src/server.rs): request      *)
(* handlers that start, interrupt and override edits, one worker thread    *)
(* per accepted edit, the process-wide edit limiter, the project behind    *)
(* its mutex and the project file.                                         *)
(*                                                                         *)
(* A step of this module is what the code does between two points where    *)
(* another thread can run: one critical section of the job table or of the *)
(* project mutex, one limiter operation, or one call into the planner.     *)
(* `lock` is the worker that holds the project mutex across several of     *)
(* those, 0 when it is free.                                               *)
(*                                                                         *)
(* Bounds: the first process accepts at most MaxJobs edits and each after  *)
(* it one less, MaxGraphs graphs are drawn, users stop at MaxVersion, the  *)
(* process restarts MaxRestarts times.  Faults names what the environment  *)
(* may do.                                                                 *)
(***************************************************************************)
EXTENDS EditJobs, ProjectState, Integers

CONSTANTS
    Handlers,           \* request threads
    MAX_ACTIVE_EDITS,   \* permits of the process-wide edit limiter
    Faults,             \* a subset of FaultKinds
    MaxJobs, MaxGraphs, MaxVersion, MaxRestarts

FaultKinds ==
    {"spawn",      \* the worker thread cannot be started
     "panic",      \* the planner panics
     "save",       \* a save fails and leaves the project file alone
     "sync"}       \* a save fails after the new file has replaced the old one

ASSUME ServiceAssumption ==
    /\ Faults \subseteq FaultKinds
    /\ MAX_ACTIVE_EDITS \in Nat \ {0}
    /\ {MaxJobs, MaxGraphs, MaxVersion, MaxRestarts} \subseteq Nat

VARIABLES
    jobs,       \* the job table (EditJobs)
    next_id,    \* EditJobs.next_id
    active,     \* Limiter.active: permits that are out
    project,    \* the project in memory
    disk,       \* what the project file holds
    lock,       \* the worker inside the project mutex, or NoWorker
    handler,    \* what each request thread is doing
    worker,     \* the worker threads that have not ended
    graphs,     \* how many graphs have been drawn
    epoch,      \* how often the process has restarted
    seen,       \* <<version, graph>> pairs that a client could read
    authors     \* for each operation, the jobs that published a step of it

vars == <<jobs, next_id, active, project, disk, lock, handler, worker,
          graphs, epoch, seen, authors>>

NoWorker == 0

Idle == [pc |-> "idle"]

HandlerState ==
    [pc: {"idle"}]
    \cup [pc: {"snapshot"}, op: Ops]
    \cup [pc: {"permit", "create"}, op: Ops, version: Nat, graph: Graph]
    \cup [pc: {"spawn"}, op: Ops, version: Nat, graph: Graph, id: JobIds]
    \cup [pc: {"respond"}, id: JobIds, permits: {0, 1}]
    \cup [pc: {"panicked"}]

WorkerPC ==
    {"starting", "planning", "calling", "committing", "publishing", "completing",
     "marking", "finalizing", "succeeding", "failing", "persisting", "reporting",
     "finishing", "dropping"}

\* expected is expected_version; graph is the graph file of the Gemini session;
\* draft is the graph that a mutation tool has just written there.
Worker == [pc: WorkerPC, op: Ops, expected: Nat, graph: Graph, draft: Graph,
           published: BOOLEAN, interrupted: BOOLEAN, late: BOOLEAN]

LockedPC == {"publishing", "marking", "finalizing"}

Init ==
    /\ jobs = <<>>
    /\ next_id = 1
    /\ active = 0
    /\ project = InitialProject
    /\ disk = InitialProject
    /\ lock = NoWorker
    /\ handler = [h \in Handlers |-> Idle]
    /\ worker = <<>>
    /\ graphs = InitialGraph
    /\ epoch = 0
    /\ seen = {<<InitialProject.version, InitialGraph>>}
    /\ authors = [op \in Ops |-> {}]

----------------------------------------------------------------------------
(* Saving *)

SaveOutcome ==
    {"saved"} \cup (IF "save" \in Faults THEN {"refused"} ELSE {})
              \cup (IF "sync" \in Faults THEN {"unsynced"} ELSE {})

\* A plausible slip: memory takes the candidate before the save, and keeps it
\* when the save fails.
PublishBeforeSaving(candidate, outcome) ==
    /\ disk' = IF outcome = "refused" THEN disk ELSE candidate
    /\ project' = candidate
    /\ seen' = seen \cup {<<candidate.version, candidate.graph>>}

\* The file is replaced by a rename; the directory is synced afterwards.  When
\* that sync fails the new file is in place and the save still reports an error.
publish(candidate, outcome) ==
    /\ disk' = IF outcome = "refused" THEN disk ELSE candidate
    /\ project' = IF outcome = "saved" THEN candidate ELSE project
    /\ seen' = IF outcome = "saved"
               THEN seen \cup {<<candidate.version, candidate.graph>>} ELSE seen

\* The bound on versions stops users, never an edit under way.
VersionLeft == project.version < MaxVersion

----------------------------------------------------------------------------
(* Request handlers *)

JobsAndWorkersStay == UNCHANGED <<jobs, next_id, worker, authors, epoch>>
ProjectStays == UNCHANGED <<project, disk, seen, graphs>>

Becomes(h, state) == handler' = [handler EXCEPT ![h] = state]

\* POST /api/edits: a job with this operation id answers the request at once.
start_edit(h, op) ==
    /\ handler[h].pc = "idle"
    /\ JobsOf(jobs, op) = {}
    /\ Becomes(h, [pc |-> "snapshot", op |-> op])
    /\ ProjectStays /\ JobsAndWorkersStay /\ UNCHANGED <<active, lock>>

\* A plausible slip: only the job table is asked whether the edit is known.
SnapshotWithoutLookup(h) ==
    /\ handler[h].pc = "snapshot"
    /\ lock = NoWorker
    /\ Becomes(h, [pc |-> "permit", op |-> handler[h].op,
                   version |-> project.version, graph |-> project.graph])
    /\ ProjectStays /\ JobsAndWorkersStay /\ UNCHANGED <<active, lock>>

\* The project is cloned under its mutex.  An operation it records is answered
\* from that record.
SnapshotProject(h) ==
    /\ handler[h].pc = "snapshot"
    /\ lock = NoWorker
    /\ LET op == handler[h].op IN
       Becomes(h, IF Status(project, op) # "absent" THEN Idle
                  ELSE [pc |-> "permit", op |-> op,
                        version |-> project.version, graph |-> project.graph])
    /\ ProjectStays /\ JobsAndWorkersStay /\ UNCHANGED <<active, lock>>

\* Without a permit the request is answered from a job that has appeared by now,
\* or turned away.
AcquirePermit(h) ==
    /\ handler[h].pc = "permit"
    /\ IF active < MAX_ACTIVE_EDITS
       THEN /\ active' = active + 1
            /\ Becomes(h, [handler[h] EXCEPT !.pc = "create"])
       ELSE /\ UNCHANGED active
            /\ Becomes(h, Idle)
    /\ ProjectStays /\ JobsAndWorkersStay /\ UNCHANGED lock

\* Another request may have created the job since start_edit looked.
CreateJob(h) ==
    /\ handler[h].pc = "create"
    /\ LET op == handler[h].op IN
       \/ \E id \in JobsOf(jobs, op) :
             /\ \A i \in JobsOf(jobs, op) : id <= i
             /\ Becomes(h, [pc |-> "respond", id |-> id, permits |-> 1])
             /\ UNCHANGED <<jobs, next_id, active>>
       \/ /\ JobsOf(jobs, op) = {} /\ ~CanCreate(jobs)
          /\ active' = active - 1
          /\ Becomes(h, Idle)
          /\ UNCHANGED <<jobs, next_id>>
       \/ /\ JobsOf(jobs, op) = {} /\ CanCreate(jobs)
          /\ next_id + epoch <= MaxJobs
          /\ jobs' = create(jobs, next_id, op)
          /\ next_id' = next_id + 1
          /\ Becomes(h, [pc |-> "spawn", op |-> op, version |-> handler[h].version,
                         graph |-> handler[h].graph, id |-> next_id])
          /\ UNCHANGED active
    /\ ProjectStays /\ UNCHANGED <<lock, worker, epoch, authors>>

NewWorker(request) ==
    [pc |-> "starting", op |-> request.op, expected |-> request.version,
     graph |-> request.graph, draft |-> request.graph,
     published |-> FALSE, interrupted |-> FALSE, late |-> FALSE]

\* The worker takes the permit with it.  When no thread can be started the closure,
\* and the permit in it, are dropped.
SpawnWorker(h) ==
    /\ handler[h].pc = "spawn"
    /\ LET id == handler[h].id IN
       \/ /\ worker' = [i \in DOMAIN worker \cup {id} |->
                            IF i = id THEN NewWorker(handler[h]) ELSE worker[i]]
          /\ UNCHANGED <<jobs, active>>
       \/ /\ "spawn" \in Faults
          /\ jobs' = fail(jobs, id)
          /\ active' = active - 1
          /\ UNCHANGED worker
    /\ Becomes(h, Idle)
    /\ ProjectStays /\ UNCHANGED <<next_id, lock, epoch, authors>>

\* POST /api/edits/<id>/interrupt.  A job that is not open is refused with no effect.
Interrupt(h, id) ==
    /\ handler[h].pc = "idle"
    /\ Open(jobs, id)
    /\ jobs' = interrupt(jobs, id)
    /\ Becomes(h, [pc |-> "respond", id |-> id, permits |-> 0])
    /\ ProjectStays /\ UNCHANGED <<next_id, active, lock, worker, epoch, authors>>

\* A plausible slip: a repeated request that finds its job keeps the permit.
RespondKeepsPermit(h) ==
    /\ handler[h].pc = "respond"
    /\ Becomes(h, IF handler[h].id \in DOMAIN jobs THEN Idle ELSE [pc |-> "panicked"])
    /\ ProjectStays /\ JobsAndWorkersStay /\ UNCHANGED <<active, lock>>

\* Both callers look the job up again and expect to find it; the permit, if the
\* request holds one, is dropped on the way out and by a panic alike.
RespondWithJob(h) ==
    /\ handler[h].pc = "respond"
    /\ Becomes(h, IF handler[h].id \in DOMAIN jobs THEN Idle ELSE [pc |-> "panicked"])
    /\ active' = active - handler[h].permits
    /\ ProjectStays /\ JobsAndWorkersStay /\ UNCHANGED lock

\* POST /api/duration, /api/mix and /api/reset: the current graph is changed and
\* pushed on the history under the project mutex.
ChangeProject ==
    /\ lock = NoWorker
    /\ VersionLeft /\ graphs < MaxGraphs
    /\ CanPush(project)
    /\ \E outcome \in SaveOutcome :
          publish(push(change_graph(project, graphs + 1), project.graph), outcome)
    /\ graphs' = graphs + 1
    /\ JobsAndWorkersStay /\ UNCHANGED <<active, lock, handler>>

\* POST /api/undo goes to the parent, POST /api/history to any snapshot.
Navigate ==
    /\ lock = NoWorker
    /\ VersionLeft
    /\ \E index \in {parent(project)} \cup (1..Len(project.snapshots)) :
          /\ index # NoParent
          /\ \E outcome \in SaveOutcome : publish(checkout(project, index), outcome)
    /\ JobsAndWorkersStay /\ UNCHANGED <<active, lock, handler, graphs>>

----------------------------------------------------------------------------
(* Edit workers *)

At(id, pc) == id \in DOMAIN worker /\ worker[id].pc = pc

Goes(id, pc) == worker' = [worker EXCEPT ![id].pc = pc]

ServiceStays == UNCHANGED <<next_id, active, handler, epoch>>

\* run_edit_job starts; perform_gemini_edit takes the cancellation flag of its job
\* and panics, inside catch_unwind, when the job is not in the table.
StartWorker(id) ==
    /\ At(id, "starting")
    /\ jobs' = set_running(jobs, id)
    /\ Goes(id, IF id \in DOMAIN jobs THEN "planning" ELSE "persisting")
    /\ ProjectStays /\ ServiceStays /\ UNCHANGED <<lock, authors>>

\* The edit's deadline passes.
DeadlinePasses(id) ==
    /\ id \in DOMAIN worker
    /\ ~worker[id].late
    /\ worker' = [worker EXCEPT ![id].late = TRUE]
    /\ ProjectStays /\ ServiceStays /\ UNCHANGED <<jobs, lock, authors>>

\* One turn of the planning loop begins: cancellation, then the deadline.
BeginTurn(id) ==
    /\ At(id, "planning")
    /\ Goes(id, IF is_interrupted(jobs, id) \/ worker[id].late
                THEN "failing" ELSE "calling")
    /\ ProjectStays /\ ServiceStays /\ UNCHANGED <<jobs, lock, authors>>

\* A turn ends with nothing to publish, or with an error: a transport failure, an
\* invalid answer, a cancelled call.
EndTurn(id) ==
    /\ At(id, "calling")
    /\ \E pc \in {"planning", "failing"} : Goes(id, pc)
    /\ ProjectStays /\ ServiceStays /\ UNCHANGED <<jobs, lock, authors>>

\* A mutation tool has written a new graph into the session, and
\* commit_gemini_update looks whether the edit was interrupted.
DraftGraph(id) ==
    /\ At(id, "calling")
    /\ graphs < MaxGraphs
    /\ worker' = [worker EXCEPT ![id] =
            [@ EXCEPT !.draft = graphs + 1,
                      !.pc = IF is_interrupted(jobs, id) THEN "failing" ELSE "committing"]]
    /\ graphs' = graphs + 1
    /\ UNCHANGED <<project, disk, seen, jobs, lock, authors>> /\ ServiceStays

\* A plausible slip: the edit is reported without completing its record.
FinishWithoutCompletion(id) ==
    /\ At(id, "calling")
    /\ Goes(id, IF worker[id].published THEN "succeeding" ELSE "failing")
    /\ ProjectStays /\ ServiceStays /\ UNCHANGED <<jobs, lock, authors>>

\* Gemini answers without a tool call: the planner returns Ok.
FinishPlan(id) ==
    /\ At(id, "calling")
    /\ Goes(id, IF worker[id].published THEN "completing" ELSE "failing")
    /\ ProjectStays /\ ServiceStays /\ UNCHANGED <<jobs, lock, authors>>

\* catch_unwind: a panic is persisted as a failure, whatever the interrupt flag says.
PlannerPanics(id) ==
    /\ "panic" \in Faults
    /\ worker[id].pc \in {"planning", "calling"}
    /\ worker' = [worker EXCEPT ![id] =
            [@ EXCEPT !.pc = "persisting", !.interrupted = FALSE]]
    /\ ProjectStays /\ ServiceStays /\ UNCHANGED <<jobs, lock, authors>>

\* A plausible slip: the version is not compared, so a newer project is overwritten.
MayCommitAnyVersion(id) ==
    /\ CanRecordStep(project, worker[id].op)
    /\ CanPush(project)

MayCommit(id) ==
    /\ project.version = worker[id].expected
    /\ CanRecordStep(project, worker[id].op)
    /\ CanPush(project)

\* The rest of commit_gemini_update holds the project mutex.  A step that cannot be
\* committed, or whose save fails, ends the edit.
CommitUpdate(id) ==
    /\ At(id, "committing")
    /\ lock = NoWorker
    /\ LET w == worker[id]
           candidate == push(record_operation_step(
                                replace_graph(project, w.draft), w.op), w.graph)
       IN
       \/ /\ MayCommit(id)
          /\ publish(candidate, "saved")
          /\ lock' = id
          /\ worker' = [worker EXCEPT ![id] =
                 [@ EXCEPT !.pc = "publishing", !.published = TRUE,
                           !.expected = candidate.version, !.graph = w.draft]]
          /\ authors' = [authors EXCEPT ![w.op] = @ \cup {<<epoch, id>>}]
       \/ /\ \/ /\ MayCommit(id)
                /\ \E outcome \in SaveOutcome \ {"saved"} : publish(candidate, outcome)
             \/ ~MayCommit(id) /\ UNCHANGED <<project, disk, seen>>
          /\ Goes(id, "failing")
          /\ UNCHANGED <<lock, authors>>
    /\ ServiceStays /\ UNCHANGED <<jobs, graphs>>

PublishUpdate(id) ==
    /\ At(id, "publishing")
    /\ jobs' = publish_update(jobs, id, worker[id].expected)
    /\ lock' = NoWorker
    /\ Goes(id, "planning")
    /\ ProjectStays /\ ServiceStays /\ UNCHANGED authors

\* complete_gemini_operation takes the project mutex, then looks at the flag.
BeginCompletion(id) ==
    /\ At(id, "completing")
    /\ lock = NoWorker
    /\ IF is_interrupted(jobs, id)
       THEN Goes(id, "failing") /\ UNCHANGED lock
       ELSE Goes(id, "marking") /\ lock' = id
    /\ ProjectStays /\ ServiceStays /\ UNCHANGED <<jobs, authors>>

MayComplete(id) ==
    /\ project.version = worker[id].expected
    /\ IsRunning(project, worker[id].op)
    /\ MatchesCurrentSnapshot(project)

MarkComplete(id) ==
    /\ At(id, "marking")
    /\ LET candidate == mark_operation_complete(project, worker[id].op) IN
       \/ /\ MayComplete(id)
          /\ publish(candidate, "saved")
          /\ worker' = [worker EXCEPT ![id] =
                 [@ EXCEPT !.pc = "finalizing", !.expected = candidate.version]]
          /\ UNCHANGED lock
       \/ /\ \/ /\ MayComplete(id)
                /\ \E outcome \in SaveOutcome \ {"saved"} : publish(candidate, outcome)
             \/ ~MayComplete(id) /\ UNCHANGED <<project, disk, seen>>
          /\ Goes(id, "failing")
          /\ lock' = NoWorker
    /\ ServiceStays /\ UNCHANGED <<jobs, graphs, authors>>

FinalizeUpdates(id) ==
    /\ At(id, "finalizing")
    /\ jobs' = finalize_updates(jobs, id, worker[id].expected)
    /\ lock' = NoWorker
    /\ Goes(id, "succeeding")
    /\ ProjectStays /\ ServiceStays /\ UNCHANGED authors

ReportSuccess(id) ==
    /\ At(id, "succeeding")
    /\ jobs' = complete(jobs, id)
    /\ Goes(id, "finishing")
    /\ ProjectStays /\ ServiceStays /\ UNCHANGED <<lock, authors>>

\* The failure branch of run_edit_job reads the flag before it persists the outcome.
ReadInterrupted(id) ==
    /\ At(id, "failing")
    /\ worker' = [worker EXCEPT ![id] =
            [@ EXCEPT !.pc = "persisting", !.interrupted = is_interrupted(jobs, id)]]
    /\ ProjectStays /\ ServiceStays /\ UNCHANGED <<jobs, lock, authors>>

\* A plausible slip: the outcome of a partial edit is not written down.
SkipFailedOperation(id) ==
    /\ At(id, "persisting")
    /\ Goes(id, "reporting")
    /\ ProjectStays /\ ServiceStays /\ UNCHANGED <<jobs, lock, authors>>

\* Only an operation that published a step has a record; a save that fails here is
\* logged and nothing more.
PersistFailedOperation(id) ==
    /\ At(id, "persisting")
    /\ lock = NoWorker
    /\ LET w == worker[id] IN
       IF IsRunning(project, w.op) /\ MatchesCurrentSnapshot(project)
       THEN \E outcome \in SaveOutcome :
               publish(mark_operation_failed(project, w.op, w.interrupted), outcome)
       ELSE UNCHANGED <<project, disk, seen>>
    /\ Goes(id, "reporting")
    /\ ServiceStays /\ UNCHANGED <<jobs, lock, graphs, authors>>

ReportFailure(id) ==
    /\ At(id, "reporting")
    /\ jobs' = fail(jobs, id)
    /\ Goes(id, "finishing")
    /\ ProjectStays /\ ServiceStays /\ UNCHANGED <<lock, authors>>

WorkerFinished(id) ==
    /\ At(id, "finishing")
    /\ jobs' = worker_finished(jobs, id)
    /\ Goes(id, "dropping")
    /\ ProjectStays /\ ServiceStays /\ UNCHANGED <<lock, authors>>

\* The thread ends and its permit goes back.
DropPermit(id) ==
    /\ At(id, "dropping")
    /\ active' = active - 1
    /\ worker' = [i \in DOMAIN worker \ {id} |-> worker[i]]
    /\ ProjectStays
    /\ UNCHANGED <<jobs, next_id, lock, handler, epoch, authors>>

----------------------------------------------------------------------------
\* The process stops at any point, killing its threads, and starts again from the
\* project file.
Restart ==
    /\ epoch < MaxRestarts
    /\ epoch' = epoch + 1
    /\ jobs' = <<>> /\ next_id' = 1 /\ active' = 0 /\ lock' = NoWorker
    /\ handler' = [h \in Handlers |-> Idle]
    /\ worker' = <<>>
    /\ project' = disk
    /\ seen' = seen \cup {<<disk.version, disk.graph>>}
    /\ UNCHANGED <<disk, graphs, authors>>

HandlerStep(h) ==
    \/ SnapshotProject(h)
    \/ AcquirePermit(h)
    \/ CreateJob(h)
    \/ SpawnWorker(h)
    \/ RespondWithJob(h)

\* What a worker does when it runs; the planner decides how a turn ends.
WorkerStep(id) ==
    \/ StartWorker(id)
    \/ BeginTurn(id)
    \/ EndTurn(id)
    \/ DraftGraph(id)
    \/ FinishPlan(id)
    \/ CommitUpdate(id)
    \/ PublishUpdate(id)
    \/ BeginCompletion(id)
    \/ MarkComplete(id)
    \/ FinalizeUpdates(id)
    \/ ReportSuccess(id)
    \/ ReadInterrupted(id)
    \/ PersistFailedOperation(id)
    \/ ReportFailure(id)
    \/ WorkerFinished(id)
    \/ DropPermit(id)

Next ==
    \/ \E h \in Handlers, op \in Ops : start_edit(h, op)
    \/ \E h \in Handlers, id \in DOMAIN jobs : Interrupt(h, id)
    \/ \E h \in Handlers : HandlerStep(h)
    \/ \E id \in DOMAIN worker :
          WorkerStep(id) \/ DeadlinePasses(id) \/ PlannerPanics(id)
    \/ ChangeProject
    \/ Navigate
    \/ Restart

Spec == Init /\ [][Next]_vars

----------------------------------------------------------------------------
(* Properties *)

\* The state has the shape the declarations say.
TypeOK ==
    /\ JobTable(jobs)
    /\ next_id \in JobIds
    /\ active \in Int
    /\ project \in Project
    /\ disk \in Project
    /\ lock \in Nat
    /\ handler \in [Handlers -> HandlerState]
    /\ DOMAIN worker \subseteq JobIds
    /\ worker \in [DOMAIN worker -> Worker]
    /\ graphs \in Nat
    /\ epoch \in Nat
    /\ seen \subseteq Nat \X Nat
    /\ authors \in [Ops -> SUBSET (Nat \X JobIds)]

\* A worker that may still use its job: edits, reports and asks for its
\* cancellation flag.
UsesJob(id) == id \in DOMAIN worker /\ worker[id].pc \notin {"finishing", "dropping"}

Spawning(id) == \E h \in Handlers : handler[h].pc = "spawn" /\ handler[h].id = id

\* A worker finds its job in the table as long as it may use it, and only one
\* does, however many edits are started, interrupted and evicted meanwhile:
\* EditJobs::cancellation panics otherwise, and two workers would edit one project.
JobOutlivesWorker ==
    \A id \in DOMAIN worker : UsesJob(id) =>
        /\ id \in DOMAIN jobs
        /\ jobs[id].worker_active
        /\ jobs[id].operation_id = worker[id].op
        /\ \A other \in DOMAIN worker : UsesJob(other) => other = id

HoldingPermit ==
    {<<"request", h>> : h \in {k \in Handlers :
        \/ handler[k].pc \in {"create", "spawn"}
        \/ handler[k].pc = "respond" /\ handler[k].permits = 1}}
    \cup {<<"worker", id>> : id \in DOMAIN worker}

\* Every permit of the edit limiter that is out belongs to one thread, and none
\* is lost or given back twice when a request is refused, a thread cannot be
\* started, a request panics, or a worker fails.
PermitsBalance ==
    /\ active = Cardinality(HoldingPermit)
    /\ active <= MAX_ACTIVE_EDITS

\* No lost update (README: an edit whose project changed meanwhile is rejected
\* instead of overwriting newer work): every graph was made from the graph that
\* it replaced, so nothing that was done in between is gone.
NoLostUpdate ==
    \A i \in 2..Len(project.snapshots) :
        project.snapshots[i].basis = project.snapshots[project.parents[i]].graph

\* A version names one graph: whoever polls with the version it has never takes
\* new work for old, also across saves that fail and restarts.
VersionIdentifiesGraph ==
    \A a, b \in seen : a[1] = b[1] => a[2] = b[2]

\* Steps of one operation come from one worker: an operation id that is sent
\* again, to a job that was evicted or a process that was restarted, is not
\* carried out a second time.
AtMostOnce == \A op \in Ops : Cardinality(authors[op]) <= 1

\* What a client could read is never lost: the project file has every graph
\* that was ever on show, whatever saves failed and wherever the process died.
NothingShownIsLost ==
    \A shown \in seen : \E i \in DOMAIN disk.snapshots :
        disk.snapshots[i].graph = shown[2]

\* A job reports success only when the project file already says so.
CompletedJobIsDurable ==
    \A id \in DOMAIN jobs : jobs[id].state = "completed" =>
        Status(disk, jobs[id].operation_id) = "completed"

\* A record says running only while a worker is on it and its job can be asked:
\* a client that is answered from the record, after the job is gone, gets an
\* outcome that was really decided.
RunningHasWorker ==
    \A op \in Ops : Status(project, op) = "running" =>
        \E id \in DOMAIN worker : worker[id].op = op /\ UsesJob(id)

Ledger == INSTANCE ProjectLedger WITH
    FirstGraph <- InitialGraph,
    version <- project.version,
    operations <- project.edit_operations,
    graphs <- [i \in DOMAIN project.snapshots |-> project.snapshots[i].graph],
    parents <- project.parents,
    current <- project.current

\* The project of a running process keeps the promises of ProjectLedger: its
\* history grows and is never rewritten, versions go up by one, an outcome once
\* recorded is final; a restart finds what was shown or one finished step more.
KeepsLedger == Ledger!Spec

\* The slot of a project is held by a thread that will give it back.
SlotHasThread ==
    \A id \in ActiveWorkers(jobs) : id \in DOMAIN worker \/ Spawning(id)

\* Once the interrupt of an edit was accepted, no later step records success.
InterruptBlocksLateCompletion ==
    [][\A id \in DOMAIN jobs :
          jobs[id].interrupted /\ Status(project, jobs[id].operation_id) = "running"
            => Status(project, jobs[id].operation_id)' # "completed"]_vars
=============================================================================
