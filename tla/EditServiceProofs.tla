-------------------------- MODULE EditServiceProofs --------------------------
(***************************************************************************)
(* Proofs about EditService: the theorems hold for any set of clients,     *)
(* any limits, any faults and any number of edits, changes and restarts.   *)
(* Three parts follow each other: what the project and the job table are   *)
(* at any moment, the ledger that the service implements, and what becomes *)
(* of an edit.                                                             *)
(***************************************************************************)
EXTENDS EditService, TLAPS, FiniteSetTheorems, SequenceTheorems

----------------------------------------------------------------------------
(* The inductive invariants *)

\* A history whose snapshots were each made from their parents, and that shows
\* the graph it points at.
Linked(p) ==
    /\ Len(p.parents) = Len(p.snapshots)
    /\ p.current \in 1..Len(p.snapshots)
    /\ p.graph = p.snapshots[p.current].graph
    /\ \A i \in 1..Len(p.snapshots) : p.parents[i] \in 0..Len(p.snapshots)
    /\ \A i \in 2..Len(p.snapshots) :
          /\ p.parents[i] # NoParent
          /\ p.snapshots[i].basis = p.snapshots[p.parents[i]].graph

\* A copy of the graph is older than the project, or it is the project's graph.
Copy(p, version, graph) ==
    /\ version <= p.version
    /\ version = p.version => graph = p.graph

\* The file is never behind the memory.
Ahead ==
    /\ project.version <= disk.version
    /\ project.version = disk.version => project.graph = disk.graph

Copies ==
    /\ \A h \in Handlers : handler[h].pc \in {"permit", "create", "spawn"} =>
          Copy(project, handler[h].version, handler[h].graph)
    /\ \A id \in DOMAIN worker : Copy(project, worker[id].expected, worker[id].graph)

\* What NoLostUpdate and VersionIdentifiesGraph rest on: every copy that a request,
\* a worker or a client holds is told from the project by its version.
ProjectInv ==
    /\ TypeOK
    /\ Linked(project) /\ Linked(disk)
    /\ Ahead
    /\ Copies
    /\ \A shown \in seen : Copy(project, shown[1], shown[2])
    /\ VersionIdentifiesGraph

\* What JobOutlivesWorker rests on: the one slot of the table passes from the
\* request that created the job to the worker, under an id nobody else has.
SlotInv ==
    /\ IsFiniteSet(DOMAIN jobs)
    /\ \A i, j \in ActiveWorkers(jobs) : i = j
    /\ \A id \in DOMAIN jobs \cup DOMAIN worker : id < next_id
    /\ \A id \in DOMAIN worker : UsesJob(id) =>
          id \in ActiveWorkers(jobs) /\ jobs[id].operation_id = worker[id].op
    /\ \A h \in Handlers : handler[h].pc = "spawn" =>
          /\ handler[h].id \in ActiveWorkers(jobs)
          /\ jobs[handler[h].id].operation_id = handler[h].op
          /\ handler[h].id \notin DOMAIN worker
    /\ \A h, k \in Handlers :
          /\ handler[h].pc = "spawn" /\ handler[k].pc = "spawn"
          /\ handler[h].id = handler[k].id
          => h = k

----------------------------------------------------------------------------
(* The job table *)

\* Replacing one job by another leaves a table of well-formed jobs.
LEMMA JobReplaced ==
    ASSUME NEW table, JobTable(table), NEW id \in DOMAIN table, NEW job \in EditJob
    PROVE  JobTable([table EXCEPT ![id] = job])
    BY DEF JobTable

\* What the methods write into a job leaves it well formed.
LEMMA JobRewritten ==
    ASSUME NEW job \in EditJob, NEW version \in Nat, NEW state \in JobState,
           NEW steps \in Nat, NEW flag \in BOOLEAN
    PROVE  /\ [job EXCEPT !.state = state] \in EditJob
           /\ [job EXCEPT !.worker_active = flag] \in EditJob
           /\ [job EXCEPT !.state = state, !.worker_active = flag] \in EditJob
           /\ [job EXCEPT !.interrupted = flag, !.state = state] \in EditJob
           /\ [job EXCEPT !.project_version = version, !.state = state] \in EditJob
           /\ [job EXCEPT !.applied_steps = steps, !.project_version = version,
                          !.state = state] \in EditJob
<1>1. [job EXCEPT !.state = state] \in EditJob
    BY DEF EditJob
<1>2. [job EXCEPT !.worker_active = flag] \in EditJob
    BY DEF EditJob
<1>3. [job EXCEPT !.state = state, !.worker_active = flag] \in EditJob
    BY DEF EditJob
<1>4. [job EXCEPT !.interrupted = flag, !.state = state] \in EditJob
    BY DEF EditJob
<1>5. [job EXCEPT !.project_version = version, !.state = state] \in EditJob
    BY DEF EditJob
<1>6. [job EXCEPT !.applied_steps = steps, !.project_version = version,
                  !.state = state] \in EditJob
    BY DEF EditJob
<1> QED
    BY <1>1, <1>2, <1>3, <1>4, <1>5, <1>6

\* Every method of EditJobs leaves a table of well-formed jobs.
LEMMA JobTableSteps ==
    ASSUME NEW table, JobTable(table), NEW id \in JobIds, NEW op \in Ops,
           NEW version \in Nat
    PROVE  /\ JobTable(set_running(table, id))
           /\ JobTable(publish_update(table, id, version))
           /\ JobTable(finalize_updates(table, id, version))
           /\ JobTable(complete(table, id))
           /\ JobTable(fail(table, id))
           /\ JobTable(worker_finished(table, id))
           /\ JobTable(interrupt(table, id))
<1>1. CASE id \in DOMAIN table
  <2>1. table[id] \in EditJob /\ table[id].applied_steps + 1 \in Nat
      BY <1>1 DEF JobTable, EditJob
  <2>2. {"running", "completed", "failed"} \subseteq JobState
      BY DEF JobState
  <2>3. JobTable(set_running(table, id))
    <3>1. [table[id] EXCEPT !.state = "running"] \in EditJob
        BY <2>1, <2>2, JobRewritten
    <3> QED
        BY <1>1, <3>1, JobReplaced DEF set_running
  <2>4. JobTable(publish_update(table, id, version))
    <3>1. [table[id] EXCEPT !.applied_steps = table[id].applied_steps + 1,
                            !.project_version = version, !.state = "running"] \in EditJob
        BY <2>1, <2>2, JobRewritten
    <3> QED
        BY <1>1, <3>1, JobReplaced DEF publish_update
  <2>5. JobTable(finalize_updates(table, id, version))
    <3>1. [table[id] EXCEPT !.project_version = version, !.state = "running"] \in EditJob
        BY <2>1, <2>2, JobRewritten
    <3> QED
        BY <1>1, <3>1, JobReplaced DEF finalize_updates
  <2>6. JobTable(complete(table, id))
    <3>1. [table[id] EXCEPT !.state = "completed", !.worker_active = FALSE] \in EditJob
        BY <2>1, <2>2, JobRewritten
    <3> QED
        BY <1>1, <3>1, JobReplaced DEF complete
  <2>7. JobTable(fail(table, id))
    <3>1. [table[id] EXCEPT !.state = "failed", !.worker_active = FALSE] \in EditJob
        BY <2>1, <2>2, JobRewritten
    <3> QED
        BY <1>1, <3>1, JobReplaced DEF fail
  <2>8. JobTable(worker_finished(table, id))
    <3>1. [table[id] EXCEPT !.worker_active = FALSE] \in EditJob
        BY <2>1, <2>2, JobRewritten
    <3> QED
        BY <1>1, <3>1, JobReplaced DEF worker_finished
  <2>9. JobTable(interrupt(table, id))
    <3>1. [table[id] EXCEPT !.interrupted = TRUE, !.state = "failed"] \in EditJob
        BY <2>1, <2>2, JobRewritten
    <3> QED
        BY <1>1, <3>1, JobReplaced DEF interrupt
  <2> QED
      BY <2>3, <2>4, <2>5, <2>6, <2>7, <2>8, <2>9
<1>2. CASE id \notin DOMAIN table
    BY <1>2 DEF set_running, publish_update, finalize_updates, complete, fail,
                worker_finished, interrupt, Open
<1> QED
    BY <1>1, <1>2

\* A new job, with or without an eviction, leaves a well-formed table.
LEMMA CreateTable ==
    ASSUME NEW table, JobTable(table), NEW id \in JobIds, NEW op \in Ops
    PROVE  JobTable(create(table, id, op))
    BY DEF JobTable, EditJob, JobState, create, Retained, NoVersion

----------------------------------------------------------------------------
(* The project *)

\* Replacing the record of one operation leaves a well-formed project.
LEMMA WithOperation ==
    ASSUME NEW p \in Project, NEW op \in Ops, NEW operation \in Operation
    PROVE  with_operation(p, op, operation) \in Project
    BY DEF Project, with_operation

\* So does giving an operation its outcome.
LEMMA Concluded ==
    ASSUME NEW p \in Project, NEW op \in Ops, NEW status \in OperationStatus
    PROVE  concluded(p, op, status) \in Project
<1>1. [p.edit_operations[op] EXCEPT !.status = status] \in Operation
    BY DEF Project, Operation
<1> QED
    BY <1>1, WithOperation DEF concluded

\* Every operation on a project leaves a well-formed one.
LEMMA ChangeGraph ==
    ASSUME NEW p \in Project, NEW graph \in Graph
    PROVE  change_graph(p, graph) \in Project /\ replace_graph(p, graph) \in Project
<1>1. p.version + 1 \in Nat
    BY DEF Project
<1> QED
    BY <1>1 DEF Project, change_graph, replace_graph

\* A recorded step changes the record only.
LEMMA RecordStep ==
    ASSUME NEW p \in Project, NEW op \in Ops
    PROVE  record_operation_step(p, op) \in Project
<1>1. p.edit_operations[op].applied_steps + 1 \in Nat
    BY DEF Project, Operation
<1>2. [status |-> "running", applied_steps |-> p.edit_operations[op].applied_steps + 1]
        \in Operation
    BY <1>1 DEF Operation, OperationStatus
<1> QED
    BY <1>2, WithOperation DEF record_operation_step

\* An outcome changes the record, and at most the version.
LEMMA MarkOperation ==
    ASSUME NEW p \in Project, NEW op \in Ops, NEW b \in BOOLEAN
    PROVE  /\ mark_operation_complete(p, op) \in Project
           /\ mark_operation_failed(p, op, b) \in Project
<1> DEFINE q == concluded(p, op, "completed")
<1>1. q \in Project
    BY Concluded DEF OperationStatus
<1>2. q.version + 1 \in Nat
    BY <1>1 DEF Project
<1>3. mark_operation_complete(p, op) = [q EXCEPT !.version = @ + 1]
    BY DEF mark_operation_complete
<1>4. mark_operation_failed(p, op, b) \in Project
    BY Concluded DEF mark_operation_failed, OperationStatus
<1> HIDE DEF q
<1> QED
    BY <1>1, <1>2, <1>3, <1>4 DEF Project

\* A push appends one snapshot below the current one.
LEMMA Push ==
    ASSUME NEW p \in Project, NEW basis \in Graph
    PROVE  push(p, basis) \in Project
<1>1. [graph |-> p.graph, basis |-> basis] \in Snapshot
    BY DEF Snapshot, Project
<1>2. Append(p.snapshots, [graph |-> p.graph, basis |-> basis]) \in Seq(Snapshot)
    BY <1>1 DEF Project
<1>3. Append(p.parents, p.current) \in Seq(Nat) /\ Len(p.snapshots) + 1 \in Nat
    BY DEF Project
<1> QED
    BY <1>2, <1>3 DEF Project, push

\* A checkout moves to an existing snapshot under a new version.
LEMMA Checkout ==
    ASSUME NEW p \in Project, NEW index \in 1..Len(p.snapshots)
    PROVE  checkout(p, index) \in Project
<1>1. p.version + 1 \in Nat
    BY DEF Project
<1>2. p.snapshots[index] \in Snapshot
    BY DEF Project
<1>3. p.snapshots[index].graph \in Graph
    BY <1>2 DEF Snapshot
<1>4. index \in Nat
    BY DEF Project
<1> QED
    BY <1>1, <1>3, <1>4 DEF Project, checkout

\* The four kinds of candidates that handlers and workers save.
UserCandidate(graph) == push(change_graph(project, graph), project.graph)

UpdateCandidate(w) ==
    push(record_operation_step(replace_graph(project, w.draft), w.op), w.graph)

\* Every candidate that the actions save is a project.
LEMMA Candidates ==
    ASSUME TypeOK, NEW w \in Worker, NEW graph \in Graph
    PROVE  /\ UserCandidate(graph) \in Project
           /\ UpdateCandidate(w) \in Project
           /\ mark_operation_complete(project, w.op) \in Project
           /\ mark_operation_failed(project, w.op, w.interrupted) \in Project
<1>1. project \in Project /\ project.graph \in Graph
    BY DEF TypeOK, Project
<1>2. w.draft \in Graph /\ w.graph \in Graph /\ w.op \in Ops /\ w.interrupted \in BOOLEAN
    BY DEF Worker
<1>3. UserCandidate(graph) \in Project
    BY <1>1, ChangeGraph, Push DEF UserCandidate
<1>4. UpdateCandidate(w) \in Project
    BY <1>1, <1>2, ChangeGraph, RecordStep, Push DEF UpdateCandidate
<1> QED
    BY <1>1, <1>2, <1>3, <1>4, MarkOperation

\* Saving a well-formed candidate, successfully or not, leaves well-formed state.
LEMMA PublishType ==
    ASSUME TypeOK, NEW candidate \in Project, NEW outcome, publish(candidate, outcome)
    PROVE  project' \in Project /\ disk' \in Project /\ seen' \subseteq Nat \X Nat
<1>1. candidate.version \in Nat /\ candidate.graph \in Nat
    BY DEF Project, Graph
<1> QED
    BY <1>1 DEF TypeOK, publish

----------------------------------------------------------------------------
(* Types *)

\* A worker table in which one worker goes on is a worker table.
LEMMA WorkerGoes ==
    ASSUME TypeOK, NEW id \in DOMAIN worker, NEW w \in Worker,
           worker' = [worker EXCEPT ![id] = w]
    PROVE  DOMAIN worker' \subseteq JobIds /\ worker' \in [DOMAIN worker' -> Worker]
    BY DEF TypeOK

\* A request thread that moves on stays a request thread.
LEMMA HandlerGoes ==
    ASSUME TypeOK, NEW h \in Handlers, NEW state \in HandlerState, Becomes(h, state)
    PROVE  handler' \in [Handlers -> HandlerState]
    BY DEF TypeOK, Becomes

\* The initial state is well-formed.
LEMMA InitType == Init => TypeOK
<1>1. InitialProject \in Project
    BY DEF InitialProject, Project, Graph, InitialGraph, Snapshot, Operation,
           OperationStatus, NoOperation, NoParent
<1>2. Idle \in HandlerState
    BY DEF Idle, HandlerState
<1> QED
    BY <1>1, <1>2 DEF Init, TypeOK, JobTable, JobIds, NoWorker, InitialGraph, InitialProject

\* Request handlers keep the types.
LEMMA HandlerTypes ==
    ASSUME TypeOK, NEW h \in Handlers, HandlerStep(h)
    PROVE  TypeOK'
<1>1. handler[h] \in HandlerState
    BY DEF TypeOK
<1>2. Idle \in HandlerState
    BY DEF Idle, HandlerState
<1>3. CASE SnapshotProject(h)
  <2>1. [pc |-> "permit", op |-> handler[h].op,
         version |-> project.version, graph |-> project.graph] \in HandlerState
    BY <1>1, <1>3 DEF SnapshotProject, HandlerState, TypeOK, Project
  <2> QED
    BY <1>2, <1>3, <2>1 DEF SnapshotProject, Becomes, TypeOK, ProjectStays, JobsAndWorkersStay
<1>4. CASE AcquirePermit(h)
  <2>1. [handler[h] EXCEPT !.pc = "create"] \in HandlerState
    BY <1>1, <1>4 DEF AcquirePermit, HandlerState
  <2> QED
    BY <1>2, <1>4, <2>1 DEF AcquirePermit, Becomes, TypeOK, ProjectStays, JobsAndWorkersStay
<1>5. CASE CreateJob(h)
  <2>1. handler[h].op \in Ops /\ handler[h].version \in Nat /\ handler[h].graph \in Graph
    BY <1>1, <1>5 DEF CreateJob, HandlerState
  <2>2. \A id \in JobIds : [pc |-> "respond", id |-> id, permits |-> 1] \in HandlerState
    BY DEF HandlerState
  <2>3. \A id \in JobIds : [pc |-> "spawn", op |-> handler[h].op,
            version |-> handler[h].version, graph |-> handler[h].graph, id |-> id]
                \in HandlerState
    BY <2>1 DEF HandlerState
  <2>4. \A id \in JobsOf(jobs, handler[h].op) : id \in JobIds
    BY DEF TypeOK, JobTable, JobsOf
  <2>5. JobTable(create(jobs, next_id, handler[h].op)) /\ next_id + 1 \in JobIds
    BY <2>1, CreateTable DEF TypeOK, JobIds
  <2>6. handler' \in [Handlers -> HandlerState]
    BY <1>2, <1>5, <2>2, <2>3, <2>4, HandlerGoes DEF CreateJob, TypeOK
  <2>7. \/ jobs' = jobs /\ next_id' = next_id
        \/ jobs' = create(jobs, next_id, handler[h].op) /\ next_id' = next_id + 1
    BY <1>5 DEF CreateJob
  <2>8. active' = active \/ active' = active - 1
    BY <1>5 DEF CreateJob
  <2>9. JobTable(jobs') /\ next_id' \in JobIds /\ active' \in Int
    BY <2>5, <2>7, <2>8 DEF TypeOK
  <2> QED
    BY <1>5, <2>6, <2>9 DEF CreateJob, TypeOK, ProjectStays
<1>6. CASE SpawnWorker(h)
  <2>1. handler[h].id \in JobIds /\ NewWorker(handler[h]) \in Worker
    BY <1>1, <1>6 DEF SpawnWorker, HandlerState, NewWorker, Worker, WorkerPC
  <2>2. JobTable(fail(jobs, handler[h].id))
    BY <1>1, <1>6, <2>1, JobTableSteps DEF TypeOK, SpawnWorker, HandlerState
  <2>3. handler' \in [Handlers -> HandlerState]
    BY <1>2, <1>6, HandlerGoes DEF SpawnWorker
  <2>4. DOMAIN worker' \subseteq JobIds /\ worker' \in [DOMAIN worker' -> Worker]
    BY <1>6, <2>1 DEF SpawnWorker, TypeOK
  <2> QED
    BY <1>6, <2>2, <2>3, <2>4 DEF SpawnWorker, TypeOK, ProjectStays
<1>7. CASE RespondWithJob(h)
  <2>1. [pc |-> "panicked"] \in HandlerState /\ handler[h].permits \in {0, 1}
    BY <1>1, <1>7 DEF RespondWithJob, HandlerState
  <2>2. handler' \in [Handlers -> HandlerState]
    BY <1>2, <1>7, <2>1, HandlerGoes DEF RespondWithJob
  <2> QED
    BY <1>7, <2>1, <2>2 DEF RespondWithJob, TypeOK, ProjectStays, JobsAndWorkersStay
<1> QED
    BY <1>3, <1>4, <1>5, <1>6, <1>7 DEF HandlerStep

\* Workers keep the types: what each of them writes to its own record, to its job
\* and to the project is well-formed.
LEMMA WorkerTypes ==
    ASSUME TypeOK, NEW id \in DOMAIN worker,
           WorkerStep(id) \/ DeadlinePasses(id) \/ PlannerPanics(id)
    PROVE  TypeOK'
<1> DEFINE w == worker[id]
<1>1. id \in JobIds /\ w \in Worker
    BY DEF TypeOK
<1>2. /\ w.op \in Ops /\ w.expected \in Nat /\ w.draft \in Graph /\ w.graph \in Graph
      /\ w.interrupted \in BOOLEAN
    BY <1>1 DEF Worker
<1>3. is_interrupted(jobs, id) \in BOOLEAN
    BY DEF is_interrupted, TypeOK, JobTable, EditJob
<1>4. \A pc \in WorkerPC : [w EXCEPT !.pc = pc] \in Worker
    BY <1>1 DEF Worker
<1>5. \A pc \in WorkerPC : Goes(id, pc) =>
        DOMAIN worker' \subseteq JobIds /\ worker' \in [DOMAIN worker' -> Worker]
    BY <1>4, WorkerGoes DEF Goes
<1>6. /\ JobTable(set_running(jobs, id)) /\ JobTable(publish_update(jobs, id, w.expected))
      /\ JobTable(finalize_updates(jobs, id, w.expected)) /\ JobTable(complete(jobs, id))
      /\ JobTable(fail(jobs, id)) /\ JobTable(worker_finished(jobs, id))
    BY <1>1, <1>2, JobTableSteps DEF TypeOK
<1>7. /\ UpdateCandidate(w) \in Project /\ mark_operation_complete(project, w.op) \in Project
      /\ mark_operation_failed(project, w.op, w.interrupted) \in Project
    BY <1>1, <1>2, Candidates
<1>8. id \in Nat /\ NoWorker \in Nat
    BY <1>1 DEF JobIds, NoWorker
<1> USE DEF WorkerPC, ServiceStays, ProjectStays
<1>9. CASE \/ StartWorker(id) \/ BeginTurn(id) \/ EndTurn(id) \/ FinishPlan(id)
           \/ PublishUpdate(id) \/ FinalizeUpdates(id) \/ ReportSuccess(id)
           \/ ReportFailure(id) \/ WorkerFinished(id)
    BY <1>5, <1>6, <1>8, <1>9 DEF TypeOK, StartWorker, BeginTurn, EndTurn, FinishPlan,
       PublishUpdate, FinalizeUpdates, ReportSuccess, ReportFailure, WorkerFinished
<1>10. CASE BeginCompletion(id)
    BY <1>5, <1>8, <1>10 DEF TypeOK, BeginCompletion
<1>11. CASE DraftGraph(id)
  <2>1. graphs + 1 \in Graph
    BY DEF TypeOK, Graph
  <2>2. \A pc \in WorkerPC : [w EXCEPT !.draft = graphs + 1, !.pc = pc] \in Worker
    BY <1>1, <2>1 DEF Worker
  <2>3. DOMAIN worker' \subseteq JobIds /\ worker' \in [DOMAIN worker' -> Worker]
    BY <1>11, <2>2, WorkerGoes DEF DraftGraph
  <2> QED
    BY <1>11, <2>1, <2>3 DEF TypeOK, DraftGraph, Graph
<1>12. CASE CommitUpdate(id)
  <2>1. UpdateCandidate(w).version \in Nat
    BY <1>7 DEF Project
  <2>2. [w EXCEPT !.pc = "publishing", !.published = TRUE,
            !.expected = UpdateCandidate(w).version, !.graph = w.draft] \in Worker
    BY <1>1, <1>2, <2>1 DEF Worker
  <2>3. DOMAIN worker' \subseteq JobIds /\ worker' \in [DOMAIN worker' -> Worker]
    BY <1>5, <1>12, <2>2, WorkerGoes DEF CommitUpdate, UpdateCandidate
  <2>4. \/ UNCHANGED <<project, disk, seen>>
        \/ \E outcome \in SaveOutcome \cup {"saved"} : publish(UpdateCandidate(w), outcome)
    BY <1>12 DEF CommitUpdate, UpdateCandidate
  <2>5. project' \in Project /\ disk' \in Project /\ seen' \subseteq Nat \X Nat
    BY <1>7, <2>4, PublishType DEF TypeOK
  <2>6. lock' \in Nat /\ authors' \in [Ops -> SUBSET (Nat \X JobIds)]
    BY <1>1, <1>2, <1>8, <1>12 DEF CommitUpdate, TypeOK
  <2> QED
    BY <1>12, <2>3, <2>5, <2>6 DEF TypeOK, CommitUpdate
<1>13. CASE MarkComplete(id)
  <2> DEFINE candidate == mark_operation_complete(project, w.op)
  <2>1. candidate \in Project /\ candidate.version \in Nat
    BY <1>7 DEF Project
  <2>2. [w EXCEPT !.pc = "finalizing", !.expected = candidate.version] \in Worker
    BY <1>1, <2>1 DEF Worker
  <2>3. DOMAIN worker' \subseteq JobIds /\ worker' \in [DOMAIN worker' -> Worker]
    BY <1>5, <1>13, <2>2, WorkerGoes DEF MarkComplete
  <2>4. \/ UNCHANGED <<project, disk, seen>>
        \/ \E outcome \in SaveOutcome \cup {"saved"} : publish(candidate, outcome)
    BY <1>13 DEF MarkComplete
  <2>5. project' \in Project /\ disk' \in Project /\ seen' \subseteq Nat \X Nat
    BY <2>1, <2>4, PublishType DEF TypeOK
  <2> QED
    BY <1>8, <1>13, <2>3, <2>5 DEF TypeOK, MarkComplete
<1>14. CASE ReadInterrupted(id)
  <2>1. [w EXCEPT !.pc = "persisting", !.interrupted = is_interrupted(jobs, id)] \in Worker
    BY <1>1, <1>3 DEF Worker
  <2>2. DOMAIN worker' \subseteq JobIds /\ worker' \in [DOMAIN worker' -> Worker]
    BY <1>14, <2>1, WorkerGoes DEF ReadInterrupted
  <2> QED
    BY <1>14, <2>2 DEF TypeOK, ReadInterrupted
<1>15. CASE PersistFailedOperation(id)
  <2>1. \/ UNCHANGED <<project, disk, seen>>
        \/ \E outcome \in SaveOutcome :
              publish(mark_operation_failed(project, w.op, w.interrupted), outcome)
    BY <1>15 DEF PersistFailedOperation
  <2>2. project' \in Project /\ disk' \in Project /\ seen' \subseteq Nat \X Nat
    BY <1>7, <2>1, PublishType DEF TypeOK
  <2> QED
    BY <1>5, <1>15, <2>2 DEF TypeOK, PersistFailedOperation
<1>16. CASE DropPermit(id)
    BY <1>16 DEF TypeOK, DropPermit
<1>17. CASE DeadlinePasses(id)
  <2>1. [w EXCEPT !.late = TRUE] \in Worker
    BY <1>1 DEF Worker
  <2>2. DOMAIN worker' \subseteq JobIds /\ worker' \in [DOMAIN worker' -> Worker]
    BY <1>17, <2>1, WorkerGoes DEF DeadlinePasses
  <2> QED
    BY <1>17, <2>2 DEF TypeOK, DeadlinePasses
<1>18. CASE PlannerPanics(id)
  <2>1. [w EXCEPT !.pc = "persisting", !.interrupted = FALSE] \in Worker
    BY <1>1 DEF Worker
  <2>2. DOMAIN worker' \subseteq JobIds /\ worker' \in [DOMAIN worker' -> Worker]
    BY <1>18, <2>1, WorkerGoes DEF PlannerPanics
  <2> QED
    BY <1>18, <2>2 DEF TypeOK, PlannerPanics
<1> QED
    BY <1>9, <1>10, <1>11, <1>12, <1>13, <1>14, <1>15, <1>16, <1>17, <1>18 DEF WorkerStep

\* Interrupts and new requests keep the types.
LEMMA RequestTypes ==
    ASSUME TypeOK, NEW h \in Handlers,
           \/ \E op \in Ops : start_edit(h, op)
           \/ \E id \in DOMAIN jobs : Interrupt(h, id)
    PROVE  TypeOK'
<1>1. CASE \E op \in Ops : start_edit(h, op)
  <2>1. \A op \in Ops : [pc |-> "snapshot", op |-> op] \in HandlerState
    BY DEF HandlerState
  <2>2. handler' \in [Handlers -> HandlerState]
    BY <1>1, <2>1, HandlerGoes DEF start_edit
  <2> QED
    BY <1>1, <2>2 DEF start_edit, TypeOK, ProjectStays, JobsAndWorkersStay
<1>2. CASE \E id \in DOMAIN jobs : Interrupt(h, id)
  <2>1. PICK id \in DOMAIN jobs : Interrupt(h, id)
    BY <1>2
  <2>2. id \in JobIds
    BY DEF TypeOK, JobTable
  <2>3. [pc |-> "respond", id |-> id, permits |-> 0] \in HandlerState
    BY <2>2 DEF HandlerState
  <2>4. handler' \in [Handlers -> HandlerState]
    BY <2>1, <2>3, HandlerGoes DEF Interrupt
  <2>5. JobTable(interrupt(jobs, id))
    BY <1>2, <2>2, JobTableSteps DEF TypeOK, Interrupt, Open, JobTable, EditJob
  <2> QED
    BY <2>1, <2>4, <2>5 DEF Interrupt, TypeOK, ProjectStays
<1> QED
    BY <1>1, <1>2

\* Changes by hand, navigation and restarts keep the types.
LEMMA ProjectTypes ==
    ASSUME TypeOK, Linked(project), ChangeProject \/ Navigate \/ Restart
    PROVE  TypeOK'
<1>1. CASE ChangeProject
  <2>1. graphs + 1 \in Graph /\ project \in Project /\ project.graph \in Graph
    BY DEF TypeOK, Graph, Project
  <2>2. UserCandidate(graphs + 1) \in Project
    BY <2>1, ChangeGraph, Push DEF UserCandidate
  <2>3. project' \in Project /\ disk' \in Project /\ seen' \subseteq Nat \X Nat
    BY <1>1, <2>2, PublishType DEF ChangeProject, UserCandidate
  <2> QED
    BY <1>1, <2>1, <2>3 DEF ChangeProject, TypeOK, JobsAndWorkersStay, Graph
<1>2. CASE Navigate
  <2>1. PICK index \in {parent(project)} \cup (1..Len(project.snapshots)),
             outcome \in SaveOutcome :
                index # NoParent /\ publish(checkout(project, index), outcome)
    BY <1>2 DEF Navigate
  <2>2. project \in Project /\ index \in 1..Len(project.snapshots)
    BY <2>1 DEF Linked, TypeOK, parent, NoParent, Project
  <2>3. checkout(project, index) \in Project
    BY <2>2, Checkout
  <2>4. project' \in Project /\ disk' \in Project /\ seen' \subseteq Nat \X Nat
    BY <2>1, <2>3, PublishType
  <2> QED
    BY <1>2, <2>4 DEF Navigate, TypeOK, JobsAndWorkersStay
<1>3. CASE Restart
  <2>1. disk.version \in Nat /\ disk.graph \in Nat
    BY DEF TypeOK, Project, Graph
  <2>2. Idle \in HandlerState
    BY DEF Idle, HandlerState
  <2> QED
    BY <1>3, <2>1, <2>2 DEF Restart, TypeOK, JobTable, JobIds, NoWorker
<1> QED
    BY <1>1, <1>2, <1>3

----------------------------------------------------------------------------
(* What a save does to the project *)

\* A candidate takes the next version, or changes nothing that a copy could show.
Moves(c) ==
    /\ c \in Project
    /\ Linked(c)
    /\ \/ c.version = project.version + 1
       \/ c.version = project.version /\ c.graph = project.graph

\* Pushing a graph that was made from the current one keeps the history linked.
LEMMA PushLinked ==
    ASSUME NEW p \in Project, Linked(p), NEW q \in Project,
           q.snapshots = p.snapshots, q.parents = p.parents, q.current = p.current
    PROVE  Linked(push(q, p.graph))
<1> DEFINE new == [graph |-> q.graph, basis |-> p.graph]
           n == Len(p.snapshots)
           r == push(q, p.graph)
<1>1. /\ p.snapshots \in Seq(Snapshot) /\ p.parents \in Seq(Nat)
      /\ new \in Snapshot /\ n \in Nat /\ p.current \in 1..n /\ Len(p.parents) = n
    BY DEF Project, Snapshot, Linked
<1>2. /\ r.snapshots = Append(p.snapshots, new)
      /\ r.parents = Append(p.parents, p.current)
      /\ r.current = n + 1 /\ r.graph = q.graph
    BY DEF push, Project
<1>3. /\ Len(r.snapshots) = n + 1 /\ Len(r.parents) = n + 1
      /\ r.snapshots[n + 1] = new /\ r.parents[n + 1] = p.current
      /\ \A i \in 1..n : r.snapshots[i] = p.snapshots[i] /\ r.parents[i] = p.parents[i]
    BY <1>1, <1>2
<1>4. new.graph = q.graph /\ new.basis = p.graph
    OBVIOUS
<1>5. /\ p.snapshots[p.current].graph = p.graph
      /\ \A i \in 1..n : p.parents[i] \in 0..n
      /\ \A i \in 2..n : /\ p.parents[i] # NoParent
                         /\ p.snapshots[i].basis = p.snapshots[p.parents[i]].graph
    BY DEF Linked
<1> HIDE DEF new, r, n
<1>6. ASSUME NEW i \in 1..(n + 1)
      PROVE  r.parents[i] \in 0..(n + 1)
  <2>1. CASE i = n + 1
    BY <1>1, <1>3, <2>1
  <2>2. CASE i \in 1..n
    <3>1. r.parents[i] = p.parents[i] /\ p.parents[i] \in 0..n
        BY <1>3, <1>5, <2>2
    <3> QED
        BY <1>1, <3>1
  <2> QED
    BY <1>1, <2>1, <2>2
<1>7. ASSUME NEW i \in 2..(n + 1)
      PROVE  r.parents[i] # NoParent
             /\ r.snapshots[i].basis = r.snapshots[r.parents[i]].graph
  <2>1. CASE i = n + 1
    <3>1. r.parents[i] = p.current /\ r.snapshots[i].basis = p.graph
        BY <1>3, <1>4, <2>1
    <3>2. r.snapshots[p.current] = p.snapshots[p.current] /\ p.current # NoParent
        BY <1>1, <1>3 DEF NoParent
    <3> QED
        BY <1>5, <3>1, <3>2
  <2>2. CASE i \in 2..n
    <3>1. p.parents[i] \in 1..n /\ i \in 1..n
        BY <1>1, <1>5, <2>2 DEF NoParent
    <3>2. r.parents[i] = p.parents[i] /\ r.snapshots[i] = p.snapshots[i]
        BY <1>3, <3>1
    <3>3. r.snapshots[p.parents[i]] = p.snapshots[p.parents[i]]
        BY <1>3, <3>1
    <3> QED
        BY <1>5, <2>2, <3>2, <3>3
  <2> QED
    BY <1>1, <2>1, <2>2
<1>8. r.current \in 1..(n + 1) /\ r.graph = r.snapshots[r.current].graph
    BY <1>1, <1>2, <1>3, <1>4
<1>9. Linked(r)
    BY <1>3, <1>6, <1>7, <1>8 DEF Linked
<1> QED
    BY <1>9 DEF r

\* A change by hand takes the next version and extends the history.
LEMMA UserMoves ==
    ASSUME ProjectInv, NEW graph \in Graph
    PROVE  Moves(UserCandidate(graph))
<1> DEFINE q == change_graph(project, graph)
<1>1. project \in Project /\ project.graph \in Graph /\ Linked(project)
    BY DEF ProjectInv, TypeOK, Project
<1>2. q \in Project
    BY <1>1, ChangeGraph
<1>3. /\ q.snapshots = project.snapshots /\ q.parents = project.parents
      /\ q.current = project.current /\ q.version = project.version + 1
    BY <1>1 DEF change_graph, Project
<1>4. push(q, project.graph) \in Project /\ push(q, project.graph).version = q.version
    BY <1>1, <1>2, Push DEF push, Project
<1> HIDE DEF q
<1>5. Linked(push(q, project.graph))
    BY <1>1, <1>2, <1>3, PushLinked
<1> QED
    BY <1>3, <1>4, <1>5 DEF Moves, UserCandidate, q

\* The worker's own copy of the graph is the project's when the versions agree.
LEMMA UpdateMoves ==
    ASSUME ProjectInv, NEW w \in Worker, Copy(project, w.expected, w.graph),
           w.expected = project.version
    PROVE  Moves(UpdateCandidate(w)) /\ UpdateCandidate(w).version = project.version + 1
           /\ UpdateCandidate(w).graph = w.draft
<1> DEFINE p == replace_graph(project, w.draft)
           q == record_operation_step(p, w.op)
<1>1. project \in Project /\ project.graph \in Graph /\ Linked(project)
    BY DEF ProjectInv, TypeOK, Project
<1>2. w.draft \in Graph /\ w.op \in Ops /\ w.graph = project.graph
    BY DEF Worker, Copy
<1>3. p \in Project /\ q \in Project
    BY <1>1, <1>2, ChangeGraph, RecordStep
<1>4. /\ p.snapshots = project.snapshots /\ p.parents = project.parents
      /\ p.current = project.current /\ p.version = project.version + 1
      /\ p.graph = w.draft
    BY <1>1 DEF replace_graph, change_graph, Project
<1> HIDE DEF p
<1>5. /\ q.snapshots = p.snapshots /\ q.parents = p.parents /\ q.graph = p.graph
      /\ q.current = p.current /\ q.version = p.version
    BY <1>3 DEF record_operation_step, with_operation, Project
<1>6. /\ push(q, w.graph) \in Project /\ push(q, w.graph).version = q.version
      /\ push(q, w.graph).graph = q.graph
    BY <1>1, <1>2, <1>3, Push DEF push, Project
<1> HIDE DEF q
<1>7. Linked(push(q, w.graph))
    BY <1>1, <1>2, <1>3, <1>4, <1>5, PushLinked
<1> QED
    BY <1>4, <1>5, <1>6, <1>7 DEF Moves, UpdateCandidate, p, q

\* An outcome never changes the graph, and never lowers the version.
LEMMA MetadataMoves ==
    ASSUME ProjectInv, NEW op \in Ops, NEW b \in BOOLEAN
    PROVE  /\ Moves(mark_operation_complete(project, op))
           /\ mark_operation_complete(project, op).version = project.version + 1
           /\ mark_operation_complete(project, op).graph = project.graph
           /\ Moves(mark_operation_failed(project, op, b))
<1>1. project \in Project /\ Linked(project)
    BY DEF ProjectInv, TypeOK
<1>2. ASSUME NEW status \in OperationStatus
      PROVE  LET c == concluded(project, op, status) IN
             /\ c \in Project /\ c.version = project.version /\ c.graph = project.graph
             /\ c.snapshots = project.snapshots /\ c.parents = project.parents
             /\ c.current = project.current
  <2>1. concluded(project, op, status) \in Project
    BY <1>1, Concluded
  <2> QED
    BY <1>1, <2>1 DEF concluded, with_operation, Project
<1> DEFINE c == concluded(project, op, "completed")
           d == mark_operation_complete(project, op)
<1>3. /\ c \in Project /\ c.version = project.version /\ c.graph = project.graph
      /\ c.snapshots = project.snapshots /\ c.parents = project.parents
      /\ c.current = project.current
    BY <1>2 DEF OperationStatus
<1>4. d \in Project /\ d = [c EXCEPT !.version = c.version + 1]
    BY <1>1, MarkOperation DEF mark_operation_complete
<1> HIDE DEF c
<1>5. /\ d.version = project.version + 1 /\ d.graph = project.graph
      /\ d.snapshots = project.snapshots /\ d.parents = project.parents
      /\ d.current = project.current
    BY <1>3, <1>4 DEF Project
<1> HIDE DEF d
<1>6. Moves(d)
    BY <1>1, <1>4, <1>5 DEF Moves, Linked
<1>7. mark_operation_failed(project, op, b)
        \in {concluded(project, op, "failed"), concluded(project, op, "interrupted")}
    BY DEF mark_operation_failed
<1>8. Moves(mark_operation_failed(project, op, b))
    BY <1>1, <1>2, <1>7 DEF Moves, Linked, OperationStatus
<1> QED
    BY <1>5, <1>6, <1>8 DEF d

\* A checkout takes the next version and shows what the history points at.
LEMMA CheckoutMoves ==
    ASSUME ProjectInv, NEW index \in 1..Len(project.snapshots)
    PROVE  Moves(checkout(project, index))
<1> DEFINE c == checkout(project, index)
<1>1. project \in Project /\ Linked(project)
    BY DEF ProjectInv, TypeOK
<1>2. c \in Project
    BY <1>1, Checkout
<1>3. /\ c.snapshots = project.snapshots /\ c.parents = project.parents
      /\ c.current = index /\ c.graph = project.snapshots[index].graph
      /\ c.version = project.version + 1
    BY <1>1 DEF checkout, Project
<1> HIDE DEF c
<1> QED
    BY <1>1, <1>2, <1>3 DEF Moves, Linked, c

----------------------------------------------------------------------------
(* The project invariant *)

\* A project that moves leaves every copy older than itself or equal to it.
LEMMA CopyAgain ==
    ASSUME TypeOK, NEW version \in Nat, NEW graph, Copy(project, version, graph),
           \/ project'.version = project.version + 1
           \/ project'.version = project.version /\ project'.graph = project.graph
    PROVE  Copy(project', version, graph)
    BY DEF Copy, TypeOK, Project

\* What all steps but a restart do to the project and its file.
Saves ==
    \/ UNCHANGED <<project, disk, seen>>
    \/ \E candidate, outcome : Moves(candidate) /\ publish(candidate, outcome)

\* Any save of such a candidate, failed or not, keeps the project invariant.
LEMMA SaveKeeps ==
    ASSUME ProjectInv, Saves
    PROVE  /\ Linked(project)' /\ Linked(disk)' /\ Ahead'
           /\ \A shown \in seen' : Copy(project', shown[1], shown[2])
           /\ VersionIdentifiesGraph'
           /\ \/ project'.version = project.version + 1
              \/ project'.version = project.version /\ project'.graph = project.graph
<1>1. project.version \in Nat /\ disk.version \in Nat /\ seen \subseteq Nat \X Nat
    BY DEF ProjectInv, TypeOK, Project
<1>2. CASE UNCHANGED <<project, disk, seen>>
    BY <1>2 DEF ProjectInv, Linked, Ahead, Copy, VersionIdentifiesGraph
<1>3. ASSUME NEW c, NEW outcome, Moves(c), publish(c, outcome)
      PROVE  /\ Linked(project)' /\ Linked(disk)' /\ Ahead'
             /\ \A shown \in seen' : Copy(project', shown[1], shown[2])
             /\ VersionIdentifiesGraph'
             /\ \/ project'.version = project.version + 1
                \/ project'.version = project.version /\ project'.graph = project.graph
  <2>1. /\ c.version \in Nat
        /\ \/ c.version = project.version + 1
           \/ c.version = project.version /\ c.graph = project.graph
    BY <1>3 DEF Moves, Project
  <2>2. project' \in {project, c} /\ disk' \in {disk, c}
    BY <1>3 DEF publish
  <2>3. Linked(project)' /\ Linked(disk)'
    BY <1>3, <2>2 DEF ProjectInv, Moves, Linked
  <2>4. Ahead'
    BY <1>1, <1>3, <2>1 DEF publish, Ahead, ProjectInv
  <2>5. \/ project'.version = project.version + 1
        \/ project'.version = project.version /\ project'.graph = project.graph
    BY <2>1, <2>2
  <2>6. /\ seen' \subseteq seen \cup {<<project'.version, project'.graph>>}
        /\ project'.version \in Nat
    BY <1>1, <1>3, <2>1 DEF publish
  <2>7. \A shown \in seen : /\ Copy(project, shown[1], shown[2])
                              /\ Copy(project', shown[1], shown[2])
    BY <1>1, <2>5 DEF ProjectInv, Copy
  <2>8. \A shown \in seen' : Copy(project', shown[1], shown[2])
    BY <1>1, <2>6, <2>7 DEF Copy
  <2>9. VersionIdentifiesGraph'
    BY <2>6, <2>7 DEF ProjectInv, VersionIdentifiesGraph, Copy
  <2> QED
    BY <2>3, <2>4, <2>5, <2>8, <2>9
<1> QED
    BY <1>2, <1>3 DEF Saves

\* The initial project satisfies the invariant.
LEMMA InitProject == Init => ProjectInv
<1> SUFFICES ASSUME Init PROVE ProjectInv
    OBVIOUS
<1>1. TypeOK
    BY InitType
<1>2. Linked(InitialProject)
    BY DEF Linked, InitialProject, InitialGraph, NoParent
<1>3. Ahead /\ Copies /\ VersionIdentifiesGraph
        /\ \A shown \in seen : Copy(project, shown[1], shown[2])
    BY DEF Init, Ahead, Copies, Copy, Idle, VersionIdentifiesGraph, InitialProject
<1> QED
    BY <1>1, <1>2, <1>3 DEF ProjectInv, Init

\* Copies that a step does not touch stay good when the project moves.
LEMMA OldCopies ==
    ASSUME ProjectInv, Saves
    PROVE  /\ \A h \in Handlers : handler[h].pc \in {"permit", "create", "spawn"} =>
                 Copy(project', handler[h].version, handler[h].graph)
           /\ \A id \in DOMAIN worker : Copy(project', worker[id].expected, worker[id].graph)
<1>1. TypeOK /\ Copies
    BY DEF ProjectInv
<1>2. \A h \in Handlers : handler[h].pc \in {"permit", "create", "spawn"} =>
          handler[h].version \in Nat
    BY <1>1 DEF TypeOK, HandlerState
<1>3. \A id \in DOMAIN worker : worker[id].expected \in Nat
    BY <1>1 DEF TypeOK, Worker
<1>4. \/ project'.version = project.version + 1
      \/ project'.version = project.version /\ project'.graph = project.graph
    BY SaveKeeps
<1> QED
    BY <1>1, <1>2, <1>3, <1>4, CopyAgain DEF Copies

\* A request clones the project, and so holds a copy of it.
LEMMA HandlersKeepProject ==
    ASSUME ProjectInv, NEW h \in Handlers,
           \/ HandlerStep(h)
           \/ \E op \in Ops : start_edit(h, op)
           \/ \E id \in DOMAIN jobs : Interrupt(h, id)
    PROVE  ProjectInv'
<1>1. TypeOK /\ TypeOK'
    BY HandlerTypes, RequestTypes DEF ProjectInv
<1>2. UNCHANGED <<project, disk, seen>> /\ Saves
    BY DEF Saves, HandlerStep, SnapshotProject, AcquirePermit, CreateJob, SpawnWorker,
           RespondWithJob, start_edit, Interrupt, ProjectStays
<1>3. \A k \in Handlers : k # h => handler'[k] = handler[k]
    BY <1>1 DEF HandlerStep, SnapshotProject, AcquirePermit, CreateJob, SpawnWorker,
           RespondWithJob, start_edit, Interrupt, Becomes, TypeOK
<1>4. handler'[h].pc \in {"permit", "create", "spawn"} =>
          Copy(project', handler'[h].version, handler'[h].graph)
  <2> SUFFICES ASSUME handler'[h].pc \in {"permit", "create", "spawn"}
               PROVE  Copy(project', handler'[h].version, handler'[h].graph)
    OBVIOUS
  <2>1. handler[h] \in HandlerState /\ project \in Project
    BY <1>1 DEF TypeOK
  <2>2. CASE SnapshotProject(h)
    BY <1>1, <1>2, <2>1, <2>2
       DEF SnapshotProject, Becomes, Idle, Copy, TypeOK, Project
  <2>3. CASE AcquirePermit(h)
    <3>1. /\ handler[h].pc = "permit"
          /\ handler'[h].version = handler[h].version
          /\ handler'[h].graph = handler[h].graph
        BY <1>1, <2>1, <2>3 DEF AcquirePermit, Becomes, Idle, TypeOK, HandlerState
    <3> QED
        BY <1>2, <3>1, OldCopies
  <2>4. CASE CreateJob(h)
    <3>1. /\ handler[h].pc = "create"
          /\ handler'[h].version = handler[h].version
          /\ handler'[h].graph = handler[h].graph
        BY <1>1, <2>4 DEF CreateJob, Becomes, Idle, TypeOK
    <3> QED
        BY <1>2, <3>1, OldCopies
  <2>5. CASE SpawnWorker(h) \/ RespondWithJob(h)
    BY <1>1, <2>5 DEF SpawnWorker, RespondWithJob, Becomes, Idle, TypeOK
  <2>6. CASE \/ \E op \in Ops : start_edit(h, op)
             \/ \E id \in DOMAIN jobs : Interrupt(h, id)
    BY <1>1, <2>6 DEF start_edit, Interrupt, Becomes, TypeOK
  <2> QED
    BY <2>2, <2>3, <2>4, <2>5, <2>6 DEF HandlerStep
<1>5. ASSUME NEW id \in DOMAIN worker'
      PROVE  Copy(project', worker'[id].expected, worker'[id].graph)
  <2>1. CASE worker' = worker
    BY <1>2, <1>5, <2>1, OldCopies
  <2>2. CASE SpawnWorker(h)
    <3>1. \/ worker' = worker
          \/ /\ worker' = [i \in DOMAIN worker \cup {handler[h].id} |->
                   IF i = handler[h].id THEN NewWorker(handler[h]) ELSE worker[i]]
             /\ handler[h].pc = "spawn"
        BY <2>2 DEF SpawnWorker
    <3>2. CASE id = handler[h].id /\ worker' # worker
      <4>1. worker'[id] = NewWorker(handler[h]) /\ handler[h].pc = "spawn"
        BY <3>1, <3>2
      <4>2. /\ worker'[id].expected = handler[h].version
            /\ worker'[id].graph = handler[h].graph
        BY <4>1 DEF NewWorker
      <4> QED
        BY <1>2, <4>1, <4>2, OldCopies
    <3>3. CASE id # handler[h].id /\ worker' # worker
      <4>1. id \in DOMAIN worker /\ worker'[id] = worker[id]
        BY <1>5, <3>1, <3>3
      <4> QED
        BY <1>2, <4>1, OldCopies
    <3> QED
        BY <2>1, <3>2, <3>3
  <2> QED
    BY <2>1, <2>2 DEF HandlerStep, SnapshotProject, AcquirePermit, CreateJob,
       RespondWithJob, start_edit, Interrupt, JobsAndWorkersStay
<1>6. Copies'
    BY <1>2, <1>3, <1>4, <1>5, OldCopies DEF Copies
<1> QED
    BY <1>1, <1>2, <1>6, SaveKeeps DEF ProjectInv

\* A worker commits only at the version of its own copy.
LEMMA WorkersKeepProject ==
    ASSUME ProjectInv, NEW id \in DOMAIN worker,
           WorkerStep(id) \/ DeadlinePasses(id) \/ PlannerPanics(id)
    PROVE  ProjectInv'
<1> DEFINE w == worker[id]
<1>1. TypeOK /\ TypeOK' /\ w \in Worker /\ w.op \in Ops /\ w.interrupted \in BOOLEAN
    BY WorkerTypes DEF ProjectInv, TypeOK, Worker
<1>2. Copy(project, w.expected, w.graph)
    BY DEF ProjectInv, Copies
<1>3. handler' = handler /\ \A i \in DOMAIN worker' : i \in DOMAIN worker
    BY DEF WorkerStep, DeadlinePasses, PlannerPanics, StartWorker, BeginTurn, EndTurn,
       DraftGraph, FinishPlan, CommitUpdate, PublishUpdate, BeginCompletion, MarkComplete,
       FinalizeUpdates, ReportSuccess, ReadInterrupted, PersistFailedOperation,
       ReportFailure, WorkerFinished, DropPermit, ServiceStays, Goes
<1>4. \A i \in DOMAIN worker' : i # id => worker'[i] = worker[i]
    BY DEF WorkerStep, DeadlinePasses, PlannerPanics, StartWorker, BeginTurn, EndTurn,
       DraftGraph, FinishPlan, CommitUpdate, PublishUpdate, BeginCompletion, MarkComplete,
       FinalizeUpdates, ReportSuccess, ReadInterrupted, PersistFailedOperation,
       ReportFailure, WorkerFinished, DropPermit, Goes
<1>5. ASSUME Saves, id \in DOMAIN worker' => Copy(project', worker'[id].expected, worker'[id].graph)
      PROVE  ProjectInv'
  <2>1. \A i \in DOMAIN worker' : Copy(project', worker'[i].expected, worker'[i].graph)
    BY <1>3, <1>4, <1>5, OldCopies
  <2>2. Copies'
    BY <1>3, <1>5, <2>1, OldCopies DEF Copies
  <2> QED
    BY <1>1, <1>5, <2>2, SaveKeeps DEF ProjectInv
<1>6. CASE CommitUpdate(id)
  <2> DEFINE c == UpdateCandidate(w)
  <2>1. CASE /\ MayCommit(id) /\ publish(c, "saved")
             /\ worker' = [worker EXCEPT ![id] =
                    [@ EXCEPT !.pc = "publishing", !.published = TRUE,
                              !.expected = c.version, !.graph = w.draft]]
    <3>1. w.expected = project.version
        BY <2>1 DEF MayCommit
    <3>2. Moves(c) /\ c.graph = w.draft /\ c.version \in Nat
        BY <1>1, <1>2, <3>1, UpdateMoves DEF Moves, Project
    <3> HIDE DEF c
    <3>3. worker'[id].expected = c.version /\ worker'[id].graph = w.draft
        BY <1>1, <2>1 DEF Worker
    <3>4. project' = c
        BY <2>1 DEF publish
    <3>5. Copy(project', worker'[id].expected, worker'[id].graph)
        BY <3>2, <3>3, <3>4 DEF Copy
    <3>6. Saves
        BY <2>1, <3>2 DEF Saves
    <3> QED
        BY <1>5, <3>5, <3>6
  <2>2. CASE /\ \/ /\ MayCommit(id)
                   /\ \E outcome \in SaveOutcome \ {"saved"} : publish(c, outcome)
                \/ UNCHANGED <<project, disk, seen>>
             /\ Goes(id, "failing")
    <3>1. MayCommit(id) => Moves(c)
        BY <1>1, <1>2, UpdateMoves DEF MayCommit
    <3> HIDE DEF c
    <3>2. Saves
        BY <2>2, <3>1 DEF Saves
    <3>3. worker'[id].expected = w.expected /\ worker'[id].graph = w.graph
        BY <1>1, <2>2 DEF Goes, Worker
    <3> QED
        BY <1>5, <3>2, <3>3, OldCopies
  <2> QED
    BY <1>6, <2>1, <2>2 DEF CommitUpdate, UpdateCandidate
<1>7. CASE MarkComplete(id)
  <2> DEFINE c == mark_operation_complete(project, w.op)
  <2>1. Moves(c) /\ c.version = project.version + 1 /\ c.graph = project.graph
    BY <1>1, MetadataMoves
  <2>2. CASE /\ MayComplete(id) /\ publish(c, "saved")
             /\ worker' = [worker EXCEPT ![id] =
                    [@ EXCEPT !.pc = "finalizing", !.expected = c.version]]
    <3> HIDE DEF c
    <3>1. w.graph = project.graph
        BY <1>2, <2>2 DEF MayComplete, Copy
    <3>2. worker'[id].expected = c.version /\ worker'[id].graph = w.graph
        BY <1>1, <2>2 DEF Worker
    <3>3. project' = c /\ c.version \in Nat
        BY <2>1, <2>2 DEF publish, Moves, Project
    <3>4. Copy(project', worker'[id].expected, worker'[id].graph)
        BY <2>1, <3>1, <3>2, <3>3 DEF Copy
    <3>5. Saves
        BY <2>1, <2>2 DEF Saves
    <3> QED
        BY <1>5, <3>4, <3>5
  <2>3. CASE /\ \/ \E outcome \in SaveOutcome \ {"saved"} : publish(c, outcome)
                \/ UNCHANGED <<project, disk, seen>>
             /\ Goes(id, "failing")
    <3> HIDE DEF c
    <3>1. Saves
        BY <2>1, <2>3 DEF Saves
    <3>2. worker'[id].expected = w.expected /\ worker'[id].graph = w.graph
        BY <1>1, <2>3 DEF Goes, Worker
    <3> QED
        BY <1>5, <3>1, <3>2, OldCopies
  <2> QED
    BY <1>7, <2>2, <2>3 DEF MarkComplete
<1>8. CASE PersistFailedOperation(id)
  <2>1. Saves
    BY <1>1, <1>8, MetadataMoves DEF PersistFailedOperation, Saves
  <2>2. worker'[id].expected = w.expected /\ worker'[id].graph = w.graph
    BY <1>1, <1>8 DEF PersistFailedOperation, Goes, Worker
  <2> QED
    BY <1>5, <2>1, <2>2, OldCopies
<1>9. CASE DropPermit(id)
    BY <1>5, <1>9 DEF DropPermit, ProjectStays, Saves
<1>10. CASE \/ StartWorker(id) \/ BeginTurn(id) \/ EndTurn(id) \/ DraftGraph(id)
            \/ FinishPlan(id) \/ PublishUpdate(id) \/ BeginCompletion(id)
            \/ FinalizeUpdates(id) \/ ReportSuccess(id) \/ ReadInterrupted(id)
            \/ ReportFailure(id) \/ WorkerFinished(id) \/ DeadlinePasses(id)
            \/ PlannerPanics(id)
  <2>1. Saves
    BY <1>10 DEF Saves, StartWorker, BeginTurn, EndTurn, DraftGraph, FinishPlan,
       PublishUpdate, BeginCompletion, FinalizeUpdates, ReportSuccess, ReadInterrupted,
       ReportFailure, WorkerFinished, DeadlinePasses, PlannerPanics, ProjectStays
  <2>2. worker'[id].expected = w.expected /\ worker'[id].graph = w.graph
    BY <1>1, <1>10 DEF StartWorker, BeginTurn, EndTurn, DraftGraph, FinishPlan,
       PublishUpdate, BeginCompletion, FinalizeUpdates, ReportSuccess, ReadInterrupted,
       ReportFailure, WorkerFinished, DeadlinePasses, PlannerPanics, Goes, Worker
  <2> QED
    BY <1>5, <2>1, <2>2, OldCopies
<1> QED
    BY <1>6, <1>7, <1>8, <1>9, <1>10 DEF WorkerStep

\* Users move the project forward, which makes every copy an older one.
LEMMA ProjectStepsKeepProject ==
    ASSUME ProjectInv, ChangeProject \/ Navigate
    PROVE  ProjectInv'
<1>1. TypeOK' /\ project \in Project /\ graphs + 1 \in Graph
    BY ProjectTypes DEF ProjectInv, TypeOK, Graph
<1>2. Saves
  <2>1. CASE ChangeProject
    BY <1>1, <2>1, UserMoves DEF ChangeProject, Saves, UserCandidate
  <2>2. CASE Navigate
    <3>1. PICK index \in {parent(project)} \cup (1..Len(project.snapshots)),
               outcome \in SaveOutcome :
                  index # NoParent /\ publish(checkout(project, index), outcome)
        BY <2>2 DEF Navigate
    <3>2. index \in 1..Len(project.snapshots)
        BY <1>1, <3>1 DEF ProjectInv, Linked, parent, NoParent, Project
    <3> QED
        BY <3>1, <3>2, CheckoutMoves DEF Saves
  <2> QED
    BY <2>1, <2>2
<1>3. handler' = handler /\ worker' = worker
    BY DEF ChangeProject, Navigate, JobsAndWorkersStay
<1>4. Copies'
    BY <1>2, <1>3, OldCopies DEF Copies
<1> QED
    BY <1>1, <1>2, <1>4, SaveKeeps DEF ProjectInv

\* After a restart the project is the file's, which no client has seen more than.
LEMMA RestartKeepsProject ==
    ASSUME ProjectInv, Restart
    PROVE  ProjectInv'
<1>1. TypeOK /\ TypeOK' /\ project.version \in Nat /\ disk.version \in Nat
    BY ProjectTypes DEF ProjectInv, TypeOK, Project
<1>2. project' = disk /\ disk' = disk /\ seen' = seen \cup {<<disk.version, disk.graph>>}
    BY DEF Restart
<1>3. Linked(project)' /\ Linked(disk)' /\ Ahead'
    BY <1>1, <1>2 DEF ProjectInv, Linked, Ahead
<1>4. Copies'
    BY <1>1 DEF Restart, Copies, Idle
<1>5. \A shown \in seen : /\ shown[1] \in Nat
                          /\ Copy(project, shown[1], shown[2])
                          /\ Copy(disk, shown[1], shown[2])
    BY <1>1 DEF ProjectInv, Copy, Ahead, TypeOK
<1>6. \A shown \in seen' : Copy(project', shown[1], shown[2])
    BY <1>1, <1>2, <1>5 DEF Copy
<1>7. VersionIdentifiesGraph'
    BY <1>2, <1>5 DEF ProjectInv, VersionIdentifiesGraph, Copy
<1> QED
    BY <1>1, <1>3, <1>4, <1>6, <1>7 DEF ProjectInv

\* The project invariant is inductive.
LEMMA ProjectInductive == ProjectInv /\ [Next]_vars => ProjectInv'
<1> SUFFICES ASSUME ProjectInv, [Next]_vars PROVE ProjectInv'
    OBVIOUS
<1>1. CASE \E h \in Handlers : \/ HandlerStep(h)
                               \/ \E op \in Ops : start_edit(h, op)
                               \/ \E id \in DOMAIN jobs : Interrupt(h, id)
    BY <1>1, HandlersKeepProject
<1>2. CASE \E id \in DOMAIN worker : WorkerStep(id) \/ DeadlinePasses(id) \/ PlannerPanics(id)
    BY <1>2, WorkersKeepProject
<1>3. CASE ChangeProject \/ Navigate
    BY <1>3, ProjectStepsKeepProject
<1>4. CASE Restart
    BY <1>4, RestartKeepsProject
<1>5. CASE UNCHANGED vars
    BY <1>5 DEF vars, ProjectInv, TypeOK, Linked, Ahead, Copies, Copy, VersionIdentifiesGraph
<1> QED
    BY <1>1, <1>2, <1>3, <1>4, <1>5 DEF Next

\* The project invariant holds in every state of the service.
LEMMA ProjectInvariant == Spec => []ProjectInv
    BY InitProject, ProjectInductive, PTL DEF Spec

\* Every variable of the service keeps its type, for any clients, limits and faults.
THEOREM TypeCorrect == Spec => []TypeOK
<1>1. ProjectInv => TypeOK
    BY DEF ProjectInv
<1> QED
    BY <1>1, ProjectInvariant, PTL

\* No edit overwrites work it has not seen (commit_gemini_update compares versions):
\* every snapshot of the history was made from the snapshot it is derived from.
THEOREM LostUpdatesNeverHappen == Spec => []NoLostUpdate
<1>1. ProjectInv => NoLostUpdate
    BY DEF ProjectInv, Linked, NoLostUpdate
<1> QED
    BY <1>1, ProjectInvariant, PTL

\* Two reads of the same version show the same graph, across edits, undo, saves
\* that fail before or after the rename, and restarts.
THEOREM VersionsIdentifyGraphs == Spec => []VersionIdentifiesGraph
<1>1. ProjectInv => VersionIdentifiesGraph
    BY DEF ProjectInv
<1> QED
    BY <1>1, ProjectInvariant, PTL

----------------------------------------------------------------------------
(* The slot of the job table *)

\* One table has the jobs of another, with no slot taken that was free.
Shrinks(t, u) ==
    /\ DOMAIN u = DOMAIN t
    /\ \A i \in DOMAIN t : /\ u[i].operation_id = t[i].operation_id
                           /\ u[i].worker_active => t[i].worker_active

\* Methods that a running worker or a client calls keep every slot.
LEMMA CallsKeepSlots ==
    ASSUME NEW t, JobTable(t), NEW id, NEW version,
           NEW u \in {t, set_running(t, id), publish_update(t, id, version),
                      finalize_updates(t, id, version), interrupt(t, id)}
    PROVE  Shrinks(t, u) /\ ActiveWorkers(u) = ActiveWorkers(t)
<1> USE DEF JobTable, EditJob, Open, Shrinks, ActiveWorkers
<1>1. CASE u = t
    BY <1>1
<1>2. CASE u = set_running(t, id)
    BY <1>2 DEF set_running
<1>3. CASE u = publish_update(t, id, version)
    BY <1>3 DEF publish_update
<1>4. CASE u = finalize_updates(t, id, version)
    BY <1>4 DEF finalize_updates
<1>5. CASE u = interrupt(t, id)
    BY <1>5 DEF interrupt
<1> QED
    BY <1>1, <1>2, <1>3, <1>4, <1>5

\* Methods that end a job give back its own slot and no other.
LEMMA CallsFreeSlot ==
    ASSUME NEW t, JobTable(t), NEW id,
           NEW u \in {complete(t, id), fail(t, id), worker_finished(t, id)}
    PROVE  /\ Shrinks(t, u)
           /\ \A i \in DOMAIN t : i # id => u[i].worker_active = t[i].worker_active
<1> USE DEF JobTable, EditJob, Open, Shrinks
<1>1. CASE u = complete(t, id)
    BY <1>1 DEF complete
<1>2. CASE u = fail(t, id)
    BY <1>2 DEF fail
<1>3. CASE u = worker_finished(t, id)
    BY <1>3 DEF worker_finished
<1> QED
    BY <1>1, <1>2, <1>3

Uses(w) == w.pc \notin {"finishing", "dropping"}

\* A step that creates no job and starts no worker keeps SlotInv when whoever loses
\* a slot has no more use for it.
LEMMA SlotsShrink ==
    ASSUME SlotInv, Shrinks(jobs, jobs'), next_id' = next_id,
           DOMAIN worker' \subseteq DOMAIN worker,
           \A id \in DOMAIN worker' :
              /\ worker'[id].op = worker[id].op
              /\ Uses(worker'[id]) => Uses(worker[id]),
           \A h \in Handlers : handler'[h].pc = "spawn" => handler'[h] = handler[h],
           \A id \in ActiveWorkers(jobs) \ ActiveWorkers(jobs') :
              /\ id \in DOMAIN worker' => ~Uses(worker'[id])
              /\ \A h \in Handlers : handler'[h].pc = "spawn" => handler'[h].id # id
    PROVE  SlotInv'
<1>1. ActiveWorkers(jobs') \subseteq ActiveWorkers(jobs) /\ DOMAIN jobs' = DOMAIN jobs
    BY DEF ActiveWorkers, Shrinks
<1>2. IsFiniteSet(DOMAIN jobs')
    BY <1>1 DEF SlotInv
<1>3. \A i, j \in ActiveWorkers(jobs') : i = j
    BY <1>1 DEF SlotInv
<1>4. \A id \in DOMAIN jobs' \cup DOMAIN worker' : id < next_id'
    BY <1>1 DEF SlotInv
<1>5. ASSUME NEW id \in DOMAIN worker', Uses(worker'[id])
      PROVE  id \in ActiveWorkers(jobs') /\ jobs'[id].operation_id = worker'[id].op
  <2>1. id \in ActiveWorkers(jobs) /\ jobs[id].operation_id = worker[id].op
    BY <1>5 DEF SlotInv, UsesJob, Uses
  <2> QED
    BY <1>5, <2>1 DEF Shrinks, ActiveWorkers
<1>6. ASSUME NEW h \in Handlers, handler'[h].pc = "spawn"
      PROVE  /\ handler'[h].id \in ActiveWorkers(jobs')
             /\ jobs'[handler'[h].id].operation_id = handler'[h].op
             /\ handler'[h].id \notin DOMAIN worker'
  <2>1. /\ handler[h].id \in ActiveWorkers(jobs)
        /\ jobs[handler[h].id].operation_id = handler[h].op
        /\ handler[h].id \notin DOMAIN worker
        /\ handler'[h] = handler[h]
    BY <1>6 DEF SlotInv
  <2> QED
    BY <1>6, <2>1 DEF Shrinks, ActiveWorkers
<1>7. \A h, k \in Handlers :
          /\ handler'[h].pc = "spawn" /\ handler'[k].pc = "spawn"
          /\ handler'[h].id = handler'[k].id
          => h = k
    BY DEF SlotInv
<1> QED
    BY <1>2, <1>3, <1>4, <1>5, <1>6, <1>7 DEF SlotInv, UsesJob, Uses

\* At the start the slot is free.
LEMMA InitSlot == Init => SlotInv
    BY FS_EmptySet DEF Init, SlotInv, ActiveWorkers, UsesJob, Idle

\* A job is created only when no slot is taken, and its id is new.
LEMMA CreateKeepsSlot ==
    ASSUME TypeOK, SlotInv, NEW h \in Handlers, NEW op \in Ops, CanCreate(jobs),
           jobs' = create(jobs, next_id, op), next_id' = next_id + 1, worker' = worker,
           handler'[h].pc = "spawn", handler'[h].op = op, handler'[h].id = next_id,
           \A k \in Handlers \ {h} : handler'[k] = handler[k]
    PROVE  SlotInv'
<1>1. ActiveWorkers(jobs) = {}
  <2>1. ActiveWorkers(jobs) \subseteq DOMAIN jobs /\ IsFiniteSet(DOMAIN jobs)
    BY DEF SlotInv, ActiveWorkers
  <2>2. IsFiniteSet(ActiveWorkers(jobs))
    BY <2>1, FS_Subset
  <2>3. Cardinality(ActiveWorkers(jobs)) = 0
    BY <2>2, FS_CardinalityType DEF CanCreate, MAX_ACTIVE_EDIT_JOBS
  <2> QED
    BY <2>2, <2>3, FS_EmptySet
<1>2. Retained(jobs) \subseteq DOMAIN jobs
    BY DEF Retained
<1>3. /\ DOMAIN jobs' = Retained(jobs) \cup {next_id}
      /\ jobs'[next_id].worker_active /\ jobs'[next_id].operation_id = op
      /\ \A i \in Retained(jobs) : i # next_id => jobs'[i] = jobs[i]
    BY DEF create
<1>4. IsFiniteSet(DOMAIN jobs')
    BY <1>2, <1>3, FS_Subset, FS_AddElement DEF SlotInv
<1>5. ActiveWorkers(jobs') = {next_id}
    BY <1>1, <1>2, <1>3 DEF ActiveWorkers
<1>6. \A id \in DOMAIN jobs \cup DOMAIN worker : id \in Nat /\ id < next_id
    BY DEF TypeOK, JobTable, JobIds, SlotInv
<1>7. next_id \in Nat
    BY DEF TypeOK, JobIds
<1>8. \A id \in DOMAIN jobs' \cup DOMAIN worker' : id < next_id'
    BY <1>2, <1>3, <1>6, <1>7
<1>9. \A id \in DOMAIN worker : ~UsesJob(id)
    BY <1>1 DEF SlotInv
<1>10. \A id \in DOMAIN worker' : ~UsesJob(id)'
    BY <1>9 DEF UsesJob
<1>11. \A k \in Handlers : handler'[k].pc = "spawn" => k = h
    BY <1>1 DEF SlotInv
<1>12. next_id \notin DOMAIN worker'
    BY <1>6, <1>7
<1> QED
    BY <1>3, <1>4, <1>5, <1>8, <1>10, <1>11, <1>12 DEF SlotInv

\* Requests pass the slot on, and create a job only when it is free.
LEMMA HandlersKeepSlot ==
    ASSUME TypeOK, SlotInv, NEW h \in Handlers,
           \/ HandlerStep(h)
           \/ \E op \in Ops : start_edit(h, op)
           \/ \E id \in DOMAIN jobs : Interrupt(h, id)
    PROVE  SlotInv'
<1>1. JobTable(jobs) /\ handler[h] \in HandlerState /\ DOMAIN handler = Handlers
    BY DEF TypeOK
<1>2. \A k \in Handlers \ {h} : handler'[k] = handler[k]
    BY <1>1 DEF HandlerStep, SnapshotProject, AcquirePermit, CreateJob, SpawnWorker,
           RespondWithJob, start_edit, Interrupt, Becomes, TypeOK
<1>3. CASE handler'[h].pc # "spawn" /\ UNCHANGED <<jobs, next_id, worker>>
    BY <1>1, <1>2, <1>3, SlotsShrink DEF Shrinks
<1>4. CASE \E id \in DOMAIN jobs : Interrupt(h, id)
  <2>1. PICK id \in DOMAIN jobs : Interrupt(h, id)
    BY <1>4
  <2>2. Shrinks(jobs, jobs') /\ ActiveWorkers(jobs') = ActiveWorkers(jobs)
    BY <1>1, <2>1, CallsKeepSlots DEF Interrupt
  <2>3. handler'[h].pc # "spawn" /\ UNCHANGED <<next_id, worker>>
    BY <1>1, <2>1 DEF Interrupt, Becomes, TypeOK
  <2> QED
    BY <1>2, <2>2, <2>3, SlotsShrink
<1>5. CASE CreateJob(h)
  <2>1. handler[h].op \in Ops /\ UNCHANGED worker
    BY <1>1, <1>5 DEF CreateJob, HandlerState
  <2>2. \/ handler'[h].pc # "spawn" /\ UNCHANGED <<jobs, next_id, worker>>
        \/ /\ CanCreate(jobs) /\ jobs' = create(jobs, next_id, handler[h].op)
           /\ next_id' = next_id + 1
           /\ handler'[h].pc = "spawn" /\ handler'[h].op = handler[h].op
           /\ handler'[h].id = next_id
    BY <1>1, <1>5 DEF CreateJob, Becomes, Idle, TypeOK
  <2> QED
    BY <1>2, <1>3, <2>1, <2>2, CreateKeepsSlot
<1>6. CASE SpawnWorker(h)
  <2> DEFINE id == handler[h].id
  <2>1. /\ handler[h].pc = "spawn" /\ handler'[h].pc = "idle" /\ next_id' = next_id
        /\ id \in ActiveWorkers(jobs) /\ jobs[id].operation_id = handler[h].op
        /\ id \notin DOMAIN worker
        /\ \A k \in Handlers : handler[k].pc = "spawn" /\ k # h => handler[k].id # id
    BY <1>1, <1>6 DEF SpawnWorker, Becomes, Idle, TypeOK, SlotInv
  <2> HIDE DEF id
  <2>2. CASE jobs' = fail(jobs, id) /\ worker' = worker
    <3>1. Shrinks(jobs, jobs') /\ ActiveWorkers(jobs) \ ActiveWorkers(jobs') \subseteq {id}
        BY <1>1, <2>2, CallsFreeSlot DEF ActiveWorkers, Shrinks
    <3> QED
        BY <1>2, <2>1, <2>2, <3>1, SlotsShrink
  <2>3. CASE /\ jobs' = jobs
             /\ worker' = [i \in DOMAIN worker \cup {id} |->
                              IF i = id THEN NewWorker(handler[h]) ELSE worker[i]]
    <3>1. /\ DOMAIN worker' = DOMAIN worker \cup {id}
          /\ worker'[id].op = handler[h].op
          /\ \A i \in DOMAIN worker : worker'[i] = worker[i]
        BY <2>1, <2>3 DEF NewWorker
    <3>2. \A i \in DOMAIN worker' : UsesJob(i)' =>
              i \in ActiveWorkers(jobs) /\ jobs[i].operation_id = worker'[i].op
        BY <2>1, <3>1 DEF SlotInv, UsesJob
    <3>3. \A k \in Handlers : handler'[k].pc = "spawn" =>
              k # h /\ handler'[k] = handler[k] /\ handler[k].id \notin DOMAIN worker'
        BY <1>2, <2>1, <3>1 DEF SlotInv
    <3>4. \A i \in DOMAIN jobs' \cup DOMAIN worker' : i < next_id'
        BY <2>1, <2>3, <3>1 DEF SlotInv, ActiveWorkers
    <3>5. \A k \in Handlers : handler'[k].pc = "spawn" =>
              /\ handler'[k].id \in ActiveWorkers(jobs')
              /\ jobs'[handler'[k].id].operation_id = handler'[k].op
              /\ handler'[k].id \notin DOMAIN worker'
        BY <2>3, <3>3 DEF SlotInv
    <3>6. \A k, l \in Handlers :
              /\ handler'[k].pc = "spawn" /\ handler'[l].pc = "spawn"
              /\ handler'[k].id = handler'[l].id
              => k = l
        BY <3>3 DEF SlotInv
    <3>7. IsFiniteSet(DOMAIN jobs') /\ \A i, j \in ActiveWorkers(jobs') : i = j
        BY <2>3 DEF SlotInv
    <3>8. \A i \in DOMAIN worker' : UsesJob(i)' =>
              i \in ActiveWorkers(jobs') /\ jobs'[i].operation_id = worker'[i].op
        BY <2>3, <3>2
    <3> QED
        BY <3>4, <3>5, <3>6, <3>7, <3>8 DEF SlotInv
  <2> QED
    BY <1>6, <2>2, <2>3 DEF SpawnWorker, id
<1>7. CASE \/ SnapshotProject(h) \/ AcquirePermit(h) \/ RespondWithJob(h)
           \/ \E op \in Ops : start_edit(h, op)
  <2>1. handler'[h].pc # "spawn" /\ UNCHANGED <<jobs, next_id, worker>>
    BY <1>1, <1>7 DEF SnapshotProject, AcquirePermit, RespondWithJob, start_edit,
       JobsAndWorkersStay, Becomes, Idle, TypeOK, HandlerState
  <2> QED
    BY <1>3, <2>1
<1> QED
    BY <1>4, <1>5, <1>6, <1>7 DEF HandlerStep

\* A worker gives the slot back when it reports, and uses its job no more.
LEMMA WorkersKeepSlot ==
    ASSUME TypeOK, SlotInv, NEW id \in DOMAIN worker,
           WorkerStep(id) \/ DeadlinePasses(id) \/ PlannerPanics(id)
    PROVE  SlotInv'
<1>1. JobTable(jobs) /\ worker[id] \in Worker
    BY DEF TypeOK
<1>2. CASE DropPermit(id)
  <2>1. UNCHANGED <<jobs, next_id, handler>>
        /\ worker' = [i \in DOMAIN worker \ {id} |-> worker[i]]
    BY <1>2 DEF DropPermit
  <2> QED
    BY <2>1, SlotsShrink DEF Shrinks
<1>3. CASE ~DropPermit(id)
  <2>1. /\ DOMAIN worker' = DOMAIN worker /\ UNCHANGED <<handler, next_id>>
        /\ \A i \in DOMAIN worker : i # id => worker'[i] = worker[i]
    BY <1>3 DEF WorkerStep, DeadlinePasses, PlannerPanics, StartWorker, BeginTurn, EndTurn,
       DraftGraph, FinishPlan, CommitUpdate, PublishUpdate, BeginCompletion, MarkComplete,
       FinalizeUpdates, ReportSuccess, ReadInterrupted, PersistFailedOperation,
       ReportFailure, WorkerFinished, ServiceStays, Goes
  <2>2. worker'[id].op = worker[id].op /\ (Uses(worker'[id]) => Uses(worker[id]))
    <3>1. CASE \/ StartWorker(id) \/ BeginTurn(id) \/ EndTurn(id) \/ FinishPlan(id)
               \/ PublishUpdate(id)
        BY <1>1, <3>1 DEF StartWorker, BeginTurn, EndTurn, FinishPlan, PublishUpdate,
           Goes, Uses, At, Worker
    <3>6. CASE DraftGraph(id)
        BY <1>1, <3>6 DEF DraftGraph, Uses, At, Worker
    <3>7. CASE CommitUpdate(id)
      <4>1. worker[id].pc = "committing"
        BY <3>7 DEF CommitUpdate, At
      <4>2. worker'[id].op = worker[id].op
        BY <1>1, <3>7 DEF CommitUpdate, Goes, Worker
      <4> QED
        BY <4>1, <4>2 DEF Uses
    <3>2. CASE \/ BeginCompletion(id) \/ MarkComplete(id) \/ FinalizeUpdates(id)
               \/ ReportSuccess(id) \/ ReadInterrupted(id) \/ PersistFailedOperation(id)
               \/ ReportFailure(id)
        BY <1>1, <3>2 DEF BeginCompletion, MarkComplete, FinalizeUpdates, ReportSuccess,
           ReadInterrupted, PersistFailedOperation, ReportFailure, Goes, Uses, At, Worker
    <3>3. CASE WorkerFinished(id)
        BY <1>1, <3>3 DEF WorkerFinished, Goes, Uses, At, Worker
    <3>4. CASE DeadlinePasses(id)
        BY <1>1, <3>4 DEF DeadlinePasses, Uses, Worker
    <3>5. CASE PlannerPanics(id)
        BY <1>1, <3>5 DEF PlannerPanics, Uses, Worker
    <3> QED
        BY <1>3, <3>1, <3>2, <3>3, <3>4, <3>5, <3>6, <3>7 DEF WorkerStep
  <2>3. CASE \/ jobs' = jobs \/ jobs' = set_running(jobs, id)
             \/ jobs' = publish_update(jobs, id, worker[id].expected)
             \/ jobs' = finalize_updates(jobs, id, worker[id].expected)
    <3>1. Shrinks(jobs, jobs') /\ ActiveWorkers(jobs') = ActiveWorkers(jobs)
        BY <1>1, <2>3, CallsKeepSlots
    <3> QED
        BY <2>1, <2>2, <3>1, SlotsShrink
  <2>4. CASE ReportSuccess(id) \/ ReportFailure(id) \/ WorkerFinished(id)
    <3>1. Shrinks(jobs, jobs') /\ ActiveWorkers(jobs) \ ActiveWorkers(jobs') \subseteq {id}
        BY <1>1, <2>4, CallsFreeSlot
           DEF ReportSuccess, ReportFailure, WorkerFinished, ActiveWorkers, Shrinks
    <3>2. ~Uses(worker'[id])
        BY <1>1, <2>4 DEF ReportSuccess, ReportFailure, WorkerFinished, Goes, Uses, Worker
    <3>3. \A h \in Handlers : handler'[h].pc = "spawn" => handler'[h].id # id
        BY <2>1 DEF SlotInv
    <3> QED
        BY <2>1, <2>2, <3>1, <3>2, <3>3, SlotsShrink
  <2> QED
    BY <1>3, <2>3, <2>4 DEF WorkerStep, DeadlinePasses, PlannerPanics, StartWorker,
       BeginTurn, EndTurn, DraftGraph, FinishPlan, CommitUpdate, PublishUpdate,
       BeginCompletion, MarkComplete, FinalizeUpdates, ReadInterrupted,
       PersistFailedOperation
<1> QED
    BY <1>2, <1>3

\* The slot invariant is inductive.
LEMMA SlotInductive == TypeOK /\ SlotInv /\ [Next]_vars => SlotInv'
<1> SUFFICES ASSUME TypeOK, SlotInv, [Next]_vars PROVE SlotInv'
    OBVIOUS
<1>1. CASE \E h \in Handlers : \/ HandlerStep(h)
                               \/ \E op \in Ops : start_edit(h, op)
                               \/ \E id \in DOMAIN jobs : Interrupt(h, id)
    BY <1>1, HandlersKeepSlot
<1>2. CASE \E id \in DOMAIN worker : WorkerStep(id) \/ DeadlinePasses(id) \/ PlannerPanics(id)
    BY <1>2, WorkersKeepSlot
<1>3. CASE ChangeProject \/ Navigate \/ UNCHANGED vars
  <2>1. UNCHANGED <<jobs, next_id, worker, handler>>
    BY <1>3 DEF ChangeProject, Navigate, JobsAndWorkersStay, vars
  <2> QED
    BY <2>1 DEF SlotInv, ActiveWorkers, UsesJob
<1>4. CASE Restart
    BY <1>4, FS_EmptySet DEF Restart, SlotInv, ActiveWorkers, UsesJob, Idle
<1> QED
    BY <1>1, <1>2, <1>3, <1>4 DEF Next

\* However edits are started, repeated, interrupted, evicted and ended, a worker
\* finds its own job in the table while it may use it, and is the only one to edit.
THEOREM OneWorkerWithItsJob == Spec => []JobOutlivesWorker
<1>1. Spec => []TypeOK
    BY TypeCorrect
<1>2. Spec => []SlotInv
    BY <1>1, InitSlot, SlotInductive, PTL DEF Spec
<1>3. SlotInv => JobOutlivesWorker
    BY DEF SlotInv, JobOutlivesWorker, ActiveWorkers
<1> QED
    BY <1>2, <1>3, PTL

----------------------------------------------------------------------------
(***************************************************************************)
(* EditService implements ProjectLedger, for any clients, limits, faults   *)
(* and restarts, and never loses a graph that was on show.                 *)
(*                                                                         *)
(* The argument: each save writes a candidate that is one step of the      *)
(* ledger ahead of the project in memory, and memory takes the candidate   *)
(* only when the save succeeds.  So the file is the project or one such    *)
(* step ahead of it, and a restart takes that step or none.                *)
(***************************************************************************)

\* A record that takes one more step of its edit.
StepRecorded(p, q, op) ==
    /\ Status(p, op) \in {"absent", "running"}
    /\ q.edit_operations = [p.edit_operations EXCEPT ![op] =
            [status |-> "running",
             applied_steps |-> p.edit_operations[op].applied_steps + 1]]

\* A record that gets its outcome.
Decided(p, q, op, outcome) ==
    /\ Status(p, op) = "running"
    /\ q.edit_operations = [p.edit_operations EXCEPT ![op] =
            [p.edit_operations[op] EXCEPT !.status = outcome]]

SameHistory(p, q) ==
    q.snapshots = p.snapshots /\ q.parents = p.parents

\* One snapshot is added to the history, and none is touched.
OneMore(p, q) ==
    /\ Len(q.snapshots) = Len(p.snapshots) + 1
    /\ \A i \in 1..Len(p.snapshots) : q.snapshots[i] = p.snapshots[i]

Grows(p, q) ==
    /\ q.version = p.version + 1
    /\ OneMore(p, q)
    /\ q.parents = Append(p.parents, p.current)
    /\ q.current = Len(p.snapshots) + 1
    /\ q.edit_operations = p.edit_operations \/ \E op \in Ops : StepRecorded(p, q, op)

Visits(p, q) ==
    /\ q.version = p.version + 1
    /\ q.current \in 1..Len(p.snapshots)
    /\ SameHistory(p, q) /\ q.edit_operations = p.edit_operations

Completes(p, q) ==
    /\ q.version = p.version + 1
    /\ SameHistory(p, q) /\ q.current = p.current
    /\ \E op \in Ops : Decided(p, q, op, "completed")

Fails(p, q) ==
    /\ q.version = p.version
    /\ SameHistory(p, q) /\ q.current = p.current
    /\ \E op \in Ops, outcome \in {"failed", "interrupted"} : Decided(p, q, op, outcome)

\* What one whole save makes of a project.
Follows(p, q) == Grows(p, q) \/ Visits(p, q) \/ Completes(p, q) \/ Fails(p, q)

\* The file holds the project, or what a save that reported an error made of it.
FileFollows == disk = project \/ Follows(project, disk)

\* Every graph that was on show is in the history.
ShownIsKept ==
    \A shown \in seen : \E i \in DOMAIN project.snapshots :
        project.snapshots[i].graph = shown[2]

LedgerInv == FileFollows /\ ShownIsKept

----------------------------------------------------------------------------
(* The ledger's view of a project *)

\* The graphs of a history.
Shown(p) == [i \in DOMAIN p.snapshots |-> p.snapshots[i].graph]

\* They are a sequence, as long as the history.
LEMMA ShownHistory ==
    ASSUME NEW p \in Project
    PROVE  /\ Shown(p) \in Seq(Graph)
           /\ Len(Shown(p)) = Len(p.snapshots)
           /\ \A i \in 1..Len(p.snapshots) : Shown(p)[i] = p.snapshots[i].graph
<1>1. p.snapshots \in Seq(Snapshot)
    BY DEF Project
<1>2. DOMAIN p.snapshots = 1..Len(p.snapshots) /\ Len(p.snapshots) \in Nat
    BY <1>1
<1>3. \A i \in 1..Len(p.snapshots) : p.snapshots[i].graph \in Graph
  <2>1. \A i \in 1..Len(p.snapshots) : p.snapshots[i] \in Snapshot
    BY <1>1
  <2> QED
    BY <2>1 DEF Snapshot
<1>4. Shown(p) \in [1..Len(p.snapshots) -> Graph]
    BY <1>2, <1>3 DEF Shown
<1>5. Shown(p) \in Seq(Graph)
    BY <1>2, <1>4, SeqDef
<1>6. DOMAIN Shown(p) = 1..Len(Shown(p)) /\ Len(Shown(p)) \in Nat
    BY <1>5, LenProperties
<1>7. Len(Shown(p)) = Len(p.snapshots)
    BY <1>2, <1>4, <1>6
<1> QED
    BY <1>2, <1>5, <1>7 DEF Shown

\* A snapshot at the end of a history is a graph at the end of its graphs.
LEMMA ShownGrows ==
    ASSUME NEW p \in Project, NEW q \in Project, OneMore(p, q)
    PROVE  /\ Len(Shown(q)) = Len(Shown(p)) + 1
           /\ SubSeq(Shown(q), 1, Len(Shown(p))) = Shown(p)
<1> DEFINE n == Len(p.snapshots)
<1>1. p.snapshots \in Seq(Snapshot) /\ n \in Nat
    BY DEF Project
<1>2. Len(q.snapshots) = n + 1 /\ \A i \in 1..n : q.snapshots[i] = p.snapshots[i]
    BY DEF OneMore
<1>3. /\ Shown(p) \in Seq(Graph) /\ Len(Shown(p)) = n
      /\ Shown(q) \in Seq(Graph) /\ Len(Shown(q)) = n + 1
    BY <1>2, ShownHistory
<1>4. \A i \in 1..n : Shown(q)[i] = Shown(p)[i]
  <2>1. ASSUME NEW i \in 1..n
        PROVE  Shown(q)[i] = q.snapshots[i].graph /\ Shown(p)[i] = p.snapshots[i].graph
    <3>1. i \in 1..Len(p.snapshots) /\ i \in 1..Len(q.snapshots)
        BY <1>1, <1>2
    <3> QED
        BY <3>1, ShownHistory
  <2> QED
    BY <1>2, <2>1
<1> HIDE DEF n
<1>5. /\ SubSeq(Shown(q), 1, n) \in Seq(Graph) /\ Len(SubSeq(Shown(q), 1, n)) = n
      /\ \A i \in 1..n : SubSeq(Shown(q), 1, n)[i] = Shown(q)[i]
    BY <1>1, <1>3
<1>6. SubSeq(Shown(q), 1, n) = Shown(p)
    BY <1>3, <1>4, <1>5, SeqEqual
<1> QED
    BY <1>3, <1>6

\* What follows a project is a step of the ledger.
LEMMA FollowsIsNext ==
    ASSUME project \in Project, project' \in Project, Follows(project, project')
    PROVE  Ledger!Next
<1>1. /\ Shown(project) \in Seq(Graph) /\ Len(Shown(project)) = Len(project.snapshots)
      /\ project.edit_operations \in [Ops -> Operation]
    BY ShownHistory DEF Project
<1>2. CASE Grows(project, project')
  <2>1. /\ Len(Shown(project')) = Len(Shown(project)) + 1
        /\ SubSeq(Shown(project'), 1, Len(Shown(project))) = Shown(project)
    BY <1>2, ShownGrows DEF Grows
  <2>2. UNCHANGED project.edit_operations \/ \E op \in Ops : Ledger!RecordStep(op)
    BY <1>1, <1>2 DEF Grows, StepRecorded, Status, Ledger!RecordStep
  <2>3. Ledger!Change
    BY <1>1, <1>2, <2>1, <2>2 DEF Grows, Shown, Ledger!Change
  <2> QED
    BY <2>3 DEF Ledger!Next
<1>3. CASE Visits(project, project')
  <2>1. Ledger!Visit
    BY <1>1, <1>3 DEF Visits, SameHistory, Shown, Ledger!Visit
  <2> QED
    BY <2>1 DEF Ledger!Next
<1>4. ASSUME NEW op \in Ops, NEW outcome \in OperationStatus,
             SameHistory(project, project'), project'.current = project.current,
             Decided(project, project', op, outcome)
      PROVE  Ledger!Conclude(op, outcome)
    BY <1>1, <1>4 DEF SameHistory, Decided, Status, Ledger!Conclude
<1>5. CASE Completes(project, project')
    BY <1>4, <1>5 DEF Completes, OperationStatus, Ledger!Complete, Ledger!Next
<1>6. CASE Fails(project, project')
    BY <1>4, <1>6 DEF Fails, OperationStatus, Ledger!Fail, Ledger!Next
<1> QED
    BY <1>2, <1>3, <1>5, <1>6 DEF Follows

----------------------------------------------------------------------------
(* Every candidate is one step ahead of the project *)

\* What replacing the graph leaves alone.
LEMMA GraphReplaced ==
    ASSUME NEW p \in Project, NEW graph \in Graph
    PROVE  LET q == change_graph(p, graph) IN
           /\ q \in Project /\ q.version = p.version + 1 /\ q.graph = graph
           /\ q.edit_operations = p.edit_operations
           /\ SameHistory(p, q) /\ q.current = p.current
<1>1. change_graph(p, graph) \in Project
    BY ChangeGraph
<1> QED
    BY <1>1 DEF change_graph, Project, SameHistory

\* What a push adds to the history.
Appended(p, q) ==
    /\ q.version = p.version /\ q.edit_operations = p.edit_operations
    /\ OneMore(p, q)
    /\ q.parents = Append(p.parents, p.current)
    /\ q.current = Len(p.snapshots) + 1

\* A push adds one snapshot below the current one.
LEMMA PushAppends ==
    ASSUME NEW p \in Project, NEW basis \in Graph
    PROVE  Appended(p, push(p, basis))
<1> DEFINE new == [graph |-> p.graph, basis |-> basis]
           q == push(p, basis)
<1>1. new \in Snapshot /\ p.snapshots \in Seq(Snapshot)
    BY DEF Snapshot, Project
<1>2. /\ q.version = p.version /\ q.edit_operations = p.edit_operations
      /\ q.snapshots = Append(p.snapshots, new)
      /\ q.parents = Append(p.parents, p.current)
      /\ q.current = Len(p.snapshots) + 1
    BY DEF push, Project
<1> HIDE DEF new, q
<1>3. OneMore(p, q)
    BY <1>1, <1>2, AppendProperties DEF OneMore
<1> QED
    BY <1>2, <1>3 DEF Appended, q

\* A change by hand grows the history and records nothing.
LEMMA UserGrows ==
    ASSUME ProjectInv, NEW graph \in Graph
    PROVE  /\ Grows(project, UserCandidate(graph))
           /\ UserCandidate(graph).edit_operations = project.edit_operations
<1> DEFINE q == change_graph(project, graph)
<1>1. project \in Project /\ project.graph \in Graph
    BY DEF ProjectInv, TypeOK, Project
<1>2. /\ q \in Project /\ q.version = project.version + 1
      /\ q.edit_operations = project.edit_operations
      /\ SameHistory(project, q) /\ q.current = project.current
    BY <1>1, GraphReplaced
<1>3. UserCandidate(graph) = push(q, project.graph)
    BY DEF UserCandidate
<1> HIDE DEF q
<1> DEFINE c == UserCandidate(graph)
<1>4. Appended(q, c)
    BY <1>1, <1>2, <1>3, PushAppends
<1> HIDE DEF c
<1>5. Grows(project, c) /\ c.edit_operations = project.edit_operations
    BY <1>2, <1>4 DEF Grows, SameHistory, Appended, OneMore
<1> QED
    BY <1>5 DEF c

\* An update grows the history and records one step of its edit.
LEMMA UpdateGrows ==
    ASSUME ProjectInv, NEW w \in Worker, CanRecordStep(project, w.op)
    PROVE  /\ Grows(project, UpdateCandidate(w))
           /\ StepRecorded(project, UpdateCandidate(w), w.op)
<1> DEFINE p == replace_graph(project, w.draft)
           q == record_operation_step(p, w.op)
<1>1. project \in Project /\ w.draft \in Graph /\ w.graph \in Graph /\ w.op \in Ops
    BY DEF ProjectInv, TypeOK, Worker
<1>2. /\ p \in Project /\ p.version = project.version + 1
      /\ p.edit_operations = project.edit_operations
      /\ SameHistory(project, p) /\ p.current = project.current
    BY <1>1, GraphReplaced DEF replace_graph
<1> HIDE DEF p
<1>3. /\ q \in Project /\ q.version = p.version
      /\ SameHistory(p, q) /\ q.current = p.current
      /\ q.edit_operations = [p.edit_operations EXCEPT ![w.op] =
            [status |-> "running",
             applied_steps |-> p.edit_operations[w.op].applied_steps + 1]]
  <2>1. q \in Project
    BY <1>1, <1>2, RecordStep
  <2> QED
    BY <1>2, <2>1 DEF record_operation_step, with_operation, Project, SameHistory
<1>4. UpdateCandidate(w) = push(q, w.graph)
    BY DEF UpdateCandidate, p
<1> DEFINE c == UpdateCandidate(w)
<1> HIDE DEF q, c
<1>5. Appended(q, c)
    BY <1>1, <1>3, <1>4, PushAppends DEF c
<1>6. StepRecorded(project, c, w.op)
    BY <1>2, <1>3, <1>5 DEF StepRecorded, CanRecordStep, Appended
<1>7. Grows(project, c)
    BY <1>1, <1>2, <1>3, <1>5, <1>6 DEF Grows, SameHistory, Appended, OneMore
<1> QED
    BY <1>6, <1>7 DEF c

\* An outcome is decided for a running edit only.
LEMMA OutcomeDecided ==
    ASSUME ProjectInv, NEW op \in Ops, IsRunning(project, op), NEW b \in BOOLEAN
    PROVE  /\ Completes(project, mark_operation_complete(project, op))
           /\ Decided(project, mark_operation_complete(project, op), op, "completed")
           /\ Fails(project, mark_operation_failed(project, op, b))
           /\ \E outcome \in {"failed", "interrupted"} :
                 Decided(project, mark_operation_failed(project, op, b), op, outcome)
<1>1. project \in Project
    BY DEF ProjectInv, TypeOK
<1>2. ASSUME NEW outcome \in OperationStatus
      PROVE  LET c == concluded(project, op, outcome) IN
             /\ c \in Project /\ c.version = project.version
             /\ SameHistory(project, c) /\ c.current = project.current
             /\ Decided(project, c, op, outcome)
  <2>1. concluded(project, op, outcome) \in Project
    BY <1>1, Concluded
  <2> QED
    BY <1>1, <2>1
       DEF concluded, with_operation, Project, SameHistory, Decided, IsRunning
<1> DEFINE c == concluded(project, op, "completed")
           d == mark_operation_complete(project, op)
<1>3. /\ c \in Project /\ c.version = project.version
      /\ SameHistory(project, c) /\ c.current = project.current
      /\ Decided(project, c, op, "completed")
    BY <1>2 DEF OperationStatus
<1>4. d = [c EXCEPT !.version = c.version + 1]
    BY DEF mark_operation_complete
<1> HIDE DEF c
<1>5. /\ d.version = project.version + 1
      /\ d.snapshots = c.snapshots /\ d.parents = c.parents /\ d.current = c.current
      /\ d.edit_operations = c.edit_operations
    BY <1>3, <1>4 DEF Project
<1>6. Decided(project, d, op, "completed") /\ Completes(project, d)
    BY <1>3, <1>5 DEF Decided, Completes, SameHistory
<1>7. \E outcome \in {"failed", "interrupted"} :
          mark_operation_failed(project, op, b) = concluded(project, op, outcome)
    BY DEF mark_operation_failed
<1>8. PICK outcome \in {"failed", "interrupted"} :
          mark_operation_failed(project, op, b) = concluded(project, op, outcome)
    BY <1>7
<1>9. /\ Decided(project, mark_operation_failed(project, op, b), op, outcome)
      /\ Fails(project, mark_operation_failed(project, op, b))
    BY <1>2, <1>8 DEF OperationStatus, Fails
<1> QED
    BY <1>6, <1>9

\* A checkout visits a snapshot.
LEMMA CheckoutVisits ==
    ASSUME ProjectInv, NEW index \in 1..Len(project.snapshots)
    PROVE  Visits(project, checkout(project, index))
<1>1. project \in Project /\ checkout(project, index) \in Project
    BY Checkout DEF ProjectInv, TypeOK
<1> QED
    BY <1>1 DEF checkout, Project, Visits, SameHistory

----------------------------------------------------------------------------
(* What a step saves *)

\* A save, failed or not, of a candidate one step ahead of the project.
SavesNext ==
    \E c, outcome : Moves(c) /\ Follows(project, c) /\ publish(c, outcome)

\* A worker saves a step, an outcome or nothing.
LEMMA WorkerSaves ==
    ASSUME ProjectInv, NEW id \in DOMAIN worker,
           WorkerStep(id) \/ DeadlinePasses(id) \/ PlannerPanics(id)
    PROVE  UNCHANGED <<project, disk, seen>> \/ SavesNext
<1> DEFINE w == worker[id]
<1>1. w \in Worker /\ w.op \in Ops /\ w.interrupted \in BOOLEAN
    BY DEF ProjectInv, TypeOK, Worker
<1>2. CASE CommitUpdate(id)
  <2> DEFINE c == UpdateCandidate(w)
  <2>1. \/ UNCHANGED <<project, disk, seen>>
        \/ MayCommit(id) /\ \E outcome : publish(c, outcome)
    BY <1>2 DEF CommitUpdate, UpdateCandidate
  <2>2. ASSUME MayCommit(id)
        PROVE  Moves(c) /\ Follows(project, c)
    <3>1. Copy(project, w.expected, w.graph)
        BY DEF ProjectInv, Copies
    <3> QED
        BY <1>1, <2>2, <3>1, UpdateMoves, UpdateGrows DEF MayCommit, Follows
  <2> HIDE DEF c
  <2> QED
    BY <2>1, <2>2 DEF SavesNext
<1>3. CASE MarkComplete(id)
  <2> DEFINE c == mark_operation_complete(project, w.op)
  <2>1. \/ UNCHANGED <<project, disk, seen>>
        \/ MayComplete(id) /\ \E outcome : publish(c, outcome)
    BY <1>3 DEF MarkComplete
  <2>2. ASSUME MayComplete(id)
        PROVE  Moves(c) /\ Follows(project, c)
    BY <1>1, <2>2, MetadataMoves, OutcomeDecided DEF MayComplete, Follows
  <2> HIDE DEF c
  <2> QED
    BY <2>1, <2>2 DEF SavesNext
<1>4. CASE PersistFailedOperation(id)
  <2> DEFINE c == mark_operation_failed(project, w.op, w.interrupted)
  <2>1. \/ UNCHANGED <<project, disk, seen>>
        \/ IsRunning(project, w.op) /\ \E outcome : publish(c, outcome)
    BY <1>4 DEF PersistFailedOperation
  <2>2. ASSUME IsRunning(project, w.op)
        PROVE  Moves(c) /\ Follows(project, c)
    BY <1>1, <2>2, MetadataMoves, OutcomeDecided DEF Follows
  <2> HIDE DEF c
  <2> QED
    BY <2>1, <2>2 DEF SavesNext
<1>5. CASE \/ StartWorker(id) \/ BeginTurn(id) \/ EndTurn(id) \/ DraftGraph(id)
           \/ FinishPlan(id) \/ PublishUpdate(id) \/ BeginCompletion(id)
           \/ FinalizeUpdates(id) \/ ReportSuccess(id) \/ ReadInterrupted(id)
           \/ ReportFailure(id) \/ WorkerFinished(id) \/ DropPermit(id)
           \/ DeadlinePasses(id) \/ PlannerPanics(id)
    BY <1>5 DEF StartWorker, BeginTurn, EndTurn, DraftGraph, FinishPlan, PublishUpdate,
       BeginCompletion, FinalizeUpdates, ReportSuccess, ReadInterrupted, ReportFailure,
       WorkerFinished, DropPermit, DeadlinePasses, PlannerPanics, ProjectStays
<1> QED
    BY <1>2, <1>3, <1>4, <1>5 DEF WorkerStep

\* A user's change by hand or navigation saves one step, which records nothing.
LEMMA UserSaves ==
    ASSUME ProjectInv, ChangeProject \/ Navigate
    PROVE  \E c, outcome :
              /\ Moves(c) /\ Follows(project, c) /\ publish(c, outcome)
              /\ c.edit_operations = project.edit_operations
<1>1. CASE ChangeProject
  <2> DEFINE c == UserCandidate(graphs + 1)
  <2>1. graphs + 1 \in Graph
    BY DEF ProjectInv, TypeOK, Graph
  <2>2. /\ Moves(c) /\ Follows(project, c)
        /\ c.edit_operations = project.edit_operations
    BY <2>1, UserMoves, UserGrows DEF Follows
  <2>3. \E outcome : publish(c, outcome)
    BY <1>1 DEF ChangeProject, UserCandidate
  <2> HIDE DEF c
  <2> QED
    BY <2>2, <2>3
<1>2. CASE Navigate
  <2>1. PICK index \in {parent(project)} \cup (1..Len(project.snapshots)),
             outcome \in SaveOutcome :
                index # NoParent /\ publish(checkout(project, index), outcome)
    BY <1>2 DEF Navigate
  <2>2. index \in 1..Len(project.snapshots)
    <3>1. project \in Project /\ Linked(project)
        BY DEF ProjectInv, TypeOK
    <3> QED
        BY <2>1, <3>1 DEF Linked, parent, NoParent, Project
  <2> DEFINE c == checkout(project, index)
  <2>3. Moves(c) /\ Visits(project, c)
    BY <2>2, CheckoutMoves, CheckoutVisits
  <2>4. publish(c, outcome)
    BY <2>1
  <2> HIDE DEF c
  <2> QED
    BY <2>3, <2>4 DEF Follows, Visits
<1> QED
    BY <1>1, <1>2

\* Nobody saves anything else.
LEMMA StepSaves ==
    ASSUME ProjectInv, [Next]_vars, ~Restart
    PROVE  UNCHANGED <<project, disk, seen>> \/ SavesNext
<1>1. CASE \E h \in Handlers : \/ HandlerStep(h)
                               \/ \E op \in Ops : start_edit(h, op)
                               \/ \E id \in DOMAIN jobs : Interrupt(h, id)
    BY <1>1 DEF HandlerStep, SnapshotProject, AcquirePermit, CreateJob, SpawnWorker,
       RespondWithJob, start_edit, Interrupt, ProjectStays
<1>2. CASE \E id \in DOMAIN worker : WorkerStep(id) \/ DeadlinePasses(id) \/ PlannerPanics(id)
    BY <1>2, WorkerSaves
<1>3. CASE ChangeProject \/ Navigate
    BY <1>3, UserSaves DEF SavesNext
<1>4. CASE UNCHANGED vars
    BY <1>4 DEF vars
<1> QED
    BY <1>1, <1>2, <1>3, <1>4 DEF Next

----------------------------------------------------------------------------
(* The ledger's invariant *)

\* A step of the ledger keeps the graphs of the history.
LEMMA FollowsKeepsGraphs ==
    ASSUME NEW p \in Project, NEW q \in Project, Follows(p, q)
    PROVE  \A i \in DOMAIN p.snapshots :
              i \in DOMAIN q.snapshots /\ q.snapshots[i] = p.snapshots[i]
<1>1. p.snapshots \in Seq(Snapshot) /\ q.snapshots \in Seq(Snapshot)
    BY DEF Project
<1>2. CASE Grows(p, q)
  <2> DEFINE old == p.snapshots
             new == q.snapshots
  <2>1. Len(new) = Len(old) + 1 /\ \A i \in 1..Len(old) : new[i] = old[i]
      BY <1>2 DEF Grows, OneMore
  <2>2. old \in Seq(Snapshot) /\ new \in Seq(Snapshot)
      BY <1>1
  <2> HIDE DEF old, new
  <2>3. Len(old) \in Nat /\ DOMAIN old = 1..Len(old) /\ DOMAIN new = 1..Len(new)
      BY <2>2, LenProperties
  <2>4. \A i \in DOMAIN old : i \in DOMAIN new /\ new[i] = old[i]
      BY <2>1, <2>3
  <2> QED BY <2>4 DEF old, new
<1>3. CASE SameHistory(p, q)
    BY <1>3 DEF SameHistory
<1> QED
    BY <1>2, <1>3 DEF Follows, Visits, Completes, Fails

\* The graph on show is in the history.
LEMMA LinkedShows ==
    ASSUME NEW p \in Project, Linked(p)
    PROVE  \E i \in DOMAIN p.snapshots : p.snapshots[i].graph = p.graph
<1>1. p.snapshots \in Seq(Snapshot)
    BY DEF Project
<1>2. p.current \in DOMAIN p.snapshots
    BY <1>1, LenProperties DEF Linked
<1> QED
    BY <1>2 DEF Linked

\* A save keeps the file at most one step ahead, and every graph that was on show.
LEMMA SaveKeepsLedger ==
    ASSUME ProjectInv, LedgerInv, SavesNext
    PROVE  LedgerInv' /\ (project' = project \/ Follows(project, project'))
<1>1. PICK c, outcome : Moves(c) /\ Follows(project, c) /\ publish(c, outcome)
    BY DEF SavesNext
<1>2. project \in Project /\ c \in Project /\ Linked(c)
    BY <1>1 DEF ProjectInv, TypeOK, Moves
<1>3. CASE outcome = "saved"
  <2>1. project' = c /\ disk' = c /\ seen' = seen \cup {<<c.version, c.graph>>}
    BY <1>1, <1>3 DEF publish
  <2>2. FileFollows'
    BY <2>1 DEF FileFollows
  <2>3. \A shown \in seen : \E i \in DOMAIN c.snapshots : c.snapshots[i].graph = shown[2]
    BY <1>1, <1>2, FollowsKeepsGraphs DEF LedgerInv, ShownIsKept
  <2>4. \E i \in DOMAIN c.snapshots : c.snapshots[i].graph = c.graph
    BY <1>2, LinkedShows
  <2>5. ShownIsKept'
    BY <2>1, <2>3, <2>4 DEF ShownIsKept
  <2> QED
    BY <1>1, <2>1, <2>2, <2>5 DEF LedgerInv
<1>4. CASE outcome # "saved"
  <2>1. project' = project /\ disk' \in {disk, c} /\ seen' = seen
    BY <1>1, <1>4 DEF publish
  <2> QED
    BY <1>1, <2>1 DEF LedgerInv, FileFollows, ShownIsKept
<1> QED
    BY <1>3, <1>4

\* A restart takes the step that the file is ahead, or none.
LEMMA RestartKeepsLedger ==
    ASSUME ProjectInv, LedgerInv, Restart
    PROVE  LedgerInv' /\ (project' = project \/ Follows(project, project'))
<1>1. project \in Project /\ disk \in Project /\ Linked(disk)
    BY DEF ProjectInv, TypeOK
<1>2. project' = disk /\ disk' = disk /\ seen' = seen \cup {<<disk.version, disk.graph>>}
    BY DEF Restart
<1>3. disk = project \/ Follows(project, disk)
    BY DEF LedgerInv, FileFollows
<1>4. \A shown \in seen : \E i \in DOMAIN disk.snapshots :
          disk.snapshots[i].graph = shown[2]
    BY <1>1, <1>3, FollowsKeepsGraphs DEF LedgerInv, ShownIsKept
<1>5. \E i \in DOMAIN disk.snapshots : disk.snapshots[i].graph = disk.graph
    BY <1>1, LinkedShows
<1>6. ShownIsKept' /\ FileFollows'
    BY <1>2, <1>4, <1>5 DEF ShownIsKept, FileFollows
<1> QED
    BY <1>2, <1>3, <1>6 DEF LedgerInv

\* Every step of the service keeps the ledger's invariant, and takes the project one
\* step of the ledger further or leaves it.
LEMMA LedgerInductive ==
    ASSUME ProjectInv, LedgerInv, [Next]_vars
    PROVE  LedgerInv' /\ (project' = project \/ Follows(project, project'))
<1>1. CASE Restart
    BY <1>1, RestartKeepsLedger
<1>2. CASE SavesNext
    BY <1>2, SaveKeepsLedger
<1>3. CASE UNCHANGED <<project, disk, seen>>
    BY <1>3 DEF LedgerInv, FileFollows, ShownIsKept
<1> QED
    BY <1>1, <1>2, <1>3, StepSaves

\* At the start the file holds the project, and its one graph is on show.
LEMMA InitLedger == Init => LedgerInv
<1> SUFFICES ASSUME Init PROVE LedgerInv
    OBVIOUS
<1>1. /\ project = InitialProject /\ disk = project
      /\ seen = {<<InitialProject.version, InitialGraph>>}
    BY DEF Init
<1>2. InitialProject.snapshots[1].graph = InitialGraph /\ 1 \in DOMAIN InitialProject.snapshots
    BY DEF InitialProject
<1> QED
    BY <1>1, <1>2 DEF LedgerInv, FileFollows, ShownIsKept

\* The ledger's invariant holds in every state of the service.
LEMMA LedgerInvariant == Spec => []LedgerInv
<1>1. ProjectInv /\ LedgerInv /\ [Next]_vars => LedgerInv'
    BY LedgerInductive
<1> QED
    BY <1>1, InitLedger, ProjectInvariant, PTL DEF Spec

----------------------------------------------------------------------------
(* Theorems *)

\* The edit service keeps the promises of ProjectLedger: whatever threads, failing
\* saves and restarts do, the project changes one whole step at a time, its history
\* only grows and an outcome once recorded is final.
THEOREM ServiceKeepsLedger == Spec => KeepsLedger
<1>1. Init => Ledger!Init
  <2> SUFFICES ASSUME Init PROVE Ledger!Init
    OBVIOUS
  <2>1. project = InitialProject
    BY DEF Init
  <2>2. [i \in DOMAIN InitialProject.snapshots |-> InitialProject.snapshots[i].graph]
            = <<InitialGraph>>
    BY DEF InitialProject
  <2>3. /\ project.version = 1 /\ project.current = 1 /\ project.parents = <<0>>
        /\ project.edit_operations = [op \in Ops |-> NoOperation]
    BY <2>1 DEF InitialProject, NoParent
  <2> QED
    BY <2>1, <2>2, <2>3 DEF Ledger!Init, Ledger!NoOperation, NoOperation
<1>2. ProjectInv /\ ProjectInv' /\ LedgerInv /\ [Next]_vars => [Ledger!Next]_(Ledger!ledger)
  <2> SUFFICES ASSUME ProjectInv, ProjectInv', LedgerInv, [Next]_vars
               PROVE  [Ledger!Next]_(Ledger!ledger)
    OBVIOUS
  <2>1. project \in Project /\ project' \in Project
    BY DEF ProjectInv, TypeOK
  <2>2. CASE project' = project
    BY <2>2 DEF Ledger!ledger
  <2>3. CASE Follows(project, project')
    BY <2>1, <2>3, FollowsIsNext
  <2> QED
    BY <2>2, <2>3, LedgerInductive
<1> QED
    BY <1>1, <1>2, ProjectInvariant, LedgerInvariant, PTL DEF Spec, KeepsLedger, Ledger!Spec

\* The project file has every graph that a client could ever read, whatever saves
\* failed and wherever the process died.
THEOREM ShownGraphsStay == Spec => []NothingShownIsLost
<1>1. ProjectInv /\ LedgerInv => NothingShownIsLost
  <2> SUFFICES ASSUME ProjectInv, LedgerInv PROVE NothingShownIsLost
    OBVIOUS
  <2>1. project \in Project /\ disk \in Project
    BY DEF ProjectInv, TypeOK
  <2> QED
    BY <2>1, FollowsKeepsGraphs DEF LedgerInv, FileFollows, ShownIsKept, NothingShownIsLost
<1> QED
    BY <1>1, ProjectInvariant, LedgerInvariant, PTL

----------------------------------------------------------------------------
(***************************************************************************)
(* What becomes of an edit of EditService, for any clients, limits, faults *)
(* and restarts: it is carried out at most once, its success is in the     *)
(* file before it is reported, its permit comes back exactly once, and     *)
(* without faults its record never says running when nobody is on it.      *)
(***************************************************************************)

----------------------------------------------------------------------------
(* The inductive invariants *)

Recorded(op) == Status(project, op) # "absent"

\* What AtMostOnce rests on: once an edit is recorded, a request or a worker that
\* would carry it out again holds a version from before, and cannot commit.
AuthorInv ==
    /\ \A op \in Ops : \A a, b \in authors[op] : a = b
    /\ \A op \in Ops : authors[op] # {} => Recorded(op)
    /\ \A h \in Handlers :
          handler[h].pc \in {"permit", "create", "spawn"} /\ Recorded(handler[h].op)
            => handler[h].version < project.version
    /\ \A id \in DOMAIN worker :
          Recorded(worker[id].op) /\ <<epoch, id>> \notin authors[worker[id].op]
            => worker[id].expected < project.version

\* What CompletedJobIsDurable rests on: a worker goes on to report success only
\* after its record was completed, and a completed record stays so.
SuccessInv ==
    /\ \A id \in DOMAIN worker : worker[id].pc \in {"finalizing", "succeeding"} =>
          Status(project, worker[id].op) = "completed"
    /\ \A id \in DOMAIN jobs : jobs[id].state = "completed" =>
          Status(project, jobs[id].operation_id) = "completed"

\* What RunningHasWorker rests on: the worker of a running record has not yet
\* written its outcome.
Undecided(id) ==
    worker[id].pc \in {"starting", "planning", "calling", "committing", "publishing",
                       "completing", "marking", "failing", "persisting"}

AttendedInv ==
    \A op \in Ops : IsRunning(project, op) =>
        \E id \in DOMAIN worker : worker[id].op = op /\ Undecided(id)

\* What PermitsBalance needs besides itself: Cardinality counts.
PermitInv == IsFiniteSet(HoldingPermit) /\ PermitsBalance

----------------------------------------------------------------------------
(* Permits *)

\* The requests that hold a permit.
Holders ==
    {k \in Handlers : \/ handler[k].pc \in {"create", "spawn"}
                      \/ handler[k].pc = "respond" /\ handler[k].permits = 1}

Tickets(holders, ids) == {<<"request", h>> : h \in holders} \cup {<<"worker", id>> : id \in ids}

\* A permit is held by a request or by a worker.
LEMMA PermitTickets ==
    /\ HoldingPermit = Tickets(Holders, DOMAIN worker)
    /\ HoldingPermit' = Tickets(Holders', DOMAIN worker')
    BY DEF HoldingPermit, Holders, Tickets

\* The tickets of one more or one fewer request.
LEMMA RequestTickets ==
    ASSUME NEW holders, NEW ids, NEW h
    PROVE  /\ Tickets(holders \cup {h}, ids) = Tickets(holders, ids) \cup {<<"request", h>>}
           /\ Tickets(holders \ {h}, ids) = Tickets(holders, ids) \ {<<"request", h>>}
           /\ <<"request", h>> \in Tickets(holders, ids) <=> h \in holders
    BY DEF Tickets

\* The tickets of one more or one fewer worker.
LEMMA WorkerTickets ==
    ASSUME NEW holders, NEW ids, NEW id
    PROVE  /\ Tickets(holders, ids \cup {id}) = Tickets(holders, ids) \cup {<<"worker", id>>}
           /\ Tickets(holders, ids \ {id}) = Tickets(holders, ids) \ {<<"worker", id>>}
           /\ <<"worker", id>> \in Tickets(holders, ids) <=> id \in ids
    BY DEF Tickets

\* A permit that is taken below the limit is counted.
LEMMA PermitTaken ==
    ASSUME PermitInv, active \in Int, active' = active + 1, active < MAX_ACTIVE_EDITS,
           NEW ticket, ticket \notin HoldingPermit,
           HoldingPermit' = HoldingPermit \cup {ticket}
    PROVE  PermitInv'
<1>1. /\ IsFiniteSet(HoldingPermit')
      /\ Cardinality(HoldingPermit') = Cardinality(HoldingPermit) + 1
    BY FS_AddElement DEF PermitInv
<1>2. active' <= MAX_ACTIVE_EDITS
    BY ServiceAssumption
<1> QED
    BY <1>1, <1>2 DEF PermitInv, PermitsBalance

\* A permit that is dropped is no longer counted.
LEMMA PermitDropped ==
    ASSUME PermitInv, active \in Int, active' = active - 1,
           NEW ticket, ticket \in HoldingPermit,
           HoldingPermit' = HoldingPermit \ {ticket}
    PROVE  PermitInv'
<1>1. /\ IsFiniteSet(HoldingPermit')
      /\ Cardinality(HoldingPermit') = Cardinality(HoldingPermit) - 1
    BY FS_RemoveElement DEF PermitInv
<1>2. active' <= MAX_ACTIVE_EDITS
    BY ServiceAssumption DEF PermitInv, PermitsBalance
<1> QED
    BY <1>1, <1>2 DEF PermitInv, PermitsBalance

\* A permit that changes hands is counted once.
LEMMA PermitPassed ==
    ASSUME PermitInv, active' = active,
           NEW giver, giver \in HoldingPermit, NEW taker, taker \notin HoldingPermit,
           HoldingPermit' = (HoldingPermit \ {giver}) \cup {taker}
    PROVE  PermitInv'
<1> DEFINE rest == HoldingPermit \ {giver}
<1>1. IsFiniteSet(HoldingPermit) /\ Cardinality(HoldingPermit) \in Nat
    BY FS_CardinalityType DEF PermitInv
<1>2. IsFiniteSet(rest) /\ Cardinality(rest) = Cardinality(HoldingPermit) - 1
    BY <1>1, FS_RemoveElement
<1>3. taker \notin rest
    OBVIOUS
<1> HIDE DEF rest
<1>4. /\ IsFiniteSet(rest \cup {taker})
      /\ Cardinality(rest \cup {taker}) = Cardinality(rest) + 1
    BY <1>2, <1>3, FS_AddElement
<1>5. HoldingPermit' = rest \cup {taker}
    BY DEF rest
<1>6. Cardinality(rest \cup {taker}) = Cardinality(HoldingPermit)
    BY <1>1, <1>2, <1>4
<1>7. IsFiniteSet(HoldingPermit') /\ Cardinality(HoldingPermit') = Cardinality(HoldingPermit)
    BY <1>4, <1>5, <1>6
<1> QED
    BY <1>7 DEF PermitInv, PermitsBalance

\* What a request does to the permits: takes one, passes it on, or gives it back.
LEMMA RequestsKeepPermits ==
    ASSUME TypeOK, SlotInv, PermitInv, NEW h \in Handlers,
           \/ HandlerStep(h)
           \/ \E op \in Ops : start_edit(h, op)
           \/ \E id \in DOMAIN jobs : Interrupt(h, id)
    PROVE  PermitInv'
<1>1. handler \in [Handlers -> HandlerState] /\ active \in Int
    BY DEF TypeOK
<1>2. /\ \A k \in Handlers \ {h} : handler'[k] = handler[k]
      /\ handler' \in [Handlers -> HandlerState]
  <2>1. TypeOK'
    BY HandlerTypes, RequestTypes
  <2> QED
    BY <1>1, <2>1 DEF HandlerStep, SnapshotProject, AcquirePermit, CreateJob, SpawnWorker,
       RespondWithJob, start_edit, Interrupt, Becomes, TypeOK
<1> DEFINE ticket == <<"request", h>>
<1>3. CASE h \notin Holders /\ h \in Holders' /\ active' = active + 1
           /\ active < MAX_ACTIVE_EDITS /\ worker' = worker
  <2>1. Holders' = Holders \cup {h}
    BY <1>2, <1>3 DEF Holders
  <2> QED
    BY <1>1, <1>3, <2>1, PermitTickets, RequestTickets, PermitTaken
<1>4. CASE h \in Holders /\ h \notin Holders' /\ active' = active - 1 /\ worker' = worker
  <2>1. Holders' = Holders \ {h}
    BY <1>2, <1>4 DEF Holders
  <2>2. HoldingPermit' = HoldingPermit \ {ticket} /\ ticket \in HoldingPermit
    BY <1>4, <2>1, PermitTickets, RequestTickets
  <2> QED
    BY <1>1, <1>4, <2>2, PermitDropped
<1>5. CASE (h \in Holders <=> h \in Holders') /\ active' = active /\ worker' = worker
  <2>1. Holders' = Holders
    BY <1>2, <1>5 DEF Holders
  <2> QED
    BY <1>5, <2>1, PermitTickets DEF PermitInv, PermitsBalance
<1>6. CASE SpawnWorker(h)
  <2> DEFINE id == handler[h].id
  <2>1. h \in Holders /\ id \notin DOMAIN worker
    BY <1>6 DEF SpawnWorker, Holders, SlotInv
  <2>2. h \notin Holders'
    BY <1>1, <1>6 DEF SpawnWorker, Becomes, Idle, Holders
  <2>3. \/ worker' = worker /\ active' = active - 1
        \/ DOMAIN worker' = DOMAIN worker \cup {id} /\ active' = active
    BY <1>6 DEF SpawnWorker
  <2> HIDE DEF id
  <2>4. CASE DOMAIN worker' = DOMAIN worker \cup {id} /\ active' = active
    <3>1. Holders' = Holders \ {h}
        BY <1>2, <2>2 DEF Holders
    <3>2. /\ HoldingPermit = Tickets(Holders, DOMAIN worker)
          /\ HoldingPermit' = Tickets(Holders', DOMAIN worker')
        BY PermitTickets
    <3>3. HoldingPermit' = (HoldingPermit \ {ticket}) \cup {<<"worker", id>>}
        BY <2>1, <2>4, <3>1, <3>2 DEF Tickets
    <3>4. ticket \in HoldingPermit /\ <<"worker", id>> \notin HoldingPermit
        BY <2>1, PermitTickets, RequestTickets, WorkerTickets
    <3> QED
        BY <2>4, <3>3, <3>4, PermitPassed
  <2> QED
    BY <1>4, <2>1, <2>2, <2>3, <2>4
<1>7. CASE AcquirePermit(h)
    BY <1>1, <1>3, <1>5, <1>7
       DEF AcquirePermit, JobsAndWorkersStay, Becomes, Idle, Holders, HandlerState
<1>8. CASE CreateJob(h)
    BY <1>1, <1>4, <1>5, <1>8 DEF CreateJob, Becomes, Idle, Holders
<1>9. CASE RespondWithJob(h)
  <2>1. handler[h].permits \in {0, 1} /\ handler[h].pc = "respond"
    BY <1>1, <1>9 DEF RespondWithJob, HandlerState
  <2>2. h \notin Holders' /\ worker' = worker /\ active' = active - handler[h].permits
    BY <1>1, <1>9 DEF RespondWithJob, JobsAndWorkersStay, Becomes, Idle, Holders
  <2>3. h \in Holders <=> handler[h].permits = 1
    BY <2>1 DEF Holders
  <2> QED
    BY <1>1, <1>4, <1>5, <2>1, <2>2, <2>3
<1>10. CASE \/ SnapshotProject(h)
            \/ \E op \in Ops : start_edit(h, op)
            \/ \E id \in DOMAIN jobs : Interrupt(h, id)
    BY <1>1, <1>5, <1>10
       DEF SnapshotProject, start_edit, Interrupt, JobsAndWorkersStay, Becomes, Idle, Holders
<1> QED
    BY <1>6, <1>7, <1>8, <1>9, <1>10 DEF HandlerStep

\* A worker keeps its permit until it ends.
LEMMA WorkersKeepPermits ==
    ASSUME TypeOK, PermitInv, NEW id \in DOMAIN worker,
           WorkerStep(id) \/ DeadlinePasses(id) \/ PlannerPanics(id)
    PROVE  PermitInv'
<1>1. CASE DropPermit(id)
  <2>1. /\ Holders' = Holders /\ DOMAIN worker' = DOMAIN worker \ {id}
        /\ active' = active - 1
    BY <1>1 DEF DropPermit, Holders
  <2> DEFINE ticket == <<"worker", id>>
  <2>2. HoldingPermit' = HoldingPermit \ {ticket} /\ ticket \in HoldingPermit
    BY <2>1, PermitTickets, WorkerTickets
  <2>3. active \in Int
    BY DEF TypeOK
  <2> QED
    BY <2>1, <2>2, <2>3, PermitDropped
<1>2. CASE ~DropPermit(id)
  <2>1. DOMAIN worker' = DOMAIN worker /\ handler' = handler /\ active' = active
    BY <1>2 DEF WorkerStep, DeadlinePasses, PlannerPanics, StartWorker, BeginTurn, EndTurn,
       DraftGraph, FinishPlan, CommitUpdate, PublishUpdate, BeginCompletion, MarkComplete,
       FinalizeUpdates, ReportSuccess, ReadInterrupted, PersistFailedOperation,
       ReportFailure, WorkerFinished, ServiceStays, Goes
  <2>2. HoldingPermit' = HoldingPermit
    BY <2>1, PermitTickets DEF Holders
  <2> QED
    BY <2>1, <2>2 DEF PermitInv, PermitsBalance
<1> QED
    BY <1>1, <1>2

\* The permits are balanced at the start, and after every step.
LEMMA PermitInductive ==
    /\ Init => PermitInv
    /\ TypeOK /\ SlotInv /\ PermitInv /\ [Next]_vars => PermitInv'
<1>1. ASSUME HoldingPermit = {}, active = 0
      PROVE  PermitInv
    BY <1>1, FS_EmptySet, ServiceAssumption DEF PermitInv, PermitsBalance
<1>2. Init => HoldingPermit = {} /\ active = 0
    BY DEF Init, HoldingPermit, Idle
<1>3. ASSUME TypeOK, SlotInv, PermitInv, [Next]_vars
      PROVE  PermitInv'
  <2>1. CASE \E h \in Handlers : \/ HandlerStep(h)
                                 \/ \E op \in Ops : start_edit(h, op)
                                 \/ \E id \in DOMAIN jobs : Interrupt(h, id)
    BY <1>3, <2>1, RequestsKeepPermits
  <2>2. CASE \E id \in DOMAIN worker : WorkerStep(id) \/ DeadlinePasses(id) \/ PlannerPanics(id)
    BY <1>3, <2>2, WorkersKeepPermits
  <2>3. CASE ChangeProject \/ Navigate \/ UNCHANGED vars
    <3>1. UNCHANGED <<handler, worker, active>>
        BY <2>3 DEF ChangeProject, Navigate, JobsAndWorkersStay, vars
    <3> QED
        BY <1>3, <3>1 DEF PermitInv, PermitsBalance, HoldingPermit
  <2>4. CASE Restart
    <3>1. HoldingPermit' = {} /\ active' = 0
        BY <2>4 DEF Restart, HoldingPermit, Idle
    <3> QED
        BY <3>1, FS_EmptySet, ServiceAssumption DEF PermitInv, PermitsBalance
  <2> QED
    BY <1>3, <2>1, <2>2, <2>3, <2>4 DEF Next
<1> QED
    BY <1>1, <1>2, <1>3

----------------------------------------------------------------------------
(* What a step does to the records *)

\* A worker that leaves the records as they are.
LeavesRecords(id) ==
    /\ project'.edit_operations = project.edit_operations
    /\ authors' = authors
    /\ id \in DOMAIN worker' =>
          /\ worker'[id].expected = worker[id].expected
          /\ worker'[id].pc \in {"finalizing", "succeeding"} =>
                worker[id].pc \in {"finalizing", "succeeding"}

\* A worker whose step is committed.
CommitsStep(id) ==
    /\ worker[id].expected = project.version
    /\ StepRecorded(project, project', worker[id].op)
    /\ project'.version = project.version + 1
    /\ worker'[id].pc = "publishing"
    /\ authors' = [authors EXCEPT ![worker[id].op] = @ \cup {<<epoch, id>>}]

\* A worker whose edit is completed.
CompletesEdit(id) ==
    /\ worker[id].expected = project.version
    /\ Decided(project, project', worker[id].op, "completed")
    /\ worker'[id].pc = "finalizing"
    /\ authors' = authors

\* A worker whose edit is recorded as failed.
FailsEdit(id) ==
    /\ \E outcome \in {"failed", "interrupted"} :
          Decided(project, project', worker[id].op, outcome)
    /\ worker'[id].pc = "reporting"
    /\ worker'[id].expected = worker[id].expected
    /\ authors' = authors

\* A worker's step is one of these, and concerns its own record only.
LEMMA WorkerRecords ==
    ASSUME ProjectInv, NEW id \in DOMAIN worker,
           WorkerStep(id) \/ DeadlinePasses(id) \/ PlannerPanics(id)
    PROVE  LeavesRecords(id) \/ CommitsStep(id) \/ CompletesEdit(id) \/ FailsEdit(id)
<1> DEFINE w == worker[id]
<1>1. w \in Worker /\ w.op \in Ops /\ w.interrupted \in BOOLEAN
    BY DEF ProjectInv, TypeOK, Worker
<1>2. CASE CommitUpdate(id)
  <2> DEFINE c == UpdateCandidate(w)
  <2>1. CASE /\ MayCommit(id) /\ publish(c, "saved")
             /\ worker' = [worker EXCEPT ![id] =
                    [@ EXCEPT !.pc = "publishing", !.published = TRUE,
                              !.expected = c.version, !.graph = w.draft]]
             /\ authors' = [authors EXCEPT ![w.op] = @ \cup {<<epoch, id>>}]
    <3>1. Grows(project, c) /\ StepRecorded(project, c, w.op)
        BY <1>1, <2>1, UpdateGrows DEF MayCommit
    <3> HIDE DEF c
    <3>2. project' = c /\ worker'[id].pc = "publishing"
        BY <1>1, <2>1 DEF publish, Worker
    <3>3. CommitsStep(id)
        BY <2>1, <3>1, <3>2 DEF CommitsStep, MayCommit, Grows
    <3> QED
        BY <3>3
  <2>2. CASE /\ \/ \E outcome \in SaveOutcome \ {"saved"} : publish(c, outcome)
                \/ UNCHANGED <<project, disk, seen>>
             /\ Goes(id, "failing") /\ UNCHANGED authors
    <3> HIDE DEF c
    <3>1. project' = project
        BY <2>2 DEF publish
    <3>2. worker'[id].expected = w.expected /\ worker'[id].pc = "failing"
        BY <1>1, <2>2 DEF Goes, Worker
    <3> QED
        BY <2>2, <3>1, <3>2 DEF LeavesRecords
  <2> QED
    BY <1>2, <2>1, <2>2 DEF CommitUpdate, UpdateCandidate
<1>3. CASE MarkComplete(id)
  <2> DEFINE c == mark_operation_complete(project, w.op)
  <2>1. CASE /\ MayComplete(id) /\ publish(c, "saved")
             /\ worker' = [worker EXCEPT ![id] =
                    [@ EXCEPT !.pc = "finalizing", !.expected = c.version]]
             /\ UNCHANGED authors
    <3>1. Decided(project, c, w.op, "completed")
        BY <1>1, <2>1, OutcomeDecided DEF MayComplete
    <3> HIDE DEF c
    <3>2. project' = c /\ worker'[id].pc = "finalizing"
        BY <1>1, <2>1 DEF publish, Worker
    <3>3. CompletesEdit(id)
        BY <2>1, <3>1, <3>2 DEF CompletesEdit, MayComplete
    <3> QED
        BY <3>3
  <2>2. CASE /\ \/ \E outcome \in SaveOutcome \ {"saved"} : publish(c, outcome)
                \/ UNCHANGED <<project, disk, seen>>
             /\ Goes(id, "failing") /\ UNCHANGED authors
    <3> HIDE DEF c
    <3>1. project' = project
        BY <2>2 DEF publish
    <3>2. worker'[id].expected = w.expected /\ worker'[id].pc = "failing"
        BY <1>1, <2>2 DEF Goes, Worker
    <3> QED
        BY <2>2, <3>1, <3>2 DEF LeavesRecords
  <2> QED
    BY <1>3, <2>1, <2>2 DEF MarkComplete
<1>4. CASE PersistFailedOperation(id)
  <2> DEFINE c == mark_operation_failed(project, w.op, w.interrupted)
  <2>1. /\ worker'[id].expected = w.expected /\ worker'[id].pc = "reporting"
        /\ UNCHANGED authors
    BY <1>1, <1>4 DEF PersistFailedOperation, Goes, Worker
  <2>2. \/ UNCHANGED <<project, disk, seen>>
        \/ IsRunning(project, w.op) /\ \E outcome : publish(c, outcome)
    BY <1>4 DEF PersistFailedOperation
  <2>3. IsRunning(project, w.op) => \E outcome \in {"failed", "interrupted"} :
                                        Decided(project, c, w.op, outcome)
    BY <1>1, OutcomeDecided
  <2> HIDE DEF c
  <2>4. \/ project' = project
        \/ IsRunning(project, w.op) /\ project' = c
    BY <2>2 DEF publish
  <2> QED
    BY <2>1, <2>3, <2>4 DEF LeavesRecords, FailsEdit
<1>5. CASE DropPermit(id)
    BY <1>5 DEF DropPermit, ProjectStays, LeavesRecords
<1>6. CASE \/ StartWorker(id) \/ BeginTurn(id) \/ EndTurn(id) \/ FinishPlan(id)
           \/ PublishUpdate(id) \/ BeginCompletion(id) \/ FinalizeUpdates(id)
           \/ ReportSuccess(id) \/ ReportFailure(id) \/ WorkerFinished(id)
  <2>1. project' = project /\ authors' = authors
    BY <1>6 DEF StartWorker, BeginTurn, EndTurn, FinishPlan, PublishUpdate, BeginCompletion,
       FinalizeUpdates, ReportSuccess, ReportFailure, WorkerFinished, ProjectStays
  <2>2. \E pc \in WorkerPC \ {"finalizing"} :
            Goes(id, pc) /\ (pc = "succeeding" => w.pc = "finalizing")
    BY <1>6 DEF StartWorker, BeginTurn, EndTurn, FinishPlan, PublishUpdate, BeginCompletion,
       FinalizeUpdates, ReportSuccess, ReportFailure, WorkerFinished, WorkerPC, At
  <2> QED
    BY <1>1, <2>1, <2>2 DEF Goes, Worker, LeavesRecords
<1>7. CASE DraftGraph(id) \/ ReadInterrupted(id) \/ PlannerPanics(id)
  <2>1. project' = project /\ authors' = authors
    BY <1>7 DEF DraftGraph, ReadInterrupted, PlannerPanics, ProjectStays
  <2>2. /\ worker'[id].expected = w.expected
        /\ worker'[id].pc \notin {"finalizing", "succeeding"}
    <3>1. CASE DraftGraph(id)
        BY <1>1, <3>1 DEF DraftGraph, Worker
    <3>2. CASE ReadInterrupted(id)
        BY <1>1, <3>2 DEF ReadInterrupted, Worker
    <3>3. CASE PlannerPanics(id)
        BY <1>1, <3>3 DEF PlannerPanics, Worker
    <3> QED
        BY <1>7, <3>1, <3>2, <3>3
  <2> QED
    BY <2>1, <2>2 DEF LeavesRecords
<1>8. CASE DeadlinePasses(id)
  <2>1. /\ project' = project /\ authors' = authors
        /\ worker'[id].expected = w.expected /\ worker'[id].pc = w.pc
    BY <1>1, <1>8 DEF DeadlinePasses, ProjectStays, Worker
  <2> QED
    BY <2>1 DEF LeavesRecords
<1> QED
    BY <1>2, <1>3, <1>4, <1>5, <1>6, <1>7, <1>8 DEF WorkerStep

\* What a worker leaves alone: its operation, other workers and the requests.
LEMMA WorkerLeavesOthers ==
    ASSUME TypeOK, NEW id \in DOMAIN worker,
           WorkerStep(id) \/ DeadlinePasses(id) \/ PlannerPanics(id)
    PROVE  /\ UNCHANGED <<handler, epoch>>
           /\ DOMAIN worker' \subseteq DOMAIN worker
           /\ \A i \in DOMAIN worker' : worker'[i].op = worker[i].op
           /\ \A i \in DOMAIN worker' : i # id => worker'[i] = worker[i]
<1>1. worker[id] \in Worker
    BY DEF TypeOK
<1>2. CASE DropPermit(id)
    BY <1>2 DEF DropPermit
<1>3. CASE ~DropPermit(id)
  <2>1. /\ UNCHANGED <<handler, epoch>> /\ DOMAIN worker' = DOMAIN worker
        /\ \A i \in DOMAIN worker : i # id => worker'[i] = worker[i]
    BY <1>3 DEF WorkerStep, DeadlinePasses, PlannerPanics, StartWorker, BeginTurn, EndTurn,
       DraftGraph, FinishPlan, CommitUpdate, PublishUpdate, BeginCompletion, MarkComplete,
       FinalizeUpdates, ReportSuccess, ReadInterrupted, PersistFailedOperation,
       ReportFailure, WorkerFinished, ServiceStays, Goes
  <2>2. CASE CommitUpdate(id)
    <3>1. worker'[id].op = worker[id].op
        BY <1>1, <2>2 DEF CommitUpdate, Goes, Worker
    <3> QED
        BY <2>1, <3>1
  <2>3. CASE MarkComplete(id)
    <3>1. worker'[id].op = worker[id].op
        BY <1>1, <2>3 DEF MarkComplete, Goes, Worker
    <3> QED
        BY <2>1, <3>1
  <2>4. CASE DraftGraph(id) \/ ReadInterrupted(id) \/ PlannerPanics(id) \/ DeadlinePasses(id)
    <3>1. worker'[id].op = worker[id].op
        BY <1>1, <2>4 DEF DraftGraph, ReadInterrupted, PlannerPanics, DeadlinePasses, Worker
    <3> QED
        BY <2>1, <3>1
  <2>5. CASE ~(\/ CommitUpdate(id) \/ MarkComplete(id) \/ DraftGraph(id)
               \/ ReadInterrupted(id) \/ PlannerPanics(id) \/ DeadlinePasses(id))
    <3>1. \E pc : Goes(id, pc)
        BY <1>3, <2>5 DEF WorkerStep, StartWorker, BeginTurn, EndTurn, FinishPlan,
           PublishUpdate, BeginCompletion, FinalizeUpdates, ReportSuccess,
           PersistFailedOperation, ReportFailure, WorkerFinished
    <3> QED
        BY <1>1, <2>1, <3>1 DEF Goes, Worker
  <2> QED
    BY <2>1, <2>2, <2>3, <2>4, <2>5
<1> QED
    BY <1>2, <1>3

\* A record is never taken back, and a completed one never changed.
LEMMA RecordsStay ==
    ASSUME NEW p \in Project, NEW q \in Project, Follows(p, q) \/ q = p, NEW op \in Ops
    PROVE  /\ Status(p, op) # "absent" => Status(q, op) # "absent"
           /\ Status(p, op) = "completed" => Status(q, op) = "completed"
<1>1. p.edit_operations \in [Ops -> Operation]
    BY DEF Project
<1>2. CASE q.edit_operations = p.edit_operations
    BY <1>2 DEF Status
<1>3. CASE \E o \in Ops : StepRecorded(p, q, o)
    BY <1>1, <1>3 DEF StepRecorded, Status
<1>4. CASE \E o \in Ops, outcome \in {"completed", "failed", "interrupted"} :
              Decided(p, q, o, outcome)
    BY <1>1, <1>4 DEF Decided, Status, Operation
<1> QED
    BY <1>2, <1>3, <1>4 DEF Follows, Grows, Visits, Completes, Fails

\* No save lowers the version.
LEMMA VersionGrows ==
    ASSUME ProjectInv, UNCHANGED <<project, disk, seen>> \/ SavesNext
    PROVE  project'.version \in Nat /\ project'.version >= project.version
<1>1. Saves
    BY DEF SavesNext, Saves
<1>2. project.version \in Nat
    BY DEF ProjectInv, TypeOK, Project
<1> QED
    BY <1>1, <1>2, SaveKeeps

----------------------------------------------------------------------------
(* An edit has one author *)

Asks(h) == handler[h].pc \in {"permit", "create", "spawn"}

\* A worker that was there, that was started by a request for the same edit, or that
\* is the edit's author.
ComesFrom(id) ==
    \/ <<epoch, id>> \in authors[worker'[id].op]
    \/ /\ id \in DOMAIN worker
       /\ worker'[id].op = worker[id].op /\ worker'[id].expected = worker[id].expected
    \/ \E h \in Handlers :
          /\ Asks(h)
          /\ worker'[id].op = handler[h].op /\ worker'[id].expected = handler[h].version

\* A step that records nothing new keeps whoever is late too late.
LEMMA NothingRecorded ==
    ASSUME TypeOK, TypeOK', AuthorInv, authors' = authors, epoch' = epoch,
           project'.version >= project.version,
           \A op \in Ops : Recorded(op)' => Recorded(op),
           \A op \in Ops : Recorded(op) => Recorded(op)',
           \A h \in Handlers : Asks(h)' /\ Recorded(handler'[h].op) =>
              /\ Asks(h) /\ handler'[h].op = handler[h].op
              /\ handler'[h].version = handler[h].version,
           \A id \in DOMAIN worker' : ComesFrom(id)
    PROVE  AuthorInv'
<1>1. project.version \in Nat /\ project'.version \in Nat
    BY DEF TypeOK, Project
<1>2. ASSUME NEW h \in Handlers, Asks(h)', Recorded(handler[h].op)'
      PROVE  handler'[h].version < project'.version
  <2>1. handler'[h] \in HandlerState /\ handler'[h].op \in Ops
    BY <1>2 DEF TypeOK, Asks, HandlerState
  <2>2. Recorded(handler'[h].op)
    BY <1>2, <2>1 DEF Recorded
  <2>3. /\ Asks(h) /\ handler'[h].op = handler[h].op
        /\ handler'[h].version = handler[h].version
    BY <1>2, <2>2
  <2>4. handler[h].version < project.version
    BY <2>2, <2>3 DEF AuthorInv, Asks
  <2>5. handler'[h].version \in Nat
    BY <1>2, <2>1 DEF Asks, HandlerState
  <2> QED
    BY <1>1, <2>3, <2>4, <2>5
<1>3. ASSUME NEW id \in DOMAIN worker', Recorded(worker[id].op)',
             <<epoch', id>> \notin authors'[worker'[id].op]
      PROVE  worker'[id].expected < project'.version
  <2>1. worker'[id] \in Worker /\ worker'[id].op \in Ops /\ worker'[id].expected \in Nat
    BY <1>3 DEF TypeOK, Worker
  <2>2. Recorded(worker'[id].op)
    BY <1>3, <2>1 DEF Recorded
  <2>3. worker'[id].expected < project.version
    BY <1>3, <2>2 DEF ComesFrom, AuthorInv, Asks
  <2> QED
    BY <1>1, <2>1, <2>3
<1>4. \A op \in Ops : authors'[op] # {} => Recorded(op)'
    BY DEF AuthorInv
<1>5. \A op \in Ops : \A a, b \in authors'[op] : a = b
    BY DEF AuthorInv
<1> QED
    BY <1>2, <1>3, <1>4, <1>5 DEF AuthorInv, Asks

\* At the start nothing is recorded and nobody asks.
LEMMA InitAuthor == Init => AuthorInv
    BY DEF Init, AuthorInv, Idle

\* A request asks for an edit only if it is not recorded, and hands its version on.
LEMMA RequestsKeepAuthor ==
    ASSUME ProjectInv, ProjectInv', AuthorInv, NEW h \in Handlers,
           \/ HandlerStep(h)
           \/ \E op \in Ops : start_edit(h, op)
           \/ \E id \in DOMAIN jobs : Interrupt(h, id)
    PROVE  AuthorInv'
<1>1. TypeOK /\ TypeOK' /\ handler[h] \in HandlerState /\ project.version \in Nat
    BY DEF ProjectInv, TypeOK, Project
<1>2. UNCHANGED <<project, authors, epoch>>
    BY DEF HandlerStep, SnapshotProject, AcquirePermit, CreateJob, SpawnWorker,
       RespondWithJob, start_edit, Interrupt, ProjectStays, JobsAndWorkersStay
<1>3. \A op \in Ops : Recorded(op)' <=> Recorded(op)
    BY <1>2 DEF Recorded
<1>4. \A k \in Handlers : k # h => handler'[k] = handler[k]
    BY <1>1 DEF HandlerStep, SnapshotProject, AcquirePermit, CreateJob, SpawnWorker,
       RespondWithJob, start_edit, Interrupt, Becomes, TypeOK
<1>5. ASSUME Asks(h)', Recorded(handler'[h].op)
      PROVE  /\ Asks(h) /\ handler'[h].op = handler[h].op
             /\ handler'[h].version = handler[h].version
  <2>1. CASE SnapshotProject(h)
    <3>1. \/ handler'[h] = Idle
          \/ ~Recorded(handler[h].op) /\ handler'[h].op = handler[h].op
        BY <1>1, <2>1 DEF SnapshotProject, Becomes, Recorded, TypeOK
    <3> QED
        BY <1>5, <3>1 DEF Asks, Idle
  <2>2. CASE AcquirePermit(h)
    BY <1>1, <1>5, <2>2 DEF AcquirePermit, Becomes, Idle, Asks, TypeOK, HandlerState
  <2>3. CASE CreateJob(h)
    BY <1>1, <1>5, <2>3 DEF CreateJob, Becomes, Idle, Asks, TypeOK
  <2>4. CASE SpawnWorker(h) \/ RespondWithJob(h)
    BY <1>1, <1>5, <2>4 DEF SpawnWorker, RespondWithJob, Becomes, Idle, Asks, TypeOK
  <2>5. CASE \/ \E op \in Ops : start_edit(h, op)
             \/ \E id \in DOMAIN jobs : Interrupt(h, id)
    BY <1>1, <1>5, <2>5 DEF start_edit, Interrupt, Becomes, Asks, TypeOK
  <2> QED
    BY <2>1, <2>2, <2>3, <2>4, <2>5 DEF HandlerStep
<1>6. ASSUME NEW id \in DOMAIN worker'
      PROVE  ComesFrom(id)
  <2>1. CASE worker' = worker
    BY <1>6, <2>1 DEF ComesFrom
  <2>2. CASE SpawnWorker(h) /\ worker' # worker
    <3>1. /\ handler[h].pc = "spawn"
          /\ worker' = [i \in DOMAIN worker \cup {handler[h].id} |->
                   IF i = handler[h].id THEN NewWorker(handler[h]) ELSE worker[i]]
        BY <2>2 DEF SpawnWorker
    <3>2. CASE id = handler[h].id
        BY <3>1, <3>2 DEF ComesFrom, Asks, NewWorker
    <3>3. CASE id # handler[h].id
        BY <1>6, <3>1, <3>3 DEF ComesFrom
    <3> QED
        BY <3>2, <3>3
  <2> QED
    BY <2>1, <2>2 DEF HandlerStep, SnapshotProject, AcquirePermit, CreateJob,
       RespondWithJob, start_edit, Interrupt, JobsAndWorkersStay
<1>7. \A k \in Handlers : Asks(k)' /\ Recorded(handler'[k].op) =>
          /\ Asks(k) /\ handler'[k].op = handler[k].op
          /\ handler'[k].version = handler[k].version
    BY <1>4, <1>5 DEF Asks
<1> QED
    BY <1>1, <1>2, <1>3, <1>6, <1>7, NothingRecorded

\* A worker commits a step of a recorded edit only if it is the edit's author.
LEMMA WorkersKeepAuthor ==
    ASSUME ProjectInv, ProjectInv', AuthorInv, NEW id \in DOMAIN worker,
           WorkerStep(id) \/ DeadlinePasses(id) \/ PlannerPanics(id)
    PROVE  AuthorInv'
<1> DEFINE op == worker[id].op
<1>1. /\ TypeOK /\ TypeOK' /\ op \in Ops /\ project.version \in Nat
      /\ project.edit_operations \in [Ops -> Operation]
      /\ authors \in [Ops -> SUBSET (Nat \X JobIds)]
    BY DEF ProjectInv, TypeOK, Project, Worker
<1>2. /\ UNCHANGED <<handler, epoch>>
      /\ DOMAIN worker' \subseteq DOMAIN worker
      /\ \A i \in DOMAIN worker' : worker'[i].op = worker[i].op
      /\ \A i \in DOMAIN worker' : i # id => worker'[i] = worker[i]
    BY <1>1, WorkerLeavesOthers
<1>3. project'.version \in Nat /\ project'.version >= project.version
    BY WorkerSaves, VersionGrows
<1>4. \A i \in DOMAIN worker' : i # id => ComesFrom(i)
    BY <1>2 DEF ComesFrom
<1>5. \A k \in Handlers : Asks(k)' /\ Recorded(handler'[k].op) =>
          /\ Asks(k) /\ handler'[k].op = handler[k].op
          /\ handler'[k].version = handler[k].version
    BY <1>2 DEF Asks
<1>6. CASE LeavesRecords(id)
  <2>1. \A o \in Ops : Recorded(o)' <=> Recorded(o)
    BY <1>6 DEF LeavesRecords, Recorded, Status
  <2>2. \A i \in DOMAIN worker' : ComesFrom(i)
    BY <1>2, <1>4, <1>6 DEF LeavesRecords, ComesFrom
  <2> QED
    BY <1>1, <1>2, <1>3, <1>5, <1>6, <2>1, <2>2, NothingRecorded DEF LeavesRecords
<1>7. CASE FailsEdit(id)
  <2>1. \A o \in Ops : Recorded(o)' <=> Recorded(o)
    BY <1>1, <1>7 DEF FailsEdit, Decided, Recorded, Status, Operation
  <2>2. \A i \in DOMAIN worker' : ComesFrom(i)
    BY <1>2, <1>4, <1>7 DEF FailsEdit, ComesFrom
  <2> QED
    BY <1>1, <1>2, <1>3, <1>5, <1>7, <2>1, <2>2, NothingRecorded DEF FailsEdit
<1>8. ASSUME Recorded(op), worker[id].expected = project.version
      PROVE  <<epoch, id>> \in authors[op]
  <2>1. ~(worker[id].expected < project.version)
    BY <1>1, <1>8
  <2> QED
    BY <1>8, <2>1 DEF AuthorInv
<1>9. CASE CompletesEdit(id)
  <2>1. \A o \in Ops : Recorded(o)' <=> Recorded(o)
    BY <1>1, <1>9 DEF CompletesEdit, Decided, Recorded, Status, Operation
  <2>2. <<epoch, id>> \in authors[op]
    BY <1>8, <1>9 DEF CompletesEdit, Decided, Recorded
  <2>3. \A i \in DOMAIN worker' : ComesFrom(i)
    BY <1>2, <1>4, <2>2 DEF ComesFrom
  <2> QED
    BY <1>1, <1>2, <1>3, <1>5, <1>9, <2>1, <2>3, NothingRecorded DEF CompletesEdit
<1>10. CASE CommitsStep(id)
  <2>1. project'.version = project.version + 1
    BY <1>10 DEF CommitsStep
  <2>2. authors'[op] = authors[op] \cup {<<epoch, id>>}
        /\ \A o \in Ops : o # op => authors'[o] = authors[o]
    BY <1>1, <1>10 DEF CommitsStep
  <2>3. \A a \in authors[op] : a = <<epoch, id>>
    BY <1>1, <1>8, <1>10 DEF AuthorInv, CommitsStep
  <2>4. \A o \in Ops : \A a, b \in authors'[o] : a = b
    BY <2>2, <2>3 DEF AuthorInv
  <2>5. Status(project', op) = "running" /\ \A o \in Ops : o # op => Status(project', o) = Status(project, o)
    BY <1>1, <1>10 DEF CommitsStep, StepRecorded, Status
  <2>6. \A o \in Ops : authors'[o] # {} => Recorded(o)'
    BY <2>2, <2>5 DEF AuthorInv, Recorded
  <2>7. ASSUME NEW h \in Handlers, Asks(h)
        PROVE  handler[h].version < project'.version
    <3>1. handler[h].version \in Nat
        BY <1>1, <2>7 DEF TypeOK, HandlerState, Asks
    <3>2. handler[h].version <= project.version
        BY <2>7 DEF ProjectInv, Copies, Copy, Asks
    <3> QED
        BY <1>1, <2>1, <3>1, <3>2
  <2>8. ASSUME NEW i \in DOMAIN worker
        PROVE  worker[i].expected < project'.version
    <3>1. worker[i].expected \in Nat
        BY <1>1 DEF TypeOK, Worker
    <3>2. worker[i].expected <= project.version
        BY DEF ProjectInv, Copies, Copy
    <3> QED
        BY <1>1, <2>1, <3>1, <3>2
  <2>9. ASSUME NEW i \in DOMAIN worker', <<epoch', i>> \notin authors'[worker'[i].op]
        PROVE  worker'[i].expected < project'.version
    <3>1. i # id
        BY <1>2, <2>2, <2>9
    <3> QED
        BY <1>2, <2>8, <3>1
  <2> QED
    BY <1>2, <2>4, <2>6, <2>7, <2>9 DEF AuthorInv, Asks
<1> QED
    BY <1>6, <1>7, <1>9, <1>10, WorkerRecords

\* Users record nothing, and a restart leaves nobody who could commit.
LEMMA OthersKeepAuthor ==
    ASSUME ProjectInv, ProjectInv', LedgerInv, AuthorInv,
           ChangeProject \/ Navigate \/ Restart
    PROVE  AuthorInv'
<1>1. TypeOK /\ TypeOK' /\ project \in Project /\ project' \in Project
    BY DEF ProjectInv, TypeOK
<1>2. CASE ChangeProject \/ Navigate
  <2>1. PICK c, outcome : /\ Moves(c) /\ Follows(project, c) /\ publish(c, outcome)
                          /\ c.edit_operations = project.edit_operations
    BY <1>2, UserSaves
  <2>2. project'.version >= project.version
    BY <2>1, VersionGrows DEF SavesNext
  <2>3. \A op \in Ops : Recorded(op)' <=> Recorded(op)
    BY <2>1 DEF publish, Recorded, Status
  <2>4. UNCHANGED <<handler, worker, authors, epoch>>
    BY <1>2 DEF ChangeProject, Navigate, JobsAndWorkersStay
  <2>5. \A id \in DOMAIN worker' : ComesFrom(id)
    BY <2>4 DEF ComesFrom
  <2>6. \A h \in Handlers : Asks(h)' /\ Recorded(handler'[h].op) =>
            /\ Asks(h) /\ handler'[h].op = handler[h].op
            /\ handler'[h].version = handler[h].version
    BY <2>4 DEF Asks
  <2> QED
    BY <1>1, <2>2, <2>3, <2>4, <2>5, <2>6, NothingRecorded
<1>3. CASE Restart
  <2>1. /\ DOMAIN worker' = {} /\ authors' = authors
        /\ \A h \in Handlers : handler'[h].pc = "idle"
    BY <1>3 DEF Restart, Idle
  <2>2. Follows(project, project') \/ project' = project
    BY <1>3, RestartKeepsLedger
  <2>3. \A op \in Ops : Recorded(op) => Recorded(op)'
    BY <1>1, <2>2, RecordsStay DEF Recorded
  <2> QED
    BY <2>1, <2>3 DEF AuthorInv
<1> QED
    BY <1>2, <1>3

\* Every step keeps the author of an edit alone.
LEMMA AuthorInductive ==
    ProjectInv /\ ProjectInv' /\ LedgerInv /\ AuthorInv /\ [Next]_vars => AuthorInv'
<1> SUFFICES ASSUME ProjectInv, ProjectInv', LedgerInv, AuthorInv, [Next]_vars
             PROVE  AuthorInv'
    OBVIOUS
<1>1. CASE \E h \in Handlers : \/ HandlerStep(h)
                               \/ \E op \in Ops : start_edit(h, op)
                               \/ \E id \in DOMAIN jobs : Interrupt(h, id)
    BY <1>1, RequestsKeepAuthor
<1>2. CASE \E id \in DOMAIN worker : WorkerStep(id) \/ DeadlinePasses(id) \/ PlannerPanics(id)
    BY <1>2, WorkersKeepAuthor
<1>3. CASE ChangeProject \/ Navigate \/ Restart
    BY <1>3, OthersKeepAuthor
<1>4. CASE UNCHANGED vars
    BY <1>4 DEF vars, AuthorInv, Recorded
<1> QED
    BY <1>1, <1>2, <1>3, <1>4 DEF Next

----------------------------------------------------------------------------
(* Success is recorded first *)

\* Jobs that another table calls completed and this one does not.
NewlyDone(t, u) ==
    {i \in DOMAIN u : u[i].state = "completed"
                      /\ ~(/\ i \in DOMAIN t /\ t[i].state = "completed"
                           /\ t[i].operation_id = u[i].operation_id)}

\* Only complete makes a job completed.
LEMMA CallsComplete ==
    ASSUME NEW t, JobTable(t), NEW id \in JobIds, NEW version, NEW op
    PROVE  /\ \A u \in {t, set_running(t, id), publish_update(t, id, version),
                        finalize_updates(t, id, version), interrupt(t, id),
                        fail(t, id), worker_finished(t, id), create(t, id, op)} :
                 NewlyDone(t, u) = {}
           /\ NewlyDone(t, complete(t, id)) \subseteq {id} \cap DOMAIN t
           /\ id \in DOMAIN t => complete(t, id)[id].operation_id = t[id].operation_id
<1> USE DEF JobTable, EditJob, NewlyDone
<1>1. NewlyDone(t, t) = {}
    OBVIOUS
<1>2. NewlyDone(t, set_running(t, id)) = {}
    BY DEF set_running
<1>3. NewlyDone(t, publish_update(t, id, version)) = {}
    BY DEF publish_update
<1>4. NewlyDone(t, finalize_updates(t, id, version)) = {}
    BY DEF finalize_updates
<1>5. NewlyDone(t, interrupt(t, id)) = {}
    BY DEF interrupt
<1>6. NewlyDone(t, fail(t, id)) = {}
    BY DEF fail
<1>7. NewlyDone(t, worker_finished(t, id)) = {}
    BY DEF worker_finished
<1>8. NewlyDone(t, create(t, id, op)) = {}
  <2>1. Retained(t) \subseteq DOMAIN t
    BY DEF Retained
  <2> QED
    BY <2>1 DEF create
<1>9. /\ NewlyDone(t, complete(t, id)) \subseteq {id} \cap DOMAIN t
      /\ id \in DOMAIN t => complete(t, id)[id].operation_id = t[id].operation_id
    BY DEF complete
<1> HIDE DEF NewlyDone
<1> QED
    BY <1>1, <1>2, <1>3, <1>4, <1>5, <1>6, <1>7, <1>8, <1>9

\* A step after which a newly completed job, and a worker about to report success,
\* have a completed record.
LEMMA SuccessStays ==
    ASSUME TypeOK, TypeOK', SuccessInv,
           \A op \in Ops : Status(project, op) = "completed" =>
                             Status(project', op) = "completed",
           \A id \in DOMAIN worker' : worker'[id].pc \in {"finalizing", "succeeding"} =>
              \/ Status(project', worker'[id].op) = "completed"
              \/ /\ id \in DOMAIN worker /\ worker'[id].op = worker[id].op
                 /\ worker[id].pc \in {"finalizing", "succeeding"},
           \A id \in NewlyDone(jobs, jobs') :
              Status(project', jobs'[id].operation_id) = "completed"
    PROVE  SuccessInv'
<1>1. ASSUME NEW id \in DOMAIN worker', worker'[id].pc \in {"finalizing", "succeeding"}
      PROVE  Status(project', worker'[id].op) = "completed"
  <2>1. worker'[id].op \in Ops
    BY DEF TypeOK, Worker
  <2> QED
    BY <1>1, <2>1 DEF SuccessInv
<1>2. ASSUME NEW id \in DOMAIN jobs', jobs'[id].state = "completed"
      PROVE  Status(project', jobs'[id].operation_id) = "completed"
  <2>1. jobs'[id].operation_id \in Ops
    BY DEF TypeOK, JobTable, EditJob
  <2>2. CASE id \in NewlyDone(jobs, jobs')
    BY <2>2
  <2>3. CASE id \notin NewlyDone(jobs, jobs')
    <3>1. /\ id \in DOMAIN jobs /\ jobs[id].state = "completed"
          /\ jobs[id].operation_id = jobs'[id].operation_id
        BY <1>2, <2>3 DEF NewlyDone
    <3>2. Status(project, jobs'[id].operation_id) = "completed"
        BY <3>1 DEF SuccessInv
    <3> QED
        BY <2>1, <3>2
  <2> QED
    BY <2>2, <2>3
<1> QED
    BY <1>1, <1>2 DEF SuccessInv

\* Requests complete nothing.
LEMMA RequestsKeepSuccess ==
    ASSUME TypeOK, TypeOK', SuccessInv, NEW h \in Handlers,
           \/ HandlerStep(h)
           \/ \E op \in Ops : start_edit(h, op)
           \/ \E id \in DOMAIN jobs : Interrupt(h, id)
    PROVE  SuccessInv'
<1>1. JobTable(jobs) /\ handler[h] \in HandlerState /\ next_id \in JobIds
    BY DEF TypeOK
<1>2. project' = project
    BY DEF HandlerStep, SnapshotProject, AcquirePermit, CreateJob, SpawnWorker,
       RespondWithJob, start_edit, Interrupt, ProjectStays
<1>3. NewlyDone(jobs, jobs') = {}
  <2>1. CASE jobs' = jobs
    BY <1>1, <2>1, CallsComplete
  <2>2. CASE CreateJob(h)
    <3>1. jobs' = jobs \/ jobs' = create(jobs, next_id, handler[h].op)
        BY <2>2 DEF CreateJob
    <3> QED
        BY <1>1, <2>1, <3>1, CallsComplete
  <2>3. CASE SpawnWorker(h)
    <3>1. jobs' = jobs \/ jobs' = fail(jobs, handler[h].id)
        BY <2>3 DEF SpawnWorker
    <3>2. handler[h].id \in JobIds
        BY <1>1, <2>3 DEF SpawnWorker, HandlerState
    <3> QED
        BY <1>1, <2>1, <3>1, <3>2, CallsComplete
  <2>4. CASE \E id \in DOMAIN jobs : Interrupt(h, id)
    <3>1. PICK id \in DOMAIN jobs : jobs' = interrupt(jobs, id)
        BY <2>4 DEF Interrupt
    <3>2. id \in JobIds
        BY <1>1 DEF JobTable
    <3> QED
        BY <1>1, <3>1, <3>2, CallsComplete
  <2> QED
    BY <2>1, <2>2, <2>3, <2>4 DEF HandlerStep, SnapshotProject, AcquirePermit,
       RespondWithJob, start_edit, JobsAndWorkersStay
<1>4. \A id \in DOMAIN worker' : worker'[id].pc \in {"finalizing", "succeeding"} =>
          id \in DOMAIN worker /\ worker'[id] = worker[id]
  <2>1. CASE SpawnWorker(h)
    BY <2>1 DEF SpawnWorker, NewWorker
  <2>2. CASE worker' = worker
    BY <2>2
  <2> QED
    BY <2>1, <2>2 DEF HandlerStep, SnapshotProject, AcquirePermit, CreateJob,
       RespondWithJob, start_edit, Interrupt, JobsAndWorkersStay
<1> QED
    BY <1>2, <1>3, <1>4, SuccessStays

\* A worker completes its job after its record, and its own job only.
LEMMA WorkersKeepSuccess ==
    ASSUME ProjectInv, TypeOK', LedgerInv, SlotInv, SuccessInv, NEW id \in DOMAIN worker,
           WorkerStep(id) \/ DeadlinePasses(id) \/ PlannerPanics(id)
    PROVE  SuccessInv'
<1>1. /\ TypeOK /\ project \in Project /\ project' \in Project
      /\ JobTable(jobs) /\ id \in JobIds /\ worker[id].op \in Ops
      /\ project.edit_operations \in [Ops -> Operation]
    BY DEF ProjectInv, TypeOK, Worker, Project
<1>2. /\ \A i \in DOMAIN worker' : i \in DOMAIN worker /\ worker'[i].op = worker[i].op
      /\ \A i \in DOMAIN worker' : i # id => worker'[i] = worker[i]
    BY <1>1, WorkerLeavesOthers
<1>3. \A op \in Ops : Status(project, op) = "completed" => Status(project', op) = "completed"
  <2>1. Follows(project, project') \/ project' = project
    BY WorkerSaves, SaveKeepsLedger
  <2> QED
    BY <1>1, <2>1, RecordsStay
<1>4. ASSUME NEW i \in DOMAIN worker', worker'[i].pc \in {"finalizing", "succeeding"}
      PROVE  \/ Status(project', worker'[i].op) = "completed"
             \/ /\ i \in DOMAIN worker /\ worker'[i].op = worker[i].op
                /\ worker[i].pc \in {"finalizing", "succeeding"}
  <2>1. CASE i # id
    BY <1>2, <1>4, <2>1
  <2>2. CASE i = id
    <3>1. CASE LeavesRecords(id)
        BY <1>2, <1>4, <2>2, <3>1 DEF LeavesRecords
    <3>2. CASE CompletesEdit(id)
        BY <1>1, <1>2, <2>2, <3>2 DEF CompletesEdit, Decided, Status
    <3>3. CASE CommitsStep(id) \/ FailsEdit(id)
        BY <1>4, <2>2, <3>3 DEF CommitsStep, FailsEdit
    <3> QED
        BY <3>1, <3>2, <3>3, WorkerRecords
  <2> QED
    BY <2>1, <2>2
<1>5. ASSUME NEW i \in NewlyDone(jobs, jobs')
      PROVE  Status(project', jobs'[i].operation_id) = "completed"
  <2>1. CASE ReportSuccess(id)
    <3>1. jobs' = complete(jobs, id) /\ worker[id].pc = "succeeding" /\ project' = project
        BY <2>1 DEF ReportSuccess, At, ProjectStays
    <3>2. i = id /\ id \in DOMAIN jobs
        BY <1>1, <1>5, <3>1, CallsComplete
    <3>3. jobs'[id].operation_id = jobs[id].operation_id
        BY <1>1, <3>1, <3>2, CallsComplete
    <3>4. jobs[id].operation_id = worker[id].op
        BY <3>1 DEF SlotInv, UsesJob
    <3> QED
        BY <3>1, <3>2, <3>3, <3>4 DEF SuccessInv
  <2>2. CASE ~ReportSuccess(id)
    <3>1. jobs' \in {jobs, set_running(jobs, id),
                     publish_update(jobs, id, worker[id].expected),
                     finalize_updates(jobs, id, worker[id].expected),
                     fail(jobs, id), worker_finished(jobs, id)}
        BY <2>2 DEF WorkerStep, DeadlinePasses, PlannerPanics, StartWorker, BeginTurn,
           EndTurn, DraftGraph, FinishPlan, CommitUpdate, PublishUpdate, BeginCompletion,
           MarkComplete, FinalizeUpdates, ReadInterrupted, PersistFailedOperation,
           ReportFailure, WorkerFinished, DropPermit
    <3>2. NewlyDone(jobs, jobs') = {}
        BY <1>1, <3>1, CallsComplete
    <3> QED
        BY <1>5, <3>2
  <2> QED
    BY <2>1, <2>2
<1> QED
    BY <1>1, <1>3, <1>4, <1>5, SuccessStays

\* Every step keeps success behind its record.
LEMMA SuccessInductive ==
    ProjectInv /\ ProjectInv' /\ LedgerInv /\ SlotInv /\ SuccessInv /\ [Next]_vars
        => SuccessInv'
<1> SUFFICES ASSUME ProjectInv, ProjectInv', LedgerInv, SlotInv, SuccessInv, [Next]_vars
             PROVE  SuccessInv'
    OBVIOUS
<1>1. TypeOK /\ TypeOK' /\ project \in Project /\ project' \in Project
    BY DEF ProjectInv, TypeOK
<1>2. CASE \E h \in Handlers : \/ HandlerStep(h)
                               \/ \E op \in Ops : start_edit(h, op)
                               \/ \E id \in DOMAIN jobs : Interrupt(h, id)
    BY <1>1, <1>2, RequestsKeepSuccess
<1>3. CASE \E id \in DOMAIN worker : WorkerStep(id) \/ DeadlinePasses(id) \/ PlannerPanics(id)
    BY <1>1, <1>3, WorkersKeepSuccess
<1>4. CASE ChangeProject \/ Navigate \/ UNCHANGED vars
  <2>1. UNCHANGED <<jobs, worker>>
    BY <1>4 DEF ChangeProject, Navigate, JobsAndWorkersStay, vars
  <2>2. Follows(project, project') \/ project' = project
    BY LedgerInductive
  <2>3. \A op \in Ops : Status(project, op) = "completed" => Status(project', op) = "completed"
    BY <1>1, <2>2, RecordsStay
  <2>4. NewlyDone(jobs, jobs') = {}
    BY <2>1 DEF NewlyDone
  <2> QED
    BY <1>1, <2>1, <2>3, <2>4, SuccessStays
<1>5. CASE Restart
    BY <1>5 DEF Restart, SuccessInv
<1> QED
    BY <1>2, <1>3, <1>4, <1>5 DEF Next

\* At the start there is no job and no worker.
LEMMA InitSuccess == Init => SuccessInv
    BY DEF Init, SuccessInv

----------------------------------------------------------------------------
(* A running record is attended *)

\* A service whose saves succeed and which is not restarted.
Undisturbed == MaxRestarts = 0 /\ Faults \cap {"save", "sync"} = {}

\* A worker writes the outcome of its edit before it stops attending to it.
LEMMA WorkerAttends ==
    ASSUME Undisturbed, ProjectInv, NEW id \in DOMAIN worker, Undecided(id),
           WorkerStep(id) \/ DeadlinePasses(id) \/ PlannerPanics(id)
    PROVE  \/ id \in DOMAIN worker' /\ Undecided(id)'
           \/ ~IsRunning(project', worker[id].op)
<1> DEFINE w == worker[id]
<1>1. w \in Worker /\ w.op \in Ops /\ w.interrupted \in BOOLEAN
    BY DEF ProjectInv, TypeOK, Worker
<1>2. SaveOutcome = {"saved"}
    BY DEF Undisturbed, SaveOutcome
<1>3. project.edit_operations \in [Ops -> Operation]
    BY DEF ProjectInv, TypeOK, Project
<1>4. \A pc : Goes(id, pc) => id \in DOMAIN worker' /\ worker'[id].pc = pc
    BY <1>1 DEF Goes, Worker
<1>5. CASE CommitUpdate(id)
  <2>1. id \in DOMAIN worker' /\ worker'[id].pc \in {"publishing", "failing"}
    BY <1>1, <1>4, <1>5 DEF CommitUpdate, Worker
  <2> QED
    BY <2>1 DEF Undecided
<1>6. CASE MarkComplete(id)
  <2> DEFINE c == mark_operation_complete(project, w.op)
  <2>1. CASE MayComplete(id) /\ publish(c, "saved")
    <3>1. Decided(project, c, w.op, "completed")
        BY <1>1, <2>1, OutcomeDecided DEF MayComplete
    <3> HIDE DEF c
    <3>2. project' = c
        BY <2>1 DEF publish
    <3> QED
        BY <1>1, <1>3, <3>1, <3>2 DEF Decided, IsRunning, Status, Operation
  <2>2. CASE Goes(id, "failing")
    BY <1>4, <2>2 DEF Undecided
  <2> QED
    BY <1>6, <2>1, <2>2 DEF MarkComplete
<1>7. CASE PersistFailedOperation(id)
  <2> DEFINE c == mark_operation_failed(project, w.op, w.interrupted)
  <2>1. MatchesCurrentSnapshot(project)
    BY DEF ProjectInv, Linked, MatchesCurrentSnapshot
  <2>2. CASE IsRunning(project, w.op)
    <3>1. \E outcome \in {"failed", "interrupted"} : Decided(project, c, w.op, outcome)
        BY <1>1, <2>2, OutcomeDecided
    <3>2. publish(c, "saved")
        BY <1>2, <1>7, <2>1, <2>2 DEF PersistFailedOperation
    <3> HIDE DEF c
    <3>3. project' = c
        BY <3>2 DEF publish
    <3> QED
        BY <1>1, <1>3, <3>1, <3>3 DEF Decided, IsRunning, Status, Operation
  <2>3. CASE ~IsRunning(project, w.op)
    BY <1>7, <2>3 DEF PersistFailedOperation
  <2> QED
    BY <2>2, <2>3
<1>8. CASE \/ StartWorker(id) \/ BeginTurn(id) \/ EndTurn(id) \/ FinishPlan(id)
           \/ PublishUpdate(id) \/ BeginCompletion(id)
  <2>1. w.pc # "finishing" /\ \E pc \in {"planning", "persisting", "failing", "calling",
                       "completing", "marking"} : Goes(id, pc)
    BY <1>8 DEF StartWorker, BeginTurn, EndTurn, FinishPlan, PublishUpdate,
       BeginCompletion, At
  <2> QED
    BY <1>4, <2>1 DEF Undecided
<1>9. CASE DraftGraph(id) \/ ReadInterrupted(id) \/ PlannerPanics(id) \/ DeadlinePasses(id)
  <2>1. id \in DOMAIN worker'
        /\ worker'[id].pc \in {"failing", "committing", "persisting", w.pc}
    BY <1>1, <1>9 DEF DraftGraph, ReadInterrupted, PlannerPanics, DeadlinePasses, Worker
  <2> QED
    BY <2>1 DEF Undecided
<1>10. CASE \/ FinalizeUpdates(id) \/ ReportSuccess(id) \/ ReportFailure(id)
            \/ WorkerFinished(id) \/ DropPermit(id)
    BY <1>10 DEF FinalizeUpdates, ReportSuccess, ReportFailure, WorkerFinished, DropPermit,
       At, Undecided
<1> QED
    BY <1>5, <1>6, <1>7, <1>8, <1>9, <1>10 DEF WorkerStep

\* Whatever a worker does, running records stay attended.
LEMMA WorkersKeepAttended ==
    ASSUME Undisturbed, ProjectInv, AttendedInv, NEW id \in DOMAIN worker,
           WorkerStep(id) \/ DeadlinePasses(id) \/ PlannerPanics(id)
    PROVE  AttendedInv'
<1>1. TypeOK /\ worker[id].op \in Ops /\ project.edit_operations \in [Ops -> Operation]
    BY DEF ProjectInv, TypeOK, Worker, Project
<1>2. \A i \in DOMAIN worker' : worker'[i].op = worker[i].op
    BY <1>1, WorkerLeavesOthers
<1>3. \A i \in DOMAIN worker : i # id => i \in DOMAIN worker' /\ worker'[i] = worker[i]
  <2>1. CASE DropPermit(id)
    BY <2>1 DEF DropPermit
  <2>2. CASE ~DropPermit(id)
    BY <2>2 DEF WorkerStep, DeadlinePasses, PlannerPanics, StartWorker, BeginTurn, EndTurn,
       DraftGraph, FinishPlan, CommitUpdate, PublishUpdate, BeginCompletion, MarkComplete,
       FinalizeUpdates, ReportSuccess, ReadInterrupted, PersistFailedOperation,
       ReportFailure, WorkerFinished, Goes
  <2> QED
    BY <2>1, <2>2
<1>4. ASSUME NEW op \in Ops, IsRunning(project', op)
      PROVE  \E i \in DOMAIN worker' : worker'[i].op = op /\ Undecided(i)'
  <2>1. CASE IsRunning(project, op)
    <3>1. PICK i \in DOMAIN worker : worker[i].op = op /\ Undecided(i)
        BY <2>1 DEF AttendedInv
    <3>2. CASE i # id
        BY <1>3, <3>1, <3>2 DEF Undecided
    <3>3. CASE i = id
        BY <1>2, <1>4, <3>1, <3>3, WorkerAttends
    <3> QED
        BY <3>2, <3>3
  <2>2. CASE ~IsRunning(project, op)
    <3>1. CommitsStep(id) /\ worker[id].op = op
        <4>1. CASE LeavesRecords(id)
            BY <1>4, <2>2, <4>1 DEF LeavesRecords, IsRunning, Status
        <4>2. CASE CompletesEdit(id) \/ FailsEdit(id)
            BY <1>1, <1>4, <2>2, <4>2
               DEF CompletesEdit, FailsEdit, Decided, IsRunning, Status, Operation
        <4>3. CASE CommitsStep(id)
            BY <1>1, <1>4, <2>2, <4>3 DEF CommitsStep, StepRecorded, IsRunning, Status
        <4> QED
            BY <4>1, <4>2, <4>3, WorkerRecords
    <3>2. project.version \in Nat
        BY DEF ProjectInv, TypeOK, Project
    <3>3. ~DropPermit(id)
        BY <3>1, <3>2 DEF CommitsStep, DropPermit, ProjectStays
    <3>4. id \in DOMAIN worker' /\ worker'[id].pc = "publishing"
        BY <3>1, <3>3 DEF CommitsStep, WorkerStep, DeadlinePasses, PlannerPanics, StartWorker,
           BeginTurn, EndTurn, DraftGraph, FinishPlan, CommitUpdate, PublishUpdate,
           BeginCompletion, MarkComplete, FinalizeUpdates, ReportSuccess, ReadInterrupted,
           PersistFailedOperation, ReportFailure, WorkerFinished, Goes
    <3> QED
        BY <1>2, <3>1, <3>4 DEF Undecided
  <2> QED
    BY <2>1, <2>2
<1> QED
    BY <1>4 DEF AttendedInv

\* Every step keeps running records attended.
LEMMA AttendedInductive ==
    ASSUME Undisturbed
    PROVE  ProjectInv /\ SlotInv /\ AttendedInv /\ [Next]_vars => AttendedInv'
<1> SUFFICES ASSUME ProjectInv, SlotInv, AttendedInv, [Next]_vars
             PROVE  AttendedInv'
    OBVIOUS
<1>1. CASE \E h \in Handlers : \/ HandlerStep(h)
                               \/ \E op \in Ops : start_edit(h, op)
                               \/ \E id \in DOMAIN jobs : Interrupt(h, id)
  <2>1. project' = project
    BY <1>1 DEF HandlerStep, SnapshotProject, AcquirePermit, CreateJob, SpawnWorker,
       RespondWithJob, start_edit, Interrupt, ProjectStays
  <2>2. \A i \in DOMAIN worker : i \in DOMAIN worker' /\ worker'[i] = worker[i]
    <3>1. CASE \E h \in Handlers : SpawnWorker(h)
      <4>1. PICK h \in Handlers : SpawnWorker(h)
        BY <3>1
      <4>2. handler[h].id \notin DOMAIN worker
        BY <4>1 DEF SpawnWorker, SlotInv
      <4> QED
        BY <4>1, <4>2 DEF SpawnWorker
    <3>2. CASE worker' = worker
        BY <3>2
    <3> QED
        BY <1>1, <3>1, <3>2 DEF HandlerStep, SnapshotProject, AcquirePermit, CreateJob,
           RespondWithJob, start_edit, Interrupt, JobsAndWorkersStay
  <2> QED
    BY <2>1, <2>2 DEF AttendedInv, Undecided
<1>2. CASE \E id \in DOMAIN worker : WorkerStep(id) \/ DeadlinePasses(id) \/ PlannerPanics(id)
    BY <1>2, WorkersKeepAttended
<1>3. CASE ChangeProject \/ Navigate
  <2>1. PICK c, outcome : /\ publish(c, outcome)
                          /\ c.edit_operations = project.edit_operations
    BY <1>3, UserSaves
  <2>2. project'.edit_operations = project.edit_operations
    BY <2>1 DEF publish
  <2>3. worker' = worker
    BY <1>3 DEF ChangeProject, Navigate, JobsAndWorkersStay
  <2> QED
    BY <2>2, <2>3 DEF AttendedInv, Undecided, IsRunning, Status
<1>4. CASE Restart
  <2>1. epoch < 0 /\ epoch \in Nat
    BY <1>4 DEF Restart, Undisturbed, ProjectInv, TypeOK
  <2> QED
    BY <2>1
<1>5. CASE UNCHANGED vars
    BY <1>5 DEF vars, AttendedInv, Undecided
<1> QED
    BY <1>1, <1>2, <1>3, <1>4, <1>5 DEF Next

\* At the start no record says running.
LEMMA InitAttended == Init => AttendedInv
    BY DEF Init, AttendedInv, InitialProject, IsRunning, Status, NoOperation

----------------------------------------------------------------------------
(* Theorems *)

\* The invariant of the job table's slot holds in every state of the service.
LEMMA SlotInvariant == Spec => []SlotInv
    BY TypeCorrect, InitSlot, SlotInductive, PTL DEF Spec

\* Every permit of the edit limiter belongs to one thread and comes back once, also
\* when a request is refused or panics, a thread cannot be started or a worker fails.
THEOREM PermitsStayBalanced == Spec => []PermitsBalance
<1>1. Spec => []PermitInv
    BY TypeCorrect, SlotInvariant, PermitInductive, PTL DEF Spec
<1>2. PermitInv => PermitsBalance
    BY DEF PermitInv
<1> QED
    BY <1>1, <1>2, PTL

\* However often an edit is requested, and whether its job was evicted or its process
\* restarted, the steps of the edit come from one worker.
THEOREM EditsHappenOnce == Spec => []AtMostOnce
<1>1. Spec => []AuthorInv
    BY ProjectInvariant, LedgerInvariant, InitAuthor, AuthorInductive, PTL DEF Spec
<1>2. ASSUME AuthorInv, NEW op \in Ops
      PROVE  Cardinality(authors[op]) <= 1
  <2>1. CASE authors[op] = {}
    <3>1. Cardinality({}) = 0
        BY FS_EmptySet
    <3> QED
        BY <2>1, <3>1
  <2>2. CASE authors[op] # {}
    <3>1. PICK a : a \in authors[op]
        BY <2>2
    <3>2. authors[op] = {a}
        BY <1>2, <3>1 DEF AuthorInv
    <3>3. Cardinality({a}) = 1
        BY FS_Singleton
    <3> QED
        BY <3>2, <3>3
  <2> QED
    BY <2>1, <2>2
<1>3. AuthorInv => AtMostOnce
    BY <1>2 DEF AtMostOnce
<1> QED
    BY <1>1, <1>3, PTL

\* A job says completed only when the project file already does, whatever saves
\* failed before, so an answer of success survives the process.
THEOREM SuccessIsDurable == Spec => []CompletedJobIsDurable
<1>1. Spec => []SuccessInv
    BY ProjectInvariant, LedgerInvariant, SlotInvariant, InitSuccess, SuccessInductive,
       PTL DEF Spec
<1>2. ProjectInv /\ LedgerInv /\ SuccessInv => CompletedJobIsDurable
  <2> SUFFICES ASSUME ProjectInv, LedgerInv, SuccessInv,
                      NEW id \in DOMAIN jobs, jobs[id].state = "completed"
               PROVE  Status(disk, jobs[id].operation_id) = "completed"
    BY DEF CompletedJobIsDurable
  <2>1. project \in Project /\ disk \in Project /\ jobs[id].operation_id \in Ops
    BY DEF ProjectInv, TypeOK, JobTable, EditJob
  <2>2. Follows(project, disk) \/ disk = project
    BY DEF LedgerInv, FileFollows
  <2>3. Status(project, jobs[id].operation_id) = "completed"
    BY DEF SuccessInv
  <2> QED
    BY <2>1, <2>2, <2>3, RecordsStay
<1> QED
    BY <1>1, <1>2, ProjectInvariant, LedgerInvariant, PTL

\* While saves succeed and the process lives, a record says running only as long as
\* a worker that can still be asked is on it: the deadline, a panic, an interrupt and
\* a refused step all end in an outcome that is written down.
THEOREM RunningIsAttended ==
    ASSUME Undisturbed
    PROVE  Spec => []RunningHasWorker
<1>1. ProjectInv /\ SlotInv /\ AttendedInv /\ [Next]_vars => AttendedInv'
    BY AttendedInductive
<1>2. AttendedInv => RunningHasWorker
    BY DEF AttendedInv, RunningHasWorker, Undecided, UsesJob, IsRunning
<1> QED
    BY <1>1, <1>2, ProjectInvariant, SlotInvariant, InitAttended, PTL DEF Spec
=============================================================================
