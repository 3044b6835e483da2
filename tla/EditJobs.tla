------------------------------ MODULE EditJobs ------------------------------
(***************************************************************************)
(* The table of prompted edits that one user's router keeps in memory      *)
(* (src/src/edit_jobs.rs).  The table is one mutex, so every method of     *)
(* EditJobs is an operator from the table to the table; EditService calls  *)
(* them from its request handlers and workers.  A table is a function from *)
(* job ids to jobs.  Times and the wording of phases are left out; the     *)
(* cancellation flag is set by interrupt together with `interrupted` and   *)
(* is never cleared, so that one field stands for both.                    *)
(***************************************************************************)
EXTENDS EditOperations, FiniteSets

CONSTANT MAX_RETAINED_EDIT_JOBS  \* jobs kept so that their outcome can be polled

ASSUME RetainedAssumption == MAX_RETAINED_EDIT_JOBS \in Nat \ {0}

\* One edit at a time for one project.
MAX_ACTIVE_EDIT_JOBS == 1

NoVersion == 0

JobState == {"queued", "running", "completed", "failed"}

EditJob == [operation_id: Ops, applied_steps: Nat, project_version: Nat,
            state: JobState, interrupted: BOOLEAN, worker_active: BOOLEAN]

JobIds == Nat \ {0}
JobTable(jobs) == DOMAIN jobs \subseteq JobIds /\ jobs \in [DOMAIN jobs -> EditJob]

is_active(job) == job.state \in {"queued", "running"}

\* The job that a method may still change: terminal states are final.
Open(jobs, id) == id \in DOMAIN jobs /\ is_active(jobs[id])

JobsOf(jobs, op) == {id \in DOMAIN jobs : jobs[id].operation_id = op}

ActiveWorkers(jobs) == {id \in DOMAIN jobs : jobs[id].worker_active}

Terminal(jobs) == {id \in DOMAIN jobs : ~is_active(jobs[id])}

HasRoom(jobs) == Cardinality(DOMAIN jobs) < MAX_RETAINED_EDIT_JOBS

CanCreate(jobs) ==
    /\ Cardinality(ActiveWorkers(jobs)) < MAX_ACTIVE_EDIT_JOBS
    /\ HasRoom(jobs) \/ Terminal(jobs) # {}

\* The table never exceeds its limit, so the eviction loop runs at most once; a
\* BTreeMap iterates in id order, so the oldest finished job goes.
Retained(jobs) ==
    IF HasRoom(jobs) THEN DOMAIN jobs
    ELSE DOMAIN jobs \ {CHOOSE id \in Terminal(jobs) : \A i \in Terminal(jobs) : id <= i}

create(jobs, id, op) ==
    [i \in Retained(jobs) \cup {id} |->
        IF i = id
        THEN [operation_id |-> op, applied_steps |-> 0, project_version |-> NoVersion,
              state |-> "queued", interrupted |-> FALSE, worker_active |-> TRUE]
        ELSE jobs[i]]

set_running(jobs, id) ==
    IF Open(jobs, id) THEN [jobs EXCEPT ![id].state = "running"] ELSE jobs

publish_update(jobs, id, version) ==
    IF Open(jobs, id)
    THEN [jobs EXCEPT ![id] = [@ EXCEPT !.applied_steps = jobs[id].applied_steps + 1,
                                        !.project_version = version, !.state = "running"]]
    ELSE jobs

finalize_updates(jobs, id, version) ==
    IF Open(jobs, id)
    THEN [jobs EXCEPT ![id] = [@ EXCEPT !.project_version = version,
                                        !.state = "running"]]
    ELSE jobs

complete(jobs, id) ==
    IF Open(jobs, id)
    THEN [jobs EXCEPT ![id] = [@ EXCEPT !.state = "completed", !.worker_active = FALSE]]
    ELSE jobs

fail(jobs, id) ==
    IF Open(jobs, id)
    THEN [jobs EXCEPT ![id] = [@ EXCEPT !.state = "failed", !.worker_active = FALSE]]
    ELSE jobs

worker_finished(jobs, id) ==
    IF id \in DOMAIN jobs THEN [jobs EXCEPT ![id].worker_active = FALSE] ELSE jobs

\* A plausible slip: the slot is given back when the user interrupts, not when
\* the interrupted worker has stopped.
InterruptFreesTheSlot(jobs, id) ==
    IF Open(jobs, id)
    THEN [jobs EXCEPT ![id] = [@ EXCEPT !.interrupted = TRUE, !.state = "failed",
                                        !.worker_active = FALSE]]
    ELSE jobs

\* The worker keeps its slot (worker_active) until it has noticed.
interrupt(jobs, id) ==
    IF Open(jobs, id)
    THEN [jobs EXCEPT ![id] = [@ EXCEPT !.interrupted = TRUE, !.state = "failed"]]
    ELSE jobs

is_interrupted(jobs, id) == id \in DOMAIN jobs /\ jobs[id].interrupted
=============================================================================
