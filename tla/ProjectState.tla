---------------------------- MODULE ProjectState ----------------------------
(***************************************************************************)
(* One user's project as ProjectState keeps it (src/src/project_state.rs): *)
(* the sound graph with its version, the durable record of prompted edits, *)
(* and the history of snapshots.  A graph is a token; what a mutation does *)
(* to tracks and clips is not visible here.  The operators build the       *)
(* candidate that a request or a worker then tries to save; saving it is   *)
(* an action of EditService.                                               *)
(*                                                                         *)
(* A snapshot also carries `basis`, the graph its author had read when it  *)
(* built the new one.  The code stores no such field: it is here so that a *)
(* lost update can be stated.                                              *)
(***************************************************************************)
EXTENDS EditOperations, Sequences

CONSTANT MAX_HISTORY_SNAPSHOTS   \* a full history refuses new graphs

ASSUME HistoryAssumption == MAX_HISTORY_SNAPSHOTS \in Nat \ {0}

Graph == Nat
InitialGraph == 0

NoParent == 0
Snapshot == [graph: Graph, basis: Graph]

Project == [version: Nat, graph: Graph, edit_operations: [Ops -> Operation],
            snapshots: Seq(Snapshot), parents: Seq(Nat), current: Nat]

InitialProject ==
    [version |-> 1, graph |-> InitialGraph,
     edit_operations |-> [op \in Ops |-> NoOperation],
     snapshots |-> <<[graph |-> InitialGraph, basis |-> InitialGraph]>>,
     parents |-> <<NoParent>>, current |-> 1]

Status(project, op) == project.edit_operations[op].status

----------------------------------------------------------------------------
\* Every mutation of the graph takes a new version and keeps the edit
\* operations: set_duration, set_mix, reset and replace_graph of the studio.
change_graph(project, graph) ==
    [project EXCEPT !.graph = graph, !.version = @ + 1]

\* A plausible slip: an edit installs its graph without taking a new version.
ReplaceKeepsVersion(project, graph) == [project EXCEPT !.graph = graph]

replace_graph(project, graph) == change_graph(project, graph)

CanRecordStep(project, op) == Status(project, op) \in {"absent", "running"}

with_operation(project, op, operation) ==
    [project EXCEPT !.edit_operations = [project.edit_operations EXCEPT ![op] = operation]]

record_operation_step(project, op) ==
    with_operation(project, op,
        [status |-> "running",
         applied_steps |-> project.edit_operations[op].applied_steps + 1])

IsRunning(project, op) == Status(project, op) = "running"

concluded(project, op, status) ==
    with_operation(project, op, [project.edit_operations[op] EXCEPT !.status = status])

mark_operation_complete(project, op) ==
    [concluded(project, op, "completed") EXCEPT !.version = @ + 1]

\* A plausible slip: the record takes the word that clients are shown.
MarkWithClientWord(project, op, interrupted) ==
    concluded(project, op, "failed_with_changes")

\* Metadata only: the version stays.
mark_operation_failed(project, op, interrupted) ==
    concluded(project, op, IF interrupted THEN "interrupted" ELSE "failed")

----------------------------------------------------------------------------
CanPush(project) == Len(project.snapshots) < MAX_HISTORY_SNAPSHOTS

\* A plausible slip: a change after an undo drops the graphs that were undone.
PushDropsRedo(project, basis) ==
    [project EXCEPT
        !.snapshots = Append(SubSeq(@, 1, project.current),
                             [graph |-> project.graph, basis |-> basis]),
        !.parents = Append(SubSeq(@, 1, project.current), project.current),
        !.current = @ + 1]

\* The graph becomes a new snapshot, a child of the current one.
push(project, basis) ==
    [project EXCEPT !.snapshots = Append(@, [graph |-> project.graph, basis |-> basis]),
                    !.parents = Append(@, project.current),
                    !.current = Len(project.snapshots) + 1]

\* Metadata may be saved only beside the snapshot it belongs to.
MatchesCurrentSnapshot(project) ==
    project.snapshots[project.current].graph = project.graph

parent(project) == project.parents[project.current]

\* A plausible slip: going back in the history also brings back the old version.
CheckoutKeepsVersion(project, index) ==
    [project EXCEPT !.graph = project.snapshots[index].graph, !.current = index]

\* Undo and the history list bring an old graph back under a new version and
\* keep today's edit operations; no snapshot is dropped.
checkout(project, index) ==
    [project EXCEPT !.graph = project.snapshots[index].graph,
                    !.current = index,
                    !.version = @ + 1]
=============================================================================
