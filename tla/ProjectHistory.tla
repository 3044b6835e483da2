--------------------------- MODULE ProjectHistory ---------------------------
(***************************************************************************)
(* The history of one project as it is stored (src/src/project_history.rs).*)
(* Only the current snapshot is kept whole, as the project itself; every   *)
(* other one is a delta against a neighbour, and going to another snapshot *)
(* turns the deltas on the way around.  The project and its history are    *)
(* one document of bounded size, so the code keeps track of how large the  *)
(* document would be with any other snapshot in front.                     *)
(*                                                                         *)
(* A checksum stands for the source it was made of.  Of the document only  *)
(* what depends on the current snapshot or on versions is counted.  Saves  *)
(* that the file system refuses are EditService's; here a save fails when  *)
(* the document is too large.                                              *)
(***************************************************************************)
EXTENDS SnapshotDelta, SequencesExt

CONSTANTS
    Sources,                     \* the graphs that edits make
    FirstSource,                 \* the graph of a new project
    MAX_HISTORY_SNAPSHOTS,
    MAX_PROJECT_BYTES,
    MAX_PROJECT_DOCUMENT_BYTES,
    MAX_VERSION_BYTES,           \* digits of the largest version
    RADIX,                       \* decimal_bytes counts digits of this radix
    MaxVersion, MaxOperations

ASSUME HistoryAssumption ==
    /\ Sources \subseteq Source /\ FirstSource \in Source
    /\ RADIX \in Nat \ {0, 1}
    /\ {MAX_HISTORY_SNAPSHOTS, MaxVersion} \subseteq Nat \ {0}
    /\ {MAX_PROJECT_BYTES, MAX_PROJECT_DOCUMENT_BYTES, MAX_VERSION_BYTES, MaxOperations}
          \subseteq Nat

VARIABLES
    project,    \* the studio: the graph, its version, the size of its records
    history     \* ProjectHistory

vars == <<project, history>>

NoBase == 0
NoDelta == [prefix |-> 0, suffix |-> 0, replacement |-> <<>>, reverse_replacement_bytes |-> 2]

Root(source, version) ==
    [base |-> NoBase, delta |-> NoDelta, source_bytes |-> Len(source),
     checksum |-> source, version |-> version]

NewHistory(p) ==
    [snapshots |-> <<Root(p.source, p.version)>>, parents |-> <<NoBase>>, current |-> 1]

FirstProject == [source |-> FirstSource, version |-> 1, operations |-> 0]

Init == project = FirstProject /\ history = NewHistory(FirstProject)

Indices(h) == 1..Len(h.snapshots)

\* validate_snapshot_source
Matches(snapshot, source) ==
    snapshot.source_bytes = Len(source) /\ snapshot.checksum = source

----------------------------------------------------------------------------
(* The size of the document *)

decimal_bytes(value) ==
    LET bytes[v \in Nat] == IF v < RADIX THEN 1 ELSE 1 + bytes[v \div RADIX]
    IN bytes[value]

\* The longest version has room for every version there can be.
ASSUME VersionAssumption == decimal_bytes(MaxVersion + 1) <= MAX_VERSION_BYTES

IndexBytes(i) == decimal_bytes(i - 1)

\* history_source writes version 1; the project itself its version and records.
ProjectBytes(p) == Len(p.source) - 1 + decimal_bytes(p.version) + p.operations

SnapshotBytes(snapshot) ==
    IF snapshot.base = NoBase THEN 0
    ELSE IndexBytes(snapshot.base)
         + decimal_bytes(snapshot.delta.prefix) + decimal_bytes(snapshot.delta.suffix)
         + serialized_string_bytes(snapshot.delta.replacement)
         + decimal_bytes(snapshot.delta.reverse_replacement_bytes)

project_document(p, h) ==
    ProjectBytes(p) + IndexBytes(h.current)
    + MapThenSumSet(LAMBDA i : SnapshotBytes(h.snapshots[i])
                               + decimal_bytes(h.snapshots[i].version), Indices(h))

navigation_metadata_reserve(p, h) ==
    MAX_VERSION_BYTES - decimal_bytes(p.version)
    + MapThenSumSet(LAMBDA i : MAX_VERSION_BYTES - decimal_bytes(h.snapshots[i].version),
                    Indices(h))

\* A plausible slip: the two places that name the current snapshot are not counted.
GrowthWithoutIndices(h, i) ==
    LET base == h.snapshots[h.snapshots[i].base]
        target == h.snapshots[i]
        replacement_bytes == serialized_string_bytes(target.delta.replacement)
    IN target.source_bytes - base.source_bytes
       + target.delta.reverse_replacement_bytes - replacement_bytes
       + decimal_bytes(replacement_bytes)
       - decimal_bytes(target.delta.reverse_replacement_bytes)

\* How the document changes when the root moves from the base of i to i.
Growth(h, i) ==
    LET base == h.snapshots[h.snapshots[i].base]
        target == h.snapshots[i]
        replacement_bytes == serialized_string_bytes(target.delta.replacement)
    IN target.source_bytes - base.source_bytes
       + target.delta.reverse_replacement_bytes - replacement_bytes
       + decimal_bytes(replacement_bytes)
       - decimal_bytes(target.delta.reverse_replacement_bytes)
       + 2 * (IndexBytes(i) - IndexBytes(h.snapshots[i].base))

\* The size of the document with each snapshot in front, from the base outwards.
root_bytes(p, h) ==
    LET bytes[i \in Indices(h)] ==
            IF i = h.current THEN project_document(p, h)
            ELSE bytes[h.snapshots[i].base] + Growth(h, i)
    IN bytes

\* The largest of them, and room for every version to grow.
maximum_persisted_bytes(p, h) ==
    Max(Range(root_bytes(p, h))) + navigation_metadata_reserve(p, h)

\* save_project_state and save_source.
Savable(p, h) ==
    /\ maximum_persisted_bytes(p, h) <= MAX_PROJECT_DOCUMENT_BYTES
    /\ project_document(p, h) <= MAX_PROJECT_DOCUMENT_BYTES
    /\ ProjectBytes(p) <= MAX_PROJECT_BYTES

\* The limits are far from a new project.
ASSUME FirstAssumption == Savable(FirstProject, NewHistory(FirstProject))

----------------------------------------------------------------------------
(* The delta tree *)

\* A snapshot stored against another one, or whole.
Rebased(snapshot, base, delta) == [snapshot EXCEPT !.base = base, !.delta = delta]

\* The history with a new root and the old one a delta against it.
WithNewRoot(h, next, delta, parents) ==
    [snapshots |-> Append([h.snapshots EXCEPT
            ![h.current] = Rebased(h.snapshots[h.current], Len(h.snapshots) + 1, delta)],
            Root(next.source, next.version)),
     parents |-> parents,
     current |-> Len(h.snapshots) + 1]

\* A plausible slip: the delta leads from the old snapshot to the new one.
PushForward(h, p, next) ==
    WithNewRoot(h, next, snapshot_delta(p.source, next.source), Append(h.parents, h.current))

push(h, p, next) ==
    WithNewRoot(h, next, snapshot_delta(next.source, p.source), Append(h.parents, h.current))

CanPush(h, p, next) ==
    /\ Len(h.snapshots) < MAX_HISTORY_SNAPSHOTS
    /\ h.snapshots[h.current].base = NoBase
    /\ Len(p.source) <= MAX_PROJECT_BYTES /\ Len(next.source) <= MAX_PROJECT_BYTES
    /\ Matches(h.snapshots[h.current], p.source)
    /\ maximum_persisted_bytes(next, push(h, p, next)) <= MAX_PROJECT_DOCUMENT_BYTES

\* The snapshots to pass from the root down to i.
path(h, i) ==
    LET down[j \in Indices(h)] ==
            IF j = h.current THEN <<>> ELSE Append(down[h.snapshots[j].base], j)
    IN down[i]

\* The root moves one delta on: the delta is applied, and turned around.  It fails
\* when the delta does not fit or does not give what the checksum says, or when
\* the sources in memory together are too large.
reroot_step(at, target) ==
    LET delta == at.snapshots[target].delta
        restored == apply_snapshot_delta(at.source, delta)
        replaced == Between(at.source, delta.prefix, delta.suffix)
    IN IF /\ ~at.failed
          /\ InBounds(at.source, delta)
          /\ Len(at.source) + at.snapshots[target].source_bytes + Len(replaced)
                <= 3 * MAX_PROJECT_BYTES
          /\ Matches(at.snapshots[target], restored)
          /\ serialized_string_bytes(replaced) = delta.reverse_replacement_bytes
       THEN [snapshots |-> [at.snapshots EXCEPT
                 ![at.root] = Rebased(at.snapshots[at.root], target,
                                      reverse_delta(at.source, delta)),
                 ![target] = Rebased(at.snapshots[target], NoBase, NoDelta)],
             source |-> restored, root |-> target, failed |-> FALSE]
       ELSE [at EXCEPT !.failed = TRUE]

reroot(h, p, i) ==
    FoldLeft(reroot_step,
             [snapshots |-> h.snapshots, source |-> p.source, root |-> h.current,
              failed |-> ~Matches(h.snapshots[h.current], p.source)],
             path(h, i))

WithCurrentVersion(h, version) ==
    [h EXCEPT !.snapshots[h.current].version = version]

\* The project and the history with snapshot i in front, under a new version and
\* with today's records (ProjectState::checkout).
CheckedOut(h, p, i) ==
    LET rerooted == reroot(h, p, i)
    IN [failed |-> i # h.current /\ rerooted.failed,
        project |-> [p EXCEPT !.source = rerooted.source, !.version = @ + 1],
        history |-> WithCurrentVersion(
            [h EXCEPT !.snapshots = rerooted.snapshots, !.current = i], p.version + 1)]

----------------------------------------------------------------------------
\* A document that is not too large becomes the project; otherwise nothing changes.
Save(p, h) ==
    /\ Savable(p, h)
    /\ project' = p /\ history' = h

Commit(source, operations) ==
    LET next == [source |-> source, version |-> project.version + 1,
                 operations |-> operations]
    IN /\ project.version < MaxVersion
       /\ CanPush(history, project, next)
       /\ Save(next, push(history, project, next))

\* The record of an edit takes its outcome, and in one case a new version.
CommitMetadata(operations, version) ==
    /\ version <= MaxVersion
    /\ Matches(history.snapshots[history.current], project.source)
    /\ Save([project EXCEPT !.operations = operations, !.version = version],
            WithCurrentVersion(history, version))

Checkout(i) ==
    LET after == CheckedOut(history, project, i)
    IN /\ project.version < MaxVersion
       /\ ~after.failed
       /\ Save(after.project, after.history)

\* What validate_compact_snapshots asks of the snapshots of a document.
ValidSnapshot(h, i) ==
    LET snapshot == h.snapshots[i]
        base == h.snapshots[snapshot.base]
        reverse_bytes == base.source_bytes - snapshot.delta.prefix - snapshot.delta.suffix
    IN IF i = h.current THEN snapshot.base = NoBase
       ELSE /\ snapshot.base # NoBase
            /\ reverse_bytes >= 0
            /\ snapshot.delta.prefix + Len(snapshot.delta.replacement) + snapshot.delta.suffix
                  = snapshot.source_bytes
            /\ snapshot.delta.reverse_replacement_bytes
                  \in (reverse_bytes + 2)..(2 * reverse_bytes + 2)

\* A document with a parent that is no earlier snapshot, an invalid snapshot, another
\* project in front, or no room to navigate loses its history.
Acceptable(h, p) ==
    /\ Len(h.snapshots) <= MAX_HISTORY_SNAPSHOTS
    /\ \A i \in Indices(h) : IF h.parents[i] = NoBase THEN i = 1 ELSE h.parents[i] < i
    /\ \A i \in Indices(h) : ValidSnapshot(h, i)
    /\ Matches(h.snapshots[h.current], p.source)
    /\ maximum_persisted_bytes(p, h) <= MAX_PROJECT_DOCUMENT_BYTES

\* The process starts again, opens the document and saves it.
Reload ==
    Save(project, IF Acceptable(history, project)
                  THEN WithCurrentVersion(history, project.version)
                  ELSE NewHistory(project))

Next ==
    \/ \E source \in Sources, operations \in {project.operations, project.operations + 1} :
          operations <= MaxOperations /\ Commit(source, operations)
    \/ /\ project.operations < MaxOperations
       /\ \E version \in {project.version, project.version + 1} :
             CommitMetadata(project.operations + 1, version)
    \/ \E i \in Indices(history) : Checkout(i)
    \/ Reload

Spec == Init /\ [][Next]_vars

----------------------------------------------------------------------------
(* Properties *)

\* The sources of the snapshots, put together from the project and the deltas.
RestoredFrom(p, h) ==
    LET source[i \in Indices(h)] ==
            IF i = h.current THEN p.source
            ELSE apply_snapshot_delta(source[h.snapshots[i].base], h.snapshots[i].delta)
    IN source

Restored == RestoredFrom(project, history)

Ledger == INSTANCE ProjectLedger WITH
    Ops <- {}, operations <- <<>>,
    FirstGraph <- FirstSource,
    version <- project.version,
    graphs <- Restored,
    parents <- history.parents,
    current <- history.current

\* The delta tree is the plain list of ProjectLedger: whatever was pushed can be put
\* together again, character by character, after any sequence of commits, visits
\* and restarts, and a restart never finds its own document invalid.
KeepsLedger == Ledger!Spec

\* The size that a commit is judged by is right: it is that of the largest document
\* that a visit would write.
MaximumIsExact ==
    maximum_persisted_bytes(project, history) - navigation_metadata_reserve(project, history)
        = Max({LET after == CheckedOut(history, project, i)
               IN project_document([after.project EXCEPT !.version = project.version],
                      [after.history EXCEPT !.snapshots[i].version =
                           history.snapshots[i].version]) : i \in Indices(history)})

\* Every snapshot that was accepted can be visited (the error that refuses a push
\* otherwise says so): neither the deltas nor the size of the document is in the
\* way, now or at any later version.  Only today's records can make an old graph
\* too large.
EverySnapshotCanBeVisited ==
    \A i \in Indices(history) :
        LET after == CheckedOut(history, project, i)
        IN /\ ~after.failed
           /\ Savable(after.project, after.history)
              \/ ProjectBytes(after.project) > MAX_PROJECT_BYTES
=============================================================================
