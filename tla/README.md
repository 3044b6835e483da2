# A TLA+ model of DAW-AI

DAW-AI is an audio workstation in a browser whose user describes an edit in
words. A Rust server (`src/src`) keeps one project per user, lets Gemini plan
and carry out the edit through tools, renders audio with the Surge XT engine and
streams it. This directory models the server: prompted edits against each other,
against the user's own changes, interrupts, failing saves and restarts; the tree of
deltas that stores a project's history; the graph itself, the tools that change it
and the files of a planner session; the planning loop and the retention of its
records; connections, streams and the callers that share the one native audio
renderer; and what is rendered and sent when somebody listens.

## 1. The system

| Component | State | Operations | Talks to |
|---|---|---|---|
| Edit jobs, `edit_jobs.rs` | table of at most 64 jobs behind one mutex, next id | create (look up, capacity, evict), set_running, publish_update, finalize_updates, complete, fail, worker_finished, interrupt | called by handlers and workers |
| Project state, `project_state.rs` | studio (graph, version, operation records), history, store, behind one mutex | commit, commit_metadata, checkout, publish | history, store |
| Project history, `project_history.rs` | delta tree of snapshots, parents, current | push, checkout (reroot), update_current_metadata, load | project state |
| Project store, `storage.rs` | the project file | bounded read, save through a temporary file, rename and directory sync, quarantine | file system |
| Sound graph, `model.rs`, `project_file.rs` | tracks, racks, key zones, clips, devices, edits, operation records | mutations, validation, serialization | tools, project state |
| Edit service, `server.rs` | router of a user, edit limiter, worker threads | start_edit, status, interrupt, duration, mix, undo, reset, history, run_edit_job | everything above, the planner |
| User registry, `server.rs` | cache of at most 64 users, directories of at most 256 | scoped: find, evict, create | edit service |
| Planner, `gemini.rs` | loop state | turns against the Interactions API, gates on listening, retries, deadline | session, edit service, renderer |
| Tools, `gemini_tools.rs` | the files of a session | mutations with rollback, undo, audition slots, renders | sound graph, planner |
| Sessions, `gemini_session.rs` | one directory per edit | create, status and metrics updates, retention | file system |
| Audio renderer, `audio_renderer.rs` | busy flag, waiter counts, condition variable | acquire, render_with, wake_waiters | edits and streams |
| Transport, `server/transport.rs`, `http.rs` | connection and stream permits | accept, read with deadlines, stream with backpressure, drain | router, renderer |
| Audio answers, `server.rs`, `audio_stream.rs` | the answer being written, the spectrum cache | playback, byte ranges, export, spectra | renderer, project state |
| Audio rendering, `audio_analysis.rs` | none that is shared | clips to notes to blocks, preroll, stems | engine |
| Engine and DSP, `surge*.rs`, `spectrum.rs` | none that is shared | render, analyse | renderer |
| Browser, `web/app.js`, `web/audio-engine.js` | shown project, pending operation, playback | submit with retries, poll, recover, undo, play | HTTP API |

What makes each of them correct:

* **Edit jobs**: terminal states are final; one worker slot per project; a job
  outlives its worker; an interrupted job keeps its slot until the worker stops.
* **Project state**: candidates become visible only after saving; versions grow and
  identify a graph; the history loses nothing; outcomes of operations are final.
* **Edit service**: no lost update; an operation id is carried out at most once,
  also when a client repeats it; permits balance.
* **Project store**: after a crash the file is the old or the new document.
* **History**: every snapshot can be rebuilt after any sequence of operations.
* **Sound graph**: what a mutation makes, the file format accepts; ids are never
  given twice; what lies outside the selection sounds as before.
* **Tools**: a failed call leaves the session as it was; undo restores; the session
  and the project it was copied from stay the same.
* **Planner**: never more than four mutations without feedback; a final listen
  after the last mutation; cancellation and deadline are honoured.
* **Sessions**: retention never removes the record of a running edit, closes what was
  abandoned, and drops sounds before records.
* **Audio renderer**: one render at a time, edits before streams, nobody forgotten.
* **Registry**: one router per user at any time; limits hold; eviction never takes
  a project that is in use.
* **Transport**: permits balance; abandoned workers end; shutdown ends.
* **Audio answers**: the promised bytes arrive; a spectrum is of the version that was
  asked for; regions that are rendered apart fit together.
* **Browser**: the shown project never goes back; an accepted edit is followed to
  its end after lost answers.

The hard behaviour is listed line by line under `hazards` in `PROJECT.json`.

## 2. Modules

| Module | Models |
|---|---|
| `EditOperations` | the durable record of prompted edits |
| `EditJobs` | the job table: one operator per method of `EditJobs`, from table to table |
| `ProjectState` | candidates for a project: mutations, operation records, push, checkout |
| `EditService` | request threads, edit workers, limiter, project, project file, restarts |
| `ProjectLedger` | abstract: what a project promises its readers; implemented by `EditService` and by `ProjectHistory` |
| `SnapshotDelta` | the text deltas of `project_history.rs`: make, apply, turn around |
| `ProjectHistory` | the delta tree, its predicted sizes, visits, validation and reopening |
| `Float32` | the `f32` arithmetic of the timeline |
| `SoundGraph` | a project's graph, every mutation of the studio, what a project file accepts |
| `ToolSession` | the files of a planner session, the tools, rollback, undo, the server that commits; extends `SoundGraph` |
| `EditSessions` | the records of sessions and the retention passes over them |
| `PlannerLoop` | the planning loop with its gates, retries, deadline, crashes; extends `EditSessions` |
| `RenderQueue` | abstract: a mutex with priority whose waiters may give up |
| `AudioRenderer` | the renderer's mutex and condition variable; implements `RenderQueue` |
| `AudioServing` | connections, streams, user registry, shutdown; extends `AudioRenderer` and implements it |
| `RenderSchedule` | from clips to the notes that are held in every block of a region |
| `AudioBodies` | playback, byte ranges, export, spectra and analyses, region by region; extends `RenderSchedule` |
| `EditServiceProofs` | theorems about `EditService`: types, versions and slots; the ledger; what becomes of an edit |
| `SoundGraphProofs` | what every mutation of `SoundGraph` makes of a project |
| `ToolSessionProofs` | theorems about `ToolSession`: writes and rollbacks, undo, ids |
| `ProjectHistoryProofs` | theorems about `ProjectHistory` and the deltas it is made of |
| `PlannerLoopProofs` | theorems about `PlannerLoop` and retention |
| `AudioServingProofs` | theorems about `AudioRenderer` and `AudioServing` |
| `AudioBodiesProofs` | theorems about `AudioBodies` |
| `FoldTheorems` | induction, recursive functions, folds over lists, sums and maxima, for the other proofs |
| `MCEditService`, `MCProjectHistory`, `MCToolSession`, `MCPlannerLoop`, `MCAudioServing`, `MCAudioBodies` | small instances for TLC |

### EditService

A step is what the code does between two points where another thread can run.
`start_edit` in the code is five steps here, because it takes and drops the job
table's mutex, the project's mutex, the limiter and the job table's mutex again:

    start_edit -> SnapshotProject -> AcquirePermit -> CreateJob -> SpawnWorker
                                                        |-> RespondWithJob (job existed)

`Interrupt` is the interrupt route; its answer is a second lookup, `RespondWithJob`.
A worker runs

    StartWorker -> BeginTurn -> EndTurn                                 (nothing to publish)
                              | DraftGraph -> CommitUpdate -> PublishUpdate -> BeginTurn ...
                              | FinishPlan -> BeginCompletion -> MarkComplete
                                              -> FinalizeUpdates -> ReportSuccess
    any failure -> ReadInterrupted -> PersistFailedOperation -> ReportFailure
    both -> WorkerFinished -> DropPermit

`commit_gemini_update` and `complete_gemini_operation` hold the project mutex over
several critical sections of the job table; `lock` is the worker that does. Users'
changes (`ChangeProject` for duration, mix and reset; `Navigate` for undo and the
history list) are single steps under the mutex. `publish` gives a save three
outcomes: done; refused with the old file in place; and in place with an error
(`replace_file` renames and then syncs the directory), after which the file is ahead
of memory. `Restart` kills every thread at any point and reopens the file. An
eviction from the user cache, which happens only when nothing runs, is a special case
of it.

Graphs are tokens: `graphs` counts how many have been drawn and a new one is always
fresh, so that two graphs are equal only when one was taken from the other. The
history variables `seen` (what clients could read), `authors` (whose steps an
operation has) and `basis` (what a graph was made from) exist for the properties
only; no guard reads them.

### ProjectHistory

`EditService` takes the history for a list of graphs. `ProjectHistory` is how it is
stored: the current snapshot whole, every other one as a prefix length, a suffix
length and a replacement against a neighbour. `push` makes the old root a delta
against the new one; a checkout walks the path from the root (`path`), applies each
delta and turns it around (`reroot_step`). Before each save the code predicts how long
the document would be with each other snapshot in front (`Growth`), from lengths and
digit counts; the model measures the same document with `project_document`. Sources
are sequences over a small alphabet with one character that JSON escapes, because the
prediction tells escaped lengths from plain ones; numbers have as many digits as in
radix `RADIX`, so that the number of digits changes within the bounds. What is the
same in every document of one history (field names, entries, checksums) is not
counted; the limits of the instance are chosen for what is. A checksum is the source
it was made of, so collisions of the 64-bit hash are not modelled. A refused commit or
visit changes nothing, because the code works on a clone of the history: it is a step
that is not enabled here.

### SoundGraph and ToolSession

`SoundGraph` has one operator per mutation of `Studio`. Each gives the set of projects
it can produce, empty when the code returns an error: a mutation with a list of changes
is one after the other (`Then`). `Accepted` is what `project_file.rs` accepts, and so what
a save needs; `WellFormed` is what the types of `model.rs` and the parser's check of ids
give to every project before that. Times are `f32` numbers computed with all 24 bits, because
a change of tempo rescales every moment of a project and rounding shows. Names, volumes,
colours and automation are tokens or absent; notes are a pattern with its pitches; what
a preset of the engine brings is a constant.

`ToolSession` keeps the session's files as a record: graph, request, metadata, undo
graph, undo request, progress handoff, audition slot. `apply_agent_mutation` is
the function of that name: it writes the files in order (`MutationWrites`), any write
may fail, and what was written is then put back (`MutationRollback`). `Undo` is
`undo_agent_mutation`. Each tool is an action that gives `Apply` its mutation, with the
tracks its result names for the listen that must follow. `CommitUpdate` is the server's
side: `take_update`, the version check, `replace_graph` with the server's own edit log
and `synchronize_project`, in one step, since `EditService` has their interleavings.
`ManualChange` is a change from the browser in between. `outcome` says how the last step
ended and only properties read it, as they do `affected`, `restorable` and `known`.

### EditSessions and PlannerLoop

A retention pass takes the time, then visits the directories one by one (`Visit`), writes
back a record whose time lies in the future or whose lease is over (`Rewrite`) and prunes
what it has seen (`Prune`). Nothing locks the records, so steps of workers and of another
pass come in between. `PlannerLoop` is the worker: `StartEdit` (whose session begins with a
pass), `OpenSession`, then turns

    Turn -> calling -> AnswerCall -> one tool -> Turn
                     | AnswerDone -> closing, or Turn if something was not listened to
                     | Unavailable -> Wait -> calling

A tool is a change of the loop state only: `Mutate`, `StartRender` and `RenderEnds`, or
`OtherCall`. `LetThrough` is the gate after too many mutations, and
`completion_listen_required` the one before the end. `CloseSession` writes the last
status and starts another pass. Deadline and interrupt are looked at where the code looks
(`Turn`, `CallEnds`, `Wait`, `RenderStops`). `Crash` stops the server at any point and
leaves the records. `unheard` and `unproven` are history variables.

### AudioRenderer and AudioServing

The three fields of `AudioRenderState` and a program counter per caller. Checking
`is_cancelled` (`Check`) happens without the mutex and taking the renderer (`Try`)
under it, so a cancellation, a notification or another caller fits in between.
`notify_all` moves every sleeper back to `checking`. `TimeOut` is both the 50 ms poll
and a spurious wake-up.

`AudioServing` puts the server around it. A request has an async task (`conn`) and
workers (`work`): one that finds the user's project and handles the request, and one that
produces a stream into a bounded channel. `Accept`, `Receive`, `PollFrame`, `EndOfBody`
and `Drop` are the task, with `ReceiverBody` and its permit; a client may leave at any
step and a shutdown aborts what has not drained. `Scope` is `Router::scoped` under the
registry's mutex: eviction (`Kept`: any idle users may have expired, and idle ones make
room), the two limits, and the clone of the router that a worker keeps until it ends. An
open project is told from the same user's project opened again by an instance number.
Edits hold a router and render; starting one is `EditService`'s part.

### RenderSchedule and AudioBodies

`RenderSchedule` is the arithmetic from clips to sound, without sound: which notes a clip
has in a window (`clip_occurrences_in_window`, with loops, cuts and key zones), how far
before its start a region is rendered (`playback_preroll_sample`), and which voices are
held in each block, each with the block it began in (`render_track`). `AudioBodies` has an
action per region of each answer (`WriteChunk`, `WriteExport`, `WriteRange`, `SpectrumChunk`) and the
answers' promises: lengths, byte ranges, frame counts, cache keys. The project may change
and the client may go between any two regions. The final check of the spectrum's version
and the write of its cache file are two steps (`SpectrumChunk`, `SaveSpectrum`).

## 3. Runs

| Run | Instance | Shows |
|---|---|---|
| `edit_requests` | 2 request threads, 2 operation ids, 3 edits, 1 retained job, 2 permits, 1 graph, failing spawns, panics | `JobOutlivesWorker`, `PermitsBalance`, `RunningHasWorker` |
| `edit_crashes` | 1 request thread, 2 operation ids, 2 edits before a restart and 1 after it, 2 graphs, versions to 3, history of 3, 1 restart, both kinds of failing save, panics | `TypeOK`, `NoLostUpdate`, `VersionIdentifiesGraph`, `NothingShownIsLost`, `AtMostOnce`, `CompletedJobIsDurable`, `KeepsLedger` |
| `interrupt_late` | 1 request thread, 1 operation id, 1 edit, no faults | violated: an accepted interrupt does not stop a completion under way |
| `slot_leak` | 2 request threads, 1 operation id, 2 edits, failing spawns | violated: an interrupt before a failing spawn leaks the project's edit slot |
| `history_tree` | sources of up to 3 characters, 4 snapshots, versions to 7, radix 2, limits of 53 and 6 | `MaximumIsExact`, `EverySnapshotCanBeVisited`, `KeepsLedger` |
| `sound_graph` | a song with one clip, zone, sound and modulator under limits of 2 and 3, 2 changes by the planner, 1 by hand, audition slots of 4 versions, 2 tempos, 2 selections | `StudioKeepsToTheFormat`, `ServerTakesEveryMutation`, `SessionMirrorsProject`, `UndoHoldsTheLastMutation`, `SelectionFilesAgree`, `UndoRestores`, `IdsAreFresh`, `OutsideSelectionUntouched`, `ListenCoversWhatChanged` |
| `tempo_undo` | a new project, tempo 129 and back | violated: an undo that the project file refuses |
| `planner` | 1 edit of at most 3 mutations (2 without feedback), a session left by an earlier run, 1 listing, 1 crash, 1 retry, a lease of 1, an age of 2, at most 2 sessions of 3 units, clock to 3 | `ListenedBeforeCompletion`, `FeedbackInTime`, `LiveSessionKeepsItsRecord`, `PassClosesTheAbandoned`, `AudioGoesFirst`, `PlannerEnds` |
| `session_race` | as `planner` | violated: a pass puts a closed session back to running |
| `audio_serving` | an edit, a playback, a spectrum; 2 users, 1 of them cached; 2 connections, 1 stream; a channel of 1; streams of 1 chunk | `CountsExact`, `NoMissedWakeup`, `PermitsFollowBodies`, `OneOwner`, `KeepsQueue`, `NobodyIsForgotten`, `StreamWorkerEnds`, `ServerStops`, no deadlock |
| `audio_bodies` | 6 songs of up to 50 samples, 8 samples a second, blocks of 4, regions of 24, playback chunks of 16, 1 change of the project | `SoundsAsWritten`, `PromisedBytesArrive`, `SpectrumSeesItsWindow`, `SpectrumIsCurrent`, no deadlock |
| `odd_range` | as `audio_bodies`, and a range that begins inside a sample | violated: a range that was granted cannot be rendered |

Why the bounds are enough.

*Edits.* Only one edit of a project has a worker at a time, so the third edit of
`edit_requests` is needed for an eviction (a table of one job, whose first job has
ended) while a request that read the old table is still under way; two request threads
are needed for two requests with one operation id, and for an interrupt beside a
request. In `edit_crashes` the second edit plans on a project that the first edit, an
undo or a change by hand may have moved; a history of three fills up, so that a push is
refused. `MaxVersion` stops users only, never an edit under way. One restart reaches
every step boundary, and the second process starts from whatever file the first one
left. Its one request thread and its table of two jobs leave out the case that a job ends
and is evicted between a request's look at the job table and its look at the record: that
`AtMostOnce` holds there too is shown by the theorem `EditsHappenOnce`. These runs do not check deadlock: the system really stops when its bounds on
edits, graphs and versions are used up.

*History.* Four snapshots make chains and branches of up to three deltas; the first
index with two digits is 2 and versions reach three digits; the document limit refuses
some commits and the graph limit some visits; the five sources share prefixes and
suffixes, overlap with themselves and include the empty one. `MAX_VERSION_BYTES` must
hold one version more than the instance reaches, as twenty digits hold every 64-bit
version in the code.

*Sound graph.* The song has a clip that reaches over both ends of the smaller selection
(so that clip tools must cut it in two and keep the phase of its loop), a key zone, a
sound with a preset's own effects and one with a modulator whose parameter another
preset does not have. All limits are 2 or 3, so that every one is reached by one or two
tools. Two changes are a change and its undo or failure, or a change on top of another;
every write of each may fail. The tempos 60 and 120 scale by a power of two, so that
every moment of the run is a short binary fraction, which a file gives back as it was
written (section 5): session and server may then be compared for equality. For the
same reason no rescaling rounds here, and `ServerTakesEveryMutation` shows that the
server's log keeps to the format's limits, not that it survives rounding: `tempo_undo` is
the case of a ratio that rounds. An edit log of 2 entries is compacted within the run.

*Planner.* A lease equal to the timeout is the tightest relation the assumption allows
(25 against 20 minutes in the code). Three sessions are one more than may be kept; three
units are less than three sessions with sound need. Two passes (the planner's and a
listing) interleave at every read and write. One crash leaves a running record behind at
every step, and so do the first records. The run stops when the edits and the clock are
used up, hence without deadlock check.

*Serving.* One cached user and two users force an eviction on every change of user; one
stream permit and one slot in the channel are the limits at which bodies and producers
wait; an edit makes streams wait for the renderer. More chunks repeat the same steps.

*Answers.* A song has notes off the block grid, notes held across several regions, loops
whose round is cut by an edit, overlapping key zones, and a muted track and one that
cannot be rendered. Every region of every answer begins at another phase of the preroll.
Ranges begin and end inside the header, inside samples, at the last byte and beyond it.

Fairness. `audio_serving` assumes that the thread of a stream runs while its next step
is possible (`WF` on `StreamThread`), that a render which was cancelled ends (renders
poll `is_cancelled`), that the steps of an edit inside the renderer's queue happen, and that
the server aborts what has not drained after its grace period. It assumes nothing of
clients, of the channel's reader, or of renders that nobody cancelled. A stream
can wait for ever behind edits that keep arriving, even if each of them gives up: that is
what the priority means, and `NobodyIsForgotten` says so. `planner` assumes that
the worker's own steps happen, that passes end and that time passes; it does not assume
that Gemini answers, that a render succeeds or that anybody interrupts: deadline and
retry limits are what ends the edit.

Findings, each with a violated run.

* `interrupt_late`: `complete_gemini_operation` reads the interrupt flag under the
  project mutex, but `interrupt` takes the job table's mutex only, so the client is told
  "interrupted" and the operation is durably recorded as completed.
* `slot_leak`: `fail` returns early for a job that an interrupt has already failed, so
  when the thread of that edit cannot be started nobody clears `worker_active`, and
  every later edit of the project is refused until a restart.
* `tempo_undo`: `replace_graph` multiplies the times of the server's edit log by the
  ratio of the tempos. After a change of tempo and its undo the log has been rounded
  twice while the duration is the exact old one; an edit that ended with the project now
  ends after it, the project file refuses the graph, and so the undo fails for good.
* `session_race`: a pass takes the time before it reads the records, so a record that its
  worker updates meanwhile lies in the pass's future and is written back from the copy
  the pass has read. A session that was closed in between is running again.
* `odd_range`: a range that begins in the middle of a sample is granted the bytes of a
  full region and so touches one sample more than a region may have: the answer is 206
  with a length, and then it breaks off.

Observations without a run, met while reading.

* After an undo the ids of what was undone are given again, because the next id is
  counted from the graph (`model.rs:946-956`). `IdsAreFresh` holds for commits whose edit
  log has a newer entry, which is what the server's commits make.
* A note whose onset falls strictly inside the last block of a chunk is played at that
  block's start, and again on time in the next chunk (`audio_analysis.rs:489-505`, tests
  at `:1248` and `:1302`). `SoundsAsWritten` states this exception.
* A session directory without a readable record is never pruned
  (`gemini_session.rs:504-512`), and a user's directory is never given back
  (`server.rs:699`).
* Job ids restart at 1 with the server (`edit_jobs.rs:54`), and the browser asks for a job by its
  id (`web/app.js:1125`).

## 4. Proofs

TLAPS checks every step. The bounds of the instances (`MaxJobs`, `MaxGraphs`,
`MaxVersion`, `MaxRestarts`, `Chunks`, `CHANGES`, ...) are arbitrary in every theorem,
as are sets of clients, sources, songs and records. What is assumed of the constants
stands as a named `ASSUME` in the module that declares them, and each run evaluates it:

| Theorems about | Assume |
|---|---|
| `EditService` | limits are positive, bounds are numbers (`ServiceAssumption`, `RetainedAssumption`, `HistoryAssumption`) |
| `ProjectHistory` | the same of its limits and a radix of at least 2 (`HistoryAssumption`); the longest version fits where room is kept for it (`VersionAssumption`: twenty digits for 64 bits); a new project is within the limits (`FirstAssumption`) |
| `AudioRenderer`, `AudioServing` | callers are finitely many (`CallersAssumption`); limits are positive, streams are callers, ids are not the words for nobody (`ServingAssumption`) |
| `PlannerLoop` | limits are numbers and the lease outlasts an edit (`LeaseAssumption`, 25 minutes against 20), a pass takes no longer than a lease and twice that is within the age after which a session is too old (`PassTimeAssumption`), records left by earlier runs are complete (`FirstRecordsAssumption`) |
| `SoundGraph`, `ToolSession` | presets have finitely many slots and patterns a number of notes (`EngineAssumption`), limits are positive (`LimitAssumption`); the projects the server starts with and the regions a request selects have gone through a parser: their fields are there, ids are numbers, no two tracks, clips or key zones share one, and the format accepts the project (`FirstAssumption`) |
| `AudioBodies` | sizes are positive, a region is a whole number of frames and at least one playback chunk (`BodiesAssumption`); songs have gone through the parser (`IsSong`) and the times and headers of requests are unsigned (`InputsAssumption`) |
| `RenderSchedule` | blocks divide a second, a note is held for a block at least, the epsilon is a small part of a sample, and what the preroll adds is longer than the shortest note or a block (`RenderAssumption`: 8 and 16 seconds against 0.01 seconds and 32 samples) |

Each property below follows from an inductive invariant, which says more than it.

### Edits

* `TypeCorrect`: types, from lemmas that every table method and every candidate is
  well-formed.
* `LostUpdatesNeverHappen`, `VersionsIdentifyGraphs`: neither property is inductive.
  What makes them so is `ProjectInv`: every copy of the project that is out (in a
  request, in a worker, in the file, in what a client has read) is told from the
  project by its version: it is older, or it has the project's graph (`Copy`). The
  file is never behind memory (`Ahead`); after an unsynced save it is ahead, and the
  next save overwrites it. A commit at an equal version then replaces exactly the
  graph its author had read. The saves themselves are handled once (`SaveKeeps`) for
  any candidate that moves the project forward (`Moves`).
* `OneWorkerWithItsJob`: `SlotInv` follows the one slot of the job table from the
  request that creates the job to its worker, and says that ids are fresh, so that an
  eviction can only hit a job whose worker is done.
* `ServiceKeepsLedger`: the refinement of `ProjectLedger`. A save writes a candidate that
  is one step of the ledger ahead of memory (`Follows`: the history grows by one, a
  snapshot is visited, a record is completed or ends otherwise), and memory takes it only
  when the save succeeds. So the file is the project or one such step ahead of it
  (`FileFollows`), and a restart is that step or none. Each candidate of `ProjectState`
  has a lemma that says which step it makes.
* `ShownGraphsStay`: every graph that was readable is in the history in memory
  (`ShownIsKept`) and, since the file follows, in the file.
* `EditsHappenOnce`: `AuthorInv` says that once an operation is recorded, every request
  and every worker that would carry it out again holds a version from before, and a
  commit compares versions. Job ids start again after a restart, so authors are named by
  process and id.
* `SuccessIsDurable`: a worker goes on to report success only when its record is
  completed, a completed record stays so (`SuccessInv`), and the file never takes an
  outcome back.
* `RunningIsAttended`: under `Undisturbed` (no failing save, no restart: what
  `edit_requests` checks), a record that says running has a worker before its verdict
  (`AttendedInv`). Without that hypothesis the code makes no such promise, as the hazard
  at `server.rs:1295` says.
* `PermitsStayBalanced`: requests and workers that hold a permit are one set of tickets;
  each step moves, adds or takes one, and its cardinality is the limiter's count.

### History

* `HistoryKeepsLedger`: `HistoryInv` says that the deltas form a tree with the current
  snapshot at its root (`Tree`: a rank grows from every base, so that recursion along the
  bases ends) and that each delta leads from the source of its base to its own (`Joins`).
  `DeltaJoins`: a delta that was made of two sources gives back its target, because
  prefix and suffix do not overlap; `ReverseJoins`: turned around, it gives back its base.
  Then one step of a walk (`StepTurns`), by induction a walk (`StandingMoves`), and so a
  visit (`VisitMoves`) leaves a tree for the same sources, and a push adds one. What a
  reload validates is true of every tree (`TreeIsValid`), so that it never discards one.
* `JudgedBySize`: one step of a walk changes the document by exactly `Growth`
  (`TurnCosts`), so the sizes of all documents stay the same numbers while the root moves
  (`Weighed`), and by induction over the rank the predicted size of each is the measured
  one.
* `HistoryStaysOpen`: what a visit writes is no longer than the largest document plus the
  room for versions, which was within the limit when the history was last saved
  (`VisitFits`); the number of digits grows with the number (`DecimalGrows`).

### Graph, tools and session

* `EditedIsSound`, `GraphReplaced` (`SoundGraphProofs`): a mutation touches some parts of a
  project and leaves the others (`Touches`), and every id in the parts it makes was there
  before or is one of the next k of the sequence (`Ample`). There is a lemma of this form
  for each mutation, the presets with their effects, the clips that are cut in two and the
  sound that is copied out of an audition slot among them. The commit of a session's graph
  takes everything but the log from it, rescales the log and adds an entry that is newer
  than every part, which compaction keeps.
* `CallsChangeAllOrNothing`: after a list of writes each file holds what was written to it
  last (`WritesAreWritten`, by induction along the fold), and a rollback that names every
  file written so far with its content of before restores them all, wherever the list
  broke off (`FailureRestores`). The lists of a mutation and of an undo are of this form
  (`MutationRollsBack`, `UndoRollsBack`), also when the selection is not among the writes.
* `SelectionStaysWhole`, `UndoFilesHold`, `UndoGivesBack`, `SessionFollowsServer`,
  `NewIdsAreFresh` rest on one inductive invariant, `ToolInv`. `FilesFit`: the files hold
  projects and a region inside them, twice the same, and a handoff is the graph. `UndoFits`:
  what undo would bring back is the music and the selection before the last mutation; while
  an undo waits to be committed, the graph has them already. `CommitFits`: while nobody else
  has changed the project, the graph is the server's or waits to be committed; what waits
  has no ids but the server's and newer ones; and some entry of the edit log is at least as
  new as every id that was ever given. The last part is what keeps ids fresh, and it is why
  a commit must add its entry after the graph's ids and compaction must keep the newest:
  ids that undo or a deletion frees are below it.
* `ListensToWhatChanged` needs a second invariant, `TellInv` (`ChangesAreTold`). What a track
  plays is its sound and the notes that racks and key zones lead to it, and a listen covers
  the tracks that the last mutation named, or all of them when it named none. So each tool
  owes that what it makes of the graph plays otherwise only on tracks that it names
  (`Tells`): a clip is named by the tracks its rack led notes to before and does after, a
  zone by its instrument's before and after, a sound by its own track, and a tool that
  changes no music by nothing. From there `TellInv` carries the claim over the handoff to
  the commit: what waits to be committed differs from the project only where the listen
  will go (`ToldFits`), or somebody else has changed the project and the commit is
  refused; an undo asks for everything. Changing one clip changes no other only if no two
  clips share an id: that is `Apart`, which every mutation keeps (`SoundGraphProofs`),
  because new parts get ids above all that are there and a clip that is cut in two gets
  one for its second half.

### Renderer and server

* `CountsStayExact`, `WakeupsAreNotMissed`, `RendererImplementsQueue`: the invariants
  of `AudioRenderer` are inductive together with `Exclusive` (the flag is up exactly
  while one caller holds the permit). The refinement maps waiters to the queue and the
  permit's holder to the admitted caller; each step is a step of `RenderQueue` or none.
* `ServingIsRendering`: every step of the server is a step of `AudioRenderer` or leaves
  the renderer alone (a client that goes away cancels its stream), so
  `ServingSpec => Spec`. `ServerKeepsQueue` carries the renderer's theorems over.
* `PermitsStayWithBodies`: a step either leaves permits and bodies alone, or begins a
  body with a permit, or ends one with its permit (`BodyStays`, `BodyBegins`,
  `BodyEnds`); the count then follows from cardinalities.
* `ProjectsHaveOneOwner`: with the types, `OneOwner` is inductive. Whoever holds a router
  makes `can_evict` false, so the project stays in what the cache keeps (`HeldIsKept`),
  and a project is opened anew only when nobody holds it (`OpenedAnew`).

### Planner

* `FeedbackComesInTime`, `CompletionWasListenedTo`: neither gate is inductive. `LoopInv`
  adds that the loop state follows the history (`FollowsHistory`: the count is that of the
  edits nobody heard, the requirement is what the last edit still asks for, and it is open
  only while a listen is due) and that a render under way was judged by the requirement
  that still holds when it ends (`RenderIsJudged`). Steps of passes, clients, crashes and
  interrupts are handled by two lemmas (`StayKeeps`, `FreshKeeps`).

* `LiveSessionsKeepTheirRecords`: `RetentionInv` relates each pass to the edit. A pass
  that has still to reach the planner's session began after the edit did (`Spared`), so at
  its time the lease is not over; what it has seen of the session runs, and what it is
  about to write runs. Pruning goes through the sessions with a fold, of which
  `FoldTheorems` shows that it keeps what every step keeps.
* `PassesCloseTheAbandoned`: of what a pass has visited, nothing runs past its lease at
  the pass's time (`Swept`), because whoever writes a record in between writes a later
  time, and another pass writes back its own, at most `PASS_TIME` old.
* `SoundsGoFirst`: within one pass the order follows from the two folds of
  `prune_sessions` (`PruningGivesUp`): the first takes sounds until the rest fits, so it
  leaves one only if it fits without going on; the second then drops a session only for age,
  for number, or because it does not fit, and then no sounds are left. Each is a
  statement about what a fold leaves behind (`TakingSounds`, `RetainingGivesUp`), by
  `FoldKeepsAlong`. What makes it true of the files is `SeenInv` (`SeenIsSound`): between
  the visit and the pruning others write the same records, but a closed session that was
  too old stays so and no sounds come back to it (`Told`), because whoever holds a change in
  hand took it from a running or a young record (`ChangeIsYoung`).

### Audio answers

* `PromisesAreKept`: the cursor of an answer says how many bytes have been written
  (`FileInv`), each region begins where the last one ended, and the arithmetic of regions
  and chunks never asks a region for bytes that it does not have.
* `SpectraSeeTheirWindows`: frame k of a spectrum is at start + k frames and sees its
  whole window (`FramesOf`), because a region is a whole number of frames.
* `SpectraAreCurrent`: with `CacheInv`, the cache of the open project's version has
  frames of the open project; versions only grow, so an older cache is never taken for it.
* `RegionsSoundAsWritten`: the schedule is settled without looking at the answer.
  - A render plays no note that the song has not (`NotesAreScore`: the rounds of a loop
    that a window asks for are rounds of the loop), and it knows every note that is held
    in the region (`NotesAreReached`). For this the preroll begins before the note does: a
    note is held no longer than `maximum_voice_lifetime`, the preroll goes back further by
    `DSP_SETTLING`, and rounding a moment to a sample moves it by half a sample at most
    (`OccurrenceTimes`, `PrerollReaches`). With `SettlesOnly` for the preroll, the mutant
    of the run, this step fails.
  - The blocks are a fold (`RenderPlays`, by `FoldKeepsAlong`). After block k the voices
    that are held are those of the notes that began at or before the block and have not
    ended (`VoicesGoOn`), each since the first block at or after its note; whole seconds
    of preroll make that the same block in every render (`GridSteps`).
  - Cutting the preroll away leaves the blocks from the one in which the region begins
    (`SliceOfBlocks`).
  - `SoundInv` then says that what was rendered last is a region of the answer's song that
    begins no later than it ends, although one end of an analysis is rounded to the
    nearest sample and the other up, and that a range has left the header behind when its
    samples are rendered, so that its first sample is not negative.

### Induction

The library's induction rules take a formula as a parameter, which the provers cannot
instantiate. `FoldTheorems` states induction over sets of numbers instead
(`NumbersInduct`, from the least element of a set) and derives from it that recursive
functions exist and do what their equation says (`RecursionAgrees`, `RankInduction`), what
`FoldLeft` keeps (`FoldKeeps`, `FoldKeepsAlong`), how sums move (`SumMoves`) and that a
finite set of numbers has a greatest one (`MaxOfFinite`).

One point of notation: the prover reads a prefix operator such as `UNION` or `SUBSET` as
taking in all that follows, where TLC takes the next operand only. Where it matters the
modules have parentheses, so that both read the same.

### What is only model-checked

* Of `ToolSession`: what depends on how `f32` rounds or on what the format counts. Whether
  a rescaled log stays inside the project (`ServerTakesEveryMutation`,
  `StudioKeepsToTheFormat`) is so for the tempos of the instance and not for all:
  `tempo_undo` is the counterexample. `OutsideSelectionUntouched` holds up to the 0.00001 s
  within which moments are the same to the code.
* Liveness (`NobodyIsForgotten`, `StreamWorkerEnds`, `ServerStops`, `PlannerEnds`): fairness
  needs ENABLED, which the prover does not reach.

## 5. What is abstracted, and what is not modelled

* In `EditService`, the content of graphs: a mutation that the code refuses as invalid
  is an ended turn. `ToolSession` has real graphs, one session and one-step commits.
* In `SoundGraph`, values of parameters, automation curves, names and volumes; which
  modulation targets a sound has is a relation (`Modulatable`). The studio can also move an
  effect within its track's order (`"routing"`, `model.rs:2035`), and `set_parameter` would
  reach that, but no tool of this name is declared and the loop refuses an undeclared one
  (`gemini.rs:648`): it is not an action.
* In `ToolSession` a graph is read from a file as it was written. A file prints six decimals
  of a moment (`model.rs:2437`). From 16 seconds on the steps of `f32` are coarser than that,
  and a short binary fraction is a short decimal one, so there nothing is lost; another
  moment below 16 seconds may come back one step of `f32` off. The instances have only
  moments for which the two agree. The theorems about the files of a session
  (`SessionFollowsServer`, `SelectionStaysWhole`, `UndoGivesBack`, `UndoFilesHold`,
  `ListensToWhatChanged`) hold for every tempo of a program whose files give back what they
  were given, and so of this one up to that step. It can matter: a project of one second that
  is selected as a whole and goes from 120 to 61 BPM gets a duration of 1.9672132 s, which
  its file gives back as 1.967213; the selection, kept with all its digits, ends after that,
  and `replace_graph` refuses the commit. This is in the hazard list and, not being in the
  model, without a property.
* In `ToolSession` reads succeed, and so do the writes of a rollback. If the earlier undo
  file cannot be read, the code goes on without it (`.ok()`, `gemini_tools.rs:2055`): should
  a write of the same call then fail as well, there is nothing to undo any more, or, if only
  the request could not be read, undo keeps the region of the moment.
* Operation records are kept for ever; the code drops the oldest of more than 10,000
  (`EDIT_LOG_LIMIT`), so `AtMostOnce` and the finality in `ProjectLedger` hold within
  that window.
* In `EditService` a history refuses pushes by count; the code also refuses by document
  size, which the environment can do there through a failing save and which
  `ProjectHistory` models.
* `ProjectHistory` does not restart in the middle of a save, and its saves fail only for
  size: that is `EditService`'s part.
* A visit can be refused for the records of edits: the graph with its records has a
  limit of its own (`storage.rs:85`) that a push does not look at for the snapshots it
  leaves behind. `EverySnapshotCanBeVisited` names that exception.
* `recovered_operation_json` shows a record that still says running as failed; the
  record itself is what is modelled.
* The saves of `persist_failed_operation` may fail, which leaves a record running:
  `edit_requests` checks `RunningHasWorker` where saves succeed.
* `PlannerLoop` has one edit at a time and Gemini as any answer; what a tool does to the
  graph is `ToolSession`'s part. Sizes of sessions are two units. A pass is assumed to
  take at most `PASS_TIME`.
* In `AudioServing` a stream's chunk is one item of the channel, and the age at which an
  idle user expires is a choice. Parsing of requests, header limits and read deadlines
  are in the step `Receive`, which may refuse.
* In `RenderSchedule` time is counted in whole ticks, tempo is fixed within a song, and a
  block sounds as the voices held in it. Samples, gains, effects and the transforms of
  the spectrum are numbers that no ordering changes.
* Requests answered from state that is only read, logs, times, percentages, texts.
* Not modelled: the browser client (a program of its own, in JavaScript; the server's
  part of its retries and late polls is in `EditService`); the temporary file, quarantine
  and reading of `storage.rs` (a save is one step with three outcomes); JSON parsing and
  printing; the DSP code and the engine,
  which are numerical and share no state; vendored bindings and start-up.

## 6. Plan

Done: the edit service with its jobs, project and restarts; the history tree; the
renderer, and the server's connections, streams and user cache around it; the planning
loop with its gates, and retention; the graph, the tools and the session; the audio answers:
all with the theorems of section 4. What remains, in order:

1. `Float32`, `SoundGraph`: the six decimals of a file, as an operator from project to
   project that `CreateSession`, the tools' writes, `CommitUpdate` and `ManualChange` go
   through; that printing twice is printing once, and with it the theorems about the files
   of a session for every moment.
2. `ProjectFile`: temporary file, rename, sync, quarantine and reopening, refining the
   one-step save of `EditService`.
3. `EditClient`: the browser's submission, polling and recovery over lost and reordered
   answers, composed with an abstraction of `EditService`.
