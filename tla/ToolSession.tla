---------------------------- MODULE ToolSession ----------------------------
(***************************************************************************)
(* A planner session editing a project through its tools                   *)
(* (src/src/gemini_tools.rs, src/src/gemini.rs, src/src/gemini_session.rs) *)
(* and the server that commits what the tools publish (src/src/server.rs). *)
(*                                                                         *)
(* The session works on files of its own: the graph, the request and the   *)
(* metadata that both hold the selected region, the graph and the request  *)
(* that undo brings back, and the handoff through which a changed graph    *)
(* reaches the server.  A tool that changes the graph writes several of    *)
(* them, one after the other, and puts back what it wrote when one write   *)
(* fails.  The server adds an entry to the edit log of what it commits,    *)
(* and gives the result back to the session.  Meanwhile the browser may    *)
(* change the project too; the version tells the server.                   *)
(*                                                                         *)
(* A graph is read from a file as it was written.  A file has six decimals *)
(* of a moment, which is so for every moment from 16 seconds on and for    *)
(* short binary fractions such as the instances have; another moment may   *)
(* come back one step of f32 off.  Reads do not fail, and neither do the   *)
(* writes of a rollback: what a rollback brings back is read beforehand,   *)
(* and the code passes over an undo file that it cannot read then.         *)
(***************************************************************************)
EXTENDS SoundGraph

CONSTANTS
    FirstProjects,      \* projects the server may hold when it starts
    Selections,         \* regions a request may select
    Regions,            \* regions a clip may be given
    Tempos,
    Durations,          \* durations the browser may set
    Moments,            \* where properties listen to the timeline
    CHANGES,            \* bound: mutations that succeed, a new audition slot among them
    SLOT_CHANGES,       \* bound: version of an audition slot
    MANUAL_CHANGES      \* bound: changes from the browser

\* Both have gone through a parser.
ASSUME FirstAssumption ==
    /\ FirstProjects # {} /\ \A p \in FirstProjects : WellFormed(p) /\ Accepted(p)
    /\ \A region \in Selections : Timed(region)

VARIABLES
    server,         \* the project the server holds and has saved
    session,        \* the files of the planner session; none: <<>>
    expected,       \* the version the session's next commit builds upon
    manual,         \* how many changes came from the browser
    changes,        \* how many changes the session made
    outcome,        \* how the last step ended, for the properties
    affected,       \* the tracks the arguments or the result of the pending change name
    restorable,     \* music and selection before the last mutation that undo has not taken back
    known           \* every id the project had in this session, from the moment
                    \* its newest part was an entry of the edit log

vars == <<server, session, expected, manual, changes, outcome, affected, restorable, known>>

None == <<>>
Some(x) == <<x>>
Get(option) == option[1]

files == Get(session)
selection == files.request

\* What an edit is about; the log and the version are the server's.
Music(p) == <<p.bpm, p.duration, p.tracks, p.racks, p.key_zones, p.clips>>

NewestIsAnEdit(p) == \E edit \in p.edits : edit.id = highest_id(p)

Idle == session # None /\ files.progress = None

Init ==
    /\ server \in FirstProjects
    /\ session = None /\ expected = 0
    /\ manual = 0 /\ changes = 0
    /\ outcome = "ok" /\ affected = {} /\ restorable = None /\ known = {}

----------------------------------------------------------------------------
\* EditSession::create_in: the session starts from a copy of the project.  A
\* behaviour has one session; the project it starts from stands for the earlier ones.
CreateSession ==
    /\ session = None /\ expected = 0
    /\ \E region \in Selections :
        /\ validate_edit_for_duration(server, region)
        /\ session' = Some([graph |-> server, request |-> region, metadata |-> region,
                            undo |-> None, undo_request |-> None, progress |-> None,
                            slot |-> None])
    /\ expected' = server.version
    /\ known' = IF NewestIsAnEdit(server) THEN Ids(server) ELSE {}
    /\ outcome' = "ok"
    /\ UNCHANGED <<server, manual, changes, affected, restorable>>

\* A sequence of writes to the files of the session.
Written(before, writes) ==
    FoldLeft(LAMBDA now, write : [now EXCEPT ![write[1]] = write[2]], before, writes)

\* The selected region is in two files.
SelectionWrites(region) == <<<<"request", region>>, <<"metadata", region>>>>

\* A plausible slip: the metadata keeps the old region.
WritesWithoutMetadata(changed, region) ==
    <<<<"undo", Some(files.graph)>>, <<"undo_request", Some(files.request)>>,
      <<"graph", changed>>, <<"request", region>>, <<"progress", Some(changed)>>>>

\* What apply_agent_mutation writes, in its order.
MutationWrites(changed, region) ==
    <<<<"undo", Some(files.graph)>>, <<"undo_request", Some(files.request)>>, <<"graph", changed>>>>
    \o (IF region = selection THEN <<>> ELSE SelectionWrites(region))
    \o <<<<"progress", Some(changed)>>>>

\* Plausible slips: a failed call leaves the graph, or forgets the undo of the call
\* before.
RollbackKeepsGraph(region) == <<<<"undo", files.undo>>, <<"undo_request", files.undo_request>>>>
RollbackForgetsUndo(region) ==
    <<<<"graph", files.graph>>, <<"undo", None>>, <<"undo_request", None>>>>

MutationRollback(region) ==
    <<<<"graph", files.graph>>, <<"undo", files.undo>>, <<"undo_request", files.undo_request>>>>
    \o (IF region = selection THEN <<>>
        ELSE <<<<"request", files.request>>, <<"metadata", files.metadata>>>>)

\* A write fails, or the file format refuses the graph the studio made.
Succeeds(writes) == session' = Some(Written(files, writes))

Fails(writes, place, rollback) ==
    /\ session' = Some(Written(Written(files, SubSeq(writes, 1, place - 1)), rollback))
    /\ UNCHANGED <<changes, affected, restorable>>

WriteFails(writes, rollback) ==
    /\ outcome' = "ok"
    /\ \E place \in DOMAIN writes : Fails(writes, place, rollback)

Refused(changed) == IF StructureAccepted(changed) THEN "unfit" ELSE "refused"

\* A result is the project a tool made and the tracks that are named with it.
apply_agent_mutation(results, region) ==
    /\ Idle /\ changes < CHANGES
    /\ \E result \in results :
        LET changed == result.project
            writes == MutationWrites(changed, region)
            rollback == MutationRollback(region)
        IN \/ /\ Accepted(changed)
              /\ Succeeds(writes)
              /\ changes' = changes + 1
              /\ affected' = result.tracks
              /\ restorable' = Some([music |-> Music(files.graph), selection |-> selection])
              /\ outcome' = "ok"
           \/ /\ ~Accepted(changed)
              /\ Fails(writes, 3, rollback)
              /\ outcome' = Refused(changed)
           \/ WriteFails(writes, rollback)
    /\ UNCHANGED <<server, expected, manual, known>>

graph == files.graph
Result(changed, tracks) == [project |-> changed, tracks |-> tracks]

Apply(results, tracks) ==
    apply_agent_mutation({Result(changed, tracks) : changed \in results}, selection)

NewTracks(changed) == TrackIds(changed) \ TrackIds(graph)
ApplyNew(results) ==
    apply_agent_mutation({Result(changed, NewTracks(changed)) : changed \in results}, selection)

\* The results of one change after another, as the tools that take a list of
\* changes make them: the first that is refused refuses them all.
Then(results, Change(_)) == UNION {Change(p) : p \in results}

----------------------------------------------------------------------------
(***************************************************************************)
(* The tracks that the planner has to listen to after a change: those that *)
(* the arguments or the result of the tool name, or all of them.           *)
(***************************************************************************)
clip_recipient_track_ids(p, id) ==
    {t.id : t \in {x \in p.tracks : PitchesReceived(p, ClipOf(p, id), x) # {}}}

Playing(p, instrument) == {t.id : t \in {x \in p.tracks : x.instrument = instrument}}

\* A plausible slip: the track a zone led to before is forgotten.
NewDestinationOnly(p, zone, instrument) == Playing(p, instrument)

rezoned_tracks(p, zone, instrument) ==
    Playing(p, ZoneOf(p, zone).instrument) \cup Playing(p, instrument)

arrangement_listen_requirement(p, tracks) ==
    IF tracks \cap TrackIds(p) = {} THEN TrackIds(p) ELSE tracks \cap TrackIds(p)

----------------------------------------------------------------------------
(***************************************************************************)
(* The tools.  Those that shape a sound work on the graph of the session   *)
(* or on an audition slot, so they are given for any project.              *)
(***************************************************************************)
Notes == {<<0, 1>>, <<1, 1>>}
Specs(p) == {[rack |-> r, start |-> region.start, end |-> region.end, pattern |-> pattern]
             : r \in RackIds(p), region \in Regions, pattern \in Patterns}

validate_clip_selection(spec) ==
    ~Before(spec.start, selection.start) /\ ~Before(selection.end, spec.end)

AddInstrumentRack == Apply(create_instrument_rack(graph, "named"), {})
UpdateInstrumentRack ==
    \E r \in RackIds(graph) : Apply(update_instrument_rack(graph, r, "named"), {})
DeleteInstrumentRack == \E r \in RackIds(graph) : Apply(delete_instrument_rack(graph, r), {})

NewTrack == ApplyNew(add_described_channel(graph, "named"))
DeleteTrack == \E t \in TrackIds(graph) : Apply(delete_channel(graph, t), {})
SetTrackIdentity == \E t \in TrackIds(graph) : Apply(set_track_identity(graph, t, "named"), {t})
SetTrackMute ==
    \E t \in TrackIds(graph), muted \in BOOLEAN : Apply(set_mix(graph, t, muted), {t})

AddKeyZone == \E r \in RackIds(graph), i \in Instruments(graph), n \in Notes :
    Apply(create_key_zone(graph, r, i, n[1], n[2]), Playing(graph, i))
UpdateKeyZone == \E z \in ZoneIds(graph), i \in Instruments(graph), n \in Notes :
    Apply(update_key_zone(graph, z, i, n[1], n[2]), rezoned_tracks(graph, z, i))
DeleteKeyZone == \E z \in ZoneIds(graph) :
    Apply(delete_key_zone(graph, z), Playing(graph, ZoneOf(graph, z).instrument))

AddMidiClip == \E spec \in Specs(graph) :
    /\ validate_clip_selection(spec)
    /\ apply_agent_mutation(
           {Result(changed, UNION {clip_recipient_track_ids(changed, c) :
                                       c \in ClipIds(changed) \ ClipIds(graph)}) :
                changed \in create_midi_clip(graph, spec)}, selection)
UpdateMidiClip == \E c \in ClipIds(graph), spec \in Specs(graph) :
    apply_agent_mutation(
        {Result(changed, clip_recipient_track_ids(graph, c) \cup clip_recipient_track_ids(changed, c)) :
             changed \in replace_midi_clip(graph, c, spec, selection)}, selection)
DeleteMidiClip == \E c \in ClipIds(graph) :
    Apply(delete_midi_clip(graph, c, selection), clip_recipient_track_ids(graph, c))

set_surge_preset(p, t) == UNION {configure_track_preset(p, t, preset) : preset \in Presets}
add_effect(p, t) == create_effect(p, t)
update_effect(p, t) ==
    UNION {configure_effect(p, t, e, on) : e \in EffectIds(TrackOf(p, t)), on \in BOOLEAN}
delete_effects(p, t) == UNION {delete_effect(p, t, e) : e \in EffectIds(TrackOf(p, t))}
add_modulator(p, t) ==
    UNION {create_modulator(p, t, target, trigger) : target \in Targets,
                                                     trigger \in {"free", "midi"}}
ModulatorIds(p, t) == {m.id : m \in TrackOf(p, t).modulators}
update_modulator(p, t) ==
    UNION {configure_modulator(p, t, m, change[1], change[2]) :
               m \in ModulatorIds(p, t),
               change \in ({"target"} \X Targets) \cup ({"trigger"} \X {"free", "midi"})
                          \cup ({"enabled"} \X BOOLEAN) \cup ({"source"} \X TrackIds(p))}
delete_modulators(p, t) == UNION {delete_modulator(p, t, m) : m \in ModulatorIds(p, t)}
set_instrument_parameter(p, t) == configure_native(p, t)
set_instrument_parameters(p, t) == Then(configure_native(p, t), LAMBDA q : set_surge_preset(q, t))

SetSurgePreset == \E t \in TrackIds(graph) : Apply(set_surge_preset(graph, t), {t})
AddEffect == \E t \in TrackIds(graph) : Apply(add_effect(graph, t), {t})
UpdateEffect == \E t \in TrackIds(graph) : Apply(update_effect(graph, t), {t})
DeleteEffect == \E t \in TrackIds(graph) : Apply(delete_effects(graph, t), {t})
AddModulator == \E t \in TrackIds(graph) : Apply(add_modulator(graph, t), {t})
UpdateModulator == \E t \in TrackIds(graph) : Apply(update_modulator(graph, t), {t})
DeleteModulator == \E t \in TrackIds(graph) : Apply(delete_modulators(graph, t), {t})
SetInstrumentParameter == \E t \in TrackIds(graph) : Apply(set_instrument_parameter(graph, t), {t})
SetInstrumentParameters == \E t \in TrackIds(graph) : Apply(set_instrument_parameters(graph, t), {t})

\* A new tempo takes the selected region with it, and the project's end when
\* the region would reach over it.
SetTempo ==
    \E bpm \in Tempos :
        LET scale == Ratio(graph.bpm, bpm)
            region == [start |-> Times(selection.start, scale), end |-> Times(selection.end, scale)]
            reach(p) == IF Less(p.duration, region.end) THEN set_duration(p, region.end) ELSE {p}
        IN /\ Leq(region.end, MaximumDuration) /\ Less(region.start, region.end)
           /\ apply_agent_mutation({Result(changed, {}) :
                                       changed \in Then(set_tempo(graph, bpm), reach)}, region)

\* undo_agent_mutation
UndoRequest == IF files.undo_request = None THEN selection ELSE Get(files.undo_request)

\* A plausible slip: the region of the mutation stays selected.
UndoKeepsSelection(restored) ==
    <<<<"graph", restored>>, <<"undo", None>>, <<"undo_request", None>>,
      <<"progress", Some(restored)>>>>

UndoWrites(restored) ==
    <<<<"graph", restored>>>> \o SelectionWrites(UndoRequest)
    \o <<<<"undo", None>>, <<"undo_request", None>>, <<"progress", Some(restored)>>>>

\* What is missing is put back; what was not yet removed is still there.
UndoRollback ==
    <<<<"graph", graph>>, <<"request", files.request>>, <<"metadata", files.metadata>>,
      <<"undo", files.undo>>, <<"undo_request", files.undo_request>>>>

Undo ==
    /\ Idle /\ files.undo # None
    /\ LET restored == [Get(files.undo) EXCEPT !.version = graph.version + 1]
           writes == UndoWrites(restored)
       IN \/ /\ Accepted(restored)
             /\ Succeeds(writes)
             /\ outcome' = "ok" /\ affected' = {}
             /\ UNCHANGED <<changes, restorable>>
          \/ /\ ~Accepted(restored)
             /\ Fails(writes, 1, UndoRollback)
             /\ outcome' = Refused(restored)
          \/ WriteFails(writes, UndoRollback)
    /\ UNCHANGED <<server, expected, manual, known>>

----------------------------------------------------------------------------
(***************************************************************************)
(* Audition slots: a project of one sound beside the graph of the session. *)
(***************************************************************************)
slot == Get(files.slot)

KeepSlot(p) ==
    /\ session' = [session EXCEPT ![1].slot = p]
    /\ outcome' = "ok"
    /\ UNCHANGED <<server, expected, manual, affected, restorable, known>>

CreateAuditionSlot ==
    /\ Idle /\ files.slot = None /\ changes < CHANGES
    /\ LET first == [InitialProject EXCEPT !.bpm = graph.bpm]
       IN \E plain \in {first} \cup set_surge_preset(first, 1) :
            \E p \in create_key_zone(plain, 4, 101, 0, 1) : KeepSlot(Some(p))
    /\ changes' = changes + 1

DeleteAuditionSlot == Idle /\ files.slot # None /\ KeepSlot(None) /\ UNCHANGED changes

\* apply_audition_mutation: only what shapes a sound.  The slot keeps what the
\* format refuses to save out, as the session does.
EditAuditionSlot ==
    /\ Idle /\ files.slot # None /\ slot.version < SLOT_CHANGES
    /\ \E results \in {set_surge_preset(slot, 1), add_effect(slot, 1), update_effect(slot, 1),
                       delete_effects(slot, 1), add_modulator(slot, 1), update_modulator(slot, 1),
                       delete_modulators(slot, 1), set_instrument_parameter(slot, 1),
                       set_instrument_parameters(slot, 1)} :
        \E changed \in {p \in results : Accepted(p)} : KeepSlot(Some(changed))
    /\ UNCHANGED changes

CommitAudition ==
    /\ Idle /\ files.slot # None
    /\ \E r \in RackIds(graph), n \in Notes :
        ApplyNew(add_configured_channel(graph, r, TrackOf(slot, 1), "named", n[1], n[2]))

----------------------------------------------------------------------------
(***************************************************************************)
(* The server.                                                             *)
(***************************************************************************)
EndSession(how) ==
    /\ session' = None /\ outcome' = how
    /\ affected' = {} /\ restorable' = None /\ known' = {}

\* The graph that is handed over; taking it removes the handoff.
take_update == Get(files.progress)
Taken == [files EXCEPT !.progress = None]

\* take_update, then commit_gemini_update, then synchronize_project.  A handoff
\* that cannot be read, or a commit that fails, ends the session and leaves the
\* project alone; a failed synchronize_project ends it as well.
CommitUpdate ==
    /\ session # None /\ files.progress # None
    /\ LET candidates == replace_graph(server, take_update, selection)
       IN \/ EndSession("ok") /\ UNCHANGED <<server, expected>>
          \/ /\ server.version = expected /\ candidates = {}
             /\ EndSession("invalid") /\ UNCHANGED <<server, expected>>
          \/ /\ server.version = expected
             /\ \E candidate \in candidates :
                \/ /\ Accepted(candidate)
                   /\ server' = candidate /\ expected' = candidate.version
                   /\ session' = Some([Taken EXCEPT !.graph = candidate])
                   /\ known' = known \cup Ids(candidate)
                   /\ outcome' = IF files.undo = None THEN "took_back" ELSE "committed"
                   /\ restorable' = IF files.undo = None THEN None ELSE restorable
                   /\ affected' = {}
                \/ /\ Accepted(candidate)
                   /\ server' = candidate
                   /\ EndSession("ok") /\ UNCHANGED expected
                \/ /\ ~Accepted(candidate)
                   /\ EndSession(IF files.undo = None THEN "undo_refused" ELSE "save_refused")
                   /\ UNCHANGED <<server, expected>>
    /\ UNCHANGED <<manual, changes>>

\* The planner is done, or gives up, or is told to stop.
FinishSession ==
    /\ Idle
    /\ EndSession("ok")
    /\ UNCHANGED <<server, expected, manual, changes>>

\* A change from the browser.
ManualChange ==
    /\ manual < MANUAL_CHANGES /\ manual' = manual + 1
    /\ server' \in (UNION {set_duration(server, d) : d \in Durations})
                   \cup (UNION {set_mix(server, t, TRUE) : t \in TrackIds(server)})
                   \cup reset(server)
    /\ Accepted(server')
    /\ outcome' = "ok"
    /\ UNCHANGED <<session, expected, changes, affected, restorable, known>>

----------------------------------------------------------------------------
ArrangementTool ==
    /\ Idle
    /\ \/ AddInstrumentRack \/ UpdateInstrumentRack \/ DeleteInstrumentRack
       \/ NewTrack \/ DeleteTrack \/ SetTrackIdentity \/ SetTrackMute
       \/ AddKeyZone \/ UpdateKeyZone \/ DeleteKeyZone
       \/ AddMidiClip \/ UpdateMidiClip \/ DeleteMidiClip
       \/ SetTempo

SoundTool ==
    /\ Idle
    /\ \/ SetSurgePreset \/ AddEffect \/ UpdateEffect \/ DeleteEffect
       \/ AddModulator \/ UpdateModulator \/ DeleteModulator
       \/ SetInstrumentParameter \/ SetInstrumentParameters

AuditionTool ==
    CreateAuditionSlot \/ EditAuditionSlot \/ CommitAudition \/ DeleteAuditionSlot

Next ==
    \/ CreateSession \/ FinishSession
    \/ ArrangementTool \/ SoundTool \/ AuditionTool \/ Undo
    \/ CommitUpdate \/ ManualChange

Spec == Init /\ [][Next]_vars

----------------------------------------------------------------------------
\* What a tool makes of a graph that was accepted, the project file accepts too,
\* unless a modulator of the sound lost the parameter it moves, or the sound has
\* more tools than a file may hold, neither of which the studio looks at.
\* Otherwise a call that the studio granted would fail in the save and no
\* argument the planner could choose would make it pass.
StudioKeepsToTheFormat == outcome # "refused"

\* What a tool published, the server can save: replacing the graph keeps an edit
\* log of its own, rescaled to the new tempo, and the two must fit together.
ServerTakesEveryMutation == outcome \notin {"save_refused", "invalid"}

\* So must what undo brought back, whatever the log has become since.
ServerTakesEveryUndo == outcome # "undo_refused"

\* Between two calls the session's graph is the server's project, edit log and
\* version included, as long as nobody else changed the project: also after a
\* call that failed half way.
SessionMirrorsProject == Idle /\ server.version = expected => graph = server

\* A call changes the files of the session as a whole: what hands a graph over has
\* written that graph, and any other call, one that failed half way among them,
\* leaves all of them as they were but for the audition slot.
CallsAreWhole ==
    [][Idle /\ session' # None =>
           \/ files' = [files EXCEPT !.slot = files'.slot]
           \/ files'.progress = Some(files'.graph)]_vars

\* The undo files hold the music and the selection before the last mutation that
\* was not taken back; a call that fails leaves the earlier ones in place.
UndoHoldsTheLastMutation ==
    Idle => IF files.undo = None THEN restorable = None
            ELSE restorable = Some([music |-> Music(Get(files.undo)), selection |-> UndoRequest])

\* A committed undo gives the project the music it had before that mutation, and
\* the session the region it had selected then.
UndoRestores ==
    [][outcome' = "took_back" /\ session' # session =>
           [music |-> Music(server'), selection |-> selection'] = Get(restorable)]_vars

\* The two files that hold the selection agree at every moment between calls, and
\* the region lies inside the project, whatever happened to tempo and duration.
SelectionFilesAgree ==
    session # None => files.request = files.metadata /\ Within(graph, selection)

\* An id stands for one thing: what a commit adds has ids that no part of the
\* project, present or deleted, had before.  Ids are given from the highest one
\* on, so this takes an entry of the edit log that is newer than any part.
IdsAreFresh ==
    [][outcome' = "committed" /\ session' # session =>
           (Ids(server') \ Ids(server)) \cap known = {}]_vars

Heard(p, moment) ==
    {<<c.rack, c.pattern, c.source_start>> :
        c \in {x \in p.clips : Leq(x.start, moment) /\ Less(moment, x.end)}}

\* A clip tool is heard in the selected region and nowhere else: what it keeps of
\* a clip on either side plays on as it did, in the same phase of its loop.
OutsideSelectionUntouched ==
    [][session # None /\ session' # None /\ graph.clips # graph'.clips
         /\ graph'.bpm = graph.bpm /\ files'.undo = Some(graph) =>
           \A moment \in Moments :
               Less(moment, selection.start) \/ Leq(selection.end, moment)
                   => Heard(graph', moment) = Heard(graph, moment)]_vars

\* What a track plays: its sound, and the notes that the racks lead to it.
Played(p, track) ==
    [sound |-> [track EXCEPT !.name = "any"],
     notes |-> UNION {{<<c.start, c.end, c.source_start, c.pattern, pitch>> :
                           pitch \in PitchesReceived(p, c, track)} : c \in p.clips}]

\* The listen that the planner must make before it may finish covers every track
\* that the change made sound different, the one a note was led away from included.
ListenCoversWhatChanged ==
    [][outcome' \in {"committed", "took_back"} /\ session' # session =>
           \A t \in TrackIds(server') \cap TrackIds(server) :
               Played(server', TrackOf(server', t)) # Played(server, TrackOf(server, t))
                   => t \in arrangement_listen_requirement(server', affected)]_vars
=============================================================================
