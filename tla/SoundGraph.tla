----------------------------- MODULE SoundGraph -----------------------------
(***************************************************************************)
(* The sound graph of a project (src/src/model.rs), the mutations the      *)
(* studio offers on it, and what the project file format accepts           *)
(* (src/src/project_file.rs).                                              *)
(*                                                                         *)
(* Every identified thing of a project takes its id from one sequence.     *)
(* Names, volumes, colours and notes are tokens; times are f32 numbers,    *)
(* because the tempo rescales them and rounding shows.  What a preset of   *)
(* the engine brings (its built-in effects, the parameters a modulator may *)
(* reach) is a constant.                                                   *)
(*                                                                         *)
(* A mutation is given by the set of projects it can produce: one project, *)
(* or none when the studio refuses the call and keeps what it had.         *)
(***************************************************************************)
EXTENDS Float32, Sequences, FiniteSets, FiniteSetsExt, SequencesExt

CONSTANTS
    Presets,            \* the installed presets; "Init" has no effects
    PresetSlots,        \* the effect slots a preset comes with
    Targets,            \* native parameters
    Modulatable,        \* <<preset, tuned, trigger, target>> within reach
    NoteCount,          \* how many notes each MIDI pattern has
    Pitches,            \* and which pitches
    TRACK_LIMIT, RACK_LIMIT, KEY_ZONE_LIMIT, CLIP_LIMIT, EDIT_LOG_LIMIT,
    SERIAL_EFFECT_SLOT_COUNT,
    MAX_TOOLS_PER_TRACK,
    MODULATOR_SLOTS     \* of each trigger; six in the engine

ASSUME EngineAssumption ==
    /\ "Init" \in Presets
    /\ PresetSlots \in [Presets -> SUBSET (Nat \ {0})]
    /\ PresetSlots["Init"] = {}
    /\ Modulatable \subseteq Presets \X BOOLEAN \X {"free", "midi"} \X Targets
    /\ \A preset \in Presets : IsFiniteSet(PresetSlots[preset])
    /\ \A pattern \in DOMAIN NoteCount : NoteCount[pattern] \in Nat

ASSUME LimitAssumption ==
    /\ {TRACK_LIMIT, RACK_LIMIT, KEY_ZONE_LIMIT, CLIP_LIMIT, EDIT_LOG_LIMIT,
        SERIAL_EFFECT_SLOT_COUNT, MAX_TOOLS_PER_TRACK, MODULATOR_SLOTS} \subseteq Nat \ {0}
    /\ SERIAL_EFFECT_SLOT_COUNT <= MAX_TOOLS_PER_TRACK

Patterns == DOMAIN NoteCount

Added == 0          \* the slot of an effect that no preset brought
NoSource == 0

MinimumDuration == FromInteger(1)
MaximumDuration == FromInteger(300)

----------------------------------------------------------------------------
EffectIds(track) == {effect.id : effect \in track.effects}

Sum(S, Size(_)) == MapThenSumSet(Size, S)

Ids(p) ==
    {track.id : track \in p.tracks} \cup {track.instrument : track \in p.tracks}
    \cup (UNION {EffectIds(track) : track \in p.tracks})
    \cup (UNION {{modulator.id : modulator \in track.modulators} : track \in p.tracks})
    \cup {rack.id : rack \in p.racks} \cup {zone.id : zone \in p.key_zones}
    \cup {clip.id : clip \in p.clips} \cup (UNION {clip.events : clip \in p.clips})
    \cup {edit.id : edit \in p.edits}

\* How many ids the project's parts carry; more than there are ids if one is
\* given twice.
Named(p) ==
    Sum(p.tracks, LAMBDA track : 2 + Cardinality(track.effects) + Cardinality(track.modulators))
    + Cardinality(p.racks) + Cardinality(p.key_zones) + Cardinality(p.edits)
    + Sum(p.clips, LAMBDA clip : 1 + Cardinality(clip.events))

highest_id(p) == Max(Ids(p))
NextId(p) == highest_id(p) + 1

RackIds(p) == {rack.id : rack \in p.racks}
Instruments(p) == {track.instrument : track \in p.tracks}
TrackOf(p, id) == CHOOSE track \in p.tracks : track.id = id
TrackIds(p) == {track.id : track \in p.tracks}
ClipOf(p, id) == CHOOSE clip \in p.clips : clip.id = id
ClipIds(p) == {clip.id : clip \in p.clips}
ZoneOf(p, id) == CHOOSE zone \in p.key_zones : zone.id = id
ZoneIds(p) == {zone.id : zone \in p.key_zones}

\* Whom the notes of a clip reach through its rack.
track_receives_pitch(p, rack, track, pitch) ==
    \E zone \in p.key_zones :
        zone.rack = rack /\ zone.instrument = track.instrument /\ pitch \in zone.low..zone.high

PitchesReceived(p, clip, track) ==
    {pitch \in Pitches[clip.pattern] : track_receives_pitch(p, clip.rack, track, pitch)}

empty_track(id, instrument) ==
    [id |-> id, instrument |-> instrument, name |-> "new", muted |-> FALSE,
     preset |-> "Init", tuned |-> FALSE,
     effects |-> {}, effect_order |-> <<>>, modulators |-> {}]

InitialProject ==
    [bpm |-> 120, duration |-> FromInteger(32), version |-> 1,
     tracks |-> {empty_track(1, 101)}, racks |-> {[id |-> 4, name |-> "new"]},
     key_zones |-> {}, clips |-> {}, edits |-> {}]

----------------------------------------------------------------------------
(***************************************************************************)
(* The shape of a project: what the structures of model.rs hold, whatever  *)
(* is in them, and where the ids of their parts are.                       *)
(***************************************************************************)
Parts == {"bpm", "duration", "version", "tracks", "racks", "key_zones", "clips", "edits"}
TrackParts == {"id", "instrument", "name", "muted", "preset", "tuned", "effects", "effect_order",
               "modulators"}
EffectParts == {"id", "slot", "enabled"}
ModulatorParts == {"id", "trigger", "target", "enabled", "source"}
RackParts == {"id", "name"}
ZoneParts == {"id", "rack", "instrument", "low", "high"}
ClipParts == {"id", "rack", "start", "end", "source_start", "pattern", "events"}
EditParts == {"id", "start", "end"}

Has(record, fields) == record = [field \in fields |-> record[field]]

IsProject(p) == Has(p, Parts)

EffectIn(e, I) == Has(e, EffectParts) /\ e.id \in I
ModulatorIn(m, I) == Has(m, ModulatorParts) /\ m.id \in I
TrackIn(t, I) ==
    /\ Has(t, TrackParts) /\ t.id \in I /\ t.instrument \in I
    /\ IsFiniteSet(t.effects) /\ IsFiniteSet(t.modulators)
    /\ \A e \in t.effects : EffectIn(e, I)
    /\ \A m \in t.modulators : ModulatorIn(m, I)
RackIn(r, I) == Has(r, RackParts) /\ r.id \in I
ZoneIn(z, I) == Has(z, ZoneParts) /\ z.id \in I
ClipIn(c, I) == Has(c, ClipParts) /\ c.id \in I /\ c.events \subseteq I /\ c.pattern \in Patterns
EditIn(e, I) == Has(e, EditParts) /\ e.id \in I

TracksIn(tracks, I) ==
    /\ \A t \in tracks : TrackIn(t, I)
    /\ \A t, u \in tracks : t.id = u.id => t = u

PartsIn(p, I) ==
    /\ TracksIn(p.tracks, I)
    /\ \A r \in p.racks : RackIn(r, I)
    /\ \A z \in p.key_zones : ZoneIn(z, I)
    /\ \A c \in p.clips : ClipIn(c, I)
    /\ \A e \in p.edits : EditIn(e, I)

\* No two clips and no two zones share an id; PartsIn says so of tracks.
Apart(p) ==
    /\ \A c, d \in p.clips : c.id = d.id => c = d
    /\ \A y, z \in p.key_zones : y.id = z.id => y = z

WellFormed(p) ==
    /\ Apart(p)
    /\ IsProject(p) /\ p.version \in Nat /\ p.bpm \in Nat
    /\ highest_id(p) \in Nat /\ PartsIn(p, 0..highest_id(p))

\* A part of the timeline whose ends are numbers.
Timed(part) == part.start.man \in Int /\ part.end.man \in Int

----------------------------------------------------------------------------
(***************************************************************************)
(* What the project file accepts: parse_project and the parsers it calls.  *)
(***************************************************************************)
UniqueIds(p) == 0 \notin Ids(p) /\ Cardinality(Ids(p)) = Named(p)

EnabledEffects(track) == {effect \in track.effects : effect.enabled}

track_effects_fit(track) ==
    Cardinality(EnabledEffects(track)) <= SERIAL_EFFECT_SLOT_COUNT

native_modulator_slots_fit(modulators) ==
    \A trigger \in {"free", "midi"} :
        Cardinality({m \in modulators : m.enabled /\ m.trigger = trigger}) <= MODULATOR_SLOTS

valid_modulator_target(track, target, trigger) ==
    <<track.preset, track.tuned, trigger, target>> \in Modulatable

valid_modulator_configuration(track, modulator) ==
    modulator.trigger = "midi" => modulator.source = track.id

EffectOrderAccepted(track) ==
    /\ Len(track.effect_order) = Cardinality(track.effects)
    /\ {track.effect_order[i] : i \in DOMAIN track.effect_order} = EffectIds(track)

SlotsAccepted(track) ==
    LET preset == {effect \in track.effects : effect.slot # Added}
    IN Cardinality({effect.slot : effect \in preset}) = Cardinality(preset)

TrackAccepted(track) ==
    /\ track.preset \in Presets
    /\ SlotsAccepted(track)
    /\ native_modulator_slots_fit(track.modulators)
    /\ EffectOrderAccepted(track)
    /\ track_effects_fit(track)

ToolCountsAccepted(p) ==
    \A track \in p.tracks :
        /\ Cardinality(track.effects) <= MAX_TOOLS_PER_TRACK
        /\ Cardinality(track.modulators) <= MAX_TOOLS_PER_TRACK

ModulatorsAccepted(track) ==
    \A modulator \in track.modulators :
        /\ valid_modulator_configuration(track, modulator)
        /\ valid_modulator_target(track, modulator.target, modulator.trigger)

ZoneAccepted(p, zone) == zone.low <= zone.high /\ zone.instrument \in Instruments(p)

Within(p, part) == Less(part.start, part.end) /\ Leq(part.end, p.duration)

ClipAccepted(p, clip) ==
    clip.rack \in RackIds(p) /\ Within(p, clip) /\ Leq(clip.source_start, clip.start)

StructureAccepted(p) ==
    /\ Leq(MinimumDuration, p.duration) /\ Leq(p.duration, MaximumDuration)
    /\ p.tracks # {} /\ Cardinality(p.tracks) <= TRACK_LIMIT
    /\ \A track \in p.tracks : TrackAccepted(track)
    /\ UniqueIds(p)
    /\ Cardinality(p.racks) <= RACK_LIMIT
    /\ Cardinality(p.key_zones) <= KEY_ZONE_LIMIT
    /\ \A zone \in p.key_zones : ZoneAccepted(p, zone)
    /\ Cardinality(p.clips) <= CLIP_LIMIT
    /\ \A clip \in p.clips : ClipAccepted(p, clip)
    /\ Cardinality(p.edits) <= EDIT_LOG_LIMIT
    /\ \A edit \in p.edits : Within(p, edit)

TargetsAccepted(p) == \A track \in p.tracks : ModulatorsAccepted(track)

Accepted(p) == StructureAccepted(p) /\ ToolCountsAccepted(p) /\ TargetsAccepted(p)

----------------------------------------------------------------------------
(***************************************************************************)
(* The mutations of the studio: each is the set of projects it can give,   *)
(* empty when the studio refuses.                                          *)
(***************************************************************************)
Given(ok, p) == IF ok THEN {[p EXCEPT !.version = @ + 1]} ELSE {}

WithTrack(p, id, changed) == [p EXCEPT !.tracks = {t \in @ : t.id # id} \cup {changed}]
OnTrack(p, id, Change(_)) ==
    [p EXCEPT !.tracks = {IF t.id = id THEN Change(t) ELSE t : t \in @}]

\* A plausible slip: what should be dropped is kept, and the rest dropped.
CompactDropsTheRest(p) ==
    [p EXCEPT !.edits =
        {edit \in @ : Cardinality({later \in @ : later.id > edit.id}) >= EDIT_LOG_LIMIT}]

compact_edit_log(p) ==
    [p EXCEPT !.edits =
        {edit \in @ : Cardinality({later \in @ : later.id > edit.id}) < EDIT_LOG_LIMIT}]

\* A part of the timeline that begins after the new end is dropped, one that
\* reaches over it is cut.
CutAt(parts, duration) ==
    {[part EXCEPT !.end = Smaller(@, duration)] : part \in {x \in parts : Less(x.start, duration)}}

set_duration(p, duration) ==
    Given(Leq(MinimumDuration, duration) /\ Leq(duration, MaximumDuration),
          [p EXCEPT !.duration = duration, !.clips = CutAt(@, duration),
                    !.edits = CutAt(@, duration)])

set_mix(p, id, muted) ==
    Given(id \in TrackIds(p), OnTrack(p, id, LAMBDA t : [t EXCEPT !.muted = muted]))

set_track_identity(p, id, name) ==
    Given(id \in TrackIds(p), OnTrack(p, id, LAMBDA t : [t EXCEPT !.name = name]))

add_described_channel(p, name) ==
    Given(Cardinality(p.tracks) < TRACK_LIMIT,
          [p EXCEPT !.tracks =
              @ \cup {[empty_track(NextId(p), NextId(p) + 1) EXCEPT !.name = name]}])

\* The ids of n things numbered in order, from the first one on.
Numbered(things, first) ==
    [thing \in things |-> first + Cardinality({other \in things : other < thing})]

\* The instrument of an audition slot becomes a track: everything in it gets an
\* id of this project, and what refers to it follows.
add_configured_channel(p, rack, source, name, low, high) ==
    LET id == NextId(p)
        effect == Numbered(EffectIds(source), id + 2)
        modulator == Numbered({m.id : m \in source.modulators},
                              id + 2 + Cardinality(source.effects))
        track == [source EXCEPT
            !.id = id, !.instrument = id + 1, !.name = name,
            !.effects = {[e EXCEPT !.id = effect[@]] : e \in source.effects},
            !.effect_order = [i \in DOMAIN @ |-> effect[@[i]]],
            !.modulators = {[m EXCEPT !.id = modulator[@],
                                      !.source = IF m.trigger = "free" THEN @ ELSE id]
                            : m \in source.modulators}]
        zone == id + 2 + Cardinality(source.effects) + Cardinality(source.modulators)
    IN Given(/\ rack \in RackIds(p) /\ low <= high
             /\ Cardinality(p.tracks) < TRACK_LIMIT
             /\ Cardinality(p.key_zones) < KEY_ZONE_LIMIT,
             [p EXCEPT !.tracks = @ \cup {track},
                       !.key_zones = @ \cup {[id |-> zone, rack |-> rack, instrument |-> id + 1,
                                              low |-> low, high |-> high]}])

delete_channel(p, id) ==
    Given(id \in TrackIds(p) /\ Cardinality(p.tracks) > 1,
          [p EXCEPT
              !.tracks = {[t EXCEPT !.modulators = {m \in @ : m.source # id}]
                          : t \in {x \in @ : x.id # id}},
              !.key_zones = {zone \in @ : zone.instrument # TrackOf(p, id).instrument}])

create_instrument_rack(p, name) ==
    Given(Cardinality(p.racks) < RACK_LIMIT,
          [p EXCEPT !.racks = @ \cup {[id |-> NextId(p), name |-> name]}])

update_instrument_rack(p, id, name) ==
    Given(id \in RackIds(p),
          [p EXCEPT !.racks = {IF r.id = id THEN [r EXCEPT !.name = name] ELSE r : r \in @}])

delete_instrument_rack(p, id) ==
    Given(id \in RackIds(p) /\ \A clip \in p.clips : clip.rack # id,
          [p EXCEPT !.racks = {r \in @ : r.id # id},
                    !.key_zones = {zone \in @ : zone.rack # id}])

create_key_zone(p, rack, instrument, low, high) ==
    Given(/\ rack \in RackIds(p) /\ instrument \in Instruments(p) /\ low <= high
          /\ Cardinality(p.key_zones) < KEY_ZONE_LIMIT,
          [p EXCEPT !.key_zones =
              @ \cup {[id |-> NextId(p), rack |-> rack, instrument |-> instrument,
                       low |-> low, high |-> high]}])

update_key_zone(p, id, instrument, low, high) ==
    Given(id \in ZoneIds(p) /\ instrument \in Instruments(p) /\ low <= high,
          [p EXCEPT !.key_zones =
              {IF z.id = id THEN [z EXCEPT !.instrument = instrument, !.low = low, !.high = high]
               ELSE z : z \in @}])

delete_key_zone(p, id) ==
    Given(id \in ZoneIds(p), [p EXCEPT !.key_zones = {z \in @ : z.id # id}])

\* The timeline takes moments that are not further apart for the same one.  An
\* end is compared with what this makes of the other moment; a clip that starts
\* too late, with what is left of the region's end.
TIMELINE_EPSILON_SECONDS == [man |-> 10995116, exp |-> -40]     \* 0.00001
Later(x) == Plus(Larger(x, TIMELINE_EPSILON_SECONDS), Smaller(x, TIMELINE_EPSILON_SECONDS))
Before(x, y) == Less(Later(x), y)
Earlier(x) == Minus(x, TIMELINE_EPSILON_SECONDS)

Overlaps(clip, region) ==
    Before(region.start, clip.end) /\ Less(clip.start, Earlier(region.end))

EventIds(first, pattern) == first..(first + NoteCount[pattern] - 1)

NewClip(id, first_event, spec) ==
    [id |-> id, rack |-> spec.rack, start |-> spec.start, end |-> spec.end,
     source_start |-> spec.start, pattern |-> spec.pattern,
     events |-> EventIds(first_event, spec.pattern)]

rekey_clip(clip, id) ==
    [clip EXCEPT !.id = id, !.events = EventIds(id + 1, clip.pattern)]

SpecAccepted(p, spec) == spec.rack \in RackIds(p) /\ Within(p, spec)

create_midi_clip(p, spec) ==
    Given(SpecAccepted(p, spec) /\ Cardinality(p.clips) < CLIP_LIMIT,
          [p EXCEPT !.clips = @ \cup {NewClip(NextId(p), NextId(p) + 1, spec)}])

\* What is left of a clip on both sides of a region.
Left(clip, region) ==
    IF Before(clip.start, region.start) THEN {[clip EXCEPT !.end = region.start]} ELSE {}
\* A plausible slip: what is left starts its loop again.
RightRestarts(clip, region) ==
    IF Before(region.end, clip.end)
    THEN {[clip EXCEPT !.start = region.end, !.source_start = region.end]} ELSE {}

Right(clip, region) ==
    IF Before(region.end, clip.end) THEN {[clip EXCEPT !.start = region.end]} ELSE {}

\* A plausible slip: both sides of a deleted region keep the id of the clip.
DeleteKeepsId(p, id, selection) ==
    IF id \notin ClipIds(p) THEN {}
    ELSE LET clip == ClipOf(p, id)
         IN Given(Overlaps(clip, selection),
                  [p EXCEPT !.clips = (@ \ {clip}) \cup Left(clip, selection)
                                                   \cup Right(clip, selection)])

\* The part on the right is a clip of its own only if the left one keeps the id.
delete_midi_clip(p, id, selection) ==
    IF id \notin ClipIds(p) THEN {}
    ELSE LET clip == ClipOf(p, id)
             left == Left(clip, selection)
             right == IF left = {} THEN Right(clip, selection)
                      ELSE {rekey_clip(c, NextId(p)) : c \in Right(clip, selection)}
         IN Given(/\ Overlaps(clip, selection)
                  /\ Cardinality(p.clips) - 1 + Cardinality(left \cup right) <= CLIP_LIMIT,
                  [p EXCEPT !.clips = (@ \ {clip}) \cup left \cup right])

\* The replacement keeps the clip's id; its notes, and then what is left of the
\* old clip, take new ones.
replace_midi_clip(p, id, spec, selection) ==
    IF id \notin ClipIds(p) THEN {}
    ELSE LET clip == ClipOf(p, id)
             events == NextId(p)
             first == events + NoteCount[spec.pattern]
             left == {rekey_clip(c, first) : c \in Left(clip, spec)}
             second == first + IF left = {} THEN 0 ELSE 1 + NoteCount[clip.pattern]
             right == {rekey_clip(c, second) : c \in Right(clip, spec)}
         IN Given(/\ SpecAccepted(p, spec)
                  /\ ~Before(spec.start, selection.start) /\ ~Before(selection.end, spec.end)
                  /\ Overlaps(clip, selection) /\ Overlaps(clip, spec)
                  /\ Cardinality(p.clips) + Cardinality(left \cup right) <= CLIP_LIMIT,
                  [p EXCEPT !.clips =
                      (@ \ {clip}) \cup {NewClip(id, events, spec)} \cup left \cup right])

create_effect(p, track) ==
    Given(/\ track \in TrackIds(p)
          /\ Cardinality(EnabledEffects(TrackOf(p, track))) < SERIAL_EFFECT_SLOT_COUNT,
          OnTrack(p, track, LAMBDA t :
              [t EXCEPT !.effects = @ \cup {[id |-> NextId(p), slot |-> Added, enabled |-> TRUE]},
                        !.effect_order = Append(@, NextId(p))]))

delete_effect(p, track, id) ==
    Given(track \in TrackIds(p) /\ id \in EffectIds(TrackOf(p, track)),
          OnTrack(p, track, LAMBDA t :
              [t EXCEPT !.effects = {e \in @ : e.id # id},
                        !.effect_order = SelectSeq(@, LAMBDA e : e # id)]))

create_modulator(p, track, target, trigger) ==
    IF track \notin TrackIds(p) THEN {}
    ELSE LET owner == TrackOf(p, track)
             modulators == owner.modulators \cup
                 {[id |-> NextId(p), trigger |-> trigger, target |-> target, enabled |-> TRUE,
                   source |-> IF trigger = "midi" THEN track ELSE NoSource]}
         IN Given(/\ valid_modulator_target(owner, target, trigger)
                  /\ native_modulator_slots_fit(modulators),
                  OnTrack(p, track, LAMBDA t : [t EXCEPT !.modulators = modulators]))

delete_modulator(p, track, id) ==
    Given(/\ track \in TrackIds(p)
          /\ \E m \in TrackOf(p, track).modulators : m.id = id,
          OnTrack(p, track, LAMBDA t : [t EXCEPT !.modulators = {m \in @ : m.id # id}]))

Rescaled(parts, scale) ==
    {[part EXCEPT !.start = Times(@, scale), !.end = Times(@, scale)] : part \in parts}

LatestEnd(parts) ==
    FoldSet(LAMBDA part, latest : Larger(part.end, latest), Zero, parts)

set_tempo(p, bpm) ==
    LET scale == Ratio(p.bpm, bpm)
        required == Times(LatestEnd(p.clips \cup p.edits), scale)
    IN Given(bpm \in 60..180 /\ Leq(required, MaximumDuration),
             [p EXCEPT !.bpm = bpm, !.duration = Larger(@, required),
                       !.edits = Rescaled(@, scale),
                       !.clips = {[clip EXCEPT !.source_start = Times(@, scale)]
                                  : clip \in Rescaled(@, scale)}])

----------------------------------------------------------------------------
\* configure_sound_tool, by the kind of the tool.  Whatever it changed, the
\* modulators of every track must still be configured well and fit the engine.
Configured(ok, p, changed) ==
    Given(/\ ok
          /\ \A t \in changed.tracks :
                /\ native_modulator_slots_fit(t.modulators)
                /\ \A m \in t.modulators : valid_modulator_configuration(t, m),
          changed)

\* The effects of a preset: a slot that the preset before had too keeps the id.
preset_effects(track, preset, next) ==
    LET kept == {e.slot : e \in track.effects} \ {Added}
        fresh == Numbered(PresetSlots[preset] \ kept, next)
        IdOf(slot) == IF slot \in kept THEN (CHOOSE e \in track.effects : e.slot = slot).id
                      ELSE fresh[slot]
    IN {[id |-> IdOf(slot), slot |-> slot, enabled |-> TRUE] : slot \in PresetSlots[preset]}

configure_track_preset(p, track, preset) ==
    IF track \notin TrackIds(p) \/ preset \notin Presets THEN {}
    ELSE LET owner == TrackOf(p, track)
             brought == preset_effects(owner, preset, NextId(p))
             added == {e \in owner.effects : e.slot = Added}
             order == SetToSortSeq(brought, LAMBDA e, f : e.slot < f.slot)
             plain == [owner EXCEPT
                 !.preset = preset, !.tuned = FALSE, !.effects = brought \cup added,
                 !.effect_order = [i \in DOMAIN order |-> order[i].id]
                     \o SelectSeq(@, LAMBDA id : \E e \in added : e.id = id)]
             loaded == [plain EXCEPT !.modulators =
                 {m \in @ : valid_modulator_target(plain, m.target, m.trigger)}]
         IN Configured(track_effects_fit(loaded), p, WithTrack(p, track, loaded))

\* A native parameter away from the preset's value.
configure_native(p, track) ==
    Configured(track \in TrackIds(p), p,
               OnTrack(p, track, LAMBDA t : [t EXCEPT !.tuned = TRUE]))

configure_effect(p, track, id, enabled) ==
    LET changed == OnTrack(p, track, LAMBDA t :
            [t EXCEPT !.effects = {IF e.id = id THEN [e EXCEPT !.enabled = enabled] ELSE e
                                   : e \in @}])
    IN Configured(/\ track \in TrackIds(p) /\ id \in EffectIds(TrackOf(p, track))
                  /\ track_effects_fit(TrackOf(changed, track)), p, changed)

Retriggered(modulator, track, trigger) ==
    [modulator EXCEPT !.trigger = trigger,
        !.source = IF trigger = "free" THEN NoSource ELSE IF @ = NoSource THEN track ELSE @]

\* One parameter of a modulator: its target, its trigger, whether it is on, or the
\* track whose notes trigger it.  A file does not keep the last for one that runs free.
configure_modulator(p, track, id, parameter, value) ==
    IF ~\E t \in p.tracks : t.id = track /\ \E m \in t.modulators : m.id = id THEN {}
    ELSE LET owner == TrackOf(p, track)
             current == CHOOSE m \in owner.modulators : m.id = id
             changed == CASE parameter = "target" -> [current EXCEPT !.target = value]
                          [] parameter = "trigger" -> Retriggered(current, track, value)
                          [] parameter = "enabled" -> [current EXCEPT !.enabled = value]
                          [] parameter = "source" ->
                                 IF current.trigger = "free" THEN current
                                 ELSE [current EXCEPT !.source = value]
         IN Configured(parameter \in {"target", "trigger"}
                           => valid_modulator_target(owner, changed.target, changed.trigger), p,
                       OnTrack(p, track, LAMBDA t :
                           [t EXCEPT !.modulators = (@ \ {current}) \cup {changed}]))

----------------------------------------------------------------------------
validate_edit_for_duration(p, selection) == Within(p, selection)

\* A plausible slip: the log grows past its limit.
ReplaceWithoutCompaction(p, graph, selection) ==
    LET log == IF graph.bpm = p.bpm THEN p.edits ELSE Rescaled(p.edits, Ratio(p.bpm, graph.bpm))
        taken == [graph EXCEPT !.edits = log, !.version = p.version]
        edit == [id |-> NextId(taken), start |-> selection.start, end |-> selection.end]
    IN Given(validate_edit_for_duration(graph, selection), [taken EXCEPT !.edits = @ \cup {edit}])

\* The graph of a planner session takes the place of the project's; the edit
\* log stays the project's own, rescaled to the new tempo, and grows by one.
replace_graph(p, graph, selection) ==
    LET scale == Ratio(p.bpm, graph.bpm)
        log == IF graph.bpm = p.bpm THEN p.edits ELSE Rescaled(p.edits, scale)
        taken == [graph EXCEPT !.edits = log, !.version = p.version]
        edit == [id |-> NextId(taken), start |-> selection.start, end |-> selection.end]
    IN Given(validate_edit_for_duration(graph, selection),
             compact_edit_log([taken EXCEPT !.edits = @ \cup {edit}]))

reset(p) == Given(TRUE, [InitialProject EXCEPT !.version = p.version])
=============================================================================
