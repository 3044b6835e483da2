---------------------------- MODULE RenderSchedule ----------------------------
(***************************************************************************)
(* From clips to the notes that the synthesizer plays                      *)
(* (src/src/audio_analysis.rs).  A region of a song is rendered by itself, *)
(* by a fresh engine for each track, from some way before its start (the   *)
(* preroll) to its end, and the preroll is cut away.  The engine takes     *)
(* notes only between blocks of samples.                                   *)
(*                                                                         *)
(* Time is counted in ticks, TICKS of them to a sample; the beats of a     *)
(* clip are ticks too, the tempo being the same throughout a song.  What   *)
(* the engine makes of its notes is not modelled: a block sounds as the    *)
(* voices do that are held during it, each since the block it began in.    *)
(***************************************************************************)
EXTENDS Integers, Sequences, FiniteSets, FiniteSetsExt, SequencesExt

CONSTANTS
    SAMPLE_RATE, BLOCK_SIZE,    \* in samples
    TICKS,
    EPSILON,                    \* 0.000_001 seconds
    SHORTEST_GATE,              \* 0.01 seconds
    VOICE_TAIL,                 \* 8 seconds
    DSP_SETTLING                \* 16 seconds

\* 32 samples divide a second, a note lasts longer than a block, the epsilon is a
\* small part of a sample, and what is added to the preroll is much longer than the
\* shortest note or a block.
ASSUME RenderAssumption ==
    /\ {SAMPLE_RATE, BLOCK_SIZE, TICKS, SHORTEST_GATE, VOICE_TAIL, DSP_SETTLING}
         \subseteq Nat \ {0}
    /\ EPSILON \in Nat
    /\ SAMPLE_RATE % BLOCK_SIZE = 0
    /\ SHORTEST_GATE >= BLOCK_SIZE * TICKS
    /\ 4 * EPSILON <= TICKS
    /\ SHORTEST_GATE <= VOICE_TAIL /\ BLOCK_SIZE * TICKS <= DSP_SETTLING

\* A song as the project file accepts it: times are not negative, a note is inside its
\* loop, and a loop, of a quarter of a beat at least, is longer than the epsilon.
IsNote(e, loop) == e.time \in 0 .. loop - 1 /\ e.duration \in Nat

IsClip(clip) ==
    /\ {clip.start, clip.end, clip.source_start, clip.loop} \subseteq Nat
    /\ clip.once \in BOOLEAN /\ clip.loop > EPSILON
    /\ IsFiniteSet(DOMAIN clip.events)
    /\ \A e \in DOMAIN clip.events : IsNote(clip.events[e], clip.loop)

IsSong(project) ==
    /\ project.duration \in Nat
    /\ IsFiniteSet(DOMAIN project.tracks) /\ IsFiniteSet(DOMAIN project.clips)
    /\ \A t, u \in DOMAIN project.tracks : project.tracks[t].id = project.tracks[u].id => t = u
    /\ \A c \in DOMAIN project.clips : IsClip(project.clips[c])

AtLeast0(n) == IF n < 0 THEN 0 ELSE n
Larger(a, b) == IF a < b THEN b ELSE a
Smaller(a, b) == IF a < b THEN a ELSE b

\* round, and ceil
midi_event_sample(time) == (2 * time + TICKS) \div (2 * TICKS)
playback_end_sample(time) == (time + TICKS - 1) \div TICKS
playback_start_sample_milliseconds(ms) == (ms * SAMPLE_RATE + 500) \div 1000

SampleCount(project) == playback_end_sample(project.duration)

\* RackRoutingIndex: the key zones of a rack say which pitches an instrument gets,
\* however many of them overlap.
track_receives_pitch(project, rack, track, pitch) ==
    \E zone \in project.key_zones :
        /\ zone.rack = rack /\ zone.instrument = track.instrument
        /\ zone.low_note <= pitch /\ pitch <= zone.high_note

\* The rounds of a loop that may begin a note in a window.
Cycles(clip, from, to) ==
    IF clip.loop <= 0 \/ to <= from THEN {}
    ELSE IF clip.once THEN {0}
    ELSE AtLeast0((from - clip.source_start) \div clip.loop - 1)
           .. AtLeast0((to - clip.source_start) \div clip.loop)

\* A note as it is played in one round; a clip's end cuts it short.
Occurrence(project, c, e, cycle) ==
    LET clip == project.clips[c]
        time == clip.source_start + cycle * clip.loop + clip.events[e].time
        held == Smaller(clip.events[e].duration, AtLeast0(clip.end - time))
    IN  [note |-> <<c, e, cycle>>, time |-> time,
         on |-> midi_event_sample(time),
         off |-> midi_event_sample(time + Larger(held, SHORTEST_GATE))]

RoutedEvents(project, track, c) ==
    {e \in DOMAIN project.clips[c].events :
        track_receives_pitch(project, project.clips[c].rack, track,
                             project.clips[c].events[e].pitch)}

clip_occurrences_in_window(project, track, c, from, to) ==
    LET clip == project.clips[c]
        Within(o) == /\ clip.start <= o.time /\ o.time < clip.end
                     /\ from - EPSILON <= o.time /\ o.time < to - EPSILON
    IN  {o \in {Occurrence(project, c, e, cycle) :
                   e \in RoutedEvents(project, track, c), cycle \in Cycles(clip, from, to)} :
           Within(o)}

maximum_voice_lifetime(project, track) ==
    Max({0} \cup UNION {{project.clips[c].events[e].duration + VOICE_TAIL :
                            e \in RoutedEvents(project, track, c)} :
                           c \in DOMAIN project.clips})

\* TrackRenderState::new, for a render that begins with the sample `start`.
Occurrences(project, track, start, end) ==
    LET lookback == AtLeast0(start * TICKS - maximum_voice_lifetime(project, track))
        Of(c) == LET clip == project.clips[c] IN
                 clip_occurrences_in_window(project, track, c,
                     Larger(lookback - 2 * clip.loop, clip.start),
                     Smaller(end * TICKS, clip.end) + 2 * EPSILON)
    IN  UNION {Of(c) : c \in DOMAIN project.clips}

\* A plausible slip: notes that are held are not reckoned with.
SettlesOnly(project) == DSP_SETTLING

playback_preroll_seconds(project) ==
    Max({0} \cup {maximum_voice_lifetime(project, project.tracks[t]) :
                     t \in DOMAIN project.tracks}) + DSP_SETTLING

\* Whole seconds, so that blocks begin at the same samples in every render.
playback_preroll_sample(project, start) ==
    LET unaligned == AtLeast0(start * TICKS - playback_preroll_seconds(project))
    IN  (unaligned \div (SAMPLE_RATE * TICKS)) * SAMPLE_RATE

\* Notes are given to the engine before the block that begins next; those of the
\* last block before it, for no other block will come.
scheduled_midi_events_for_block(block_start, end) ==
    IF block_start + BLOCK_SIZE >= end THEN end - 1 ELSE block_start

\* render_track: block by block, which voices are held and the block each began in.
\* A note that began before the first sample is never played.
render_track(project, track, start, end) ==
    LET notes == Occurrences(project, track, start, end)
        blocks == [k \in 1 .. (end - start + BLOCK_SIZE - 1) \div BLOCK_SIZE |->
                      start + (k - 1) * BLOCK_SIZE]
        Process(played, b) ==
            LET before == IF played = <<>> THEN start - 1 ELSE Last(played).heard
                held == IF played = <<>> THEN {} ELSE Last(played).voices
                heard == scheduled_midi_events_for_block(b, end)
                Due(sample) == before < sample /\ sample <= heard
                begun == {[of |-> o, since |-> b] : o \in {n \in notes : Due(n.on)}}
            IN  Append(played, [from |-> b, to |-> Smaller(b + BLOCK_SIZE, end),
                                heard |-> heard,
                                voices |-> {v \in held \cup begun : ~Due(v.of.off)}])
    IN  FoldLeft(Process, <<>>, blocks)

\* AudioRegion::slice: what is left of a render when the preroll is cut away.
slice(played, start) ==
    LET passed == Cardinality({k \in DOMAIN played : played[k].to <= start})
    IN  SubSeq(played, passed + 1, Len(played))

\* A track that is muted is silent, one whose preset cannot be rendered an error.
Silence == <<>>
Renderable(project, track_ids) ==
    /\ track_ids # {}
    /\ \A id \in track_ids : \E t \in DOMAIN project.tracks : project.tracks[t].id = id
    /\ \A t \in DOMAIN project.tracks :
          project.tracks[t].id \in track_ids =>
              project.tracks[t].muted \/ project.tracks[t].headless

render_tracks_with_stems_samples(project, track_ids, start, end) ==
    LET preroll == playback_preroll_sample(project, start)
        Track(id) == CHOOSE track \in Range(project.tracks) : track.id = id
    IN  [id \in track_ids |->
            IF Track(id).muted THEN Silence
            ELSE slice(render_track(project, Track(id), preroll, end), start)]
=============================================================================
