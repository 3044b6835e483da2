------------------------------ MODULE AudioBodies ------------------------------
(***************************************************************************)
(* The answers with sound in them (src/src/server.rs, audio_stream.rs):    *)
(* playback from any point, in full or a range of bytes; the export; the   *)
(* spectrum of every track, with its cache; and the region that an edit    *)
(* analyses.  Each is rendered region by region and written as it comes,   *)
(* when the length of the whole has already been promised.                 *)
(*                                                                         *)
(* The client may go between any two regions and the project may change.   *)
(* Who may render when, and the threads and limits around it, are module   *)
(* AudioServing.                                                           *)
(***************************************************************************)
EXTENDS RenderSchedule

CONSTANTS
    Projects,               \* projects that can be open
    StartTimes, Windows,    \* in milliseconds, as URLs have them
    RangeHeaders,           \* what a Range header can say
    Analyses,               \* [track_ids, start, end] that an edit can ask for
    MAX_REGION, PLAYBACK_CHUNK_SAMPLES,
    SPECTRUM_FRAME_SAMPLES, SPECTRUM_FFT_SAMPLES,
    WAV_HEADER_BYTES,
    CHANGES                 \* bound: changes of the project

\* AUDIO_RANGE_SAMPLES is the longest region, and a whole number of frames.
AUDIO_RANGE_SAMPLES == MAX_REGION
FRAME_BYTES == 4

ASSUME BodiesAssumption ==
    /\ {MAX_REGION, PLAYBACK_CHUNK_SAMPLES, SPECTRUM_FRAME_SAMPLES, SPECTRUM_FFT_SAMPLES,
        WAV_HEADER_BYTES} \subseteq Nat \ {0}
    /\ MAX_REGION % SPECTRUM_FRAME_SAMPLES = 0 /\ SPECTRUM_FFT_SAMPLES % 2 = 0
    /\ PLAYBACK_CHUNK_SAMPLES <= MAX_REGION
    /\ CHANGES \in Nat

\* Projects have gone through the parser, and what a URL, a header or an edit says of
\* times is not negative.
ASSUME InputsAssumption ==
    /\ \A p \in Projects : IsSong(p)
    /\ \A a \in Analyses : a.start \in Nat /\ a.end \in Nat
    /\ StartTimes \cup Windows \subseteq Nat
    /\ RangeHeaders \subseteq
         [kind: {"none", "suffix", "from", "between"}, first: Nat, last: Nat]

VARIABLES
    project, version,   \* the user's project
    body,               \* the answer that is being written
    sent,               \* the bytes of the file written so far, write by write
    frames,             \* the spectrum frames made so far
    sound,              \* the region rendered last
    cache               \* the spectrum cache file

vars == <<project, version, body, sent, frames, sound, cache>>

NoBody == [phase |-> "none"]
NoSound == [start |-> 0, end |-> 0, tracks |-> <<>>]
NoCache == [version |-> 0, start_milliseconds |-> 0, end |-> 0, frames |-> <<>>]

TrackIds(p) == {p.tracks[t].id : t \in DOMAIN p.tracks}
TotalLength(samples) == WAV_HEADER_BYTES + samples * FRAME_BYTES

Init ==
    /\ project \in Projects /\ version = 1
    /\ body = NoBody
    /\ sent = <<>> /\ frames = <<>>
    /\ sound = NoSound /\ cache = NoCache

----------------------------------------------------------------------------
(* Answers: what is promised *)

Ended(how) == body' = [body EXCEPT !.phase = how]
Stays == UNCHANGED <<project, version, cache>>
Writes(from, to) == sent' = Append(sent, <<from, to>>)

Answer(answer) ==
    /\ body = NoBody
    /\ body' = answer
    /\ UNCHANGED <<sent, frames, sound>> /\ Stays

Refusal == [phase |-> "refused"]

\* A range of bytes, cut to what one region can hold.  A header that names none is
\* refused with 416.
bounded_audio_byte_range(header, total_length) ==
    LET start == IF header.kind = "suffix" THEN AtLeast0(total_length - header.last)
                 ELSE header.first
        end == IF header.kind = "between" THEN Smaller(header.last, total_length - 1)
               ELSE total_length - 1
        first_pcm_byte == AtLeast0(start - WAV_HEADER_BYTES)
    IN  [start |-> start,
         end |-> Smaller(WAV_HEADER_BYTES + first_pcm_byte
                           + AUDIO_RANGE_SAMPLES * FRAME_BYTES - 1, end)]

Satisfiable(header, total_length) ==
    CASE header.kind = "suffix"  -> header.last # 0
      [] header.kind = "from"    -> header.first < total_length
      [] header.kind = "between" -> /\ header.first < total_length
                                    /\ header.first <= header.last

playback_response(asked, ms, header) ==
    LET start == playback_start_sample_milliseconds(ms)
        count == SampleCount(project) - start
        answer == [phase |-> "header", kind |-> "stream", project |-> project,
                   start |-> start, end |-> SampleCount(project), cursor |-> start,
                   promised |-> <<0, TotalLength(count)>>]
        range == bounded_audio_byte_range(header, TotalLength(count))
    IN  Answer(IF asked # version \/ count <= 0 THEN Refusal
               ELSE IF header.kind = "none" THEN answer
               ELSE IF ~Satisfiable(header, TotalLength(count)) THEN Refusal
               ELSE [answer EXCEPT !.kind = "range", !.cursor = range.start,
                                   !.promised = <<range.start, range.end + 1>>])

export_response ==
    Answer([phase |-> "header", kind |-> "export", project |-> project,
            start |-> 0, end |-> SampleCount(project), cursor |-> 0,
            promised |-> <<0, TotalLength(SampleCount(project))>>])

\* prepare_track_spectrum.  The key of the cache has everything that the frames
\* depend on.
KeyWithoutVersion(asked, ms, end) == <<cache.version, ms, end>>
cache_key(asked, ms, end) == <<asked, ms, end>>

track_spectrum_response(asked, ms, window) ==
    LET start == playback_start_sample_milliseconds(ms)
        end == Smaller(start + playback_start_sample_milliseconds(Larger(window, 1)),
                       SampleCount(project))
        plan == [phase |-> "frames", kind |-> "spectrum", project |-> project,
                 version |-> version, start_milliseconds |-> ms,
                 start |-> start, end |-> end, cursor |-> start,
                 promised |-> (end - start + SPECTRUM_FRAME_SAMPLES - 1)
                                \div SPECTRUM_FRAME_SAMPLES]
        Cached == <<cache.version, cache.start_milliseconds, cache.end>>
                    = cache_key(version, ms, end)
    IN  /\ body = NoBody
        /\ UNCHANGED <<sent, sound>> /\ Stays
        /\ IF asked # version \/ start >= SampleCount(project)
           THEN body' = Refusal /\ UNCHANGED frames
           ELSE IF Cached /\ Len(cache.frames) = plan.promised
           THEN body' = [plan EXCEPT !.phase = "done"] /\ frames' = cache.frames
           ELSE body' = plan /\ UNCHANGED frames

----------------------------------------------------------------------------
(* Writing *)

\* AudioRenderer's two ways to render; the one for tracks knows no longest region.
Renders(p, track_ids, start, end) ==
    sound' = [start |-> start, end |-> end,
              tracks |-> render_tracks_with_stems_samples(p, track_ids, start, end)]

InOneRegion(p, start, end) ==
    start < SampleCount(p) /\ start < end /\ end <= SampleCount(p) /\ end - start <= MAX_REGION

\* write_playback_body and write_export_body begin with the header of the file,
\* write_playback_byte_range with the part of it that is asked for.
WriteHeader ==
    /\ body.phase = "header"
    /\ LET end == Smaller(body.promised[2], WAV_HEADER_BYTES) IN
       IF body.kind # "range"
       THEN Writes(0, WAV_HEADER_BYTES) /\ Ended("regions")
       ELSE IF body.cursor >= WAV_HEADER_BYTES THEN UNCHANGED sent /\ Ended("regions")
       ELSE /\ Writes(body.cursor, end)
            /\ body' = [body EXCEPT !.cursor = end,
                           !.phase = IF end = body.promised[2] THEN "done" ELSE "regions"]
    /\ UNCHANGED <<frames, sound>> /\ Stays

\* A region that cannot be rendered ends the answer early.
Fail(how) == Ended(how) /\ UNCHANGED <<sent, sound>>

\* The next region of a whole file, of no more than `longest` samples.
WriteRegion(longest) ==
    /\ LET end == Smaller(body.cursor + longest, body.end)
           At(sample) == TotalLength(sample - body.start)
       IN  IF ~InOneRegion(body.project, body.cursor, end) THEN Fail("out of bounds")
           ELSE IF ~Renderable(body.project, TrackIds(body.project)) THEN Fail("unrenderable")
           ELSE /\ Renders(body.project, TrackIds(body.project), body.cursor, end)
                /\ Writes(At(body.cursor), At(end))
                /\ body' = [body EXCEPT !.cursor = end,
                               !.phase = IF end = body.end THEN "done" ELSE @]
    /\ UNCHANGED frames /\ Stays

Writing(kind) == body.phase = "regions" /\ body.kind = kind

WriteChunk == Writing("stream") /\ WriteRegion(PLAYBACK_CHUNK_SAMPLES)
WriteExport == Writing("export") /\ WriteRegion(AUDIO_RANGE_SAMPLES)

\* The samples that hold a byte, up to but not including `end`.
WholeSamplesUpTo(pcm_end) == pcm_end \div FRAME_BYTES
SamplesUpTo(pcm_end) == (pcm_end + FRAME_BYTES - 1) \div FRAME_BYTES

\* The bytes asked for are cut out of those of the region, which has to have them.
WriteRange ==
    /\ Writing("range")
    /\ LET pcm_start == body.cursor - WAV_HEADER_BYTES
           pcm_end == body.promised[2] - WAV_HEADER_BYTES
           first == pcm_start \div FRAME_BYTES
           end == SamplesUpTo(pcm_end)
       IN  IF ~InOneRegion(body.project, body.start + first, body.start + end)
           THEN Fail("out of bounds")
           ELSE IF ~Renderable(body.project, TrackIds(body.project)) THEN Fail("unrenderable")
           ELSE /\ Renders(body.project, TrackIds(body.project),
                           body.start + first, body.start + end)
                /\ IF pcm_end - first * FRAME_BYTES > (end - first) * FRAME_BYTES
                   THEN UNCHANGED sent /\ Ended("panicked")
                   ELSE Writes(body.cursor, body.promised[2]) /\ Ended("done")
    /\ UNCHANGED frames /\ Stays

\* One region of render_track_spectrum, rendered wide enough for the transforms
\* around its first and last frames.  Every frame reads what there is of its own.
RenderChunkOnly(p, chunk_end) == Smaller(chunk_end, SampleCount(p))
RenderEnd(p, chunk_end) == Smaller(chunk_end + SPECTRUM_FFT_SAMPLES \div 2, SampleCount(p))

SpectrumFrame(of, centre, start, end) ==
    [version |-> of, centre |-> centre,
     from |-> Larger(centre - SPECTRUM_FFT_SAMPLES \div 2, start),
     to |-> Smaller(centre + SPECTRUM_FFT_SAMPLES \div 2, end)]

SpectrumChunk ==
    /\ body.phase = "frames" /\ body.version = version
    /\ LET chunk_end == Smaller(body.cursor + AUDIO_RANGE_SAMPLES, body.end)
           start == AtLeast0(body.cursor - SPECTRUM_FFT_SAMPLES \div 2)
           end == RenderEnd(body.project, chunk_end)
           count == (chunk_end - body.cursor + SPECTRUM_FRAME_SAMPLES - 1)
                      \div SPECTRUM_FRAME_SAMPLES
           made == [k \in 1 .. count |->
                       SpectrumFrame(body.version,
                                     body.cursor + (k - 1) * SPECTRUM_FRAME_SAMPLES, start, end)]
       IN  IF ~Renderable(body.project, TrackIds(body.project))
           THEN Fail("unrenderable") /\ UNCHANGED frames
           ELSE /\ Renders(body.project, TrackIds(body.project), start, end)
                /\ frames' = frames \o made
                /\ UNCHANGED sent
                /\ body' = [body EXCEPT !.cursor = chunk_end,
                               !.phase = IF chunk_end = body.end THEN "save" ELSE @]
    /\ Stays

\* The project may have changed since the last look at its version.
SaveSpectrum ==
    /\ body.phase = "save"
    /\ cache' = [version |-> body.version, start_milliseconds |-> body.start_milliseconds,
                 end |-> body.end, frames |-> frames]
    /\ Ended("done")
    /\ UNCHANGED <<project, version, sent, frames, sound>>

\* render_region_with_tracks: some tracks, from a time to a time.
Analyse(analysis) ==
    LET start == midi_event_sample(analysis.start)
        end == playback_end_sample(analysis.end)
    IN  /\ body = NoBody
        /\ IF \/ analysis.end <= analysis.start \/ analysis.end > project.duration
              \/ analysis.end - analysis.start > MAX_REGION * TICKS
              \/ ~Renderable(project, analysis.track_ids)
           THEN body' = Refusal /\ UNCHANGED sound
           ELSE /\ Renders(project, analysis.track_ids, start, end)
                /\ body' = [phase |-> "done", kind |-> "analysis", project |-> project]
        /\ UNCHANGED <<sent, frames>> /\ Stays

Active == body.phase \in {"header", "regions", "frames"}

\* The client goes, or for a spectrum the project is another one by now.
Cancel ==
    /\ Active
    /\ Ended("cancelled")
    /\ UNCHANGED <<sent, frames, sound>> /\ Stays

Close ==
    /\ body # NoBody /\ ~Active /\ body.phase # "save"
    /\ body' = NoBody /\ sent' = <<>> /\ frames' = <<>> /\ sound' = NoSound
    /\ Stays

ChangeProject ==
    /\ version <= CHANGES
    /\ project' \in Projects /\ version' = version + 1
    /\ UNCHANGED <<body, sent, frames, sound, cache>>

Next ==
    \/ \E asked \in 1 .. version, ms \in StartTimes, header \in RangeHeaders :
          playback_response(asked, ms, header)
    \/ export_response
    \/ \E asked \in 1 .. version, ms \in StartTimes, window \in Windows :
          track_spectrum_response(asked, ms, window)
    \/ \E analysis \in Analyses : Analyse(analysis)
    \/ WriteHeader \/ WriteChunk \/ WriteExport \/ WriteRange \/ SpectrumChunk \/ SaveSpectrum
    \/ Cancel \/ Close
    \/ ChangeProject

Spec == Init /\ [][Next]_vars

----------------------------------------------------------------------------
(* Properties *)

\* The notes of a song, told from its clips alone.
Rounds(clip) == IF clip.once THEN {0} ELSE 0 .. clip.end \div clip.loop

Score(p, track) ==
    UNION {{o \in {Occurrence(p, c, e, cycle) : e \in RoutedEvents(p, track, c),
                                                cycle \in Rounds(p.clips[c])} :
               p.clips[c].start <= o.time /\ o.time < p.clips[c].end} : c \in DOMAIN p.clips}

\* The first block that begins with or after a sample.
Grid(sample) == ((sample + BLOCK_SIZE - 1) \div BLOCK_SIZE) * BLOCK_SIZE

\* What is heard from the sample `from` on, in a render that goes on to `end`.
Written(score, from, end) ==
    IF from + BLOCK_SIZE >= end
    THEN {[of |-> o, since |-> Smaller(Grid(o.on), from)] :
             o \in {n \in score : n.on < end /\ end <= n.off}}
    ELSE {[of |-> o, since |-> Grid(o.on)] : o \in {n \in score : n.on <= from /\ from < n.off}}

\* Wherever a region begins and however far its preroll reaches back, every track
\* plays in it the notes that its clips and key zones say, all of them and each
\* once, those that began long before included, and each since the same block as
\* in any other region: regions that overlap sound alike.  Only what falls
\* into the last block of a region is played ahead of time.
SoundsAsWritten ==
    sound # NoSound =>
        \A t \in DOMAIN body.project.tracks :
            LET track == body.project.tracks[t]
                heard == sound.tracks[track.id]
            IN  track.id \in DOMAIN sound.tracks =>
                IF track.muted THEN heard = Silence
                ELSE IF sound.start = sound.end THEN heard = <<>>
                ELSE /\ heard # <<>>
                     /\ heard[1].from <= sound.start /\ Last(heard).to = sound.end
                     /\ \A k \in 1 .. Len(heard) - 1 : heard[k].to = heard[k + 1].from
                     /\ \A k \in DOMAIN heard :
                           heard[k].voices
                             = Written(Score(body.project, track), heard[k].from, sound.end)

\* The bytes of an answer are those of the file, in order and without a gap, and
\* an answer that does not end early has all that its header promised: across the
\* WAV header, samples cut in the middle, and regions of any length.  No writer
\* asks a region for bytes that it does not have.
PromisedBytesArrive ==
    /\ body.phase # "panicked"
    /\ sent # <<>> =>
          /\ sent[1][1] = body.promised[1]
          /\ \A w \in DOMAIN sent : sent[w][1] < sent[w][2]
          /\ \A w \in 1 .. Len(sent) - 1 : sent[w][2] = sent[w + 1][1]
          /\ Last(sent)[2] <= body.promised[2]
          /\ body.phase = "done" => Last(sent)[2] = body.promised[2]

\* Every frame of a spectrum is where its number says, reads all of the song that
\* its window covers although regions are rendered apart, and none is missing.
SpectrumSeesItsWindow ==
    frames # <<>> =>
        /\ \A k \in DOMAIN frames :
              LET centre == body.start + (k - 1) * SPECTRUM_FRAME_SAMPLES IN
              /\ frames[k].centre = centre
              /\ frames[k].from = AtLeast0(centre - SPECTRUM_FFT_SAMPLES \div 2)
              /\ frames[k].to = Smaller(centre + SPECTRUM_FFT_SAMPLES \div 2,
                                        SampleCount(body.project))
        /\ body.phase = "done" => Len(frames) = body.promised

\* The spectrum that a page gets is that of the version it asked for, whether it
\* was made now or for an earlier request, and whatever the project has become
\* since: the cache file has one place for all versions, points and lengths.
SpectrumIsCurrent == \A k \in DOMAIN frames : frames[k].version = body.version

\* A range of bytes that was accepted, with 206 and its length, can be rendered.
RangesAreServed == body.phase # "out of bounds"
=============================================================================
