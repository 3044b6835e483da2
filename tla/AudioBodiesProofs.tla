-------------------------- MODULE AudioBodiesProofs --------------------------
(***************************************************************************)
(* What AudioBodies promises of its answers, for any songs, limits, times  *)
(* and headers: the bytes of a file come in order and up to the length     *)
(* that was promised; the frames of a spectrum are of the version that was *)
(* asked for, in their places, and see all of their windows; every track   *)
(* of every region plays the notes that the song has there.                *)
(*                                                                         *)
(* The argument goes by the cursor of the answer: it says where the next   *)
(* region begins, how much has been written and how many frames have been  *)
(* made.  The cache is trusted only under the version of the open project, *)
(* which it names whenever its frames could still be asked for.            *)
(*                                                                         *)
(* What a region sounds like does not depend on the answer: a render keeps *)
(* from block to block the voices of the notes it knows, and the preroll   *)
(* begins before every note that can still be held in the region.          *)
(***************************************************************************)
EXTENDS AudioBodies, FoldTheorems, FiniteSetTheorems, SequenceTheorems, TLAPS

----------------------------------------------------------------------------
(* The inductive invariant *)

\* The three shapes of an answer.
BareBody ==
    [phase: {"none", "refused"}]
    \cup [phase: {"done"}, kind: {"analysis"}, project: Projects]

FileBody ==
    [phase: {"header", "regions", "done", "out of bounds", "unrenderable", "cancelled"},
     kind: {"stream", "export", "range"}, project: Projects,
     start: Nat, end: Nat, cursor: Nat, promised: Nat \X Nat]

SpectrumBody ==
    [phase: {"frames", "save", "done", "unrenderable", "cancelled"},
     kind: {"spectrum"}, project: Projects, version: Nat, start_milliseconds: Nat,
     start: Nat, end: Nat, cursor: Nat, promised: Nat]

\* Writes that follow each other without a gap, from one byte up to another.
Covers(writes, from, to) ==
    /\ writes \in Seq(Nat \X Nat) /\ writes # <<>>
    /\ writes[1][1] = from
    /\ \A w \in DOMAIN writes : writes[w][1] < writes[w][2]
    /\ \A w \in 1 .. Len(writes) - 1 : writes[w][2] = writes[w + 1][1]
    /\ Last(writes)[2] = to

SentUpTo(to) == Covers(sent, body.promised[1], to)

\* The cursor of a file says how much of it has been written.
FileInv ==
    /\ frames = <<>>
    /\ body.start <= body.end
    /\ body.promised[1] < body.promised[2]
    /\ body.kind # "range" => body.promised = <<0, TotalLength(body.end - body.start)>>
    /\ body.phase = "header" =>
          /\ sent = <<>>
          /\ body.cursor = IF body.kind = "range" THEN body.promised[1] ELSE body.start
    /\ body.phase = "regions" /\ body.kind # "range" =>
          /\ body.start <= body.cursor /\ body.cursor <= body.end
          /\ SentUpTo(TotalLength(body.cursor - body.start))
    /\ body.phase = "regions" /\ body.kind = "range" =>
          /\ body.cursor < body.promised[2]
          /\ IF sent = <<>> THEN body.cursor = body.promised[1] ELSE SentUpTo(body.cursor)
    /\ body.phase = "done" => SentUpTo(body.promised[2])
    /\ sent # <<>> => \E to \in 0 .. body.promised[2] : SentUpTo(to)

\* How many frames a stretch of a song has.
FrameCount(samples) == (samples + SPECTRUM_FRAME_SAMPLES - 1) \div SPECTRUM_FRAME_SAMPLES

Frame == [version: Nat, centre: Nat, from: Int, to: Int]

\* The first frames of a song from a point on.
FrameAt(p, of, centre) ==
    [version |-> of, centre |-> centre,
     from |-> AtLeast0(centre - SPECTRUM_FFT_SAMPLES \div 2),
     to |-> Smaller(centre + SPECTRUM_FFT_SAMPLES \div 2, SampleCount(p))]

FramesOf(made, p, of, start) ==
    \A k \in 1 .. Len(made) :
        made[k] = FrameAt(p, of, start + (k - 1) * SPECTRUM_FRAME_SAMPLES)

\* The cursor of a spectrum says how many of its frames have been made.
SpectrumInv ==
    /\ sent = <<>>
    /\ body.version <= version
    /\ body.version = version => body.project = project
    /\ body.start = playback_start_sample_milliseconds(body.start_milliseconds)
    /\ body.start <= body.cursor /\ body.cursor <= body.end
    /\ body.end <= SampleCount(body.project)
    /\ body.promised = FrameCount(body.end - body.start)
    /\ frames \in Seq(Frame)
    /\ FramesOf(frames, body.project, body.version, body.start)
    /\ body.phase = "frames" =>
          body.cursor = body.start + Len(frames) * SPECTRUM_FRAME_SAMPLES
    /\ body.phase \in {"save", "done"} => Len(frames) = body.promised

BodyInv ==
    \/ body \in BareBody /\ sent = <<>> /\ frames = <<>>
    \/ body \in FileBody /\ FileInv
    \/ body \in SpectrumBody /\ SpectrumInv

\* A cache of the open project's version holds frames of the open project.
CacheInv ==
    /\ cache.version \in Nat /\ cache.version <= version
    /\ cache.version = version =>
          /\ cache.frames \in Seq(Frame)
          /\ FramesOf(cache.frames, project, version,
                      playback_start_sample_milliseconds(cache.start_milliseconds))

AnswerInv ==
    /\ project \in Projects
    /\ version \in Nat \ {0}
    /\ BodyInv
    /\ CacheInv

----------------------------------------------------------------------------
(* Numbers *)

\* The length of a song is a number of samples.
LEMMA Lengths == ASSUME NEW p \in Projects PROVE SampleCount(p) \in Nat
    BY RenderAssumption, InputsAssumption DEF IsSong, SampleCount, playback_end_sample

\* So is a time.
LEMMA Times ==
    ASSUME NEW ms \in Nat
    PROVE  playback_start_sample_milliseconds(ms) \in Nat
<1>1. SAMPLE_RATE \in Nat
    BY RenderAssumption
<1>2. ms * SAMPLE_RATE + 500 \in Nat
    BY <1>1
<1> QED
    BY <1>2 DEF playback_start_sample_milliseconds

\* The length of a file grows with its samples.
LEMMA FileLengths ==
    ASSUME NEW m \in Nat, NEW n \in Nat
    PROVE  /\ TotalLength(m) \in Nat /\ TotalLength(m) >= WAV_HEADER_BYTES
           /\ TotalLength(0) = WAV_HEADER_BYTES
           /\ WAV_HEADER_BYTES \in Nat \ {0}
           /\ m < n => TotalLength(m) < TotalLength(n)
    BY BodiesAssumption DEF TotalLength, FRAME_BYTES

\* A range that is accepted is not empty and is within the file.
LEMMA RangeWithin ==
    ASSUME NEW header \in RangeHeaders, header.kind # "none",
           NEW total \in Nat \ {0}, Satisfiable(header, total)
    PROVE  LET range == bounded_audio_byte_range(header, total) IN
           /\ range.start \in Nat /\ range.end + 1 \in Nat
           /\ range.start < range.end + 1 /\ range.end + 1 <= total
<1> DEFINE start == IF header.kind = "suffix" THEN AtLeast0(total - header.last)
                    ELSE header.first
           end == IF header.kind = "between" THEN Smaller(header.last, total - 1)
                  ELSE total - 1
           whole == WAV_HEADER_BYTES + AtLeast0(start - WAV_HEADER_BYTES)
                       + AUDIO_RANGE_SAMPLES * FRAME_BYTES - 1
<1>1. /\ header.kind \in {"suffix", "from", "between"}
      /\ header.first \in Nat /\ header.last \in Nat
    BY InputsAssumption
<1>2. /\ header.kind = "suffix" => header.last # 0
      /\ header.kind = "from" => header.first < total
      /\ header.kind = "between" => header.first < total /\ header.first <= header.last
    BY <1>1 DEF Satisfiable
<1>3. start \in Nat /\ end \in Int /\ start <= end /\ end < total
  <2>1. CASE header.kind = "suffix"
    BY <1>1, <1>2, <2>1 DEF AtLeast0
  <2>2. CASE header.kind = "from"
    BY <1>1, <1>2, <2>2
  <2>3. CASE header.kind = "between"
    BY <1>1, <1>2, <2>3 DEF Smaller
  <2> QED
    BY <1>1, <2>1, <2>2, <2>3
<1>4. /\ bounded_audio_byte_range(header, total).start = start
      /\ bounded_audio_byte_range(header, total).end = Smaller(whole, end)
    BY DEF bounded_audio_byte_range
<1> HIDE DEF start, end
<1>5. whole \in Int /\ start <= whole
    BY <1>3, BodiesAssumption DEF AtLeast0, AUDIO_RANGE_SAMPLES, FRAME_BYTES
<1> HIDE DEF whole
<1> QED
    BY <1>3, <1>4, <1>5 DEF Smaller

----------------------------------------------------------------------------
(* Writes *)

\* The first write.
LEMMA FirstWrite ==
    ASSUME NEW from \in Nat, NEW to \in Nat, from < to
    PROVE  Covers(Append(<<>>, <<from, to>>), from, to)
<1> DEFINE s == Append(<<>>, <<from, to>>)
<1>1. s = << <<from, to>> >>
    OBVIOUS
<1>2. s \in Seq(Nat \X Nat) /\ Len(s) = 1 /\ s[1] = <<from, to>> /\ DOMAIN s = 1 .. 1
    BY <1>1
<1> HIDE DEF s
<1> QED
    BY <1>2 DEF Covers, Last

\* The next one begins where the last one ended.
LEMMA NextWrite ==
    ASSUME NEW writes, NEW from \in Nat, NEW to \in Nat, Covers(writes, from, to),
           NEW further \in Nat, to < further
    PROVE  Covers(Append(writes, <<to, further>>), from, further)
<1> DEFINE s == Append(writes, <<to, further>>)
           n == Len(writes)
<1>1. writes \in Seq(Nat \X Nat) /\ writes # <<>>
    BY DEF Covers
<1>2. n \in Nat /\ n # 0 /\ DOMAIN writes = 1 .. n
    BY <1>1, EmptySeq, LenProperties
<1>3. <<to, further>> \in Nat \X Nat
    OBVIOUS
<1>4. /\ s \in Seq(Nat \X Nat) /\ Len(s) = n + 1
      /\ \A w \in 1 .. n : s[w] = writes[w]
      /\ s[n + 1] = <<to, further>>
    BY <1>1, <1>3, AppendProperties
<1>5. DOMAIN s = 1 .. n + 1 /\ s # <<>>
  <2> HIDE DEF s, n
  <2>1. DOMAIN s = 1 .. n + 1
      BY <1>4, LenProperties
  <2>2. Len(s) # 0
      BY <1>2, <1>4
  <2> QED BY <2>1, <2>2, EmptySeq
<1>6. writes[n][2] = to
    BY DEF Covers, Last
<1> HIDE DEF s, n
<1>7. s[1][1] = from
    BY <1>2, <1>4 DEF Covers
<1>8. ASSUME NEW w \in DOMAIN s
      PROVE  s[w][1] < s[w][2]
  <2>1. CASE w = n + 1
    BY <1>4, <2>1
  <2>2. CASE w # n + 1
    <3>1. w \in 1 .. n
        BY <1>2, <1>5, <2>2
    <3> QED
        BY <1>2, <1>4, <3>1 DEF Covers
  <2> QED
    BY <2>1, <2>2
<1>9. ASSUME NEW w \in 1 .. n
      PROVE  s[w][2] = s[w + 1][1]
  <2>1. CASE w = n
    BY <1>2, <1>4, <1>6, <2>1
  <2>2. CASE w # n
    <3>1. w + 1 \in 1 .. n /\ w \in 1 .. n - 1
        BY <1>2, <2>2
    <3>2. writes[w][2] = writes[w + 1][1]
        BY <3>1 DEF Covers, n
    <3> QED
        BY <1>4, <3>1, <3>2
  <2> QED
    BY <2>1, <2>2
<1>10. Len(s) - 1 = n /\ Last(s)[2] = further
    BY <1>2, <1>4 DEF Last
<1> QED
    BY <1>4, <1>5, <1>7, <1>8, <1>9, <1>10 DEF Covers, s

----------------------------------------------------------------------------
(* Files *)

\* Nothing has been written or made before there is an answer.
LEMMA NothingYet == AnswerInv /\ body = NoBody => sent = <<>> /\ frames = <<>>
    BY DEF AnswerInv, BodyInv, BareBody, FileBody, SpectrumBody, NoBody

\* A file that is not begun has its header to come.
LEMMA FileBegins ==
    ASSUME body' \in FileBody, body'.phase = "header",
           sent' = <<>>, frames' = <<>>,
           body'.start <= body'.end, body'.promised[1] < body'.promised[2],
           \/ /\ body'.kind # "range" /\ body'.cursor = body'.start
              /\ body'.promised = <<0, TotalLength(body'.end - body'.start)>>
           \/ body'.kind = "range" /\ body'.cursor = body'.promised[1]
    PROVE  BodyInv'
    BY DEF BodyInv, FileInv

\* The file of a playback, and the range of it that is asked for.
LEMMA PlaybackBegins ==
    ASSUME AnswerInv, NEW asked, NEW ms \in StartTimes, NEW header \in RangeHeaders,
           playback_response(asked, ms, header)
    PROVE  BodyInv'
<1> DEFINE start == playback_start_sample_milliseconds(ms)
           last == SampleCount(project)
           total == TotalLength(last - start)
           range == bounded_audio_byte_range(header, total)
           answer == [phase |-> "header", kind |-> "stream", project |-> project,
                      start |-> start, end |-> last, cursor |-> start,
                      promised |-> <<0, total>>]
           part == [answer EXCEPT !.kind = "range", !.cursor = range.start,
                                  !.promised = <<range.start, range.end + 1>>]
<1>1. project \in Projects /\ start \in Nat /\ last \in Nat
    BY InputsAssumption, Lengths, Times DEF AnswerInv
<1>2. sent' = <<>> /\ frames' = <<>>
    BY NothingYet DEF playback_response, Answer
<1>3. \/ body' = Refusal
      \/ last - start > 0 /\ body' = answer
      \/ last - start > 0 /\ header.kind # "none" /\ Satisfiable(header, total)
            /\ body' = part
    BY <1>1 DEF playback_response, Answer
<1>4. last - start > 0 => last - start \in Nat /\ total \in Nat \ {0} /\ 0 < total
    BY <1>1, FileLengths
<1> HIDE DEF start, last, total
<1>5. CASE body' = Refusal
    BY <1>2, <1>5 DEF Refusal, BodyInv, BareBody
<1>6. CASE last - start > 0 /\ body' = answer
    BY <1>1, <1>2, <1>4, <1>6, FileBegins DEF FileBody, total
<1>7. CASE last - start > 0 /\ header.kind # "none" /\ Satisfiable(header, total)
           /\ body' = part
  <2>1. /\ range.start \in Nat /\ range.end + 1 \in Nat
        /\ range.start < range.end + 1
    BY <1>4, <1>7, RangeWithin
  <2> DEFINE from == range.start
             to == range.end + 1
  <2>2. body' = [phase |-> "header", kind |-> "range", project |-> project,
                 start |-> start, end |-> last, cursor |-> from, promised |-> <<from, to>>]
    BY <1>7
  <2> HIDE DEF range, from, to
  <2>3. from \in Nat /\ to \in Nat /\ from < to
    BY <2>1 DEF from, to
  <2>4. body' \in FileBody
    BY <1>1, <2>2, <2>3 DEF FileBody
  <2>5. start <= last
    BY <1>1, <1>7
  <2> QED
    BY <1>2, <2>2, <2>3, <2>4, <2>5, FileBegins
<1> QED
    BY <1>3, <1>5, <1>6, <1>7

\* The file of an export.
LEMMA ExportBegins ==
    ASSUME AnswerInv, export_response PROVE BodyInv'
<1> DEFINE last == SampleCount(project)
<1>1. project \in Projects /\ last \in Nat
    BY Lengths DEF AnswerInv
<1>2. TotalLength(last) \in Nat /\ 0 < TotalLength(last) /\ last - 0 = last
    BY <1>1, FileLengths
<1>3. sent' = <<>> /\ frames' = <<>>
    BY NothingYet DEF export_response, Answer
<1>4. body' = [phase |-> "header", kind |-> "export", project |-> project,
               start |-> 0, end |-> last, cursor |-> 0,
               promised |-> <<0, TotalLength(last)>>]
    BY DEF export_response, Answer
<1> HIDE DEF last
<1> QED
    BY <1>1, <1>2, <1>3, <1>4, FileBegins DEF FileBody

\* A file that ends early has what it has.
LEMMA FileEndsEarly ==
    ASSUME body \in FileBody, FileInv,
           NEW how \in {"out of bounds", "unrenderable", "cancelled"},
           Ended(how), UNCHANGED <<sent, frames>>
    PROVE  BodyInv'
<1>1. body' \in FileBody /\ body'.phase = how
    BY DEF FileBody, Ended
<1>2. /\ body'.start = body.start /\ body'.end = body.end
      /\ body'.kind = body.kind /\ body'.promised = body.promised
    BY DEF FileBody, Ended
<1> QED
    BY <1>1, <1>2 DEF BodyInv, FileInv, SentUpTo

\* The header of a file, or the part of it that is asked for.
LEMMA HeaderWritten ==
    ASSUME AnswerInv, WriteHeader PROVE BodyInv'
<1>1. body \in FileBody /\ FileInv /\ body.phase = "header"
    BY DEF WriteHeader, AnswerInv, BodyInv, BareBody, SpectrumBody
<1>2. sent = <<>> /\ frames = <<>> /\ frames' = frames
    BY <1>1 DEF WriteHeader, FileInv
<1>3. WAV_HEADER_BYTES \in Nat \ {0}
    BY BodiesAssumption
<1>4. /\ body.cursor \in Nat /\ body.start \in Nat /\ body.end \in Nat
      /\ body.promised \in Nat \X Nat
      /\ body.promised[1] \in Nat /\ body.promised[2] \in Nat
      /\ body.promised[1] < body.promised[2] /\ body.start <= body.end
    BY <1>1 DEF FileBody, FileInv
<1>5. CASE body.kind # "range"
  <2>1. Writes(0, WAV_HEADER_BYTES) /\ Ended("regions")
    BY <1>5 DEF WriteHeader
  <2>2. /\ body' \in FileBody /\ body'.phase = "regions" /\ body'.kind = body.kind
        /\ body'.start = body.start /\ body'.end = body.end
        /\ body'.cursor = body.cursor /\ body'.promised = body.promised
    BY <1>1, <2>1 DEF FileBody, Ended
  <2>3. body.cursor = body.start
        /\ body.promised = <<0, TotalLength(body.end - body.start)>>
    BY <1>1, <1>5 DEF FileInv
  <2>4. body.cursor - body.start = 0 /\ TotalLength(0) = WAV_HEADER_BYTES
        /\ body.end - body.start \in Nat
    BY <1>4, <2>3, FileLengths
  <2>5. WAV_HEADER_BYTES <= body.promised[2]
    BY <2>3, <2>4, FileLengths
  <2>6. Covers(sent', 0, WAV_HEADER_BYTES)
    BY <1>2, <1>3, <2>1, FirstWrite DEF Writes
  <2>7. SentUpTo(TotalLength(body.cursor - body.start))'
    BY <2>2, <2>3, <2>4, <2>6 DEF SentUpTo
  <2>8. SentUpTo(WAV_HEADER_BYTES)' /\ WAV_HEADER_BYTES \in 0 .. body'.promised[2]
    BY <1>3, <1>4, <2>2, <2>3, <2>5, <2>6 DEF SentUpTo
  <2>9. FileInv'
    BY <1>2, <1>4, <1>5, <2>2, <2>3, <2>7, <2>8 DEF FileInv
  <2> QED
    BY <2>2, <2>9 DEF BodyInv
<1>6. CASE body.kind = "range" /\ body.cursor >= WAV_HEADER_BYTES
  <2>1. sent' = sent /\ Ended("regions")
    BY <1>6 DEF WriteHeader
  <2>2. /\ body' \in FileBody /\ body'.phase = "regions" /\ body'.kind = body.kind
        /\ body'.start = body.start /\ body'.end = body.end
        /\ body'.cursor = body.cursor /\ body'.promised = body.promised
    BY <1>1, <2>1 DEF FileBody, Ended
  <2>3. body.cursor = body.promised[1]
    BY <1>1, <1>6 DEF FileInv
  <2>4. FileInv'
    BY <1>2, <1>4, <1>6, <2>1, <2>2, <2>3 DEF FileInv
  <2> QED
    BY <2>2, <2>4 DEF BodyInv
<1>7. CASE body.kind = "range" /\ body.cursor < WAV_HEADER_BYTES
  <2> DEFINE to == Smaller(body.promised[2], WAV_HEADER_BYTES)
             phase == IF to = body.promised[2] THEN "done" ELSE "regions"
  <2>1. Writes(body.cursor, to) /\ body' = [body EXCEPT !.cursor = to, !.phase = phase]
    BY <1>3, <1>4, <1>7 DEF WriteHeader
  <2>2. to \in Nat /\ to <= body.promised[2] /\ body.cursor < to
        /\ body.cursor = body.promised[1]
    BY <1>1, <1>3, <1>4, <1>7 DEF Smaller, FileInv
  <2>3. phase \in {"done", "regions"}
    OBVIOUS
  <2>4. phase = "done" => to = body.promised[2]
    OBVIOUS
  <2>5. phase = "regions" => to < body.promised[2]
    BY <1>4, <2>2
  <2> HIDE DEF to, phase
  <2>6. /\ body' \in FileBody /\ body'.phase = phase /\ body'.kind = body.kind
        /\ body'.start = body.start /\ body'.end = body.end
        /\ body'.cursor = to /\ body'.promised = body.promised
    BY <1>1, <2>1, <2>2, <2>3 DEF FileBody
  <2>7. Covers(sent', body.promised[1], to)
    BY <1>2, <1>4, <2>1, <2>2, FirstWrite DEF Writes
  <2>8. /\ Covers(sent', body'.promised[1], to) /\ sent' # <<>>
        /\ to \in 0 .. body'.promised[2]
    BY <1>4, <2>2, <2>6, <2>7 DEF Covers
  <2>9. FileInv'
    BY <1>2, <1>4, <1>7, <2>3, <2>4, <2>5, <2>6, <2>8 DEF FileInv, SentUpTo
  <2> QED
    BY <2>6, <2>9 DEF BodyInv
<1> QED
    BY <1>3, <1>4, <1>5, <1>6, <1>7

\* A region of a whole file, of any length.
LEMMA RegionWritten ==
    ASSUME AnswerInv, NEW longest \in Nat, body.phase = "regions",
           body.kind \in {"stream", "export"}, WriteRegion(longest)
    PROVE  BodyInv'
<1> DEFINE to == Smaller(body.cursor + longest, body.end)
           At(sample) == TotalLength(sample - body.start)
           phase == IF to = body.end THEN "done" ELSE body.phase
<1>1. body \in FileBody /\ FileInv
    BY DEF AnswerInv, BodyInv, BareBody, SpectrumBody
<1>2. frames = <<>> /\ frames' = frames
    BY <1>1 DEF WriteRegion, FileInv
<1>3. /\ body.project \in Projects
      /\ body.cursor \in Nat /\ body.start \in Nat /\ body.end \in Nat
      /\ body.promised \in Nat \X Nat
      /\ body.promised[1] < body.promised[2]
      /\ body.start <= body.cursor /\ body.cursor <= body.end
      /\ body.promised = <<0, At(body.end)>>
      /\ SentUpTo(At(body.cursor))
    BY <1>1 DEF FileBody, FileInv
<1>4. CASE \E how \in {"out of bounds", "unrenderable"} : Fail(how)
    BY <1>1, <1>2, <1>4, FileEndsEarly DEF Fail
<1>5. CASE /\ InOneRegion(body.project, body.cursor, to)
           /\ Writes(At(body.cursor), At(to))
           /\ body' = [body EXCEPT !.cursor = to, !.phase = phase]
  <2>1. to \in Nat /\ body.cursor < to /\ to <= body.end
    BY <1>3, <1>5 DEF Smaller, InOneRegion
  <2>2. phase \in {"done", "regions"} /\ (phase = "done" => to = body.end)
    OBVIOUS
  <2> HIDE DEF to, phase
  <2>3. /\ body.cursor - body.start \in Nat /\ to - body.start \in Nat
        /\ body.end - body.start \in Nat
        /\ body.cursor - body.start < to - body.start
        /\ to - body.start < body.end - body.start \/ to = body.end
    BY <1>3, <2>1
  <2>4. At(body.cursor) \in Nat /\ At(to) \in Nat /\ At(body.end) \in Nat
        /\ At(body.cursor) < At(to) /\ At(to) <= At(body.end)
    BY <2>3, FileLengths
  <2>5. At(to) = TotalLength(to - body.start)
    OBVIOUS
  <2> HIDE DEF At
  <2>6. Covers(sent', 0, At(to))
    BY <1>3, <1>5, <2>4, NextWrite DEF SentUpTo, Writes
  <2>7. /\ body' \in FileBody /\ body'.phase = phase /\ body'.kind = body.kind
        /\ body'.start = body.start /\ body'.end = body.end
        /\ body'.cursor = to /\ body'.promised = body.promised
    BY <1>1, <1>5, <2>1, <2>2 DEF FileBody
  <2>8. Covers(sent', body'.promised[1], At(to)) /\ At(to) \in 0 .. body'.promised[2]
    BY <1>3, <2>4, <2>6, <2>7
  <2>9. phase = "done" => SentUpTo(body.promised[2])'
    BY <1>3, <2>2, <2>6, <2>7 DEF SentUpTo
  <2>10. SentUpTo(TotalLength(body.cursor - body.start))'
    BY <2>5, <2>6, <2>7, <1>3 DEF SentUpTo
  <2>11. body'.promised = <<0, TotalLength(body'.end - body'.start)>>
    BY <1>3, <2>7 DEF At
  <2>12. FileInv'
    BY <1>2, <1>3, <2>1, <2>2, <2>7, <2>8, <2>9, <2>10, <2>11 DEF FileInv, SentUpTo
  <2> QED
    BY <2>7, <2>12 DEF BodyInv
<1> QED
    BY <1>4, <1>5 DEF WriteRegion

\* The bytes of a range are all in the samples that are rendered for it.
LEMMA RangeWritten ==
    ASSUME AnswerInv, WriteRange PROVE BodyInv'
<1> DEFINE pcm_start == body.cursor - WAV_HEADER_BYTES
           pcm_end == body.promised[2] - WAV_HEADER_BYTES
           first == pcm_start \div FRAME_BYTES
           last == SamplesUpTo(pcm_end)
<1>1. body \in FileBody /\ FileInv /\ body.phase = "regions" /\ body.kind = "range"
    BY DEF WriteRange, Writing, AnswerInv, BodyInv, BareBody, SpectrumBody
<1>2. frames = <<>> /\ frames' = frames
    BY <1>1 DEF WriteRange, FileInv
<1>3. /\ body.cursor \in Nat /\ body.promised \in Nat \X Nat
      /\ body.promised[1] < body.promised[2] /\ body.start <= body.end
      /\ body.cursor < body.promised[2]
      /\ IF sent = <<>> THEN body.cursor = body.promised[1] ELSE SentUpTo(body.cursor)
    BY <1>1 DEF FileBody, FileInv
<1>4. pcm_end - first * FRAME_BYTES <= (last - first) * FRAME_BYTES
  <2>1. pcm_end \in Int /\ pcm_start \in Int
    BY <1>3, BodiesAssumption
  <2> HIDE DEF pcm_end, pcm_start
  <2> QED
    BY <2>1 DEF SamplesUpTo, FRAME_BYTES
<1>5. CASE \E how \in {"out of bounds", "unrenderable"} : Fail(how)
    BY <1>1, <1>2, <1>5, FileEndsEarly DEF Fail
<1>6. CASE Writes(body.cursor, body.promised[2]) /\ Ended("done")
  <2>1. /\ body' \in FileBody /\ body'.phase = "done" /\ body'.kind = body.kind
        /\ body'.start = body.start /\ body'.end = body.end
        /\ body'.cursor = body.cursor /\ body'.promised = body.promised
    BY <1>1, <1>6 DEF FileBody, Ended
  <2>2. Covers(sent', body.promised[1], body.promised[2])
    <3>1. CASE sent = <<>>
        BY <1>3, <1>6, <3>1, FirstWrite DEF Writes
    <3>2. CASE sent # <<>>
        BY <1>3, <1>6, <3>2, NextWrite DEF Writes, SentUpTo
    <3> QED
        BY <3>1, <3>2
  <2>3. SentUpTo(body.promised[2])' /\ body'.promised[2] \in 0 .. body'.promised[2]
    BY <1>3, <2>1, <2>2 DEF SentUpTo
  <2>4. FileInv'
    BY <1>1, <1>2, <1>3, <2>1, <2>3 DEF FileInv
  <2> QED
    BY <2>1, <2>4 DEF BodyInv
<1>7. \/ \E how \in {"out of bounds", "unrenderable"} : Fail(how)
      \/ Writes(body.cursor, body.promised[2]) /\ Ended("done")
  <2>1. pcm_end \in Int /\ pcm_start \in Int
    BY <1>3, BodiesAssumption
  <2> HIDE DEF pcm_end, pcm_start
  <2>2. first \in Int /\ last \in Int
    BY <2>1 DEF SamplesUpTo, FRAME_BYTES
  <2>3. ~(pcm_end - first * FRAME_BYTES > (last - first) * FRAME_BYTES)
    BY <1>4, <2>1, <2>2 DEF FRAME_BYTES
  <2> QED
    BY <2>3 DEF WriteRange, pcm_end, pcm_start
<1> QED
    BY <1>5, <1>6, <1>7

----------------------------------------------------------------------------
(* Spectra *)

\* The frames of a stretch of a song, the last one of them begun if not whole.
LEMMA FrameCounts ==
    ASSUME NEW n \in Nat
    PROVE  /\ FrameCount(n) \in Nat
           /\ FrameCount(0) = 0
           /\ \A q \in Nat : FrameCount(q * SPECTRUM_FRAME_SAMPLES + n) = q + FrameCount(n)
           /\ \A k \in 1 .. FrameCount(n) : (k - 1) * SPECTRUM_FRAME_SAMPLES < n
<1> DEFINE F == SPECTRUM_FRAME_SAMPLES
           c == FrameCount(n)
<1>1. F \in Nat \ {0}
    BY BodiesAssumption
<1>2. n + F - 1 \in Nat
    BY <1>1
<1>3. c \in Nat /\ c * F <= n + F - 1
    BY <1>1, <1>2 DEF FrameCount
<1>4. FrameCount(0) = 0
    BY <1>1 DEF FrameCount
<1>5. ASSUME NEW q \in Nat
      PROVE  FrameCount(q * F + n) = q + FrameCount(n)
  <2>1. q * F + n + F - 1 = (n + F - 1) + q * F
    BY <1>1
  <2>2. ((n + F - 1) + q * F) \div F = q + (n + F - 1) \div F
    BY <1>1, <1>2
  <2> QED
    BY <2>1, <2>2 DEF FrameCount
<1> HIDE DEF F, c
<1>6. ASSUME NEW k \in 1 .. c
      PROVE  (k - 1) * F < n
  <2>1. k * F <= c * F
    BY <1>1, <1>3
  <2>2. (k - 1) * F = k * F - F
    BY <1>1
  <2> QED
    BY <1>1, <1>3, <2>1, <2>2
<1> QED
    BY <1>3, <1>4, <1>5, <1>6 DEF F, c

\* The longest region has whole frames.
LEMMA WholeFrames ==
    \E m \in Nat : AUDIO_RANGE_SAMPLES = m * SPECTRUM_FRAME_SAMPLES
<1> DEFINE m == MAX_REGION \div SPECTRUM_FRAME_SAMPLES
<1>1. m \in Nat /\ MAX_REGION = m * SPECTRUM_FRAME_SAMPLES
    BY BodiesAssumption
<1> QED
    BY <1>1 DEF AUDIO_RANGE_SAMPLES

\* A frame sees as much in its region as it would in the whole song.
LEMMA FrameSees ==
    ASSUME NEW p \in Projects, NEW of, NEW cursor \in Nat, NEW centre \in Nat,
           NEW chunk_end \in Nat, cursor <= centre, centre < chunk_end
    PROVE  SpectrumFrame(of, centre, AtLeast0(cursor - SPECTRUM_FFT_SAMPLES \div 2),
                         RenderEnd(p, chunk_end)) = FrameAt(p, of, centre)
<1> DEFINE half == SPECTRUM_FFT_SAMPLES \div 2
           n == SampleCount(p)
<1>1. half \in Nat /\ n \in Nat
    BY BodiesAssumption, Lengths
<1> HIDE DEF half, n
<1>2. Larger(centre - half, AtLeast0(cursor - half)) = AtLeast0(centre - half)
    BY <1>1 DEF Larger, AtLeast0
<1>3. Smaller(centre + half, Smaller(chunk_end + half, n)) = Smaller(centre + half, n)
    BY <1>1 DEF Smaller
<1> QED
    BY <1>2, <1>3 DEF SpectrumFrame, RenderEnd, FrameAt, half, n

\* A frame is a frame.
LEMMA FrameType ==
    ASSUME NEW p \in Projects, NEW of \in Nat, NEW centre \in Nat
    PROVE  FrameAt(p, of, centre) \in Frame
<1>1. SPECTRUM_FFT_SAMPLES \div 2 \in Nat /\ SampleCount(p) \in Nat
    BY BodiesAssumption, Lengths
<1> QED
    BY <1>1 DEF FrameAt, Frame, AtLeast0, Smaller

\* A spectrum that is cached, or that is to be made.
LEMMA SpectrumBegins ==
    ASSUME AnswerInv, NEW asked, NEW ms \in StartTimes, NEW window \in Windows,
           track_spectrum_response(asked, ms, window)
    PROVE  BodyInv'
<1> DEFINE start == playback_start_sample_milliseconds(ms)
           width == playback_start_sample_milliseconds(Larger(window, 1))
           last == Smaller(start + width, SampleCount(project))
           plan(phase) ==
              [phase |-> phase, kind |-> "spectrum", project |-> project,
               version |-> version, start_milliseconds |-> ms,
               start |-> start, end |-> last, cursor |-> start,
               promised |-> FrameCount(last - start)]
<1>1. /\ project \in Projects /\ version \in Nat /\ ms \in Nat /\ CacheInv
      /\ start \in Nat /\ width \in Nat /\ SampleCount(project) \in Nat
  <2>1. Larger(window, 1) \in Nat
    BY InputsAssumption DEF Larger
  <2> QED
    BY <2>1, InputsAssumption, Lengths, Times DEF AnswerInv
<1>2. sent = <<>> /\ frames = <<>> /\ UNCHANGED <<sent, project, version>>
    BY NothingYet DEF track_spectrum_response, Stays
<1>3. \/ body' = Refusal /\ frames' = frames
      \/ /\ start < SampleCount(project) /\ body' = plan("done") /\ frames' = cache.frames
         /\ <<cache.version, cache.start_milliseconds, cache.end>> = <<version, ms, last>>
         /\ Len(cache.frames) = FrameCount(last - start)
      \/ start < SampleCount(project) /\ body' = plan("frames") /\ frames' = frames
    BY <1>1 DEF track_spectrum_response, cache_key, FrameCount
<1>4. CASE body' = Refusal /\ frames' = frames
    BY <1>2, <1>4 DEF Refusal, BodyInv, BareBody
<1>5. CASE start < SampleCount(project)
           /\ \E phase \in {"done", "frames"} : body' = plan(phase)
  <2>1. PICK phase \in {"done", "frames"} : body' = plan(phase)
    BY <1>5
  <2>2. last \in Nat /\ start <= last /\ last <= SampleCount(project)
    BY <1>1, <1>5 DEF Smaller
  <2>3. FrameCount(last - start) \in Nat
    <3>1. last - start \in Nat
        BY <1>1, <2>2
    <3> QED
        BY <3>1, FrameCounts
  <2>4. \/ phase = "frames" /\ frames' = <<>>
        \/ /\ phase = "done" /\ frames' = cache.frames
           /\ cache.version = version /\ cache.start_milliseconds = ms
           /\ Len(cache.frames) = FrameCount(last - start)
    BY <1>2, <1>3, <2>1 DEF Refusal
  <2>5. start = playback_start_sample_milliseconds(ms)
    OBVIOUS
  <2> HIDE DEF start, last
  <2>6. body' \in SpectrumBody
    BY <1>1, <2>1, <2>2, <2>3 DEF SpectrumBody
  <2>7. frames' \in Seq(Frame) /\ FramesOf(frames', project, version, start)
    <3>1. CASE frames' = <<>>
        BY <3>1 DEF FramesOf
    <3>2. CASE frames' = cache.frames /\ cache.version = version
               /\ cache.start_milliseconds = ms
        BY <1>1, <2>5, <3>2 DEF CacheInv
    <3> QED
        BY <2>4, <3>1, <3>2
  <2>8. phase = "frames" => start = start + Len(frames') * SPECTRUM_FRAME_SAMPLES
    <3>1. Len(<<>>) * SPECTRUM_FRAME_SAMPLES = 0
        BY BodiesAssumption
    <3> QED
        BY <1>1, <2>4, <3>1
  <2>9. phase = "done" => Len(frames') = FrameCount(last - start)
    BY <2>4
  <2>10. SpectrumInv'
    BY <1>1, <1>2, <2>1, <2>2, <2>5, <2>7, <2>8, <2>9 DEF SpectrumInv
  <2> QED
    BY <2>6, <2>10 DEF BodyInv
<1> QED
    BY <1>3, <1>4, <1>5

\* A spectrum that ends early has the frames it has.
LEMMA SpectrumEndsEarly ==
    ASSUME body \in SpectrumBody, SpectrumInv,
           NEW how \in {"unrenderable", "cancelled"},
           Ended(how), UNCHANGED <<project, version, sent, frames>>
    PROVE  BodyInv'
<1>1. body' \in SpectrumBody /\ body'.phase = how
    BY DEF SpectrumBody, Ended
<1>2. /\ body'.start = body.start /\ body'.end = body.end /\ body'.cursor = body.cursor
      /\ body'.version = body.version /\ body'.project = body.project
      /\ body'.start_milliseconds = body.start_milliseconds
      /\ body'.promised = body.promised
    BY DEF SpectrumBody, Ended
<1> QED
    BY <1>1, <1>2 DEF BodyInv, SpectrumInv

\* The frames of one region follow those of the regions before it.
LEMMA ChunkMade ==
    ASSUME AnswerInv, SpectrumChunk PROVE BodyInv'
<1> DEFINE F == SPECTRUM_FRAME_SAMPLES
           chunk_end == Smaller(body.cursor + AUDIO_RANGE_SAMPLES, body.end)
           start == AtLeast0(body.cursor - SPECTRUM_FFT_SAMPLES \div 2)
           last == RenderEnd(body.project, chunk_end)
           count == FrameCount(chunk_end - body.cursor)
           made == [k \in 1 .. count |->
                       SpectrumFrame(body.version, body.cursor + (k - 1) * F, start, last)]
           phase == IF chunk_end = body.end THEN "save" ELSE body.phase
           n == Len(frames)
<1>1. body \in SpectrumBody /\ SpectrumInv /\ body.phase = "frames"
    BY DEF SpectrumChunk, AnswerInv, BodyInv, BareBody, FileBody
<1>2. /\ body.project \in Projects /\ body.version \in Nat /\ body.promised \in Nat
      /\ body.start \in Nat /\ body.end \in Nat /\ body.cursor \in Nat
      /\ body.start <= body.cursor /\ body.cursor <= body.end
      /\ body.cursor = body.start + n * F
      /\ frames \in Seq(Frame) /\ n \in Nat
    BY <1>1 DEF SpectrumBody, SpectrumInv
<1>3. F \in Nat \ {0} /\ AUDIO_RANGE_SAMPLES \in Nat \ {0}
    BY BodiesAssumption DEF AUDIO_RANGE_SAMPLES
<1>4. UNCHANGED <<project, version, sent>>
    BY DEF SpectrumChunk, Stays, Fail
<1>5. CASE Fail("unrenderable") /\ UNCHANGED frames
    BY <1>1, <1>4, <1>5, SpectrumEndsEarly DEF Fail
<1>6. CASE frames' = frames \o made
           /\ body' = [body EXCEPT !.cursor = chunk_end, !.phase = phase]
  <2>1. /\ chunk_end \in Nat /\ body.cursor <= chunk_end /\ chunk_end <= body.end
        /\ chunk_end = body.end \/ chunk_end = body.cursor + AUDIO_RANGE_SAMPLES
    BY <1>2, <1>3 DEF Smaller
  <2>2. /\ phase \in {"frames", "save"}
        /\ phase = "frames" => chunk_end = body.cursor + AUDIO_RANGE_SAMPLES
        /\ phase = "save" => chunk_end = body.end
    BY <1>1, <2>1
  <2> HIDE DEF chunk_end, phase
  <2>3. chunk_end - body.cursor \in Nat /\ count \in Nat
    <3>1. chunk_end - body.cursor \in Nat
        BY <1>2, <2>1
    <3> QED
        BY <3>1, FrameCounts
  <2>4. ASSUME NEW k \in 1 .. count
        PROVE  /\ made[k] = FrameAt(body.project, body.version, body.cursor + (k - 1) * F)
               /\ made[k] \in Frame
    <3>1. (k - 1) * F < chunk_end - body.cursor
        BY <2>3, FrameCounts
    <3>2. (k - 1) * F \in Nat
        BY <1>3, <2>3
    <3> DEFINE centre == body.cursor + (k - 1) * F
    <3>3. centre \in Nat /\ body.cursor <= centre /\ centre < chunk_end
        BY <1>2, <2>1, <3>1, <3>2
    <3>4. made[k] = SpectrumFrame(body.version, centre, start, last)
        OBVIOUS
    <3> HIDE DEF centre, made
    <3>5. made[k] = FrameAt(body.project, body.version, centre)
        BY <1>2, <2>1, <3>3, <3>4, FrameSees
    <3> QED
        BY <1>2, <3>3, <3>5, FrameType DEF centre
  <2>5. made \in Seq(Frame) /\ Len(made) = count
    <3>1. made \in [1 .. count -> Frame]
        BY <2>4
    <3> HIDE DEF made, count
    <3>2. made \in Seq(Frame)
        BY <2>3, <3>1, SeqDef
    <3>3. DOMAIN made = 1 .. Len(made) /\ Len(made) \in Nat
        BY <3>2, LenProperties
    <3> QED
        BY <2>3, <3>1, <3>2, <3>3
  <2> HIDE DEF made
  <2>6. /\ frames' \in Seq(Frame) /\ Len(frames') = n + count
        /\ \A k \in 1 .. n : frames'[k] = frames[k]
        /\ \A k \in n + 1 .. n + count : frames'[k] = made[k - n]
    <3>1. /\ frames' \in Seq(Frame) /\ Len(frames') = Len(frames) + Len(made)
          /\ \A k \in 1 .. Len(frames) + Len(made) :
                frames'[k] = IF k <= Len(frames) THEN frames[k] ELSE made[k - Len(frames)]
        BY <1>2, <1>6, <2>5, ConcatProperties
    <3>2. count \in Nat
        BY <2>3
    <3> HIDE DEF count
    <3> QED
        BY <1>2, <2>5, <3>1, <3>2
  <2>7. FramesOf(frames', body.project, body.version, body.start)
    <3>1. ASSUME NEW k \in 1 .. n + count
          PROVE  frames'[k] = FrameAt(body.project, body.version, body.start + (k - 1) * F)
      <4>1. CASE k \in 1 .. n
        BY <1>1, <2>6, <4>1 DEF SpectrumInv, FramesOf
      <4>2. CASE k \notin 1 .. n
        <5>1. k - n \in 1 .. count /\ k \in n + 1 .. n + count
            BY <1>2, <2>3, <4>2
        <5>2. (k - 1) * F = n * F + ((k - n) - 1) * F
            BY <1>2, <1>3, <2>3
        <5>3. n * F \in Int /\ ((k - n) - 1) * F \in Int
            BY <1>2, <1>3, <2>3
        <5>4. body.start + (k - 1) * F = body.cursor + ((k - n) - 1) * F
            BY <1>2, <5>2, <5>3
        <5> QED
            BY <2>4, <2>6, <5>1, <5>4
      <4> QED
        BY <4>1, <4>2
    <3> QED
        BY <2>6, <3>1 DEF FramesOf
  <2>8. phase = "frames" => chunk_end = body.start + Len(frames') * F
    <3>1. PICK m \in Nat : AUDIO_RANGE_SAMPLES = m * F
        BY WholeFrames
    <3>2. FrameCount(m * F) = m
      <4>1. m * F + 0 = m * F
        BY <1>3
      <4>2. FrameCount(m * F + 0) = m + FrameCount(0) /\ FrameCount(0) = 0
        BY FrameCounts
      <4> QED
        BY <4>1, <4>2
    <3>3. ASSUME phase = "frames"
          PROVE  count = m /\ chunk_end = body.cursor + m * F
        BY <1>2, <1>3, <2>2, <3>1, <3>2, <3>3
    <3>4. (n + m) * F = n * F + m * F /\ n * F \in Nat /\ m * F \in Nat
        BY <1>2, <1>3
    <3> QED
        BY <1>2, <2>6, <3>3, <3>4
  <2>9. phase = "save" => Len(frames') = body.promised
    <3>1. body.end - body.cursor \in Nat
        BY <1>2
    <3>2. FrameCount(n * F + (body.end - body.cursor)) = n + FrameCount(body.end - body.cursor)
        BY <1>2, <3>1, FrameCounts
    <3>3. n * F \in Nat
        BY <1>2, <1>3
    <3>4. n * F + (body.end - body.cursor) = body.end - body.start
        BY <1>2, <3>3
    <3>5. body.promised = FrameCount(body.end - body.start)
        BY <1>1 DEF SpectrumInv
    <3> QED
        BY <2>2, <2>6, <3>2, <3>4, <3>5
  <2>10. /\ body' \in SpectrumBody /\ body'.phase = phase /\ body'.cursor = chunk_end
         /\ body'.start = body.start /\ body'.end = body.end
         /\ body'.version = body.version /\ body'.project = body.project
         /\ body'.start_milliseconds = body.start_milliseconds
         /\ body'.promised = body.promised
    BY <1>1, <1>6, <2>1, <2>2 DEF SpectrumBody
  <2>11. body.start <= chunk_end
    BY <1>2, <2>1
  <2>12. SpectrumInv'
    BY <1>1, <1>4, <2>1, <2>2, <2>6, <2>7, <2>8, <2>9, <2>10, <2>11 DEF SpectrumInv
  <2> QED
    BY <2>10, <2>12 DEF BodyInv
<1> QED
    BY <1>5, <1>6 DEF SpectrumChunk, FrameCount

\* A saved spectrum is that of the open project, or of a version that is gone.
LEMMA SpectrumSaved ==
    ASSUME AnswerInv, SaveSpectrum PROVE BodyInv' /\ CacheInv'
<1>1. body \in SpectrumBody /\ SpectrumInv /\ body.phase = "save"
    BY DEF SaveSpectrum, AnswerInv, BodyInv, BareBody, FileBody
<1>2. UNCHANGED <<project, version, sent, frames>> /\ Ended("done")
    BY DEF SaveSpectrum
<1>3. BodyInv'
  <2>1. body' \in SpectrumBody /\ body'.phase = "done"
    BY <1>1, <1>2 DEF SpectrumBody, Ended
  <2>2. /\ body'.start = body.start /\ body'.end = body.end /\ body'.cursor = body.cursor
        /\ body'.version = body.version /\ body'.project = body.project
        /\ body'.start_milliseconds = body.start_milliseconds
        /\ body'.promised = body.promised
    BY <1>1, <1>2 DEF SpectrumBody, Ended
  <2> QED
    BY <1>1, <1>2, <2>1, <2>2 DEF BodyInv, SpectrumInv
<1>4. /\ cache'.version = body.version /\ cache'.frames = frames
      /\ cache'.start_milliseconds = body.start_milliseconds
    BY DEF SaveSpectrum
<1>5. body.version \in Nat
    BY <1>1 DEF SpectrumBody
<1> QED
    BY <1>1, <1>2, <1>3, <1>4, <1>5 DEF CacheInv, SpectrumInv

----------------------------------------------------------------------------
(* Every step *)

\* An answer that is refused or given at once has no body to write.
LEMMA AnalysisAnswers ==
    ASSUME AnswerInv, NEW analysis, Analyse(analysis) PROVE BodyInv'
<1>1. project \in Projects /\ sent' = <<>> /\ frames' = <<>>
    BY NothingYet DEF Analyse, AnswerInv
<1>2. \/ body' = Refusal
      \/ body' = [phase |-> "done", kind |-> "analysis", project |-> project]
    BY DEF Analyse
<1> QED
    BY <1>1, <1>2 DEF Refusal, BodyInv, BareBody

\* A client that goes leaves what has been written.
LEMMA CancelKeeps ==
    ASSUME AnswerInv, Cancel PROVE BodyInv'
<1>1. Ended("cancelled") /\ UNCHANGED <<project, version, sent, frames>>
    BY DEF Cancel, Stays
<1>2. \/ body \in FileBody /\ FileInv
      \/ body \in SpectrumBody /\ SpectrumInv
    BY DEF Cancel, Active, AnswerInv, BodyInv, BareBody
<1> QED
    BY <1>1, <1>2, FileEndsEarly, SpectrumEndsEarly

\* A change takes the version of every spectrum and of the cache out of use.
LEMMA ChangeKeeps ==
    ASSUME AnswerInv, ChangeProject PROVE AnswerInv'
<1>1. /\ project' \in Projects /\ version \in Nat \ {0} /\ version' = version + 1
      /\ UNCHANGED <<body, sent, frames, cache>>
    BY DEF ChangeProject, AnswerInv
<1>2. CacheInv'
    BY <1>1 DEF AnswerInv, CacheInv
<1>3. CASE body \in BareBody /\ sent = <<>> /\ frames = <<>>
    BY <1>1, <1>2, <1>3 DEF AnswerInv, BodyInv
<1>4. CASE body \in FileBody /\ FileInv
    BY <1>1, <1>2, <1>4 DEF AnswerInv, BodyInv, FileInv, SentUpTo
<1>5. CASE body \in SpectrumBody /\ SpectrumInv
  <2>1. body.version \in Nat
    BY <1>5 DEF SpectrumBody
  <2> QED
    BY <1>1, <1>2, <1>5, <2>1 DEF AnswerInv, BodyInv, SpectrumInv
<1> QED
    BY <1>3, <1>4, <1>5 DEF AnswerInv, BodyInv

\* At the start nobody has asked for anything.
LEMMA InitAnswer == Init => AnswerInv
    BY DEF Init, AnswerInv, BodyInv, BareBody, NoBody, CacheInv, NoCache

\* The answer invariant is inductive.
LEMMA AnswerInductive == AnswerInv /\ [Next]_vars => AnswerInv'
<1> SUFFICES ASSUME AnswerInv, [Next]_vars PROVE AnswerInv'
    OBVIOUS
<1>1. ASSUME BodyInv', Stays PROVE AnswerInv'
    BY <1>1 DEF Stays, AnswerInv, CacheInv
<1>2. CASE \E asked \in 1 .. version, ms \in StartTimes, header \in RangeHeaders :
              playback_response(asked, ms, header)
  <2>1. Stays
    BY <1>2 DEF playback_response, Answer
  <2> QED
    BY <1>1, <1>2, <2>1, PlaybackBegins
<1>3. CASE export_response
  <2>1. Stays
    BY <1>3 DEF export_response, Answer
  <2> QED
    BY <1>1, <1>3, <2>1, ExportBegins
<1>4. CASE \E asked \in 1 .. version, ms \in StartTimes, window \in Windows :
              track_spectrum_response(asked, ms, window)
  <2>1. Stays
    BY <1>4 DEF track_spectrum_response
  <2> QED
    BY <1>1, <1>4, <2>1, SpectrumBegins
<1>5. CASE \E analysis \in Analyses : Analyse(analysis)
  <2>1. Stays
    BY <1>5 DEF Analyse
  <2> QED
    BY <1>1, <1>5, <2>1, AnalysisAnswers
<1>6. CASE WriteHeader
  <2>1. Stays
    BY <1>6 DEF WriteHeader
  <2> QED
    BY <1>1, <1>6, <2>1, HeaderWritten
<1>7. CASE WriteChunk \/ WriteExport
  <2>1. PICK longest \in {PLAYBACK_CHUNK_SAMPLES, AUDIO_RANGE_SAMPLES} :
            WriteRegion(longest) /\ (Writing("stream") \/ Writing("export"))
    BY <1>7 DEF WriteChunk, WriteExport
  <2>2. longest \in Nat
    BY BodiesAssumption DEF AUDIO_RANGE_SAMPLES
  <2>3. Stays /\ body.phase = "regions" /\ body.kind \in {"stream", "export"}
    BY <2>1 DEF WriteRegion, Writing
  <2> QED
    BY <1>1, <2>1, <2>2, <2>3, RegionWritten
<1>8. CASE WriteRange
  <2>1. Stays
    BY <1>8 DEF WriteRange
  <2> QED
    BY <1>1, <1>8, <2>1, RangeWritten
<1>9. CASE SpectrumChunk
  <2>1. Stays
    BY <1>9 DEF SpectrumChunk
  <2> QED
    BY <1>1, <1>9, <2>1, ChunkMade
<1>10. CASE SaveSpectrum
  <2>1. UNCHANGED <<project, version>>
    BY <1>10 DEF SaveSpectrum
  <2> QED
    BY <1>10, <2>1, SpectrumSaved DEF AnswerInv
<1>11. CASE Cancel
  <2>1. Stays
    BY <1>11 DEF Cancel
  <2> QED
    BY <1>1, <1>11, <2>1, CancelKeeps
<1>12. CASE Close
  <2>1. Stays /\ body' = NoBody /\ sent' = <<>> /\ frames' = <<>>
    BY <1>12 DEF Close
  <2> QED
    BY <1>1, <2>1 DEF NoBody, BodyInv, BareBody
<1>13. CASE ChangeProject
    BY <1>13, ChangeKeeps
<1>14. CASE UNCHANGED vars
  <2>1. UNCHANGED <<project, version, body, sent, frames, cache>>
    BY <1>14 DEF vars
  <2>2. BodyInv'
    BY <2>1 DEF AnswerInv, BodyInv, FileInv, SentUpTo, SpectrumInv
  <2> QED
    BY <1>1, <2>1, <2>2 DEF Stays
<1> QED
    BY <1>2, <1>3, <1>4, <1>5, <1>6, <1>7, <1>8, <1>9, <1>10, <1>11, <1>12, <1>13, <1>14
       DEF Next

\* The answer invariant holds in every state.
LEMMA AnswerInvariant == Spec => []AnswerInv
    BY InitAnswer, AnswerInductive, PTL DEF Spec

----------------------------------------------------------------------------
(* What a render plays *)

\* What is said of the engine's numbers.
LEMMA EngineNumbers ==
    /\ SAMPLE_RATE \in Nat \ {0} /\ BLOCK_SIZE \in Nat \ {0} /\ TICKS \in Nat \ {0}
    /\ SHORTEST_GATE \in Nat \ {0} /\ VOICE_TAIL \in Nat \ {0} /\ DSP_SETTLING \in Nat \ {0}
    /\ EPSILON \in Nat /\ 4 * EPSILON <= TICKS
    /\ BLOCK_SIZE * TICKS \in Nat /\ TICKS <= BLOCK_SIZE * TICKS
    /\ BLOCK_SIZE * TICKS <= SHORTEST_GATE /\ SHORTEST_GATE <= VOICE_TAIL
    /\ BLOCK_SIZE * TICKS <= DSP_SETTLING
<1>1. /\ SAMPLE_RATE \in Nat \ {0} /\ BLOCK_SIZE \in Nat \ {0} /\ TICKS \in Nat \ {0}
      /\ SHORTEST_GATE \in Nat \ {0} /\ VOICE_TAIL \in Nat \ {0} /\ DSP_SETTLING \in Nat \ {0}
      /\ EPSILON \in Nat /\ 4 * EPSILON <= TICKS
      /\ SHORTEST_GATE >= BLOCK_SIZE * TICKS /\ SHORTEST_GATE <= VOICE_TAIL
      /\ BLOCK_SIZE * TICKS <= DSP_SETTLING
    BY RenderAssumption
<1>2. \A b, t \in Nat \ {0} : b * t \in Nat /\ t <= b * t
  <2> SUFFICES ASSUME NEW b \in Nat \ {0}, NEW t \in Nat \ {0} PROVE b * t \in Nat /\ t <= b * t
      OBVIOUS
  <2>1. b - 1 \in Nat /\ (b - 1) * t \in Nat /\ b * t = (b - 1) * t + t
      OBVIOUS
  <2> QED BY <2>1
<1> QED BY <1>1, <1>2

\* Division gives the number of times that a divisor fits.
LEMMA Divides ==
    ASSUME NEW n \in Int, NEW d \in Nat \ {0}
    PROVE  n \div d \in Int /\ (n \div d) * d <= n /\ n < (n \div d) * d + d
OBVIOUS

\* Multiples are in the order of what they are multiples of.
LEMMA Multiples ==
    ASSUME NEW d \in Nat \ {0}, NEW m \in Int, NEW n \in Int
    PROVE  /\ m <= n => m * d <= n * d
           /\ m * d < n * d => m < n
           /\ (m + 1) * d = m * d + d
           /\ (m - 1) * d = m * d - d
<1>1. ASSUME NEW i \in Int, NEW j \in Int, i <= j PROVE i * d <= j * d
  <2>1. j - i \in Nat /\ (j - i) * d \in Nat /\ (j - i) * d = j * d - i * d
      BY <1>1
  <2> QED BY <2>1
<1>2. m * d < n * d => m < n
  <2> SUFFICES ASSUME n <= m PROVE n * d <= m * d
      OBVIOUS
  <2> QED BY <1>1
<1> QED BY <1>1, <1>2

\* The first block that begins with or after a sample, among the multiples of a block.
LEMMA GridSteps ==
    ASSUME NEW x \in Int, NEW m \in Int
    PROVE  /\ Grid(x) \in Int
           /\ x <= m * BLOCK_SIZE => Grid(x) <= m * BLOCK_SIZE
           /\ x > (m - 1) * BLOCK_SIZE => Grid(x) >= m * BLOCK_SIZE
<1> DEFINE b == BLOCK_SIZE
           q == (x + b - 1) \div b
<1>1. b \in Nat \ {0}
    BY EngineNumbers
<1>2. x + b - 1 \in Int
    BY <1>1
<1>3. q \in Int /\ q * b <= x + b - 1 /\ x + b - 1 < q * b + b
    BY <1>1, <1>2, Divides
<1>4. Grid(x) = q * b
    BY DEF Grid
<1> HIDE DEF q, b
<1>5. q * b \in Int /\ m * b \in Int /\ (m + 1) * b = m * b + b /\ (m - 1) * b = m * b - b
      /\ (q + 1) * b = q * b + b /\ m + 1 \in Int /\ q + 1 \in Int
    BY <1>1, <1>3, Multiples
<1>6. ASSUME x <= m * b PROVE q * b <= m * b
  <2>1. q * b < (m + 1) * b
      BY <1>1, <1>3, <1>5, <1>6
  <2>2. q < m + 1
      BY <1>1, <1>3, <1>5, <2>1, Multiples
  <2>3. q <= m
      BY <1>3, <2>2
  <2> QED BY <1>1, <1>3, <2>3, Multiples
<1>7. ASSUME x > (m - 1) * b PROVE q * b >= m * b
  <2>1. m * b < (q + 1) * b
      BY <1>1, <1>3, <1>5, <1>7
  <2>2. m < q + 1
      BY <1>1, <1>3, <1>5, <2>1, Multiples
  <2>3. m <= q
      BY <1>3, <2>2
  <2> QED BY <1>1, <1>3, <2>3, Multiples
<1> QED BY <1>4, <1>5, <1>6, <1>7 DEF b

\* The sample a moment falls on.
LEMMA SampleOfMoment ==
    ASSUME NEW time \in Int
    PROVE  /\ midi_event_sample(time) \in Int
           /\ 2 * midi_event_sample(time) * TICKS <= 2 * time + TICKS
           /\ 2 * time + TICKS < 2 * midi_event_sample(time) * TICKS + 2 * TICKS
<1>1. 2 * TICKS \in Nat \ {0} /\ 2 * time + TICKS \in Int /\ TICKS \in Nat
    BY EngineNumbers
<1> DEFINE s == midi_event_sample(time)
<1>2. s = (2 * time + TICKS) \div (2 * TICKS)
    BY DEF midi_event_sample
<1>3. s \in Int /\ s * (2 * TICKS) <= 2 * time + TICKS
      /\ 2 * time + TICKS < s * (2 * TICKS) + 2 * TICKS
    BY <1>1, <1>2, Divides
<1> HIDE DEF s
<1>4. s * (2 * TICKS) = 2 * s * TICKS
    BY <1>1, <1>3
<1> QED BY <1>3, <1>4 DEF s

\* A note as it is played: when, from which sample, and until which at the latest.
LEMMA OccurrenceTimes ==
    ASSUME NEW p, NEW c, IsClip(p.clips[c]),
           NEW e \in DOMAIN p.clips[c].events, NEW cycle \in Nat
    PROVE  LET clip == p.clips[c]
               o == Occurrence(p, c, e, cycle)
           IN  /\ o.time = clip.source_start + cycle * clip.loop + clip.events[e].time
               /\ o.time \in Nat /\ o.on \in Nat /\ o.off \in Int /\ o.on < o.off
               /\ 2 * o.on * TICKS <= 2 * o.time + TICKS
               /\ 2 * o.time + TICKS < 2 * o.on * TICKS + 2 * TICKS
               /\ 2 * o.off * TICKS
                    <= 2 * (o.time + Larger(clip.events[e].duration, SHORTEST_GATE)) + TICKS
<1> DEFINE clip == p.clips[c]
           time == clip.source_start + cycle * clip.loop + clip.events[e].time
           duration == clip.events[e].duration
           held == Larger(Smaller(duration, AtLeast0(clip.end - time)), SHORTEST_GATE)
           on == midi_event_sample(time)
           off == midi_event_sample(time + held)
<1>1. Occurrence(p, c, e, cycle) = [note |-> <<c, e, cycle>>, time |-> time, on |-> on, off |-> off]
    BY DEF Occurrence
<1>2. /\ clip.source_start \in Nat /\ clip.loop \in Nat /\ clip.end \in Nat
      /\ clip.events[e].time \in Nat /\ duration \in Nat
    BY DEF IsClip, IsNote
<1>3. time \in Nat
  <2>1. cycle * clip.loop \in Nat
      BY <1>2
  <2> QED BY <1>2, <2>1
<1> HIDE DEF time, duration, clip
<1>4. held \in Nat /\ held <= Larger(duration, SHORTEST_GATE) /\ TICKS <= held
      /\ Larger(duration, SHORTEST_GATE) \in Nat /\ TICKS \in Nat \ {0}
    BY <1>2, <1>3, EngineNumbers DEF Larger, Smaller, AtLeast0, clip
<1> HIDE DEF held
<1>5. /\ on \in Int /\ 2 * on * TICKS <= 2 * time + TICKS
      /\ 2 * time + TICKS < 2 * on * TICKS + 2 * TICKS
    BY <1>3, SampleOfMoment
<1>6. /\ off \in Int /\ 2 * off * TICKS <= 2 * (time + held) + TICKS
      /\ 2 * (time + held) + TICKS < 2 * off * TICKS + 2 * TICKS
  <2>1. time + held \in Int
      BY <1>3, <1>4
  <2> QED BY <2>1, SampleOfMoment
<1> HIDE DEF on, off
<1>7. on * TICKS \in Int /\ off * TICKS \in Int /\ (on + 1) * TICKS = on * TICKS + TICKS
      /\ 2 * on * TICKS = 2 * (on * TICKS) /\ 2 * off * TICKS = 2 * (off * TICKS)
      /\ (off + 1) * TICKS = off * TICKS + TICKS
    BY <1>4, <1>5, <1>6
<1>8. on < off
  <2>1. on * TICKS < off * TICKS
      BY <1>3, <1>4, <1>5, <1>6, <1>7
  <2> QED BY <1>4, <1>5, <1>6, <2>1, Multiples
<1>9. on \in Nat
  <2>1. 0 * TICKS < (on + 1) * TICKS
      BY <1>3, <1>4, <1>5, <1>7
  <2>2. 0 < on + 1
    <3>1. on + 1 \in Int /\ 0 \in Int
        BY <1>5
    <3> QED BY <1>4, <2>1, <3>1, Multiples
  <2> QED BY <1>5, <2>2
<1>10. 2 * off * TICKS <= 2 * (time + Larger(duration, SHORTEST_GATE)) + TICKS
    BY <1>3, <1>4, <1>6, <1>7
<1> QED BY <1>1, <1>3, <1>5, <1>6, <1>8, <1>9, <1>10 DEF time, duration, clip

\* How long voices may live bounds how long each note of a track is held.
LEMMA LifetimeBounds ==
    ASSUME NEW p, IsSong(p), NEW track
    PROVE  /\ maximum_voice_lifetime(p, track) \in Nat
           /\ \A c \in DOMAIN p.clips : \A e \in RoutedEvents(p, track, c) :
                  p.clips[c].events[e].duration + VOICE_TAIL <= maximum_voice_lifetime(p, track)
<1> DEFINE Of(c) == {p.clips[c].events[e].duration + VOICE_TAIL : e \in RoutedEvents(p, track, c)}
           S == {0} \cup UNION {Of(c) : c \in DOMAIN p.clips}
<1>1. VOICE_TAIL \in Nat
    BY EngineNumbers
<1>2. ASSUME NEW c \in DOMAIN p.clips PROVE Of(c) \subseteq Nat /\ IsFiniteSet(Of(c))
  <2>1. /\ IsFiniteSet(DOMAIN p.clips[c].events)
        /\ \A e \in DOMAIN p.clips[c].events : p.clips[c].events[e].duration \in Nat
      BY DEF IsSong, IsClip, IsNote
  <2>2. RoutedEvents(p, track, c) \in SUBSET (DOMAIN p.clips[c].events)
      BY DEF RoutedEvents
  <2>3. IsFiniteSet(RoutedEvents(p, track, c))
      BY <2>1, <2>2, FS_Subset
  <2> DEFINE R == RoutedEvents(p, track, c)
             f == [e \in R |-> p.clips[c].events[e].duration + VOICE_TAIL]
  <2>4. Of(c) = {f[e] : e \in R}
      OBVIOUS
  <2>5. IsFiniteSet({f[e] : e \in R})
    <3> HIDE DEF R, f
    <3> QED BY <2>3, ImageFinite DEF R
  <2>6. Of(c) \subseteq Nat
      BY <1>1, <2>1, <2>2
  <2> QED BY <2>4, <2>5, <2>6
<1>3. IsFiniteSet(S) /\ S \subseteq Nat /\ S # {}
  <2> DEFINE D == DOMAIN p.clips
             f == [c \in D |-> Of(c)]
  <2>1. IsFiniteSet(D)
      BY DEF IsSong
  <2>2. {Of(c) : c \in D} = {f[c] : c \in D}
      OBVIOUS
  <2>3. IsFiniteSet({f[c] : c \in D})
    <3> HIDE DEF f, D
    <3> QED BY <2>1, ImageFinite
  <2> HIDE DEF f
  <2>4. \A part \in {Of(c) : c \in D} : IsFiniteSet(part) /\ part \subseteq Nat
      BY <1>2
  <2> HIDE DEF Of
  <2> DEFINE U == UNION {Of(c) : c \in D}
  <2>5. IsFiniteSet(U)
      BY <2>2, <2>3, <2>4, FS_UNION
  <2>6. U \subseteq Nat
      BY <2>4
  <2>7. IsFiniteSet({0})
      BY FS_Singleton
  <2>8. S = {0} \cup U
      OBVIOUS
  <2> HIDE DEF U, S
  <2>9. IsFiniteSet(S)
      BY <2>5, <2>7, <2>8, FS_Union
  <2> QED BY <2>6, <2>8, <2>9
<1>4. maximum_voice_lifetime(p, track) = Max(S)
    BY DEF maximum_voice_lifetime
<1> HIDE DEF S
<1>5. Max(S) \in S /\ \A y \in S : y <= Max(S)
    BY <1>3, MaxOfFinite
<1>6. \A c \in DOMAIN p.clips : \A e \in RoutedEvents(p, track, c) :
          p.clips[c].events[e].duration + VOICE_TAIL \in S
    BY DEF S
<1> QED BY <1>3, <1>4, <1>5, <1>6

\* The preroll reaches back over what each track may still hold, and longer.
LEMMA PrerollBounds ==
    ASSUME NEW p, IsSong(p)
    PROVE  /\ playback_preroll_seconds(p) \in Nat
           /\ \A t \in DOMAIN p.tracks :
                  maximum_voice_lifetime(p, p.tracks[t]) + DSP_SETTLING
                      <= playback_preroll_seconds(p)
<1> DEFINE D == DOMAIN p.tracks
           f == [t \in D |-> maximum_voice_lifetime(p, p.tracks[t])]
           U == {maximum_voice_lifetime(p, p.tracks[t]) : t \in D}
           S == {0} \cup U
<1>1. U = {f[t] : t \in D}
    OBVIOUS
<1>2. IsFiniteSet(D)
    BY DEF IsSong
<1>3. IsFiniteSet({f[t] : t \in D})
  <2> HIDE DEF f, D
  <2> QED BY <1>2, ImageFinite
<1> HIDE DEF f
<1>4. U \subseteq Nat
    BY LifetimeBounds
<1>5. \A t \in D : maximum_voice_lifetime(p, p.tracks[t]) \in S
    OBVIOUS
<1>6. playback_preroll_seconds(p) = Max(S) + DSP_SETTLING /\ DSP_SETTLING \in Nat
    BY EngineNumbers DEF playback_preroll_seconds
<1> HIDE DEF U
<1>7. IsFiniteSet({0})
    BY FS_Singleton
<1>8. S \subseteq Nat /\ S # {} /\ IsFiniteSet(S)
  <2>1. IsFiniteSet(U)
      BY <1>1, <1>3
  <2>2. IsFiniteSet(S)
      BY <1>7, <2>1, FS_Union
  <2> QED BY <1>4, <2>2
<1> HIDE DEF S
<1>9. Max(S) \in S /\ \A y \in S : y <= Max(S)
    BY <1>8, MaxOfFinite
<1>10. Max(S) \in Nat
    BY <1>8, <1>9
<1>11. \A t \in D : maximum_voice_lifetime(p, p.tracks[t]) \in Nat
    BY LifetimeBounds
<1> QED BY <1>5, <1>6, <1>9, <1>10, <1>11

\* A render begins with a block, at the start of the song or far enough before the region.
LEMMA PrerollReaches ==
    ASSUME NEW p, IsSong(p), NEW start \in Nat
    PROVE  LET first == playback_preroll_sample(p, start) IN
           /\ first \in Nat /\ first <= start
           /\ \E q \in Nat : first = q * BLOCK_SIZE
           /\ first = 0 \/ first * TICKS + playback_preroll_seconds(p) <= start * TICKS
<1> DEFINE first == playback_preroll_sample(p, start)
           reach == playback_preroll_seconds(p)
           u == AtLeast0(start * TICKS - reach)
           d == SAMPLE_RATE * TICKS
           k == u \div d
<1>1. /\ SAMPLE_RATE \in Nat \ {0} /\ BLOCK_SIZE \in Nat \ {0} /\ TICKS \in Nat \ {0}
      /\ reach \in Nat
    BY EngineNumbers, PrerollBounds
<1>2. first = k * SAMPLE_RATE
    BY DEF playback_preroll_sample
<1> HIDE DEF reach
<1>3. d \in Nat \ {0} /\ start * TICKS \in Nat
    BY <1>1
<1>4. u \in Nat /\ (u = 0 \/ u + reach = start * TICKS) /\ u <= start * TICKS
    BY <1>1, <1>3 DEF AtLeast0
<1> HIDE DEF u, d
<1>5. k \in Int /\ k * d <= u /\ u < k * d + d
    BY <1>3, <1>4, Divides
<1>6. k \in Nat
    BY <1>3, <1>4, <1>5
<1> HIDE DEF k, first
<1>7. first \in Nat /\ first * TICKS = k * d
    BY <1>1, <1>2, <1>6 DEF d
<1>8. first <= start
  <2>1. ~(start + 1 <= first)
    <3> SUFFICES ASSUME start + 1 <= first PROVE FALSE
        OBVIOUS
    <3>1. (start + 1) * TICKS <= first * TICKS /\ (start + 1) * TICKS = start * TICKS + TICKS
        BY <1>1, <1>7, Multiples
    <3> QED BY <1>1, <1>3, <1>4, <1>5, <1>7, <3>1
  <2> QED BY <1>7, <2>1
<1>9. \E q \in Nat : first = q * BLOCK_SIZE
  <2> DEFINE r == SAMPLE_RATE \div BLOCK_SIZE
  <2>1. r \in Nat /\ SAMPLE_RATE = r * BLOCK_SIZE
      BY <1>1, RenderAssumption
  <2> HIDE DEF r
  <2>2. k * r \in Nat /\ first = (k * r) * BLOCK_SIZE
      BY <1>1, <1>2, <1>6, <2>1
  <2> QED BY <2>2
<1>10. first = 0 \/ first * TICKS + reach <= start * TICKS
  <2>1. CASE u = 0
    <3>1. k * d <= 0
        BY <1>5, <2>1
    <3>2. first * TICKS = 0
        BY <1>1, <1>7, <3>1
    <3>3. first = 0
        BY <1>1, <1>7, <3>2
    <3> QED BY <3>3
  <2>2. CASE u + reach = start * TICKS
    <3>1. k * d + reach <= u + reach
        BY <1>1, <1>3, <1>4, <1>5, <1>6, <1>7
    <3> QED BY <1>7, <2>2, <3>1
  <2> QED BY <1>4, <2>1, <2>2
<1> QED BY <1>7, <1>8, <1>9, <1>10 DEF first, reach

\* The rounds of a loop that a window is asked for are rounds of the song.
LEMMA CyclesAreRounds ==
    ASSUME NEW clip, IsClip(clip), NEW from \in Int, NEW to \in Int,
           NEW cycle \in Cycles(clip, from, to), NEW offset \in Nat,
           clip.source_start + cycle * clip.loop + offset < clip.end
    PROVE  cycle \in Nat /\ cycle \in Rounds(clip)
<1> DEFINE loop == clip.loop
           q == clip.end \div loop
<1>1. /\ loop \in Nat \ {0} /\ clip.end \in Nat /\ clip.source_start \in Nat
      /\ clip.once \in BOOLEAN
    BY EngineNumbers DEF IsClip
<1>2. CASE clip.once
    BY <1>2 DEF Cycles, Rounds
<1>3. CASE ~clip.once
  <2> DEFINE a == (from - clip.source_start) \div loop
             b == (to - clip.source_start) \div loop
  <2>1. a \in Int /\ b \in Int
    <3>1. from - clip.source_start \in Int /\ to - clip.source_start \in Int
        BY <1>1
    <3> QED BY <1>1, <3>1, Divides
  <2>2. cycle \in AtLeast0(a - 1) .. AtLeast0(b)
      BY <1>3 DEF Cycles
  <2> HIDE DEF a, b
  <2>3. cycle \in Nat
      BY <2>1, <2>2 DEF AtLeast0
  <2> HIDE DEF loop
  <2>4. q \in Int /\ clip.end < q * loop + loop
    <3>1. clip.end \in Int
        BY <1>1
    <3> QED BY <1>1, <3>1, Divides
  <2> HIDE DEF q
  <2>5. cycle * loop \in Nat /\ (q + 1) * loop = q * loop + loop /\ q + 1 \in Int
      BY <1>1, <2>3, <2>4
  <2>6. cycle * loop < (q + 1) * loop
      BY <1>1, <2>4, <2>5 DEF loop
  <2>7. cycle < q + 1
      BY <1>1, <2>3, <2>5, <2>6, Multiples
  <2>8. cycle \in 0 .. q
      BY <2>3, <2>4, <2>7
  <2> QED BY <1>3, <2>3, <2>8 DEF Rounds, q, loop
<1> QED BY <1>1, <1>2, <1>3

\* A round with a note in a window is among those that the window is asked for.
LEMMA RoundsAreAsked ==
    ASSUME NEW clip, IsClip(clip), NEW from \in Int, NEW to \in Int,
           NEW cycle \in Rounds(clip), NEW offset \in 0 .. clip.loop - 1, NEW time \in Nat,
           time = clip.source_start + cycle * clip.loop + offset,
           from - EPSILON <= time, time < to - EPSILON
    PROVE  cycle \in Nat /\ cycle \in Cycles(clip, from, to)
<1> DEFINE loop == clip.loop
           source == clip.source_start
<1>1. /\ loop \in Nat \ {0} /\ EPSILON \in Nat /\ EPSILON < loop /\ source \in Nat
      /\ clip.once \in BOOLEAN /\ clip.end \in Nat
    BY EngineNumbers DEF IsClip
<1>2. ~(loop <= 0) /\ ~(to <= from)
    BY <1>1
<1>3. CASE clip.once
    BY <1>2, <1>3 DEF Cycles, Rounds
<1>4. CASE ~clip.once
  <2> DEFINE a == (from - source) \div loop
             b == (to - source) \div loop
  <2>1. cycle \in Nat
    <3>1. clip.end \div loop \in Int
        BY <1>1
    <3> QED BY <1>4, <3>1 DEF Rounds
  <2>2. from - source \in Int /\ to - source \in Int
      BY <1>1
  <2>3. a \in Int /\ b \in Int /\ a * loop <= from - source /\ to - source < b * loop + loop
      BY <1>1, <2>2, Divides
  <2>4. Cycles(clip, from, to) = AtLeast0(a - 1) .. AtLeast0(b)
      BY <1>2, <1>4 DEF Cycles
  <2> HIDE DEF a, b
  <2>5. time = source + cycle * loop + offset /\ offset \in Nat /\ offset < loop
      BY <1>1
  <2> HIDE DEF loop, source
  <2>6. /\ cycle * loop \in Nat /\ a * loop \in Int /\ b * loop \in Int
        /\ (b + 1) * loop = b * loop + loop /\ (cycle + 2) * loop = cycle * loop + 2 * loop
        /\ b + 1 \in Int /\ cycle + 2 \in Int
      BY <1>1, <2>1, <2>3
  <2>7. a * loop < (cycle + 2) * loop
      BY <1>1, <2>3, <2>5, <2>6
  <2>8. a < cycle + 2
      BY <1>1, <2>3, <2>6, <2>7, Multiples
  <2>9. cycle * loop < (b + 1) * loop
      BY <1>1, <2>3, <2>5, <2>6
  <2>10. cycle < b + 1
      BY <1>1, <2>1, <2>6, <2>9, Multiples
  <2>11. cycle \in AtLeast0(a - 1) .. AtLeast0(b)
      BY <2>1, <2>3, <2>8, <2>10 DEF AtLeast0
  <2> QED BY <2>1, <2>4, <2>11
<1> QED BY <1>1, <1>3, <1>4

\* The notes of a song: where each comes from, and what its times are.
LEMMA ScoreNotes ==
    ASSUME NEW p, IsSong(p), NEW track, NEW o \in Score(p, track)
    PROVE  \E c \in DOMAIN p.clips : \E e \in RoutedEvents(p, track, c) :
               \E cycle \in Rounds(p.clips[c]) :
                   /\ e \in DOMAIN p.clips[c].events /\ cycle \in Nat
                   /\ o = Occurrence(p, c, e, cycle)
                   /\ p.clips[c].start <= o.time /\ o.time < p.clips[c].end
<1>1. PICK c \in DOMAIN p.clips :
          o \in {n \in {Occurrence(p, c, e, cycle) : e \in RoutedEvents(p, track, c),
                                                    cycle \in Rounds(p.clips[c])} :
                    p.clips[c].start <= n.time /\ n.time < p.clips[c].end}
    BY DEF Score
<1>2. PICK e \in RoutedEvents(p, track, c), cycle \in Rounds(p.clips[c]) :
          /\ o = Occurrence(p, c, e, cycle)
          /\ p.clips[c].start <= o.time /\ o.time < p.clips[c].end
    BY <1>1
<1>3. e \in DOMAIN p.clips[c].events
    BY DEF RoutedEvents
<1>4. cycle \in Nat
  <2>1. p.clips[c].end \div p.clips[c].loop \in Int
    <3>1. p.clips[c].loop \in Nat \ {0} /\ p.clips[c].end \in Nat
        BY EngineNumbers DEF IsSong, IsClip
    <3> QED BY <3>1
  <2> QED BY <2>1 DEF Rounds
<1> QED BY <1>2, <1>3, <1>4

\* Such a note begins before it ends.
LEMMA ScoreTimes ==
    ASSUME NEW p, IsSong(p), NEW track, NEW o \in Score(p, track)
    PROVE  o.on \in Nat /\ o.off \in Int /\ o.on < o.off
<1>1. PICK c \in DOMAIN p.clips : \E e \in RoutedEvents(p, track, c) :
          \E cycle \in Rounds(p.clips[c]) :
              /\ e \in DOMAIN p.clips[c].events /\ cycle \in Nat
              /\ o = Occurrence(p, c, e, cycle)
    BY ScoreNotes
<1>2. IsClip(p.clips[c])
    BY DEF IsSong
<1> QED BY <1>1, <1>2, OccurrenceTimes

\* A render plays no notes but those of the song.
LEMMA NotesAreScore ==
    ASSUME NEW p, IsSong(p), NEW track, NEW start \in Nat, NEW end \in Nat
    PROVE  Occurrences(p, track, start, end) \subseteq Score(p, track)
<1> SUFFICES ASSUME NEW o \in Occurrences(p, track, start, end) PROVE o \in Score(p, track)
    OBVIOUS
<1> DEFINE from(c) == Larger(AtLeast0(start * TICKS - maximum_voice_lifetime(p, track))
                                - 2 * p.clips[c].loop, p.clips[c].start)
           to(c) == Smaller(end * TICKS, p.clips[c].end) + 2 * EPSILON
<1>1. PICK c \in DOMAIN p.clips :
          o \in clip_occurrences_in_window(p, track, c, from(c), to(c))
    BY DEF Occurrences
<1>2. PICK e \in RoutedEvents(p, track, c), cycle \in Cycles(p.clips[c], from(c), to(c)) :
          /\ o = Occurrence(p, c, e, cycle)
          /\ p.clips[c].start <= o.time /\ o.time < p.clips[c].end
    BY <1>1 DEF clip_occurrences_in_window
<1>3. from(c) \in Int /\ to(c) \in Int
  <2>1. /\ start * TICKS \in Int /\ end * TICKS \in Int /\ EPSILON \in Nat
        /\ maximum_voice_lifetime(p, track) \in Nat
      BY EngineNumbers, LifetimeBounds
  <2>2. p.clips[c].loop \in Nat /\ p.clips[c].start \in Nat /\ p.clips[c].end \in Nat
      BY DEF IsSong, IsClip
  <2> QED BY <2>1, <2>2 DEF Larger, Smaller, AtLeast0
<1> HIDE DEF from, to
<1>4. IsClip(p.clips[c]) /\ e \in DOMAIN p.clips[c].events
    BY DEF IsSong, RoutedEvents
<1>5. p.clips[c].events[e].time \in Nat
    BY <1>4 DEF IsClip, IsNote
<1>6. o.time = p.clips[c].source_start + cycle * p.clips[c].loop + p.clips[c].events[e].time
    BY <1>2 DEF Occurrence
<1>7. cycle \in Rounds(p.clips[c])
    BY <1>2, <1>3, <1>4, <1>5, <1>6, CyclesAreRounds
<1> QED BY <1>2, <1>7 DEF Score

\* A note of the song that is held at a sample of the region begins after the render does,
\* and the render knows it.
LEMMA NotesAreReached ==
    ASSUME NEW p, IsSong(p), NEW t \in DOMAIN p.tracks, NEW start \in Nat, NEW end \in Nat,
           NEW o \in Score(p, p.tracks[t]), NEW heard \in Int,
           start < heard + BLOCK_SIZE, heard < end, o.on <= heard, heard < o.off
    PROVE  LET first == playback_preroll_sample(p, start) IN
           first <= o.on /\ o \in Occurrences(p, p.tracks[t], first, end)
<1> DEFINE track == p.tracks[t]
           first == playback_preroll_sample(p, start)
           reach == playback_preroll_seconds(p)
           life == maximum_voice_lifetime(p, track)
<1>1. PICK c \in DOMAIN p.clips : \E e \in RoutedEvents(p, track, c) :
          \E cycle \in Rounds(p.clips[c]) :
              /\ e \in DOMAIN p.clips[c].events /\ cycle \in Nat
              /\ o = Occurrence(p, c, e, cycle)
              /\ p.clips[c].start <= o.time /\ o.time < p.clips[c].end
    BY ScoreNotes
<1>2. PICK e \in RoutedEvents(p, track, c), cycle \in Rounds(p.clips[c]) :
          /\ e \in DOMAIN p.clips[c].events /\ cycle \in Nat
          /\ o = Occurrence(p, c, e, cycle)
          /\ p.clips[c].start <= o.time /\ o.time < p.clips[c].end
    BY <1>1
<1> DEFINE clip == p.clips[c]
           offset == clip.events[e].time
           length == clip.events[e].duration
           gate == Larger(length, SHORTEST_GATE)
<1>3. IsClip(clip)
    BY DEF IsSong
<1>4. /\ o.time = clip.source_start + cycle * clip.loop + offset
      /\ o.time \in Nat /\ o.on \in Nat /\ o.off \in Int
      /\ 2 * o.on * TICKS <= 2 * o.time + TICKS
      /\ 2 * o.time + TICKS < 2 * o.on * TICKS + 2 * TICKS
      /\ 2 * o.off * TICKS <= 2 * (o.time + gate) + TICKS
    BY <1>2, <1>3, OccurrenceTimes
<1>5. /\ clip.loop \in Nat /\ clip.start \in Nat /\ clip.end \in Nat
      /\ offset \in 0 .. clip.loop - 1 /\ length \in Nat
    BY <1>2, <1>3 DEF IsClip, IsNote
<1>6. life \in Nat /\ length + VOICE_TAIL <= life
    BY <1>2, LifetimeBounds
<1>7. reach \in Nat /\ life + DSP_SETTLING <= reach
    BY PrerollBounds
<1>8. first \in Nat /\ (first = 0 \/ first * TICKS + reach <= start * TICKS)
    BY PrerollReaches
<1> HIDE DEF first, reach, life, gate, length, offset, clip
<1>9. gate \in Nat /\ gate <= life
    BY <1>5, <1>6, EngineNumbers DEF gate, Larger
<1> DEFINE blocks == BLOCK_SIZE * TICKS
<1>10. /\ TICKS \in Nat \ {0} /\ blocks \in Nat /\ blocks <= DSP_SETTLING /\ TICKS <= life
       /\ DSP_SETTLING \in Nat /\ EPSILON \in Nat
    BY <1>5, <1>6, EngineNumbers
<1>11. first <= o.on
  <2>1. CASE first = 0
      BY <1>4, <2>1
  <2>2. CASE first * TICKS + reach <= start * TICKS
    <3>1. start + 2 <= o.off + BLOCK_SIZE
        BY <1>4, EngineNumbers
    <3>2. (start + 2) * TICKS <= (o.off + BLOCK_SIZE) * TICKS
      <4>1. start + 2 \in Int /\ o.off + BLOCK_SIZE \in Int
          BY <1>4, EngineNumbers
      <4> QED BY <1>10, <3>1, <4>1, Multiples
    <3>3. /\ (start + 2) * TICKS = start * TICKS + 2 * TICKS
          /\ (o.off + BLOCK_SIZE) * TICKS = o.off * TICKS + blocks
          /\ 2 * o.off * TICKS = 2 * (o.off * TICKS) /\ 2 * o.on * TICKS = 2 * (o.on * TICKS)
          /\ o.off * TICKS \in Int /\ o.on * TICKS \in Int /\ start * TICKS \in Int
          /\ first * TICKS \in Int
        BY <1>4, <1>8, <1>10, EngineNumbers
    <3> HIDE DEF blocks
    <3>4. first * TICKS < o.on * TICKS
        BY <1>4, <1>6, <1>7, <1>9, <1>10, <2>2, <3>2, <3>3
    <3>5. first < o.on
        BY <1>4, <1>8, <1>10, <3>4, Multiples
    <3> QED BY <1>4, <1>8, <3>5
  <2> QED BY <1>8, <2>1, <2>2
<1> DEFINE from == Larger(AtLeast0(first * TICKS - life) - 2 * clip.loop, clip.start)
           to == Smaller(end * TICKS, clip.end) + 2 * EPSILON
<1> HIDE DEF blocks
<1>12. /\ first * TICKS <= o.on * TICKS /\ o.on * TICKS + TICKS <= end * TICKS
       /\ first * TICKS \in Nat /\ o.on * TICKS \in Nat /\ end * TICKS \in Nat
       /\ 2 * o.on * TICKS = 2 * (o.on * TICKS)
  <2>1. o.on + 1 <= end /\ (o.on + 1) * TICKS = o.on * TICKS + TICKS
      BY <1>4, <1>10
  <2>2. (o.on + 1) * TICKS <= end * TICKS
    <3>1. o.on + 1 \in Int
        BY <1>4
    <3> QED BY <1>10, <2>1, <3>1, Multiples
  <2>3. first * TICKS <= o.on * TICKS
      BY <1>4, <1>8, <1>10, <1>11, Multiples
  <2>4. 2 * o.on * TICKS = 2 * (o.on * TICKS)
      BY <1>4, <1>10
  <2> QED BY <1>4, <1>8, <1>10, <2>1, <2>2, <2>3, <2>4
<1>13. from \in Int /\ from - EPSILON <= o.time
  <2>1. AtLeast0(first * TICKS - life) \in Nat
        /\ AtLeast0(first * TICKS - life) <= o.time
      BY <1>4, <1>6, <1>10, <1>12 DEF AtLeast0
  <2>2. clip.start <= o.time
      BY <1>2 DEF clip
  <2> QED BY <1>4, <1>5, <1>10, <2>1, <2>2 DEF Larger
<1>14. to \in Int /\ o.time < to - EPSILON
  <2>1. o.time < end * TICKS /\ o.time < clip.end
    <3>1. o.time < clip.end
        BY <1>2 DEF clip
    <3> QED BY <1>4, <1>10, <1>12, <3>1
  <2> QED BY <1>4, <1>5, <1>10, <1>12, <2>1 DEF Smaller
<1> HIDE DEF from, to
<1>15. cycle \in Cycles(clip, from, to)
  <2>1. cycle \in Rounds(clip)
      BY DEF clip
  <2> QED BY <1>3, <1>4, <1>5, <1>13, <1>14, <2>1, RoundsAreAsked
<1>16. o \in clip_occurrences_in_window(p, track, c, from, to)
  <2>1. clip.start <= o.time /\ o.time < clip.end /\ o = Occurrence(p, c, e, cycle)
      BY <1>2 DEF clip
  <2> QED BY <1>13, <1>14, <1>15, <2>1 DEF clip_occurrences_in_window, clip
<1>17. o \in Occurrences(p, track, first, end)
    BY <1>16 DEF Occurrences, from, to, clip, life
<1> QED BY <1>11, <1>17 DEF first

\* The voices that are held once the notes up to `heard` have been given, in a block that
\* begins with `from`: each since the first block at or after its note, or since this one.
Sounding(notes, heard, from) ==
    {[of |-> o, since |-> Smaller(Grid(o.on), from)] :
        o \in {n \in notes : n.on <= heard /\ heard < n.off}}

NotesFrom(notes, first) == {n \in notes : first <= n.on}

\* The voices after the notes from `before` up to `heard` in the block number m.
GoOn(notes, first, m, before, heard) ==
    {v \in Sounding(NotesFrom(notes, first), before, (m - 1) * BLOCK_SIZE)
             \cup {[of |-> o, since |-> m * BLOCK_SIZE] :
                      o \in {n \in notes : before < n.on /\ n.on <= heard}} :
          ~(before < v.of.off /\ v.of.off <= heard)}

\* From block to block, those that are released go and those that begin are added.
LEMMA VoicesGoOn ==
    ASSUME NEW notes, \A o \in notes : o.on \in Int /\ o.off \in Int /\ o.on < o.off,
           NEW m \in Int, NEW first \in Int, NEW before \in Int, NEW heard \in Int,
           first - 1 <= before, (m - 1) * BLOCK_SIZE <= before, before <= heard,
           before < first \/ before = (m - 1) * BLOCK_SIZE
    PROVE  GoOn(notes, first, m, before, heard)
             = Sounding(NotesFrom(notes, first), heard, m * BLOCK_SIZE)
<1> DEFINE N == NotesFrom(notes, first)
           old == (m - 1) * BLOCK_SIZE
           new == m * BLOCK_SIZE
           held == Sounding(N, before, old)
           begun == {[of |-> o, since |-> new] : o \in {n \in notes : before < n.on /\ n.on <= heard}}
           left == {v \in held \cup begun : ~(before < v.of.off /\ v.of.off <= heard)}
           Voice(o, from) == [of |-> o, since |-> Smaller(Grid(o.on), from)]
<1>1. old \in Int /\ new \in Int /\ BLOCK_SIZE \in Nat \ {0} /\ old <= new
  <2>1. BLOCK_SIZE \in Nat \ {0}
      BY EngineNumbers
  <2> QED BY <2>1, Multiples
<1>2. \A o \in N : o \in notes /\ o.on \in Int /\ o.off \in Int /\ o.on < o.off /\ first <= o.on
    BY DEF NotesFrom
<1>3. ASSUME NEW o \in N, o.on <= before PROVE Voice(o, old) = Voice(o, new)
  <2>1. o.on <= old /\ before = old
      BY <1>1, <1>2, <1>3
  <2>2. m - 1 \in Int
      OBVIOUS
  <2>3. Grid(o.on) \in Int /\ Grid(o.on) <= old
      BY <1>2, <2>1, <2>2, GridSteps
  <2> HIDE DEF old, new
  <2> QED BY <1>1, <2>3 DEF Smaller
<1>4. ASSUME NEW o \in notes, before < o.on PROVE Voice(o, new) = [of |-> o, since |-> new]
  <2>1. o.on > old /\ o.on \in Int
      BY <1>1, <1>4
  <2>2. Grid(o.on) \in Int /\ Grid(o.on) >= new
      BY <2>1, GridSteps
  <2> HIDE DEF old, new
  <2> QED BY <1>1, <2>2 DEF Smaller
<1>5. \A o \in notes : before < o.on => o \in N
    BY DEF NotesFrom
<1>6. held = {Voice(o, old) : o \in {n \in N : n.on <= before /\ before < n.off}}
    BY DEF Sounding
<1>7. Sounding(N, heard, new) = {Voice(o, new) : o \in {n \in N : n.on <= heard /\ heard < n.off}}
    BY DEF Sounding
<1>8. \A o, from : Voice(o, from).of = o
    OBVIOUS
<1> HIDE DEF N, old, new, held, Voice
<1>9. ASSUME NEW v \in left PROVE v \in Sounding(N, heard, new)
  <2>1. CASE v \in held
    <3>1. PICK o \in N : o.on <= before /\ before < o.off /\ v = Voice(o, old)
        BY <1>6, <2>1
    <3>2. v = Voice(o, new) /\ v.of = o
        BY <1>3, <1>8, <3>1
    <3>3. o.on <= heard /\ heard < o.off
        BY <1>2, <1>9, <3>1, <3>2
    <3> QED BY <1>7, <3>2, <3>3
  <2>2. CASE v \in begun
    <3>1. PICK o \in notes : before < o.on /\ o.on <= heard /\ v = [of |-> o, since |-> new]
        BY <2>2
    <3>2. v = Voice(o, new) /\ o \in N /\ v.of = o
        BY <1>4, <1>5, <3>1
    <3>3. heard < o.off
        BY <1>2, <1>9, <3>1, <3>2
    <3> QED BY <1>7, <3>1, <3>2, <3>3
  <2> QED BY <1>9, <2>1, <2>2
<1>10. ASSUME NEW v \in Sounding(N, heard, new) PROVE v \in left
  <2>1. PICK o \in N : o.on <= heard /\ heard < o.off /\ v = Voice(o, new)
      BY <1>7
  <2>2. v.of = o /\ ~(v.of.off <= heard)
      BY <1>2, <1>8, <2>1
  <2>3. CASE o.on <= before
    <3>1. before < o.off
        BY <1>2, <2>1
    <3>2. v \in held
        BY <1>3, <1>6, <2>1, <2>3, <3>1
    <3> QED BY <2>2, <3>2
  <2>4. CASE before < o.on
    <3>1. v \in begun
        BY <1>2, <1>4, <2>1, <2>4
    <3> QED BY <2>2, <3>1
  <2> QED BY <1>2, <2>3, <2>4
<1>11. left = Sounding(N, heard, new)
    BY <1>9, <1>10
<1>12. GoOn(notes, first, m, before, heard) = left
    BY DEF GoOn, N, old, new, held
<1> QED BY <1>11, <1>12 DEF N, new

\* The blocks of a render, and what each of them plays.
BlockCount(first, end) == (end - first + BLOCK_SIZE - 1) \div BLOCK_SIZE
BlockStart(first, k) == first + (k - 1) * BLOCK_SIZE
Heard(first, end, k) == scheduled_midi_events_for_block(BlockStart(first, k), end)

PlayedBlock(notes, first, end, k) ==
    [from |-> BlockStart(first, k), to |-> Smaller(BlockStart(first, k) + BLOCK_SIZE, end),
     heard |-> Heard(first, end, k),
     voices |-> Sounding(NotesFrom(notes, first), Heard(first, end, k), BlockStart(first, k))]

Played(notes, first, end, n) == [k \in 1 .. n |-> PlayedBlock(notes, first, end, k)]

\* Blocks follow each other and end with the render.
LEMMA BlocksFollow ==
    ASSUME NEW q \in Nat, NEW first, first = q * BLOCK_SIZE, NEW end \in Nat, first <= end
    PROVE  /\ BlockCount(first, end) \in Nat
           /\ BlockCount(first, end) = 0 <=> first = end
           /\ \A k \in 1 .. BlockCount(first, end) :
                 /\ BlockStart(first, k) \in Nat /\ BlockStart(first, k) < end
                 /\ BlockStart(first, k) = (q + k - 1) * BLOCK_SIZE
                 /\ BlockStart(first, k + 1) = BlockStart(first, k) + BLOCK_SIZE
                 /\ k < BlockCount(first, end) <=> BlockStart(first, k) + BLOCK_SIZE < end
<1> DEFINE b == BLOCK_SIZE
           n == BlockCount(first, end)
           length == end - first
<1>1. b \in Nat \ {0} /\ first \in Nat /\ length \in Nat
    BY EngineNumbers
<1>2. length + b - 1 \in Nat
    BY <1>1
<1>3. n \in Int /\ n * b <= length + b - 1 /\ length + b - 1 < n * b + b
  <2>1. n = (length + b - 1) \div b
      BY DEF BlockCount
  <2> HIDE DEF n, length, b
  <2> QED BY <1>1, <1>2, <2>1, Divides
<1> HIDE DEF n, b, length
<1>4. n \in Nat
  <2>1. 0 * b < (n + 1) * b
      BY <1>1, <1>3
  <2>2. n + 1 \in Int /\ 0 \in Int
      BY <1>3
  <2>3. 0 < n + 1
      BY <1>1, <2>1, <2>2, Multiples
  <2> QED BY <1>3, <2>3
<1>5. n = 0 <=> length = 0
  <2>1. n = 0 => length = 0
      BY <1>1, <1>3
  <2>2. ASSUME length = 0 PROVE n = 0
    <3>1. n * b < 1 * b
        BY <1>1, <1>3, <2>2
    <3>2. n < 1
        BY <1>1, <1>3, <3>1, Multiples
    <3> QED BY <1>4, <3>2
  <2> QED BY <2>1, <2>2
<1>6. ASSUME NEW k \in 1 .. n
      PROVE  /\ BlockStart(first, k) \in Nat /\ BlockStart(first, k) < end
             /\ BlockStart(first, k) = (q + k - 1) * b
             /\ BlockStart(first, k + 1) = BlockStart(first, k) + b
             /\ k < n <=> BlockStart(first, k) + b < end
  <2>1. k \in Nat /\ k - 1 \in Nat /\ (k - 1) * b \in Nat /\ k * b = (k - 1) * b + b
        /\ k * b \in Nat /\ n * b \in Nat
      BY <1>1, <1>4
  <2>2. BlockStart(first, k) = first + (k - 1) * b /\ BlockStart(first, k + 1) = first + k * b
      BY <2>1 DEF BlockStart, b
  <2>3. first + (k - 1) * b = (q + k - 1) * b
      BY <1>1, <2>1 DEF b
  <2>4. k * b <= n * b
      BY <1>1, <1>4, <2>1, Multiples
  <2>5. (k - 1) * b < length
      BY <1>1, <1>3, <2>1, <2>4
  <2>6. k < n => k * b < length
    <3> SUFFICES ASSUME k < n PROVE k * b < length
        OBVIOUS
    <3>1. k + 1 <= n /\ k + 1 \in Int
        BY <1>4, <2>1
    <3>2. (k + 1) * b <= n * b
        BY <1>1, <1>4, <3>1, Multiples
    <3>3. (k + 1) * b = k * b + b
        BY <1>1, <2>1
    <3> QED BY <1>1, <1>3, <2>1, <3>2, <3>3
  <2>7. k * b < length => k < n
    <3> SUFFICES ASSUME k * b < length PROVE k < n
        OBVIOUS
    <3>1. k * b < n * b
        BY <1>1, <1>3, <2>1
    <3> QED BY <1>1, <1>4, <2>1, <3>1, Multiples
  <2> QED BY <1>1, <2>1, <2>2, <2>3, <2>5, <2>6, <2>7 DEF length
<1> QED BY <1>1, <1>4, <1>5, <1>6 DEF n, b, length

\* A render, block by block.
LEMMA RenderPlays ==
    ASSUME NEW p, NEW track, NEW q \in Nat, NEW first, first = q * BLOCK_SIZE,
           NEW end \in Nat, first <= end, NEW notes, notes = Occurrences(p, track, first, end),
           \A o \in notes : o.on \in Int /\ o.off \in Int /\ o.on < o.off
    PROVE  render_track(p, track, first, end)
             = Played(notes, first, end, BlockCount(first, end))
<1> DEFINE n == BlockCount(first, end)
           blocks == [k \in 1 .. n |-> BlockStart(first, k)]
           before(played) == IF played = <<>> THEN first - 1 ELSE Last(played).heard
           held(played) == IF played = <<>> THEN {} ELSE Last(played).voices
           heard(b) == scheduled_midi_events_for_block(b, end)
           Due(played, b, sample) == before(played) < sample /\ sample <= heard(b)
           begun(played, b) ==
               {[of |-> o, since |-> b] : o \in {x \in notes : Due(played, b, x.on)}}
           Step(played, b) ==
               Append(played, [from |-> b, to |-> Smaller(b + BLOCK_SIZE, end), heard |-> heard(b),
                               voices |-> {v \in held(played) \cup begun(played, b) :
                                              ~Due(played, b, v.of.off)}])
           Rec == [from : Int, to : Int, heard : Int,
                   voices : SUBSET [of : notes, since : Int]]
           A == Seq(Rec)
           F == [x \in A \X Int |-> Step(x[1], x[2])]
           Next0(h) == [s \in SUBSET (1..n) |->
                           IF s = {} THEN <<>> ELSE Step(h[s \ {Max(s)}], blocks[Max(s)])]
           iter == CHOOSE h : h = Next0(h)
           J == [k \in 0 .. n |-> {Played(notes, first, end, k)}]
<1>1. n \in Nat /\ DOMAIN blocks = 1 .. n /\ first \in Nat /\ BLOCK_SIZE \in Nat \ {0}
    BY BlocksFollow, EngineNumbers
<1>2. \A k \in 1 .. n : BlockStart(first, k) \in Nat
    BY BlocksFollow
<1>3. blocks \in [1 .. n -> Int]
    BY <1>2
<1>4. render_track(p, track, first, end) = iter[1 .. n]
    BY <1>1 DEF render_track, FoldLeft, MapThenFoldSet, BlockCount, BlockStart
<1>5. ASSUME NEW played \in A, NEW b \in Int PROVE Step(played, b) \in A
  <2>1. before(played) \in Int /\ held(played) \subseteq [of : notes, since : Int]
    <3>1. CASE played = <<>>
        BY <1>1, <3>1
    <3>2. CASE played # <<>>
      <4> HIDE DEF Rec
      <4>1. Last(played) \in Rec
          BY <3>2, <1>5 DEF Last
      <4> QED BY <3>2, <4>1 DEF Rec
    <3> QED BY <3>1, <3>2
  <2>2. heard(b) \in Int /\ Smaller(b + BLOCK_SIZE, end) \in Int
      BY <1>1 DEF scheduled_midi_events_for_block, Smaller
  <2> DEFINE voices == {v \in held(played) \cup begun(played, b) : ~Due(played, b, v.of.off)}
  <2>3. voices \subseteq [of : notes, since : Int]
    <3>1. begun(played, b) \subseteq [of : notes, since : Int]
        OBVIOUS
    <3> QED BY <2>1, <3>1
  <2> DEFINE next == [from |-> b, to |-> Smaller(b + BLOCK_SIZE, end), heard |-> heard(b),
                      voices |-> voices]
  <2>4. next \in Rec
    <3> HIDE DEF voices, heard
    <3> QED BY <2>2, <2>3
  <2>5. Step(played, b) = Append(played, next)
      OBVIOUS
  <2> HIDE DEF Rec, next, Step
  <2> QED BY <1>5, <2>4, <2>5
<1>6. <<>> \in A
    OBVIOUS
<1>7. F \in [A \X Int -> A] /\ \A played \in A, b \in Int : F[<<played, b>>] = Step(played, b)
  <2> HIDE DEF Step, A
  <2> QED BY <1>5
<1> HIDE DEF F, Step, A, blocks
<1>8. PICK h : TypedFolding(h, F, <<>>, blocks, n, A, Int)
    BY <1>1, <1>3, <1>6, <1>7, TypedFoldExists
<1>9. h = Next0(h)
    BY <1>7, <1>8 DEF Folding, TypedFolding
<1>10. iter = Next0(iter)
    BY <1>9
<1> HIDE DEF iter, J
<1>11. iter[{}] \in J[0]
  <2>1. iter[{}] = <<>>
      BY <1>10
  <2>2. Played(notes, first, end, 0) = <<>>
      BY DEF Played
  <2> QED BY <1>1, <2>1, <2>2 DEF J
<1>12. ASSUME NEW k \in 1 .. n, iter[(1 .. k) \ {k}] \in J[k - 1] PROVE iter[1 .. k] \in J[k]
  <2> DEFINE played == Played(notes, first, end, k - 1)
             b == BlockStart(first, k)
  <2>1. iter[(1 .. k) \ {k}] = played
    <3>1. k - 1 \in 0 .. n
        BY <1>1
    <3> QED BY <1>12, <3>1 DEF J
  <2>2. iter[1 .. k] = Step(played, b)
    <3>1. iter[1 .. k] = Step(iter[(1 .. k) \ {k}], blocks[k])
        BY <1>1, <1>10, MaxOfInterval
    <3> QED BY <2>1, <3>1 DEF blocks
  <2>3. Step(played, b) = Append(played, PlayedBlock(notes, first, end, k))
    <3> DEFINE m == q + k - 1
    <3>1. /\ m \in Int /\ b = m * BLOCK_SIZE /\ b \in Nat /\ b < end
          /\ k > 1 => BlockStart(first, k - 1) = (m - 1) * BLOCK_SIZE
                      /\ BlockStart(first, k - 1) + BLOCK_SIZE < end
          /\ k = 1 => b = first
          /\ (m - 1) * BLOCK_SIZE = b - BLOCK_SIZE /\ k - 1 \in Nat
      <4>1. b \in Nat /\ b < end /\ b = m * BLOCK_SIZE
          BY <1>1, BlocksFollow
      <4>2. m \in Int /\ (m - 1) * BLOCK_SIZE = m * BLOCK_SIZE - BLOCK_SIZE
        <5>1. m \in Int
            BY <1>1
        <5> HIDE DEF m
        <5> QED BY <1>1, <5>1, Multiples
      <4>3. ASSUME k > 1
            PROVE  BlockStart(first, k - 1) = (m - 1) * BLOCK_SIZE
                      /\ BlockStart(first, k - 1) + BLOCK_SIZE < end
        <5>1. k - 1 \in 1 .. n /\ k - 1 < n /\ (k - 1) + 1 = k /\ q + (k - 1) - 1 = m - 1
            BY <1>1, <4>3
        <5>2. /\ BlockStart(first, k - 1) = (q + (k - 1) - 1) * BLOCK_SIZE
              /\ BlockStart(first, k - 1) + BLOCK_SIZE < end
            BY <1>1, <5>1, BlocksFollow
        <5> QED BY <5>1, <5>2
      <4>4. k = 1 => b = first
          BY <1>1 DEF BlockStart
      <4> QED BY <1>1, <4>1, <4>2, <4>3, <4>4
    <3> HIDE DEF m
    <3>2. /\ heard(b) \in Int /\ b <= heard(b)
          /\ heard(b) = Heard(first, end, k)
        BY <1>1, <3>1 DEF scheduled_midi_events_for_block, Heard
    <3> DEFINE old == (m - 1) * BLOCK_SIZE
    <3>3. /\ before(played) \in Int /\ first - 1 <= before(played) /\ old <= before(played)
          /\ before(played) <= heard(b)
          /\ before(played) < first \/ before(played) = old
          /\ held(played) = Sounding(NotesFrom(notes, first), before(played), old)
      <4>1. CASE k = 1
        <5>1. played = <<>>
            BY <4>1 DEF Played
        <5>2. before(played) = first - 1 /\ held(played) = {}
            BY <5>1
        <5>3. Sounding(NotesFrom(notes, first), first - 1, old) = {}
            BY <1>1 DEF Sounding, NotesFrom
        <5>4. held(played) = Sounding(NotesFrom(notes, first), before(played), old)
            BY <5>2, <5>3
        <5>5. b = first /\ old = b - BLOCK_SIZE
            BY <3>1, <4>1
        <5> HIDE DEF before, held, heard, b, old
        <5> QED BY <1>1, <3>2, <5>2, <5>4, <5>5
      <4>2. CASE k > 1
        <5>1. k - 1 \in 1 .. (k - 1) /\ played # <<>> /\ Len(played) = k - 1
            BY <3>1, <4>2 DEF Played
        <5>2. Last(played) = PlayedBlock(notes, first, end, k - 1)
            BY <5>1 DEF Last, Played
        <5>3. Heard(first, end, k - 1) = old
            BY <1>1, <3>1, <4>2 DEF Heard, scheduled_midi_events_for_block
        <5>4. before(played) = old /\ held(played) = Sounding(NotesFrom(notes, first), old, old)
          <6>1. before(played) = Last(played).heard /\ held(played) = Last(played).voices
              BY <5>1
          <6> HIDE DEF before, held, played
          <6> QED BY <3>1, <4>2, <5>2, <5>3, <6>1 DEF PlayedBlock
        <5>5. first <= b - BLOCK_SIZE
          <6>1. 0 * BLOCK_SIZE <= (k - 2) * BLOCK_SIZE
            <7>1. k - 2 \in Nat
                BY <3>1, <4>2
            <7> QED BY <1>1, <7>1
          <6>2. b = first + (k - 1) * BLOCK_SIZE
              BY DEF BlockStart
          <6>3. (k - 1) * BLOCK_SIZE = (k - 2) * BLOCK_SIZE + BLOCK_SIZE
              BY <1>1, <3>1
          <6>4. (k - 2) * BLOCK_SIZE \in Int
              BY <1>1, <3>1
          <6> HIDE DEF b
          <6> QED BY <1>1, <3>1, <6>1, <6>2, <6>3, <6>4
        <5> HIDE DEF before, held, heard
        <5> QED BY <1>1, <3>1, <3>2, <5>4, <5>5
      <4> QED BY <1>1, <4>1, <4>2
    <3> DEFINE voices == {v \in held(played) \cup begun(played, b) : ~Due(played, b, v.of.off)}
    <3>4. voices = Sounding(NotesFrom(notes, first), heard(b), m * BLOCK_SIZE)
      <4> DEFINE was == before(played)
                 now == heard(b)
      <4>1. voices = GoOn(notes, first, m, was, now)
          BY <3>1, <3>3 DEF GoOn
      <4>2. /\ was \in Int /\ now \in Int /\ first - 1 <= was /\ old <= was /\ was <= now
            /\ was < first \/ was = old
          BY <3>2, <3>3
      <4> HIDE DEF was, now, voices
      <4>3. voices = Sounding(NotesFrom(notes, first), now, m * BLOCK_SIZE)
          BY <1>1, <3>1, <4>1, <4>2, VoicesGoOn
      <4> QED BY <4>3 DEF now
    <3>5. PlayedBlock(notes, first, end, k)
            = [from |-> b, to |-> Smaller(b + BLOCK_SIZE, end), heard |-> heard(b),
               voices |-> voices]
      <4> HIDE DEF voices, heard
      <4> QED BY <3>1, <3>2, <3>4 DEF PlayedBlock
    <3>6. Step(played, b) = Append(played, [from |-> b, to |-> Smaller(b + BLOCK_SIZE, end),
                                            heard |-> heard(b), voices |-> voices])
        BY DEF Step
    <3> HIDE DEF voices, heard, played, b
    <3> QED BY <3>5, <3>6
  <2>4. Append(played, PlayedBlock(notes, first, end, k)) = Played(notes, first, end, k)
    <3>1. k - 1 \in Nat /\ (k - 1) + 1 = k
        BY <1>1
    <3> QED BY <3>1 DEF Played
  <2>5. k \in 0 .. n
      BY <1>1
  <2> QED BY <2>2, <2>3, <2>4, <2>5 DEF J
<1>13. iter[1 .. n] \in J[n]
    BY <1>1, <1>11, <1>12, FoldKeepsAlong
<1>14. iter[1 .. n] = Played(notes, first, end, n)
    BY <1>1, <1>13 DEF J
<1> QED BY <1>4, <1>14

\* The blocks of a render from the one that a region begins in.
IsRest(heard, notes, first, end, start) ==
    LET n == BlockCount(first, end) IN
    IF start = end THEN heard = <<>>
    ELSE \E d \in Nat :
             /\ d < n /\ BlockStart(first, d + 1) <= start
             /\ \A j \in (d + 1) .. n : start < BlockStart(first, j) + BLOCK_SIZE
             /\ heard = [k \in 1 .. (n - d) |-> PlayedBlock(notes, first, end, d + k)]

\* They are what is left when the preroll is cut away.
LEMMA SliceOfBlocks ==
    ASSUME NEW notes, NEW q \in Nat, NEW first, first = q * BLOCK_SIZE, NEW end \in Nat,
           NEW start \in Nat, first <= start, start <= end
    PROVE  IsRest(slice(Played(notes, first, end, BlockCount(first, end)), start),
                  notes, first, end, start)
<1> DEFINE n == BlockCount(first, end)
           played == Played(notes, first, end, n)
           passed == {k \in 1 .. n : Smaller(BlockStart(first, k) + BLOCK_SIZE, end) <= start}
           heard == slice(played, start)
           c == Cardinality(passed)
<1>0. BLOCK_SIZE \in Nat \ {0} /\ first \in Nat /\ first <= end
  <2>1. BLOCK_SIZE \in Nat \ {0}
      BY EngineNumbers
  <2>2. q * BLOCK_SIZE \in Nat
      BY <2>1
  <2> QED BY <2>1, <2>2
<1>1. n \in Nat /\ (n = 0 <=> first = end)
    BY <1>0, BlocksFollow
<1>2. \A k \in 1 .. n : /\ BlockStart(first, k) \in Nat /\ BlockStart(first, k) < end
                        /\ k < n <=> BlockStart(first, k) + BLOCK_SIZE < end
    BY <1>0, BlocksFollow
<1> HIDE DEF n
<1>3. DOMAIN played = 1 .. n /\ Len(played) = n
    BY <1>1 DEF Played
<1>4. {k \in DOMAIN played : played[k].to <= start} = passed
    BY <1>3 DEF Played, PlayedBlock
<1>5. heard = SubSeq(played, c + 1, n)
    BY <1>3, <1>4 DEF slice
<1> HIDE DEF heard
<1>6. CASE start = end
  <2>1. passed = 1 .. n
      BY <1>0, <1>1, <1>2, <1>6 DEF Smaller
  <2>2. c = n
    <3>1. Cardinality(1 .. n) = n
        BY <1>1, FS_Interval
    <3> QED BY <2>1, <3>1
  <2> HIDE DEF c, played
  <2>3. SubSeq(played, n + 1, n) = <<>>
      BY <1>1, <1>3
  <2>4. heard = <<>>
      BY <1>5, <2>2, <2>3
  <2> QED BY <1>6, <2>4 DEF IsRest, heard, played, n
<1>7. CASE start < end
  <2> DEFINE d == (start - first) \div BLOCK_SIZE
  <2>1. d \in Int /\ d * BLOCK_SIZE <= start - first /\ start - first < d * BLOCK_SIZE + BLOCK_SIZE
    <3>1. start - first \in Int
        BY <1>0
    <3> QED BY <1>0, <3>1, Divides
  <2> HIDE DEF d
  <2>2. d \in Nat
    <3>1. 0 * BLOCK_SIZE < (d + 1) * BLOCK_SIZE /\ d + 1 \in Int
        BY <1>0, <2>1
    <3>2. 0 < d + 1
        BY <1>0, <3>1, Multiples
    <3> QED BY <2>1, <3>2
  <2>3. ASSUME NEW k \in 1 .. n
        PROVE  /\ k <= d => BlockStart(first, k) + BLOCK_SIZE <= start
               /\ k > d => start < BlockStart(first, k) + BLOCK_SIZE
    <3>1. BlockStart(first, k) + BLOCK_SIZE = first + k * BLOCK_SIZE /\ k * BLOCK_SIZE \in Int
        BY <1>0, <1>1 DEF BlockStart
    <3>2. ASSUME k <= d PROVE k * BLOCK_SIZE <= d * BLOCK_SIZE
        BY <1>0, <1>1, <2>2, <3>2, Multiples
    <3>3. ASSUME k > d PROVE d * BLOCK_SIZE + BLOCK_SIZE <= k * BLOCK_SIZE
      <4>1. d + 1 <= k /\ d + 1 \in Int
          BY <2>2, <3>3
      <4>2. (d + 1) * BLOCK_SIZE <= k * BLOCK_SIZE
          BY <1>0, <1>1, <2>2, <4>1, Multiples
      <4> QED BY <1>0, <1>1, <2>2, <4>2, Multiples
    <3> QED BY <1>0, <1>1, <2>1, <2>2, <3>1, <3>2, <3>3
  <2>4. d < n
    <3> SUFFICES ASSUME n <= d PROVE FALSE
        BY <1>1, <2>2
    <3>1. n # 0
        BY <1>0, <1>1, <1>7
    <3>2. n \in 1 .. n /\ ~(n < n)
        BY <1>1, <3>1
    <3>3. BlockStart(first, n) + BLOCK_SIZE <= start
        BY <2>3, <3>2
    <3>4. ~(BlockStart(first, n) + BLOCK_SIZE < end)
        BY <1>2, <3>2
    <3> QED BY <1>0, <1>2, <1>7, <3>2, <3>3, <3>4
  <2>5. passed = 1 .. d
    <3>1. \A k \in 1 .. n : Smaller(BlockStart(first, k) + BLOCK_SIZE, end) <= start <=> k <= d
        BY <1>0, <1>1, <1>2, <1>7, <2>2, <2>3 DEF Smaller
    <3> QED BY <1>1, <2>2, <2>4, <3>1
  <2>6. c = d
    <3>1. Cardinality(1 .. d) = d
        BY <2>2, FS_Interval
    <3> QED BY <2>5, <3>1
  <2> HIDE DEF c
  <2>7. SubSeq(played, d + 1, n) = [k \in 1 .. (n - d) |-> PlayedBlock(notes, first, end, d + k)]
    <3> DEFINE tail == [k \in 1 .. (n - d) |-> PlayedBlock(notes, first, end, d + k)]
    <3>1. SubSeq(played, d + 1, n) = [k \in 1 .. (n - d) |-> played[(d + 1) + k - 1]]
        BY <1>1, <2>2, <2>4
    <3>2. \A k \in 1 .. (n - d) : played[(d + 1) + k - 1] = PlayedBlock(notes, first, end, d + k)
      <4> SUFFICES ASSUME NEW k \in 1 .. (n - d)
                   PROVE  played[(d + 1) + k - 1] = PlayedBlock(notes, first, end, d + k)
          OBVIOUS
      <4>1. (d + 1) + k - 1 = d + k /\ d + k \in 1 .. n
          BY <1>1, <2>2, <2>4
      <4> QED BY <4>1 DEF Played
    <3> HIDE DEF played
    <3> QED BY <3>1, <3>2
  <2>8. BlockStart(first, d + 1) <= start
    <3>1. BlockStart(first, d + 1) = first + d * BLOCK_SIZE
        BY <1>0, <2>2 DEF BlockStart
    <3> QED BY <1>0, <2>1, <2>2, <3>1
  <2>9. \A j \in (d + 1) .. n : start < BlockStart(first, j) + BLOCK_SIZE
      BY <1>1, <2>2, <2>3
  <2> HIDE DEF played
  <2>10. heard = [k \in 1 .. (n - d) |-> PlayedBlock(notes, first, end, d + k)]
      BY <1>5, <2>6, <2>7
  <2>11. start # end
      BY <1>7
  <2> QED BY <2>11, <2>2, <2>4, <2>8, <2>9, <2>10 DEF IsRest, heard, played, n
<1> QED BY <1>6, <1>7

\* A block of a region has the voices that the score says, if the render knows the notes
\* that are held in it.
LEMMA BlockIsWritten ==
    ASSUME NEW score, \A o \in score : o.on \in Int /\ o.off \in Int,
           NEW notes \in SUBSET score, NEW q \in Nat, NEW first, first = q * BLOCK_SIZE,
           NEW end \in Nat, NEW start \in Nat, first <= start, start < end,
           NEW k \in 1 .. BlockCount(first, end), start < BlockStart(first, k) + BLOCK_SIZE,
           \A o \in score : \A heard \in Int :
               start < heard + BLOCK_SIZE /\ heard < end /\ o.on <= heard /\ heard < o.off =>
                   first <= o.on /\ o \in notes
    PROVE  PlayedBlock(notes, first, end, k).voices
             = Written(score, BlockStart(first, k), end)
<1> DEFINE from == BlockStart(first, k)
           h == Heard(first, end, k)
           held == {n \in NotesFrom(notes, first) : n.on <= h /\ h < n.off}
           due == {n \in score : n.on <= h /\ h < n.off}
<1>1. BLOCK_SIZE \in Nat \ {0} /\ first \in Nat /\ first <= end
  <2>1. BLOCK_SIZE \in Nat \ {0}
      BY EngineNumbers
  <2>2. q * BLOCK_SIZE \in Nat
      BY <2>1
  <2> QED BY <2>1, <2>2
<1>2. from \in Nat /\ from < end /\ from = (q + k - 1) * BLOCK_SIZE
    BY <1>1, BlocksFollow
<1>3. h = IF from + BLOCK_SIZE >= end THEN end - 1 ELSE from
    BY DEF Heard, scheduled_midi_events_for_block
<1>4. start < from + BLOCK_SIZE
    OBVIOUS
<1>5. PlayedBlock(notes, first, end, k).voices
        = {[of |-> o, since |-> Smaller(Grid(o.on), from)] : o \in held}
    BY DEF PlayedBlock, Sounding
<1> HIDE DEF from, h
<1>6. h \in Int /\ h < end /\ start < h + BLOCK_SIZE
    BY <1>1, <1>2, <1>3, <1>4
<1>7. held = due
  <2>1. \A o \in score : o.on <= h /\ h < o.off => o \in NotesFrom(notes, first)
      BY <1>6 DEF NotesFrom
  <2> QED BY <2>1 DEF NotesFrom
<1> HIDE DEF held
<1>8. CASE from + BLOCK_SIZE >= end
  <2>1. h = end - 1
      BY <1>3, <1>8
  <2>2. due = {n \in score : n.on < end /\ end <= n.off}
    <3>1. \A o \in score : (o.on <= h /\ h < o.off) <=> (o.on < end /\ end <= o.off)
        BY <2>1
    <3> QED BY <3>1
  <2> HIDE DEF due
  <2> QED BY <1>5, <1>7, <1>8, <2>2 DEF Written, from
<1>9. CASE ~(from + BLOCK_SIZE >= end)
  <2>1. h = from
      BY <1>3, <1>9
  <2>2. due = {n \in score : n.on <= from /\ from < n.off}
      BY <2>1
  <2>3. \A o \in due : Smaller(Grid(o.on), from) = Grid(o.on)
    <3> SUFFICES ASSUME NEW o \in due PROVE Smaller(Grid(o.on), from) = Grid(o.on)
        OBVIOUS
    <3>1. o.on \in Int /\ o.on <= from
        BY <2>2
    <3> DEFINE m == q + k - 1
    <3>2. m \in Int /\ from = m * BLOCK_SIZE
        BY <1>2
    <3> HIDE DEF m
    <3>3. Grid(o.on) \in Int /\ Grid(o.on) <= from
        BY <3>1, <3>2, GridSteps
    <3> QED BY <1>2, <3>3 DEF Smaller
  <2> HIDE DEF due
  <2>4. {[of |-> o, since |-> Smaller(Grid(o.on), from)] : o \in due}
          = {[of |-> o, since |-> Grid(o.on)] : o \in due}
      BY <2>3
  <2>5. Written(score, from, end) = {[of |-> o, since |-> Grid(o.on)] : o \in due}
      BY <1>9, <2>2 DEF Written
  <2> QED BY <1>5, <1>7, <2>4, <2>5 DEF from
<1> QED BY <1>8, <1>9

\* What a track is to sound like in a region.
AsWritten(heard, score, start, end) ==
    IF start = end THEN heard = <<>>
    ELSE /\ heard # <<>>
         /\ heard[1].from <= start /\ Last(heard).to = end
         /\ \A k \in 1 .. Len(heard) - 1 : heard[k].to = heard[k + 1].from
         /\ \A k \in DOMAIN heard : heard[k].voices = Written(score, heard[k].from, end)

\* A render that knows the notes of a region sounds as it is to, whatever it begins with.
LEMMA PlayedIsWritten ==
    ASSUME NEW score, \A o \in score : o.on \in Int /\ o.off \in Int,
           NEW notes \in SUBSET score, NEW q \in Nat, NEW first, first = q * BLOCK_SIZE,
           NEW end \in Nat, NEW start \in Nat, first <= start, start <= end,
           \A o \in score : \A h \in Int :
               start < h + BLOCK_SIZE /\ h < end /\ o.on <= h /\ h < o.off =>
                   first <= o.on /\ o \in notes
    PROVE  AsWritten(slice(Played(notes, first, end, BlockCount(first, end)), start),
                     score, start, end)
<1> DEFINE n == BlockCount(first, end)
           heard == slice(Played(notes, first, end, n), start)
<1>1. BLOCK_SIZE \in Nat \ {0} /\ first \in Nat /\ first <= end
  <2>1. BLOCK_SIZE \in Nat \ {0}
      BY EngineNumbers
  <2>2. q * BLOCK_SIZE \in Nat
      BY <2>1
  <2> QED BY <2>1, <2>2
<1>2. n \in Nat /\ \A k \in 1 .. n :
                       /\ BlockStart(first, k) \in Nat /\ BlockStart(first, k) < end
                       /\ BlockStart(first, k + 1) = BlockStart(first, k) + BLOCK_SIZE
                       /\ k < n <=> BlockStart(first, k) + BLOCK_SIZE < end
    BY <1>1, BlocksFollow
<1>3. IF start = end THEN heard = <<>>
      ELSE \E d \in Nat :
               /\ d < n /\ BlockStart(first, d + 1) <= start
               /\ \A j \in (d + 1) .. n : start < BlockStart(first, j) + BLOCK_SIZE
               /\ heard = [k \in 1 .. (n - d) |-> PlayedBlock(notes, first, end, d + k)]
  <2>1. IsRest(heard, notes, first, end, start)
      BY SliceOfBlocks
  <2> HIDE DEF heard
  <2> QED BY <2>1 DEF IsRest
<1> HIDE DEF heard
<1>4. CASE start = end
    BY <1>3, <1>4 DEF AsWritten, heard
<1>5. CASE start # end
  <2>1. PICK d \in Nat :
               /\ d < n /\ BlockStart(first, d + 1) <= start
               /\ \A j \in (d + 1) .. n : start < BlockStart(first, j) + BLOCK_SIZE
               /\ heard = [k \in 1 .. (n - d) |-> PlayedBlock(notes, first, end, d + k)]
      BY <1>3, <1>5
  <2> HIDE DEF n
  <2>3. n - d \in Nat \ {0} /\ DOMAIN heard = 1 .. (n - d) /\ Len(heard) = n - d /\ heard # <<>>
    <3>1. n - d \in Nat \ {0}
        BY <2>1, <1>2
    <3>2. heard = [k \in 1 .. (n - d) |-> PlayedBlock(notes, first, end, d + k)]
        BY <2>1
    <3> QED BY <3>1, <3>2
  <2>4. \A k \in 1 .. (n - d) :
            /\ d + k \in 1 .. n /\ d + k \in (d + 1) .. n
            /\ heard[k] = PlayedBlock(notes, first, end, d + k)
      BY <2>1, <1>2
  <2>5. heard[1].from <= start
    <3>1. 1 \in 1 .. (n - d)
        BY <2>3
    <3> QED BY <2>1, <2>4, <3>1 DEF PlayedBlock
  <2>6. Last(heard).to = end
    <3>1. n - d \in 1 .. (n - d) /\ d + (n - d) = n /\ n \in 1 .. n /\ ~(n < n)
        BY <2>1, <1>2, <2>3
    <3>2. heard[n - d] = PlayedBlock(notes, first, end, n)
        BY <2>4, <3>1
    <3>3. ~(BlockStart(first, n) + BLOCK_SIZE < end)
        BY <1>2, <3>1
    <3>4. heard[n - d].to = end
        BY <3>2, <3>3 DEF PlayedBlock, Smaller
    <3> QED BY <2>3, <3>4 DEF Last
  <2>7. \A k \in 1 .. (n - d) - 1 : heard[k].to = heard[k + 1].from
    <3> SUFFICES ASSUME NEW k \in 1 .. (n - d) - 1 PROVE heard[k].to = heard[k + 1].from
        OBVIOUS
    <3> DEFINE j == d + k
    <3>1. k \in 1 .. (n - d) /\ k + 1 \in 1 .. (n - d) /\ d + (k + 1) = j + 1 /\ j < n
        BY <2>1, <1>2
    <3>2. j \in 1 .. n /\ heard[k] = PlayedBlock(notes, first, end, j)
          /\ heard[k + 1] = PlayedBlock(notes, first, end, j + 1)
        BY <2>4, <3>1
    <3> HIDE DEF j
    <3>3. BlockStart(first, j + 1) = BlockStart(first, j) + BLOCK_SIZE
          /\ BlockStart(first, j) + BLOCK_SIZE < end
        BY <1>2, <3>1, <3>2
    <3> QED BY <3>2, <3>3 DEF PlayedBlock, Smaller
  <2>8. \A k \in 1 .. (n - d) : heard[k].voices = Written(score, heard[k].from, end)
    <3> SUFFICES ASSUME NEW k \in 1 .. (n - d)
                 PROVE  heard[k].voices = Written(score, heard[k].from, end)
        OBVIOUS
    <3> DEFINE j == d + k
    <3>1. j \in 1 .. n /\ j \in (d + 1) .. n /\ heard[k] = PlayedBlock(notes, first, end, j)
        BY <2>4
    <3> HIDE DEF j
    <3>2. start < BlockStart(first, j) + BLOCK_SIZE
        BY <2>1, <3>1
    <3>3. PlayedBlock(notes, first, end, j).voices = Written(score, BlockStart(first, j), end)
      <4>1. start < end
          BY <1>5
      <4>2. j \in 1 .. BlockCount(first, end)
          BY <3>1 DEF n
      <4> QED BY <3>2, <4>1, <4>2, BlockIsWritten
    <3> QED BY <3>1, <3>3 DEF PlayedBlock
  <2>9. AsWritten(heard, score, start, end)
      BY <1>5, <2>3, <2>5, <2>6, <2>7, <2>8 DEF AsWritten
  <2> QED BY <2>9 DEF heard, n
<1> QED BY <1>4, <1>5

\* It does, wherever the preroll begins.
LEMMA TrackIsWritten ==
    ASSUME NEW p, IsSong(p), NEW t \in DOMAIN p.tracks,
           NEW start \in Nat, NEW end \in Nat, start <= end
    PROVE  LET track == p.tracks[t] IN
           AsWritten(slice(render_track(p, track, playback_preroll_sample(p, start), end), start),
                     Score(p, track), start, end)
<1> DEFINE track == p.tracks[t]
           first == playback_preroll_sample(p, start)
           notes == Occurrences(p, track, first, end)
           n == BlockCount(first, end)
           score == Score(p, track)
<1>1. PICK q \in Nat : first = q * BLOCK_SIZE
    BY PrerollReaches
<1>2. first \in Nat /\ first <= start /\ first <= end /\ BLOCK_SIZE \in Nat \ {0}
    BY PrerollReaches, EngineNumbers
<1>3. \A o \in score : o.on \in Int /\ o.off \in Int /\ o.on < o.off
    BY ScoreTimes
<1>4. notes \subseteq score
  <2> HIDE DEF first
  <2> QED BY <1>2, NotesAreScore
<1>5. \A o \in score : \A h \in Int :
         start < h + BLOCK_SIZE /\ h < end /\ o.on <= h /\ h < o.off =>
             first <= o.on /\ o \in notes
    BY NotesAreReached
<1>6. render_track(p, track, first, end) = Played(notes, first, end, n)
  <2>1. \A o \in notes : o.on \in Int /\ o.off \in Int /\ o.on < o.off
      BY <1>3, <1>4
  <2> HIDE DEF first
  <2> QED BY <1>1, <1>2, <2>1, RenderPlays
<1> HIDE DEF first, notes, score
<1>7. AsWritten(slice(Played(notes, first, end, BlockCount(first, end)), start), score, start, end)
  <2>1. \A o \in score : o.on \in Int /\ o.off \in Int
      BY <1>3
  <2>2. notes \in SUBSET score
      BY <1>4
  <2> QED BY <1>1, <1>2, <1>5, <2>1, <2>2, PlayedIsWritten
<1> QED BY <1>6, <1>7 DEF first, score

----------------------------------------------------------------------------
(* What has been rendered *)

\* A region of a song, rendered for some of its tracks.
RegionOf(p, track_ids, start, end) ==
    [start |-> start, end |-> end,
     tracks |-> render_tracks_with_stems_samples(p, track_ids, start, end)]

IsRegionOf(p, s) ==
    \E start, end \in Nat : \E track_ids \in SUBSET TrackIds(p) :
        start <= end /\ s = RegionOf(p, track_ids, start, end)

\* The region rendered last is one of the song of the answer, and the cursor of a
\* range has left the header behind when the range is rendered.
SoundInv ==
    /\ body = NoBody => sound = NoSound
    /\ sound # NoSound => body.project \in Projects /\ IsRegionOf(body.project, sound)
    /\ body.phase = "regions" /\ body.kind = "range" => body.cursor >= WAV_HEADER_BYTES

\* No region is rendered.
LEMMA SoundStays ==
    ASSUME SoundInv, UNCHANGED sound, body' # NoBody,
           sound # NoSound => body'.project = body.project,
           body'.phase = "regions" /\ body'.kind = "range" => body'.cursor >= WAV_HEADER_BYTES
    PROVE  SoundInv'
<1>1. (sound # NoSound => body.project \in Projects /\ IsRegionOf(body.project, sound))'
    BY DEF SoundInv
<1> QED BY <1>1 DEF SoundInv

\* One is.
LEMMA SoundIsRendered ==
    ASSUME NEW p \in Projects, NEW track_ids, Renderable(p, track_ids),
           NEW start \in Nat, NEW end \in Nat, start <= end,
           Renders(p, track_ids, start, end), body' # NoBody, body'.project = p,
           body'.phase = "regions" => body'.kind # "range"
    PROVE  SoundInv'
<1>1. track_ids \in SUBSET TrackIds(p)
    BY DEF Renderable, TrackIds
<1>2. sound' = RegionOf(p, track_ids, start, end)
    BY DEF Renders, RegionOf
<1>3. IsRegionOf(p, sound')
    BY <1>1, <1>2 DEF IsRegionOf
<1> QED BY <1>3 DEF SoundInv

\* A body that is active or ends has the song it had.
LEMMA BodyGoesOn ==
    ASSUME AnswerInv, body.phase \in {"header", "regions", "frames", "save"}
    PROVE  /\ (body \in FileBody /\ FileInv) \/ (body \in SpectrumBody /\ SpectrumInv)
           /\ body.project \in Projects
BY DEF AnswerInv, BodyInv, BareBody, FileBody, SpectrumBody

\* A body that ends renders nothing more.
LEMMA EndKeeps ==
    ASSUME AnswerInv, SoundInv, body.phase \in {"header", "regions", "frames", "save"},
           NEW how, how # "regions", how # "none", Ended(how), UNCHANGED sound
    PROVE  SoundInv'
<1>1. body'.project = body.project /\ body'.phase = how /\ body' # NoBody
    BY BodyGoesOn DEF Ended, FileBody, SpectrumBody, NoBody
<1> QED BY <1>1, SoundStays

\* The first answer, or a refusal: nothing has been rendered.
LEMMA AnswerIsSilent ==
    ASSUME SoundInv, NEW answer, Answer(answer), answer # NoBody, answer.phase # "regions"
    PROVE  SoundInv'
BY SoundStays DEF SoundInv, Answer

\* The header of a file is written before any of its sound.
LEMMA HeaderIsSilent ==
    ASSUME AnswerInv, SoundInv, WriteHeader PROVE SoundInv'
<1>1. body \in FileBody /\ FileInv
    BY BodyGoesOn DEF WriteHeader, SpectrumBody
<1>2. UNCHANGED sound
    BY DEF WriteHeader
<1>3. WAV_HEADER_BYTES \in Nat \ {0}
    BY FileLengths
<1> DEFINE end == Smaller(body.promised[2], WAV_HEADER_BYTES)
<1>4. CASE body.kind # "range"
  <2>1. body' = [body EXCEPT !.phase = "regions"]
      BY <1>4 DEF WriteHeader, Ended
  <2>2. body' # NoBody /\ body'.project = body.project /\ body'.kind # "range"
      BY <1>1, <1>4, <2>1 DEF FileBody, NoBody
  <2> QED BY <1>2, <2>2, SoundStays
<1>5. CASE body.kind = "range" /\ body.cursor >= WAV_HEADER_BYTES
  <2>1. body' = [body EXCEPT !.phase = "regions"]
      BY <1>5 DEF WriteHeader, Ended
  <2>2. body' # NoBody /\ body'.project = body.project /\ body'.cursor = body.cursor
      BY <1>1, <2>1 DEF FileBody, NoBody
  <2> QED BY <1>2, <1>5, <2>2, SoundStays
<1>6. CASE body.kind = "range" /\ ~(body.cursor >= WAV_HEADER_BYTES)
  <2>1. body' = [body EXCEPT !.cursor = end,
                    !.phase = IF end = body.promised[2] THEN "done" ELSE "regions"]
      BY <1>6 DEF WriteHeader
  <2> HIDE DEF end
  <2>2. body'.project = body.project /\ body'.cursor = end
        /\ body'.phase = IF end = body.promised[2] THEN "done" ELSE "regions"
      BY <1>1, <2>1 DEF FileBody
  <2>3. body' # NoBody
      BY <2>2 DEF NoBody
  <2>4. end # body.promised[2] => end = WAV_HEADER_BYTES
      BY DEF end, Smaller
  <2>5. body'.phase = "regions" => body'.cursor >= WAV_HEADER_BYTES
      BY <1>3, <2>2, <2>4
  <2> QED BY <1>2, <2>2, <2>3, <2>5, SoundStays
<1> QED BY <1>4, <1>5, <1>6

\* The next region of a whole file is rendered from where the last one ended.
LEMMA RegionIsRendered ==
    ASSUME AnswerInv, SoundInv, NEW longest \in Nat, body.phase = "regions",
           body.kind \in {"stream", "export"}, WriteRegion(longest)
    PROVE  SoundInv'
<1> DEFINE end == Smaller(body.cursor + longest, body.end)
           ids == TrackIds(body.project)
<1>1. body \in FileBody /\ body.project \in Projects
    BY BodyGoesOn DEF SpectrumBody
<1>2. body.cursor \in Nat /\ end \in Nat
  <2>1. body.cursor \in Nat /\ body.end \in Nat
      BY <1>1 DEF FileBody
  <2> QED BY <2>1 DEF Smaller
<1>3. CASE ~InOneRegion(body.project, body.cursor, end)
    BY <1>3, EndKeeps DEF WriteRegion, Fail
<1>4. CASE ~Renderable(body.project, ids)
    BY <1>4, EndKeeps DEF WriteRegion, Fail
<1>5. CASE InOneRegion(body.project, body.cursor, end) /\ Renderable(body.project, ids)
  <2>1. /\ Renders(body.project, ids, body.cursor, end)
        /\ body' = [body EXCEPT !.cursor = end, !.phase = IF end = body.end THEN "done" ELSE @]
      BY <1>5 DEF WriteRegion
  <2>2. body.cursor <= end
      BY <1>2, <1>5 DEF InOneRegion
  <2> HIDE DEF end, ids
  <2>3. body' # NoBody /\ body'.project = body.project /\ body'.kind # "range"
      BY <1>1, <2>1 DEF FileBody, NoBody
  <2> QED BY <1>1, <1>2, <1>5, <2>1, <2>2, <2>3, SoundIsRendered
<1> QED BY <1>3, <1>4, <1>5

\* The samples of a range begin at or after the first one of the file.
LEMMA RangeIsRendered ==
    ASSUME AnswerInv, SoundInv, WriteRange PROVE SoundInv'
<1> DEFINE pcm_start == body.cursor - WAV_HEADER_BYTES
           pcm_end == body.promised[2] - WAV_HEADER_BYTES
           first == pcm_start \div FRAME_BYTES
           end == SamplesUpTo(pcm_end)
           from == body.start + first
           to == body.start + end
           ids == TrackIds(body.project)
<1>1. body.phase = "regions" /\ body.kind = "range"
    BY DEF WriteRange, Writing
<1>2. body \in FileBody /\ body.project \in Projects
    BY <1>1, BodyGoesOn DEF SpectrumBody
<1>3. CASE ~InOneRegion(body.project, from, to)
    BY <1>1, <1>3, EndKeeps DEF WriteRange, Fail
<1>4. CASE ~Renderable(body.project, ids)
    BY <1>1, <1>4, EndKeeps DEF WriteRange, Fail
<1>5. CASE InOneRegion(body.project, from, to) /\ Renderable(body.project, ids)
  <2>1. first \in Nat
    <3>1. body.cursor \in Nat /\ WAV_HEADER_BYTES \in Nat /\ body.cursor >= WAV_HEADER_BYTES
        BY <1>1, <1>2, FileLengths DEF SoundInv, FileBody
    <3>2. pcm_start \in Nat
        BY <3>1
    <3> HIDE DEF pcm_start
    <3> QED BY <3>2 DEF FRAME_BYTES
  <2>2. end \in Int
    <3>1. body.promised \in Nat \X Nat /\ WAV_HEADER_BYTES \in Nat
        BY <1>2, FileLengths DEF FileBody
    <3>2. pcm_end \in Int
        BY <3>1
    <3> HIDE DEF pcm_end
    <3> QED BY <3>2 DEF SamplesUpTo, FRAME_BYTES
  <2>3. Renders(body.project, ids, from, to) /\ (Ended("panicked") \/ Ended("done"))
      BY <1>5 DEF WriteRange
  <2> HIDE DEF first, end
  <2>4. from \in Nat /\ to \in Int /\ from < to
    <3>1. body.start \in Nat
        BY <1>2 DEF FileBody
    <3>2. from < to
        BY <1>5 DEF InOneRegion
    <3> QED BY <2>1, <2>2, <3>1, <3>2
  <2>5. body' # NoBody /\ body'.project = body.project /\ body'.phase # "regions"
      BY <1>2, <2>3 DEF Ended, FileBody, NoBody
  <2> HIDE DEF from, to, ids
  <2>6. to \in Nat /\ from <= to
      BY <2>4
  <2> QED BY <1>2, <1>5, <2>3, <2>4, <2>5, <2>6, SoundIsRendered
<1> QED BY <1>3, <1>4, <1>5

\* The region around the frames of a spectrum begins no later than it ends.
LEMMA ChunkIsRendered ==
    ASSUME AnswerInv, SoundInv, SpectrumChunk PROVE SoundInv'
<1> DEFINE p == body.project
           chunk_end == Smaller(body.cursor + AUDIO_RANGE_SAMPLES, body.end)
           half == SPECTRUM_FFT_SAMPLES \div 2
           start == AtLeast0(body.cursor - half)
           end == RenderEnd(p, chunk_end)
           ids == TrackIds(p)
<1>1. body.phase = "frames"
    BY DEF SpectrumChunk
<1>2. body \in SpectrumBody /\ SpectrumInv /\ p \in Projects
    BY <1>1, BodyGoesOn DEF FileBody
<1>3. CASE ~Renderable(p, ids)
    BY <1>1, <1>3, EndKeeps DEF SpectrumChunk, Fail
<1>4. CASE Renderable(p, ids)
  <2>1. Renders(p, ids, start, end)
        /\ body' = [body EXCEPT !.cursor = chunk_end,
                       !.phase = IF chunk_end = body.end THEN "save" ELSE @]
      BY <1>4 DEF SpectrumChunk
  <2>2. half \in Nat /\ AUDIO_RANGE_SAMPLES \in Nat /\ SampleCount(p) \in Nat
      BY <1>2, BodiesAssumption, Lengths DEF AUDIO_RANGE_SAMPLES
  <2>3. body.cursor \in Nat /\ body.end \in Nat
        /\ body.cursor <= body.end /\ body.end <= SampleCount(p)
      BY <1>2 DEF SpectrumBody, SpectrumInv
  <2>4. end = Smaller(chunk_end + half, SampleCount(p))
      BY DEF RenderEnd
  <2> HIDE DEF half, end
  <2>5. chunk_end \in Nat /\ body.cursor <= chunk_end /\ chunk_end <= SampleCount(p)
      BY <2>2, <2>3 DEF Smaller
  <2> HIDE DEF chunk_end
  <2>6. start \in Nat /\ start <= body.cursor
      BY <2>2, <2>3 DEF AtLeast0
  <2>7. end \in Nat /\ body.cursor <= end
      BY <2>2, <2>3, <2>4, <2>5 DEF Smaller
  <2> HIDE DEF start, ids
  <2>8. start <= end
      BY <2>3, <2>6, <2>7
  <2>9. body' # NoBody /\ body'.project = p /\ body'.kind # "range"
      BY <1>2, <2>1 DEF SpectrumBody, NoBody
  <2> HIDE DEF p
  <2> QED BY <1>2, <1>4, <2>1, <2>6, <2>7, <2>8, <2>9, SoundIsRendered
<1> QED BY <1>3, <1>4

\* An analysis begins no later than it ends, though one time is rounded and the other
\* is rounded up.
LEMMA AnalysisIsRendered ==
    ASSUME AnswerInv, SoundInv, NEW analysis \in Analyses, Analyse(analysis) PROVE SoundInv'
<1> DEFINE from == analysis.start
           to == analysis.end
           start == midi_event_sample(from)
           end == playback_end_sample(to)
<1>1. CASE UNCHANGED sound /\ body' = Refusal
  <2>1. sound = NoSound /\ body' # NoBody /\ body'.phase # "regions"
      BY <1>1 DEF Analyse, SoundInv, Refusal, NoBody
  <2> QED BY <1>1, <2>1, SoundStays
<1>2. CASE /\ ~(to <= from) /\ Renderable(project, analysis.track_ids)
           /\ Renders(project, analysis.track_ids, start, end)
           /\ body' = [phase |-> "done", kind |-> "analysis", project |-> project]
  <2>1. from \in Nat /\ to \in Nat /\ from < to /\ TICKS \in Nat \ {0}
      BY <1>2, InputsAssumption, EngineNumbers
  <2> HIDE DEF from, to
  <2>2. start \in Int /\ 2 * start * TICKS <= 2 * from + TICKS
        /\ 2 * from + TICKS < 2 * start * TICKS + 2 * TICKS
      BY <2>1, SampleOfMoment
  <2>3. end \in Int /\ to + TICKS - 1 < end * TICKS + TICKS
    <3>1. to + TICKS - 1 \in Int
        BY <2>1
    <3> QED BY <2>1, <3>1, Divides DEF playback_end_sample
  <2> HIDE DEF start, end
  <2> DEFINE s == start * TICKS
             e == end * TICKS
  <2>4. s \in Int /\ e \in Int /\ 2 * start * TICKS = 2 * s
      BY <2>1, <2>2, <2>3
  <2>5. start >= 0
    <3> SUFFICES ASSUME start <= -1 PROVE FALSE
        BY <2>2
    <3>1. start * TICKS <= (-1) * TICKS
        BY <2>1, <2>2, Multiples
    <3>2. s <= -TICKS
        BY <2>1, <3>1
    <3> HIDE DEF s
    <3> QED BY <2>1, <2>2, <2>4, <3>2
  <2>6. start <= end
    <3> SUFFICES ASSUME end + 1 <= start PROVE FALSE
        BY <2>2, <2>3
    <3>1. (end + 1) * TICKS <= start * TICKS /\ (end + 1) * TICKS = end * TICKS + TICKS
        BY <2>1, <2>2, <2>3, Multiples
    <3>2. e + TICKS <= s
        BY <3>1
    <3>3. to + TICKS - 1 < e + TICKS
        BY <2>3
    <3> HIDE DEF s, e
    <3> QED BY <2>1, <2>2, <2>4, <3>2, <3>3
  <2>7. start \in Nat /\ end \in Nat
      BY <2>2, <2>3, <2>5, <2>6
  <2>8. project \in Projects /\ body' # NoBody /\ body'.project = project
        /\ body'.phase # "regions"
      BY <1>2 DEF AnswerInv, NoBody
  <2> QED BY <1>2, <2>6, <2>7, <2>8, SoundIsRendered
<1> QED BY <1>1, <1>2 DEF Analyse

\* Nothing has been rendered at the start.
LEMMA InitSound == Init => SoundInv
    BY DEF Init, SoundInv, NoBody

\* What has been rendered stays a region of the song of the answer.
LEMMA SoundInductive == AnswerInv /\ SoundInv /\ [Next]_vars => SoundInv'
<1> SUFFICES ASSUME AnswerInv, SoundInv, [Next]_vars PROVE SoundInv'
    OBVIOUS
<1>1. ASSUME NEW asked, NEW ms, NEW header, playback_response(asked, ms, header)
      PROVE  SoundInv'
  <2>1. PICK answer : Answer(answer) /\ answer # NoBody /\ answer.phase # "regions"
    <3> DEFINE start == playback_start_sample_milliseconds(ms)
               count == SampleCount(project) - start
               answer == [phase |-> "header", kind |-> "stream", project |-> project,
                          start |-> start, end |-> SampleCount(project), cursor |-> start,
                          promised |-> <<0, TotalLength(count)>>]
               range == bounded_audio_byte_range(header, TotalLength(count))
               part == [answer EXCEPT !.kind = "range", !.cursor = range.start,
                                      !.promised = <<range.start, range.end + 1>>]
    <3>1. Answer(IF asked # version \/ count <= 0 THEN Refusal
                 ELSE IF header.kind = "none" THEN answer
                 ELSE IF ~Satisfiable(header, TotalLength(count)) THEN Refusal ELSE part)
        BY <1>1 DEF playback_response
    <3>2. Refusal # NoBody /\ Refusal.phase # "regions"
        BY DEF Refusal, NoBody
    <3>3. answer.phase = "header" /\ part.phase = "header"
        OBVIOUS
    <3> HIDE DEF answer, part, count
    <3>4. answer # NoBody /\ part # NoBody
        BY <3>3 DEF NoBody
    <3> QED BY <3>1, <3>2, <3>3, <3>4
  <2> QED BY <2>1, AnswerIsSilent
<1>2. CASE export_response
  <2>1. PICK answer : Answer(answer) /\ answer # NoBody /\ answer.phase # "regions"
      BY <1>2 DEF export_response, NoBody
  <2> QED BY <2>1, AnswerIsSilent
<1>3. ASSUME NEW asked, NEW ms, NEW window, track_spectrum_response(asked, ms, window)
      PROVE  SoundInv'
  <2>1. body = NoBody /\ UNCHANGED sound
      BY <1>3 DEF track_spectrum_response
  <2>2. body' # NoBody /\ body'.phase # "regions"
      BY <1>3 DEF track_spectrum_response, Refusal, NoBody
  <2> QED BY <2>1, <2>2, SoundStays DEF SoundInv
<1>4. CASE WriteChunk \/ WriteExport
  <2>1. PICK longest \in {PLAYBACK_CHUNK_SAMPLES, AUDIO_RANGE_SAMPLES} :
            WriteRegion(longest) /\ (Writing("stream") \/ Writing("export"))
      BY <1>4 DEF WriteChunk, WriteExport
  <2>2. longest \in Nat
      BY BodiesAssumption DEF AUDIO_RANGE_SAMPLES
  <2>3. body.phase = "regions" /\ body.kind \in {"stream", "export"}
      BY <2>1 DEF Writing
  <2> QED BY <2>1, <2>2, <2>3, RegionIsRendered
<1>5. CASE SaveSpectrum
    BY <1>5, EndKeeps DEF SaveSpectrum
<1>6. CASE Cancel
    BY <1>6, EndKeeps DEF Cancel, Active
<1>7. CASE Close
    BY <1>7 DEF Close, SoundInv, NoBody
<1>8. CASE ChangeProject \/ UNCHANGED vars
  <2>1. UNCHANGED <<body, sound>>
      BY <1>8 DEF ChangeProject, vars
  <2> QED BY <2>1 DEF SoundInv
<1> QED BY <1>1, <1>2, <1>3, <1>4, <1>5, <1>6, <1>7, <1>8,
           HeaderIsSilent, RangeIsRendered, ChunkIsRendered, AnalysisIsRendered DEF Next

----------------------------------------------------------------------------
(* Theorems *)

\* An answer writes the bytes of its file in order, never more than it promised,
\* and all of them unless it ends early, wherever a range cuts the header and the
\* samples; no writer asks a region for bytes that it does not have.
THEOREM PromisesAreKept == Spec => []PromisedBytesArrive
<1>1. AnswerInv => PromisedBytesArrive
  <2> SUFFICES ASSUME AnswerInv PROVE PromisedBytesArrive
    OBVIOUS
  <2>1. CASE sent = <<>>
    BY <2>1 DEF AnswerInv, BodyInv, BareBody, FileBody, SpectrumBody, PromisedBytesArrive
  <2>2. CASE sent # <<>>
    <3>1. body \in FileBody /\ FileInv
        BY <2>2 DEF AnswerInv, BodyInv, SpectrumInv
    <3>2. PICK to \in 0 .. body.promised[2] : SentUpTo(to)
        BY <2>2, <3>1 DEF FileInv
    <3>3. /\ sent[1][1] = body.promised[1]
          /\ \A w \in DOMAIN sent : sent[w][1] < sent[w][2]
          /\ \A w \in 1 .. Len(sent) - 1 : sent[w][2] = sent[w + 1][1]
          /\ Last(sent)[2] = to
        BY <3>2 DEF SentUpTo, Covers
    <3>4. to <= body.promised[2]
      <4>1. body.promised \in Nat \X Nat
        BY <3>1 DEF FileBody
      <4>2. body.promised[2] \in Nat
        BY <4>1
      <4> QED
        BY <3>2, <4>2
    <3>5. body.phase = "done" => Last(sent)[2] = body.promised[2]
        BY <3>1 DEF FileInv, SentUpTo, Covers
    <3>6. body.phase # "panicked"
        BY <3>1 DEF FileBody
    <3> QED
        BY <3>3, <3>4, <3>5, <3>6 DEF PromisedBytesArrive
  <2> QED
    BY <2>1, <2>2
<1> QED
    BY <1>1, AnswerInvariant, PTL

\* Frames are made in their places and lose nothing where two regions meet, however
\* the length of a region, of a frame and of a window relate.
THEOREM SpectraSeeTheirWindows == Spec => []SpectrumSeesItsWindow
<1>1. AnswerInv => SpectrumSeesItsWindow
  <2> SUFFICES ASSUME AnswerInv, frames # <<>> PROVE SpectrumSeesItsWindow
    BY DEF SpectrumSeesItsWindow
  <2>1. body \in SpectrumBody /\ SpectrumInv
    BY DEF AnswerInv, BodyInv, FileInv
  <2>2. DOMAIN frames = 1 .. Len(frames)
    BY <2>1 DEF SpectrumInv
  <2>3. \A k \in DOMAIN frames :
            frames[k] = FrameAt(body.project, body.version,
                                body.start + (k - 1) * SPECTRUM_FRAME_SAMPLES)
    BY <2>1, <2>2 DEF SpectrumInv, FramesOf
  <2>4. body.phase = "done" => Len(frames) = body.promised
    BY <2>1 DEF SpectrumInv
  <2> QED
    BY <2>3, <2>4 DEF SpectrumSeesItsWindow, FrameAt
<1> QED
    BY <1>1, AnswerInvariant, PTL

\* A page gets the spectrum of the version it asked for, though the cache file has
\* one place for all and the project changes while frames are made and saved.
THEOREM SpectraAreCurrent == Spec => []SpectrumIsCurrent
<1>1. AnswerInv => SpectrumIsCurrent
  <2> SUFFICES ASSUME AnswerInv PROVE SpectrumIsCurrent
    OBVIOUS
  <2>1. CASE frames = <<>>
    BY <2>1 DEF SpectrumIsCurrent
  <2>2. CASE body \in SpectrumBody /\ SpectrumInv
    <3>1. DOMAIN frames = 1 .. Len(frames)
        BY <2>2 DEF SpectrumInv
    <3> QED
        BY <2>2, <3>1 DEF SpectrumInv, FramesOf, FrameAt, SpectrumIsCurrent
  <2> QED
    BY <2>1, <2>2 DEF AnswerInv, BodyInv, FileInv
<1> QED
    BY <1>1, AnswerInvariant, PTL

\* Wherever a region begins, and however far its preroll reaches back, its tracks sound
\* as their clips and key zones say, and regions that overlap sound alike.
THEOREM RegionsSoundAsWritten == Spec => []SoundsAsWritten
<1>1. AnswerInv /\ SoundInv => SoundsAsWritten
  <2> SUFFICES ASSUME SoundInv, sound # NoSound, NEW t \in DOMAIN body.project.tracks,
                      body.project.tracks[t].id \in DOMAIN sound.tracks
               PROVE  LET track == body.project.tracks[t]
                          heard == sound.tracks[track.id]
                      IN  IF track.muted THEN heard = Silence
                          ELSE AsWritten(heard, Score(body.project, track),
                                         sound.start, sound.end)
      BY DEF SoundsAsWritten, AsWritten
  <2> DEFINE p == body.project
             track == p.tracks[t]
             heard == sound.tracks[track.id]
  <2>1. p \in Projects /\ IsSong(p)
      BY InputsAssumption DEF SoundInv
  <2>2. PICK start \in Nat, end \in Nat :
            \E track_ids \in SUBSET TrackIds(p) :
                start <= end /\ sound = RegionOf(p, track_ids, start, end)
      BY DEF SoundInv, IsRegionOf
  <2>3. PICK track_ids \in SUBSET TrackIds(p) :
            start <= end /\ sound = RegionOf(p, track_ids, start, end)
      BY <2>2
  <2>4. sound.start = start /\ sound.end = end
        /\ sound.tracks = render_tracks_with_stems_samples(p, track_ids, start, end)
      BY <2>3 DEF RegionOf
  <2>5. (CHOOSE u \in Range(p.tracks) : u.id = track.id) = track
    <3>1. track \in Range(p.tracks)
        BY DEF Range
    <3>2. \A u \in Range(p.tracks) : u.id = track.id => u = track
        BY <2>1 DEF Range, IsSong
    <3> QED BY <3>1, <3>2
  <2>6. heard = IF track.muted THEN Silence
                ELSE slice(render_track(p, track, playback_preroll_sample(p, start), end), start)
    <3>1. track.id \in track_ids
        BY <2>4 DEF render_tracks_with_stems_samples
    <3> HIDE DEF track
    <3> QED BY <2>4, <2>5, <3>1 DEF render_tracks_with_stems_samples
  <2>7. AsWritten(slice(render_track(p, track, playback_preroll_sample(p, start), end), start),
                  Score(p, track), start, end)
      BY <2>1, <2>3, TrackIsWritten
  <2> QED BY <2>4, <2>6, <2>7
<1>2. AnswerInv /\ AnswerInv' /\ SoundInv /\ [Next]_vars => SoundInv'
    BY SoundInductive
<1> QED BY <1>1, <1>2, InitSound, AnswerInvariant, PTL DEF Spec
=============================================================================
