---------------------------- MODULE MCAudioBodies ----------------------------
(* A small instance of AudioBodies for TLC: songs of six seconds, of eight   *)
(* samples each, with notes off the beat, held long, looped and cut.         *)
EXTENDS AudioBodies

Event(time, duration, pitch) == [time |-> time, duration |-> duration, pitch |-> pitch]

Clip(start, end, source_start, loop, once, events) ==
    [rack |-> 1, start |-> start, end |-> end, source_start |-> source_start,
     loop |-> loop, once |-> once, events |-> events]

\* A riff; the same after an edit cut away its beginning; a note held for four
\* seconds; a phrase whose last note is cut short.
Riff == Clip(0, 387, 0, 81, FALSE, <<Event(5, 40, 1), Event(44, 81, 2)>>)
CutRiff == Clip(203, 387, 30, 57, FALSE, <<Event(0, 33, 1), Event(56, 36, 3)>>)
Pedal == Clip(61, 380, 61, 300, TRUE, <<Event(15, 270, 1)>>)
Phrase == Clip(130, 300, 100, 256, TRUE, <<Event(20, 40, 2), Event(31, 64, 1), Event(180, 70, 2)>>)

Zone(instrument, low, high) ==
    [rack |-> 1, instrument |-> instrument, low_note |-> low, high_note |-> high]
Split == {Zone(1, 1, 1), Zone(2, 2, 3)}
Layered == {Zone(1, 1, 2), Zone(1, 2, 3), Zone(2, 1, 1)}

Track(id, muted, headless) ==
    [id |-> id, instrument |-> id, muted |-> muted, headless |-> headless]

Song(clips, zones, muted, headless, duration) ==
    [clips |-> clips, key_zones |-> zones, duration |-> duration,
     tracks |-> <<Track(1, FALSE, TRUE), Track(2, muted, headless)>>]

Songs == {Song(<<Riff, Pedal>>, Split, FALSE, TRUE, 387),
          Song(<<CutRiff, Phrase>>, Layered, FALSE, TRUE, 387),
          Song(<<Pedal, CutRiff>>, Layered, FALSE, TRUE, 400),
          Song(<<Phrase, Riff>>, Split, TRUE, FALSE, 387),
          Song(<<Riff>>, Split, FALSE, FALSE, 392),
          Song(<<>>, {}, FALSE, TRUE, 64)}

Starts == {0, 1300, 2100, 9000}
SpectrumWindows == {0, 700, 5000}

Header(kind, first, last) == [kind |-> kind, first |-> first, last |-> last]
Headers ==
    {Header("none", 0, 0), Header("suffix", 0, 0), Header("suffix", 0, 9),
     Header("suffix", 0, 999), Header("between", 9, 5), Header("between", 20, 40),
     Header("between", 43, 44), Header("between", 46, 49), Header("between", 63, 999)}
    \cup {Header("from", first, 0) : first \in {0, 44, 148, 190, 999}}
OddHeaders == Headers \cup {Header("from", 45, 0)}

Analysed ==
    {[track_ids |-> ids, start |-> start, end |-> end] :
        ids \in {{1}, {1, 2}, {}, {3}}, start \in {0, 103, 300}, end \in {102, 105, 296, 387}}
=============================================================================
