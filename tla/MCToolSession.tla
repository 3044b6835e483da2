--------------------------- MODULE MCToolSession ---------------------------
(***************************************************************************)
(* An instance of ToolSession: one project that a few tools made, with a   *)
(* sound that has effects and a modulator, a key zone, and a clip that     *)
(* reaches over both ends of the smaller selection.                        *)
(***************************************************************************)
EXTENDS ToolSession

MCPresetSlots == [preset \in {"Init", "Keys", "Pad"} |->
    CASE preset = "Init" -> {} [] preset = "Keys" -> {1} [] preset = "Pad" -> {1, 2}]

\* "Pad" has no cutoff, and a tuned sound loses it to modulators that notes trigger.
MCModulatable ==
    ({"Init", "Keys"} \X {FALSE} \X {"free", "midi"} \X {"cutoff"})
    \cup ({"Init", "Keys"} \X {TRUE} \X {"free"} \X {"cutoff"})

MCNoteCount == [pattern \in {"loop", "riff"} |-> IF pattern = "loop" THEN 1 ELSE 0]

MCPitches == [pattern \in {"loop", "riff"} |-> IF pattern = "loop" THEN {0} ELSE {}]

Region(a, b) == [start |-> FromInteger(a), end |-> FromInteger(b)]

Only(S) == CHOOSE x \in S : TRUE

MCSong ==
    LET zoned == Only(create_key_zone(InitialProject, 4, 101, 0, 1))
        keys == Only(configure_track_preset(zoned, 1, "Keys"))
        moving == Only(create_modulator(keys, 1, "cutoff", "midi"))
        played == Only(create_midi_clip(moving,
                      [rack |-> 4, start |-> FromInteger(4), end |-> FromInteger(24),
                       pattern |-> "loop"]))
    IN Only(replace_graph(moving, played, Region(20, 32)))

MCFirstProjects == {MCSong}
MCSelections == {Region(8, 16), Region(0, 32)}
MCRegions == {Region(8, 16), Region(10, 12), Region(16, 32)}
MCDurations == {FromInteger(20), FromInteger(64)}
MCMoments == {FromInteger(n) : n \in {1, 6, 9, 11, 14, 18, 28, 40}}

\* A new project, edited as a whole.
MCNewProjects == {InitialProject}
MCWholeSong == {Region(0, 32)}
=============================================================================
