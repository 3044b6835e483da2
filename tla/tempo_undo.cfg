SPECIFICATION Spec
CONSTANTS
    Presets = {"Init", "Keys", "Pad"}
    PresetSlots <- MCPresetSlots
    Targets = {"cutoff"}
    Modulatable <- MCModulatable
    NoteCount <- MCNoteCount
    Pitches <- MCPitches
    TRACK_LIMIT = 2
    RACK_LIMIT = 2
    KEY_ZONE_LIMIT = 2
    CLIP_LIMIT = 3
    EDIT_LOG_LIMIT = 2
    SERIAL_EFFECT_SLOT_COUNT = 2
    MAX_TOOLS_PER_TRACK = 2
    MODULATOR_SLOTS = 2
    FirstProjects <- MCNewProjects
    Selections <- MCWholeSong
    Regions <- MCRegions
    Tempos = {129}
    Durations <- MCDurations
    Moments <- MCMoments
    CHANGES = 2
    SLOT_CHANGES = 1
    MANUAL_CHANGES = 0
INVARIANT ServerTakesEveryUndo
CHECK_DEADLOCK FALSE
