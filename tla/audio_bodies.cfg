SPECIFICATION Spec

CONSTANTS
    SAMPLE_RATE = 8
    BLOCK_SIZE = 4
    TICKS = 8
    EPSILON = 1
    SHORTEST_GATE = 32
    VOICE_TAIL = 64
    DSP_SETTLING = 64
    Projects <- Songs
    StartTimes <- Starts
    Windows <- SpectrumWindows
    RangeHeaders <- Headers
    Analyses <- Analysed
    MAX_REGION = 24
    PLAYBACK_CHUNK_SAMPLES = 16
    SPECTRUM_FRAME_SAMPLES = 3
    SPECTRUM_FFT_SAMPLES = 8
    WAV_HEADER_BYTES = 44
    CHANGES = 1

INVARIANTS
    SoundsAsWritten
    PromisedBytesArrive
    SpectrumSeesItsWindow
    SpectrumIsCurrent
