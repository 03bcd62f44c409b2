SPECIFICATION PlaybackSpec
CONSTANTS
    Capacity = 5
    MaxFrames = 5
    ChunkSizes = {1, 2, 3}
    Gaps = {0, 1}
    MsRate = 2
    Frames = 13
    SyncMs = 2
    BlockSize = 4
    MaxAge = 16
    Silence = Silence
    Starts <- MCStarts
    Jumps <- MCJumps
    MaxJumps = 1
PROPERTIES
    HardSyncExact
CHECK_DEADLOCK FALSE
