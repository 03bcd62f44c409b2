SPECIFICATION Spec
CONSTANTS
    Modern = TRUE
    Streams = {s1}
    None = None
    Formats <- MCFormats
    Playable <- MCPlayable
    Offers <- MCOffers
    Volumes <- MCVolumes
    FullVolume = "full"
    Window = 2
    MaxInbox = 2
    MaxChunks = 1
    MaxDrops = 1
    MaxChanges = 1
INVARIANTS
    InFlight
    StoppedStaysQuiet
    OneSyncTimer
    SameFormat
    GainFollows
PROPERTIES
    PlaysAgain
CHECK_DEADLOCK FALSE
