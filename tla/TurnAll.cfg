\* A poke, a text and an opening, answered in texts, records or both, compete for the
\* lock; one crash.  A process that refused to start over an unfinished message stops for good.
SPECIFICATION FairSpec
CONSTANTS
    Message = {m1, m2}
    Pokes = {m1}
    Opening = {o1}
    MaxParts = 2
    VoiceReady = TRUE
    Consumers = 2
    MaxUnread = 1
    MaxCrashes = 1
INVARIANTS
    TextNeverStale
    OneSpeaker
    WatermarkBehindRunning
    CutBlocksRestart
    OneOutcome
PROPERTY Heard
CHECK_DEADLOCK FALSE
