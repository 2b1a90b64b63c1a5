SPECIFICATION DetailSpec
CONSTANTS
    N = 3
    Cap = 2
    MaxDepth = 2
    Margin = 0
    HoleMargin = 0
    MaxDrafts = 3
    MaxAttempts = 2
    MaxVersion = 1
    MaxRepairs = 2
INVARIANT OneTimeline
PROPERTY Tiles
CHECK_DEADLOCK FALSE
