SPECIFICATION Spec
CONSTANTS
    Preferred = 14
    Maximum = 36
    Verified = 36
    Reserve = 2
    HistoryBudget = 14
    WorkingMax = 4
    MaxMemories = 2
    ImageCost = 2
    Event = {1, 2, 3, 4, 5}
    Size <- MCSize
    At <- MCAt
    Internal = {2}
    LongGap = 2
    GapCost = 1
    Header = 1
    Join = 1
    Requests <- MCRequests
    Texts <- MCTexts
    RetryLimit = 1
    TimeoutRetries = 1
    Tools = {"web", "lens"}
    MaxParts = 6
INVARIANTS FillsWhatFits WiderLosesNothing
PROPERTY Ends
