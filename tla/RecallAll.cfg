SPECIFICATION Spec
CONSTANTS
    H = 4
    NewDay = 1
    Start = 7
    LastTime = 9
    Month = 30
    Fragment = {2, 5, 6, 8}
    Stored0 = {2, 5, 6}
    Holds <- MCHolds
    Record <- MCRecord
    Messages <- MCMessages
    Lookback = 2
    DayLimit = 2
    Limit = 2
    Budget = 2
    MaxAge = 1
    IndexDays = 1
    MaxLines = 1
    MaxSensitive = 1
    CarryTurns = 1
    SessionGap = 1
INVARIANTS ShownIsIndexed EachAdmitted PictureWindow
PROPERTY SealedNeedsThePast
