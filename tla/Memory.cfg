\* Two workers over three events; the third never fits and cuts the session
\* it joins.  The clock and the events are bounded, so the run ends.
SPECIFICATION Spec
CONSTANTS
    w1 = w1
    w2 = w2
    Worker = {w1, w2}
    MaxEvents = 3
    Weight <- ThirdHeavy
    MaxTokens = 2
    Gap = 2
    Lease = 2
    Cooldown = 2
    ParseDelay = 1
    Delays <- OneUnit
    Rounds = 1
    MaxClock = 7
    MaxCrashes = 1
SYMMETRY Workers
INVARIANTS
    Accounted
    GivenUpForCause
PROPERTY ClaimRespected
CHECK_DEADLOCK FALSE
