\* A session that is cut to fit is retried without end: violated.
SPECIFICATION Spec
CONSTANTS
    w1 = w1
    w2 = w2
    Worker = {w1}
    MaxEvents = 2
    Weight <- Light
    MaxTokens = 1
    Gap = 2
    Lease = 2
    Cooldown = 2
    ParseDelay = 1
    Delays <- OneUnit
    Rounds = 0
    MaxClock = 9
    MaxCrashes = 0
INVARIANT RetryBudget
CHECK_DEADLOCK FALSE
