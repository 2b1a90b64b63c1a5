\* An unguarded reply and a failure notice share the ids of the platform; two tasks,
\* one crash.  Every call returns.
SPECIFICATION FairSpec
CONSTANTS
    c1 = c1
    c2 = c2
    g1 = g1
    Caller = {c1, c2}
    Group = {g1}
    PartCount <- OnePart
    Guarded = {}
    Reacting = {}
    Poke = {}
    Solo = {s1}
    MsgId = {m1, m2}
    MaxAttempts = 1
    MaxCrashes = 1
    Nobody = Nobody
    Foreign = Foreign
INVARIANT SentHasOneId
PROPERTY
    CallsReturn
