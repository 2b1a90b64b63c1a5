\* One guarded two-part reply with a reaction, asked for by two tasks, and
\* a poke answered by a poke; one crash.
SPECIFICATION Spec
CONSTANTS
    c1 = c1
    c2 = c2
    g1 = g1
    Caller = {c1, c2}
    Group = {g1}
    PartCount <- TwoParts
    Guarded = {g1}
    Reacting = {g1}
    Poke = {k1}
    Solo = {}
    MsgId = {m1, m2}
    MaxAttempts = 2
    MaxCrashes = 1
    Nobody = Nobody
    Foreign = Foreign
SYMMETRY Tasks
INVARIANTS
    PartsInOrder
    EventMirrorsOutbox
    HookWithFirstPart
    FrozenOnlyByCrash
PROPERTY KeepsPromise
