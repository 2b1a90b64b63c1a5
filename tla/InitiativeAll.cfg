\* Openings of one part or two, written and spoken, of a runtime and a zombie,
\* one of which dies, under an owner who pauses, resumes and defers; the clock
\* and the messages of the owner are bounded, so the run ends.
SPECIFICATION Spec
CONSTANTS
    r1 = r1
    r2 = r2
    Runtime = {r1, r2}
    Interval = 2
    Quiet = {5}
    Cap = 1
    MaxParts = 2
    Opening <- Openings
    Controls = TRUE
    Deferrals = {4}
    MaxClock = 6
    MaxVersion = 2
    MaxCrashes = 1
SYMMETRY Runtimes
INVARIANTS
    StateDecodes
    TextsWelcome
    Spaced
    UnknownEndsSilence
    CapHolds
PROPERTY SlotsAreFresh
CHECK_DEADLOCK FALSE
