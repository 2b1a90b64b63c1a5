\* Two processes started over what a third left: nothing, the files of a
\* crash, or files it is just removing.  Each may fail, be interrupted or be
\* killed anywhere; when all are gone the run ends.
SPECIFICATION FairSpec
CONSTANTS
    Old = Old
    Proc = {Old, p1, p2}
    Nobody = Nobody
    Workers = {"memory"}
    MaxBackoff = 1
INVARIANTS
    OneInstance
    ReadyIsTrue
    WorkUnderReady
    LeavesNothing
PROPERTIES
    FallsTogether
    StartDecides
CHECK_DEADLOCK FALSE
