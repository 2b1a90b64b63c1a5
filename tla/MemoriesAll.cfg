SPECIFICATION Spec
CONSTANTS
    p1 = p1
    p2 = p2
    c1 = c1
    c2 = c2
    Id = {p1, p2, c1, c2}
    NoId = NoId
    TypeOf <- Types
    Supersedes <- Targets
    Until <- Always
    Forever = 9
    Alike <- Words
    Grade <- Grades
    Class <- Classes
    Imported = {p2}
    MaxItems = 1
    MaxLag = 1
    MaxTime = 4
INVARIANTS
    OneSuccessor
PROPERTIES
    ContradictedStaysOut
    RestoresGrading
SYMMETRY Corrections
CHECK_DEADLOCK FALSE
