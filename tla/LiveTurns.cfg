SPECIFICATION Spec
CONSTANTS
    s1 = s1
    Sessions = {s1, s2}
    Workers = {w1, w2}
    MaxTurns = 2
    Silent = {2}
    MaxFaults = 1
    Absent = Absent
    Nobody = Nobody
SYMMETRY LiveSymmetry
CONSTRAINT OneOrBrief
INVARIANTS
    HistoryReadsBack
    RetirementLosesNoTurn
PROPERTY ImplementsLog
CHECK_DEADLOCK FALSE
