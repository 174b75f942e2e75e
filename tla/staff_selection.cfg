SPECIFICATION Spec
CONSTANTS
    s1 = s1
    s2 = s2
    Staff = {s1, s2}
    Task = {t1, t2}
    Proc = {p1}
    None = None
    Estimates = {1, 999}
    ShiftStart <- Shifts
    MaxParallel <- Two
    MaxEfficiency = 1000000
    MaxTime = 2
    MaxCompletions = 3
INVARIANTS TypeOK EfficiencyFits
PROPERTIES NeverPicksTheWorse OnTimeEarnsNothing
CHECK_DEADLOCK FALSE
