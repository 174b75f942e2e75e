SPECIFICATION KitchenSpec
CONSTANTS
    o1 = o1
    t1 = t1
    t2 = t2
    c1 = c1
    m1 = m1
    s1 = s1
    Order = {o1}
    Task = {t1}
    Counter = {c1}
    Machine = {m1}
    Staff = {s1}
    Worker = {w1, w2}
    Proc = {w1, w2, h1}
    None = None
    OrderOf <- OneOrder
    CounterOf <- AtStation
    MachineOf <- OnMachine
    DependsOn <- NoDeps
    HomeCounter <- StationHome
    CounterCap <- OneSeat
    MachineCap <- OneSlot
    MaxParallel <- TwoAtOnce
    Skills <- Everyone
    PopLimit = 2
    RequeueLimit = 2
    MaxRequeues = 1
    MaxFaults = 1
    Staffed = FALSE
    MaxLosses = 1
    MaxRepeats = 2
    MaxManual = 1
INVARIANTS PipeTypeOK AutoCompleteSound StartedTaskHasTimer
PROPERTY StartedCompletes
CHECK_DEADLOCK FALSE
