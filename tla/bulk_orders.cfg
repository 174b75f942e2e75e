SPECIFICATION KitchenSpec
CONSTANTS
    o1 = o1
    t1 = t1
    t2 = t2
    c1 = c1
    m1 = m1
    s1 = s1
    Order = {o1}
    Task = {t1, t2}
    Counter = {c1}
    Machine = {m1}
    Staff = {s1}
    Worker = {w1, w2}
    Proc = {w1, w2, h1}
    None = None
    OrderOf <- OneOrder
    CounterOf <- AtStation
    MachineOf <- OnMachine
    DependsOn <- NoDeps
    HomeCounter <- StationHome
    CounterCap <- OneSeat
    MachineCap <- OneSlot
    MaxParallel <- TwoAtOnce
    Skills <- Everyone
    PopLimit = 2
    RequeueLimit = 2
    MaxRequeues = 0
    MaxFaults = 0
    Staffed = TRUE
    MaxLosses = 0
    MaxRepeats = 0
    MaxManual = 0
PROPERTY EveryTaskCompletes
CHECK_DEADLOCK FALSE
