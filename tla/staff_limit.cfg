SPECIFICATION Spec
SYMMETRY Symmetry
CONSTANTS
    o1 = o1
    o2 = o2
    t1 = t1
    t2 = t2
    t3 = t3
    t4 = t4
    c1 = c1
    c2 = c2
    m1 = m1
    m2 = m2
    s1 = s1
    s2 = s2
    Order = {o1}
    Task = {t1, t2, t3}
    Counter = {c1, c2}
    Machine = {m1, m2}
    Staff = {s1, s2}
    Proc = {p1, p2}
    None = None
    OrderOf <- OneOrder
    CounterOf <- FanInCounter
    MachineOf <- FanInMachine
    DependsOn <- FanInDeps
    HomeCounter <- TwoStations
    CounterCap <- OneEach
    MachineCap <- OneSlot
    MaxParallel <- Single
    Skills <- Shared
    PopLimit = 2
    RequeueLimit = 2
    MaxRequeues = 0
    MaxFaults = 0
INVARIANT StaffBelowMaxParallel
