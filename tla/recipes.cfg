SPECIFICATION Spec
CHECK_DEADLOCK FALSE
CONSTANTS
    a = a
    m1 = m1
    m2 = m2
    None = None
    Item = {a}
    Step <- FourSteps
    Machine = {m1, m2}
    MachineCap <- SingleAndDouble
    Recipe <- EveryRecipe
    MaxQty = 2
INVARIANTS TypeOK LinksWithinUnit FallbackDrains SharedMachineSerialized KitchenCanTakeIt
