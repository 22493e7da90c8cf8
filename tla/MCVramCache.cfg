SPECIFICATION Spec
CONSTANTS
    MaxSlots = 3
    MaxSeq = 4
    MaxEvictions = 3
    MaxImportance = 1
    HardBudgets = {320}
    Targets = {128, 224, 288}
INVARIANTS
    Accounted
    Lossless
PROPERTIES
    AllOrNothing
    
    ImportantPaysLast
    GenerationsFresh
    CallsReturn
CHECK_DEADLOCK FALSE
