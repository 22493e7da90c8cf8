SPECIFICATION JournalSpec
CONSTANTS
    RecordCells = 3
    MaxAppends = 5
    MaxFaults = 3
    Versions = {1, 2}
    TornWritesStay = FALSE
INVARIANTS
    AckedReadable
PROPERTIES
    RecoverKeepsRecords
    ImplementsAbstractLog
CHECK_DEADLOCK FALSE
