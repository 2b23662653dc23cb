SPECIFICATION ReplaySpec
CONSTANTS
    Inputs = {"first", "second"}
    MaxBatches = 2
    Stub = Stub
    NoAnswer = NoAnswer
INVARIANTS
    MissingRecordFails
CHECK_DEADLOCK FALSE
