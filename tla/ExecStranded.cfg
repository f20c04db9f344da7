SPECIFICATION ExecSpec
CONSTANTS
    Executions = {e1, e2}
    BlobInputs = {e1}
    Slots = 1
    QueueCapacity = 2
    MaxGeneration = 2
INVARIANTS
    NeverStranded
CHECK_DEADLOCK FALSE
