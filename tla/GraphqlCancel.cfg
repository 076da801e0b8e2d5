SPECIFICATION Spec
CONSTANTS
    MaxOperations = 2
    OperationIds = {a}
CHECK_DEADLOCK FALSE
PROPERTIES
    CompleteSparesOthers
