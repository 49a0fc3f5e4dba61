CONSTANTS
    MaxEvents = 3
    Subscribers = 2
    BufferSize = 2
    Batch = 2
SPECIFICATION Spec
PROPERTY DrainCompletes
CHECK_DEADLOCK FALSE
