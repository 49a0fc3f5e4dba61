CONSTANTS
    MaxEvents = 3
    Subscribers = 2
    BufferSize = 2
    Batch = 2
SPECIFICATION Spec
INVARIANT DeliveredInOrder
INVARIANT NothingSkipped
INVARIANT AuditTrail
PROPERTY InlineDrainCompletes
CHECK_DEADLOCK FALSE
