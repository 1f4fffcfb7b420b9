CONSTANTS
    Flow <- MCFlow
    Kinds <- AllKinds
    MaxCalls = 3
SPECIFICATION Spec
INVARIANTS TypeOK ReceiverSeesProcessedMessage NoHandlerSkipped DeliveredAtMostOnce
PROPERTIES NeverBackwards NoDeliveryWhilePaused CallsReturn ImplementsMessageLife
\* A message that was handed over, rejected or left paused is not called again.
CHECK_DEADLOCK FALSE
