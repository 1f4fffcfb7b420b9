CONSTANTS
    Flow <- MCFlow
    Kinds <- OnlyIn
    MaxCalls = 2
SPECIFICATION Spec
INVARIANT ResumeAsDocumented
CHECK_DEADLOCK FALSE
