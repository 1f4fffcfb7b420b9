SPECIFICATION Spec
CONSTANTS
    Requests = {r1}
    None = None
INVARIANT FaultReported
\* Every request ends.
CHECK_DEADLOCK FALSE
