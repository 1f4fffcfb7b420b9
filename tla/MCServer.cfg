SPECIFICATION Spec
CONSTANTS
    Requests = {r1, r2}
    None = None
INVARIANTS
    ServiceReady
    LaterRequestsShare
    AnsweredOnce
    FailureReported
    LibraryOutlivesObject
PROPERTIES
    RequestsEnd
\* Every request ends.
CHECK_DEADLOCK FALSE
