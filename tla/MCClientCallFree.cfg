CONSTANTS
    Programs <- OnlyNonBlocking
    Threads = {t1}
    Timeout = 1
    CallTimeout = 0
    MaxCalls = 1
    MaxCopies = 1
SPECIFICATION Spec
INVARIANT OpClientOutlivesWorker
\* The application may stop calling; nothing obliges it to free the client.
CHECK_DEADLOCK FALSE
