CONSTANTS
    Programs <- OnlyDualBlocking
    Threads = {t1}
    Timeout = 1
    CallTimeout = 0
    MaxCalls = 3
    MaxCopies = 1
SPECIFICATION Spec
INVARIANT AnswersNeverCross
\* The application may stop calling; nothing obliges it to free the client.
CHECK_DEADLOCK FALSE
