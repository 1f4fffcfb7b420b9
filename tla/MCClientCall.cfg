CONSTANTS
    Programs <- AllPrograms
    Threads = {t1, t2}
    Timeout = 1
    CallTimeout = 0
    MaxCalls = 3
    MaxCopies = 2
SPECIFICATION Spec
INVARIANTS TypeOK AnswerBelongsToCall CompleteIsFinal ResponseFindsCallback CallbackOutlivesUse SendFailureReported
PROPERTIES BlockingCallReturns WorkerCompletes DeliveredResponseCompletes
\* The application may stop calling; nothing obliges it to free the client.
CHECK_DEADLOCK FALSE
