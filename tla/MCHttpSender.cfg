CONSTANT MaxInterim = 1
SPECIFICATION Spec
INVARIANTS AtMostOnce AuthFailureReported SuccessFromAnswer CrashNeedsBadChallenge
PROPERTIES SendReturns
\* A call ends.
CHECK_DEADLOCK FALSE
