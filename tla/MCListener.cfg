CONSTANTS
    NumConns = 1
    MaxCalls = 2
    MaxGen = 2
    MaxFaults = 2
SPECIFICATION Spec
INVARIANTS StopFreesNothing CrashNeedsStop LeakNeedsFault WaitingCallsKeepListener
PROPERTIES AcceptedIsClosed
\* The application may stop calling, and the process may die.
CHECK_DEADLOCK FALSE
