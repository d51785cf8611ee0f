SPECIFICATION Spec
CONSTANTS
    Streaming = {TRUE}
    SwitchToPolling = 2
    MayFail = FALSE
    MayStop = FALSE
    MaxHead = 2
    MaxErrors = 2
INVARIANT OldErrorsAreReset
CHECK_DEADLOCK FALSE
