\* One module at a time, nothing fails.
SPECIFICATION Spec
CONSTANTS
    w1 = w1
    w2 = w2
    Worker = {w1}
    Section = {"dataset", "model", "inference"}
    StorageFails = FALSE
    MaxRuns = 3
    NoSession = NoSession
    NoVerdict = NoVerdict
    Idle = Idle
INVARIANT
    FindingsStored
