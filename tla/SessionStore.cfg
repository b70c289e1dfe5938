\* Two modules at a time; statements fail, processes die.
SPECIFICATION Spec
CONSTANTS
    w1 = w1
    w2 = w2
    Worker = {w1, w2}
    Section = {"dataset", "model", "inference"}
    StorageFails = TRUE
    MaxRuns = 4
    NoSession = NoSession
    NoVerdict = NoVerdict
    Idle = Idle
INVARIANTS
    LatestKeptUndisturbed
    VerdictRowCurrent
    NoGhostFindings
    LastWriterStored
PROPERTY
    ImplementsBoard
