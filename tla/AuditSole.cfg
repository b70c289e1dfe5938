\* One process, two threads: failed appends leave nothing, the clock runs
\* forward, the medium may damage a line.
SPECIFICATION Spec
CONSTANTS
    server = server
    cli = cli
    t1 = t1
    t2 = t2
    Process = {server}
    Thread = {t1, t2}
    ProcessOf <- OneProcess
    Failures = {"nothing"}
    ClockStepsBack = FALSE
    MediumDecays = TRUE
    MaxEvents = 4
    MaxTime = 1
    Malformed = Malformed
    NoEvent = NoEvent
    Free = Free
INVARIANTS
    ChainIntact
    DamageLocated
PROPERTY
    LinearLedger
