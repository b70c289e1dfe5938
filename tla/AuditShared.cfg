\* Two processes on one file, every failure.
SPECIFICATION Spec
CONSTANTS
    server = server
    cli = cli
    t1 = t1
    t2 = t2
    Process = {server, cli}
    Thread = {t1, t2}
    ProcessOf <- TwoProcesses
    Failures = {"nothing", "prefix", "line"}
    ClockStepsBack = FALSE
    MediumDecays = FALSE
    MaxEvents = 4
    MaxTime = 0
    Malformed = Malformed
    NoEvent = NoEvent
    Free = Free
INVARIANTS
    NoDanglingLink
    LossIsVisible
