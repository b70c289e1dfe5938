\* One process: statements and file operations fail, the process dies, files
\* are changed from outside.
SPECIFICATION Spec
CONSTANTS
    p1 = p1
    p2 = p2
    e1 = e1
    e2 = e2
    a1 = a1
    c1 = c1
    c2 = c2
    Process = {p1}
    Evidence = {e1}
    Artifact = {a1}
    Content = {c1, c2}
    Refs <- AllRefs
    Owner = {Absent, e1}
    StorageFails = TRUE
    HostFails = TRUE
    Damages = TRUE
    Absent = Absent
    Idle = Idle
INVARIANTS
    StoredIntact
    RowHasFileUnlessUndone
    NoFalseAccusation
    ReadsAgree
    OrphanHasCause
PROPERTY
    WritesOnce
