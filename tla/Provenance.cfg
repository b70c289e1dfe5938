\* Two workers on one registry: failing statements, crashes, key changes, the clock.
SPECIFICATION Spec
CONSTANTS
    first = first
    next = next
    later = later
    rival = rival
    reused = reused
    hmacOnly = hmacOnly
    unkeyed = unkeyed
    altered = altered
    unsigned = unsigned
    old = old
    s1 = s1
    w1 = w1
    w2 = w2
    k1 = k1
    k2 = k2
    m1 = m1
    m2 = m2
    n1 = n1
    n2 = n2
    n3 = n3
    n4 = n4
    n5 = n5
    Content <- FieldsOfRecord
    Session = {s1}
    Nonce = {n1, n2, n3, n4, n5}
    Key = {k1, k2}
    UnknownKey = UnknownKey
    Material = {m1, m2}
    PublicOf <- Public
    SecretOf <- Secret
    Tolerance = 0
    Absent = Absent
    Idle = Idle
    Worker = {w1, w2}
    Record = {first, later, rival, reused, hmacOnly, unkeyed, old, unsigned}
    Mismatches <- NoMismatch
    Enforced = {TRUE, FALSE}
    StorageFails = TRUE
    MaxCalls = 3
    MaxTime = 1
SYMMETRY Alike
INVARIANTS
    NonceAcceptedOnce
    AdvancedByBoundRecord
    AcceptedIsBoundOrUncheckable
    AccusedHasCause
    GapNoticed
PROPERTIES
    ReplayProtection
    BackOnlyWhenOvertaken
