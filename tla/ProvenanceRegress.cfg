\* Two workers on one stream.
SPECIFICATION Spec
CONSTANTS
    first = first
    next = next
    later = later
    rival = rival
    reused = reused
    hmacOnly = hmacOnly
    unkeyed = unkeyed
    altered = altered
    unsigned = unsigned
    old = old
    s1 = s1
    w1 = w1
    w2 = w2
    k1 = k1
    k2 = k2
    m1 = m1
    m2 = m2
    n1 = n1
    n2 = n2
    n3 = n3
    n4 = n4
    n5 = n5
    Content <- FieldsOfRecord
    Session = {s1}
    Nonce = {n1, n2, n3, n4, n5}
    Key = {k1, k2}
    UnknownKey = UnknownKey
    Material = {m1, m2}
    PublicOf <- Public
    SecretOf <- Secret
    Tolerance = 1
    Absent = Absent
    Idle = Idle
    Worker = {w1, w2}
    Record = {first, next, later}
    Mismatches <- NoMismatch
    Enforced = {TRUE}
    StorageFails = FALSE
    MaxCalls = 3
    MaxTime = 0
PROPERTY
    SequenceNeverGoesBack
