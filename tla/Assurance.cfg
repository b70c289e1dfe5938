\* A dataset check and the contributor check, two model checks, findings of every module.
SPECIFICATION Spec
CONSTANTS
    DT5 = DT5
    DT6 = DT6
    MT2 = MT2
    MT3 = MT3
    IT = IT
    outlier = outlier
    modified = modified
    sparse = sparse
    dead = dead
    limited = limited
    gap = gap
    skew = skew
    tampered = tampered
    Contributor = DT6
    RecordThreat = {IT}
    Detail <- ReportOfFinding
    DimensionWeight <- DefaultWeights
    QuarantineAt = 7000
    ReviewAt = 3000
    VetoConfidence = 50
    VetoEnabled = TRUE
    InferenceProvenance = InferenceProvenance
    NoVerdict = NoVerdict
    DatasetCheck = {DT5}
    ModelCheck = {MT2, MT3}
    Finding = {outlier, dead, sparse, limited, gap, skew, tampered}
INVARIANTS
    CoverageTold
    AcceptMeansClean
    RiskWithinBounds
    ReportingNeverHelps
