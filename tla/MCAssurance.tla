----------------------------- MODULE MCAssurance -----------------------------
(* Instances of Assurance: checks and findings as the modules report them. *)
EXTENDS Assurance, TLC

CONSTANTS
    DT5, DT6, MT2, MT3, IT,
    outlier, modified, sparse, dead, limited, gap, skew, tampered

Report(threat, severity, confidence, recommended) ==
    [threat |-> threat, severity |-> severity, confidence |-> confidence,
     recommended |-> recommended]

Reports ==
    (outlier :> Report(DT5, "MEDIUM", 83, "REVIEW"))
    @@ (dead :> Report(MT2, "MEDIUM", 80, "REVIEW"))
    @@ (modified :> Report(MT2, "MEDIUM", 75, "REVIEW"))
    @@ (sparse :> Report(MT2, "LOW", 60, "REVIEW"))
    @@ (limited :> Report(MT3, "INFORMATIONAL", 100, "ACCEPT"))
    @@ (gap :> Report(IT, "MEDIUM", 85, "REVIEW"))
    @@ (skew :> Report(IT, "HIGH", 100, "REVIEW"))
    @@ (tampered :> Report(IT, "CRITICAL", 100, "QUARANTINE"))

ReportOfFinding == [f \in Finding |-> Reports[f]]

DefaultWeights ==
    [d \in Dimension |->
        CASE d = "data_integrity" -> 25 [] d = "model_integrity" -> 35
          [] d = "inference_provenance" -> 25 [] d = "distribution_shift" -> 15]

=============================================================================
