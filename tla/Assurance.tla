------------------------------ MODULE Assurance ------------------------------
(***************************************************************************)
(* The assurance verdict of one analysis session: the outcomes of the      *)
(* checks (analysis/orchestrator.py, analysis/model_orchestrator.py) and   *)
(* of the verification of records, their merge into the session            *)
(* (storage/database.py, update_session_section) and the aggregation       *)
(* (analysis/assurance/rules.py, aggregator.py).                           *)
(*                                                                         *)
(* The code computes with floating point numbers.  Here confidences are    *)
(* hundredths, risks thousandths, scores ten-thousandths, as the code      *)
(* rounds them.  A value halfway between two scores is rounded either way: *)
(* the code adds the dimensions in the order of a set of strings, which    *)
(* differs between processes, and the last bit of the sum with it.         *)
(*                                                                         *)
(* SessionStore models how updates of a session overlap and fail; here     *)
(* each takes effect at once.                                              *)
(***************************************************************************)
EXTENDS Integers, FiniteSets, FiniteSetsExt

CONSTANTS
    DatasetCheck,     \* the primary checks of the dataset orchestrator
    Contributor,      \* its contributor check, which runs after them
    ModelCheck,       \* the checks of the model orchestrator
    RecordThreat,     \* the threats verify_record reports
    Finding,          \* the findings that may be reported
    Detail,           \* Detail[f]: what finding f says
    DimensionWeight,  \* dimension_weights, in hundredths
    QuarantineAt,     \* quarantine_threshold, in ten-thousandths
    ReviewAt,         \* review_threshold, in ten-thousandths
    VetoConfidence,   \* min_confidence_for_veto, in hundredths
    VetoEnabled,      \* critical_veto_enabled
    InferenceProvenance, \* the one analysis a verified record executes
    NoVerdict

Dimension == {"data_integrity", "model_integrity", "inference_provenance", "distribution_shift"}
Severity == {"CRITICAL", "HIGH", "MEDIUM", "LOW", "INFORMATIONAL"}
Disposition == {"ACCEPT", "REVIEW", "QUARANTINE"}

Check == DatasetCheck \cup {Contributor} \cup ModelCheck
Analysis == Check \cup {InferenceProvenance}
Details == [threat : Check \cup RecordThreat, severity : Severity, confidence : 0..100,
            recommended : Disposition]

ASSUME CheckAssumption ==
    /\ Contributor \notin DatasetCheck
    /\ (DatasetCheck \cup {Contributor}) \cap ModelCheck = {}
    /\ RecordThreat \cap Check = {}
    /\ InferenceProvenance \notin Check
ASSUME DetailAssumption == IsFiniteSet(Finding) /\ Detail \in [Finding -> Details]
ASSUME WeightAssumption ==
    DimensionWeight \in [Dimension -> Nat] /\ SumFunction(DimensionWeight) = 100
ASSUME ConfigAssumption ==
    /\ QuarantineAt \in 0..10000 /\ ReviewAt \in 0..10000
    /\ VetoConfidence \in 0..100 /\ VetoEnabled \in BOOLEAN

VARIABLES
    executed,  \* executed_analyses of the session
    skipped,   \* the analysis ids of its skipped_analyses
    findings,  \* its findings
    fate,      \* what became of each check when its module last ran
    verdict    \* the verdict given on the session as it stands, or NoVerdict

vars == << executed, skipped, findings, fate, verdict >>

(* What may become of a check; "unrecorded": it ran to its end, but         *)
(* recording one of its findings raised.                                   *)
Fates == {"never", "notRequested", "notApplicable", "failed", "unrecorded", "ran"}

Verdicts == [risk : 0..10000, disposition : Disposition, contributing : SUBSET Finding,
             unsupported : SUBSET Analysis]

SessionTyped ==
    /\ executed \in SUBSET Analysis
    /\ skipped \in SUBSET Check
    /\ findings \in SUBSET Finding
    /\ fate \in [Check -> Fates]

TypeOK == SessionTyped /\ verdict \in Verdicts \cup {NoVerdict}

-----------------------------------------------------------------------------
(* Rules for one finding.                                                  *)

SeverityWeight(s) ==
    CASE s = "CRITICAL" -> 10 [] s = "HIGH" -> 8 [] s = "MEDIUM" -> 5
      [] s = "LOW" -> 2 [] s = "INFORMATIONAL" -> 0

(* compute_finding_risk, in thousandths.                                   *)
FindingRisk(f) == SeverityWeight(Detail[f].severity) * Detail[f].confidence

(* map_finding_to_dimension.                                               *)
DimensionOf(f) ==
    CASE Detail[f].threat \in DatasetCheck \cup {Contributor} -> "data_integrity"
      [] Detail[f].threat \in ModelCheck -> "model_integrity"
      [] Detail[f].threat \in RecordThreat -> "inference_provenance"

(* evaluate_critical_veto.                                                 *)
Vetoes(f) ==
    \/ Detail[f].severity = "CRITICAL" /\ Detail[f].confidence >= VetoConfidence
    \/ Detail[f].recommended = "QUARANTINE"

VetoTriggered(fs) == VetoEnabled /\ \E f \in fs : Vetoes(f)

-----------------------------------------------------------------------------
(* The scores.                                                             *)

(* round(n / d): both neighbours when n / d lies halfway between them.     *)
Nearest(n, d) == { q \in {n \div d, n \div d + 1} : 2 * (n - q * d) \in -d..d }

(* The product of all values of f, and 1000^n: the unit in which a product *)
(* of n thousandths is counted.                                            *)
Product(f) == FoldFunction(LAMBDA p, q : p * q, 1, f)
Thousands(n) == Product([k \in 1..n |-> 1000])

(* 1 - PRODUCT(1 - r_i), rounded to four places.                           *)
NoisyOr(fs) ==
    LET n == Cardinality(fs)
        none == Product([f \in fs |-> 1000 - FindingRisk(f)])
    IN  CASE n = 0 -> {0}
          [] n = 1 -> {10 * (1000 - none)}
          [] OTHER -> Nearest(Thousands(n) - none, 100 * Thousands(n - 2))

(* compute_dimensional_scores: the scores of the four dimensions.          *)
DimensionScores(fs) ==
    LET near == [d \in Dimension |-> NoisyOr({ f \in fs : DimensionOf(f) = d })] IN
    { score \in [Dimension -> UNION { near[d] : d \in Dimension }] :
        \A d \in Dimension : score[d] \in near[d] }

(* Mutant: the weighted sum alone.                                         *)
CompositeDiluted(fs, score) ==
    Nearest(SumFunction([d \in Dimension |-> DimensionWeight[d] * score[d]]), 100)

(* compute_composite_risk: the largest of the single risks, the weighted   *)
(* sum of the dimensions, and the threshold when there is a veto.          *)
Composite(fs, score) ==
    LET individual == Max({0} \cup { 1000 * FindingRisk(f) : f \in fs })
        weighted == SumFunction([d \in Dimension |-> DimensionWeight[d] * score[d]])
        floor == IF VetoTriggered(fs) THEN 100 * QuarantineAt ELSE 0
    IN  Nearest(Max({individual, weighted, floor}), 100)

CompositeRisks(fs) == UNION { Composite(fs, score) : score \in DimensionScores(fs) }

-----------------------------------------------------------------------------
(* The verdict.                                                            *)

(* process_unsupported_checks: what was skipped, unless it was executed or *)
(* is the threat of a finding.                                             *)
Unsupported(fs, ex, sk) == sk \ (ex \cup { Detail[f].threat : f \in fs })

(* Mutant: review only when every finding asks for it.                     *)
DispositionUnanimous(risk, fs, unsupported) ==
    IF VetoTriggered(fs) \/ risk >= QuarantineAt THEN "QUARANTINE"
    ELSE IF risk >= ReviewAt \/ unsupported # {}
              \/ (fs # {} /\ \A f \in fs : Detail[f].recommended = "REVIEW") THEN "REVIEW"
    ELSE "ACCEPT"

(* Mutant: what was not checked is not held against the asset.             *)
DispositionUncovered(risk, fs, unsupported) ==
    IF VetoTriggered(fs) \/ risk >= QuarantineAt THEN "QUARANTINE"
    ELSE IF risk >= ReviewAt \/ \E f \in fs : Detail[f].recommended = "REVIEW" THEN "REVIEW"
    ELSE "ACCEPT"

(* evaluate_disposition.                                                   *)
DispositionOf(risk, fs, unsupported) ==
    IF VetoTriggered(fs) \/ risk >= QuarantineAt THEN "QUARANTINE"
    ELSE IF risk >= ReviewAt \/ unsupported # {}
              \/ \E f \in fs : Detail[f].recommended = "REVIEW" THEN "REVIEW"
    ELSE "ACCEPT"

ContributingFindings(fs) ==
    { f \in fs : FindingRisk(f) > 0 \/ Detail[f].recommended # "ACCEPT" }

(* aggregate: the verdicts that may come out.                              *)
Aggregate(fs, ex, sk) ==
    { [risk |-> risk,
       disposition |-> DispositionOf(risk, fs, Unsupported(fs, ex, sk)),
       contributing |-> ContributingFindings(fs),
       unsupported |-> Unsupported(fs, ex, sk)] : risk \in CompositeRisks(fs) }

-----------------------------------------------------------------------------
Init ==
    /\ executed = {} /\ skipped = {} /\ findings = {}
    /\ fate = [c \in Check |-> "never"]
    /\ verdict = NoVerdict

(* Mutant: what other modules skipped is forgotten.                        *)
MergeForgetful(own, dimension, ex, sk, fs) ==
    /\ executed' = (executed \ own) \cup ex
    /\ skipped' = sk
    /\ findings' = { f \in findings : DimensionOf(f) # dimension } \cup fs

(* update_session_section: what the module reported before is replaced,    *)
(* what the others reported is kept.                                       *)
Merge(own, dimension, ex, sk, fs) ==
    /\ executed' = (executed \ own) \cup ex
    /\ skipped' = (skipped \ own) \cup sk
    /\ findings' = { f \in findings : DimensionOf(f) # dimension } \cup fs

(* A check that ran counts as executed, also when recording one of its     *)
(* findings raised; then it counts as skipped too.                         *)
Executed(outcome) == { c \in DOMAIN outcome : outcome[c] \in {"ran", "unrecorded"} }

(* The checks that report a skip; the contributor check does not when it   *)
(* does not apply.                                                         *)
Skipped(outcome) ==
    { c \in DOMAIN outcome :
        \/ outcome[c] \in {"failed", "unrecorded"}
        \/ outcome[c] \in {"notRequested", "notApplicable"} /\ c # Contributor }

(* The findings of checks that ran; recording fails with a finding only.   *)
ReportedBy(outcome, fs) ==
    /\ \A f \in fs : Detail[f].threat \in Executed(outcome)
    /\ \A c \in DOMAIN outcome :
         outcome[c] = "unrecorded" => \E f \in fs : Detail[f].threat = c

RunModule(own, dimension, outcome, fs) ==
    /\ ReportedBy(outcome, fs)
    /\ Merge(own, dimension, Executed(outcome), Skipped(outcome), fs)
    /\ fate' = [c \in Check |-> IF c \in own THEN outcome[c] ELSE fate[c]]
    /\ verdict' = NoVerdict

(* The dataset module: its orchestrator, then the update of the session.   *)
(* The contributor check runs whether or not it was requested.             *)
RunDataset(outcome, fs) ==
    /\ outcome[Contributor] # "notRequested"
    /\ RunModule(DatasetCheck \cup {Contributor}, "data_integrity", outcome, fs)

(* The model module.                                                       *)
RunModel(outcome, fs) == RunModule(ModelCheck, "model_integrity", outcome, fs)

(* The route that verifies a record stores what the verifier found.        *)
VerifyRecord(fs) ==
    /\ Merge({InferenceProvenance}, "inference_provenance", {InferenceProvenance}, {}, fs)
    /\ verdict' = NoVerdict
    /\ UNCHANGED fate

(* evaluate_session.                                                       *)
Assess ==
    /\ verdict' \in Aggregate(findings, executed, skipped)
    /\ UNCHANGED << executed, skipped, findings, fate >>

Outcomes(own) == [own -> Fates \ {"never"}]
FindingsOn(threats) == SUBSET { f \in Finding : Detail[f].threat \in threats }

Next ==
    \/ \E outcome \in Outcomes(DatasetCheck \cup {Contributor}),
          fs \in FindingsOn(DatasetCheck \cup {Contributor}) : RunDataset(outcome, fs)
    \/ \E outcome \in Outcomes(ModelCheck), fs \in FindingsOn(ModelCheck) : RunModel(outcome, fs)
    \/ \E fs \in FindingsOn(RecordThreat) : VerifyRecord(fs)
    \/ Assess

Spec == Init /\ [][Next]_vars

-----------------------------------------------------------------------------
(* Properties.                                                             *)

(* A verdict lists exactly the checks that did not come to their end when  *)
(* their module last ran, whichever modules ran since; only a contributor  *)
(* check that did not apply, and modules that never ran, go unmentioned.   *)
CoverageTold ==
    verdict # NoVerdict =>
        verdict.unsupported =
            { c \in Check :
                \/ fate[c] = "failed"
                \/ fate[c] \in {"notRequested", "notApplicable"} /\ c # Contributor }

(* ACCEPT is given only if every check of the modules that ran came to its *)
(* end (a contributor check may not apply), and no finding asks for more.  *)
AcceptMeansClean ==
    verdict # NoVerdict /\ verdict.disposition = "ACCEPT" =>
        /\ \A c \in Check :
             \/ fate[c] \in {"never", "ran", "unrecorded"}
             \/ c = Contributor /\ fate[c] = "notApplicable"
        /\ \A f \in findings :
             /\ Detail[f].recommended # "REVIEW"
             /\ VetoEnabled => ~Vetoes(f)

(* Findings that weigh little do not dilute one that weighs much, and the  *)
(* risk never exceeds what the single risks add up to (up to rounding),    *)
(* unless a veto raised it.                                                *)
RiskWithinBounds ==
    verdict # NoVerdict =>
        /\ \A f \in findings : verdict.risk >= 10 * FindingRisk(f)
        /\ \/ VetoTriggered(findings)
           \/ verdict.risk <= 10 * SumFunction([f \in findings |-> FindingRisk(f)]) + 1

(* Without one of its findings the session would get no stricter           *)
(* disposition, and no higher risk up to the rounding: reporting more      *)
(* never helps an asset.                                                   *)
Rank(disposition) == CASE disposition = "ACCEPT" -> 0 [] disposition = "REVIEW" -> 1
                       [] disposition = "QUARANTINE" -> 2
Rounding == 2

ReportingNeverHelps ==
    verdict # NoVerdict =>
        \A f \in findings :
            \A without \in Aggregate(findings \ {f}, executed, skipped) :
                /\ without.risk <= verdict.risk + Rounding
                /\ \/ Rank(without.disposition) <= Rank(verdict.disposition)
                   \/ without.risk > verdict.risk

(* A finding about a record stays in the session.                          *)
RecordFindingsKept ==
    [][ \A f \in findings : DimensionOf(f) = "inference_provenance" => f \in findings' ]_vars

(* Assessing a session again, with nothing changed, gives the same verdict. *)
Reproducible == [][ verdict # NoVerdict /\ verdict' # NoVerdict => verdict' = verdict ]_vars

=============================================================================
