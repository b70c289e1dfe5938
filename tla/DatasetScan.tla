---------------------------- MODULE DatasetScan ----------------------------
(***************************************************************************)
(* POST /datasets/scan: the directory is ingested once more, as the        *)
(* analyst's if the client names nobody, and DatasetIntegrityOrchestrator  *)
(* runs the checks on the result.  A check saves the evidence of a finding *)
(* as it makes the finding; the orchestrator then records the findings one *)
(* by one.  Whatever fails on the way only makes a note of the check.      *)
(*                                                                         *)
(* What becomes of the session and of its rows is in SessionStore.         *)
(***************************************************************************)
EXTENDS DatasetIntake, DatasetChecks

CONSTANTS
  Analyst,       \* the contributor a scan names by default
  MaxFailures    \* bound: checks during which storage fails

ASSUME FailuresAreBounded == MaxFailures \in Nat

VARIABLES
  scanning,      \* the call in progress is a scan
  evidence,      \* findings whose evidence is in the evidence store
  recorded,      \* findings in the audit log and in the table of findings
  sessions,      \* what each analysis came to
  failures

scanVars == <<scanning, evidence, recorded, sessions, failures>>
allVars == <<vars, scanVars>>

ScanInit ==
  /\ Init
  /\ scanning = FALSE
  /\ evidence = {} /\ recorded = {} /\ sessions = <<>>
  /\ failures = 0

BeginIngest(who, batch) ==
  /\ Begin(who, batch)
  /\ scanning' = FALSE
  /\ UNCHANGED <<evidence, recorded, sessions, failures>>

BeginScan(who) ==
  /\ Begin(IF who = NoContributor THEN Analyst ELSE who, NoBatch)
  /\ scanning' = TRUE
  /\ UNCHANGED <<evidence, recorded, sessions, failures>>

StartAnalysis ==
  /\ call.pc = "logged" /\ scanning
  /\ call' = Extended(call, [pc |-> "checking", todo |-> CheckOrder, executed |-> {}, skipped |-> {},
                             findings |-> <<>>])
  /\ UNCHANGED <<disk, assets, log, answers, edits, scanVars>>

Named(finding) == [asset |-> Len(assets), finding |-> finding]

(* A check that does not apply is noted, the contributor's profile is not. *)
SkipCheck(check) ==
  /\ ~Applicable(check, call.data, call.contributor)
  /\ call' = [call EXCEPT !.todo = Tail(@),
                          !.skipped = IF check = "DT-6" THEN @ ELSE @ \cup {<<check, "not applicable">>}]
  /\ UNCHANGED scanVars

(* Mutant: a check that has run is not noted any more.                     *)
NoteUnlessExecuted(check, fails, raises) == IF raises THEN {<<check, "error">>} ELSE {}

NoteOfFailure(check, fails, raises) == IF fails THEN {<<check, "error">>} ELSE {}

(* Storage gives out after kept evidence records and noted findings; an    *)
(* exception from the check itself loses all of its findings.              *)
PerformCheck(check, found) ==
  \E kept, noted \in 0..Len(found) :
    LET First(n) == {Named(found[i]) : i \in 1..n}
        raises == kept < Len(found)
        fails == raises \/ noted < Len(found)
    IN /\ raises => noted = 0
       /\ fails => failures < MaxFailures
       /\ failures' = IF fails THEN failures + 1 ELSE failures
       /\ evidence' = evidence \cup First(kept)
       /\ recorded' = recorded \cup First(noted)
       /\ call' = [call EXCEPT !.todo = Tail(@),
                               !.executed = IF raises THEN @ ELSE @ \cup {check},
                               !.findings = IF raises THEN @ ELSE @ \o found,
                               !.skipped = @ \cup NoteOfFailure(check, fails, raises)]
       /\ UNCHANGED <<scanning, sessions>>

RunCheck ==
  /\ call.pc = "checking" /\ call.todo # <<>>
  /\ LET check == Head(call.todo)
     IN \/ SkipCheck(check)
        \/ /\ Applicable(check, call.data, call.contributor)
           /\ PerformCheck(check, Run(check, call.data, Readable(call.data, disk), call.contributor, call.findings))
  /\ UNCHANGED <<disk, assets, log, answers, edits>>

(* The session is completed whatever its checks came to.                   *)
CompleteAnalysis ==
  /\ call.pc = "checking" /\ call.todo = <<>>
  /\ sessions' = Append(sessions, [asset |-> Len(assets), executed |-> call.executed, skipped |-> call.skipped,
                                   findings |-> call.findings, call |-> call])
  /\ answers' = Append(answers, [ok |-> TRUE, asset |-> Len(assets), contributor |-> call.contributor,
                                 severe |-> \E i \in DOMAIN call.findings : call.findings[i].severity \in {"HIGH", "CRITICAL"}])
  /\ call' = Idle
  /\ UNCHANGED <<disk, assets, log, edits, scanning, evidence, recorded, failures>>

IntakeStep ==
  /\ \/ Validate \/ Revalidate \/ Load \/ AttachProvenance \/ SaveAsset \/ LogEvent
     \/ StorageFails \/ Crash \/ EditDirectory
     \/ Answer /\ ~scanning
  /\ UNCHANGED scanVars

ScanNext ==
  \/ \E who \in Callers, batch \in Batches \cup {NoBatch} : BeginIngest(who, batch)
  \/ \E who \in Callers : BeginScan(who)
  \/ IntakeStep
  \/ StartAnalysis \/ RunCheck \/ CompleteAnalysis

ScanSpec == ScanInit /\ [][ScanNext]_allVars

-----------------------------------------------------------------------------
Failed(session, check) == <<check, "error">> \in session.skipped

(* What DT-4 says of an undisturbed directory is so: it reports equal      *)
(* files exactly when two entries have the same bytes, and look-alikes     *)
(* exactly when two entries that differ look alike.  DT-1 is silent only   *)
(* when no picture carries a patch (near_duplicates.py:63-138,             *)
(* trigger_injection.py:100-117).                                          *)
DuplicatesAreTold ==
  \A k \in DOMAIN sessions :
    LET s == sessions[k]
        images == s.call.data.images
        Says(threat, title) == \E i \in DOMAIN s.findings : s.findings[i].threat = threat /\ s.findings[i].title = title
    IN s.call.steady =>
         /\ "DT-4" \in s.executed =>
              /\ Says("DT-4", "exact") = (\E im, other \in images : im # other /\ im.bytes = other.bytes)
              /\ Says("DT-4", "near") =
                   (\E im, other \in images : im.bytes # other.bytes /\ <<im.bytes, other.bytes>> \in Alike)
         /\ "DT-1" \in s.executed => Says("DT-1", "trigger") = (\E im \in images : im.bytes \in Patched)

(* A finding with evidence that the session does not show belongs to a     *)
(* check the session notes as failed, or to an analysis that died; a       *)
(* finding the session shows has evidence, and is recorded unless its      *)
(* check is noted as failed (orchestrator.py:96-130).                      *)
LostFindingIsNoted ==
  /\ \A e \in evidence : \A k \in DOMAIN sessions :
       sessions[k].asset = e.asset =>
         e.finding \in Range(sessions[k].findings) \/ Failed(sessions[k], e.finding.threat)
  /\ \A k \in DOMAIN sessions : \A f \in Range(sessions[k].findings) :
       LET e == [asset |-> sessions[k].asset, finding |-> f]
       IN /\ e \in evidence
          /\ e \in recorded \/ Failed(sessions[k], f.threat)
          /\ f.threat \in sessions[k].executed

(* Nobody gets a risk profile whom neither the dataset nor the client      *)
(* named: contributor_risk.py:34 promises never to invent provenance, the  *)
(* route puts in its default (datasets.py:78).                             *)
ProfiledWasNamed ==
  \A k \in DOMAIN sessions :
    "DT-6" \in sessions[k].executed => assets[sessions[k].asset].row.contributor # Analyst
=============================================================================
