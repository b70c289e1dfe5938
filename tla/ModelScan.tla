----------------------------- MODULE ModelScan -----------------------------
(***************************************************************************)
(* POST /models/scan-safety and /models/scan, and ModelIntegrityOrchestrator*)
(* as a program may call it with adapters of its own.  A file is scanned   *)
(* before an adapter is made for it, and once more when the adapter loads  *)
(* it, at the first use; the adapter then keeps what it loaded.  The file  *)
(* may be replaced at any moment in between.                               *)
(*                                                                         *)
(* A check is a sequence of touches, the moments at which it reads a file  *)
(* or an adapter, and a verdict.                                           *)
(***************************************************************************)
EXTENDS ModelChecks

CONSTANTS
  Situations,    \* what to begin with: packages, files, and the adapters of a program
  Replacements,  \* the pairs of files that may take the place of others
  MaxCalls,      \* bound
  MaxEdits,      \* bound
  MaxFailures    \* bound: of the evidence store and the audit trail, in an analysis

ASSUME BoundsAreNatural == MaxCalls \in Nat /\ MaxEdits \in Nat /\ MaxFailures \in Nat

ASSUME ProgramsMakeAdapters ==
  \A s \in Situations : \A models \in s.programs :
    IsAdapter(models[1]) /\ (models[2] = NoModel \/ IsAdapter(models[2]))

VARIABLES
  installed,     \* the packages there are
  programs,      \* the pairs of adapters a program makes itself
  disk,          \* the files at the candidate's and at the reference's path
  call,          \* the call in progress
  answers,       \* what the calls were answered
  sessions,      \* what each analysis came to
  edits

scanVars == <<installed, programs, disk, call, answers, sessions, edits>>

Candidate == 1
Reference == 2
Checks == <<"MT-1", "MT-2", "MT-3", "MT-4">>
Idle == [pc |-> "idle"]

ScanInit ==
  /\ \E s \in Situations : installed = s.installed /\ disk = s.disk /\ programs = s.programs
  /\ call = Idle
  /\ answers = <<>> /\ sessions = <<>>
  /\ edits = 0

Answer(how) ==
  /\ call' = Idle
  /\ answers' = Append(answers, how)

ScanSafety ==
  /\ call = Idle /\ Len(answers) < MaxCalls
  /\ answers' = Append(answers, SafetyAnswer(disk[Candidate]))
  /\ UNCHANGED <<installed, programs, disk, call, sessions, edits>>

Analysis(models) ==
  [pc |-> "checking", models |-> models, loaded |-> <<Failed, Failed>>, artifact |-> <<NoFile, NoFile>>,
   digests |-> <<OpaqueDigest(NoFile), OpaqueDigest(NoFile)>>, todo |-> Checks, plan |-> <<>>,
   executed |-> {}, skipped |-> {}, findings |-> <<>>, judged |-> {}, failures |-> 0, steady |-> TRUE]

(* scan_model: the candidate is scanned, then the reference, if any.       *)
BeginScan ==
  /\ call = Idle /\ Len(answers) < MaxCalls
  /\ \E compare \in BOOLEAN :
       IF ScanOutcome(disk[Candidate]) = "safe"
       THEN /\ call' = [pc |-> "reference", compare |-> compare]
            /\ UNCHANGED answers
       ELSE Answer("error")
  /\ UNCHANGED <<installed, programs, disk, sessions, edits>>

ScanReference ==
  /\ call.pc = "reference"
  /\ LET candidate == ResolveAdapter(disk[Candidate].suffix)
     IN IF ~call.compare
        THEN call' = Analysis(<<candidate, NoModel>>) /\ UNCHANGED answers
        ELSE IF ScanOutcome(disk[Reference]) = "safe"
        THEN call' = Analysis(<<candidate, ResolveAdapter(disk[Reference].suffix)>>) /\ UNCHANGED answers
        ELSE Answer("error")
  /\ UNCHANGED <<installed, programs, disk, sessions, edits>>

(* A program that calls run_analysis with adapters it made.                *)
BeginProgram ==
  /\ call = Idle /\ Len(answers) < MaxCalls
  /\ \E models \in programs : call' = Analysis(models)
  /\ UNCHANGED <<installed, programs, disk, answers, sessions, edits>>

-----------------------------------------------------------------------------
Touch(who, how) == [who |-> who, how |-> how]

(* compute_fingerprint: hash the file, try for the weights, run the probes.*)
Fingerprint(who) == <<Touch(who, "name"), Touch(who, "digest"), Touch(who, "predict")>>

(* Activations are asked of the adapters that have any; the code spares the*)
(* reference the question, its last, when the candidate showed none.       *)
Trial(who) ==
  LET model == call.models[who]
  IN IF model # NoModel /\ model.access = "white" /\ model.kind \in {"pytorch", "mock"} THEN <<Touch(who, "try")>> ELSE <<>>

TouchesOf(check) ==
  LET candidate == call.models[Candidate]
      reference == call.models[Reference]
      Compare == IF reference = NoModel THEN <<>> ELSE Fingerprint(Candidate) \o Fingerprint(Reference)
  IN CASE check = "MT-1" -> IF reference = NoModel THEN Fingerprint(Candidate) ELSE Compare
       [] check = "MT-2" ->
            (IF reference # NoModel /\ Readable(candidate) /\ Readable(reference)
             THEN <<Touch(Candidate, "read"), Touch(Reference, "read")>> ELSE <<>>)
            \o Compare
            \o (IF Readable(candidate) THEN <<Touch(Candidate, "try")>> ELSE <<>>)
       [] check = "MT-3" ->
            IF candidate.task = "detection" THEN <<Touch(Candidate, "predict")>>
            ELSE IF candidate.kind \in {"pytorch", "mock"} /\ candidate.access = "white" THEN <<Touch(Candidate, "try")>>
            ELSE <<>>
       [] check = "MT-4" -> IF candidate.access = "white" THEN Trial(Candidate) \o Trial(Reference) ELSE <<>>

StartCheck ==
  /\ call.pc = "checking" /\ call.todo # <<>>
  /\ call' = [call EXCEPT !.pc = "touching", !.plan = TouchesOf(Head(call.todo))]
  /\ UNCHANGED <<installed, programs, disk, answers, sessions, edits>>

(* A mock made by a program has no file.                                   *)
IsFile(model, f) == f.size # "missing" /\ model.object \in {NoFile, MockObject}

(* Mutant: the adapter loads the file anew at each use.                    *)
LoadAnew(who) == Load(call.models[who], disk[who], installed)

Obtain(who) == IF call.loaded[who].ok THEN call.loaded[who] ELSE Load(call.models[who], disk[who], installed)

(* A failed load is swallowed by the digest and by what may be left out;   *)
(* otherwise it ends the check, whose findings are lost.                   *)
TouchNext ==
  /\ call.pc = "touching" /\ call.plan # <<>>
  /\ LET t == Head(call.plan)
         got == Obtain(t.who)
         kept == [call EXCEPT !.plan = Tail(@), !.loaded[t.who] = got]
         fails == t.how \in {"read", "predict"} /\ (~got.ok \/ (t.how = "predict" /\ ~Predicts(got)))
     IN call' =
          IF t.how = "name"
          THEN [call EXCEPT !.plan = Tail(@),
                            !.artifact[t.who] = IF IsFile(call.models[t.who], disk[t.who]) THEN disk[t.who] ELSE NoFile]
          ELSE IF t.how = "digest" /\ ~Readable(call.models[t.who])
          THEN [call EXCEPT !.plan = Tail(@), !.digests[t.who] = OpaqueDigest(call.artifact[t.who])]
          ELSE IF t.how = "digest"
          THEN [kept EXCEPT !.digests[t.who] = IF got.ok THEN WeightDigest(got.weights) ELSE OpaqueDigest(call.artifact[t.who])]
          ELSE IF fails
          THEN [kept EXCEPT !.pc = "checking", !.plan = <<>>, !.todo = Tail(@), !.skipped = @ \cup {Head(call.todo)}]
          ELSE kept
  /\ UNCHANGED <<installed, programs, disk, answers, sessions, edits>>

Verdict(check) ==
  LET candidate == call.models[Candidate]
      reference == call.models[Reference]
      own == call.loaded[Candidate]
      other == call.loaded[Reference]
      distance == BehaviouralDistance(candidate, reference, Response(own), Response(other))
  IN CASE check = "MT-1" -> Substitution(candidate, reference, call.digests, distance)
       [] check = "MT-2" -> Modification(candidate, reference, own, other, distance)
       [] check = "MT-3" -> Backdoor(candidate, own)
       [] check = "MT-4" -> Activation(candidate, reference, own, other)

FinishAs(executed, skipped, findings, failed) ==
  call' = [call EXCEPT !.pc = "checking", !.todo = Tail(@), !.executed = @ \cup executed, !.skipped = @ \cup skipped,
                       !.findings = @ \o findings, !.failures = @ + failed,
                       !.judged = IF call.loaded[Candidate].ok
                                  THEN @ \cup {<<Head(call.todo), call.loaded[Candidate].of>>} ELSE @]

(* MT-1 asks for fingerprints that models of different length do not have. *)
LacksPrints == Head(call.todo) = "MT-1" /\ ~Comparable(call.models[Candidate], call.models[Reference])

FinishCheck ==
  /\ call.pc = "touching" /\ call.plan = <<>>
  /\ LET check == Head(call.todo)
     IN IF LacksPrints THEN FinishAs({}, {check}, <<>>, 0) ELSE FinishAs({check}, {}, Verdict(check), 0)
  /\ UNCHANGED <<installed, programs, disk, answers, sessions, edits>>

(* The evidence of a finding cannot be saved, and the check's findings are *)
(* lost (MT-2's last one swallows this); or the audit trail cannot be told *)
(* of one: they are kept, and the check counts as skipped, too.            *)
RecordFails ==
  /\ call.pc = "touching" /\ call.plan = <<>> /\ call.failures < MaxFailures
  /\ ~LacksPrints
  /\ LET check == Head(call.todo)
         verdict == Verdict(check)
     IN /\ verdict # <<>>
        /\ \/ Last(verdict).title = "sparse" /\ FinishAs({check}, {}, Front(verdict), 1)
           \/ Head(verdict).title # "sparse" /\ FinishAs({}, {check}, <<>>, 1)
           \/ FinishAs({check}, {check}, verdict, 1)
  /\ UNCHANGED <<installed, programs, disk, answers, sessions, edits>>

CompleteAnalysis ==
  /\ call.pc = "checking" /\ call.todo = <<>>
  /\ sessions' = Append(sessions, call)
  /\ Answer("analysed")
  /\ UNCHANGED <<installed, programs, disk, edits>>

(* Somebody replaces the files, by others of the same suffix.              *)
ReplaceFiles ==
  /\ edits < MaxEdits
  /\ \E files \in Replacements :
       /\ \A who \in {Candidate, Reference} : files[who].suffix = disk[who].suffix
       /\ files # disk
       /\ disk' = files
  /\ edits' = edits + 1
  /\ call' = IF call.pc \in {"checking", "touching"} THEN [call EXCEPT !.steady = FALSE] ELSE call
  /\ UNCHANGED <<installed, programs, answers, sessions>>

ScanNext ==
  \/ ScanSafety \/ BeginScan \/ ScanReference \/ BeginProgram
  \/ StartCheck \/ TouchNext \/ FinishCheck \/ RecordFails \/ CompleteAnalysis
  \/ ReplaceFiles

ScanSpec == ScanInit /\ [][ScanNext]_scanVars

-----------------------------------------------------------------------------
Says(session, title) == \E i \in DOMAIN session.findings : session.findings[i].title = title

(* Whatever happens to the files, a verdict about two models has its cause *)
(* in the contents that were loaded, or in what their adapters do not show *)
(* of them, having put constants in place of weights, or no weights at all:*)
(* "verified" means equal weights, or weights that neither shows, and equal*)
(* responses or none, "substituted" that the responses are far apart or    *)
(* missing, "modified" that the statistics of a layer differ, "diverged"   *)
(* that both showed activations and not both made them up. Only the weights*)
(* of "verified" need files that stay: two that cannot be read when they   *)
(* are hashed have the digests of their contents, and can be others when   *)
(* they run (substitution.py:97-173, modification.py:65-115,               *)
(* activation.py:157-199, model_fingerprint.py:59-62).                     *)
VerdictHasCause ==
  \A k \in DOMAIN sessions :
    LET s == sessions[k]
        own == s.loaded[Candidate]
        other == s.loaded[Reference]
    IN /\ Says(s, "verified") =>
            /\ s.steady => own.of.weights = other.of.weights \/ own.weights \in StandIns
            /\ own.runs \/ other.runs =>
                 \/ Response(own) = Silent /\ Response(other) = Silent
                 \/ Distance[<<own.of.response, other.of.response>>] = "none"
       /\ Says(s, "substituted") =>
            (own.runs /\ other.runs =>
               Silent \in {own.of.response, other.of.response} \/ Distance[<<own.of.response, other.of.response>>] = "far")
       /\ Says(s, "modified") =>
            \/ <<own.of.weights, other.of.weights>> \in StatsDiffer
            \/ own.weights \in StandIns \/ other.weights \in StandIns
       /\ Says(s, "diverged") => own.ok /\ other.ok /\ (own.runs \/ other.runs)

(* All checks of a session that looked at the candidate looked at the same *)
(* contents, even when the file was replaced between them; and unless it   *)
(* was, these are the contents whose hash the evidence names               *)
(* (model_fingerprint.py:52-62, torchscript_adapter.py:72-77).             *)
JudgedIsNamed ==
  \A k \in DOMAIN sessions :
    LET s == sessions[k]
    IN /\ \A j1, j2 \in s.judged : j1[2] = j2[2]
       /\ (s.steady /\ s.models[Candidate].kind # "mock") => \A j \in s.judged : j[2] = s.artifact[Candidate]

(* A model compared with itself is not called substituted (as a report of  *)
(* the project says of the distance: "When models are identical: D = 0").  *)
(* Refuted where no model can run: its signature is zero, and a zero       *)
(* signature is at distance 1 from itself (model_fingerprint.py:251-252).  *)
IdenticalNotAccused ==
  \A k \in DOMAIN sessions :
    LET s == sessions[k]
    IN (s.models[Candidate] = s.models[Reference] /\ s.loaded[Candidate] = s.loaded[Reference]) => ~Says(s, "substituted")

(* A model whose network differs from the reference's on the probes is not *)
(* called verified. Refuted where no weights are read: detectors that show *)
(* none and cannot run are verified whatever they are.                     *)
VerifiedIsSame ==
  \A k \in DOMAIN sessions :
    LET s == sessions[k]
    IN Says(s, "verified") => s.loaded[Candidate].of.weights = s.loaded[Reference].of.weights
=============================================================================
