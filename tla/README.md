# A verification model of CVIF

CVIF (Computer Vision Integrity Framework) judges datasets, models, inference
records and distribution shift, and keeps what it found: findings and verdicts
in a SQLite catalogue, evidence in a write-once store, every security event in
a hash-chained audit ledger, and the nonces and sequence numbers of inference
records in a replay registry.  This directory holds TLA+ models of the parts
that must stay correct when threads, processes, failing statements and power
losses get in between, the TLC configurations that check them, and theorems
about them checked by TLAPS.

Paths below are relative to `src/src/cvif` of the repository.

## 1. The system

Two kinds of process work on one data directory.  The API server
(`api/main.py`) builds one `RuntimeContext` (`cli/commands/common.py`) at its
start; its endpoints are plain `def` functions, which FastAPI runs in a thread
pool, so any two of them overlap.  Each call of the command line builds a
`RuntimeContext` of its own beside it.  Locks (`threading.RLock`) are per
object, hence per process.  SQLite connections are per thread;
`DatabaseManager.transaction` commits on success and rolls back on an error,
and Python's sqlite3 opens the transaction at the first *writing* statement: a
SELECT before it is not protected by it.

| Component | State | Operations | Hard behaviour | Correct when |
|---|---|---|---|---|
| Audit ledger: `audit/logger.py`, `crypto/chain.py` | one JSONL file; per process tip, next number, lock | `log_event`, recovery at start, `verify_audit_chain` | two processes, torn and lost lines, restart | the chain verifies; damage is located; nothing acknowledged is lost silently |
| Provenance verifier: `provenance/verifier.py` | none | `verify_record` | commits in the middle, then fails or dies | a nonce is accepted once; only bound records advance a stream; accusations have causes |
| Replay registry: `storage/database.py` 624-672 | `seen_nonces`, `session_sequences` | `record_nonce_if_new`, `record_sequence_if_monotonic` | SELECT outside the write transaction | a number does not go back; a nonce is new once |
| Session catalogue: `storage/database.py` 301-622 | `sessions` (JSON), `findings`, `verdicts` | `save_session`, `update_session_section`, `save_finding`, `save_verdict` | read-merge-write in two transactions, cascading REPLACE, fallbacks | modules keep each other's sections; rows agree with the session; verdicts are current |
| Assets, provenance records: `storage/database.py` 242-300, 934-1009 | two tables | `save_asset`, `save_provenance_record` | cascading REPLACE | resubmitting does not overwrite a result |
| Evidence store: `evidence/store.py` | files, tables `evidence` and `artifacts`, per process index | `save_*`, `get_evidence`, `read_artifact`, `verify_store_consistency` | file and row are two commits; rollback unlinks; reads take no lock | write-once; every row has its file; nobody is accused wrongly |
| Key store: `crypto/keystore.py` | JSON file, per process copy | register, revoke, suspend, load, save | memory changes before the file; copies go stale; one temporary file for all | the file can be loaded; what was acknowledged is stored |
| Assurance: `analysis/assurance/` | none; reads the session | deduplicate, dimensions, veto, disposition, narrative | boundaries, rounding, checks that fail or never ran | a verdict tells what was not checked; more findings never help; nothing is diluted |
| Orchestrators: `analysis/*orchestrator.py`, `analysis/*/orchestrator.py` | lists of one run | `run_analysis`, `evaluate_session` | one of several stores failing | what is lost of a check is noted |
| Ingestion: `ingestion/` | rows of `assets`, audit events | detect format, validate, load, register | the directory is read three times and may be edited; manifests that overlap; the row is committed before the event | what is registered hangs together, is attributed honestly and can be traced |
| Dataset checks: `analysis/data_integrity` | none | six checks on a loaded dataset | early returns, groups of duplicates | duplicates and patches are told |
| Model loading: `model/` | what each adapter has loaded | safety scan, choice of adapter, load | files are replaced between scan, hash and load; runtimes are missing | all checks judge the contents that are named |
| Model checks: `analysis/model_integrity`, `model_fingerprint.py` | none | four checks on candidate and reference | silent networks, stand-in weights, swallowed errors | a verdict has its cause in what was loaded |
| Matching of boxes: `utils/matching.py` | none | `hungarian_match` | padding, ties, `while True` | the pairing is the best, and is found |
| Other checks: `distribution_shift`, `inference_provenance` | none | `run` per threat id | thresholds | statistics, and filters over the verifier's result |
| Generator, demo: `provenance/generator.py`, `demo.py`, `canonical.py` | none | build and sign records | next number chosen from the registry | what is generated verifies |
| API: `api/` | runtime context | routes, payload limit, error handler | overlapping requests | errors are answered as errors |
| Command line: `cli/` | runtime context | one command per call | second process beside the server | as the stores it shares |
| Dashboard: `src/frontend` | React state | calls the API | none of integrity | - |

How they interact: an orchestrator logs `ANALYSIS_STARTED`, runs its checks
(which save evidence and artifacts and log `EVIDENCE_STORED`), logs and stores
findings, updates its section of the session, logs `ANALYSIS_COMPLETED`.  The
assessment route reads the session, aggregates, updates the session, stores the
verdict and logs it.  The verifier reads the key store and writes the replay
registry.  `lineage.py` and the evidence routes read all of it.

## 2. The modules

| Module | What it is |
|---|---|
| `AuditLedger` | what the ledger promises: a history that only grows at its end, or loses its end in a power loss |
| `AuditLog` | `AuditLogger` and `verify_audit_chain` for any processes and threads |
| `AuditLogProofs` | theorems about `AuditLog` |
| `ReplayRegistry` | what replay protection promises: each accepted nonce is new; of the records with a verified binding, a stream has one opener and, until a call on it is overtaken, one record of a number |
| `Provenance` | `verify_record` with each statement of the registry as a step |
| `ProvenanceProofs` | theorems about `Provenance` |
| `SessionBoard` | what a session promises: one section changes at a time, a verdict names the sections it was computed on |
| `SessionStore` | the catalogue of one session under the orchestrators and the assessment |
| `SessionStoreProofs` | theorems about `SessionStore` |
| `WriteOnceStore` | what the evidence store promises: a name is given content once |
| `EvidenceStore` | files and rows of evidence and artifacts, saved, read and checked |
| `EvidenceStoreProofs` | theorems about `EvidenceStore` |
| `Assurance` | a session from the outcomes of its checks to the verdict |
| `AssuranceProofs` | theorems about `Assurance` |
| `DatasetFormats` | directories, and how the two formats are detected, validated and loaded |
| `DatasetIntake` | `ingest_dataset` from the call to the audit event |
| `DatasetChecks` | the six dataset checks as operators |
| `DatasetScan` | the dataset scan: intake and checks composed, with evidence, findings and failures |
| `DatasetProofs` | theorems about `DatasetIntake` and `DatasetScan` |
| `ModelAdapters` | the safety scan, the choice of an adapter, and what each can load and show |
| `ModelChecks` | the four model checks as operators |
| `ModelScan` | the model scan: checks as sequences of touches of files and adapters |
| `BoxMatching` | the loops of `hungarian_match` |
| `ModelProofs` | theorems about `BoxMatching` and `ModelScan` |
| `KeyStore` | the file of keys and the copies of several processes |
| `KeyStoreProofs` | theorems about `KeyStore` |
| `MC...` | values of the constants for TLC |

The four store modules instantiate each its abstract one with a refinement mapping
(`Ledger`, `Protection`, `Implemented`, `Store`) and states its specification
as a property.

### AuditLog

`lines` and `partial` are the file, `tip`, `nextSeq` and `lock` the fields
`_last_event_hash`, `_next_sequence_number` and `_lock` of each process's
logger.  `log_event` is two steps, because the build (lock taken, number spent,
tip read, `logger.py:85-103`) and the write (105-115) are separated by file
operations; between them other processes act.  `RecoverState` is the
construction of the logger in `get_runtime_context`, always without
verification.  `AppendFails` leaves nothing, a text without line end, or the
whole line; `PowerLoss` cuts off lines that were never fsynced and stops every
process; `DamageEvent` changes or removes a line.  A digest is the history it
commits to (collision resistance); ids stand for the rest of an event.
"A text without line end" stands for every prefix of a line, since no prefix
parses.

### Provenance

`verify_record` is one step up to step 9 of the code, which has no side effect
and reads the key store once; then `ReadSequence`, `WriteSequence`,
`ReadNonce`, `WriteNonce` are the four statements of the registry, each at
its own moment, and `Answer` is the return.  `StatementFails` and `Crash` can
happen at each.  A record is a row of `Content`; a signature or HMAC is the key
material it verifies under.  `enforce_replay_checks` may differ from call to
call; what was accepted with the checks on is the list `accepted`, what was
called valid without them the set `unchecked`, which no promise about replays
covers.  Both are history, and so is `overtaken`, the streams on which a call
wrote its number over one it had not read.  The findings are named by what caused them; their
threat ids and severities matter to `Tampering` and `SynthesizeStatus` only.
Comparisons with caller-supplied references are the set `Mismatches`.  Key
states change at any time (`KeyStatusChanges`), which covers revocation,
expiry, reinstatement and stale copies.

### SessionStore

One session.  A section's findings, analyses and details are replaced
together, so a section is the number of the run that wrote it; a verdict is
the sections it was computed on.  `session`, `rows` and `verdictRows` are the
three tables; `SaveSession` is the INSERT OR REPLACE with its ON DELETE
CASCADE.  The steps of a worker are the transactions of
`update_session_section`, `save_finding` and `save_verdict`, as each caller
makes them: the dataset module saves findings while it runs, the model and
inference modules at the end, the assessment reads first and saves the verdict
last.  The distribution shift module stores its findings and then always fails
on the undefined name `shift_detected`
(`analysis/distribution_shift/orchestrator.py:277`), so it never reaches the
session.  `StatementFails` follows the handler of each caller.
`latest`, `lastWriter`, `shiftRuns`, `failed` and `overlapped` are history
variables the properties refer to.

### EvidenceStore

Evidence records and artifacts by name, `file` and `row`.  A save checks that
the name is free, writes a temporary file, checks again under the lock, renames
it, inserts the row, binds artifacts, and on an error unlinks the file: each a
step.  `get_evidence`, `read_artifact` and `verify_store_consistency` are reads in
two steps each.  Content is a model value.  Writing and renaming the temporary
file is one step, the rename: the temporary name is never read.  Between the
rename and the insert of an artifact its digest is taken, outside any handler:
`DigestFails` leaves the file as it is.  `get_evidence` accuses an item of an
artifact that has no file, registered or not (`Altered`).

### Assurance

`executed`, `skipped` and `findings` are the lists of the session; `RunDataset`
and `RunModel` are one run of an orchestrator, `VerifyRecord` the route that
stores what the verifier found, each with the merge of
`update_session_section`, here in one step because overlap and failure of these
updates are the subject of `SessionStore`.  For the same reason `verdict` is
the verdict on the session as it stands and is dropped when the session
changes.  `fate` records what became of each check: not requested, not
applicable, failed, run, or run and then failed while a finding was recorded
(`analysis/orchestrator.py:105-123`), in which case it is executed and skipped
at once.  `Aggregate` is `AssuranceAggregator.aggregate`, from
`compute_finding_risk` to `evaluate_disposition`.  Shift findings do not occur:
the shift module never reaches the session.  The category and the prefix of the
threat id of a finding agree in every check of the code, so both ways of
placing a finding are `DimensionOf`.

Confidences are hundredths, single risks thousandths, scores
ten-thousandths; products and sums are exact integers, rounded where the code
rounds.  The code's floating point result is within 1e-15 of the exact one, so
it can differ only where the exact value lies halfway between two scores;
there `Nearest` has both.  Which one the code yields depends on the order in
which it adds, and that is the order of a set of strings.

### DatasetFormats, DatasetIntake, DatasetChecks, DatasetScan

A directory is a record of manifests by place (folder, standard name or not,
its turn among the folder's others, split its path shows), images by folder and stem with their bytes, label files
and `data.yaml`; a manifest has entries, annotations, class names and a
contributor.  `Detect` has the answers `FormatDetector.detect` may give: which
five text files it opens, and which of their lines is the first, is open.  `DiscoverManifests`,
`CocoErrors`, `CocoWarnings`, `LoadCoco` and their YOLO counterparts are
`validate` and `load` of the adapters, with the order in which manifests are
taken, the search for an image by folders, and ids that carry the split when
there are several manifests.

`DatasetIntake` is one call in steps: `Begin` detects, `Validate`, `Load`
(which validates once more), `AttachProvenance`, `SaveAsset`, `LogEvent`,
`Answer`.  Between any two the directory may be edited, the database or the
log fail and the server die.  `seen`, `steady` and `told` are history: the
directory as it was loaded, whether anybody edited it, the warnings.

`DatasetChecks` has each check as an operator from the loaded dataset and the
directory to the findings it makes.  Features and hashes of a picture are
reduced to `Position` on a line, `Alike` and `Patched`; distances, means and
deviations are computed from these as the code does, in integers.  The checks
skip a file they cannot read as they skip a missing one; a directory without the
file stands for both.
`DatasetScan` runs the checks in the orchestrator's order; a check that raises
or whose storage fails leaves what it had saved and a note.

### ModelAdapters, ModelChecks, ModelScan

A file has a suffix, a size, members if it is an archive, what it holds, and
what the network in it would answer.  `ScanOutcome` is the safety scan,
`ResolveAdapter` the choice by suffix, `Load` what each adapter has afterwards:
weights, stand-in weights, none, and a network that runs or none.  `StandIn` has
one constant for each reason weights are not read: the package of a format is
not installed, or the project's own unpickler (`Unpickled`), which PyTorchAdapter
uses without torch, meets an archive without a pickle, the header of a stream
torch wrote, or what it cannot rebuild.  Numbers alone it really reads.  With
torch an object that is neither a module nor a dict loads with no weights at
all, "empty" (`pytorch_adapter.py:84-85`).  torch, onnx and onnxruntime are no dependencies of the project
(`src/pyproject.toml:15-22`), so both cases are states of a real installation.

A check is a sequence of touches of candidate and reference, of the kinds
"name" (hash of the file), "digest", "predict" and so on, because the file is
read anew at some of them and the adapter's memory at others; `TouchNext` is
one touch, `Obtain` loads at the first need and keeps.  `ReplaceFiles` may
come between any two.  `FinishCheck` gives the check's operator of
`ModelChecks` what was touched.  Models whose signatures differ in length are at
distance 1 without fingerprints, so that MT-1 raises and counts as skipped
(`Comparable`, `LacksPrints`).  `RecordFails` is the end of a check whose
finding could not be recorded: the evidence was not saved and the check is
skipped without its findings, or the audit trail failed and the check is
executed and skipped at once.  The evidence store, the audit trail and the
saving of the session themselves are not part of `ModelScan`.

### BoxMatching

The variables are those of `hungarian_match`; each turn of a loop is a step,
the two inner `for` loops being part of it.  Rows and columns are numbered as
in the code, column 0 being the root.  Costs (1 - IoU) are whole numbers of
1/`Unit`, so that sums are exact.

### KeyStore

Each process has a copy (`memory`) and is idle or at a step of `_save`:
opening the temporary file, writing it, renaming it.  The lock is held
throughout, so a process is at one change at a time; another process has its
own lock.  An open file is known by where it is to be found now (`handle`):
who had the temporary file open when another renamed it goes on writing the
file of the store.  Two that write one file leave either's contents or
something that does not parse.  `SaveFails` is an exception at any of the
three steps, `Dies` the end of a process.  `FindDemoKeyAbsent` and
`RegisterDemoKey` are the two steps of `POST /provenance/demo-record`, which
looks and registers under two acquisitions of the lock.  `may` holds, for each
key, what a restart may find: the last acknowledged change, or a later one
that was begun.

## 3. Runs

| Run | Question | Result |
|---|---|---|
| `AuditSole` | does one process keep a verifiable ledger, is damage located | holds |
| `AuditShared` | what survives of a ledger that two processes share and whose writes fail in every way | no dangling link, no silent loss |
| `Provenance` | what do racing, failing, crashing verifications promise | `ReplayRegistry`, with causes for accusations, missing warnings and numbers that go back |
| `ProvenanceRegress` | is the last number of a stream monotone, as the docstring says | it goes back |
| `SessionStore` | what do overlapping, failing, dying modules promise | see below |
| `SessionCascade` | are the findings of every section in their table | not after the second module |
| `EvidenceSole` | is the store write-once under every failure, are accusations just | holds |
| `Assurance` | is a verdict honest about coverage, and does no finding help or drown | holds |
| `DatasetScan` | is what is registered sound, attributed and traceable, and are duplicates and failures told | holds |
| `ModelScan` | has a verdict its cause in what was loaded, though files are replaced and runtimes missing | holds |
| `BoxMatching` | do the matching loops end, with the best pairing | they do |
| `KeyStore` | can the file be loaded and does it keep what was acknowledged | yes, unless saves meet or a stale copy is saved |

### The properties

*Audit.*  `ChainIntact`: an undamaged file verifies.  `DamageLocated`:
the first failing index is the damaged position.  `LinearLedger`: the file
implements `AuditLedger`.  `NoDanglingLink`: every line of a readable file
continues the genesis or an earlier line.  `LossIsVisible`: an acknowledged
event is in the file, or the file does not read, unless the power failed.

*Provenance.*  `NonceAcceptedOnce`; `AdvancedByBoundRecord`: a stream's number
comes from an authenticated record of that stream;
`AcceptedIsBoundOrUncheckable`: a valid outcome had its binding verified, or
the key lacks the material (the code passes that silently); `AccusedHasCause`:
a replay finding has a call that explains it (which may be the caller's own
earlier call that failed); `GapNoticed`: a record that is VERIFIED without
warning was uncheckable, opened its stream, or follows a record with the number
before its own.  A record without a verified binding skips the sequence, so of
gaps among uncheckable records nothing is promised, nor of what came before the
opener.  `BackOnlyWhenOvertaken`: the number goes back only when a call writes
over a number it had not read.  `ReplayProtection`: refinement of
`ReplayRegistry`.  No nonce is accepted twice.  Of records with a verified
binding each was accepted over a smaller number or opened its stream, no stream
is opened twice, and no number of a stream is accepted twice until a call on it
was overtaken.  The qualification is needed: a call that writes a smaller number
over a larger one lets the larger one in again, and two calls that read the same
number before either writes are both accepted.  Records are not accepted in the
order of their numbers, and of uncheckable ones only the nonce is promised.

*Session.*  `LatestKeptUndisturbed`: without failures and overlap the session
has every module's latest run; `VerdictRowCurrent`: a verdict row was computed
on the present sections and is the only one (without overlap, with failures);
`NoGhostFindings`: at rest no row is left of a replaced run (without failures
and without overlap, the shift module's rows excepted); `LastWriterStored`: at rest the
findings of the last writer are stored (with overlap, without failures);
`ImplementsBoard`: refinement of `SessionBoard`.  The qualifications are
needed, the unlisted configurations show why.

*Evidence.*  `StoredIntact`: what was acknowledged is what is stored unless
it was changed from outside; `RowHasFileUnlessUndone`: a row without its file
is the doing of a failed save or of the outside; `NoFalseAccusation`: what is
reported missing or tampered with was changed from outside, removed by a
rollback, or is an artifact a record refers to that no save has registered;
`ReadsAgree`: a read never returns other content than the table's;
`OrphanHasCause`: a file without row belongs to a save under way, or is left by
a death, a failed removal or a digest that could not be taken; `WritesOnce`: refinement of
`WriteOnceStore`.

*Assurance.*  `CoverageTold`: a verdict names exactly the checks that did not
come to their end when their module last ran, whatever ran since; the comment
states the two silent cases (a contributor check that does not apply, modules
that never ran; a session without any run is accepted).  `AcceptMeansClean`:
ACCEPT excludes failed, missing and inapplicable checks, vetoes and
recommendations of review.  `RiskWithinBounds`: the risk is at least every
single risk and, without a veto, at most their sum.  `ReportingNeverHelps`:
taking a finding away never makes the disposition stricter, nor the risk higher
than two units of the last place.

*Dataset scan.*  `RegisteredIsSound`: annotations speak of registered images,
entries of manifests are registered with the file beside the manifest, one id
names one file (YOLO files of one name in two folders excepted: they get one
id).  `RelabelledIsWarned`: a class gets another name than its manifest's only
with a warning in what ingestion returns (the scan route drops the warnings,
`api/routes/datasets.py:76`).  `AttributionHonest`: contributor, hash and audit event agree,
and the client's word counts only when no manifest names anybody.
`Traceable`: a registered dataset has its event, or its call failed.
`DuplicatesAreTold`: equal pictures, pictures that differ and look alike, and
patches are each reported exactly when there are some.  `LostFindingIsNoted`:
evidence, findings and rows go apart only for a check the session notes as
failed.  `RegisteredIsSound`, `RelabelledIsWarned`, `DuplicatesAreTold` and what
`AttributionHonest` says of the manifests are about calls during which nobody
edited the directory.

*Model scan.*  `VerdictHasCause`: "verified", "substituted", "modified" and
"diverged" each rest on the contents loaded, or on what the adapters do not show
of them: "verified" means equal weights or weights that neither adapter shows,
with equal responses or none.  Two detectors that torch loads as bare values, or
whose weights stand-ins replace, are verified whatever they hold
(`ModelVerified.cfg`).  What "verified" says of the weights is said only of files
nobody replaced: weights that cannot be read have the hash of their file as
digest (`model_fingerprint.py:59-62`), and if the two files are replaced once to
be equal when they are hashed and once more before they run, two different
models are verified.  `JudgedIsNamed`: every check judged the same contents,
and unless the file was replaced these are the ones whose hash is in the
evidence.

*Matching.*  `MatchingIsBest`: the pairs returned are as many as can be and no
other pairing costs less, compared with every pairing.  `PricesFeasible`: the
invariant behind it.  `Terminates`: both `while True` loops end.

*Keys.*  `FileIsWhole`: the file parses at every moment, unless two processes
were saving at once.  `AcknowledgedIsStored`: the file has the last
acknowledged change of each key or a later one, unless saves met or a process
saved a copy another had overtaken.

The type invariants (`TypeOK`) are part of no listed run.  Those of `AuditLog`,
`Provenance`, `SessionStore`, `EvidenceStore`, `KeyStore`, `BoxMatching` and
`Assurance` are theorems.  `SoleInv` of `AuditLog`, also a
theorem, holds in its configuration when added to it.  `DatasetIntake` and
`DatasetScan` have the shapes of their records in `Shapes` of `DatasetProofs`.

### Fairness

`Terminates` is the one liveness property: weak fairness of `BoxMatching`'s
next step says no more than that the thread that runs the function goes on
running.  The other components have no loop, queue or wait whose progress the
code promises (SQLite's busy timeout ends in an error; a call may fail or die
at every step), so no fairness is assumed for them.

### Bounds

* `AuditSole`: 2 threads, 4 events, 2 clock values, one damage.  Four events
  give a chain with a beginning, an interior that can be damaged and an end,
  with restarts and power losses between any two.  `AuditShared`: 2
  processes, 4 events, all three failures; a torn line needs two events to
  matter, a fork two more.
* `Provenance`: 2 workers, 3 calls, 2 streams, clock 0..1 with no tolerance
  (timestamps are 1, so records are early before the tick).  The records are
  chosen so that the findings arise: the first of a stream (number 0), one with
  its nonce and the next number (1), two with the number after that (2), one of
  another contributor bound by HMAC, one whose key lacks the material to check
  it, one of another schema, an unsigned one.  So a number follows the one before
  it or leaves a gap, and of two calls that read the same number one can write 1
  over 2, or 2 over 2.  A race needs two calls, what opens the stream a third.
  Calls with and without replay checks are mixed; 2.2 million states.  `Alike`,
  the symmetry set, exchanges the workers, and the two records that differ in
  their nonces only together with these nonces; no property tells them apart.
* `SessionStore`: 2 workers, 4 runs, the three sections that reach the
  session, all failures.  Two runs overlap or fail, the others meet what is left.
* `EvidenceSole`: 1 process, one evidence record, one artifact, two contents,
  every failure, death at every step, outside changes; 1.8 million states.

* `Assurance`: one dataset check and the contributor check, two model checks
  with every outcome, seven findings with severities from INFORMATIONAL to
  CRITICAL and confidences the checks emit, the default weights and thresholds.
  Two findings of one dimension exercise the product, three dimensions the
  sum; a record finding can exceed each threshold alone.

* `DatasetScan`: directories with one or two manifests in every combination of
  six places and two manifests of one folder, every single defect of a manifest,
  YOLO layouts with every kind of label line, and galleries for the statistical
  checks, one of them with an equal and a look-alike picture of the same file;
  one call, one edit, one failure.  An edit and a failure each meet every step.
* `ModelScan`: every pair of sound files of one suffix, every pair of files that
  show their weights only with torch, only without it, or never, every unsound
  file on either side, mocks of programs, one with fewer classes, four sets of
  installed packages; one call, one failure to record a finding
  and up to two replacements of both files, each at every moment.  One is enough
  for evidence to name a file that was not judged, two for equal digests of what
  differs when it runs.
* `BoxMatching`: every matrix of 3x3, 2x3 and 3x2 costs of 0, half and 1: all ties,
  both paddings, and columns that change hands twice.
* `KeyStore`: 2 processes, the demo key and another, one secret, 3 changes.
  A stale copy needs two changes, one that hides it a third.  Processes are a
  symmetry set; no property tells them apart.

### What TLC refutes

Each finding of `PROJECT.json` is a short run of the code's own steps: the
slower of two workers writing back a smaller sequence number, and a second
module's REPLACE deleting the rows of the first.

### Further configurations

These are kept beside the listed runs; each fails on purpose and explains a
qualification.

| Configuration | Module | What it shows |
|---|---|---|
| `AuditFork.cfg` | `MCAuditLog` | two processes on one ledger continue the same event, and the undamaged file fails verification |
| `ProvenanceRace.cfg` | `MCProvenance` | the loser of two inserts raises StorageError instead of answering |
| `SessionLostUpdate.cfg` | `MCSessionStore` | overlapping modules lose a section |
| `EvidenceDangling.cfg` | `MCEvidenceStore` | a failed binding removes the file of a committed row |
| `EvidenceTwo.cfg` | `MCEvidenceStore` | two processes find one name free, and the second replaces the first's content |
| `AssuranceForgets.cfg` | `MCAssurance` | a second record's verification replaces the findings of a first, tampered one |
| `DatasetHash.cfg` | `MCDatasetScan` | two images exchange ids, and the dataset hash stays the same |
| `DatasetAnalyst.cfg` | `MCDatasetScan` | a scan that names nobody gives "analyst" a risk profile |
| `ModelSelf.cfg` | `MCModelScan` | without a runtime a model is called substituted for itself: the zero signature is at distance 1 from itself |
| `ModelVerified.cfg` | `MCModelScan` | detectors that show no weights and cannot run are called verified whatever they are |
| `KeyRevoked.cfg` | `MCKeyStore` | a stale copy of one process takes back a revocation another acknowledged |

## 4. Proofs

The theorems hold for every value of the constants that satisfies the named
assumptions of the modules.  These say what
kind of value a constant is (markers such as `Idle` are no data and `Absent` no
number, bounds are naturals, maps have their domain), that a directory holds
finitely many files (`TreesAreFinite`), that pictures look alike whichever is
taken first, the distance of two hashes being symmetric (`AlikeIsSymmetric`),
that there is a stand-in for each reason weights are not read
(`StandInAssumption`), and that what a program made and hands over has the
fields of an adapter (`ProgramsMakeAdapters`); nothing about size.  Where a theorem needs more it has the
hypothesis in its statement: `SoleWriter`, `SoleProcess`.  TLC evaluates the
assumptions in every run and checked the properties on the instances of
section 3 before they were proved.

* `AuditLogProofs`.  `TypeCorrect`: `TypeOK` is inductive by itself.
  `SoleInvariant`, `SoleChainIntact`, `SoleDamageLocated`, `SoleLinearLedger`
  assume `SoleWriter`: one process, failed appends leave nothing, the clock runs
  forward; without each of the three the statements are false.  `ChainIntact`
  is not inductive: an append keeps it only if the pending event was built on
  the last line, which holds only if memory agrees with the file and the lock
  kept others out.  `SoleInv` adds exactly that.  Damage needs its own
  conjunct: what follows a damaged line is of no account, but the damaged
  position must keep failing, and appending or cutting elsewhere must not
  repair it (a lost last line is no damage the chain can show; the model's
  medium never loses one).
  `LinksNeverDangle` and `LossAlwaysVisible` are about any number of processes.
  The first needs `LinkInv`: what the tips in memory and the pending events
  continue is in the file, whoever wrote it, unless the file no longer reads or
  was damaged, and every readable beginning of the file is linked.  The second
  is inductive with the types.
  `SoleLinearLedger` is the refinement of `AuditLedger`: what the last digest
  commits to is the history, and `HistoryInv` says that every line's digest
  commits to a beginning of it, so that cutting lines cuts the history.
* `ProvenanceProofs`.  `Invariance` of `IInv`: a nonce accepted with checks on
  is in the table, hence a second insert raises; a call that may write a
  number carries an authentic record that was begun.  It yields
  `VerifierTypeCorrect`, `NoncesAcceptedOnce`, `OnlyBoundRecordsAdvance`, for
  any number of workers, failures and crashes.
  The others rest on `Story`, which says of each call in progress what its
  findings and its place in the code say of the registry and of the calls begun
  before: a call accused of a replay has another that brought its nonce or a
  number no smaller (the rows it finds were written by a call that had begun),
  a call that found its nonce in the table does not insert it, a call about to
  be accepted was bound, or its key lacks the material.  With it
  `AcceptedAreBound`, `AccusationsHaveCause`, `GapsNoticed`; the action property
  and `BackOnlyByOvertaking`, since `WriteSequence` writes more than what it read.
  `ImplementsProtection` shows every step to be `Admit`, `Overtake` or a stutter
  of `ReplayRegistry`.  That the nonce is new follows from the table; what is said
  of openers and numbers is `NumbersInv` (`NumbersHold`): besides the accepted
  records it speaks of the calls that have written their number and may still be
  accepted.  All of these kept apart: two of a stream do not both open it, since
  the second INSERT raises, and carry different numbers as long as no call wrote
  over a number it had not read, since all of theirs are at most the one stored.
* `SessionStoreProofs`.  `SessionTypeCorrect` needs `JobsTyped`: an
  assessment exists only on an existing session, only it saves verdicts, and
  the shift module never gets past its checks.  `LatestSectionsKept` needs, as
  long as nothing failed and nothing overlapped, that one worker at most is
  busy, that what it read is still what is stored, and that it creates a
  fallback session only when there is none.  The other three properties survive
  different disturbances, and so have different invariants: `BoardInv` (no
  overlap, any failure) ties the verdict rows, and the verdict an assessment
  carries, to the sections stored; `FindingsInv` (any overlap, no failure) has
  the last writer's findings in the table or in a call about to insert them;
  `GhostInv` (neither) has every row listed, or of the run that is about to
  write, and findings inserted for the section that lists them.  From all three, `SessionImplementsBoard`: each statement is
  `Replace`, `Assess`, `Disturb` or a stutter of `SessionBoard`.
* `EvidenceStoreProofs`.  `TypeCorrect` and `OrphansHaveACause` are about any
  number of processes; the second needs that the save which placed a file is
  still at its digest, insert or unlink (`Placing`), where a digest that fails
  ends the save and leaves the file behind.  The rest assumes
  `SoleProcess`, and `EvidenceTwo.cfg` shows it is needed: the lock keeps out
  the threads of one process only.  `SoleInv` has, beside the properties, what
  a save in progress knows at each step (`SaveSound`): before the rename its
  name is free in table and file, from then on the file has its content, and
  from the insert on the row too; what a reader holds or was
  given (`ReaderSound`, `GivenSound`) is the row's, awaits it, or was withdrawn.  `SoleWritesOnce` maps the
  contents of `WriteOnceStore` to `Published`, the file of an item that has a
  row: only the insert publishes, and no step republishes.
* `AssuranceProofs`.  No theorem is inductive: a verdict is judged against
  what became of the checks and what they found.  `IInv` adds `Bookkeeping` (the
  lists of the session agree with the fates, and a finding of a check comes from
  one that ran) and `VerdictCurrent` (a verdict was aggregated from the session
  as it stands).  `RunModuleKeepsBooks` proves the merge once for both modules.
  `CoverageAlwaysTold`, `AcceptAlwaysClean`, `TypeCorrect`,
  `RiskAlwaysWithinBounds` and `ReportingCannotHelp` follow for any weights,
  thresholds and findings.  The last three are about sums and products over any
  number of findings: `Folded` is both, `FoldedWithout` shows that any element
  may be taken first, and `PartsWithout` what a finding more does to them.  By
  induction over the findings (`SubsetInduction`) what is left of the product
  and the sum bound one another (`RiskIsBounded`, the union bound);
  `ScoreIsNear` says that a score is the exact risk up to half a unit, and
  `ScoreOfLess` that without a finding it is at most a unit higher.
  `WeightedClose` and `RiskWithout` carry the units through the weighing and the
  second rounding: two ten-thousandths in all (`Rounding`).  The disposition
  needs `Bookkeeping` once more: a check does not become unsupported when its
  finding is left out.
* `DatasetProofs`.  `Shapes` says which fields the call has at each step and
  `StepCases` turns every action into a step on these fields; the invariants
  are proved of those.  `ToldIsTraceable` counts rows without an event against
  refused calls (`TraceInv`: only the last row can be without its event, and
  only while its call stands between the two statements).  `LossesAreNoted`
  needs `ScanInv`, which accounts for evidence and findings of a call before
  its session is stored.  `AttributionIsHonest` needs `AttributionInv`, the
  agreement of contributor and hash from the moment provenance is attached, and
  the theorems about steady calls need `SteadyInv`: as long as nobody
  edits the directory, the errors found were none, the warnings told are the
  directory's, and the data loaded are what `LoadCoco` or `LoadYolo` reads in it.
  For `RelabellingIsWarned` and `RegistrationIsSound` the rest is about these
  operators, for any directory: `PassedManifests` (no error means that all
  manifests were read, in order, with unique ids and existing files),
  `ImagesLoaded` and `AnnotationsLoaded` (what is registered, entry by entry),
  `IdsAreUnique` (ids that carry the split do not collide), `FindsOneFile`,
  `ConflictsAreTold`. `FiniteMin` and `FiniteMax`, which the choice of the first
  manifest and the last class rest on, are proved from the well-foundedness of
  the strict subsets of a finite set.
  `DuplicatesAreAlwaysTold` goes from the session back to the pictures.  `ToldInv`
  says that each check is still to come once or has been run (`EachOnce`), and, of
  the scan in progress and of every session stored, that what the checks executed
  so far say of equal pictures, look-alikes and patches is so (`SaysTruly`);
  `ToldStep` shows that running, failing and storing a check keep it.  What the operators say of the data is
  `DuplicatesAreSo` and `TriggersAreSo`: the checks work on lists, in which each
  registered image has one place (`ListEnumerates`, by `SubsetInduction` over a
  finite set; a load registers finitely many images because their files are), and a
  steady directory still has the file of each (`SeenAsListed`).
* `KeyStoreProofs`.  `TypeCorrect` needs lemmas on `With`, which extends a map
  of keys.  `StoreIsWhole` is about any number of processes and keys:
  `FileIsWhole` is not inductive, since a rename publishes the temporary file.
  `SoleSaver` adds that, until two saves met, there is one saver at most, it
  has the temporary file open exactly while it writes, and the file is empty
  before and whole after.  `AcknowledgedStays` is about the caches as well:
  `AckInv` adds that, until saves met or a stale copy was saved, what the file
  and every copy not overtaken record of a key may stand there (`may`), and
  that the change in progress is of a key its copy has; `ChangeAck` and
  `RenameAck` are the two steps that move it.
* `ModelProofs`.  Of `BoxMatching`, for matrices of any size and costs: `PricesFeasible`
  is kept by a turn of the search only if `minv` is the cheapest reduced cost
  from the rows reached; `SearchInv` says that it is no more than each of
  these and not negative.  `SearchStepInv` then splits pairs by whether the
  row's price was raised and the column used.  `MatchingIsOptimal` needs `OInv`:
  the rows placed are each in one column, at no loss (`PlacedInv`, `PriceInv`);
  every column seen was reached at no loss from one of lower rank (`TreeInv`),
  so that columns can change hands all the way to the root; and some column
  without a row is always nearer than what stands for infinity (`ColumnIsLeft`,
  by the pigeonhole principle), so that `way` is never read unset.  At the end
  the prices bound any pairing from below (`LeastTotal`): what the padding
  takes is dearest (`PaddingIsDearest`).  The sums are folds over finite sets;
  `SumWithout` and what follows it are proved from the well-foundedness of the
  strict subsets, one set of good subsets at a time (`SubsetInduction`).
  Of `ModelScan`, for any files, packages, programs and replacements,
  `VerdictsHaveCauses` and `TheJudgedIsNamed` follow from `CauseInv` (theorem
  `CauseAlways`).  A check is a list of touches, so the invariant says of each
  kind of touch a check needs that it is still to come or has been made: who was
  asked for responses or layers has been loaded, and while nobody replaced the
  files a digest noted is that of what was loaded (`Compared`, `Read`,
  `Witnessed`), and the hash noted is that of the file still there (`Named`).  An
  adapter keeps what it loaded (`Grows`), so a cause remains one
  (`GrowthKeeps`).  A finding of the four titles comes only from the end of a
  check, where no touch is left, whether its findings were recorded or not
  (`FinishStep` is both actions).  The weights of "verified" were at first claimed of replaced
  files too; the invariant could not be kept and TLC found the two
  replacements described in section 3.

Only model-checked is `Terminates`: liveness needs ENABLED and a measure, which
are beyond the prover.  Every other property of a passing run is stated by a
theorem.

## 5. Not modelled, and the plan

The order follows what would do most harm if it were wrong.

1. `AuditLog`, `Provenance`, `SessionStore`, `EvidenceStore` with their
   abstract specifications, `Assurance`, the dataset and model scans,
   `BoxMatching`, `KeyStore`, and the proofs above: done.
2. Proofs for the stores and their refinements, for the rest of `Provenance` and
   `SessionStore`, for ingestion, both scans, the optimality of the pairing and
   the bounds of the risk: done.
3. The provenance route with `provenance_records`, the generator's choice of
   the next sequence number, lineage's stale verdict, the export route.
4. The gating and characterization of the shift module as operators.

Not modelled, and why:

* Statistics proper: distribution shift metrics, image features, tensor
  arithmetic.  Floating point without state; the scans take their results as constants.
* The isolated worker functions of `model/safety.py` (258-391) and
  `battery.load_battery`: only tests call them.
* Parsing of files, rendering, argument handling, the request plumbing of the
  API, configuration and the dashboard: no integrity state of their own.
* The table `provenance_records` and the lineage and evidence routes: shown to
  the reader, decided on by nothing else.
* The window of validity of a key: compared with the clock and never changed.
  Power loss in the key store: the file is not fsynced, so nothing is promised.
