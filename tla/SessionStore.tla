---------------------------- MODULE SessionStore ----------------------------
(***************************************************************************)
(* One analysis session in the catalogue: storage/database.py              *)
(* (update_session_section, save_session, save_finding, save_verdict) as   *)
(* the orchestrators and the API routes use it.                            *)
(*                                                                         *)
(* A session is stored three times over: session_json in the row of        *)
(* sessions, the rows of findings and the rows of verdicts, both tied to   *)
(* the session's row by ON DELETE CASCADE.  save_session is an INSERT OR   *)
(* REPLACE: SQLite deletes the old row, and with it every finding and      *)
(* verdict row of the session, and inserts the new one.                    *)
(*                                                                         *)
(* update_session_section reads session_json in one transaction, merges    *)
(* in memory and writes in another; its findings follow in transactions of *)
(* their own.  The findings, analyses and details of a section are         *)
(* replaced together, so a section is modelled by the run it comes from    *)
(* (0: never run) and a run stands for the findings it produced.  A        *)
(* verdict is modelled by the sections it was computed on.                 *)
(***************************************************************************)
EXTENDS Integers

CONSTANTS
    Worker,        \* threads and processes that run modules
    Section,       \* the sections of the pipeline that run
    StorageFails,  \* whether a statement of the database may fail
    MaxRuns,       \* bound: runs of modules and assessments
    NoSession, NoVerdict, Idle

ASSUME SectionAssumption == Section \subseteq {"dataset", "model", "inference"}
ASSUME SwitchAssumption == StorageFails \in BOOLEAN
ASSUME BoundAssumption == MaxRuns \in Nat

VARIABLES
    session,      \* session_json, or NoSession
    rows,         \* the runs whose findings are in the table findings
    verdictRows,  \* the table verdicts
    job,          \* job[w]: what worker w is doing, or Idle
    runs,         \* the number of runs begun
    latest,       \* latest[s]: the run of s that wrote session_json last
    lastWriter,   \* the run that wrote session_json last; 0 if it left no findings
    shiftRuns,    \* the runs of the distribution shift module
    failed,       \* whether a statement failed or a process died
    overlapped    \* whether two workers were ever busy at a time

vars == << session, rows, verdictRows, job, runs, latest, lastWriter, shiftRuns, failed,
           overlapped >>
past == << latest, lastWriter, shiftRuns >>

Board == [Section -> Nat]

Sessions == [board : Board, verdict : Board \cup {NoVerdict}]

Assessment == "assurance"
Shift == "distribution"

Steps == {"ensureSession", "createSession", "insertEarly", "read", "write", "insert",
          "overwrite", "saveVerdict"}

ASSUME MarkerAssumption == NoSession \notin Sessions /\ NoVerdict \notin Board

Jobs == [kind : Section \cup {Shift, Assessment}, run : Nat, step : Steps,
         seen : Sessions \cup {NoSession}, verdict : Board \cup {NoVerdict}]

ASSUME IdleAssumption == Idle \notin Jobs

TypeOK ==
    /\ session \in Sessions \cup {NoSession}
    /\ rows \in SUBSET Nat
    /\ verdictRows \in SUBSET [id : Nat, on : Board]
    /\ job \in [Worker -> Jobs \cup {Idle}]
    /\ runs \in Nat
    /\ latest \in Board
    /\ lastWriter \in Nat
    /\ shiftRuns \in SUBSET Nat
    /\ failed \in BOOLEAN /\ overlapped \in BOOLEAN

-----------------------------------------------------------------------------
EmptyBoard == [s \in Section |-> 0]
EmptySession == [board |-> EmptyBoard, verdict |-> NoVerdict]

Init ==
    /\ session = NoSession
    /\ rows = {} /\ verdictRows = {}
    /\ job = [w \in Worker |-> Idle]
    /\ runs = 0
    /\ latest = EmptyBoard
    /\ lastWriter = 0 /\ shiftRuns = {}
    /\ failed = FALSE /\ overlapped = FALSE

(* Mutant: an UPSERT that keeps the row, and with it the rows tied to it.  *)
SaveSessionInPlace(merged) ==
    session' = merged /\ UNCHANGED << rows, verdictRows >>

(* save_session: the row is replaced, the rows tied to it are gone.        *)
SaveSession(merged) == session' = merged /\ rows' = {} /\ verdictRows' = {}

At(w, step) == job[w] # Idle /\ job[w].step = step

GoTo(w, step) == job' = [job EXCEPT ![w] = [job[w] EXCEPT !.step = step]]

End(w) == job' = [job EXCEPT ![w] = Idle]

(* Worker w begins something; whether another is in the middle of something *)
(* is remembered.                                                          *)
Begin(w, j) ==
    /\ job[w] = Idle
    /\ runs < MaxRuns
    /\ runs' = runs + 1
    /\ job' = [job EXCEPT ![w] = j]
    /\ overlapped' = (overlapped \/ \E v \in Worker : job[v] # Idle)

(* POST /sessions/create: an empty session under a new id, before any      *)
(* module can know it.                                                     *)
CreateSession ==
    /\ session = NoSession /\ runs = 0
    /\ SaveSession(EmptySession)
    /\ UNCHANGED << job, runs, past, failed, overlapped >>

(* A module is started on the session.  The dataset and the shift module   *)
(* store each finding as soon as its check returns, the others at the end. *)
StartModule(w, s) ==
    /\ Begin(w, [kind |-> s, run |-> runs + 1, seen |-> NoSession, verdict |-> NoVerdict,
                 step |-> IF s \in {"dataset", Shift} THEN "ensureSession" ELSE "read"])
    /\ shiftRuns' = shiftRuns \cup { r \in {runs + 1} : s = Shift }
    /\ UNCHANGED << session, rows, verdictRows, latest, lastWriter, failed >>

(* save_finding during the run: look for the session the row refers to.    *)
EnsureSession(w) ==
    /\ At(w, "ensureSession")
    /\ GoTo(w, IF session = NoSession THEN "createSession" ELSE "insertEarly")
    /\ UNCHANGED << session, rows, verdictRows, runs, past, failed, overlapped >>

(* save_finding creates a session it did not find; by now there may be one. *)
CreateFallbackSession(w) ==
    /\ At(w, "createSession")
    /\ SaveSession(EmptySession)
    /\ lastWriter' = 0
    /\ GoTo(w, "insertEarly")
    /\ UNCHANGED << runs, latest, shiftRuns, failed, overlapped >>

(* What follows the checks: the dataset module updates its section.  The   *)
(* shift module fails on an undefined name before it comes to that.        *)
ChecksDone(w) == IF job[w].kind = Shift THEN End(w) ELSE GoTo(w, "read")

InsertEarlyFinding(w) ==
    /\ At(w, "insertEarly")
    /\ rows' = rows \cup {job[w].run}
    /\ ChecksDone(w)
    /\ UNCHANGED << session, verdictRows, runs, past, failed, overlapped >>

(* evaluate_session: the session the route read is aggregated.             *)
StartAssessment(w) ==
    /\ session # NoSession
    /\ Begin(w, [kind |-> Assessment, run |-> runs + 1, seen |-> NoSession,
                 verdict |-> session.board, step |-> "read"])
    /\ UNCHANGED << session, rows, verdictRows, past, failed >>

(* update_session_section, the read.                                       *)
ReadSession(w) ==
    /\ At(w, "read")
    /\ job' = [job EXCEPT ![w] = [job[w] EXCEPT !.step = "write", !.seen = session]]
    /\ UNCHANGED << session, rows, verdictRows, runs, past, failed, overlapped >>

(* The session of one run alone.                                           *)
SoleSection(j) ==
    [board |-> [EmptyBoard EXCEPT ![j.kind] = j.run], verdict |-> NoVerdict]

(* Mutant: the other sections of an existing session are not carried over. *)
MergedAlone(j) ==
    IF j.kind = Assessment THEN [j.seen EXCEPT !.verdict = j.verdict]
    ELSE SoleSection(j)

(* The session merged in memory from what was read.                        *)
Merged(j) ==
    IF j.kind = Assessment THEN [j.seen EXCEPT !.verdict = j.verdict]
    ELSE IF j.seen = NoSession THEN SoleSection(j)
    ELSE [j.seen EXCEPT !.board = [j.seen.board EXCEPT ![j.kind] = j.run]]

(* update_session_section, the write.                                      *)
WriteSession(w) ==
    /\ At(w, "write")
    /\ SaveSession(Merged(job[w]))
    /\ IF job[w].kind = Assessment
       THEN /\ GoTo(w, "saveVerdict")
            /\ lastWriter' = 0 /\ UNCHANGED latest
       ELSE /\ GoTo(w, "insert")
            /\ lastWriter' = job[w].run
            /\ latest' = [latest EXCEPT ![job[w].kind] = job[w].run]
    /\ UNCHANGED << runs, shiftRuns, failed, overlapped >>

(* Mutant: the findings of an update are not stored in the table.          *)
InsertNothing(w) ==
    /\ At(w, "insert")
    /\ End(w)
    /\ UNCHANGED << session, rows, verdictRows, runs, past, failed, overlapped >>

(* update_session_section stores the findings of this section.             *)
InsertFindings(w) ==
    /\ At(w, "insert")
    /\ rows' = rows \cup {job[w].run}
    /\ End(w)
    /\ UNCHANGED << session, verdictRows, runs, past, failed, overlapped >>

SaveVerdict(w) ==
    /\ At(w, "saveVerdict")
    /\ verdictRows' = verdictRows \cup {[id |-> job[w].run, on |-> job[w].verdict]}
    /\ End(w)
    /\ UNCHANGED << session, rows, runs, past, failed, overlapped >>

-----------------------------------------------------------------------------
(* Failures.                                                               *)

(* A statement fails.  During the checks the check is counted as skipped   *)
(* and the module goes on; in update_session_section the dataset module    *)
(* and the assessment fall back to saving what they hold, the model module *)
(* raises and the inference route returns without saving.                  *)
StatementFails(w) ==
    /\ StorageFails
    /\ job[w] # Idle
    /\ failed' = TRUE
    /\ CASE job[w].step \in {"ensureSession", "createSession", "insertEarly"} ->
                ChecksDone(w)
         [] job[w].step \in {"read", "write", "insert"}
            /\ job[w].kind \in {"dataset", Assessment} ->
                GoTo(w, "overwrite")
         [] OTHER -> End(w)
    /\ UNCHANGED << session, rows, verdictRows, runs, past, overlapped >>

(* The fallback: save_session of the session this worker holds.            *)
OverwriteSession(w) ==
    /\ At(w, "overwrite")
    /\ IF job[w].kind = Assessment
       THEN /\ SaveSession([board |-> job[w].verdict, verdict |-> job[w].verdict])
            /\ GoTo(w, "saveVerdict")
            /\ lastWriter' = 0 /\ UNCHANGED latest
       ELSE /\ SaveSession(SoleSection(job[w]))
            /\ End(w)
            /\ lastWriter' = job[w].run
            /\ latest' = [latest EXCEPT ![job[w].kind] = job[w].run]
    /\ UNCHANGED << runs, shiftRuns, failed, overlapped >>

(* A process dies: what it was doing is never finished.                    *)
Dies(w) ==
    /\ StorageFails
    /\ job[w] # Idle
    /\ End(w)
    /\ failed' = TRUE
    /\ UNCHANGED << session, rows, verdictRows, runs, past, overlapped >>

Quiet == \A w \in Worker : job[w] = Idle

(* The bound is reached and every module is through.                       *)
RunsOver == runs = MaxRuns /\ Quiet /\ UNCHANGED vars

Next ==
    \/ CreateSession
    \/ \E w \in Worker :
         \/ \E s \in Section \cup {Shift} : StartModule(w, s)
         \/ EnsureSession(w) \/ CreateFallbackSession(w) \/ InsertEarlyFinding(w)
         \/ StartAssessment(w)
         \/ ReadSession(w) \/ WriteSession(w)
         \/ InsertFindings(w) \/ SaveVerdict(w)
         \/ StatementFails(w) \/ OverwriteSession(w) \/ Dies(w)
    \/ RunsOver

Spec == Init /\ [][Next]_vars

-----------------------------------------------------------------------------
(* Properties.                                                             *)

Undisturbed == ~failed /\ ~overlapped

(* Every section of the stored session is that of the module's latest run: *)
(* an update of one section takes no other section back.                   *)
LatestKept == session # NoSession => session.board = latest

(* So it is while no statement failed and no two modules overlapped.       *)
LatestKeptUndisturbed == Undisturbed => LatestKept

(* A row in verdicts, which lineage prefers over the verdict in the        *)
(* session, was computed on the sections as they are stored now, and there *)
(* is one at most: the cascade withdraws a verdict the session outgrew,    *)
(* whatever statements fail.                                               *)
VerdictRowCurrent ==
    ~overlapped => \A v, u \in verdictRows :
        v = u /\ session # NoSession /\ v.on = session.board

(* At rest, with no statement failed and no two calls overlapped, the table*)
(* of findings holds no finding the session does not list, but for those of*)
(* the shift module: findings of runs that were replaced do not come back. *)
NoGhostFindings ==
    Quiet /\ Undisturbed =>
        \A i \in rows \ shiftRuns : \E s \in Section : session.board[s] = i

(* At rest, with no statement failed, the findings of the module that      *)
(* wrote the session last are in the table, whoever ran beside it.         *)
LastWriterStored == Quiet /\ ~failed /\ lastWriter # 0 => lastWriter \in rows

(* At rest the table holds the findings of every section of the session.   *)
FindingsStored ==
    Quiet /\ session # NoSession =>
        \A s \in Section : session.board[s] # 0 => session.board[s] \in rows

(* The session implements the board.                                       *)
Stored == IF session = NoSession THEN EmptyBoard ELSE session.board
Verdicts == { v.on : v \in verdictRows }
Implemented == INSTANCE SessionBoard
    WITH board <- Stored, verdict <- Verdicts, disturbed <- ~Undisturbed, Run <- Nat
ImplementsBoard == Implemented!Spec

=============================================================================
