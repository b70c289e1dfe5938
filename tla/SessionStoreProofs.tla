------------------------- MODULE SessionStoreProofs -------------------------
(***************************************************************************)
(* Theorems about SessionStore, for any set of workers, any subset of the  *)
(* pipeline's sections and any number of runs: the state keeps its types,  *)
(* and what of sections, verdict rows and rows of findings stays current,  *)
(* each under the disturbances it survives; undisturbed, the session       *)
(* implements SessionBoard.                                                *)
(***************************************************************************)
EXTENDS SessionStore, TLAPS

(* It names three variables and is expanded everywhere.                    *)
USE DEF past

(* What each step of a worker knows, whatever failed or overlapped.        *)
JobsTyped ==
    \A w \in Worker : job[w] # Idle =>
        /\ job[w].step = "saveVerdict" => job[w].kind = Assessment
        /\ job[w].step = "insert" => job[w].kind # Assessment
        /\ job[w].kind = Shift =>
            job[w].step \in {"ensureSession", "createSession", "insertEarly"}
        /\ job[w].kind = Assessment =>
            /\ session # NoSession
            /\ job[w].verdict \in Board
            /\ job[w].step = "write" => job[w].seen # NoSession

(* What the one busy worker knows while nothing disturbs it.               *)
Alone == \A v, w \in Worker : job[v] # Idle /\ job[w] # Idle => v = w

JobsCurrent ==
    \A w \in Worker : job[w] # Idle =>
        /\ job[w].step = "createSession" => session = NoSession
        /\ job[w].step = "write" => job[w].seen = session
        /\ job[w].step # "overwrite"

Fresh == session = NoSession => latest = EmptyBoard

NoneBegun == runs = 0 => \A w \in Worker : job[w] = Idle

TypeInv == TypeOK /\ JobsTyped

LatestInv ==
    Undisturbed => LatestKept /\ Alone /\ JobsCurrent /\ Fresh /\ NoneBegun

-----------------------------------------------------------------------------
(* The values the actions write.                                           *)

LEMMA EmptyTypes == EmptyBoard \in Board /\ EmptySession \in Sessions
BY DEF EmptyBoard, EmptySession, Board, Sessions

LEMMA AssessmentIsNoModule == Assessment \notin Section \cup {Shift} /\ Shift \notin Section
BY SectionAssumption DEF Assessment, Shift

LEMMA SoleSectionType ==
    ASSUME NEW j \in Jobs, j.kind \in Section
    PROVE  /\ SoleSection(j) \in Sessions
           /\ SoleSection(j).board = [EmptyBoard EXCEPT ![j.kind] = j.run]
BY EmptyTypes DEF SoleSection, Sessions, Board, Jobs

(* A merged session is a session, if an assessment has one to merge into.  *)
LEMMA MergedType ==
    ASSUME NEW j \in Jobs, j.kind # Shift,
           j.kind = Assessment => j.seen # NoSession /\ j.verdict \in Board
    PROVE  Merged(j) \in Sessions
<1>1. CASE j.kind = Assessment
    <2>1. j.seen \in Sessions /\ j.verdict \in Board
        BY <1>1 DEF Jobs
    <2> QED BY <1>1, <2>1 DEF Merged, Sessions
<1>2. CASE j.kind # Assessment /\ j.seen = NoSession
    BY <1>2, SoleSectionType DEF Merged, Jobs
<1>3. CASE j.kind # Assessment /\ j.seen # NoSession
    <2>1. j.seen \in Sessions /\ j.kind \in Section /\ j.run \in Nat
        BY <1>3 DEF Jobs
    <2>2. [j.seen.board EXCEPT ![j.kind] = j.run] \in Board
        BY <2>1 DEF Sessions, Board
    <2> QED BY <1>3, <2>1, <2>2 DEF Merged, Sessions
<1> QED BY <1>1, <1>2, <1>3

(* Merging replaces one section of what was read, or none.                 *)
LEMMA MergedBoard ==
    ASSUME NEW j \in Jobs, j.kind # Shift, j.kind = Assessment => j.seen # NoSession
    PROVE  /\ j.kind = Assessment => Merged(j).board = j.seen.board
           /\ j.kind # Assessment /\ j.seen = NoSession =>
                Merged(j).board = [EmptyBoard EXCEPT ![j.kind] = j.run]
           /\ j.kind # Assessment /\ j.seen # NoSession =>
                Merged(j).board = [j.seen.board EXCEPT ![j.kind] = j.run]
<1>1. j.seen # NoSession => j.seen \in Sessions
    BY DEF Jobs
<1>2. j.kind = Assessment => Merged(j).board = j.seen.board
    BY <1>1 DEF Merged, Sessions
<1>3. j.kind # Assessment /\ j.seen = NoSession =>
        Merged(j).board = [EmptyBoard EXCEPT ![j.kind] = j.run]
    BY SoleSectionType DEF Merged, Jobs
<1>4. j.kind # Assessment /\ j.seen # NoSession =>
        Merged(j).board = [j.seen.board EXCEPT ![j.kind] = j.run]
    BY <1>1 DEF Merged, Sessions
<1> QED BY <1>2, <1>3, <1>4

LEMMA JobMoves ==
    ASSUME NEW j \in Jobs, NEW step \in Steps
    PROVE  /\ [j EXCEPT !.step = step] \in Jobs
           /\ [j EXCEPT !.step = step].step = step
           /\ [j EXCEPT !.step = step].kind = j.kind
           /\ [j EXCEPT !.step = step].run = j.run
           /\ [j EXCEPT !.step = step].verdict = j.verdict
           /\ [j EXCEPT !.step = step].seen = j.seen
BY DEF Jobs

LEMMA JobInProgress ==
    ASSUME TypeOK, NEW w \in Worker, job[w] # Idle
    PROVE  job[w] \in Jobs
BY DEF TypeOK

(* Where a module is past its checks it is not the shift module.           *)
LEMMA PastChecks ==
    ASSUME JobsTyped, NEW w \in Worker, job[w] # Idle, job[w] \in Jobs,
           job[w].step \notin {"ensureSession", "createSession", "insertEarly"}
    PROVE  /\ job[w].kind # Shift
           /\ job[w].kind # Assessment => job[w].kind \in Section
BY DEF JobsTyped, Jobs

-----------------------------------------------------------------------------
(* The types.                                                              *)

(* A worker that goes on to another step keeps its types, if the step is   *)
(* one its kind may take and is not a write.                               *)
LEMMA GoToTyped ==
    ASSUME TypeInv, NEW w \in Worker, job[w] # Idle, NEW step \in Steps,
           step = "saveVerdict" => job[w].kind = Assessment,
           step = "insert" => job[w].kind # Assessment,
           job[w].kind = Shift =>
             step \in {"ensureSession", "createSession", "insertEarly"},
           step # "write",
           GoTo(w, step),
           session # NoSession => session' # NoSession
    PROVE  job' \in [Worker -> Jobs \cup {Idle}] /\ JobsTyped'
<1>1. job[w] \in Jobs
    BY JobInProgress DEF TypeInv
<1>2. job' = [job EXCEPT ![w] = [job[w] EXCEPT !.step = step]]
    BY DEF GoTo
<1>3. /\ job'[w] \in Jobs
      /\ job'[w].step = step
      /\ job'[w].kind = job[w].kind
      /\ job'[w].verdict = job[w].verdict
    BY <1>1, <1>2, JobMoves DEF TypeInv, TypeOK
<1>4. \A v \in Worker : v # w => job'[v] = job[v]
    BY <1>2 DEF TypeInv, TypeOK
<1>5. job' \in [Worker -> Jobs \cup {Idle}]
    BY <1>2, <1>3, <1>4 DEF TypeInv, TypeOK
<1>6. JobsTyped'
    <2> SUFFICES ASSUME NEW v \in Worker, job'[v] # Idle
                 PROVE  /\ job'[v].step = "saveVerdict" => job'[v].kind = Assessment
                        /\ job'[v].step = "insert" => job'[v].kind # Assessment
                        /\ job'[v].kind = Shift =>
                            job'[v].step \in {"ensureSession", "createSession", "insertEarly"}
                        /\ job'[v].kind = Assessment =>
                            /\ session' # NoSession
                            /\ job'[v].verdict \in Board
                            /\ job'[v].step = "write" => job'[v].seen # NoSession
        BY DEF JobsTyped
    <2>1. CASE v = w
        BY <2>1, <1>3 DEF TypeInv, JobsTyped
    <2>2. CASE v # w
        BY <2>2, <1>4 DEF TypeInv, JobsTyped
    <2> QED BY <2>1, <2>2
<1> QED BY <1>5, <1>6

(* A worker that is done takes nothing from the others.                    *)
LEMMA EndTyped ==
    ASSUME TypeInv, NEW w \in Worker, End(w),
           session # NoSession => session' # NoSession
    PROVE  job' \in [Worker -> Jobs \cup {Idle}] /\ JobsTyped'
<1>1. job' = [job EXCEPT ![w] = Idle]
    BY DEF End
<1>2. job'[w] = Idle /\ \A v \in Worker : v # w => job'[v] = job[v]
    BY <1>1 DEF TypeInv, TypeOK
<1> QED BY <1>1, <1>2 DEF TypeInv, TypeOK, JobsTyped

LEMMA ChecksDoneTyped ==
    ASSUME TypeInv, NEW w \in Worker, job[w] # Idle, ChecksDone(w), UNCHANGED session
    PROVE  job' \in [Worker -> Jobs \cup {Idle}] /\ JobsTyped'
<1>1. CASE job[w].kind = Shift
    BY <1>1, EndTyped DEF ChecksDone
<1>2. CASE job[w].kind # Shift
    <2>1. GoTo(w, "read") /\ "read" \in Steps
        BY <1>2 DEF ChecksDone, Steps
    <2> QED BY <1>2, <2>1, GoToTyped
<1> QED BY <1>1, <1>2

(* What begins is typed, if it is what its kind needs.                     *)
LEMMA BeginTyped ==
    ASSUME TypeInv, NEW w \in Worker, NEW j \in Jobs, Begin(w, j),
           j.step \in {"ensureSession", "read"},
           j.kind = Shift => j.step = "ensureSession",
           j.kind = Assessment => session # NoSession /\ j.verdict \in Board,
           UNCHANGED session
    PROVE  /\ job' \in [Worker -> Jobs \cup {Idle}] /\ JobsTyped'
           /\ runs' \in Nat /\ overlapped' \in BOOLEAN
<1>1. job' = [job EXCEPT ![w] = j]
    BY DEF Begin
<1>2. job'[w] = j /\ \A v \in Worker : v # w => job'[v] = job[v]
    BY <1>1 DEF TypeInv, TypeOK
<1>3. job' \in [Worker -> Jobs \cup {Idle}]
    BY <1>1 DEF TypeInv, TypeOK
<1>4. JobsTyped'
    BY <1>2 DEF TypeInv, JobsTyped
<1>5. runs' \in Nat /\ overlapped' \in BOOLEAN
    BY DEF Begin, TypeInv, TypeOK
<1> QED BY <1>3, <1>4, <1>5

(* Saving a session stores a session and removes the rows tied to it.      *)
LEMMA SaveTypes ==
    ASSUME NEW merged \in Sessions, SaveSession(merged)
    PROVE  /\ session' \in Sessions /\ session' # NoSession /\ session' = merged
           /\ rows' \in SUBSET Nat
           /\ verdictRows' \in SUBSET [id : Nat, on : Board]
BY MarkerAssumption DEF SaveSession

LEMMA TypeStep ==
    ASSUME TypeInv, [Next]_vars
    PROVE  TypeInv'
<1> USE DEF TypeInv
<1>1. CASE UNCHANGED vars
    BY <1>1 DEF vars, TypeOK, JobsTyped
<1>2. CASE CreateSession
    <2>1. session' \in Sessions /\ session' # NoSession
          /\ rows' \in SUBSET Nat /\ verdictRows' \in SUBSET [id : Nat, on : Board]
        BY <1>2, SaveTypes, EmptyTypes DEF CreateSession
    <2>2. UNCHANGED << job, runs, past, failed, overlapped >>
        BY <1>2 DEF CreateSession
    <2>3. JobsTyped'
        BY <2>1, <2>2 DEF JobsTyped
    <2> QED BY <2>1, <2>2, <2>3 DEF TypeOK
<1>3. ASSUME NEW w \in Worker, NEW s \in Section \cup {Shift}, StartModule(w, s)
      PROVE  TypeInv'
    <2> DEFINE step == IF s \in {"dataset", Shift} THEN "ensureSession" ELSE "read"
               j == [kind |-> s, run |-> runs + 1, seen |-> NoSession,
                     verdict |-> NoVerdict, step |-> step]
    <2>1. /\ j \in Jobs /\ j.kind = s /\ j.step \in {"ensureSession", "read"}
          /\ j.kind = Shift => j.step = "ensureSession"
        BY DEF Jobs, Steps, TypeOK
    <2>2. /\ Begin(w, j) /\ shiftRuns' = shiftRuns \cup { r \in {runs + 1} : s = Shift }
          /\ UNCHANGED << session, rows, verdictRows, latest, lastWriter, failed >>
        BY <1>3 DEF StartModule
    <2>3. j.kind # Assessment
        BY <2>1, AssessmentIsNoModule
    <2> HIDE DEF j
    <2>4. /\ job' \in [Worker -> Jobs \cup {Idle}] /\ JobsTyped'
          /\ runs' \in Nat /\ overlapped' \in BOOLEAN
        BY <2>1, <2>2, <2>3, BeginTyped
    <2>5. shiftRuns' \in SUBSET Nat
        <3>1. shiftRuns \in SUBSET Nat /\ runs + 1 \in Nat
            BY DEF TypeOK
        <3>2. shiftRuns' \subseteq shiftRuns \cup {runs + 1}
            BY <2>2, Zenon
        <3> QED BY <3>1, <3>2, Zenon
    <2> QED BY <2>2, <2>4, <2>5 DEF TypeOK
<1>4. ASSUME NEW w \in Worker, EnsureSession(w)
      PROVE  TypeInv'
    <2> DEFINE step == IF session = NoSession THEN "createSession" ELSE "insertEarly"
    <2>1. /\ job[w] # Idle /\ step \in Steps /\ GoTo(w, step)
          /\ step \in {"createSession", "insertEarly"}
        BY <1>4 DEF EnsureSession, At, Steps
    <2>2. UNCHANGED << session, rows, verdictRows, runs, past, failed, overlapped >>
        BY <1>4 DEF EnsureSession
    <2> HIDE DEF step
    <2>3. job' \in [Worker -> Jobs \cup {Idle}] /\ JobsTyped'
        BY <2>1, <2>2, GoToTyped
    <2> QED BY <2>2, <2>3 DEF TypeOK
<1>5. ASSUME NEW w \in Worker, CreateFallbackSession(w)
      PROVE  TypeInv'
    <2>1. job[w] # Idle /\ GoTo(w, "insertEarly") /\ SaveSession(EmptySession)
        BY <1>5 DEF CreateFallbackSession, At
    <2>2. lastWriter' = 0 /\ UNCHANGED << runs, latest, shiftRuns, failed, overlapped >>
        BY <1>5 DEF CreateFallbackSession
    <2>3. session' \in Sessions /\ session' # NoSession
          /\ rows' \in SUBSET Nat /\ verdictRows' \in SUBSET [id : Nat, on : Board]
        BY <2>1, SaveTypes, EmptyTypes
    <2>4. "insertEarly" \in Steps
        BY DEF Steps
    <2>5. job' \in [Worker -> Jobs \cup {Idle}] /\ JobsTyped'
        BY <2>1, <2>3, <2>4, GoToTyped
    <2> QED BY <2>2, <2>3, <2>5 DEF TypeOK
<1>6. ASSUME NEW w \in Worker, InsertEarlyFinding(w)
      PROVE  TypeInv'
    <2>1. job[w] # Idle /\ ChecksDone(w) /\ rows' = rows \cup {job[w].run}
        BY <1>6 DEF InsertEarlyFinding, At
    <2>2. UNCHANGED << session, verdictRows, runs, past, failed, overlapped >>
        BY <1>6 DEF InsertEarlyFinding
    <2>3. rows' \in SUBSET Nat
        BY <2>1, JobInProgress DEF TypeOK, Jobs
    <2>4. job' \in [Worker -> Jobs \cup {Idle}] /\ JobsTyped'
        BY <2>1, <2>2, ChecksDoneTyped
    <2> QED BY <2>2, <2>3, <2>4 DEF TypeOK
<1>7. ASSUME NEW w \in Worker, StartAssessment(w)
      PROVE  TypeInv'
    <2> DEFINE j == [kind |-> Assessment, run |-> runs + 1, seen |-> NoSession,
                     verdict |-> session.board, step |-> "read"]
    <2>1. session \in Sessions /\ session # NoSession /\ session.board \in Board
        BY <1>7 DEF StartAssessment, TypeOK, Sessions
    <2>2. /\ j \in Jobs /\ j.step \in {"ensureSession", "read"} /\ j.verdict \in Board
          /\ j.kind # Shift
        BY <2>1 DEF Jobs, Steps, TypeOK, Assessment, Shift
    <2>3. Begin(w, j) /\ UNCHANGED << session, rows, verdictRows, past, failed >>
        BY <1>7 DEF StartAssessment
    <2> HIDE DEF j
    <2>4. /\ job' \in [Worker -> Jobs \cup {Idle}] /\ JobsTyped'
          /\ runs' \in Nat /\ overlapped' \in BOOLEAN
        BY <2>1, <2>2, <2>3, BeginTyped
    <2> QED BY <2>3, <2>4 DEF TypeOK
<1>8. ASSUME NEW w \in Worker, ReadSession(w)
      PROVE  TypeInv'
    <2>1. job[w] # Idle /\ job[w].step = "read" /\ job[w] \in Jobs /\ job[w].kind # Shift
        BY <1>8, JobInProgress, PastChecks DEF ReadSession, At
    <2> DEFINE j == [job[w] EXCEPT !.step = "write", !.seen = session]
    <2>2. /\ j \in Jobs /\ j.step = "write" /\ j.kind = job[w].kind
          /\ j.verdict = job[w].verdict /\ j.seen = session
        BY <2>1 DEF Jobs, Steps, TypeOK
    <2>3. job' = [job EXCEPT ![w] = j]
          /\ UNCHANGED << session, rows, verdictRows, runs, past, failed, overlapped >>
        BY <1>8 DEF ReadSession
    <2> HIDE DEF j
    <2>4. job'[w] = j /\ \A v \in Worker : v # w => job'[v] = job[v]
        BY <2>3 DEF TypeOK
    <2>5. job' \in [Worker -> Jobs \cup {Idle}]
        BY <2>2, <2>3 DEF TypeOK
    <2>6. JobsTyped'
        BY <2>1, <2>2, <2>3, <2>4 DEF JobsTyped
    <2> QED BY <2>3, <2>5, <2>6 DEF TypeOK
<1>9. ASSUME NEW w \in Worker, WriteSession(w)
      PROVE  TypeInv'
    <2>1. job[w] # Idle /\ job[w].step = "write" /\ job[w] \in Jobs /\ job[w].kind # Shift
        BY <1>9, JobInProgress, PastChecks DEF WriteSession, At
    <2>2. job[w].kind = Assessment => job[w].seen # NoSession /\ job[w].verdict \in Board
        BY <2>1 DEF JobsTyped
    <2>3. Merged(job[w]) \in Sessions
        BY <2>1, <2>2, MergedType
    <2>4. session' \in Sessions /\ session' # NoSession
          /\ rows' \in SUBSET Nat /\ verdictRows' \in SUBSET [id : Nat, on : Board]
        BY <1>9, <2>3, SaveTypes DEF WriteSession
    <2>5. "insert" \in Steps /\ "saveVerdict" \in Steps
        BY DEF Steps
    <2>6. CASE job[w].kind = Assessment
        <3>1. GoTo(w, "saveVerdict") /\ lastWriter' = 0
              /\ UNCHANGED << latest, runs, shiftRuns, failed, overlapped >>
            BY <1>9, <2>6 DEF WriteSession
        <3>2. job' \in [Worker -> Jobs \cup {Idle}] /\ JobsTyped'
            BY <3>1, <2>1, <2>4, <2>5, <2>6, GoToTyped
        <3> QED BY <3>1, <3>2, <2>4 DEF TypeOK
    <2>7. CASE job[w].kind # Assessment
        <3>1. GoTo(w, "insert") /\ lastWriter' = job[w].run
              /\ latest' = [latest EXCEPT ![job[w].kind] = job[w].run]
              /\ UNCHANGED << runs, shiftRuns, failed, overlapped >>
            BY <1>9, <2>7 DEF WriteSession
        <3>2. job' \in [Worker -> Jobs \cup {Idle}] /\ JobsTyped'
            BY <3>1, <2>1, <2>4, <2>5, <2>7, GoToTyped
        <3>3. job[w].run \in Nat /\ latest' \in Board
            BY <3>1, <2>1 DEF Jobs, TypeOK, Board
        <3> QED BY <3>1, <3>2, <3>3, <2>4 DEF TypeOK
    <2> QED BY <2>6, <2>7
<1>10. ASSUME NEW w \in Worker, InsertFindings(w)
      PROVE  TypeInv'
    <2>1. job[w] # Idle /\ End(w) /\ rows' = rows \cup {job[w].run}
        BY <1>10 DEF InsertFindings, At
    <2>2. UNCHANGED << session, verdictRows, runs, past, failed, overlapped >>
        BY <1>10 DEF InsertFindings
    <2>3. rows' \in SUBSET Nat
        BY <2>1, JobInProgress DEF TypeOK, Jobs
    <2>4. job' \in [Worker -> Jobs \cup {Idle}] /\ JobsTyped'
        BY <2>1, <2>2, EndTyped
    <2> QED BY <2>2, <2>3, <2>4 DEF TypeOK
<1>11. ASSUME NEW w \in Worker, SaveVerdict(w)
      PROVE  TypeInv'
    <2>1. job[w] # Idle /\ job[w] \in Jobs /\ job[w].step = "saveVerdict"
        BY <1>11, JobInProgress DEF SaveVerdict, At
    <2>2. /\ End(w)
          /\ verdictRows' = verdictRows \cup {[id |-> job[w].run, on |-> job[w].verdict]}
          /\ UNCHANGED << session, rows, runs, past, failed, overlapped >>
        BY <1>11 DEF SaveVerdict
    <2>3. job[w].run \in Nat /\ job[w].verdict \in Board
        BY <2>1 DEF JobsTyped, Jobs
    <2>4. verdictRows' \in SUBSET [id : Nat, on : Board]
        BY <2>2, <2>3 DEF TypeOK
    <2>5. job' \in [Worker -> Jobs \cup {Idle}] /\ JobsTyped'
        BY <2>2, EndTyped
    <2> QED BY <2>2, <2>4, <2>5 DEF TypeOK
<1>12. ASSUME NEW w \in Worker, StatementFails(w)
      PROVE  TypeInv'
    <2>1. /\ job[w] # Idle /\ failed' = TRUE
          /\ UNCHANGED << session, rows, verdictRows, runs, past, overlapped >>
        BY <1>12 DEF StatementFails
    <2>2. ChecksDone(w) \/ (job[w].kind \in {"dataset", Assessment} /\ GoTo(w, "overwrite"))
          \/ End(w)
        BY <1>12 DEF StatementFails
    <2>3. "overwrite" \in Steps /\ Shift \notin {"dataset", Assessment}
        BY DEF Steps, Shift, Assessment
    <2>4. CASE job[w].kind \in {"dataset", Assessment} /\ GoTo(w, "overwrite")
        <3>1. job[w].kind # Shift
            BY <2>3, <2>4
        <3> QED BY <2>1, <2>3, <2>4, <3>1, GoToTyped DEF TypeOK
    <2>5. CASE ChecksDone(w) \/ End(w)
        BY <2>1, <2>5, ChecksDoneTyped, EndTyped DEF TypeOK
    <2> QED BY <2>2, <2>4, <2>5
<1>13. ASSUME NEW w \in Worker, OverwriteSession(w)
      PROVE  TypeInv'
    <2>1. /\ job[w] # Idle /\ job[w] \in Jobs /\ job[w].kind # Shift
          /\ job[w].kind # Assessment => job[w].kind \in Section
        BY <1>13, JobInProgress, PastChecks DEF OverwriteSession, At
    <2>2. CASE job[w].kind = Assessment
        <3> DEFINE held == [board |-> job[w].verdict, verdict |-> job[w].verdict]
        <3>1. held \in Sessions
            BY <2>1, <2>2 DEF JobsTyped, Sessions
        <3>2. SaveSession(held) /\ GoTo(w, "saveVerdict") /\ lastWriter' = 0
              /\ UNCHANGED << latest, runs, shiftRuns, failed, overlapped >>
            BY <1>13, <2>2 DEF OverwriteSession
        <3> HIDE DEF held
        <3>3. session' \in Sessions /\ session' # NoSession
              /\ rows' \in SUBSET Nat /\ verdictRows' \in SUBSET [id : Nat, on : Board]
            BY <3>1, <3>2, SaveTypes
        <3>4. "saveVerdict" \in Steps
            BY DEF Steps
        <3>5. job' \in [Worker -> Jobs \cup {Idle}] /\ JobsTyped'
            BY <3>2, <3>3, <3>4, <2>1, <2>2, GoToTyped
        <3> QED BY <3>2, <3>3, <3>5 DEF TypeOK
    <2>3. CASE job[w].kind # Assessment
        <3>1. /\ SaveSession(SoleSection(job[w])) /\ End(w)
              /\ lastWriter' = job[w].run
              /\ latest' = [latest EXCEPT ![job[w].kind] = job[w].run]
              /\ UNCHANGED << runs, shiftRuns, failed, overlapped >>
            BY <1>13, <2>3 DEF OverwriteSession
        <3>2. SoleSection(job[w]) \in Sessions
            BY <2>1, <2>3, SoleSectionType
        <3>3. session' \in Sessions /\ session' # NoSession
              /\ rows' \in SUBSET Nat /\ verdictRows' \in SUBSET [id : Nat, on : Board]
            BY <3>1, <3>2, SaveTypes
        <3>4. job[w].run \in Nat /\ latest' \in Board
            BY <3>1, <2>1 DEF Jobs, TypeOK, Board
        <3>5. job' \in [Worker -> Jobs \cup {Idle}] /\ JobsTyped'
            BY <3>1, <3>3, EndTyped
        <3> QED BY <3>1, <3>3, <3>4, <3>5 DEF TypeOK
    <2> QED BY <2>2, <2>3
<1>14. ASSUME NEW w \in Worker, Dies(w)
      PROVE  TypeInv'
    <2>1. /\ End(w) /\ failed' = TRUE
          /\ UNCHANGED << session, rows, verdictRows, runs, past, overlapped >>
        BY <1>14 DEF Dies
    <2>2. job' \in [Worker -> Jobs \cup {Idle}] /\ JobsTyped'
        BY <2>1, EndTyped
    <2> QED BY <2>1, <2>2 DEF TypeOK
<1>15. CASE RunsOver
    BY <1>15, <1>1 DEF RunsOver
<1> QED
    BY <1>1, <1>2, <1>3, <1>4, <1>5, <1>6, <1>7, <1>8, <1>9, <1>10, <1>11, <1>12,
       <1>13, <1>14, <1>15 DEF Next

LEMMA TypeInit == Init => TypeInv
<1> SUFFICES ASSUME Init PROVE TypeInv
    OBVIOUS
<1>1. job \in [Worker -> Jobs \cup {Idle}] /\ \A w \in Worker : job[w] = Idle
    BY DEF Init
<1>2. TypeOK
    BY <1>1, EmptyTypes DEF Init, TypeOK
<1>3. JobsTyped
    BY <1>1 DEF JobsTyped
<1> QED BY <1>2, <1>3 DEF TypeInv

(* The stored session, its rows and what every worker holds keep their     *)
(* types, whatever fails and overlaps: in particular an assessment always  *)
(* has a session to merge its verdict into.                                *)
THEOREM SessionTypeCorrect == Spec => []TypeOK
<1>1. TypeInv /\ [Next]_vars => TypeInv'
    BY TypeStep
<1>2. TypeInv => TypeOK
    BY DEF TypeInv
<1> QED BY TypeInit, <1>1, <1>2, PTL DEF Spec

-----------------------------------------------------------------------------
(* The sections.                                                           *)

(* A step of the one busy worker leaves it the only one that may be busy;  *)
(* so what workers know is what this one knows.                            *)
LEMMA StillAlone ==
    ASSUME TypeOK, Alone, NoneBegun, NEW w \in Worker, job[w] # Idle, NEW j,
           job' = [job EXCEPT ![w] = j], UNCHANGED runs
    PROVE  /\ job'[w] = j
           /\ \A v \in Worker : v # w => job'[v] = Idle
           /\ Alone' /\ NoneBegun'
<1>1. job'[w] = j /\ \A v \in Worker : v # w => job'[v] = job[v]
    BY DEF TypeOK
<1>2. \A v \in Worker : v # w => job'[v] = Idle
    BY <1>1 DEF Alone
<1>3. Alone'
    BY <1>2 DEF Alone
<1>4. NoneBegun'
    BY DEF NoneBegun
<1> QED BY <1>1, <1>2, <1>3, <1>4

LEMMA CurrentFromOne ==
    ASSUME NEW w \in Worker, \A v \in Worker : v # w => job'[v] = Idle,
           job'[w] # Idle =>
             /\ job'[w].step = "createSession" => session' = NoSession
             /\ job'[w].step = "write" => job'[w].seen = session'
             /\ job'[w].step # "overwrite"
    PROVE  JobsCurrent'
BY DEF JobsCurrent

(* The only busy worker goes on to a step that assumes nothing.            *)
LEMMA GoToCurrent ==
    ASSUME TypeOK, Alone, NoneBegun, NEW w \in Worker, job[w] # Idle,
           NEW step \in Steps, GoTo(w, step), UNCHANGED runs,
           step \notin {"write", "overwrite"},
           step = "createSession" => session' = NoSession
    PROVE  Alone' /\ JobsCurrent' /\ NoneBegun'
<1>1. job[w] \in Jobs
    BY JobInProgress
<1> DEFINE j == [job[w] EXCEPT !.step = step]
<1>2. j.step = step
    BY <1>1, JobMoves
<1>3. job' = [job EXCEPT ![w] = j]
    BY DEF GoTo
<1> HIDE DEF j
<1>4. /\ job'[w] = j /\ \A v \in Worker : v # w => job'[v] = Idle
      /\ Alone' /\ NoneBegun'
    BY <1>3, StillAlone
<1> QED BY <1>2, <1>4, CurrentFromOne

LEMMA EndCurrent ==
    ASSUME TypeOK, Alone, NoneBegun, NEW w \in Worker, job[w] # Idle, End(w),
           UNCHANGED runs
    PROVE  Alone' /\ JobsCurrent' /\ NoneBegun'
<1>1. /\ job'[w] = Idle /\ \A v \in Worker : v # w => job'[v] = Idle
      /\ Alone' /\ NoneBegun'
    BY StillAlone DEF End
<1> QED BY <1>1, CurrentFromOne

(* Whoever begins undisturbed begins alone.                                *)
LEMMA BeginCurrent ==
    ASSUME TypeOK, NEW w \in Worker, NEW j \in Jobs, Begin(w, j), ~overlapped',
           j.step \in {"ensureSession", "read"}
    PROVE  ~overlapped /\ Alone' /\ JobsCurrent' /\ NoneBegun'
<1>1. /\ job' = [job EXCEPT ![w] = j] /\ \A v \in Worker : job[v] = Idle
      /\ ~overlapped /\ runs' = runs + 1
    BY DEF Begin
<1>2. job'[w] = j /\ \A v \in Worker : v # w => job'[v] = Idle
    BY <1>1 DEF TypeOK
<1>3. Alone'
    BY <1>2 DEF Alone
<1>4. NoneBegun'
    BY <1>1 DEF TypeOK, NoneBegun
<1>5. JobsCurrent'
    BY <1>2, CurrentFromOne
<1> QED BY <1>1, <1>3, <1>4, <1>5

LEMMA LatestStep ==
    ASSUME TypeInv, LatestInv, [Next]_vars
    PROVE  LatestInv'
<1> SUFFICES ASSUME Undisturbed'
             PROVE  (LatestKept /\ Alone /\ JobsCurrent /\ Fresh /\ NoneBegun)'
    BY DEF LatestInv
<1> DEFINE Before == LatestKept /\ Alone /\ JobsCurrent /\ Fresh /\ NoneBegun
           Calm == UNCHANGED failed /\ UNCHANGED overlapped
<1>u. Calm => Before
    BY DEF Undisturbed, LatestInv
<1>t. TypeOK
    BY DEF TypeInv
<1>1. CASE UNCHANGED vars
    BY <1>1, <1>u DEF vars, LatestKept, Alone, JobsCurrent, Fresh, NoneBegun
<1>2. CASE CreateSession
    <2>1. runs = 0 /\ session = NoSession /\ session' = EmptySession
        BY <1>2 DEF CreateSession, SaveSession
    <2>2. UNCHANGED << job, runs, past, failed, overlapped >>
        BY <1>2 DEF CreateSession
    <2>3. Before
        BY <2>2, <1>u
    <2>4. \A w \in Worker : job'[w] = Idle
        BY <2>1, <2>2, <2>3 DEF NoneBegun
    <2>5. LatestKept'
        BY <2>1, <2>2, <2>3 DEF LatestKept, Fresh, EmptySession
    <2>6. Alone' /\ JobsCurrent' /\ NoneBegun'
        BY <2>4 DEF Alone, JobsCurrent, NoneBegun
    <2>7. Fresh'
        BY <2>1, <2>2, <2>3 DEF Fresh
    <2> QED BY <2>5, <2>6, <2>7
<1>3. ASSUME NEW w \in Worker, NEW s \in Section \cup {Shift}, StartModule(w, s)
      PROVE  Before'
    <2> DEFINE step == IF s \in {"dataset", Shift} THEN "ensureSession" ELSE "read"
               j == [kind |-> s, run |-> runs + 1, seen |-> NoSession,
                     verdict |-> NoVerdict, step |-> step]
    <2>1. j \in Jobs /\ j.step \in {"ensureSession", "read"}
        BY <1>t DEF Jobs, Steps, TypeOK
    <2>2. Begin(w, j) /\ UNCHANGED << session, latest, failed >>
        BY <1>3 DEF StartModule
    <2> HIDE DEF j
    <2>3. ~overlapped /\ Alone' /\ JobsCurrent' /\ NoneBegun'
        BY <1>t, <2>1, <2>2, BeginCurrent DEF Undisturbed
    <2>4. LatestKept /\ Fresh
        BY <2>2, <2>3 DEF Undisturbed, LatestInv
    <2>5. LatestKept' /\ Fresh'
        BY <2>2, <2>4 DEF LatestKept, Fresh
    <2> QED BY <2>3, <2>5
<1>4. ASSUME NEW w \in Worker, EnsureSession(w)
      PROVE  Before'
    <2> DEFINE step == IF session = NoSession THEN "createSession" ELSE "insertEarly"
    <2>1. job[w] # Idle /\ GoTo(w, step) /\ step \in Steps \ {"write", "overwrite"}
        BY <1>4 DEF EnsureSession, At, Steps
    <2>2. UNCHANGED << session, rows, verdictRows, runs, past, failed, overlapped >>
        BY <1>4 DEF EnsureSession
    <2>3. step = "createSession" => session' = NoSession
        BY <2>2
    <2> HIDE DEF step
    <2>4. Before
        BY <2>2, <1>u
    <2>5. Alone' /\ JobsCurrent' /\ NoneBegun'
        BY <1>t, <2>1, <2>2, <2>3, <2>4, GoToCurrent
    <2>6. LatestKept' /\ Fresh'
        BY <2>2, <2>4 DEF LatestKept, Fresh
    <2> QED BY <2>5, <2>6
<1>5. ASSUME NEW w \in Worker, CreateFallbackSession(w)
      PROVE  Before'
    <2>1. /\ job[w] # Idle /\ job[w].step = "createSession"
          /\ GoTo(w, "insertEarly") /\ session' = EmptySession
          /\ UNCHANGED << runs, latest, shiftRuns, failed, overlapped >>
        BY <1>5 DEF CreateFallbackSession, At, SaveSession
    <2>2. Before
        BY <2>1, <1>u
    <2>3. "insertEarly" \in Steps \ {"write", "overwrite"}
        BY DEF Steps
    <2>4. Alone' /\ JobsCurrent' /\ NoneBegun'
        BY <1>t, <2>1, <2>2, <2>3, GoToCurrent
    <2>5. session = NoSession /\ latest = EmptyBoard
        BY <2>1, <2>2 DEF JobsCurrent, Fresh
    <2>6. LatestKept' /\ Fresh'
        BY <2>1, <2>5 DEF LatestKept, Fresh, EmptySession
    <2> QED BY <2>4, <2>6
<1>6. ASSUME NEW w \in Worker, InsertEarlyFinding(w)
      PROVE  Before'
    <2>1. /\ job[w] # Idle /\ (GoTo(w, "read") \/ End(w))
          /\ UNCHANGED << session, runs, latest, failed, overlapped >>
        BY <1>6 DEF InsertEarlyFinding, ChecksDone, At
    <2>2. Before
        BY <2>1, <1>u
    <2>3. "read" \in Steps \ {"write", "overwrite", "createSession"}
        BY DEF Steps
    <2>4. Alone' /\ JobsCurrent' /\ NoneBegun'
        BY <1>t, <2>1, <2>2, <2>3, GoToCurrent, EndCurrent
    <2>5. LatestKept' /\ Fresh'
        BY <2>1, <2>2 DEF LatestKept, Fresh
    <2> QED BY <2>4, <2>5
<1>7. ASSUME NEW w \in Worker, StartAssessment(w)
      PROVE  Before'
    <2> DEFINE j == [kind |-> Assessment, run |-> runs + 1, seen |-> NoSession,
                     verdict |-> session.board, step |-> "read"]
    <2>1. session.board \in Board
        BY <1>7, <1>t DEF StartAssessment, TypeOK, Sessions
    <2>2. j \in Jobs /\ j.step \in {"ensureSession", "read"}
        BY <1>t, <2>1 DEF Jobs, Steps, TypeOK
    <2>3. Begin(w, j) /\ UNCHANGED << session, rows, verdictRows, past, failed >>
        BY <1>7 DEF StartAssessment
    <2> HIDE DEF j
    <2>4. ~overlapped /\ Alone' /\ JobsCurrent' /\ NoneBegun'
        BY <1>t, <2>2, <2>3, BeginCurrent DEF Undisturbed
    <2>5. LatestKept /\ Fresh
        BY <2>3, <2>4 DEF Undisturbed, LatestInv
    <2>6. LatestKept' /\ Fresh'
        BY <2>3, <2>5 DEF LatestKept, Fresh
    <2> QED BY <2>4, <2>6
<1>8. ASSUME NEW w \in Worker, ReadSession(w)
      PROVE  Before'
    <2>1. job[w] # Idle /\ job[w] \in Jobs
        BY <1>8, <1>t, JobInProgress DEF ReadSession, At
    <2> DEFINE j == [job[w] EXCEPT !.step = "write", !.seen = session]
    <2>2. j.step = "write" /\ j.seen = session
        BY <2>1 DEF Jobs
    <2>3. job' = [job EXCEPT ![w] = j]
          /\ UNCHANGED << session, rows, verdictRows, runs, past, failed, overlapped >>
        BY <1>8 DEF ReadSession
    <2> HIDE DEF j
    <2>4. Before
        BY <2>3, <1>u
    <2>5. /\ job'[w] = j /\ \A v \in Worker : v # w => job'[v] = Idle
          /\ Alone' /\ NoneBegun'
        BY <1>t, <2>1, <2>3, <2>4, StillAlone
    <2>6. JobsCurrent'
        BY <2>2, <2>3, <2>5, CurrentFromOne
    <2>7. LatestKept' /\ Fresh'
        BY <2>3, <2>4 DEF LatestKept, Fresh
    <2> QED BY <2>5, <2>6, <2>7
<1>9. ASSUME NEW w \in Worker, WriteSession(w)
      PROVE  Before'
    <2>1. /\ job[w] # Idle /\ job[w].step = "write" /\ job[w] \in Jobs
          /\ session' = Merged(job[w]) /\ job[w].kind # Shift
          /\ UNCHANGED << runs, shiftRuns, failed, overlapped >>
        BY <1>9, <1>t, JobInProgress, PastChecks DEF WriteSession, At, SaveSession, TypeInv
    <2>2. Before
        BY <2>1, <1>u
    <2>3. job[w].seen = session
        BY <2>1, <2>2 DEF JobsCurrent
    <2>4. job[w].kind = Assessment => session # NoSession /\ job[w].verdict \in Board
        BY <2>1 DEF TypeInv, JobsTyped
    <2>5. session' \in Sessions /\ session' # NoSession
        BY <2>1, <2>3, <2>4, MergedType, MarkerAssumption
    <2>6. Fresh'
        BY <2>5 DEF Fresh
    <2>7. {"insert", "saveVerdict"} \subseteq Steps \ {"write", "overwrite", "createSession"}
        BY DEF Steps
    <2>8. CASE job[w].kind = Assessment
        <3>1. GoTo(w, "saveVerdict") /\ UNCHANGED latest
            BY <1>9, <2>8 DEF WriteSession
        <3>2. Alone' /\ JobsCurrent' /\ NoneBegun'
            BY <1>t, <2>1, <2>2, <2>7, <3>1, GoToCurrent
        <3>3. session'.board = session.board
            BY <2>1, <2>3, <2>4, <2>8, MergedBoard
        <3>4. LatestKept'
            BY <2>2, <2>4, <2>8, <3>1, <3>3 DEF LatestKept
        <3> QED BY <2>6, <3>2, <3>4
    <2>9. CASE job[w].kind # Assessment
        <3>1. GoTo(w, "insert") /\ latest' = [latest EXCEPT ![job[w].kind] = job[w].run]
            BY <1>9, <2>9 DEF WriteSession
        <3>2. Alone' /\ JobsCurrent' /\ NoneBegun'
            BY <1>t, <2>1, <2>2, <2>7, <3>1, GoToCurrent
        <3>3. session'.board =
                [(IF session = NoSession THEN EmptyBoard ELSE session.board)
                    EXCEPT ![job[w].kind] = job[w].run]
            BY <2>1, <2>3, <2>9, MergedBoard
        <3>4. latest = IF session = NoSession THEN EmptyBoard ELSE session.board
            BY <2>2 DEF LatestKept, Fresh
        <3>5. LatestKept'
            BY <3>1, <3>3, <3>4 DEF LatestKept
        <3> QED BY <2>6, <3>2, <3>5
    <2> QED BY <2>8, <2>9
<1>10. ASSUME NEW w \in Worker, InsertFindings(w) \/ SaveVerdict(w)
      PROVE  Before'
    <2>1. /\ job[w] # Idle /\ End(w)
          /\ UNCHANGED << session, runs, latest, failed, overlapped >>
        BY <1>10 DEF InsertFindings, SaveVerdict, At
    <2>2. Before
        BY <2>1, <1>u
    <2>3. Alone' /\ JobsCurrent' /\ NoneBegun'
        BY <1>t, <2>1, <2>2, EndCurrent
    <2>4. LatestKept' /\ Fresh'
        BY <2>1, <2>2 DEF LatestKept, Fresh
    <2> QED BY <2>3, <2>4
<1>11. ASSUME NEW w \in Worker, StatementFails(w) \/ Dies(w)
      PROVE  Before'
    BY <1>11 DEF StatementFails, Dies, Undisturbed
<1>12. ASSUME NEW w \in Worker, OverwriteSession(w)
      PROVE  Before'
    <2>1. /\ job[w] # Idle /\ job[w].step = "overwrite"
          /\ UNCHANGED << failed, overlapped >>
        BY <1>12 DEF OverwriteSession, At
    <2>2. Before
        BY <2>1, <1>u
    <2> QED BY <2>1, <2>2 DEF JobsCurrent
<1>13. CASE RunsOver
    BY <1>13, <1>1 DEF RunsOver
<1> QED
    BY <1>1, <1>2, <1>3, <1>4, <1>5, <1>6, <1>7, <1>8, <1>9, <1>10, <1>11, <1>12,
       <1>13 DEF Next

LEMMA LatestInit == Init => LatestInv
<1> SUFFICES ASSUME Init PROVE LatestInv
    OBVIOUS
<1>1. \A w \in Worker : job[w] = Idle
    BY DEF Init
<1>2. Alone /\ JobsCurrent /\ NoneBegun
    BY <1>1 DEF Alone, JobsCurrent, NoneBegun
<1>3. LatestKept /\ Fresh
    BY DEF Init, LatestKept, Fresh
<1> QED BY <1>2, <1>3 DEF LatestInv

(* While no statement failed and no two modules overlapped, the stored     *)
(* session holds the latest run of every module: update_session_section    *)
(* takes no other section back, and neither do the fallback session of     *)
(* save_finding and the verdict of an assessment.                          *)
THEOREM LatestSectionsKept == Spec => []LatestKeptUndisturbed
<1>1. Init => TypeInv /\ LatestInv
    BY TypeInit, LatestInit
<1>2. TypeInv /\ LatestInv /\ [Next]_vars => TypeInv' /\ LatestInv'
    BY TypeStep, LatestStep
<1>3. LatestInv => LatestKeptUndisturbed
    BY DEF LatestInv, LatestKeptUndisturbed
<1> QED BY <1>1, <1>2, <1>3, PTL DEF Spec

-----------------------------------------------------------------------------
(* The rows: verdicts and findings.                                        *)

(* What a worker in the middle of something knows of the session, while no *)
(* other is; a verdict is about the session as it stands.                  *)
OnBoard(j) ==
    /\ j.step = "createSession" => session = NoSession
    /\ j.step = "write" => j.seen = session
    /\ j.kind = Assessment => j.verdict = session.board
    /\ j.step = "saveVerdict" => verdictRows = {}

VerdictsCurrent ==
    \A v, u \in verdictRows : v = u /\ session # NoSession /\ v.on = session.board

BoardInv ==
    ~overlapped =>
        /\ Alone /\ NoneBegun
        /\ \A w \in Worker : job[w] # Idle => OnBoard(job[w])
        /\ VerdictsCurrent

(* Findings are stored for a session that exists; those of the run that    *)
(* wrote it last are stored or about to be; whatever overlaps.             *)
Storing(j) ==
    /\ j.step \in {"insertEarly", "insert"} => session # NoSession
    /\ j.kind = Shift => j.run \in shiftRuns
    /\ j.step = "overwrite" => failed

Inserting(r) == \E w \in Worker : At(w, "insert") /\ job[w].run = r

FindingsInv ==
    /\ \A w \in Worker : job[w] # Idle => Storing(job[w])
    /\ session = NoSession => rows = {} /\ lastWriter = 0
    /\ ~failed /\ lastWriter # 0 => lastWriter \in rows \/ Inserting(lastWriter)

(* A stored finding is on the board, or its run is about to write.         *)
Listed(i) == \E s \in Section : session.board[s] = i

Pending(i) ==
    \E w \in Worker : job[w] # Idle /\ job[w].run = i /\ job[w].step \in {"read", "write"}

GhostInv ==
    Undisturbed =>
        /\ \A w \in Worker : At(w, "insert") => session.board[job[w].kind] = job[w].run
        /\ \A i \in rows \ shiftRuns : Listed(i) \/ Pending(i)

-----------------------------------------------------------------------------
(* Worker w alone moves, from one step to the next, and stays what it is.  *)
Moves(w, from, to) ==
    /\ job[w] # Idle /\ job[w] \in Jobs /\ job[w].step = from
    /\ \A v \in Worker : v # w => job'[v] = job[v]
    /\ job'[w] # Idle /\ job'[w].step = to
    /\ job'[w].kind = job[w].kind /\ job'[w].run = job[w].run
    /\ job'[w].verdict = job[w].verdict

Ends(w, from) ==
    /\ job[w] # Idle /\ job[w] \in Jobs /\ job[w].step = from
    /\ \A v \in Worker : v # w => job'[v] = job[v]
    /\ job'[w] = Idle

LEMMA GoToMoves ==
    ASSUME TypeOK, NEW w \in Worker, NEW from, At(w, from), NEW to \in Steps, GoTo(w, to)
    PROVE  Moves(w, from, to)
<1>1. job[w] \in Jobs /\ job[w] # Idle /\ job[w].step = from
    BY JobInProgress DEF At
<1> DEFINE j == [job[w] EXCEPT !.step = to]
<1>2. /\ j \in Jobs /\ j.step = to /\ j.kind = job[w].kind /\ j.run = job[w].run
      /\ j.verdict = job[w].verdict
    BY <1>1, JobMoves
<1>3. job' = [job EXCEPT ![w] = j]
    BY DEF GoTo
<1> HIDE DEF j
<1>4. job'[w] = j /\ \A v \in Worker : v # w => job'[v] = job[v]
    BY <1>3 DEF TypeOK
<1> QED
    BY <1>1, <1>2, <1>4, IdleAssumption DEF Moves

LEMMA EndEnds ==
    ASSUME TypeOK, NEW w \in Worker, NEW from, At(w, from), End(w)
    PROVE  Ends(w, from)
BY JobInProgress DEF At, End, Ends, TypeOK

(* The steps of a worker.                                                  *)
LEMMA EnsureMoves ==
    ASSUME TypeOK, NEW w \in Worker, EnsureSession(w)
    PROVE  /\ UNCHANGED << session, rows, verdictRows, runs, past, failed, overlapped >>
           /\ \/ Moves(w, "ensureSession", "createSession") /\ session = NoSession
              \/ Moves(w, "ensureSession", "insertEarly") /\ session # NoSession
<1>1. "createSession" \in Steps /\ "insertEarly" \in Steps
    BY DEF Steps
<1> QED
    BY <1>1, GoToMoves DEF EnsureSession

LEMMA FallbackMoves ==
    ASSUME TypeOK, NEW w \in Worker, CreateFallbackSession(w)
    PROVE  /\ session' = EmptySession /\ rows' = {} /\ verdictRows' = {} /\ lastWriter' = 0
           /\ UNCHANGED << runs, latest, shiftRuns, failed, overlapped >>
           /\ Moves(w, "createSession", "insertEarly")
<1>1. "insertEarly" \in Steps
    BY DEF Steps
<1> QED
    BY <1>1, GoToMoves DEF CreateFallbackSession, SaveSession

LEMMA InsertEarlyMoves ==
    ASSUME TypeOK, NEW w \in Worker, InsertEarlyFinding(w)
    PROVE  /\ rows' = rows \cup {job[w].run}
           /\ UNCHANGED << session, verdictRows, runs, past, failed, overlapped >>
           /\ \/ Ends(w, "insertEarly") /\ job[w].kind = Shift
              \/ Moves(w, "insertEarly", "read")
<1>1. "read" \in Steps
    BY DEF Steps
<1> QED
    BY <1>1, GoToMoves, EndEnds DEF InsertEarlyFinding, ChecksDone

LEMMA ReadMoves ==
    ASSUME TypeOK, NEW w \in Worker, ReadSession(w)
    PROVE  /\ UNCHANGED << session, rows, verdictRows, runs, past, failed, overlapped >>
           /\ Moves(w, "read", "write") /\ job'[w].seen = session
<1>1. job[w] \in Jobs /\ job[w] # Idle /\ job[w].step = "read"
    BY JobInProgress DEF ReadSession, At
<1> DEFINE j == [job[w] EXCEPT !.step = "write", !.seen = session]
<1>2. /\ j \in Jobs /\ j.step = "write" /\ j.kind = job[w].kind /\ j.run = job[w].run
      /\ j.verdict = job[w].verdict /\ j.seen = session
    BY <1>1 DEF Jobs, Steps, TypeOK
<1>3. /\ job' = [job EXCEPT ![w] = j]
      /\ UNCHANGED << session, rows, verdictRows, runs, past, failed, overlapped >>
    BY DEF ReadSession
<1> HIDE DEF j
<1>4. job'[w] = j /\ \A v \in Worker : v # w => job'[v] = job[v]
    BY <1>3 DEF TypeOK
<1> QED
    BY <1>1, <1>2, <1>3, <1>4, IdleAssumption DEF Moves

LEMMA WriteMoves ==
    ASSUME TypeOK, NEW w \in Worker, WriteSession(w)
    PROVE  /\ session' = Merged(job[w]) /\ rows' = {} /\ verdictRows' = {}
           /\ UNCHANGED << runs, shiftRuns, failed, overlapped >>
           /\ \/ /\ job[w].kind = Assessment /\ lastWriter' = 0
                 /\ Moves(w, "write", "saveVerdict")
              \/ /\ job[w].kind # Assessment /\ lastWriter' = job[w].run
                 /\ Moves(w, "write", "insert")
<1>1. "saveVerdict" \in Steps /\ "insert" \in Steps
    BY DEF Steps
<1> QED
    BY <1>1, GoToMoves DEF WriteSession, SaveSession

LEMMA OverwriteMoves ==
    ASSUME TypeOK, NEW w \in Worker, OverwriteSession(w)
    PROVE  /\ rows' = {} /\ verdictRows' = {}
           /\ UNCHANGED << runs, shiftRuns, failed, overlapped >>
           /\ \/ /\ job[w].kind = Assessment
                 /\ session' = [board |-> job[w].verdict, verdict |-> job[w].verdict]
                 /\ Moves(w, "overwrite", "saveVerdict")
              \/ /\ job[w].kind # Assessment
                 /\ session' = SoleSection(job[w])
                 /\ Ends(w, "overwrite")
<1>1. "saveVerdict" \in Steps
    BY DEF Steps
<1> QED
    BY <1>1, GoToMoves, EndEnds DEF OverwriteSession, SaveSession

LEMMA FailureMoves ==
    ASSUME TypeOK, NEW w \in Worker, StatementFails(w) \/ Dies(w)
    PROVE  /\ UNCHANGED << session, rows, verdictRows, runs, past, overlapped >>
           /\ failed'
           /\ \E from : \/ Ends(w, from)
                        \/ Moves(w, from, "read")
                        \/ Moves(w, from, "overwrite")
<1>1. /\ At(w, job[w].step)
      /\ End(w) \/ GoTo(w, "read") \/ GoTo(w, "overwrite")
      /\ UNCHANGED << session, rows, verdictRows, runs, past, overlapped >>
      /\ failed'
    BY DEF StatementFails, Dies, ChecksDone, At
<1>2. "read" \in Steps /\ "overwrite" \in Steps
    BY DEF Steps
<1> QED
    BY <1>1, <1>2, GoToMoves, EndEnds

(* A module or an assessment begins.                                       *)
LEMMA ModuleBegins ==
    ASSUME TypeOK, NEW w \in Worker, NEW s \in Section \cup {Shift}, StartModule(w, s)
    PROVE  /\ UNCHANGED << session, rows, verdictRows, latest, lastWriter, failed >>
           /\ job'[w] # Idle /\ job'[w].kind = s /\ s # Assessment
           /\ job'[w].step \in {"ensureSession", "read"}
           /\ s = Shift => job'[w].run \in shiftRuns'
           /\ shiftRuns \subseteq shiftRuns'
           /\ \A v \in Worker : v # w => job'[v] = job[v]
           /\ \E j \in Jobs : Begin(w, j) /\ j.step \in {"ensureSession", "read"}
<1> DEFINE step == IF s \in {"dataset", Shift} THEN "ensureSession" ELSE "read"
           j == [kind |-> s, run |-> runs + 1, seen |-> NoSession,
                 verdict |-> NoVerdict, step |-> step]
<1>1. j \in Jobs /\ j.step \in {"ensureSession", "read"} /\ j.kind = s /\ j.run = runs + 1
    BY DEF Jobs, Steps, TypeOK
<1>2. /\ Begin(w, j) /\ shiftRuns' = shiftRuns \cup { r \in {runs + 1} : s = Shift }
      /\ UNCHANGED << session, rows, verdictRows, latest, lastWriter, failed >>
    BY DEF StartModule
<1> HIDE DEF j
<1>3. job'[w] = j /\ \A v \in Worker : v # w => job'[v] = job[v]
    BY <1>2 DEF Begin, TypeOK
<1>4. s = Shift => runs + 1 \in shiftRuns'
    BY <1>2, Zenon
<1>5. shiftRuns \subseteq shiftRuns'
    BY <1>2, Zenon
<1> QED
    BY <1>1, <1>2, <1>3, <1>4, <1>5, IdleAssumption, AssessmentIsNoModule

LEMMA AssessmentBegins ==
    ASSUME TypeOK, NEW w \in Worker, StartAssessment(w)
    PROVE  /\ UNCHANGED << session, rows, verdictRows, past, failed >>
           /\ job'[w] # Idle /\ job'[w].kind = Assessment /\ job'[w].step = "read"
           /\ job'[w].verdict = session.board /\ session # NoSession
           /\ \A v \in Worker : v # w => job'[v] = job[v]
           /\ \E j \in Jobs : Begin(w, j) /\ j.step \in {"ensureSession", "read"}
<1> DEFINE j == [kind |-> Assessment, run |-> runs + 1, seen |-> NoSession,
                 verdict |-> session.board, step |-> "read"]
<1>1. session.board \in Board /\ session # NoSession
    BY DEF StartAssessment, TypeOK, Sessions
<1>2. j \in Jobs /\ j.step = "read" /\ j.kind = Assessment /\ j.verdict = session.board
    BY <1>1 DEF Jobs, Steps, TypeOK
<1>3. Begin(w, j) /\ UNCHANGED << session, rows, verdictRows, past, failed >>
    BY DEF StartAssessment
<1> HIDE DEF j
<1>4. job'[w] = j /\ \A v \in Worker : v # w => job'[v] = job[v]
    BY <1>3 DEF Begin, TypeOK
<1> QED
    BY <1>1, <1>2, <1>3, <1>4, IdleAssumption

-----------------------------------------------------------------------------
(* A verdict in the table is about the session as it is stored.            *)

(* A step of the one busy worker: what is left to show is what this worker *)
(* knows afterwards.                                                       *)
LEMMA OneMoves ==
    ASSUME Alone, NoneBegun, NEW w \in Worker, job[w] # Idle, UNCHANGED runs,
           \A v \in Worker : v # w => job'[v] = job[v]
    PROVE  Alone' /\ NoneBegun' /\ \A v \in Worker : v # w => job'[v] = Idle
<1>1. \A v \in Worker : v # w => job'[v] = Idle
    BY DEF Alone
<1>2. Alone'
    BY <1>1 DEF Alone
<1>3. NoneBegun'
    BY DEF NoneBegun
<1> QED
    BY <1>1, <1>2, <1>3

LEMMA BoardFromOne ==
    ASSUME Alone, NoneBegun, NEW w \in Worker, job[w] # Idle, UNCHANGED runs,
           \A v \in Worker : v # w => job'[v] = job[v],
           job'[w] # Idle => OnBoard(job[w])',
           VerdictsCurrent'
    PROVE  BoardInv'
<1>1. Alone' /\ NoneBegun' /\ \A v \in Worker : v # w => job'[v] = Idle
    BY OneMoves
<1>2. \A v \in Worker : job'[v] # Idle => OnBoard(job[v])'
    BY <1>1
<1> QED
    BY <1>1, <1>2 DEF BoardInv

(* What begins when nothing else is busy.                                  *)
LEMMA BoardBegins ==
    ASSUME TypeOK, NEW w \in Worker, NEW j \in Jobs, Begin(w, j), ~overlapped',
           j.step \in {"ensureSession", "read"}
    PROVE  /\ ~overlapped /\ Alone' /\ NoneBegun'
           /\ \A v \in Worker : v # w => job'[v] = Idle
<1>1. ~overlapped /\ Alone' /\ NoneBegun'
    BY BeginCurrent
<1>2. \A v \in Worker : v # w => job'[v] = Idle
    BY DEF Begin, TypeOK
<1> QED
    BY <1>1, <1>2

(* Every step keeps the verdict rows on the stored sections, or overlaps.  *)
LEMMA BoardStep ==
    ASSUME TypeInv, BoardInv, [Next]_vars
    PROVE  BoardInv'
<1> SUFFICES ASSUME ~overlapped' PROVE BoardInv'
    BY DEF BoardInv
<1>t. TypeOK /\ JobsTyped
    BY DEF TypeInv
<1> DEFINE Before == /\ Alone /\ NoneBegun
                     /\ \A w \in Worker : job[w] # Idle => OnBoard(job[w])
                     /\ VerdictsCurrent
<1>b. ~overlapped => Before
    BY DEF BoardInv
<1>1. CASE UNCHANGED vars
    BY <1>1, <1>b DEF vars, BoardInv, Alone, NoneBegun, OnBoard, VerdictsCurrent
<1>2. CASE CreateSession
    <2>1. runs = 0 /\ verdictRows' = {} /\ UNCHANGED << job, runs, overlapped >>
        BY <1>2 DEF CreateSession, SaveSession
    <2>2. \A w \in Worker : job'[w] = Idle
        BY <1>b, <2>1 DEF NoneBegun
    <2> QED
        BY <2>1, <2>2 DEF BoardInv, Alone, NoneBegun, VerdictsCurrent
<1>3. ASSUME NEW w \in Worker, NEW s \in Section \cup {Shift}, StartModule(w, s)
      PROVE  BoardInv'
    <2>1. /\ UNCHANGED << session, verdictRows >>
          /\ job'[w].kind # Assessment /\ job'[w].step \in {"ensureSession", "read"}
          /\ ~overlapped /\ Alone' /\ NoneBegun'
          /\ \A v \in Worker : v # w => job'[v] = Idle
        BY <1>3, <1>t, ModuleBegins, BoardBegins
    <2>2. OnBoard(job[w])'
        BY <2>1 DEF OnBoard
    <2>3. VerdictsCurrent'
        BY <1>b, <2>1 DEF VerdictsCurrent
    <2>4. \A v \in Worker : job'[v] # Idle => OnBoard(job[v])'
        BY <2>1, <2>2
    <2> QED
        BY <2>1, <2>3, <2>4 DEF BoardInv
<1>4. ASSUME NEW w \in Worker, StartAssessment(w)
      PROVE  BoardInv'
    <2>1. /\ UNCHANGED << session, verdictRows >>
          /\ job'[w].verdict = session.board /\ job'[w].step = "read"
          /\ ~overlapped /\ Alone' /\ NoneBegun'
          /\ \A v \in Worker : v # w => job'[v] = Idle
        BY <1>4, <1>t, AssessmentBegins, BoardBegins
    <2>2. OnBoard(job[w])'
        BY <2>1 DEF OnBoard
    <2>3. VerdictsCurrent'
        BY <1>b, <2>1 DEF VerdictsCurrent
    <2>4. \A v \in Worker : job'[v] # Idle => OnBoard(job[v])'
        BY <2>1, <2>2
    <2> QED
        BY <2>1, <2>3, <2>4 DEF BoardInv
<1>5. ASSUME NEW w \in Worker, EnsureSession(w)
      PROVE  BoardInv'
    <2>1. /\ UNCHANGED << session, verdictRows, runs, overlapped >>
          /\ \/ Moves(w, "ensureSession", "createSession") /\ session = NoSession
             \/ Moves(w, "ensureSession", "insertEarly")
        BY <1>5, <1>t, EnsureMoves
    <2>2. OnBoard(job[w])'
        BY <1>b, <2>1 DEF Moves, OnBoard
    <2>3. VerdictsCurrent'
        BY <1>b, <2>1 DEF VerdictsCurrent
    <2> QED
        BY <1>b, <2>1, <2>2, <2>3, BoardFromOne DEF Moves
<1>6. ASSUME NEW w \in Worker, CreateFallbackSession(w)
      PROVE  BoardInv'
    <2>1. /\ verdictRows' = {} /\ UNCHANGED << runs, overlapped >>
          /\ Moves(w, "createSession", "insertEarly")
        BY <1>6, <1>t, FallbackMoves
    <2>2. job[w].kind # Assessment
        BY <1>b, <1>t, <2>1 DEF Moves, OnBoard, JobsTyped
    <2>3. OnBoard(job[w])' /\ VerdictsCurrent'
        BY <2>1, <2>2 DEF Moves, OnBoard, VerdictsCurrent
    <2> QED
        BY <1>b, <2>1, <2>3, BoardFromOne DEF Moves
<1>7. ASSUME NEW w \in Worker, InsertEarlyFinding(w)
      PROVE  BoardInv'
    <2>1. /\ UNCHANGED << session, verdictRows, runs, overlapped >>
          /\ Ends(w, "insertEarly") \/ Moves(w, "insertEarly", "read")
        BY <1>7, <1>t, InsertEarlyMoves
    <2>2. job'[w] # Idle => OnBoard(job[w])'
        BY <1>b, <2>1 DEF Moves, Ends, OnBoard
    <2>3. VerdictsCurrent'
        BY <1>b, <2>1 DEF VerdictsCurrent
    <2> QED
        BY <1>b, <2>1, <2>2, <2>3, BoardFromOne DEF Moves, Ends
<1>8. ASSUME NEW w \in Worker, ReadSession(w)
      PROVE  BoardInv'
    <2>1. /\ UNCHANGED << session, verdictRows, runs, overlapped >>
          /\ Moves(w, "read", "write") /\ job'[w].seen = session
        BY <1>8, <1>t, ReadMoves
    <2>2. OnBoard(job[w])'
        BY <1>b, <2>1 DEF Moves, OnBoard
    <2>3. VerdictsCurrent'
        BY <1>b, <2>1 DEF VerdictsCurrent
    <2> QED
        BY <1>b, <2>1, <2>2, <2>3, BoardFromOne DEF Moves
<1>9. ASSUME NEW w \in Worker, WriteSession(w)
      PROVE  BoardInv'
    <2>1. /\ session' = Merged(job[w]) /\ verdictRows' = {} /\ UNCHANGED << runs, overlapped >>
          /\ \/ job[w].kind = Assessment /\ Moves(w, "write", "saveVerdict")
             \/ job[w].kind # Assessment /\ Moves(w, "write", "insert")
        BY <1>9, <1>t, WriteMoves
    <2>2. /\ job[w] # Idle /\ job[w] \in Jobs /\ job[w].step = "write"
          /\ \A v \in Worker : v # w => job'[v] = job[v]
        BY <2>1 DEF Moves
    <2>3. job[w].kind = Assessment => session'.board = job[w].verdict
        <3>1. job[w].kind = Assessment => job[w].seen # NoSession /\ job[w].kind # Shift
            BY <1>t, <2>2, PastChecks DEF JobsTyped
        <3>2. job[w].kind = Assessment =>
                job[w].seen = session /\ job[w].verdict = session.board
            BY <1>b, <2>1, <2>2 DEF OnBoard
        <3> QED
            BY <2>1, <2>2, <3>1, <3>2, MergedBoard
    <2>4. OnBoard(job[w])'
        BY <2>1, <2>3 DEF Moves, OnBoard
    <2>5. VerdictsCurrent'
        BY <2>1 DEF VerdictsCurrent
    <2> QED
        BY <1>b, <2>1, <2>2, <2>4, <2>5, BoardFromOne
<1>10. ASSUME NEW w \in Worker, InsertFindings(w)
       PROVE  BoardInv'
    <2>1. Ends(w, "insert") /\ UNCHANGED << session, verdictRows, runs, overlapped >>
        BY <1>10, <1>t, EndEnds DEF InsertFindings
    <2>2. VerdictsCurrent'
        BY <1>b, <2>1 DEF VerdictsCurrent
    <2> QED
        BY <1>b, <2>1, <2>2, BoardFromOne DEF Ends
<1>11. ASSUME NEW w \in Worker, SaveVerdict(w)
       PROVE  BoardInv'
    <2>1. /\ Ends(w, "saveVerdict") /\ UNCHANGED << session, runs, overlapped >>
          /\ verdictRows' = verdictRows \cup {[id |-> job[w].run, on |-> job[w].verdict]}
        BY <1>11, <1>t, EndEnds DEF SaveVerdict
    <2>2. session # NoSession /\ job[w].verdict = session.board /\ verdictRows = {}
        BY <1>b, <1>t, <2>1 DEF Ends, OnBoard, JobsTyped
    <2>3. VerdictsCurrent'
        BY <2>1, <2>2 DEF VerdictsCurrent
    <2> QED
        BY <1>b, <2>1, <2>3, BoardFromOne DEF Ends
<1>12. ASSUME NEW w \in Worker, OverwriteSession(w)
       PROVE  BoardInv'
    <2>1. /\ verdictRows' = {} /\ UNCHANGED << runs, overlapped >>
          /\ \/ /\ session' = [board |-> job[w].verdict, verdict |-> job[w].verdict]
                /\ Moves(w, "overwrite", "saveVerdict")
             \/ Ends(w, "overwrite")
        BY <1>12, <1>t, OverwriteMoves
    <2>2. (job'[w] # Idle => OnBoard(job[w])') /\ VerdictsCurrent'
        BY <2>1 DEF Moves, Ends, OnBoard, VerdictsCurrent
    <2> QED
        BY <1>b, <2>1, <2>2, BoardFromOne DEF Moves, Ends
<1>13. ASSUME NEW w \in Worker, StatementFails(w) \/ Dies(w)
       PROVE  BoardInv'
    <2>1. /\ UNCHANGED << session, verdictRows, runs, overlapped >>
          /\ \E from : Ends(w, from) \/ Moves(w, from, "read") \/ Moves(w, from, "overwrite")
        BY <1>13, <1>t, FailureMoves
    <2>2. job'[w] # Idle => OnBoard(job[w])'
        BY <1>b, <2>1 DEF Moves, Ends, OnBoard
    <2>3. VerdictsCurrent'
        BY <1>b, <2>1 DEF VerdictsCurrent
    <2> QED
        BY <1>b, <2>1, <2>2, <2>3, BoardFromOne DEF Moves, Ends
<1>14. CASE RunsOver
    BY <1>14, <1>1 DEF RunsOver
<1> QED
    BY <1>1, <1>2, <1>3, <1>4, <1>5, <1>6, <1>7, <1>8, <1>9, <1>10, <1>11, <1>12,
       <1>13, <1>14 DEF Next

LEMMA BoardInit == Init => BoardInv
BY DEF Init, BoardInv, Alone, NoneBegun, VerdictsCurrent

(* With no two modules at a time, whatever statements fail and whenever    *)
(* the process dies: there is one verdict row at most, and it was computed *)
(* on the sections the session holds.                                      *)
THEOREM VerdictRowsCurrent == Spec => []VerdictRowCurrent
<1>1. Init => TypeInv /\ BoardInv
    BY TypeInit, BoardInit
<1>2. TypeInv /\ BoardInv /\ [Next]_vars => TypeInv' /\ BoardInv'
    BY TypeStep, BoardStep
<1>3. BoardInv => VerdictRowCurrent
    BY DEF BoardInv, VerdictsCurrent, VerdictRowCurrent
<1> QED
    BY <1>1, <1>2, <1>3, PTL DEF Spec

-----------------------------------------------------------------------------
(* The findings of the run that wrote last.                                *)

(* The others go on storing for a session that is there.                   *)
LEMMA StoringKept ==
    ASSUME NEW j, Storing(j), session # NoSession => session' # NoSession,
           shiftRuns \subseteq shiftRuns', failed => failed'
    PROVE  /\ j.step \in {"insertEarly", "insert"} => session' # NoSession
           /\ j.kind = Shift => j.run \in shiftRuns'
           /\ j.step = "overwrite" => failed'
BY DEF Storing

(* What is left to show of a step that worker w takes.                     *)
LEMMA FindingsFromOne ==
    ASSUME FindingsInv, NEW w \in Worker, \A v \in Worker : v # w => job'[v] = job[v],
           session # NoSession => session' # NoSession,
           shiftRuns \subseteq shiftRuns', failed => failed',
           job'[w] # Idle => Storing(job[w])',
           session' = NoSession => rows' = {} /\ lastWriter' = 0,
           ~failed' /\ lastWriter' # 0 => lastWriter' \in rows' \/ Inserting(lastWriter)'
    PROVE  FindingsInv'
<1>1. ASSUME NEW v \in Worker, v # w, job'[v] # Idle PROVE Storing(job[v])'
    <2>1. job'[v] = job[v] /\ Storing(job[v])
        BY <1>1 DEF FindingsInv
    <2> QED
        BY <2>1, StoringKept DEF Storing
<1>2. \A v \in Worker : job'[v] # Idle => Storing(job[v])'
    BY <1>1
<1> QED
    BY <1>2 DEF FindingsInv

(* The run that wrote last stays stored, or about to be, under a step that *)
(* removes no row and is not the end of its own insertion.                 *)
LEMMA WriterKept ==
    ASSUME FindingsInv, NEW w \in Worker, \A v \in Worker : v # w => job'[v] = job[v],
           rows \subseteq rows', lastWriter' = lastWriter, failed' = failed,
           job[w] # Idle => job[w].step # "insert" \/ job[w].run \in rows'
    PROVE  ~failed' /\ lastWriter' # 0 => lastWriter' \in rows' \/ Inserting(lastWriter)'
<1> SUFFICES ASSUME ~failed, lastWriter # 0, lastWriter \notin rows'
             PROVE  Inserting(lastWriter)'
    OBVIOUS
<1>1. PICK u \in Worker : At(u, "insert") /\ job[u].run = lastWriter
    BY DEF FindingsInv, Inserting
<1>2. u # w
    BY <1>1 DEF At
<1> QED
    BY <1>1, <1>2 DEF Inserting, At

(* Every step keeps the last writer's findings in the table or in a call.  *)
LEMMA FindingsStep ==
    ASSUME TypeInv, FindingsInv, [Next]_vars
    PROVE  FindingsInv'
<1>t. TypeOK /\ JobsTyped
    BY DEF TypeInv
<1>s. \A w \in Worker : job[w] # Idle => Storing(job[w])
    BY DEF FindingsInv
<1>1. CASE UNCHANGED vars
    BY <1>1 DEF vars, FindingsInv, Storing, Inserting, At
<1>2. CASE CreateSession
    <2>1. /\ session = NoSession /\ session' = EmptySession /\ rows' = {}
          /\ UNCHANGED << job, past, failed >>
        BY <1>2 DEF CreateSession, SaveSession
    <2>2. session' # NoSession
        BY <2>1, EmptyTypes, MarkerAssumption
    <2>3. \A w \in Worker : job'[w] # Idle => Storing(job[w])'
        BY <1>s, <2>1, <2>2 DEF Storing
    <2>4. lastWriter' = 0
        BY <2>1 DEF FindingsInv
    <2> QED
        BY <2>2, <2>3, <2>4 DEF FindingsInv
<1>3. ASSUME NEW w \in Worker, NEW s \in Section \cup {Shift}, StartModule(w, s)
      PROVE  FindingsInv'
    <2>1. /\ UNCHANGED << session, rows, lastWriter, failed >>
          /\ job'[w].kind = s /\ job'[w].step \in {"ensureSession", "read"}
          /\ s = Shift => job'[w].run \in shiftRuns'
          /\ shiftRuns \subseteq shiftRuns'
          /\ \A v \in Worker : v # w => job'[v] = job[v]
        BY <1>3, <1>t, ModuleBegins
    <2>2. job[w] = Idle
        BY <1>3 DEF StartModule, Begin
    <2>3. Storing(job[w])'
        BY <2>1 DEF Storing
    <2>4. session' = NoSession => rows' = {} /\ lastWriter' = 0
        BY <2>1 DEF FindingsInv
    <2>5. ~failed' /\ lastWriter' # 0 => lastWriter' \in rows' \/ Inserting(lastWriter)'
        BY <2>1, <2>2, WriterKept
    <2> QED
        BY <2>1, <2>3, <2>4, <2>5, FindingsFromOne
<1>4. ASSUME NEW w \in Worker, StartAssessment(w)
      PROVE  FindingsInv'
    <2>1. /\ UNCHANGED << session, rows, past, failed >>
          /\ job'[w].kind = Assessment /\ job'[w].step = "read"
          /\ \A v \in Worker : v # w => job'[v] = job[v]
        BY <1>4, <1>t, AssessmentBegins
    <2>2. job[w] = Idle
        BY <1>4 DEF StartAssessment, Begin
    <2>3. Storing(job[w])'
        BY <2>1 DEF Storing, Assessment, Shift
    <2>4. session' = NoSession => rows' = {} /\ lastWriter' = 0
        BY <2>1 DEF FindingsInv
    <2>5. ~failed' /\ lastWriter' # 0 => lastWriter' \in rows' \/ Inserting(lastWriter)'
        BY <2>1, <2>2, WriterKept
    <2> QED
        BY <2>1, <2>3, <2>4, <2>5, FindingsFromOne
<1>5. ASSUME NEW w \in Worker, EnsureSession(w) \/ ReadSession(w) \/ SaveVerdict(w)
      PROVE  FindingsInv'
    <2>1. /\ UNCHANGED << session, rows, past, failed >>
          /\ \E from \in {"ensureSession", "read", "saveVerdict"} :
               \/ Ends(w, from)
               \/ Moves(w, from, "createSession")
               \/ Moves(w, from, "insertEarly") /\ session # NoSession
               \/ Moves(w, from, "write")
        BY <1>5, <1>t, EnsureMoves, ReadMoves, EndEnds DEF SaveVerdict
    <2>2. /\ \A v \in Worker : v # w => job'[v] = job[v]
          /\ job[w] # Idle /\ job[w].step # "insert"
        BY <2>1 DEF Moves, Ends
    <2>3. job'[w] # Idle => Storing(job[w])'
        BY <1>s, <2>1 DEF Moves, Ends, Storing
    <2>4. session' = NoSession => rows' = {} /\ lastWriter' = 0
        BY <2>1 DEF FindingsInv
    <2>5. ~failed' /\ lastWriter' # 0 => lastWriter' \in rows' \/ Inserting(lastWriter)'
        BY <2>1, <2>2, WriterKept
    <2> QED
        BY <2>1, <2>2, <2>3, <2>4, <2>5, FindingsFromOne
<1>6. ASSUME NEW w \in Worker, CreateFallbackSession(w)
      PROVE  FindingsInv'
    <2>1. /\ session' = EmptySession /\ lastWriter' = 0
          /\ UNCHANGED << shiftRuns, failed >>
          /\ Moves(w, "createSession", "insertEarly")
        BY <1>6, <1>t, FallbackMoves
    <2>2. session' # NoSession
        BY <2>1, EmptyTypes, MarkerAssumption
    <2>3. Storing(job[w])'
        BY <1>s, <2>1, <2>2 DEF Moves, Storing
    <2> QED
        BY <2>1, <2>2, <2>3, FindingsFromOne DEF Moves
<1>7. ASSUME NEW w \in Worker, InsertEarlyFinding(w) \/ InsertFindings(w)
      PROVE  FindingsInv'
    <2>1. /\ rows' = rows \cup {job[w].run} /\ UNCHANGED << session, past, failed >>
          /\ \E from \in {"insertEarly", "insert"} : Ends(w, from) \/ Moves(w, from, "read")
        BY <1>7, <1>t, InsertEarlyMoves, EndEnds DEF InsertFindings
    <2>2. /\ \A v \in Worker : v # w => job'[v] = job[v]
          /\ job[w] # Idle /\ job[w].step \in {"insertEarly", "insert"}
        BY <2>1 DEF Moves, Ends
    <2>3. job'[w] # Idle => Storing(job[w])'
        BY <1>s, <2>1 DEF Moves, Ends, Storing
    <2>4. session' # NoSession
        BY <1>s, <2>1, <2>2 DEF Storing
    <2>5. ~failed' /\ lastWriter' # 0 => lastWriter' \in rows' \/ Inserting(lastWriter)'
        BY <2>1, <2>2, WriterKept
    <2> QED
        BY <2>1, <2>2, <2>3, <2>4, <2>5, FindingsFromOne
<1>8. ASSUME NEW w \in Worker, WriteSession(w)
      PROVE  FindingsInv'
    <2>1. /\ session' = Merged(job[w]) /\ UNCHANGED << shiftRuns, failed >>
          /\ \/ lastWriter' = 0 /\ Moves(w, "write", "saveVerdict")
             \/ lastWriter' = job[w].run /\ Moves(w, "write", "insert")
        BY <1>8, <1>t, WriteMoves
    <2>2. /\ \A v \in Worker : v # w => job'[v] = job[v]
          /\ job[w] # Idle /\ job[w] \in Jobs /\ job[w].step = "write"
        BY <2>1 DEF Moves
    <2>3. session' # NoSession
        <3>1. job[w].kind # Shift
            BY <1>t, <2>2, PastChecks
        <3>2. job[w].kind = Assessment => job[w].seen # NoSession /\ job[w].verdict \in Board
            BY <1>t, <2>2 DEF JobsTyped
        <3> QED
            BY <2>1, <2>2, <3>1, <3>2, MergedType, MarkerAssumption
    <2>4. Storing(job[w])'
        BY <1>s, <2>1, <2>3 DEF Moves, Storing
    <2>5. lastWriter' # 0 => Inserting(lastWriter)'
        BY <2>1 DEF Moves, Inserting, At
    <2> QED
        BY <2>1, <2>2, <2>3, <2>4, <2>5, FindingsFromOne
<1>9. ASSUME NEW w \in Worker, OverwriteSession(w)
      PROVE  FindingsInv'
    <2>1. /\ UNCHANGED << shiftRuns, failed >>
          /\ \/ /\ session' = [board |-> job[w].verdict, verdict |-> job[w].verdict]
                /\ job[w].kind = Assessment
                /\ Moves(w, "overwrite", "saveVerdict")
             \/ /\ job[w].kind # Assessment
                /\ session' = SoleSection(job[w])
                /\ Ends(w, "overwrite")
        BY <1>9, <1>t, OverwriteMoves
    <2>2. /\ \A v \in Worker : v # w => job'[v] = job[v]
          /\ job[w] # Idle /\ job[w] \in Jobs /\ job[w].step = "overwrite"
        BY <2>1 DEF Moves, Ends
    <2>3. session' \in Sessions
        <3>1. job[w].kind = Assessment => job[w].verdict \in Board
            BY <1>t, <2>2 DEF JobsTyped
        <3>2. CASE job[w].kind = Assessment
            BY <2>1, <3>1, <3>2 DEF Sessions
        <3>3. CASE job[w].kind # Assessment
            <4>1. job[w].kind \in Section /\ session' = SoleSection(job[w])
                BY <1>t, <2>1, <2>2, <3>3, PastChecks
            <4> QED
                BY <2>2, <4>1, SoleSectionType
        <3> QED
            BY <3>2, <3>3
    <2>4. session' # NoSession
        BY <2>3, MarkerAssumption
    <2>5. failed'
        BY <1>s, <2>1, <2>2 DEF Storing
    <2>6. job'[w] # Idle => Storing(job[w])'
        BY <1>s, <2>1, <2>5 DEF Moves, Ends, Storing
    <2> QED
        BY <2>1, <2>2, <2>4, <2>5, <2>6, FindingsFromOne
<1>10. ASSUME NEW w \in Worker, StatementFails(w) \/ Dies(w)
       PROVE  FindingsInv'
    <2>1. /\ UNCHANGED << session, rows, past >> /\ failed'
          /\ \E from : Ends(w, from) \/ Moves(w, from, "read") \/ Moves(w, from, "overwrite")
        BY <1>10, <1>t, FailureMoves
    <2>2. \A v \in Worker : v # w => job'[v] = job[v]
        BY <2>1 DEF Moves, Ends
    <2>3. job'[w] # Idle => Storing(job[w])'
        BY <1>s, <2>1 DEF Moves, Ends, Storing
    <2>4. session' = NoSession => rows' = {} /\ lastWriter' = 0
        BY <2>1 DEF FindingsInv
    <2> QED
        BY <2>1, <2>2, <2>3, <2>4, FindingsFromOne
<1>11. CASE RunsOver
    BY <1>11, <1>1 DEF RunsOver
<1> QED
    BY <1>1, <1>2, <1>3, <1>4, <1>5, <1>6, <1>7, <1>8, <1>9, <1>10, <1>11 DEF Next

LEMMA FindingsInit == Init => FindingsInv
BY DEF Init, FindingsInv

(* Whatever overlaps: while no statement failed, the findings of the       *)
(* module that wrote the session last are in the table once all is quiet.  *)
THEOREM LastWritersFindingsStored == Spec => []LastWriterStored
<1>1. Init => TypeInv /\ FindingsInv
    BY TypeInit, FindingsInit
<1>2. TypeInv /\ FindingsInv /\ [Next]_vars => TypeInv' /\ FindingsInv'
    BY TypeStep, FindingsStep
<1>3. FindingsInv => LastWriterStored
    BY DEF FindingsInv, LastWriterStored, Quiet, Inserting, At
<1> QED
    BY <1>1, <1>2, <1>3, PTL DEF Spec

-----------------------------------------------------------------------------
(* No finding comes back.                                                  *)

(* While one worker alone is busy and neither reads nor writes the         *)
(* session, every finding in the table is listed.                          *)
LEMMA AllListed ==
    ASSUME GhostInv, Undisturbed, Alone, NEW w \in Worker, job[w] # Idle,
           job[w].step \notin {"read", "write"}
    PROVE  \A i \in rows \ shiftRuns : Listed(i)
BY DEF GhostInv, Pending, Alone

LEMMA QuietListed ==
    ASSUME GhostInv, Undisturbed, \A v \in Worker : job[v] = Idle
    PROVE  \A i \in rows \ shiftRuns : Listed(i)
BY DEF GhostInv, Pending

(* Every step keeps the rows within the sections listed and the calls in   *)
(* progress, or disturbs the session.                                      *)
LEMMA GhostStep ==
    ASSUME TypeInv, BoardInv, FindingsInv, GhostInv, [Next]_vars
    PROVE  GhostInv'
<1> SUFFICES ASSUME Undisturbed' PROVE GhostInv'
    BY DEF GhostInv
<1>t. TypeOK /\ JobsTyped
    BY DEF TypeInv
<1>f. ~failed' /\ ~overlapped'
    BY DEF Undisturbed
<1>a. ~overlapped => Alone /\ NoneBegun /\ \A w \in Worker : job[w] # Idle => OnBoard(job[w])
    BY DEF BoardInv
<1> DEFINE Inserts(w) == At(w, "insert") => session.board[job[w].kind] = job[w].run
<1>1. CASE UNCHANGED vars
    BY <1>1 DEF vars, GhostInv, Listed, Pending, Undisturbed, At
<1>2. CASE CreateSession
    <2>1. runs = 0 /\ rows' = {} /\ UNCHANGED << job, overlapped >>
        BY <1>2 DEF CreateSession, SaveSession
    <2>2. \A w \in Worker : job'[w] = Idle
        BY <1>a, <1>f, <2>1 DEF NoneBegun
    <2> QED
        BY <2>1, <2>2 DEF GhostInv, At
<1>3. ASSUME NEW w \in Worker,
             \/ StartAssessment(w)
             \/ \E s \in Section \cup {Shift} : StartModule(w, s)
      PROVE  GhostInv'
    <2>1. /\ UNCHANGED << session, rows, failed >> /\ shiftRuns \subseteq shiftRuns'
          /\ job'[w].step \in {"ensureSession", "read"}
          /\ \A v \in Worker : v # w => job'[v] = job[v]
        BY <1>3, <1>t, ModuleBegins, AssessmentBegins
    <2>2. ~overlapped /\ \A v \in Worker : job[v] = Idle
        BY <1>3, <1>f DEF StartAssessment, StartModule, Begin
    <2>3. \A i \in rows \ shiftRuns : Listed(i)
        BY <1>f, <2>1, <2>2, QuietListed DEF Undisturbed
    <2>4. \A i \in rows' \ shiftRuns' : Listed(i)'
        BY <2>1, <2>3 DEF Listed
    <2>5. \A v \in Worker : ~At(v, "insert")'
        BY <2>1, <2>2 DEF At
    <2> QED
        BY <2>4, <2>5 DEF GhostInv
<1>4. ASSUME NEW w \in Worker, EnsureSession(w) \/ SaveVerdict(w)
      PROVE  GhostInv'
    <2>1. /\ UNCHANGED << session, rows, runs, shiftRuns, failed, overlapped >>
          /\ \/ Ends(w, "saveVerdict")
             \/ Moves(w, "ensureSession", "createSession")
             \/ Moves(w, "ensureSession", "insertEarly")
        BY <1>4, <1>t, EnsureMoves, EndEnds DEF SaveVerdict
    <2>2. /\ job[w] # Idle /\ job[w].step \notin {"read", "write"}
          /\ \A v \in Worker : v # w => job'[v] = job[v]
        BY <2>1 DEF Moves, Ends
    <2>3. \A i \in rows \ shiftRuns : Listed(i)
        BY <1>a, <1>f, <2>1, <2>2, AllListed DEF Undisturbed
    <2>4. \A i \in rows' \ shiftRuns' : Listed(i)'
        BY <2>1, <2>3 DEF Listed
    <2>5. \A v \in Worker : v # w => job'[v] = Idle
        BY <1>a, <1>f, <2>1, <2>2, OneMoves
    <2>6. \A v \in Worker : ~At(v, "insert")'
        BY <2>1, <2>5 DEF At, Moves, Ends
    <2> QED
        BY <2>4, <2>6 DEF GhostInv
<1>5. ASSUME NEW w \in Worker, CreateFallbackSession(w)
      PROVE  GhostInv'
    <2>1. /\ rows' = {} /\ UNCHANGED << runs, overlapped >>
          /\ Moves(w, "createSession", "insertEarly")
        BY <1>5, <1>t, FallbackMoves
    <2>2. \A v \in Worker : v # w => job'[v] = Idle
        BY <1>a, <1>f, <2>1, OneMoves DEF Moves
    <2>3. \A v \in Worker : ~At(v, "insert")'
        BY <2>1, <2>2 DEF At, Moves
    <2> QED
        BY <2>1, <2>3 DEF GhostInv
<1>6. ASSUME NEW w \in Worker, InsertEarlyFinding(w)
      PROVE  GhostInv'
    <2>1. /\ rows' = rows \cup {job[w].run}
          /\ UNCHANGED << session, runs, shiftRuns, failed, overlapped >>
          /\ \/ Ends(w, "insertEarly") /\ job[w].kind = Shift
             \/ Moves(w, "insertEarly", "read")
        BY <1>6, <1>t, InsertEarlyMoves
    <2>2. /\ job[w] # Idle /\ job[w].step = "insertEarly"
          /\ \A v \in Worker : v # w => job'[v] = job[v]
        BY <2>1 DEF Moves, Ends
    <2>3. \A i \in rows \ shiftRuns : Listed(i)
        BY <1>a, <1>f, <2>1, <2>2, AllListed DEF Undisturbed
    <2>4. \A i \in rows \ shiftRuns : Listed(i)'
        BY <2>1, <2>3 DEF Listed
    <2>5. ASSUME NEW i, i = job[w].run PROVE i \in shiftRuns \/ Pending(i)'
        <3>1. CASE job[w].kind = Shift
            BY <2>2, <2>5, <3>1 DEF FindingsInv, Storing
        <3>2. CASE Moves(w, "insertEarly", "read")
            BY <2>5, <3>2 DEF Moves, Pending
        <3> QED
            BY <2>1, <3>1, <3>2
    <2>6. \A v \in Worker : v # w => job'[v] = Idle
        BY <1>a, <1>f, <2>1, <2>2, OneMoves
    <2>7. \A v \in Worker : ~At(v, "insert")'
        BY <2>1, <2>6 DEF At, Moves, Ends
    <2>8. \A i \in rows' \ shiftRuns' : Listed(i)' \/ Pending(i)'
        BY <2>1, <2>4, <2>5
    <2> QED
        BY <2>7, <2>8 DEF GhostInv
<1>7. ASSUME NEW w \in Worker, ReadSession(w)
      PROVE  GhostInv'
    <2>1. /\ UNCHANGED << session, rows, runs, shiftRuns, failed, overlapped >>
          /\ Moves(w, "read", "write")
        BY <1>7, <1>t, ReadMoves
    <2>2. \A v \in Worker : v # w => job'[v] = Idle
        BY <1>a, <1>f, <2>1, OneMoves DEF Moves
    <2>3. ASSUME NEW i, Pending(i) PROVE Pending(i)'
        <3>1. PICK v \in Worker :
                 job[v] # Idle /\ job[v].run = i /\ job[v].step \in {"read", "write"}
            BY <2>3 DEF Pending
        <3>2. job'[v] # Idle /\ job'[v].run = i /\ job'[v].step \in {"read", "write"}
            BY <2>1, <3>1 DEF Moves
        <3> QED
            BY <3>2 DEF Pending
    <2>4. \A i \in rows \ shiftRuns : Listed(i) \/ Pending(i)
        BY <1>f, <2>1 DEF GhostInv, Undisturbed
    <2>5. \A i \in rows' \ shiftRuns' : Listed(i)' \/ Pending(i)'
        BY <2>1, <2>3, <2>4 DEF Listed
    <2>6. \A v \in Worker : ~At(v, "insert")'
        BY <2>1, <2>2 DEF At, Moves
    <2> QED
        BY <2>5, <2>6 DEF GhostInv
<1>8. ASSUME NEW w \in Worker, WriteSession(w)
      PROVE  GhostInv'
    <2>1. /\ session' = Merged(job[w]) /\ rows' = {} /\ UNCHANGED << runs, overlapped >>
          /\ \/ job[w].kind = Assessment /\ Moves(w, "write", "saveVerdict")
             \/ job[w].kind # Assessment /\ Moves(w, "write", "insert")
        BY <1>8, <1>t, WriteMoves
    <2>2. /\ job[w] # Idle /\ job[w] \in Jobs /\ job[w].step = "write"
          /\ \A v \in Worker : v # w => job'[v] = job[v]
        BY <2>1 DEF Moves
    <2>3. \A v \in Worker : v # w => job'[v] = Idle
        BY <1>a, <1>f, <2>1, <2>2, OneMoves
    <2>4. ASSUME job[w].kind # Assessment PROVE session'.board[job[w].kind] = job[w].run
        <3>1. job[w].kind \in Section /\ job[w].kind # Shift
            BY <1>t, <2>2, <2>4, PastChecks
        <3>2. EmptyBoard \in Board /\ (job[w].seen # NoSession => job[w].seen.board \in Board)
            BY <2>2, EmptyTypes DEF Jobs, Sessions
        <3>3. \/ session'.board = [EmptyBoard EXCEPT ![job[w].kind] = job[w].run]
              \/ /\ job[w].seen # NoSession
                 /\ session'.board = [job[w].seen.board EXCEPT ![job[w].kind] = job[w].run]
            BY <2>1, <2>2, <2>4, <3>1, MergedBoard
        <3> QED
            BY <3>1, <3>2, <3>3 DEF Board
    <2>5. ASSUME NEW v \in Worker, At(v, "insert")'
          PROVE  session'.board[job'[v].kind] = job'[v].run
        <3>1. v = w
            BY <2>3, <2>5 DEF At
        <3> QED
            BY <2>1, <2>4, <2>5, <3>1 DEF At, Moves
    <2> QED
        BY <2>1, <2>5 DEF GhostInv
<1>9. ASSUME NEW w \in Worker, InsertFindings(w)
      PROVE  GhostInv'
    <2>1. /\ rows' = rows \cup {job[w].run} /\ At(w, "insert")
          /\ UNCHANGED << session, runs, shiftRuns, failed, overlapped >>
          /\ Ends(w, "insert")
        BY <1>9, <1>t, EndEnds DEF InsertFindings
    <2>2. /\ job[w] # Idle /\ job[w] \in Jobs /\ job[w].step = "insert" /\ job'[w] = Idle
          /\ \A v \in Worker : v # w => job'[v] = job[v]
        BY <2>1 DEF Ends
    <2>3. \A i \in rows \ shiftRuns : Listed(i)
        BY <1>a, <1>f, <2>1, <2>2, AllListed DEF Undisturbed
    <2>4. Listed(job[w].run)
        <3>1. job[w].kind \in Section
            BY <1>t, <2>2, PastChecks DEF JobsTyped
        <3>2. session.board[job[w].kind] = job[w].run
            BY <1>f, <2>1 DEF GhostInv, Undisturbed
        <3> QED
            BY <3>1, <3>2 DEF Listed
    <2>5. \A i \in rows' \ shiftRuns' : Listed(i)'
        BY <2>1, <2>3, <2>4 DEF Listed
    <2>6. \A v \in Worker : v # w => job'[v] = Idle
        BY <1>a, <1>f, <2>1, <2>2, OneMoves
    <2>7. \A v \in Worker : ~At(v, "insert")'
        BY <2>2, <2>6 DEF At
    <2> QED
        BY <2>5, <2>7 DEF GhostInv
<1>10. ASSUME NEW w \in Worker, OverwriteSession(w)
       PROVE  GhostInv'
    <2>1. job[w] # Idle /\ job[w].step = "overwrite" /\ UNCHANGED failed
        BY <1>10 DEF OverwriteSession, At
    <2> QED
        BY <1>f, <2>1 DEF FindingsInv, Storing
<1>11. ASSUME NEW w \in Worker, StatementFails(w) \/ Dies(w)
       PROVE  GhostInv'
    BY <1>f, <1>11 DEF StatementFails, Dies
<1>12. CASE RunsOver
    BY <1>12, <1>1 DEF RunsOver
<1> QED
    BY <1>1, <1>2, <1>3, <1>4, <1>5, <1>6, <1>7, <1>8, <1>9, <1>10, <1>11, <1>12 DEF Next

LEMMA GhostInit == Init => GhostInv
BY DEF Init, GhostInv, At

(* What holds of every state of the session, taken together.               *)
StoreInv == TypeInv /\ BoardInv /\ FindingsInv /\ GhostInv

(* It does hold of every state, whatever fails, dies and overlaps.         *)
THEOREM StoreInvariance == Spec => []StoreInv
<1>1. Init => StoreInv
    BY TypeInit, BoardInit, FindingsInit, GhostInit DEF StoreInv
<1>2. StoreInv /\ [Next]_vars => StoreInv'
    BY TypeStep, BoardStep, FindingsStep, GhostStep DEF StoreInv
<1> QED
    BY <1>1, <1>2, PTL DEF Spec

(* Undisturbed and at rest, the table of findings holds no finding of a    *)
(* run the session does not list, but for the shift module's.              *)
THEOREM NoGhosts == Spec => []NoGhostFindings
<1>1. StoreInv => NoGhostFindings
    <2> SUFFICES ASSUME StoreInv, Quiet, Undisturbed
                 PROVE  \A i \in rows \ shiftRuns : \E s \in Section : session.board[s] = i
        BY DEF NoGhostFindings
    <2> QED
        BY QuietListed DEF StoreInv, Quiet, Listed
<1> QED
    BY <1>1, StoreInvariance, PTL

-----------------------------------------------------------------------------
(* The session implements the board of SessionBoard.                       *)

BoardAction == Implemented!Replace \/ Implemented!Assess \/ Implemented!Disturb

LEMMA StoredType ==
    ASSUME TypeOK
    PROVE  Stored \in Board
BY EmptyTypes DEF Stored, TypeOK, Sessions

(* A disturbance is remembered.                                            *)
LEMMA DisturbanceStays ==
    ASSUME [Next]_vars, Undisturbed'
    PROVE  Undisturbed
<1>1. CASE UNCHANGED << failed, overlapped >>
    BY <1>1 DEF Undisturbed
<1>2. CASE \E w \in Worker : \/ \E s \in Section \cup {Shift} : StartModule(w, s)
                             \/ StartAssessment(w)
    <2>1. UNCHANGED failed /\ ~overlapped' /\ ~failed'
        BY <1>2 DEF StartModule, StartAssessment, Undisturbed
    <2>2. ~overlapped
        BY <1>2, <2>1 DEF StartModule, StartAssessment, Begin
    <2> QED
        BY <2>1, <2>2 DEF Undisturbed
<1>3. CASE \E w \in Worker : StatementFails(w) \/ Dies(w)
    BY <1>3 DEF StatementFails, Dies, Undisturbed
<1> QED
    BY <1>1, <1>2, <1>3
    DEF Next, vars, CreateSession, EnsureSession, CreateFallbackSession, InsertEarlyFinding,
        ReadSession, WriteSession, InsertFindings, SaveVerdict, OverwriteSession, RunsOver

(* A step that leaves the session and the verdicts alone is none of the    *)
(* board's.                                                                *)
LEMMA BoardUntouched ==
    ASSUME Undisturbed, Undisturbed', UNCHANGED << session, verdictRows >>
    PROVE  UNCHANGED << Stored, Verdicts, ~Undisturbed >>
BY DEF Stored, Verdicts

(* A save that keeps the sections withdraws the verdict.                   *)
LEMMA VerdictWithdrawn ==
    ASSUME Undisturbed, Undisturbed', Stored' = Stored, verdictRows' = {}
    PROVE  Implemented!Assess
<1>1. Verdicts' = {}
    BY DEF Verdicts
<1> QED
    BY <1>1 DEF Implemented!Assess

LEMMA WriteIsOnBoard ==
    ASSUME StoreInv, Undisturbed, Undisturbed', NEW w \in Worker, WriteSession(w)
    PROVE  Implemented!Replace \/ Implemented!Assess
<1>t. TypeOK /\ JobsTyped
    BY DEF StoreInv, TypeInv
<1>1. /\ session' = Merged(job[w]) /\ verdictRows' = {}
      /\ job[w] # Idle /\ job[w] \in Jobs /\ job[w].step = "write"
    BY <1>t, WriteMoves DEF Moves
<1>2. /\ job[w].kind # Shift /\ (job[w].kind # Assessment => job[w].kind \in Section)
      /\ job[w].kind = Assessment => job[w].seen # NoSession /\ job[w].verdict \in Board
    BY <1>t, <1>1, PastChecks DEF JobsTyped
<1>3. job[w].seen = session
    BY <1>1 DEF StoreInv, BoardInv, Undisturbed, OnBoard
<1>4. Stored' = Merged(job[w]).board
    BY <1>1, <1>2, MergedType, MarkerAssumption DEF Stored
<1>5. CASE job[w].kind = Assessment
    <2>1. Stored' = Stored
        BY <1>1, <1>2, <1>3, <1>4, <1>5, MergedBoard DEF Stored
    <2> QED
        BY <1>1, <2>1, VerdictWithdrawn
<1>6. CASE job[w].kind # Assessment
    <2>1. Stored' = [Stored EXCEPT ![job[w].kind] = job[w].run]
        BY <1>1, <1>2, <1>3, <1>4, <1>6, MergedBoard DEF Stored
    <2>2. Stored'[job[w].kind] = job[w].run /\ job[w].run \in Nat
        BY <1>t, <1>1, <1>2, <1>6, <2>1, StoredType DEF Board, Jobs
    <2>3. Verdicts' = {}
        BY <1>1 DEF Verdicts
    <2> QED
        BY <1>2, <1>6, <2>1, <2>2, <2>3 DEF Implemented!Replace
<1> QED
    BY <1>5, <1>6

LEMMA VerdictIsOnBoard ==
    ASSUME StoreInv, Undisturbed, Undisturbed', NEW w \in Worker, SaveVerdict(w)
    PROVE  Implemented!Assess
<1>t. TypeOK /\ JobsTyped
    BY DEF StoreInv, TypeInv
<1>1. /\ Ends(w, "saveVerdict") /\ UNCHANGED session
      /\ verdictRows' = verdictRows \cup {[id |-> job[w].run, on |-> job[w].verdict]}
    BY <1>t, EndEnds DEF SaveVerdict
<1>2. session # NoSession /\ job[w].verdict = session.board /\ verdictRows = {}
    BY <1>t, <1>1 DEF StoreInv, BoardInv, Undisturbed, Ends, OnBoard, JobsTyped
<1>3. Stored' = Stored
    BY <1>1 DEF Stored
<1>4. verdictRows' = {[id |-> job[w].run, on |-> Stored]}
    BY <1>1, <1>2 DEF Stored
<1>5. Verdicts' = {Stored}
    BY <1>4 DEF Verdicts
<1> QED
    BY <1>3, <1>5 DEF Implemented!Assess

(* Every statement is a step of the board or a stutter.                    *)
LEMMA BoardImplStep ==
    ASSUME StoreInv, [Next]_vars
    PROVE  [BoardAction]_<< Stored, Verdicts, ~Undisturbed >>
<1>t. TypeOK /\ JobsTyped
    BY DEF StoreInv, TypeInv
<1>1. CASE ~Undisturbed'
    BY <1>1 DEF BoardAction, Implemented!Disturb
<1>2. CASE Undisturbed'
    <2>u. Undisturbed
        BY <1>2, DisturbanceStays
    <2>1. CASE UNCHANGED << session, verdictRows >>
        BY <1>2, <2>u, <2>1, BoardUntouched
    <2>2. CASE CreateSession
        <3>1. session = NoSession /\ session' = EmptySession /\ verdictRows' = {}
            BY <2>2 DEF CreateSession, SaveSession
        <3>2. Stored' = Stored
            BY <3>1, EmptyTypes, MarkerAssumption DEF Stored, EmptySession
        <3> QED
            BY <1>2, <2>u, <3>1, <3>2, VerdictWithdrawn DEF BoardAction
    <2>3. ASSUME NEW w \in Worker, CreateFallbackSession(w)
          PROVE  Implemented!Assess
        <3>1. /\ session' = EmptySession /\ verdictRows' = {}
              /\ job[w] # Idle /\ job[w].step = "createSession"
            BY <1>t, <2>3, FallbackMoves DEF Moves
        <3>2. session = NoSession
            BY <2>u, <3>1 DEF StoreInv, BoardInv, Undisturbed, OnBoard
        <3>3. Stored' = Stored
            BY <3>1, <3>2, EmptyTypes, MarkerAssumption DEF Stored, EmptySession
        <3> QED
            BY <1>2, <2>u, <3>1, <3>3, VerdictWithdrawn
    <2>4. ASSUME NEW w \in Worker, WriteSession(w)
          PROVE  Implemented!Replace \/ Implemented!Assess
        BY <1>2, <2>u, <2>4, WriteIsOnBoard
    <2>5. ASSUME NEW w \in Worker, SaveVerdict(w)
          PROVE  Implemented!Assess
        BY <1>2, <2>u, <2>5, VerdictIsOnBoard
    <2>6. ASSUME NEW w \in Worker, OverwriteSession(w)
          PROVE  FALSE
        <3>1. job[w] # Idle /\ job[w].step = "overwrite"
            BY <2>6 DEF OverwriteSession, At
        <3> QED
            BY <2>u, <3>1 DEF StoreInv, FindingsInv, Storing, Undisturbed
    <2>7. \/ UNCHANGED << session, verdictRows >>
          \/ CreateSession
          \/ \E w \in Worker : \/ CreateFallbackSession(w) \/ WriteSession(w)
                               \/ SaveVerdict(w) \/ OverwriteSession(w)
        BY DEF Next, vars, StartModule, EnsureSession, InsertEarlyFinding, StartAssessment,
               ReadSession, InsertFindings, StatementFails, Dies, RunsOver
    <2> QED
        BY <2>1, <2>2, <2>3, <2>4, <2>5, <2>6, <2>7 DEF BoardAction
<1> QED
    BY <1>1, <1>2

(* An undisturbed session is a board on which a module replaces its own    *)
(* section alone and a verdict is about the sections as they stand: every  *)
(* statement of the catalogue is a step of SessionBoard or no step of it.  *)
THEOREM SessionImplementsBoard == Spec => ImplementsBoard
<1>1. Init => Implemented!Init
    BY DEF Init, Implemented!Init, Stored, EmptyBoard, Verdicts, Undisturbed
<1>2. StoreInv /\ [Next]_vars => [BoardAction]_<< Stored, Verdicts, ~Undisturbed >>
    BY BoardImplStep
<1>3. BoardAction <=> Implemented!Replace \/ Implemented!Assess \/ Implemented!Disturb
    BY DEF BoardAction
<1> QED
    BY <1>1, <1>2, <1>3, StoreInvariance, PTL DEF Spec, ImplementsBoard, Implemented!Spec

=============================================================================
