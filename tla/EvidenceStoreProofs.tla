------------------------ MODULE EvidenceStoreProofs ------------------------
(***************************************************************************)
(* Theorems about EvidenceStore: for any number of processes, its types    *)
(* and the cause of every file without a row; for one process, that what   *)
(* was acknowledged stays, that nobody is accused without a cause, and     *)
(* that the store implements WriteOnceStore.                               *)
(***************************************************************************)
EXTENDS EvidenceStore, TLAPS

Steps == {"recheck", "replace", "digest", "insert", "bind", "unlink", "open"}

(* What the step of a call tells of it.                                    *)
JobShape ==
    \A p \in Process : job[p] # Idle =>
        /\ job[p].op = IF job[p].step = "open" THEN "get" ELSE "save"
        /\ job[p].content # Absent
        /\ job[p].step = "digest" => job[p].item \in Artifact
        /\ job[p].step = "bind" => job[p].item \in Evidence /\ row[job[p].item] # Absent

TypeInv == TypeOK /\ JobShape

LEMMA InProgress ==
    ASSUME TypeOK, NEW p \in Process, job[p] # Idle
    PROVE  job[p] \in Jobs
BY DEF TypeOK

(* A call moves on and stays the call it was.                              *)
LEMMA GoToMoves ==
    ASSUME TypeOK, NEW p \in Process, NEW s \in Steps, job[p] # Idle, GoTo(p, s)
    PROVE  /\ job' \in [Process -> Jobs \cup {Idle}]
           /\ job'[p] # Idle /\ job'[p].step = s
           /\ job'[p].op = job[p].op /\ job'[p].item = job[p].item
           /\ job'[p].content = job[p].content
           /\ job'[p].left = job[p].left /\ job'[p].owner = job[p].owner
           /\ \A q \in Process \ {p} : job'[q] = job[q]
<1>1. job[p] \in Jobs
    BY InProgress
<1> DEFINE j == [job[p] EXCEPT !.step = s]
<1>2. /\ j \in Jobs /\ j.step = s /\ j.op = job[p].op /\ j.item = job[p].item
      /\ j.content = job[p].content /\ j.left = job[p].left /\ j.owner = job[p].owner
    BY <1>1 DEF Jobs, Steps
<1>3. job' = [job EXCEPT ![p] = j] /\ job \in [Process -> Jobs \cup {Idle}]
    BY DEF GoTo, TypeOK
<1> HIDE DEF j
<1>4. job'[p] = j
    BY <1>3
<1>5. j # Idle
    BY <1>2, IdleAssumption
<1> QED
    BY <1>2, <1>3, <1>4, <1>5

LEMMA EndMoves ==
    ASSUME TypeOK, NEW p \in Process, End(p)
    PROVE  /\ job' \in [Process -> Jobs \cup {Idle}]
           /\ job'[p] = Idle
           /\ \A q \in Process \ {p} : job'[q] = job[q]
BY DEF End, TypeOK

(* A call begins.                                                          *)
LEMMA BeginMoves ==
    ASSUME TypeOK, NEW p \in Process, NEW j \in Jobs, job' = [job EXCEPT ![p] = j]
    PROVE  /\ job' \in [Process -> Jobs \cup {Idle}]
           /\ job'[p] = j /\ job'[p] # Idle
           /\ \A q \in Process \ {p} : job'[q] = job[q]
BY IdleAssumption DEF TypeOK

LEMMA SaveJobType ==
    ASSUME NEW i \in Item, NEW c \in Content, NEW o \in Evidence \cup {Absent}
    PROVE  [op |-> "save", item |-> i, content |-> c, owner |-> o,
            left |-> IF i \in Evidence THEN Refs[i] ELSE {}, step |-> "recheck"] \in Jobs
<1>1. (IF i \in Evidence THEN Refs[i] ELSE {}) \in SUBSET Artifact
    BY RefsAssumption
<1> QED
    BY <1>1 DEF Jobs

LEMMA GetJobType ==
    ASSUME TypeOK, NEW e \in Evidence
    PROVE  [op |-> "get", item |-> e, content |-> row[e], owner |-> Absent,
            left |-> Refs[e], step |-> "open"] \in Jobs
<1>1. row[e] \in Content \cup {Absent} /\ Refs[e] \in SUBSET Artifact /\ e \in Item
    BY RefsAssumption DEF TypeOK, Held, Item
<1> QED
    BY <1>1 DEF Jobs

LEMMA InitTypes == Init => TypeInv
BY IdleAssumption DEF Init, TypeInv, TypeOK, JobShape, Held

(* What is written for an item is a content.                               *)
LEMMA WrittenIsTyped ==
    ASSUME TypeInv, NEW p \in Process, job[p] # Idle
    PROVE  /\ job[p].item \in Item
           /\ job[p].content \in Content
           /\ job[p].owner \in Evidence \cup {Absent}
           /\ [item |-> job[p].item, content |-> job[p].content] \in Copies
<1>1. job[p] \in Jobs
    BY InProgress DEF TypeInv
<1>2. job[p].item \in Item /\ job[p].content \in Content /\ job[p].owner \in Evidence \cup {Absent}
    BY <1>1 DEF Jobs, TypeInv, JobShape
<1> QED
    BY <1>2 DEF Copies

LEMMA BeginSaveTypes ==
    ASSUME TypeInv, NEW p \in Process, NEW i \in Item, NEW c \in Content,
           NEW o \in Evidence \cup {Absent}, BeginSave(p, i, c, o)
    PROVE  TypeInv'
<1> DEFINE j == [op |-> "save", item |-> i, content |-> c, owner |-> o,
                 left |-> IF i \in Evidence THEN Refs[i] ELSE {}, step |-> "recheck"]
<1>1. j \in Jobs /\ j.op = "save" /\ j.content = c /\ j.step = "recheck"
    BY SaveJobType
<1>2. job' = [job EXCEPT ![p] = j]
    BY DEF BeginSave
<1> HIDE DEF j
<1>3. /\ job' \in [Process -> Jobs \cup {Idle}] /\ job'[p] = j
      /\ \A q \in Process \ {p} : job'[q] = job[q]
    BY <1>1, <1>2, BeginMoves DEF TypeInv
<1>4. TypeOK'
    BY <1>3 DEF TypeInv, TypeOK, BeginSave, disk, past
<1>5. JobShape'
    BY <1>1, <1>3, ItemAssumption DEF TypeInv, JobShape, BeginSave, disk
<1> QED
    BY <1>4, <1>5 DEF TypeInv

(* Every step of a save, and its failures, keep the types.                 *)
LEMMA SaveTypes ==
    ASSUME TypeInv, NEW p \in Process, Save(p)
    PROVE  TypeInv'
<1>1. CASE SaveEvidence(p) \/ SaveArtifact(p)
    BY <1>1, BeginSaveTypes, OwnerAssumption DEF SaveEvidence, SaveArtifact, Item
<1>2. CASE Recheck(p)
    <2>1. job[p] # Idle
        BY <1>2 DEF Recheck, At
    <2>2. TypeOK'
        BY <1>2, <2>1, EndMoves, GoToMoves DEF TypeInv, TypeOK, Recheck, disk, past, Steps
    <2>3. JobShape'
        BY <1>2, <2>1, EndMoves, GoToMoves DEF TypeInv, JobShape, Recheck, At, disk, Steps
    <2> QED
        BY <2>2, <2>3 DEF TypeInv
<1>3. CASE Replace(p)
    <2>1. job[p] # Idle /\ job[p].step = "replace"
        BY <1>3 DEF Replace, At
    <2> DEFINE next == IF job[p].item \in Artifact THEN "digest" ELSE "insert"
    <2>2. next \in Steps /\ GoTo(p, next)
        BY <1>3 DEF Replace, Steps
    <2>3. TypeOK'
        BY <1>3, <2>1, <2>2, GoToMoves, WrittenIsTyped DEF TypeInv, TypeOK, Replace, past
    <2>4. JobShape'
        BY <1>3, <2>1, <2>2, GoToMoves DEF TypeInv, JobShape, Replace
    <2> QED
        BY <2>3, <2>4 DEF TypeInv
<1>4. CASE Digest(p)
    <2>1. job[p] # Idle /\ job[p].step = "digest" /\ job[p] \in Jobs
        BY <1>4, InProgress DEF Digest, At, TypeInv
    <2>2. CASE file[job[p].item] = Absent
        <3>1. End(p) /\ TypeOK
            BY <1>4, <2>2 DEF Digest, TypeInv
        <3>2. TypeOK'
            BY <1>4, <3>1, EndMoves DEF TypeOK, Digest, disk, past
        <3> QED
            BY <1>4, <3>1, <3>2, EndMoves DEF TypeInv, JobShape, Digest, disk
    <2>3. CASE file[job[p].item] # Absent
        <3> DEFINE c == file[job[p].item]
                   j == [job[p] EXCEPT !.step = "insert", !.content = c]
        <3>1. c \in Content
            BY <2>1, <2>3 DEF TypeInv, TypeOK, Jobs
        <3>2. j \in Jobs /\ j.op = job[p].op /\ j.content = c /\ j.step = "insert"
            BY <2>1, <3>1 DEF Jobs
        <3>3. job' = [job EXCEPT ![p] = j]
            BY <1>4, <2>3 DEF Digest
        <3> HIDE DEF j
        <3>4. /\ job' \in [Process -> Jobs \cup {Idle}] /\ job'[p] = j
              /\ \A q \in Process \ {p} : job'[q] = job[q]
            BY <3>2, <3>3, BeginMoves DEF TypeInv
        <3>5. TypeOK'
            BY <1>4, <3>4 DEF TypeInv, TypeOK, Digest, disk, past
        <3>6. JobShape'
            BY <1>4, <2>1, <2>3, <3>2, <3>4 DEF TypeInv, JobShape, Digest, disk
        <3> QED
            BY <3>5, <3>6 DEF TypeInv
    <2> QED
        BY <2>2, <2>3
<1>5. CASE Insert(p)
    <2>1. job[p] # Idle /\ job[p].step = "insert" /\ TypeOK
        BY <1>5 DEF Insert, At, TypeInv
    <2>2. job[p].content # Absent /\ job[p].op = "save"
        BY <2>1 DEF TypeInv, JobShape
    <2>3. CASE Refusable(job[p])
        <3>1. GoTo(p, "unlink") /\ UNCHANGED << row, link, stored >>
            BY <1>5, <2>3 DEF Insert
        <3>2. TypeOK'
            BY <1>5, <2>1, <3>1, GoToMoves DEF TypeOK, Insert, past, Steps
        <3>3. JobShape'
            BY <2>1, <3>1, GoToMoves DEF TypeInv, JobShape, Steps
        <3> QED
            BY <3>2, <3>3 DEF TypeInv
    <2>4. CASE ~Refusable(job[p]) /\ job[p].item \in Artifact
        <3>1. End(p) /\ row' = [row EXCEPT ![job[p].item] = job[p].content]
            BY <1>5, <2>4 DEF Insert, Return
        <3>2. row' \in Held /\ stored' \subseteq Copies
            BY <1>5, <2>1, <2>4, <3>1, WrittenIsTyped DEF TypeOK, Insert, Return, Held
        <3>3. link' \in [Artifact -> Evidence \cup {Absent}]
            BY <1>5, <2>1, <2>4, WrittenIsTyped DEF TypeOK, Insert
        <3>4. TypeOK'
            BY <1>5, <2>1, <3>1, <3>2, <3>3, EndMoves DEF TypeOK, Insert, past
        <3>5. \A i \in Item : row[i] # Absent => row'[i] # Absent
            BY <2>1, <2>2, <3>1 DEF TypeOK, Held
        <3>6. JobShape'
            BY <2>1, <3>1, <3>5, EndMoves DEF TypeInv, JobShape, Item
        <3> QED
            BY <3>4, <3>6 DEF TypeInv
    <2>5. CASE ~Refusable(job[p]) /\ job[p].item \notin Artifact
        <3>1. /\ GoTo(p, "bind") /\ row' = [row EXCEPT ![job[p].item] = job[p].content]
              /\ UNCHANGED << link, stored >>
            BY <1>5, <2>5 DEF Insert
        <3>2. job[p].item \in Evidence
            BY <2>1, <2>5, WrittenIsTyped DEF Item
        <3>3. TypeOK'
            BY <1>5, <2>1, <3>1, GoToMoves, WrittenIsTyped DEF TypeOK, Insert, past, Held, Steps
        <3>4. /\ row'[job[p].item] # Absent
              /\ \A i \in Item : row[i] # Absent => row'[i] # Absent
            BY <2>1, <2>2, <3>1, WrittenIsTyped DEF TypeOK, Held
        <3>5. JobShape'
            BY <2>1, <2>2, <3>1, <3>2, <3>4, GoToMoves DEF TypeInv, JobShape, Item, Steps
        <3> QED
            BY <3>3, <3>5 DEF TypeInv
    <2> QED
        BY <2>3, <2>4, <2>5
<1>6. CASE Bind(p)
    <2>1. job[p] # Idle /\ job[p].step = "bind" /\ job[p] \in Jobs
        BY <1>6, InProgress DEF Bind, At, TypeInv
    <2>2. PICK a \in job[p].left :
            /\ link' = IF row[a] = Absent THEN link ELSE [link EXCEPT ![a] = job[p].item]
            /\ job' = [job EXCEPT ![p] = [job[p] EXCEPT !.left = job[p].left \ {a}]]
        BY <1>6 DEF Bind
    <2> DEFINE j == [job[p] EXCEPT !.left = job[p].left \ {a}]
    <2>3. /\ j \in Jobs /\ j.op = job[p].op /\ j.item = job[p].item
          /\ j.content = job[p].content /\ j.step = "bind"
        BY <2>1 DEF Jobs
    <2>4. job' = [job EXCEPT ![p] = j]
        BY <2>2
    <2> HIDE DEF j
    <2>5. /\ job' \in [Process -> Jobs \cup {Idle}] /\ job'[p] = j
          /\ \A q \in Process \ {p} : job'[q] = job[q]
        BY <2>3, <2>4, BeginMoves DEF TypeInv
    <2>6. job[p].item \in Evidence
        BY <2>1 DEF TypeInv, JobShape
    <2>7. TypeOK'
        BY <1>6, <2>2, <2>5, <2>6 DEF TypeInv, TypeOK, Bind, past
    <2>8. JobShape'
        BY <1>6, <2>1, <2>3, <2>5 DEF TypeInv, JobShape, Bind
    <2> QED
        BY <2>7, <2>8 DEF TypeInv
<1>7. CASE Finish(p)
    <2>1. job[p] # Idle /\ job[p].item \in Evidence /\ End(p) /\ TypeOK
        BY <1>7 DEF Finish, At, TypeInv, JobShape, Return
    <2>2. TypeOK'
        BY <1>7, <2>1, EndMoves, WrittenIsTyped DEF TypeOK, Finish, Return, disk, past
    <2> QED
        BY <1>7, <2>1, <2>2, EndMoves DEF TypeInv, JobShape, Finish, disk
<1>8. CASE Unlink(p)
    <2>1. job[p] # Idle /\ End(p) /\ TypeOK /\ job[p].item \in Item
        BY <1>8, WrittenIsTyped DEF Unlink, At, TypeInv
    <2>2. file' \in [Item -> Content \cup {Absent}] /\ abandoned' \subseteq Item
        BY <1>8, <2>1 DEF TypeOK, Unlink, LeaveBehind
    <2>3. withdrawn' \subseteq Item \X BOOLEAN
        <3>1. << job[p].item, row[job[p].item] # Absent >> \in Item \X BOOLEAN
            BY <2>1
        <3> QED
            BY <1>8, <2>1, <3>1 DEF TypeOK, Unlink
    <2>4. TypeOK'
        BY <1>8, <2>1, <2>2, <2>3, EndMoves DEF TypeOK, Unlink
    <2> QED
        BY <1>8, <2>1, <2>4, EndMoves DEF TypeInv, JobShape, Unlink
<1>9. CASE StatementFails(p)
    <2>1. job[p] # Idle /\ GoTo(p, "unlink") /\ TypeOK /\ job[p].step \in {"insert", "bind"}
        BY <1>9 DEF StatementFails, At, TypeInv
    <2>2. TypeOK'
        BY <1>9, <2>1, GoToMoves DEF TypeOK, StatementFails, disk, past, Steps
    <2> QED
        BY <1>9, <2>1, <2>2, GoToMoves DEF TypeInv, JobShape, StatementFails, disk, Steps
<1>10. CASE WriteFails(p)
    <2>1. End(p) /\ TypeOK
        BY <1>10 DEF WriteFails, TypeInv
    <2>2. TypeOK'
        BY <1>10, <2>1, EndMoves DEF TypeOK, WriteFails, disk, past
    <2> QED
        BY <1>10, <2>1, <2>2, EndMoves DEF TypeInv, JobShape, WriteFails, disk
<1>11. CASE DigestFails(p)
    <2>1. job[p] # Idle /\ End(p) /\ TypeOK /\ job[p].item \in Item
        BY <1>11, WrittenIsTyped DEF DigestFails, At, TypeInv
    <2>2. abandoned' \subseteq Item
        BY <1>11, <2>1 DEF TypeOK, DigestFails, LeaveBehind
    <2>3. TypeOK'
        BY <1>11, <2>1, <2>2, EndMoves DEF TypeOK, DigestFails, disk
    <2> QED
        BY <1>11, <2>1, <2>3, EndMoves DEF TypeInv, JobShape, DigestFails, disk
<1> QED
    BY <1>1, <1>2, <1>3, <1>4, <1>5, <1>6, <1>7, <1>8, <1>9, <1>10, <1>11 DEF Save

(* Readers, deaths and the outside keep the types.                         *)
LEMMA OtherTypes ==
    ASSUME TypeInv
    PROVE  /\ \A p \in Process :
                (\E e \in Evidence : BeginGet(p, e)) \/ FinishGet(p) \/ Dies(p) => TypeInv'
           /\ Read => TypeInv'
           /\ \A i \in Item, c \in Content \cup {Absent} : Damage(i, c) => TypeInv'
<1>1. ASSUME NEW p \in Process, NEW e \in Evidence, BeginGet(p, e)
      PROVE  TypeInv'
    <2> DEFINE j == [op |-> "get", item |-> e, content |-> row[e], owner |-> Absent,
                     left |-> Refs[e], step |-> "open"]
    <2>1. j \in Jobs /\ j.op = "get" /\ j.content # Absent /\ j.step = "open"
        BY <1>1, GetJobType DEF BeginGet, TypeInv
    <2>2. job' = [job EXCEPT ![p] = j]
        BY <1>1 DEF BeginGet
    <2> HIDE DEF j
    <2>3. /\ job' \in [Process -> Jobs \cup {Idle}] /\ job'[p] = j
          /\ \A q \in Process \ {p} : job'[q] = job[q]
        BY <2>1, <2>2, BeginMoves DEF TypeInv
    <2>4. TypeOK'
        BY <1>1, <2>3 DEF TypeInv, TypeOK, BeginGet, disk, past
    <2> QED
        BY <1>1, <2>1, <2>3, <2>4 DEF TypeInv, JobShape, BeginGet, disk
<1>2. ASSUME NEW p \in Process, FinishGet(p)
      PROVE  TypeInv'
    <2>1. End(p) /\ TypeOK
        BY <1>2 DEF FinishGet, TypeInv
    <2>2. TypeOK'
        BY <1>2, <2>1, EndMoves DEF TypeOK, FinishGet, disk, past
    <2> QED
        BY <1>2, <2>1, <2>2, EndMoves DEF TypeInv, JobShape, FinishGet, disk
<1>3. ASSUME NEW p \in Process, Dies(p)
      PROVE  TypeInv'
    <2>1. End(p) /\ TypeOK /\ job[p].item \in Item
        BY <1>3, WrittenIsTyped DEF Dies, TypeInv
    <2>2. abandoned' \subseteq Item
        BY <1>3, <2>1 DEF TypeOK, Dies, LeaveBehind
    <2>3. TypeOK'
        BY <1>3, <2>1, <2>2, EndMoves DEF TypeOK, Dies, disk
    <2> QED
        BY <1>3, <2>1, <2>3, EndMoves DEF TypeInv, JobShape, Dies, disk
<1>4. ASSUME Read
      PROVE  TypeInv'
    <2>1. UNCHANGED << disk, index, job, stored, damaged, withdrawn, abandoned >>
        BY <1>4 DEF Read, BeginRead, CompareDigest, ReadBytes, BeginCheck, CheckFiles,
                    CheckDisk, past
    <2>2. reader' \in Readers \cup {Idle}
        <3>1. ASSUME NEW a \in Artifact, BeginRead(a)
              PROVE  reader' \in Readers
            BY <3>1 DEF BeginRead, Readers, TypeInv, TypeOK, Item
        <3>2. CASE CompareDigest
            BY <3>2, IdleAssumption DEF CompareDigest, Readers, TypeInv, TypeOK
        <3>3. CASE BeginCheck
            BY <3>3 DEF BeginCheck, Readers, TypeInv, TypeOK
        <3>4. CASE CheckFiles
            BY <3>4 DEF CheckFiles, Readers, TypeInv, TypeOK
        <3>5. CASE ReadBytes \/ CheckDisk
            BY <3>5 DEF ReadBytes, CheckDisk
        <3> QED
            BY <1>4, <3>1, <3>2, <3>3, <3>4, <3>5 DEF Read
    <2>3. given' \subseteq Copies
        <3>1. CASE ReadBytes
            <4>1. reader.item \in Item /\ file[reader.item] \in Content \cup {Absent}
                BY <3>1 DEF ReadBytes, TypeInv, TypeOK, Readers, Item
            <4> QED
                BY <3>1, <4>1 DEF ReadBytes, TypeInv, TypeOK, Copies
        <3>2. CASE ~ReadBytes
            BY <1>4, <3>2 DEF Read, BeginRead, CompareDigest, BeginCheck, CheckFiles,
                              CheckDisk, past, TypeInv, TypeOK
        <3> QED
            BY <3>1, <3>2
    <2>4. TypeOK'
        BY <2>1, <2>2, <2>3 DEF TypeInv, TypeOK, disk
    <2> QED
        BY <2>1, <2>4 DEF TypeInv, JobShape, disk
<1>5. ASSUME NEW i \in Item, NEW c \in Content \cup {Absent}, Damage(i, c)
      PROVE  TypeInv'
    <2>1. TypeOK'
        BY <1>5 DEF TypeInv, TypeOK, Damage
    <2> QED
        BY <1>5, <2>1 DEF TypeInv, JobShape, Damage
<1> QED
    BY <1>1, <1>2, <1>3, <1>4, <1>5

LEMMA NextTypes == TypeInv /\ [Next]_vars => TypeInv'
<1> SUFFICES ASSUME TypeInv, [Next]_vars
             PROVE  TypeInv'
    OBVIOUS
<1>1. CASE UNCHANGED vars
    BY <1>1 DEF TypeInv, TypeOK, JobShape, vars
<1>2. CASE Next
    BY <1>2, SaveTypes, OtherTypes DEF Next
<1> QED
    BY <1>1, <1>2

LEMMA TypesHold == Spec => []TypeInv
BY InitTypes, NextTypes, PTL DEF Spec

(* For any processes, items and failures: files, rows, links and calls     *)
(* keep their types.                                                       *)
THEOREM TypeCorrect == Spec => []TypeOK
<1>1. TypeInv => TypeOK
    BY DEF TypeInv
<1> QED
    BY <1>1, TypesHold, PTL

-----------------------------------------------------------------------------
(* The table is written once whoever writes: the primary key sees to it.   *)
LEMMA RowsStay ==
    ASSUME TypeInv, [Next]_vars
    PROVE  \A i \in Item : row'[i] = row[i] \/ (row[i] = Absent /\ row'[i] \in Content)
<1>1. ASSUME NEW p \in Process, Insert(p)
      PROVE  \A i \in Item : row'[i] = row[i] \/ (row[i] = Absent /\ row'[i] \in Content)
    <2>1. job[p] # Idle /\ job[p].item \in Item /\ job[p].content \in Content
        BY <1>1, WrittenIsTyped DEF Insert, At
    <2> QED
        BY <1>1, <2>1 DEF Insert, Refusable, TypeInv, TypeOK, Held
<1>2. CASE UNCHANGED row
    BY <1>2
<1>3. (\E p \in Process : Insert(p)) \/ UNCHANGED row
    BY DEF Next, vars, Save, SaveEvidence, SaveArtifact, BeginSave, Recheck, Replace, Digest,
           DigestFails, Bind, Finish, Unlink, StatementFails, WriteFails, BeginGet, FinishGet, Dies, Read,
           BeginRead, CompareDigest, ReadBytes, BeginCheck, CheckFiles, CheckDisk, Damage, disk
<1> QED
    BY <1>1, <1>2, <1>3

(* A file without a row belongs to a save that has moved it into place, or *)
(* was left behind.                                                        *)
Placing(i) ==
    \E p \in Process :
        job[p] # Idle /\ job[p].item = i /\ job[p].step \in {"digest", "insert", "unlink"}

OrphanInv == \A i \in Item : file[i] # Absent /\ row[i] = Absent => i \in abandoned \/ Placing(i)

(* A step that leaves files and rows alone and ends no placing save.       *)
LEMMA OrphanUndisturbed ==
    ASSUME OrphanInv, UNCHANGED << file, row >>, abandoned \subseteq abandoned',
           \A p \in Process :
               job[p] # Idle /\ job[p].step \in {"digest", "insert", "unlink"}
               => \/ job'[p] # Idle /\ job'[p].item = job[p].item
                     /\ job'[p].step \in {"digest", "insert", "unlink"}
                  \/ job[p].item \in abandoned' \/ file[job[p].item] = Absent
                  \/ row[job[p].item] # Absent
    PROVE  OrphanInv'
<1> SUFFICES ASSUME NEW i \in Item, file[i] # Absent, row[i] = Absent
             PROVE  i \in abandoned' \/ Placing(i)'
    BY DEF OrphanInv
<1>1. i \in abandoned \/ Placing(i)
    BY DEF OrphanInv
<1> QED
    BY <1>1 DEF Placing

(* A file appears with its save, a row stays, and a save ends with its row, *)
(* with its file removed, or with the name among the abandoned ones.       *)
LEMMA OrphanStep ==
    ASSUME TypeInv, OrphanInv, [Next]_vars
    PROVE  OrphanInv'
<1> USE DEF TypeInv
<1>1. ASSUME NEW p \in Process, job[p] = Idle,
             UNCHANGED << file, row, abandoned >>, \A q \in Process \ {p} : job'[q] = job[q]
      PROVE  OrphanInv'
    BY <1>1, OrphanUndisturbed
<1>2. ASSUME NEW p \in Process, NEW i \in Item, NEW c \in Content,
             NEW o \in Evidence \cup {Absent}, BeginSave(p, i, c, o)
      PROVE  OrphanInv'
    BY <1>1, <1>2 DEF BeginSave, disk, past, TypeOK
<1>3. ASSUME NEW p \in Process, NEW e \in Evidence, BeginGet(p, e)
      PROVE  OrphanInv'
    BY <1>1, <1>3 DEF BeginGet, disk, past, TypeOK
<1>4. ASSUME NEW p \in Process, Recheck(p) \/ WriteFails(p) \/ FinishGet(p) \/ Finish(p)
      PROVE  OrphanInv'
    <2>1. /\ job[p] # Idle /\ job[p].step \notin {"digest", "insert", "unlink"}
          /\ UNCHANGED << file, row, abandoned >>
          /\ \A q \in Process \ {p} : job'[q] = job[q]
        BY <1>4, EndMoves, GoToMoves DEF Recheck, WriteFails, FinishGet, Finish, At, Return,
                                         disk, past, Steps
    <2> QED
        BY <2>1, OrphanUndisturbed
<1>5. ASSUME NEW p \in Process, Replace(p)
      PROVE  OrphanInv'
    <2> DEFINE next == IF job[p].item \in Artifact THEN "digest" ELSE "insert"
    <2>1. job[p] # Idle /\ job[p].item \in Item /\ job[p].step = "replace" /\ GoTo(p, next)
        BY <1>5, WrittenIsTyped DEF Replace, At
    <2>2. /\ job'[p] # Idle /\ job'[p].item = job[p].item /\ job'[p].step = next
          /\ \A q \in Process \ {p} : job'[q] = job[q]
        BY <2>1, GoToMoves DEF Steps
    <2>3. /\ \A i \in Item \ {job[p].item} : file'[i] = file[i]
          /\ UNCHANGED << row, abandoned >>
        BY <1>5 DEF Replace, past, TypeOK
    <2>4. ASSUME NEW i \in Item, i = job[p].item
          PROVE  Placing(i)'
        BY <2>2, <2>4 DEF Placing
    <2>5. ASSUME NEW i \in Item \ {job[p].item}, Placing(i)
          PROVE  Placing(i)'
        BY <2>1, <2>2, <2>5 DEF Placing
    <2> QED
        BY <2>3, <2>4, <2>5 DEF OrphanInv
<1>6. ASSUME NEW p \in Process, Digest(p)
      PROVE  OrphanInv'
    <2>1. CASE file[job[p].item] = Absent
        BY <1>6, <2>1, EndMoves, OrphanUndisturbed DEF Digest, disk, past
    <2>2. CASE file[job[p].item] # Absent
        <3> DEFINE j == [job[p] EXCEPT !.step = "insert", !.content = file[job[p].item]]
        <3>1. job[p] \in Jobs /\ file[job[p].item] \in Content
            BY <1>6, <2>2, InProgress, WrittenIsTyped DEF Digest, At, TypeOK
        <3>2. j \in Jobs /\ j.item = job[p].item /\ j.step = "insert"
            BY <3>1 DEF Jobs
        <3>3. job' = [job EXCEPT ![p] = j]
            BY <1>6, <2>2 DEF Digest
        <3> HIDE DEF j
        <3>4. job'[p] = j /\ j # Idle /\ \A q \in Process \ {p} : job'[q] = job[q]
            BY <3>2, <3>3, BeginMoves, IdleAssumption
        <3> QED
            BY <1>6, <3>2, <3>4, OrphanUndisturbed DEF Digest, disk, past
    <2> QED
        BY <2>1, <2>2
<1>7. ASSUME NEW p \in Process, Insert(p)
      PROVE  OrphanInv'
    <2>1. job[p] # Idle /\ job[p].item \in Item /\ job[p].content # Absent
        BY <1>7, WrittenIsTyped, ItemAssumption DEF Insert, At
    <2>2. CASE Refusable(job[p])
        <3>1. GoTo(p, "unlink") /\ UNCHANGED << file, row, abandoned >>
            BY <1>7, <2>2 DEF Insert, past
        <3> QED
            BY <2>1, <3>1, GoToMoves, OrphanUndisturbed DEF Steps
    <2>3. CASE ~Refusable(job[p])
        <3>1. /\ row' = [row EXCEPT ![job[p].item] = job[p].content]
              /\ UNCHANGED << file, abandoned >>
              /\ End(p) \/ GoTo(p, "bind")
            BY <1>7, <2>3 DEF Insert, Return, past
        <3>2. \A q \in Process \ {p} : job'[q] = job[q]
            BY <2>1, <3>1, EndMoves, GoToMoves DEF Steps
        <3>3. ASSUME NEW i \in Item, row'[i] = Absent
              PROVE  row[i] = Absent /\ i # job[p].item
            BY <2>1, <3>1, <3>3 DEF TypeOK, Held
        <3>4. ASSUME NEW i \in Item, Placing(i), i # job[p].item
              PROVE  Placing(i)'
            BY <3>2, <3>4 DEF Placing
        <3> QED
            BY <3>1, <3>3, <3>4 DEF OrphanInv
    <2> QED
        BY <2>2, <2>3
<1>8. ASSUME NEW p \in Process, Bind(p)
      PROVE  OrphanInv'
    <2>1. /\ job[p] # Idle /\ job[p].step = "bind" /\ UNCHANGED << file, row, abandoned >>
          /\ \A q \in Process \ {p} : job'[q] = job[q]
        BY <1>8 DEF Bind, At, past, TypeOK
    <2> QED
        BY <2>1, OrphanUndisturbed
<1>9. ASSUME NEW p \in Process, Unlink(p)
      PROVE  OrphanInv'
    <2>1. /\ job[p] # Idle /\ job[p].item \in Item /\ job[p].op = "save" /\ UNCHANGED row
          /\ \A q \in Process \ {p} : job'[q] = job[q]
        BY <1>9, WrittenIsTyped, EndMoves DEF Unlink, At, JobShape
    <2>2. CASE file' = [file EXCEPT ![job[p].item] = Absent] /\ UNCHANGED abandoned
        <3>1. /\ file'[job[p].item] = Absent
              /\ \A i \in Item \ {job[p].item} : file'[i] = file[i]
            BY <2>1, <2>2 DEF TypeOK
        <3>2. ASSUME NEW i \in Item, Placing(i), i # job[p].item
              PROVE  Placing(i)'
            BY <2>1, <3>2 DEF Placing
        <3> QED
            BY <2>1, <2>2, <3>1, <3>2 DEF OrphanInv
    <2>3. CASE LeaveBehind(job[p]) /\ UNCHANGED file
        BY <2>1, <2>3, OrphanUndisturbed DEF LeaveBehind
    <2> QED
        BY <1>9, <2>2, <2>3 DEF Unlink
<1>10. ASSUME NEW p \in Process, StatementFails(p)
       PROVE  OrphanInv'
    <2>1. job[p] # Idle /\ GoTo(p, "unlink") /\ UNCHANGED << file, row, abandoned >>
        BY <1>10 DEF StatementFails, At, disk, past
    <2> QED
        BY <2>1, GoToMoves, OrphanUndisturbed DEF Steps
<1>11. ASSUME NEW p \in Process, Dies(p)
       PROVE  OrphanInv'
    <2>1. /\ job[p] # Idle /\ LeaveBehind(job[p]) /\ UNCHANGED << file, row >>
          /\ \A q \in Process \ {p} : job'[q] = job[q]
        BY <1>11, EndMoves DEF Dies, disk
    <2>2. job[p].step # "open" => job[p].op = "save"
        BY <2>1 DEF JobShape
    <2> QED
        BY <2>1, <2>2, OrphanUndisturbed DEF LeaveBehind
<1>12. CASE Read
    BY <1>12, OrphanUndisturbed
       DEF Read, BeginRead, CompareDigest, ReadBytes, BeginCheck, CheckFiles, CheckDisk, disk, past
<1>13. ASSUME NEW i \in Item, NEW c \in Content \cup {Absent}, Damage(i, c)
       PROVE  OrphanInv'
    BY <1>13 DEF Damage, OrphanInv, Placing, TypeOK
<1>14. CASE UNCHANGED vars
    BY <1>14, OrphanUndisturbed DEF vars
<1>i. ASSUME NEW p \in Process, DigestFails(p)
      PROVE  OrphanInv'
    <2>1. /\ job[p] # Idle /\ LeaveBehind(job[p]) /\ UNCHANGED << file, row >>
          /\ \A q \in Process \ {p} : job'[q] = job[q]
        BY <1>i, EndMoves DEF DigestFails, At, disk
    <2>2. job[p].op = "save"
        BY <1>i, <2>1 DEF DigestFails, At, JobShape
    <2> QED
        BY <2>1, <2>2, OrphanUndisturbed DEF LeaveBehind
<1>15. ASSUME NEW p \in Process, Save(p)
       PROVE  OrphanInv'
    <2>1. CASE SaveEvidence(p) \/ SaveArtifact(p)
        BY <1>2, <2>1, OwnerAssumption DEF SaveEvidence, SaveArtifact, Item
    <2> QED
        BY <1>4, <1>5, <1>6, <1>7, <1>8, <1>9, <1>10, <1>15, <1>i, <2>1 DEF Save
<1> QED
    BY <1>3, <1>4, <1>11, <1>12, <1>13, <1>14, <1>15 DEF Next

(* For any processes, items and failures: a file without a row belongs to  *)
(* a save under way, or was left by a dying process, a failed rollback, or *)
(* an artifact's digest that could not be taken.                           *)
THEOREM OrphansHaveACause == Spec => []OrphanHasCause
<1>1. Init => OrphanInv
    BY DEF Init, OrphanInv
<1>2. TypeInv /\ OrphanInv => OrphanHasCause
    BY DEF TypeInv, JobShape, OrphanInv, Placing, OrphanHasCause
<1> QED
    BY <1>1, <1>2, OrphanStep, TypesHold, PTL DEF Spec

-----------------------------------------------------------------------------
(* One process: the lock of the store orders all the saves there are.      *)
SoleProcess == \A p, q \in Process : p = q

Removed(i) == \E had \in BOOLEAN : << i, had >> \in withdrawn

(* A row and its file agree, until the file is changed from outside or     *)
(* removed by a rollback that came after the row.                          *)
RowSound ==
    /\ RowHasFileUnlessUndone
    /\ \A i \in Item : << i, TRUE >> \in withdrawn =>
         row[i] # Absent /\ (i \in damaged \/ file[i] = Absent)

(* The save under way is of an item nobody else has, file first, then row. *)
SaveSound(j) ==
    /\ \A s \in stored : s.item # j.item
    /\ << j.item, TRUE >> \notin withdrawn
    /\ j.step \in {"recheck", "replace", "digest", "insert"} => row[j.item] = Absent
    /\ j.step \in {"recheck", "replace"} => file[j.item] = Absent
    /\ j.step \in {"digest", "insert"} => j.item \in damaged \/ file[j.item] = j.content
    /\ j.step = "bind" => row[j.item] = j.content

JobSound ==
    \A p \in Process : job[p] # Idle =>
        IF job[p].step = "open" THEN row[job[p].item] = job[p].content ELSE SaveSound(job[p])

(* A reader without the lock has a digest that was the file's, and a list  *)
(* of rows that are in the table.                                          *)
ReaderSound ==
    reader # Idle =>
        IF reader.step \in {"files", "disk"}
        THEN \A i \in Item : reader.rows[i] # Absent => row[i] = reader.rows[i]
        ELSE \/ reader.item \in damaged \/ Removed(reader.item)
             \/ file[reader.item] = reader.digest

(* What a reader was given is the row's, or the file's that awaits it.     *)
GivenSound ==
    \A r \in given :
        \/ r.item \in damaged \/ << r.item, FALSE >> \in withdrawn
        \/ row[r.item] = r.content
        \/ row[r.item] = Absent /\ file[r.item] = r.content

SoleInv == StoredIntact /\ RowSound /\ JobSound /\ ReaderSound /\ GivenSound

LEMMA InitSole == Init => SoleInv
BY DEF Init, SoleInv, StoredIntact, RowSound, RowHasFileUnlessUndone, JobSound, ReaderSound,
       GivenSound

(* A step that touches nothing of the store but the call under way.        *)
LEMMA StoreStill ==
    ASSUME SoleInv, UNCHANGED << file, row, reader, stored, given, damaged, withdrawn >>
    PROVE  StoredIntact' /\ RowSound' /\ ReaderSound' /\ GivenSound'
<1>1. StoredIntact' /\ RowSound'
    BY DEF SoleInv, StoredIntact, RowSound, RowHasFileUnlessUndone
<1>2. ReaderSound' /\ GivenSound'
    BY DEF SoleInv, ReaderSound, GivenSound, Removed
<1> QED
    BY <1>1, <1>2

(* It then suffices to look at the one call there is.                      *)
LEMMA OneCall ==
    ASSUME SoleProcess, SoleInv, NEW p \in Process,
           UNCHANGED << file, row, reader, stored, given, damaged, withdrawn >>,
           job'[p] # Idle =>
              IF job'[p].step = "open" THEN row[job'[p].item] = job'[p].content
              ELSE SaveSound(job'[p])
    PROVE  SoleInv'
<1>1. JobSound'
    BY DEF JobSound, SaveSound, SoleProcess
<1> QED
    BY <1>1, StoreStill DEF SoleInv

(* The second look under the lock finds the name free, so nothing that was *)
(* acknowledged is replaced.                                               *)
LEMMA SoleReplace ==
    ASSUME SoleProcess, TypeInv, SoleInv, NEW p \in Process, Replace(p)
    PROVE  SoleInv'
<1> DEFINE i == job[p].item
           next == IF i \in Artifact THEN "digest" ELSE "insert"
<1>1. /\ job[p] # Idle /\ i \in Item /\ job[p].content \in Content
      /\ job[p].step = "replace" /\ GoTo(p, next)
    BY WrittenIsTyped DEF Replace, At
<1>2. SaveSound(job[p])
    BY <1>1 DEF SoleInv, JobSound
<1>3. row[i] = Absent /\ file[i] = Absent /\ \A s \in stored : s.item # i
    BY <1>1, <1>2 DEF SaveSound
<1>4. /\ file'[i] = job[p].content
      /\ \A k \in Item \ {i} : file'[k] = file[k]
      /\ UNCHANGED << row, reader, stored, given, damaged, withdrawn >>
    BY <1>1 DEF Replace, past, TypeInv, TypeOK
<1>5. /\ job'[p] # Idle /\ job'[p].item = i /\ job'[p].step = next
      /\ job'[p].content = job[p].content
    BY <1>1, GoToMoves DEF TypeInv, Steps
<1>6. StoredIntact'
    BY <1>3, <1>4 DEF SoleInv, StoredIntact, TypeInv, TypeOK, Copies
<1>7. RowSound'
    BY <1>3, <1>4 DEF SoleInv, RowSound, RowHasFileUnlessUndone
<1>8. JobSound'
    <2>1. SaveSound(job[p])'
        BY <1>2, <1>3, <1>4, <1>5 DEF SaveSound
    <2> QED
        BY <1>5, <2>1 DEF JobSound, SoleProcess
<1>9. ReaderSound'
    <2>1. CASE reader = Idle \/ reader.step \in {"files", "disk"}
        BY <1>4, <2>1 DEF SoleInv, ReaderSound
    <2>2. CASE reader # Idle /\ reader.step \notin {"files", "disk"}
        <3>1. reader.item \in Item /\ reader.digest # Absent
            BY <2>2, ItemAssumption DEF TypeInv, TypeOK, Readers, Item
        <3> QED
            BY <1>3, <1>4, <2>2, <3>1 DEF SoleInv, ReaderSound, Removed
    <2> QED
        BY <2>1, <2>2
<1>10. GivenSound'
    <2> SUFFICES ASSUME NEW r \in given
                 PROVE  \/ r.item \in damaged \/ << r.item, FALSE >> \in withdrawn
                        \/ row[r.item] = r.content
                        \/ row[r.item] = Absent /\ file'[r.item] = r.content
        BY <1>4 DEF GivenSound
    <2>1. r.item \in Item /\ r.content # Absent
        BY ItemAssumption DEF TypeInv, TypeOK, Copies
    <2> QED
        BY <1>3, <1>4, <2>1 DEF SoleInv, GivenSound
<1> QED
    BY <1>6, <1>7, <1>8, <1>9, <1>10 DEF SoleInv

(* The row is inserted with the content the file was given.                *)
LEMMA SoleInsert ==
    ASSUME SoleProcess, TypeInv, SoleInv, NEW p \in Process, Insert(p)
    PROVE  SoleInv'
<1> DEFINE j == job[p]
<1>1. /\ j # Idle /\ j.item \in Item /\ j.content \in Content /\ j.step = "insert"
      /\ j.content # Absent
    BY WrittenIsTyped, ItemAssumption DEF Insert, At
<1>2. SaveSound(j)
    BY <1>1 DEF SoleInv, JobSound
<1>3. /\ row[j.item] = Absent
      /\ j.item \in damaged \/ file[j.item] = j.content
      /\ \A s \in stored : s.item # j.item
      /\ << j.item, TRUE >> \notin withdrawn
    BY <1>1, <1>2 DEF SaveSound
<1>4. CASE Refusable(j)
    <2>1. /\ GoTo(p, "unlink")
          /\ UNCHANGED << file, row, reader, stored, given, damaged, withdrawn >>
        BY <1>4 DEF Insert, past
    <2>2. job'[p] # Idle /\ job'[p].item = j.item /\ job'[p].step = "unlink"
        BY <1>1, <2>1, GoToMoves DEF TypeInv, Steps
    <2> QED
        BY <1>3, <2>1, <2>2, OneCall DEF SaveSound
<1>5. CASE ~Refusable(j)
    <2>1. /\ row'[j.item] = j.content
          /\ \A k \in Item \ {j.item} : row'[k] = row[k]
          /\ UNCHANGED << file, reader, given, damaged, withdrawn >>
        BY <1>1, <1>5 DEF Insert, past, TypeInv, TypeOK, Held
    <2>2. RowSound'
        BY <1>1, <1>3, <2>1 DEF SoleInv, RowSound, RowHasFileUnlessUndone
    <2>3. ReaderSound'
        BY <1>3, <2>1 DEF SoleInv, ReaderSound, Removed
    <2>4. GivenSound'
        <3> SUFFICES ASSUME NEW r \in given
                     PROVE  \/ r.item \in damaged \/ << r.item, FALSE >> \in withdrawn
                            \/ row'[r.item] = r.content
                            \/ row'[r.item] = Absent /\ file[r.item] = r.content
            BY <2>1 DEF GivenSound
        <3>1. r.item \in Item /\ r.content # Absent
            BY ItemAssumption DEF TypeInv, TypeOK, Copies
        <3> QED
            BY <1>3, <2>1, <3>1 DEF SoleInv, GivenSound
    <2>5. CASE j.item \in Artifact
        <3>1. stored' = stored \cup {[item |-> j.item, content |-> j.content]} /\ End(p)
            BY <1>5, <2>5 DEF Insert, Return
        <3>2. StoredIntact'
            BY <1>3, <2>1, <3>1 DEF SoleInv, StoredIntact, TypeInv, TypeOK, Copies
        <3>3. JobSound'
            BY <3>1, EndMoves DEF JobSound, SoleProcess, TypeInv
        <3> QED
            BY <2>2, <2>3, <2>4, <3>2, <3>3 DEF SoleInv
    <2>6. CASE j.item \notin Artifact
        <3>1. stored' = stored /\ GoTo(p, "bind")
            BY <1>5, <2>6 DEF Insert
        <3>2. StoredIntact'
            BY <1>3, <2>1, <3>1 DEF SoleInv, StoredIntact, TypeInv, TypeOK, Copies
        <3>3. /\ job'[p] # Idle /\ job'[p].item = j.item /\ job'[p].step = "bind"
              /\ job'[p].content = j.content
            BY <1>1, <3>1, GoToMoves DEF TypeInv, Steps
        <3>4. JobSound'
            BY <1>3, <2>1, <3>1, <3>3 DEF JobSound, SaveSound, SoleProcess
        <3> QED
            BY <2>2, <2>3, <2>4, <3>2, <3>4 DEF SoleInv
    <2> QED
        BY <2>5, <2>6
<1> QED
    BY <1>4, <1>5

(* A rollback removes the file its own save wrote.                         *)
LEMMA SoleUnlink ==
    ASSUME SoleProcess, TypeInv, SoleInv, NEW p \in Process, Unlink(p)
    PROVE  SoleInv'
<1> USE DEF TypeInv
<1>1. job[p] # Idle /\ job[p].step = "unlink" /\ End(p)
    BY DEF Unlink, At
<1>i. PICK i \in Item : i = job[p].item
    BY <1>1, WrittenIsTyped
<1>2. SaveSound(job[p])
    BY <1>1 DEF SoleInv, JobSound
<1>3. job'[p] = Idle
    BY <1>1, EndMoves
<1>4. CASE UNCHANGED << file, withdrawn >>
    BY <1>3, <1>4, OneCall DEF Unlink
<1>5. CASE /\ file' = [file EXCEPT ![i] = Absent]
           /\ withdrawn' = withdrawn \cup {<< i, row[i] # Absent >>}
    <2>1. /\ file'[i] = Absent
          /\ \A k \in Item \ {i} : file'[k] = file[k]
          /\ UNCHANGED << row, reader, stored, given, damaged >>
        BY <1>5 DEF Unlink, TypeOK
    <2>2. /\ \A k \in Item : << k, TRUE >> \in withdrawn' <=>
                << k, TRUE >> \in withdrawn \/ (k = i /\ row[i] # Absent)
          /\ \A k \in Item : << k, FALSE >> \in withdrawn' <=>
                << k, FALSE >> \in withdrawn \/ (k = i /\ row[i] = Absent)
        <3>1. (row[i] # Absent) \in BOOLEAN
            OBVIOUS
        <3> QED
            BY <1>5, <3>1
    <2>3. StoredIntact'
        BY <1>2, <1>i, <2>1 DEF SoleInv, StoredIntact, SaveSound, TypeOK, Copies
    <2>4. RowSound'
        BY <2>1, <2>2 DEF SoleInv, RowSound, RowHasFileUnlessUndone
    <2>5. JobSound'
        BY <1>3 DEF JobSound, SoleProcess
    <2>6. ReaderSound'
        <3>1. CASE reader = Idle \/ reader.step \in {"files", "disk"}
            BY <2>1, <3>1 DEF SoleInv, ReaderSound
        <3>2. CASE reader # Idle /\ reader.step \notin {"files", "disk"}
            <4>1. reader.item \in Item
                BY <3>2 DEF TypeOK, Readers, Item
            <4>2. Removed(i)' /\ \A k \in Item : Removed(k) => Removed(k)'
                BY <2>2, <1>5 DEF Removed
            <4> QED
                BY <2>1, <3>2, <4>1, <4>2 DEF SoleInv, ReaderSound
        <3> QED
            BY <3>1, <3>2
    <2>7. GivenSound'
        <3> SUFFICES ASSUME NEW r \in given
                     PROVE  \/ r.item \in damaged \/ << r.item, FALSE >> \in withdrawn'
                            \/ row[r.item] = r.content
                            \/ row[r.item] = Absent /\ file'[r.item] = r.content
            BY <2>1 DEF GivenSound
        <3>1. r.item \in Item
            BY DEF TypeOK, Copies
        <3> QED
            BY <2>1, <2>2, <3>1 DEF SoleInv, GivenSound
    <2> QED
        BY <2>3, <2>4, <2>5, <2>6, <2>7 DEF SoleInv
<1> QED
    BY <1>i, <1>4, <1>5 DEF Unlink

(* The other steps of a save, and its failures.                            *)
LEMMA SoleSave ==
    ASSUME SoleProcess, TypeInv, SoleInv, NEW p \in Process, Save(p)
    PROVE  SoleInv'
<1>1. ASSUME NEW i \in Item, NEW c \in Content, NEW o \in Evidence \cup {Absent},
             BeginSave(p, i, c, o)
      PROVE  SoleInv'
    <2> DEFINE j == [op |-> "save", item |-> i, content |-> c, owner |-> o,
                     left |-> IF i \in Evidence THEN Refs[i] ELSE {}, step |-> "recheck"]
    <2>1. j \in Jobs /\ j.item = i /\ j.step = "recheck"
        BY SaveJobType
    <2>2. /\ job' = [job EXCEPT ![p] = j] /\ row[i] = Absent /\ file[i] = Absent
          /\ UNCHANGED << file, row, reader, stored, given, damaged, withdrawn >>
        BY <1>1 DEF BeginSave, Taken, disk, past
    <2> HIDE DEF j
    <2>3. job'[p] = j
        BY <2>1, <2>2, BeginMoves DEF TypeInv
    <2>4. \A s \in stored : row[s.item] # Absent
        BY ItemAssumption DEF SoleInv, StoredIntact, TypeInv, TypeOK, Copies
    <2>5. (\A s \in stored : s.item # i) /\ << i, TRUE >> \notin withdrawn
        BY <2>2, <2>4 DEF SoleInv, RowSound
    <2> QED
        BY <2>1, <2>2, <2>3, <2>5, OneCall DEF SaveSound
<1>2. CASE Recheck(p)
    <2>1. /\ job[p] # Idle /\ job[p].step = "recheck" /\ (End(p) \/ GoTo(p, "replace"))
          /\ UNCHANGED << file, row, reader, stored, given, damaged, withdrawn >>
        BY <1>2 DEF Recheck, At, disk, past
    <2>2. SaveSound(job[p])
        BY <1>2 DEF SoleInv, JobSound, Recheck, At
    <2>3. CASE End(p)
        BY <2>1, <2>3, EndMoves, OneCall DEF TypeInv
    <2>4. CASE GoTo(p, "replace")
        <3>1. job'[p].item = job[p].item /\ job'[p].step = "replace"
            BY <1>2, <2>4, GoToMoves DEF TypeInv, Steps, Recheck, At
        <3> QED
            BY <1>2, <2>1, <2>2, <3>1, OneCall DEF SaveSound, Recheck, At
    <2> QED
        BY <1>2, <2>3, <2>4 DEF Recheck
<1>3. CASE Digest(p)
    <2>1. /\ job[p] # Idle /\ job[p].step = "digest"
          /\ UNCHANGED << file, row, reader, stored, given, damaged, withdrawn >>
        BY <1>3 DEF Digest, At, disk, past
    <2>2. SaveSound(job[p]) /\ job[p] \in Jobs
        BY <2>1, InProgress DEF SoleInv, JobSound, TypeInv
    <2>3. CASE file[job[p].item] = Absent
        BY <1>3, <2>1, <2>3, EndMoves, OneCall DEF Digest, TypeInv
    <2>4. CASE file[job[p].item] # Absent
        <3> DEFINE j == [job[p] EXCEPT !.step = "insert", !.content = file[job[p].item]]
        <3>1. file[job[p].item] \in Content
            BY <2>1, <2>4, WrittenIsTyped DEF TypeInv, TypeOK
        <3>2. /\ j \in Jobs /\ j.item = job[p].item /\ j.step = "insert"
              /\ j.content = file[job[p].item]
            BY <2>2, <3>1 DEF Jobs
        <3>3. job' = [job EXCEPT ![p] = j]
            BY <1>3, <2>4 DEF Digest
        <3> HIDE DEF j
        <3>4. job'[p] = j
            BY <3>2, <3>3, BeginMoves DEF TypeInv
        <3> QED
            BY <2>1, <2>2, <3>2, <3>4, OneCall DEF SaveSound
    <2> QED
        BY <2>3, <2>4
<1>4. CASE Bind(p)
    <2>1. /\ job[p] # Idle /\ job[p].step = "bind"
          /\ UNCHANGED << file, row, reader, stored, given, damaged, withdrawn >>
        BY <1>4 DEF Bind, At, past
    <2>2. SaveSound(job[p]) /\ job[p] \in Jobs
        BY <2>1, InProgress DEF SoleInv, JobSound, TypeInv
    <2>3. PICK a : job' = [job EXCEPT ![p] = [job[p] EXCEPT !.left = job[p].left \ {a}]]
        BY <1>4 DEF Bind
    <2> DEFINE j == [job[p] EXCEPT !.left = job[p].left \ {a}]
    <2>4. j \in Jobs /\ j.item = job[p].item /\ j.content = job[p].content /\ j.step = "bind"
        BY <2>1, <2>2 DEF Jobs
    <2>5. job' = [job EXCEPT ![p] = j]
        BY <2>3
    <2> HIDE DEF j
    <2>6. job'[p] = j
        BY <2>4, <2>5, BeginMoves DEF TypeInv
    <2> QED
        BY <2>1, <2>2, <2>4, <2>6, OneCall DEF SaveSound
<1>5. CASE Finish(p)
    <2>1. /\ job[p] # Idle /\ job[p].step = "bind" /\ End(p)
          /\ UNCHANGED << file, row, reader, given, damaged, withdrawn >>
          /\ stored' = stored \cup {[item |-> job[p].item, content |-> job[p].content]}
        BY <1>5 DEF Finish, At, Return, disk, past
    <2>2. SaveSound(job[p]) /\ job[p].item \in Item /\ job[p].content # Absent
        BY <2>1, WrittenIsTyped, ItemAssumption DEF SoleInv, JobSound
    <2>i. row[job[p].item] = job[p].content
          /\ (job[p].item \in damaged \/ file[job[p].item] = job[p].content)
        BY <2>1, <2>2 DEF SoleInv, SaveSound, RowSound, RowHasFileUnlessUndone
    <2>3. StoredIntact'
        <3>1. ASSUME NEW s \in stored'
              PROVE  row[s.item] = s.content /\ (s.item \in damaged \/ file[s.item] = s.content)
            BY <2>1, <2>i DEF SoleInv, StoredIntact
        <3> QED
            BY <2>1, <3>1 DEF StoredIntact
    <2>4. RowSound' /\ ReaderSound' /\ GivenSound'
        BY <2>1 DEF SoleInv, RowSound, RowHasFileUnlessUndone, ReaderSound, GivenSound, Removed
    <2>5. JobSound'
        BY <2>1, EndMoves DEF JobSound, SoleProcess, TypeInv
    <2> QED
        BY <2>3, <2>4, <2>5 DEF SoleInv
<1>6. CASE StatementFails(p)
    <2>1. /\ job[p] # Idle /\ job[p].step # "open" /\ GoTo(p, "unlink")
          /\ UNCHANGED << file, row, reader, stored, given, damaged, withdrawn >>
        BY <1>6 DEF StatementFails, At, disk, past
    <2>2. SaveSound(job[p])
        BY <2>1 DEF SoleInv, JobSound
    <2>3. job'[p].item = job[p].item /\ job'[p].step = "unlink"
        BY <2>1, GoToMoves DEF TypeInv, Steps
    <2> QED
        BY <2>1, <2>2, <2>3, OneCall DEF SaveSound
<1>7. CASE WriteFails(p) \/ DigestFails(p)
    <2>1. /\ End(p)
          /\ UNCHANGED << file, row, reader, stored, given, damaged, withdrawn >>
        BY <1>7 DEF WriteFails, DigestFails, disk, past
    <2> QED
        BY <2>1, EndMoves, OneCall DEF TypeInv
<1>8. CASE SaveEvidence(p) \/ SaveArtifact(p)
    BY <1>1, <1>8, OwnerAssumption DEF SaveEvidence, SaveArtifact, Item
<1> QED
    BY <1>2, <1>3, <1>4, <1>5, <1>6, <1>7, <1>8, SoleReplace, SoleInsert, SoleUnlink DEF Save

(* The readers take no lock: what they carry along stays true meanwhile.   *)
LEMMA SoleRead ==
    ASSUME TypeInv, SoleInv, Read
    PROVE  SoleInv'
<1>1. UNCHANGED << disk, index, job, stored, damaged, withdrawn, abandoned >>
    BY DEF Read, BeginRead, CompareDigest, ReadBytes, BeginCheck, CheckFiles, CheckDisk, past
<1>2. StoredIntact' /\ RowSound' /\ JobSound'
    BY <1>1 DEF SoleInv, StoredIntact, RowSound, RowHasFileUnlessUndone, JobSound, SaveSound, disk
<1>3. ReaderSound'
    <2>1. ASSUME NEW a \in Artifact, BeginRead(a)
          PROVE  ReaderSound'
        BY <2>1 DEF BeginRead, ReaderSound, disk, past
    <2>2. CASE CompareDigest
        <3>1. CASE reader' = Idle
            BY <3>1 DEF ReaderSound
        <3>2. CASE reader' = [reader EXCEPT !.step = "bytes"]
            <4>1. reader \in Readers /\ reader.step = "compare"
                BY <2>2 DEF CompareDigest, TypeInv, TypeOK
            <4>2. /\ reader'.item = reader.item /\ reader'.digest = reader.digest
                  /\ reader'.step = "bytes"
                BY <3>2, <4>1 DEF Readers
            <4> QED
                BY <1>1, <2>2, <4>1, <4>2 DEF SoleInv, ReaderSound, Removed, disk, CompareDigest
        <3> QED
            BY <2>2, <3>1, <3>2 DEF CompareDigest
    <2>3. CASE BeginCheck
        BY <1>1, <2>3 DEF BeginCheck, ReaderSound, disk
    <2>4. CASE CheckFiles
        <3>1. reader \in Readers /\ reader.step = "files" /\ reader # Idle
            BY <2>4 DEF CheckFiles, TypeInv, TypeOK
        <3>2. reader'.rows = reader.rows /\ reader'.step = "disk"
            BY <2>4, <3>1 DEF CheckFiles, Readers
        <3> QED
            BY <1>1, <3>1, <3>2 DEF SoleInv, ReaderSound, disk
    <2>5. CASE ReadBytes \/ CheckDisk
        BY <2>5 DEF ReadBytes, CheckDisk, ReaderSound
    <2> QED
        BY <2>1, <2>2, <2>3, <2>4, <2>5 DEF Read
<1>4. GivenSound'
    <2>1. CASE ReadBytes
        <3>1. reader.item \in Item
            BY <2>1 DEF ReadBytes, TypeInv, TypeOK, Readers, Item
        <3>2. given' = given \cup { [item |-> reader.item, content |-> c] :
                                        c \in {file[reader.item]} \ {Absent} }
            BY <2>1 DEF ReadBytes
        <3>3. file[reader.item] # Absent =>
                \/ reader.item \in damaged
                \/ row[reader.item] \in {Absent, file[reader.item]}
            BY <3>1 DEF SoleInv, RowSound, RowHasFileUnlessUndone
        <3>4. ASSUME NEW r \in given'
              PROVE  \/ r.item \in damaged \/ << r.item, FALSE >> \in withdrawn
                     \/ row[r.item] = r.content
                     \/ row[r.item] = Absent /\ file[r.item] = r.content
            <4>1. CASE r \in given
                BY <4>1 DEF SoleInv, GivenSound
            <4>2. CASE r = [item |-> reader.item, content |-> file[reader.item]]
                       /\ file[reader.item] # Absent
                BY <3>3, <4>2
            <4> QED
                BY <3>2, <4>1, <4>2
        <3> QED
            BY <1>1, <3>4 DEF GivenSound, disk
    <2>2. CASE ~ReadBytes
        <3>1. given' = given
            BY <2>2 DEF Read, BeginRead, CompareDigest, BeginCheck, CheckFiles, CheckDisk, past
        <3> QED
            BY <1>1, <3>1 DEF SoleInv, GivenSound, disk
    <2> QED
        BY <2>1, <2>2
<1> QED
    BY <1>2, <1>3, <1>4 DEF SoleInv

LEMMA SoleDamage ==
    ASSUME TypeInv, SoleInv, NEW i \in Item, NEW c \in Content \cup {Absent}, Damage(i, c)
    PROVE  SoleInv'
<1>1. /\ \A k \in Item \ {i} : file'[k] = file[k]
      /\ file[i] # Absent /\ damaged' = damaged \cup {i}
      /\ UNCHANGED << row, job, reader, stored, given, withdrawn >>
    BY DEF Damage, TypeInv, TypeOK
<1>2. StoredIntact'
    BY <1>1 DEF SoleInv, StoredIntact, TypeInv, TypeOK, Copies
<1>3. RowSound'
    BY <1>1 DEF SoleInv, RowSound, RowHasFileUnlessUndone
<1>4. JobSound'
    <2>1. \A p \in Process : job[p] # Idle => job[p].item \in Item
        BY WrittenIsTyped
    <2> QED
        BY <1>1, <2>1 DEF SoleInv, JobSound, SaveSound
<1>5. ReaderSound'
    <2>1. CASE reader = Idle \/ reader.step \in {"files", "disk"}
        BY <1>1, <2>1 DEF SoleInv, ReaderSound
    <2>2. CASE reader # Idle /\ reader.step \notin {"files", "disk"}
        <3>1. reader.item \in Item
            BY <2>2 DEF TypeInv, TypeOK, Readers, Item
        <3> QED
            BY <1>1, <2>2, <3>1 DEF SoleInv, ReaderSound, Removed
    <2> QED
        BY <2>1, <2>2
<1>6. GivenSound'
    BY <1>1 DEF SoleInv, GivenSound, TypeInv, TypeOK, Copies
<1> QED
    BY <1>2, <1>3, <1>4, <1>5, <1>6 DEF SoleInv

(* One process at work: every step keeps files and rows in agreement.      *)
LEMMA SoleStep ==
    ASSUME SoleProcess, TypeInv, SoleInv, [Next]_vars
    PROVE  SoleInv'
<1>1. ASSUME NEW p \in Process, NEW e \in Evidence, BeginGet(p, e)
      PROVE  SoleInv'
    <2> DEFINE j == [op |-> "get", item |-> e, content |-> row[e], owner |-> Absent,
                     left |-> Refs[e], step |-> "open"]
    <2>1. /\ j \in Jobs /\ job' = [job EXCEPT ![p] = j]
          /\ j.item = e /\ j.content = row[e] /\ j.step = "open"
          /\ UNCHANGED << file, row, reader, stored, given, damaged, withdrawn >>
        BY <1>1, GetJobType DEF BeginGet, TypeInv, disk, past
    <2> HIDE DEF j
    <2>2. job'[p] = j
        BY <2>1, BeginMoves DEF TypeInv
    <2> QED
        BY <2>1, <2>2, OneCall
<1>2. ASSUME NEW p \in Process, FinishGet(p) \/ Dies(p)
      PROVE  SoleInv'
    <2>1. End(p) /\ UNCHANGED << file, row, reader, stored, given, damaged, withdrawn >>
        BY <1>2 DEF FinishGet, Dies, disk, past
    <2> QED
        BY <2>1, EndMoves, OneCall DEF TypeInv
<1>3. CASE UNCHANGED vars
    <2>1. JobSound'
        BY <1>3 DEF vars, SoleInv, JobSound, SaveSound
    <2> QED
        BY <1>3, <2>1, StoreStill DEF vars, SoleInv
<1> QED
    BY <1>1, <1>2, <1>3, SoleSave, SoleRead, SoleDamage DEF Next

LEMMA SoleHolds == ASSUME SoleProcess PROVE Spec => []SoleInv
<1>1. TypeInv /\ SoleInv /\ [Next]_vars => SoleInv'
    BY SoleStep
<1> QED
    BY <1>1, InitSole, TypesHold, PTL DEF Spec

(* One process, any items and failures: what a save returned stays in      *)
(* table and file, until the file is changed from outside.                 *)
THEOREM SoleKeepsStored == ASSUME SoleProcess PROVE Spec => []StoredIntact
<1>1. SoleInv => StoredIntact
    BY DEF SoleInv
<1> QED
    BY <1>1, SoleHolds, PTL

(* One process: no row without its file but by a rollback or the outside.  *)
THEOREM SoleRowsHaveFiles == ASSUME SoleProcess PROVE Spec => []RowHasFileUnlessUndone
<1>1. SoleInv => RowHasFileUnlessUndone
    BY DEF SoleInv, RowSound
<1> QED
    BY <1>1, SoleHolds, PTL

(* One process: no reader and no consistency check reports tampering that  *)
(* neither the outside nor a rollback has done, however late it compares,  *)
(* and none misses an artifact that a save has registered.                 *)
THEOREM SoleAccusesNobody == ASSUME SoleProcess PROVE Spec => []NoFalseAccusation
<1>1. TypeInv /\ SoleInv => NoFalseAccusation
    <2> SUFFICES ASSUME TypeInv, SoleInv, NEW i \in Accused
                 PROVE  \/ i \in damaged \/ i \in { w[1] : w \in withdrawn }
                        \/ i \in Artifact /\ row[i] = Absent
        BY DEF NoFalseAccusation
    <2>1. ASSUME Removed(i)
          PROVE  i \in { w[1] : w \in withdrawn }
        BY <2>1 DEF Removed
    <2>2. ASSUME i \in Item, row[i] # Absent, file[i] # row[i]
          PROVE  i \in damaged \/ Removed(i)
        BY <2>2 DEF SoleInv, RowSound, RowHasFileUnlessUndone, Removed
    <2>3. CASE reader # Idle /\ reader.step = "files" /\ i \in MissingOrTampered
        BY <2>1, <2>2, <2>3 DEF MissingOrTampered, SoleInv, ReaderSound
    <2>4. CASE reader # Idle /\ reader.step = "compare" /\ i = reader.item /\ Differs
        <3>1. reader.item \in Item
            BY <2>4 DEF TypeInv, TypeOK, Readers, Item
        <3> QED
            BY <2>1, <2>2, <2>4, <3>1 DEF Differs, SoleInv, ReaderSound
    <2>5. ASSUME NEW p \in Process, At(p, "open"), i \in Altered(job[p])
          PROVE  i \in damaged \/ Removed(i) \/ (i \in Artifact /\ row[i] = Absent)
        <3>1. job[p] \in Jobs /\ job[p].content # Absent /\ row[job[p].item] = job[p].content
            BY <2>5, InProgress DEF At, TypeInv, JobShape, SoleInv, JobSound
        <3> QED
            BY <2>2, <2>5, <3>1 DEF Altered, Jobs, Item
    <2>6. \/ reader # Idle /\ reader.step = "files" /\ i \in MissingOrTampered
          \/ reader # Idle /\ reader.step = "compare" /\ i = reader.item /\ Differs
          \/ \E p \in Process : At(p, "open") /\ i \in Altered(job[p])
        <3>1. CASE i \in UNION { Altered(job[p]) : p \in { q \in Process : At(q, "open") } }
            BY <3>1
        <3>2. CASE i \notin UNION { Altered(job[p]) : p \in { q \in Process : At(q, "open") } }
            BY <3>2 DEF Accused
        <3> QED
            BY <3>1, <3>2
    <2> QED
        BY <2>1, <2>3, <2>4, <2>5, <2>6
<1> QED
    BY <1>1, SoleHolds, TypesHold, PTL

(* One process: a reader is never given other content than is registered,  *)
(* also when it read before the row was written.                           *)
THEOREM SoleReadsAgree == ASSUME SoleProcess PROVE Spec => []ReadsAgree
<1>1. SoleInv => ReadsAgree
    BY DEF SoleInv, GivenSound, ReadsAgree
<1> QED
    BY <1>1, SoleHolds, PTL

(* One process implements the write-once store: no step changes what is    *)
(* published, but to publish an item for the first time.                   *)
LEMMA PublishedIsRegistered ==
    ASSUME TypeInv, SoleInv
    PROVE  Published = row
<1>1. \A i \in Item : Published[i] = row[i]
    BY DEF Published, SoleInv, RowSound, RowHasFileUnlessUndone
<1> QED
    BY <1>1 DEF Published, TypeInv, TypeOK, Held

(* One process: an item is given content once, with its row; whatever fails *)
(* and dies, every step publishes a free name or none (WriteOnceStore).    *)
THEOREM SoleWritesOnce == ASSUME SoleProcess PROVE Spec => WritesOnce
<1>1. Init => Promise!Init
    BY DEF Init, Promise!Init, Published
<1>2. ASSUME TypeInv, TypeInv', SoleInv, SoleInv', [Next]_vars
      PROVE  [Promise!Next]_Published
    <2>1. Published = row /\ Published' = row'
        <3>1. (TypeInv /\ SoleInv)' => (Published = row)'
            BY PublishedIsRegistered, PTL
        <3> QED
            BY <1>2, <3>1, PublishedIsRegistered
    <2>2. CASE \E p \in Process : Insert(p) /\ ~Refusable(job[p])
        <3>1. PICK p \in Process : Insert(p) /\ ~Refusable(job[p])
            BY <2>2
        <3>2. /\ job[p].item \in Item /\ job[p].content \in Content
              /\ row[job[p].item] = Absent
              /\ row' = [row EXCEPT ![job[p].item] = job[p].content]
            BY <1>2, <3>1, WrittenIsTyped DEF Insert, At, Refusable
        <3> QED
            BY <2>1, <3>2 DEF Promise!Next, Promise!Publish
    <2>3. CASE ~\E p \in Process : Insert(p) /\ ~Refusable(job[p])
        <3>1. UNCHANGED row
            BY <1>2, <2>3
               DEF Next, vars, Save, SaveEvidence, SaveArtifact, BeginSave, Recheck, Replace,
                   Digest, DigestFails, Insert, Bind, Finish, Unlink, StatementFails,
                   WriteFails, BeginGet, FinishGet, Dies, Read, BeginRead, CompareDigest, ReadBytes, BeginCheck,
                   CheckFiles, CheckDisk, Damage, disk
        <3> QED
            BY <2>1, <3>1
    <2> QED
        BY <2>2, <2>3
<1> QED
    BY <1>1, <1>2, SoleHolds, TypesHold, PTL DEF Spec, WritesOnce, Promise!Spec

-----------------------------------------------------------------------------
=============================================================================
