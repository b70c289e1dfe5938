---------------------------- MODULE EvidenceStore ----------------------------
(***************************************************************************)
(* The evidence store: evidence/store.py with the tables evidence_records  *)
(* and evidence_artifacts of storage/database.py.                          *)
(*                                                                         *)
(* An item is an evidence record or an artifact of a session.  It is a     *)
(* file, written under a temporary name and moved into place, and then a   *)
(* row with the file's digest; when the row cannot be inserted the file is *)
(* removed again.  The lock of the store orders the calls of one process:  *)
(* a process has one call under way that holds it.  Processes (the API     *)
(* server, the command line) share the files and the database only.        *)
(*                                                                         *)
(* A digest is modelled by the content it is the digest of.  Temporary     *)
(* files are never looked at and are left out, and so are the audit events *)
(* a call ends with.                                                       *)
(***************************************************************************)
CONSTANTS
    Process,
    Evidence, Artifact,  \* evidence ids; artifact paths of a session
    Content,
    Refs,          \* Refs[e]: the artifacts evidence e refers to
    Owner,         \* the evidence_id given with an artifact; Absent: none
    StorageFails,  \* whether a statement of the database may fail
    HostFails,     \* whether a process may die and file operations fail
    Damages,       \* whether files are changed from outside
    Absent, Idle

Item == Evidence \cup Artifact

ASSUME ItemAssumption == Evidence \cap Artifact = {} /\ Absent \notin Item \cup Content
ASSUME RefsAssumption == Refs \in [Evidence -> SUBSET Artifact]
ASSUME OwnerAssumption == Owner \subseteq Evidence \cup {Absent}
ASSUME SwitchAssumption == {StorageFails, HostFails, Damages} \subseteq BOOLEAN

VARIABLES
    file,      \* file[i]: the file of item i, or Absent
    row,       \* row[i]: the digest registered for i, or Absent
    link,      \* link[a]: column evidence_id of artifact a
    index,     \* index[p]: the in-memory index of process p
    job,       \* job[p]: the call of p that holds its lock, or Idle
    reader,    \* a call that takes no lock, or Idle
    stored,    \* the saves that returned
    given,     \* what read_artifact returned
    damaged,   \* the items whose file was changed from outside
    withdrawn, \* the items whose file a rollback removed; whether they had a row
    abandoned  \* the items whose file a call left behind without a row

vars == << file, row, link, index, job, reader, stored, given, damaged, withdrawn, abandoned >>
disk == << file, row, link >>
past == << given, damaged, withdrawn, abandoned >>

Held == [Item -> Content \cup {Absent}]

Copies == [item : Item, content : Content]

Jobs == [op : {"save", "get"}, item : Item, content : Content \cup {Absent},
         owner : Evidence \cup {Absent}, left : SUBSET Artifact,
         step : {"recheck", "replace", "digest", "insert", "bind", "unlink", "open"}]

Readers == [rows : Held, step : {"files", "disk"}]
           \cup [item : Artifact, digest : Content, step : {"compare", "bytes"}]

ASSUME IdleAssumption == Idle \notin Jobs \cup Readers

TypeOK ==
    /\ file \in [Item -> Content \cup {Absent}] /\ row \in Held
    /\ link \in [Artifact -> Evidence \cup {Absent}]
    /\ index \in [Process -> SUBSET Evidence]
    /\ job \in [Process -> Jobs \cup {Idle}]
    /\ reader \in Readers \cup {Idle}
    /\ stored \subseteq Copies /\ given \subseteq Copies
    /\ damaged \subseteq Item /\ abandoned \subseteq Item
    /\ withdrawn \subseteq Item \X BOOLEAN

-----------------------------------------------------------------------------
Init ==
    /\ file = [i \in Item |-> Absent] /\ row = [i \in Item |-> Absent]
    /\ link = [a \in Artifact |-> Absent]
    /\ index = [p \in Process |-> {}]
    /\ job = [p \in Process |-> Idle] /\ reader = Idle
    /\ stored = {} /\ given = {}
    /\ damaged = {} /\ withdrawn = {} /\ abandoned = {}

At(p, step) == job[p] # Idle /\ job[p].step = step

GoTo(p, step) == job' = [job EXCEPT ![p] = [job[p] EXCEPT !.step = step]]

End(p) == job' = [job EXCEPT ![p] = Idle]

(* What a save of i finds taken; the index lists evidence only.            *)
Taken(p, i) == i \in index[p] \/ row[i] # Absent \/ file[i] # Absent

(* Mutant: a save that is refused cleans up, and removes the file in place. *)
BeginSaveCleaning(p, i, c, owner) ==
    /\ job[p] = Idle
    /\ IF Taken(p, i)
       THEN file' = [file EXCEPT ![i] = Absent] /\ UNCHANGED job
       ELSE /\ job' = [job EXCEPT ![p] =
                        [op |-> "save", item |-> i, content |-> c, owner |-> owner,
                         left |-> IF i \in Evidence THEN Refs[i] ELSE {}, step |-> "recheck"]]
            /\ UNCHANGED file
    /\ UNCHANGED << row, link, index, reader, stored, past >>

(* save_evidence, save_artifact: the checks, then the temporary file; what *)
(* is taken is refused as immutable.                                       *)
BeginSave(p, i, c, owner) ==
    /\ job[p] = Idle
    /\ ~Taken(p, i)
    /\ job' = [job EXCEPT ![p] =
                [op |-> "save", item |-> i, content |-> c, owner |-> owner,
                 left |-> IF i \in Evidence THEN Refs[i] ELSE {}, step |-> "recheck"]]
    /\ UNCHANGED << disk, index, reader, stored, past >>

(* Mutant: the row before the file.                                        *)
RecheckRowFirst(p) ==
    /\ At(p, "recheck")
    /\ GoTo(p, "replace")
    /\ row' = [row EXCEPT ![job[p].item] = job[p].content]
    /\ UNCHANGED << file, link, index, reader, stored, past >>

(* The file may have appeared since.                                       *)
Recheck(p) ==
    /\ At(p, "recheck")
    /\ IF file[job[p].item] # Absent THEN End(p) ELSE GoTo(p, "replace")
    /\ UNCHANGED << disk, index, reader, stored, past >>

(* os.replace moves the temporary file over whatever is there.             *)
Replace(p) ==
    /\ At(p, "replace")
    /\ file' = [file EXCEPT ![job[p].item] = job[p].content]
    /\ GoTo(p, IF job[p].item \in Artifact THEN "digest" ELSE "insert")
    /\ UNCHANGED << row, link, index, reader, stored, past >>

(* The digest of an artifact is taken from the file in place, that of a    *)
(* record from the record.                                                 *)
Digest(p) ==
    /\ At(p, "digest")
    /\ IF file[job[p].item] = Absent
       THEN End(p)
       ELSE job' = [job EXCEPT ![p] = [job[p] EXCEPT !.step = "insert",
                                                     !.content = file[job[p].item]]]
    /\ UNCHANGED << disk, index, reader, stored, past >>

Return(p) ==
    /\ stored' = stored \cup {[item |-> job[p].item, content |-> job[p].content]}
    /\ End(p)

(* The primary key refuses a second row, the foreign key an unknown owner. *)
Refusable(j) == row[j.item] # Absent \/ (j.owner # Absent /\ row[j.owner] = Absent)

Insert(p) ==
    LET j == job[p] IN
    /\ At(p, "insert")
    /\ IF Refusable(j)
       THEN GoTo(p, "unlink") /\ UNCHANGED << row, link, stored >>
       ELSE /\ row' = [row EXCEPT ![j.item] = j.content]
            /\ IF j.item \in Artifact
               THEN link' = [link EXCEPT ![j.item] = j.owner] /\ Return(p)
               ELSE GoTo(p, "bind") /\ UNCHANGED << link, stored >>
    /\ UNCHANGED << file, index, reader, past >>

(* bind_artifact_to_evidence, one commit for each artifact.                *)
Bind(p) ==
    /\ At(p, "bind")
    /\ \E a \in job[p].left :
         /\ link' = IF row[a] = Absent THEN link ELSE [link EXCEPT ![a] = job[p].item]
         /\ job' = [job EXCEPT ![p] = [job[p] EXCEPT !.left = job[p].left \ {a}]]
    /\ UNCHANGED << file, row, index, reader, stored, past >>

Finish(p) ==
    /\ At(p, "bind") /\ job[p].left = {}
    /\ index' = [index EXCEPT ![p] = index[p] \cup {job[p].item}]
    /\ Return(p)
    /\ UNCHANGED << disk, reader, past >>

(* Mutant: the file stays when the row cannot be inserted.                 *)
UnlinkNot(p) ==
    /\ At(p, "unlink")
    /\ End(p)
    /\ UNCHANGED << disk, index, reader, stored, past >>

(* A call ends and leaves its file as it is.                               *)
LeaveBehind(j) ==
    abandoned' = abandoned \cup
        { i \in {j.item} : j.op = "save" /\ file[i] # Absent /\ row[i] = Absent }

(* The artifact in place cannot be read or its size not asked for: nothing *)
(* catches that, and the file stays without a row.                         *)
DigestFails(p) ==
    /\ HostFails
    /\ At(p, "digest")
    /\ LeaveBehind(job[p])
    /\ End(p)
    /\ UNCHANGED << disk, index, reader, stored, given, damaged, withdrawn >>

(* The rollback: the file goes, unless the file system refuses.            *)
Unlink(p) ==
    LET i == job[p].item IN
    /\ At(p, "unlink")
    /\ \/ /\ file' = [file EXCEPT ![i] = Absent]
          /\ withdrawn' = withdrawn \cup {<< i, row[i] # Absent >>}
          /\ UNCHANGED abandoned
       \/ HostFails /\ LeaveBehind(job[p]) /\ UNCHANGED << file, withdrawn >>
    /\ End(p)
    /\ UNCHANGED << row, link, index, reader, stored, given, damaged >>

-----------------------------------------------------------------------------
(* Readers.                                                                *)

(* get_evidence holds the lock; it looks for the row, then for the file.   *)
BeginGet(p, e) ==
    /\ job[p] = Idle
    /\ row[e] # Absent
    /\ job' = [job EXCEPT ![p] = [op |-> "get", item |-> e, content |-> row[e],
                                  owner |-> Absent, left |-> Refs[e], step |-> "open"]]
    /\ UNCHANGED << disk, index, reader, stored, past >>

(* What get_evidence finds missing or tampered with: the record, or an     *)
(* artifact it refers to that has no file or another one than its row      *)
(* says.  A reference to a file without a row passes, whatever it holds.   *)
Altered(j) ==
    { i \in {j.item} : file[i] # j.content }
    \cup { a \in j.left : file[a] = Absent \/ row[a] \notin {Absent, file[a]} }

FinishGet(p) ==
    /\ At(p, "open")
    /\ End(p)
    /\ UNCHANGED << disk, index, reader, stored, past >>

(* read_artifact takes no lock: the digest, the row, the bytes.            *)
BeginRead(a) ==
    /\ reader = Idle
    /\ file[a] # Absent
    /\ reader' = [item |-> a, digest |-> file[a], step |-> "compare"]
    /\ UNCHANGED << disk, index, job, stored, past >>

Differs == row[reader.item] \notin {Absent, reader.digest}

CompareDigest ==
    /\ reader # Idle /\ reader.step = "compare"
    /\ reader' = IF Differs THEN Idle ELSE [reader EXCEPT !.step = "bytes"]
    /\ UNCHANGED << disk, index, job, stored, past >>

ReadBytes ==
    /\ reader # Idle /\ reader.step = "bytes"
    /\ reader' = Idle
    /\ given' = given \cup { [item |-> reader.item, content |-> c] :
                                 c \in {file[reader.item]} \ {Absent} }
    /\ UNCHANGED << disk, index, job, stored, damaged, withdrawn, abandoned >>

(* verify_store_consistency takes no lock: the rows are listed, their      *)
(* files compared, then the directories searched for files without a row.  *)
(* What is found of one item depends on no other: each pass is one step.   *)
BeginCheck ==
    /\ reader = Idle
    /\ reader' = [rows |-> row, step |-> "files"]
    /\ UNCHANGED << disk, index, job, stored, past >>

MissingOrTampered == { i \in Item : reader.rows[i] # Absent /\ file[i] # reader.rows[i] }

Orphans == { i \in Item : reader.rows[i] = Absent /\ file[i] # Absent }

CheckFiles ==
    /\ reader # Idle /\ reader.step = "files"
    /\ reader' = [reader EXCEPT !.step = "disk"]
    /\ UNCHANGED << disk, index, job, stored, past >>

CheckDisk ==
    /\ reader # Idle /\ reader.step = "disk"
    /\ reader' = Idle
    /\ UNCHANGED << disk, index, job, stored, past >>

-----------------------------------------------------------------------------
(* Failures.                                                               *)

(* A statement fails: an insertion and a binding are followed by the       *)
(* rollback of the file, the row that was inserted stays.                  *)
StatementFails(p) ==
    /\ StorageFails
    /\ At(p, "insert") \/ (At(p, "bind") /\ job[p].left # {})
    /\ GoTo(p, "unlink")
    /\ UNCHANGED << disk, index, reader, stored, past >>

(* The temporary file cannot be written or moved: StorageError.            *)
WriteFails(p) ==
    /\ HostFails
    /\ At(p, "recheck") \/ At(p, "replace")
    /\ End(p)
    /\ UNCHANGED << disk, index, reader, stored, past >>

(* Mutant: the start sweeps away files that have no row.                   *)
DiesSweeping(p) ==
    /\ HostFails
    /\ End(p)
    /\ index' = [index EXCEPT ![p] = { e \in Evidence : row[e] # Absent }]
    /\ file' = [i \in Item |-> IF row[i] = Absent THEN Absent ELSE file[i]]
    /\ UNCHANGED << row, link, reader, stored, past >>

(* A process dies and is started again: its index comes from the table.    *)
Dies(p) ==
    /\ HostFails
    /\ job[p] # Idle
    /\ LeaveBehind(job[p])
    /\ End(p)
    /\ index' = [index EXCEPT ![p] = { e \in Evidence : row[e] # Absent }]
    /\ UNCHANGED << disk, reader, stored, given, damaged, withdrawn >>

(* A file of the store is changed or removed by something else.            *)
Damage(i, c) ==
    /\ Damages
    /\ file[i] # Absent /\ c # file[i]
    /\ file' = [file EXCEPT ![i] = c]
    /\ damaged' = damaged \cup {i}
    /\ UNCHANGED << row, link, index, job, reader, stored, given, withdrawn, abandoned >>

SaveEvidence(p) == \E e \in Evidence, c \in Content : BeginSave(p, e, c, Absent)

SaveArtifact(p) ==
    \E a \in Artifact, c \in Content, o \in Owner : BeginSave(p, a, c, o)

Save(p) ==
    \/ SaveEvidence(p) \/ SaveArtifact(p)
    \/ Recheck(p) \/ Replace(p) \/ Digest(p) \/ Insert(p) \/ Bind(p) \/ Finish(p)
    \/ DigestFails(p) \/ Unlink(p) \/ StatementFails(p) \/ WriteFails(p)

Read ==
    \/ \E a \in Artifact : BeginRead(a)
    \/ CompareDigest \/ ReadBytes
    \/ BeginCheck \/ CheckFiles \/ CheckDisk

Next ==
    \/ \E p \in Process :
         Save(p) \/ (\E e \in Evidence : BeginGet(p, e)) \/ FinishGet(p) \/ Dies(p)
    \/ Read
    \/ \E i \in Item, c \in Content \cup {Absent} : Damage(i, c)

Spec == Init /\ [][Next]_vars

-----------------------------------------------------------------------------
(* Properties.                                                             *)

(* What a save has returned stays: the row holds the digest of the content *)
(* saved and the file the content, until it is changed from outside.       *)
StoredIntact ==
    \A s \in stored :
        /\ row[s.item] = s.content
        /\ s.item \in damaged \/ file[s.item] = s.content

(* No row without its file: the file is always there first, and goes only  *)
(* where a rollback came after the row.                                    *)
RowHasFileUnlessUndone ==
    \A i \in Item \ damaged :
        row[i] # Absent /\ << i, TRUE >> \notin withdrawn => file[i] = row[i]

(* No row without its file, rollbacks or not.                              *)
RowHasFile == \A i \in Item \ damaged : row[i] # Absent => file[i] = row[i]

(* Nobody is told that an item is missing or tampered with, by the         *)
(* consistency check or by a reader, unless its file was changed from      *)
(* outside or removed by a rollback, or it is an artifact a record refers  *)
(* to and no save has ever registered.                                     *)
Accused ==
    (IF reader = Idle THEN {}
     ELSE CASE reader.step = "files" -> MissingOrTampered
            [] reader.step = "compare" -> { i \in {reader.item} : Differs }
            [] OTHER -> {})
    \cup UNION { Altered(job[p]) : p \in { q \in Process : At(q, "open") } }

NoFalseAccusation ==
    \A i \in Accused :
        \/ i \in damaged \/ i \in { w[1] : w \in withdrawn }
        \/ i \in Artifact /\ row[i] = Absent

(* A reader is given what is registered, also when it came before the row. *)
ReadsAgree ==
    \A r \in given :
        \/ row[r.item] \in {Absent, r.content}
        \/ r.item \in damaged \/ << r.item, FALSE >> \in withdrawn

(* A file without a row belongs to a save under way, or is one that was    *)
(* left behind: by a dying process, by a rollback that failed, or by a     *)
(* save that could not take the digest of the artifact it had put there.   *)
OrphanHasCause ==
    \A i \in Item : file[i] # Absent /\ row[i] = Absent =>
        \/ i \in abandoned
        \/ \E p \in Process : job[p] # Idle /\ job[p].op = "save" /\ job[p].item = i

(* What the consistency check calls an orphan has no row.                  *)
NoFalseOrphan ==
    reader # Idle /\ reader.step = "disk" => \A i \in Orphans : row[i] = Absent

(* An artifact that is linked to a record stays linked to it.              *)
LinkFixed == [][ \A a \in Artifact : link[a] # Absent => link'[a] = link[a] ]_vars

(* One process implements the write-once store: an item is published with  *)
(* its row; what is done to its file from outside, or by a rollback that   *)
(* comes after the row, is not the store's contents.                       *)
Published ==
    [i \in Item |->
        IF row[i] = Absent THEN Absent
        ELSE IF i \in damaged \/ << i, TRUE >> \in withdrawn THEN row[i]
        ELSE file[i]]
Promise == INSTANCE WriteOnceStore WITH contents <- Published
WritesOnce == Promise!Spec

=============================================================================
