--------------------------- MODULE DatasetIntake ---------------------------
(***************************************************************************)
(* IngestionGateway.ingest_dataset and the route of POST /datasets/ingest:  *)
(* a call goes from detection of the format to the event of the audit log, *)
(* while the directory it reads may be edited between two steps and the    *)
(* server may die.  Every step reads the directory again; what it looks    *)
(* like to a step is a function of DatasetFormats.                         *)
(*                                                                         *)
(* A row of the catalogue is named by its position: the code draws a fresh *)
(* uuid4 for each.  Calls of two clients share nothing but the catalogue,  *)
(* to which each only adds its own row, so one call at a time is enough.   *)
(***************************************************************************)
EXTENDS DatasetFormats

CONSTANTS
  Trees,         \* the directories a call may find
  Edits,         \* what an edit may leave behind
  Callers,       \* the contributors a client may name; NoContributor: none
  Batches,       \* the batches a client may name
  NoBatch,
  MaxCalls,      \* bound: calls
  MaxEdits       \* bound: edits of the directory

ASSUME BoundsAreNatural == MaxCalls \in Nat /\ MaxEdits \in Nat
ASSUME NoBatchIsNone == NoBatch \notin Batches

(* Directories, manifests and lists of class names come to an end, and     *)
(* classes are declared by number.                                         *)
ASSUME TreesAreFinite ==
  \A tree \in Trees \cup Edits :
    /\ IsFiniteSet(DOMAIN tree.manifests) /\ IsFiniteSet(DOMAIN tree.images)
    /\ \A p \in DOMAIN tree.manifests : IsFiniteSet(tree.manifests[p].images)
    /\ IsFiniteSet(DOMAIN DeclaredNames(tree)) /\ DOMAIN DeclaredNames(tree) \subseteq Int

VARIABLES
  disk,          \* the directory
  call,          \* the call in progress
  assets,        \* the rows of the assets table
  log,           \* ASSET_INGESTED events
  answers,       \* what clients were told
  edits

vars == <<disk, call, assets, log, answers, edits>>

Idle == [pc |-> "idle"]

Unsupported == "unsupported"

Errors(fmt, found) == IF fmt = "coco" THEN CocoErrors(disk, found) ELSE YoloErrors(disk)
Warnings(fmt, found) == IF fmt = "coco" THEN CocoWarnings(disk, found) ELSE YoloWarnings(disk)
Loads(fmt, found) == IF fmt = "coco" THEN CocoLoads(disk, found) ELSE YoloLoads(disk)
Loaded(fmt, found) == IF fmt = "coco" THEN LoadCoco(disk, found) ELSE LoadYolo(disk)

(* UnifiedDataset.compute_dataset_hash, as what it commits to: neither the *)
(* ids of the images nor their splits are in it.                           *)
DatasetHash(data, contributor, batch) ==
  [images |-> {<<i.file, i.bytes>> : i \in data.images},
   annotations |-> {<<a.image, a.cat, a.box>> : a \in data.annotations},
   classes |-> data.classes,
   contributor |-> contributor, batch |-> batch]

(* Each image is hashed as it is read.                                     *)
WithBytes(data) ==
  [data EXCEPT !.images = {[id |-> i.id, file |-> i.file, bytes |-> disk.images[i.file]] : i \in @}]

-----------------------------------------------------------------------------
Init ==
  /\ disk \in Trees
  /\ call = Idle
  /\ assets = <<>> /\ log = <<>> /\ answers = <<>>
  /\ edits = 0

(* The record r with the fields of s, too.                                 *)
Extended(r, s) == [x \in DOMAIN r \cup DOMAIN s |-> IF x \in DOMAIN s THEN s[x] ELSE r[x]]

Fail == call' = Idle /\ answers' = Append(answers, [ok |-> FALSE])

(* Format detection; the adapter that is then made finds its manifests.    *)
Begin(who, batch) ==
  /\ call.pc = "idle" /\ Len(answers) < MaxCalls
  /\ \E fmt \in Detect(disk) :
       IF fmt = Unsupported
       THEN Fail
       ELSE /\ call' = [pc |-> "selected", fmt |-> fmt, found |-> DiscoverManifests(disk),
                        who |-> who, batch |-> batch, steady |-> TRUE]
            /\ UNCHANGED answers
  /\ UNCHANGED <<disk, assets, log, edits>>

Validate ==
  /\ call.pc = "selected"
  /\ IF Errors(call.fmt, call.found) # {}
     THEN Fail
     ELSE call' = Extended(call, [pc |-> "validated", told |-> Warnings(call.fmt, call.found)])
          /\ UNCHANGED answers
  /\ UNCHANGED <<disk, assets, log, edits>>

(* load validates once more before it reads, and drops these warnings.     *)
Revalidate ==
  /\ call.pc = "validated"
  /\ IF Errors(call.fmt, call.found) # {}
     THEN Fail
     ELSE call' = [call EXCEPT !.pc = "loading"] /\ UNCHANGED answers
  /\ UNCHANGED <<disk, assets, log, edits>>

Load ==
  /\ call.pc = "loading"
  /\ IF ~Loads(call.fmt, call.found)
     THEN Fail
     ELSE LET data == WithBytes(Loaded(call.fmt, call.found))
          IN /\ call' = Extended(call, [pc |-> "loaded", data |-> data, contributor |-> data.contributor,
                                        batchOf |-> NoBatch,
                                        hash |-> DatasetHash(data, data.contributor, NoBatch)])
             /\ UNCHANGED answers
  /\ UNCHANGED <<disk, assets, log, edits>>

(* Mutant: computed again only when a batch is named.                      *)
HashWithProvenanceOfBatch(contributor) ==
  IF call.batch # NoBatch THEN DatasetHash(call.data, contributor, call.batch) ELSE call.hash

HashWithProvenance(contributor) ==
  IF call.who # NoContributor \/ call.batch # NoBatch
  THEN DatasetHash(call.data, contributor, call.batch) ELSE call.hash

(* What the client names fills in what the dataset does not say itself.    *)
AttachProvenance ==
  LET contributor == IF call.contributor = NoContributor THEN call.who ELSE call.contributor
  IN /\ call.pc = "loaded"
     /\ call' = [call EXCEPT !.pc = "attached", !.contributor = contributor, !.batchOf = call.batch,
                             !.hash = HashWithProvenance(contributor)]
     /\ UNCHANGED <<disk, assets, log, answers, edits>>

Row == [fmt |-> call.fmt, data |-> call.data, contributor |-> call.contributor, batch |-> call.batchOf,
        hash |-> call.hash]

SaveAsset ==
  /\ call.pc = "attached"
  /\ assets' = Append(assets, [row |-> Row, call |-> call, seen |-> disk])
  /\ call' = [call EXCEPT !.pc = "saved"]
  /\ UNCHANGED <<disk, log, answers, edits>>

(* Mutant: a failing log is passed over.                                   *)
LogEventOrNot ==
  /\ call.pc = "saved"
  /\ \/ log' = Append(log, [asset |-> Len(assets), hash |-> call.hash, contributor |-> call.contributor])
     \/ UNCHANGED log
  /\ call' = [call EXCEPT !.pc = "logged"]
  /\ UNCHANGED <<disk, assets, answers, edits>>

LogEvent ==
  /\ call.pc = "saved"
  /\ log' = Append(log, [asset |-> Len(assets), hash |-> call.hash, contributor |-> call.contributor])
  /\ call' = [call EXCEPT !.pc = "logged"]
  /\ UNCHANGED <<disk, assets, answers, edits>>

Answer ==
  /\ call.pc = "logged"
  /\ answers' = Append(answers, [ok |-> TRUE, asset |-> Len(assets), contributor |-> call.contributor,
                                 warnings |-> call.told])
  /\ call' = Idle
  /\ UNCHANGED <<disk, assets, log, edits>>

(* The database or the log cannot be written.                              *)
StorageFails ==
  /\ call.pc \in {"attached", "saved"}
  /\ Fail
  /\ UNCHANGED <<disk, assets, log, edits>>

(* The server dies: the client is told nothing, which counts as a call.    *)
Crash ==
  /\ call.pc # "idle"
  /\ Fail
  /\ UNCHANGED <<disk, assets, log, edits>>

EditDirectory ==
  /\ edits < MaxEdits
  /\ disk' \in Edits \ {disk}
  /\ call' = IF call.pc = "idle" THEN call ELSE [call EXCEPT !.steady = FALSE]
  /\ edits' = edits + 1
  /\ UNCHANGED <<assets, log, answers>>

Next ==
  \/ \E who \in Callers, batch \in Batches \cup {NoBatch} : Begin(who, batch)
  \/ Validate \/ Revalidate \/ Load \/ AttachProvenance \/ SaveAsset \/ LogEvent \/ Answer
  \/ StorageFails \/ Crash \/ EditDirectory

Spec == Init /\ [][Next]_vars

-----------------------------------------------------------------------------
(* Properties, about the rows of calls during which nobody edited the      *)
(* directory: "steady" ones.                                               *)

SteadyRows == {i \in DOMAIN assets : assets[i].call.steady}

(* What is registered hangs together: annotations speak of registered      *)
(* images, every image entry of a manifest is registered and is the file   *)
(* beside the manifest if there is one, and one id names one file - but    *)
(* for YOLO files of one name in two folders, which get one id             *)
(* (coco.py:500, yolo.py:358).                                             *)
RegisteredIsSound ==
  \A i \in SteadyRows :
    LET data == assets[i].row.data
        tree == assets[i].seen
        found == assets[i].call.found
        coco == assets[i].call.fmt = "coco"
    IN /\ \A a \in data.annotations : \E im \in data.images : im.id = a.image
       /\ \A im, other \in data.images :
            im.id = other.id /\ im # other => ~coco /\ im.file.stem = other.file.stem
       /\ coco => \A k \in DOMAIN found : \A m \in tree.manifests[found[k].place].images :
            \E im \in data.images :
              /\ im.id[2] = m.id
              /\ im.file.stem = m.file
              /\ [dir |-> found[k].place.dir, stem |-> m.file] \in DOMAIN tree.images => im.file.dir = found[k].place.dir

(* A class is named otherwise than by the manifest that uses it only with  *)
(* a warning, and a YOLO class goes without its declared name only with a  *)
(* warning or when its number lies in a gap of the declared ones.  The     *)
(* warning is in what ingestion returns; a scan of the dataset does not    *)
(* hand it on (coco.py:288, coco.py:463, yolo.py:255, datasets.py:76).     *)
RelabelledIsWarned ==
  \A i \in SteadyRows :
    LET told == assets[i].call.told
        tree == assets[i].seen
        found == assets[i].call.found
    IN \A a \in assets[i].row.data.annotations :
         IF assets[i].call.fmt = "coco"
         THEN LET own == tree.manifests[found[a.from].place].names
              IN a.cat \in DOMAIN own /\ own[a.cat] # a.name => "conflicting names" \in told
         ELSE LET declared == DOMAIN DeclaredNames(tree)
              IN a.cat \notin declared /\ declared # {} => "class not declared" \in told \/ a.cat < Max(declared)

(* The contributor is whom the first manifest that names one names, and    *)
(* the client's only when none does; the dataset hash and the audit event  *)
(* commit to the contributor of the row (gateway.py:73-80, 117).           *)
AttributionHonest ==
  /\ \A i \in DOMAIN assets :
       LET row == assets[i].row
       IN /\ row.contributor = IF row.data.contributor = NoContributor THEN assets[i].call.who ELSE row.data.contributor
          /\ row.hash = DatasetHash(row.data, row.contributor, row.batch)
  /\ \A i \in SteadyRows :
       assets[i].call.fmt = "coco" =>
         \A k \in DOMAIN assets[i].call.found :
           LET named == assets[i].seen.manifests[assets[i].call.found[k].place].contributor
           IN \/ named \in {NoContributor, assets[i].row.contributor}
              \/ \E j \in 1..(k - 1) : assets[i].seen.manifests[assets[i].call.found[j].place].contributor
                                        = assets[i].row.contributor
  /\ \A k \in DOMAIN log : /\ log[k].asset \in DOMAIN assets
                           /\ log[k].hash = assets[log[k].asset].row.hash
                           /\ log[k].contributor = assets[log[k].asset].row.contributor

(* Datasets that say different things of a picture have different hashes,  *)
(* as phase_3_dataset_integrity_report.md:86 has it.  They need not: the   *)
(* hash lists files without their ids and annotations by id alone          *)
(* (schemas.py:555-577).                                                   *)
HashTellsApart ==
  LET Said(i) == {<<p[1].file, p[2].cat, p[2].box>> :
                    p \in {p \in assets[i].row.data.images \X assets[i].row.data.annotations : p[1].id = p[2].image}}
  IN \A i, j \in DOMAIN assets : assets[i].row.hash = assets[j].row.hash => Said(i) = Said(j)

(* Who is told INGESTED can point to a row and to its event; a row goes    *)
(* without an event only after a failure or a death between the two        *)
(* (gateway.py:113-134).                                                   *)
Traceable ==
  LET evented == {log[k].asset : k \in DOMAIN log}
      failed == {k \in DOMAIN answers : ~answers[k].ok}
  IN /\ \A k \in DOMAIN answers \ failed : answers[k].asset \in evented
     /\ Cardinality(DOMAIN assets \ evented)
          <= Cardinality(failed) + (IF call.pc = "saved" THEN 1 ELSE 0)
=============================================================================
