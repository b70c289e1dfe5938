------------------------------ MODULE KeyStore ------------------------------
(***************************************************************************)
(* The trust store of keys: each process reads the whole file when it      *)
(* starts, changes its own copy under a lock, and writes the whole copy to *)
(* one temporary file, which then replaces the file.  The lock is one of   *)
(* the process, the temporary file is everybody's.                         *)
(*                                                                         *)
(* An open file is known by where it is to be found now: at the temporary  *)
(* name, at the name of the store, or at none.  The window of validity of  *)
(* a key is left out; it is only compared with the clock.                  *)
(***************************************************************************)
EXTENDS Naturals

CONSTANTS
  Procs,         \* processes with a store on the one file
  Keys,
  DemoKey,       \* the key the demo route registers when it is missing
  Secrets,       \* HMAC secrets
  NoFile, NoKey, \* for a missing file and a missing key
  Empty, Torn,   \* a file with nothing or with something unreadable in it
  MaxCalls       \* bound: changes begun

ASSUME DemoKeyIsKey == DemoKey \in Keys
ASSUME BoundIsNatural == MaxCalls \in Nat

VARIABLES
  memory,        \* the copy of each process; NoFile: not running
  call,          \* the change each process is at
  handle,        \* where the file a process is writing is to be found
  file, tmp,     \* contents of the two files
  absent,        \* requests for a demo record that found no key, per process
  calls,
  met,           \* history: two processes were saving at once
  stale,         \* history: processes whose copy another one has overtaken
  lost,          \* history: one of these has saved its copy
  may            \* history: what a restart may find of each key

vars == <<memory, call, handle, file, tmp, absent, calls, met, stale, lost, may>>

Statuses == {"ACTIVE", "SUSPENDED", "REVOKED", "EXPIRED"}
Kinds == {"ED25519_PUBLIC", "HMAC_SECRET"}
KeyRecord == [kind : Kinds, status : Statuses]
Copy == [keys : UNION {[K -> KeyRecord] : K \in SUBSET Keys},
         secrets : UNION {[K -> Secrets] : K \in SUBSET Keys}]

ASSUME NoneIsCopy == {NoFile, Empty, Torn} \cap Copy = {} /\ NoFile \notin {Empty, Torn}

With(f, x, y) == [z \in DOMAIN f \cup {x} |-> IF z = x THEN y ELSE f[z]]

Fresh == [keys |-> <<>>, secrets |-> <<>>]
RecordOf(copy, k) == IF k \in DOMAIN copy.keys THEN copy.keys[k] ELSE NoKey

Running(p) == memory[p] # NoFile
Idle == [pc |-> "idle"]
At(p, pc) == call[p].pc = pc

Init ==
  /\ memory = [p \in Procs |-> NoFile]
  /\ call = [p \in Procs |-> Idle]
  /\ handle = [p \in Procs |-> "none"]
  /\ file = NoFile /\ tmp = NoFile
  /\ absent = [p \in Procs |-> 0]
  /\ calls = 0
  /\ met = FALSE /\ stale = {} /\ lost = FALSE
  /\ may = [k \in Keys |-> {NoKey}]

(* A file that does not parse keeps the process from starting.             *)
Start(p) ==
  /\ ~Running(p)
  /\ file \notin {Empty, Torn}
  /\ memory' = [memory EXCEPT ![p] = IF file = NoFile THEN Fresh ELSE file]
  /\ stale' = stale \ {p}
  /\ UNCHANGED <<call, handle, file, tmp, absent, calls, met, lost, may>>

-----------------------------------------------------------------------------
(* The copy is changed first, and stays so whatever becomes of the save.   *)
BeginSave(p, k, copy) ==
  /\ Running(p) /\ At(p, "idle") /\ calls < MaxCalls
  /\ memory' = [memory EXCEPT ![p] = copy]
  /\ call' = [call EXCEPT ![p] = [pc |-> "open", key |-> k]]
  /\ may' = [may EXCEPT ![k] = @ \cup {copy.keys[k]}]
  /\ calls' = calls + 1
  /\ UNCHANGED <<handle, file, tmp, met, stale, lost>>

WithKey(copy, k, kind, status) == [copy EXCEPT !.keys = With(@, k, [kind |-> kind, status |-> status])]

(* An HMAC secret of the same name stays where it is.                      *)
RegisterPublicKey(p, k) ==
  BeginSave(p, k, WithKey(memory[p], k, "ED25519_PUBLIC", "ACTIVE"))

RegisterHmacSecret(p, k, secret) ==
  BeginSave(p, k, [WithKey(memory[p], k, "HMAC_SECRET", "ACTIVE") EXCEPT !.secrets = With(@, k, secret)])

SetKeyStatus(p, k, status) ==
  /\ Running(p) /\ k \in DOMAIN memory[p].keys
  /\ BeginSave(p, k, WithKey(memory[p], k, memory[p].keys[k].kind, status))

(* POST /provenance/demo-record looks for the key without keeping the lock.*)
FindDemoKeyAbsent(p) ==
  /\ Running(p) /\ At(p, "idle")
  /\ DemoKey \notin DOMAIN memory[p].keys
  /\ absent[p] < MaxCalls
  /\ absent' = [absent EXCEPT ![p] = @ + 1]
  /\ UNCHANGED <<memory, call, handle, file, tmp, calls, met, stale, lost, may>>

RegisterDemoKey(p) ==
  /\ absent[p] > 0
  /\ RegisterPublicKey(p, DemoKey)
  /\ absent' = [absent EXCEPT ![p] = @ - 1]

-----------------------------------------------------------------------------
(* Saving.                                                                 *)

Saving(q) == At(q, "write") \/ At(q, "rename")

(* Mutant: the file itself is opened for writing.                          *)
OpenInPlace(p) ==
  /\ At(p, "open")
  /\ file' = Empty
  /\ handle' = [handle EXCEPT ![p] = "file"]
  /\ call' = [call EXCEPT ![p].pc = "write"]
  /\ met' = (met \/ \E q \in Procs \ {p} : Saving(q))
  /\ UNCHANGED <<memory, tmp, absent, calls, stale, lost, may>>

OpenTemp(p) ==
  /\ At(p, "open")
  /\ tmp' = Empty
  /\ handle' = [handle EXCEPT ![p] = "tmp"]
  /\ call' = [call EXCEPT ![p].pc = "write"]
  /\ met' = (met \/ \E q \in Procs \ {p} : Saving(q))
  /\ UNCHANGED <<memory, file, absent, calls, stale, lost, may>>

(* Puts contents where the file that p has open is to be found.            *)
Put(p, contents) ==
  /\ tmp' = IF handle[p] = "tmp" THEN contents ELSE tmp
  /\ file' = IF handle[p] = "file" THEN contents ELSE file

Opened(p) == IF handle[p] = "tmp" THEN tmp ELSE file

(* Two that write one file each begin at its start.                        *)
Alone(p) == Opened(p) = Empty /\ \A q \in Procs \ {p} : handle[q] # handle[p]

Write(p) ==
  /\ At(p, "write")
  /\ \/ Put(p, memory[p])
     \/ ~Alone(p) /\ Put(p, Torn)
  /\ handle' = [handle EXCEPT ![p] = "none"]
  /\ call' = [call EXCEPT ![p].pc = "rename"]
  /\ UNCHANGED <<memory, absent, calls, met, stale, lost, may>>

(* Who has the temporary file open finds it under the store's name.        *)
Moved(where) == CASE where = "tmp" -> "file" [] where = "file" -> "gone" [] OTHER -> where

Return(p) == call' = [call EXCEPT ![p] = Idle]

Rename(p) ==
  /\ At(p, "rename") /\ tmp # NoFile
  /\ file' = tmp /\ tmp' = NoFile
  /\ handle' = [q \in Procs |-> Moved(handle[q])]
  /\ Return(p)
  /\ lost' = (lost \/ p \in stale)
  /\ stale' = stale \cup {q \in Procs \ {p} : Running(q)}
  /\ may' = [may EXCEPT ![call[p].key] = {memory[p].keys[call[p].key]}]
  /\ UNCHANGED <<memory, absent, calls, met>>

(* Mutant: the failure is swallowed.                                       *)
SaveFailsQuietly(p) ==
  /\ At(p, "open")
  /\ Return(p)
  /\ may' = [may EXCEPT ![call[p].key] = {memory[p].keys[call[p].key]}]
  /\ UNCHANGED <<memory, handle, file, tmp, absent, calls, met, stale, lost>>

(* The disk is full, or another process has taken the temporary file away: *)
(* the caller gets an exception.                                           *)
SaveFails(p) ==
  /\ \/ At(p, "open") /\ UNCHANGED <<file, tmp>>
     \/ At(p, "write") /\ Put(p, Torn)
     \/ At(p, "rename") /\ UNCHANGED <<file, tmp>>
  /\ handle' = [handle EXCEPT ![p] = "none"]
  /\ Return(p)
  /\ UNCHANGED <<memory, absent, calls, met, stale, lost, may>>

Dies(p) ==
  /\ Running(p)
  /\ IF At(p, "write") THEN Put(p, Torn) \/ UNCHANGED <<file, tmp>> ELSE UNCHANGED <<file, tmp>>
  /\ memory' = [memory EXCEPT ![p] = NoFile]
  /\ handle' = [handle EXCEPT ![p] = "none"]
  /\ absent' = [absent EXCEPT ![p] = 0]
  /\ Return(p)
  /\ UNCHANGED <<calls, met, stale, lost, may>>

(* A program registers keys of its own, and changes the status of any.     *)
Change(p) ==
  /\ \/ \E k \in Keys \ {DemoKey} :
          RegisterPublicKey(p, k) \/ \E secret \in Secrets : RegisterHmacSecret(p, k, secret)
     \/ \E k \in Keys, status \in Statuses : SetKeyStatus(p, k, status)
  /\ UNCHANGED absent

Next ==
  \E p \in Procs :
    \/ Start(p) \/ Change(p) \/ FindDemoKeyAbsent(p) \/ RegisterDemoKey(p)
    \/ OpenTemp(p) \/ Write(p) \/ Rename(p) \/ SaveFails(p) \/ Dies(p)

Spec == Init /\ [][Next]_vars

-----------------------------------------------------------------------------
(* Properties.                                                             *)

TypeOK ==
  /\ memory \in [Procs -> Copy \cup {NoFile}]
  /\ call \in [Procs -> {Idle} \cup [pc : {"open", "write", "rename"}, key : Keys]]
  /\ handle \in [Procs -> {"none", "tmp", "file", "gone"}]
  /\ file \in Copy \cup {NoFile, Empty, Torn} /\ tmp \in Copy \cup {NoFile, Empty, Torn}
  /\ absent \in [Procs -> Nat] /\ calls \in Nat
  /\ met \in BOOLEAN /\ lost \in BOOLEAN /\ stale \subseteq Procs
  /\ \A p \in Procs : call[p] # Idle => Running(p)

(* The store can be loaded at any moment, whatever fails and whoever dies, *)
(* unless two processes were saving at once: these share one temporary     *)
(* file, and the one that renames may rename what the other is still       *)
(* writing (keystore.py:152-164, 166-179).                                 *)
FileIsWhole == ~met => file \notin {Empty, Torn}

(* A change that was acknowledged - a revocation, say - is what a restart  *)
(* finds, or else a later change of the same key that was not acknowledged;*)
(* only a process that saves a copy another has overtaken, or two that     *)
(* save at once, take it back (keystore.py:26, 85-87, 127-135).            *)
AcknowledgedIsStored ==
  ~met /\ ~lost => \A k \in Keys : (IF file = NoFile THEN NoKey ELSE RecordOf(file, k)) \in may[k]

(* A revocation that was acknowledged is what every later start finds.     *)
(* Refuted by two processes one after the other.                           *)
AcknowledgedIsKept ==
  ~met => \A k \in Keys : (IF file = NoFile THEN NoKey ELSE RecordOf(file, k)) \in may[k]
=============================================================================
