--------------------------- MODULE KeyStoreProofs ---------------------------
(***************************************************************************)
(* For any number of processes, keys and secrets: the types, that the file *)
(* can be loaded at any moment unless two processes saved at once, and     *)
(* that it keeps what was acknowledged unless a stale copy was saved.      *)
(***************************************************************************)
EXTENDS KeyStore, TLAPS

LEMMA WithKeyIsCopy ==
  ASSUME NEW copy \in Copy, NEW k \in Keys, NEW kind \in Kinds, NEW status \in Statuses
  PROVE  /\ WithKey(copy, k, kind, status) \in Copy
         /\ WithKey(copy, k, kind, status).keys = With(copy.keys, k, [kind |-> kind, status |-> status])
<1> DEFINE r == [kind |-> kind, status |-> status]
<1>1. r \in KeyRecord
  BY DEF KeyRecord
<1>2. PICK K \in SUBSET Keys : copy.keys \in [K -> KeyRecord]
  BY DEF Copy
<1>3. With(copy.keys, k, r) \in [K \cup {k} -> KeyRecord]
  BY <1>1, <1>2 DEF With
<1>4. K \cup {k} \in SUBSET Keys
  BY <1>2
<1>5. With(copy.keys, k, r) \in UNION {[L -> KeyRecord] : L \in SUBSET Keys}
  BY <1>3, <1>4
<1> HIDE DEF r
<1>6. /\ [copy EXCEPT !.keys = With(copy.keys, k, r)] \in Copy
      /\ [copy EXCEPT !.keys = With(copy.keys, k, r)].keys = With(copy.keys, k, r)
  <2> HIDE DEF With
  <2> QED
    BY <1>5 DEF Copy
<1> QED
  BY <1>6 DEF WithKey, r

LEMMA WithSecretIsCopy ==
  ASSUME NEW copy \in Copy, NEW k \in Keys, NEW secret \in Secrets
  PROVE  /\ [copy EXCEPT !.secrets = With(copy.secrets, k, secret)] \in Copy
         /\ [copy EXCEPT !.secrets = With(copy.secrets, k, secret)].keys = copy.keys
<1>1. PICK K \in SUBSET Keys : copy.secrets \in [K -> Secrets]
  BY DEF Copy
<1>2. With(copy.secrets, k, secret) \in [K \cup {k} -> Secrets]
  BY <1>1 DEF With
<1>3. K \cup {k} \in SUBSET Keys
  BY <1>1
<1>4. With(copy.secrets, k, secret) \in UNION {[L -> Secrets] : L \in SUBSET Keys}
  BY <1>2, <1>3
<1> HIDE DEF With
<1> QED
  BY <1>4 DEF Copy

LEMMA FreshIsCopy == Fresh \in Copy
<1>1. {} \in SUBSET Keys /\ <<>> \in [{} -> KeyRecord] /\ <<>> \in [{} -> Secrets]
  OBVIOUS
<1>2. <<>> \in UNION {[L -> KeyRecord] : L \in SUBSET Keys} /\ <<>> \in UNION {[L -> Secrets] : L \in SUBSET Keys}
  BY <1>1
<1> QED
  BY <1>2 DEF Fresh, Copy

-----------------------------------------------------------------------------
(* A step that begins a save keeps the types, given that the new copy is   *)
(* one.                                                                    *)
LEMMA BeginSaveType ==
  ASSUME TypeOK, NEW p \in Procs, NEW k \in Keys, NEW copy \in Copy, BeginSave(p, k, copy), absent' \in [Procs -> Nat]
  PROVE  TypeOK'
<1> USE NoneIsCopy, BoundIsNatural DEF TypeOK, BeginSave, Running, Idle, At
<1> HIDE DEF Copy
<1>1. memory' \in [Procs -> Copy \cup {NoFile}]
  OBVIOUS
<1>2. call' \in [Procs -> {Idle} \cup [pc : {"open", "write", "rename"}, key : Keys]]
  OBVIOUS
<1>3. \A q \in Procs : call'[q] # Idle => memory'[q] # NoFile
  OBVIOUS
<1> QED
  BY <1>1, <1>2, <1>3

(* Every change begins to save a copy that differs from the one before in  *)
(* the record of one key.                                                  *)
ChangesOne(p, k, copy) ==
  BeginSave(p, k, copy) /\ \E r \in KeyRecord : copy.keys = With(memory[p].keys, k, r)

LEMMA BeginsSave ==
  ASSUME TypeOK, NEW p \in Procs, Change(p) \/ RegisterDemoKey(p)
  PROVE  /\ \E k \in Keys, copy \in Copy : ChangesOne(p, k, copy)
         /\ absent' \in [Procs -> Nat]
<1>1. ASSUME NEW k \in Keys, NEW kind \in Kinds, NEW status \in Statuses, BeginSave(p, k, WithKey(memory[p], k, kind, status))
      PROVE  \E j \in Keys, copy \in Copy : ChangesOne(p, j, copy)
  <2>1. memory[p] \in Copy
    BY <1>1 DEF TypeOK, BeginSave, Running
  <2>2. /\ WithKey(memory[p], k, kind, status) \in Copy
        /\ WithKey(memory[p], k, kind, status).keys = With(memory[p].keys, k, [kind |-> kind, status |-> status])
    BY <2>1, WithKeyIsCopy
  <2>3. [kind |-> kind, status |-> status] \in KeyRecord
    BY DEF KeyRecord
  <2> HIDE DEF WithKey, BeginSave
  <2> QED
    BY <1>1, <2>2, <2>3 DEF ChangesOne
<1>2. ASSUME NEW k \in Keys, RegisterPublicKey(p, k)
      PROVE  \E j \in Keys, copy \in Copy : ChangesOne(p, j, copy)
  BY <1>1, <1>2 DEF RegisterPublicKey, Kinds, Statuses
<1>3. ASSUME NEW k \in Keys, NEW secret \in Secrets, RegisterHmacSecret(p, k, secret)
      PROVE  \E j \in Keys, copy \in Copy : ChangesOne(p, j, copy)
  <2> DEFINE c == WithKey(memory[p], k, "HMAC_SECRET", "ACTIVE")
  <2>1. memory[p] \in Copy
    BY <1>3 DEF TypeOK, RegisterHmacSecret, BeginSave, Running
  <2>2. c \in Copy /\ \E r \in KeyRecord : c.keys = With(memory[p].keys, k, r)
    <3>1. "HMAC_SECRET" \in Kinds /\ "ACTIVE" \in Statuses
      BY DEF Kinds, Statuses
    <3>2. [kind |-> "HMAC_SECRET", status |-> "ACTIVE"] \in KeyRecord
      BY <3>1 DEF KeyRecord
    <3> QED
      BY <2>1, <3>1, <3>2, WithKeyIsCopy
  <2> HIDE DEF c
  <2>3. /\ [c EXCEPT !.secrets = With(c.secrets, k, secret)] \in Copy
        /\ [c EXCEPT !.secrets = With(c.secrets, k, secret)].keys = c.keys
    BY <2>2, WithSecretIsCopy
  <2>4. BeginSave(p, k, [c EXCEPT !.secrets = With(c.secrets, k, secret)])
    BY <1>3 DEF RegisterHmacSecret, c
  <2> QED
    BY <2>2, <2>3, <2>4 DEF ChangesOne
<1>4. ASSUME NEW k \in Keys, NEW status \in Statuses, SetKeyStatus(p, k, status)
      PROVE  \E j \in Keys, copy \in Copy : ChangesOne(p, j, copy)
  <2>1. memory[p] \in Copy
    BY <1>4 DEF TypeOK, SetKeyStatus, Running
  <2>2. memory[p].keys[k].kind \in Kinds
    BY <1>4, <2>1 DEF SetKeyStatus, Copy, KeyRecord
  <2> QED
    BY <1>1, <1>4, <2>2 DEF SetKeyStatus
<1>5. CASE Change(p)
  BY <1>2, <1>3, <1>4, <1>5 DEF Change, TypeOK
<1>6. CASE RegisterDemoKey(p)
  <2>1. absent' \in [Procs -> Nat]
    BY <1>6 DEF RegisterDemoKey, TypeOK
  <2> QED
    BY <1>2, <1>6, <2>1, DemoKeyIsKey DEF RegisterDemoKey
<1> QED
  BY <1>5, <1>6

LEMMA NextType ==
  ASSUME TypeOK, [Next]_vars
  PROVE  TypeOK'
<1> USE NoneIsCopy, BoundIsNatural
<1> SUFFICES ASSUME NEW p \in Procs,
                    \/ Start(p) \/ Change(p) \/ FindDemoKeyAbsent(p) \/ RegisterDemoKey(p)
                    \/ OpenTemp(p) \/ Write(p) \/ Rename(p) \/ SaveFails(p) \/ Dies(p) \/ UNCHANGED vars
             PROVE  TypeOK'
  <2>1. CASE UNCHANGED vars
    BY <2>1 DEF vars, TypeOK, Running
  <2> QED
    BY <2>1 DEF Next
<1>1. CASE Start(p)
  BY <1>1, FreshIsCopy DEF Start, TypeOK, Running
<1>2. CASE Change(p) \/ RegisterDemoKey(p)
  BY <1>2, BeginsSave, BeginSaveType DEF ChangesOne
<1>3. CASE FindDemoKeyAbsent(p)
  BY <1>3 DEF FindDemoKeyAbsent, TypeOK, Running
<1>4. CASE OpenTemp(p)
  <2>1. call' \in [Procs -> {Idle} \cup [pc : {"open", "write", "rename"}, key : Keys]]
    BY <1>4 DEF OpenTemp, TypeOK, At, Idle
  <2>2. \A q \in Procs : call'[q] # Idle => call[q] # Idle
    BY <1>4 DEF OpenTemp, TypeOK, At, Idle
  <2>3. met' \in BOOLEAN
    BY <1>4 DEF OpenTemp
  <2> QED
    BY <1>4, <2>1, <2>2, <2>3 DEF OpenTemp, TypeOK, Running
<1>5. CASE Write(p)
  <2>1. call' \in [Procs -> {Idle} \cup [pc : {"open", "write", "rename"}, key : Keys]]
    BY <1>5 DEF Write, TypeOK, At, Idle
  <2>2. \A q \in Procs : call'[q] # Idle => call[q] # Idle
    BY <1>5 DEF Write, TypeOK, At, Idle
  <2> QED
    BY <1>5, <2>1, <2>2 DEF Write, Put, TypeOK, Running
<1>6. CASE Rename(p)
  <2>1. handle' \in [Procs -> {"none", "tmp", "file", "gone"}]
    BY <1>6 DEF Rename, Moved, TypeOK
  <2>2. lost' \in BOOLEAN /\ stale' \subseteq Procs
    BY <1>6 DEF Rename, TypeOK
  <2> QED
    BY <1>6, <2>1, <2>2 DEF Rename, Return, TypeOK, Running
<1>7. CASE SaveFails(p)
  BY <1>7 DEF SaveFails, Put, Return, TypeOK, Running
<1>8. CASE Dies(p)
  BY <1>8 DEF Dies, Put, Return, TypeOK, Running
<1>9. CASE UNCHANGED vars
  BY <1>9 DEF vars, TypeOK, Running
<1> QED
  BY <1>1, <1>2, <1>3, <1>4, <1>5, <1>6, <1>7, <1>8, <1>9

(* Every copy is a map from keys to records, and only a running process is *)
(* at a change.                                                            *)
THEOREM TypeCorrect == Spec => []TypeOK
<1>1. ASSUME Init PROVE TypeOK
  <2>1. call \in [Procs -> {Idle} \cup [pc : {"open", "write", "rename"}, key : Keys]]
    BY <1>1 DEF Init
  <2>2. \A p \in Procs : call[p] = Idle
    BY <1>1 DEF Init
  <2> QED
    BY <1>1, <2>1, <2>2 DEF Init, TypeOK
<1> QED
  BY <1>1, NextType, PTL DEF Spec

-----------------------------------------------------------------------------
(* As long as no two processes have saved at once, the temporary file is   *)
(* of the one that saves: empty while it is open, and afterwards its copy. *)
SoleSaver ==
  /\ \A p, q \in Procs : Saving(p) /\ Saving(q) => p = q
  /\ \A p \in Procs : handle[p] = IF At(p, "write") THEN "tmp" ELSE "none"
  /\ \A p \in Procs : At(p, "write") => tmp = Empty
  /\ \A p \in Procs : At(p, "rename") => tmp = memory[p]

WholeInv == ~met => SoleSaver /\ file \notin {Empty, Torn}

LEMMA NextWhole ==
  ASSUME TypeOK, TypeOK', WholeInv, [Next]_vars
  PROVE  WholeInv'
<1> USE NoneIsCopy
<1> SUFFICES ASSUME ~met' PROVE SoleSaver' /\ file' \notin {Empty, Torn}
  BY DEF WholeInv
<1>a. ~met
  <2>1. CASE \E p \in Procs : Change(p) \/ RegisterDemoKey(p)
    BY <2>1, BeginsSave DEF ChangesOne, BeginSave
  <2>2. CASE \E p \in Procs : OpenTemp(p)
    BY <2>2 DEF OpenTemp, TypeOK
  <2>3. CASE \E p \in Procs : Start(p) \/ FindDemoKeyAbsent(p)
    BY <2>3 DEF Start, FindDemoKeyAbsent
  <2>4. CASE \E p \in Procs : Write(p) \/ Rename(p)
    BY <2>4 DEF Write, Rename
  <2>5. CASE \E p \in Procs : SaveFails(p) \/ Dies(p)
    BY <2>5 DEF SaveFails, Dies
  <2>6. CASE UNCHANGED vars
    BY <2>6 DEF vars
  <2> QED
    BY <2>1, <2>2, <2>3, <2>4, <2>5, <2>6 DEF Next
<1>b. SoleSaver /\ file \notin {Empty, Torn}
  BY <1>a DEF WholeInv
<1> SUFFICES ASSUME NEW p \in Procs,
                    \/ Start(p) \/ Change(p) \/ FindDemoKeyAbsent(p) \/ RegisterDemoKey(p)
                    \/ OpenTemp(p) \/ Write(p) \/ Rename(p) \/ SaveFails(p) \/ Dies(p) \/ UNCHANGED vars
             PROVE  SoleSaver' /\ file' \notin {Empty, Torn}
  <2>1. CASE UNCHANGED vars
    BY <1>b, <2>1 DEF vars, SoleSaver, Saving, At
  <2> QED
    BY <2>1 DEF Next
<1>1. CASE Start(p) \/ FindDemoKeyAbsent(p) \/ UNCHANGED vars
  <2>1. \A q \in Procs : At(q, "rename") => memory'[q] = memory[q]
    BY <1>1 DEF Start, FindDemoKeyAbsent, vars, TypeOK, Idle, At
  <2> QED
    BY <1>1, <1>b, <2>1 DEF Start, FindDemoKeyAbsent, vars, SoleSaver, Saving, At
<1>2. CASE Change(p) \/ RegisterDemoKey(p)
  <2>1. PICK k \in Keys, copy \in Copy : BeginSave(p, k, copy)
    BY <1>2, BeginsSave DEF ChangesOne
  <2>2. \A q \in Procs : /\ (At(q, "write"))' = At(q, "write")
                         /\ (At(q, "rename"))' = At(q, "rename")
                         /\ At(q, "rename") => memory'[q] = memory[q]
    BY <2>1 DEF BeginSave, At, TypeOK
  <2> QED
    BY <1>b, <2>1, <2>2 DEF BeginSave, SoleSaver, Saving
<1>3. CASE OpenTemp(p)
  <2>1. \A q \in Procs \ {p} : ~Saving(q)
    BY <1>3, <1>a DEF OpenTemp
  <2>2. \A q \in Procs \ {p} : call'[q] = call[q] /\ handle'[q] = handle[q]
    BY <1>3 DEF OpenTemp, TypeOK
  <2>3. call'[p].pc = "write" /\ handle'[p] = "tmp"
    BY <1>3 DEF OpenTemp, TypeOK, At, Idle
  <2> QED
    BY <1>3, <1>b, <2>1, <2>2, <2>3 DEF OpenTemp, SoleSaver, Saving, At
<1>4. CASE Write(p)
  <2>1. Alone(p) /\ handle[p] = "tmp"
    BY <1>4, <1>b DEF Write, SoleSaver, Saving, Alone, Opened
  <2>2. memory[p] \in Copy
    BY <1>4 DEF Write, At, TypeOK, Running, Idle
  <2>3. tmp' = memory[p] /\ file' = file /\ memory' = memory
    BY <1>4, <2>1 DEF Write, Put
  <2>4. \A q \in Procs \ {p} : call'[q] = call[q] /\ handle'[q] = handle[q] /\ ~Saving(q)
    BY <1>4, <1>b DEF Write, TypeOK, SoleSaver, Saving
  <2>5. call'[p].pc = "rename" /\ handle'[p] = "none"
    BY <1>4 DEF Write, TypeOK, At, Idle
  <2> QED
    BY <1>b, <2>2, <2>3, <2>4, <2>5 DEF SoleSaver, Saving, At
<1>5. CASE Rename(p)
  <2>1. file' \in Copy
    <3>1. file' = memory[p]
      BY <1>5, <1>b DEF Rename, SoleSaver
    <3>2. memory[p] \in Copy
      BY <1>5 DEF Rename, At, TypeOK, Running, Idle
    <3> QED
      BY <3>1, <3>2
  <2>2. \A q \in Procs \ {p} : call'[q] = call[q] /\ ~Saving(q)
    BY <1>5, <1>b DEF Rename, Return, TypeOK, SoleSaver, Saving
  <2>3. call'[p].pc = "idle"
    BY <1>5 DEF Rename, Return, TypeOK, Idle
  <2>4. \A q \in Procs : handle'[q] = "none"
    BY <1>5, <1>b, <2>2 DEF Rename, Moved, SoleSaver, Saving, At
  <2> QED
    BY <2>1, <2>2, <2>3, <2>4 DEF SoleSaver, Saving, At
<1>6. CASE SaveFails(p) \/ Dies(p)
  <2>1. \A q \in Procs \ {p} : call'[q] = call[q] /\ handle'[q] = handle[q] /\ memory'[q] = memory[q]
    BY <1>6 DEF SaveFails, Dies, Return, TypeOK
  <2>2. call'[p].pc = "idle" /\ handle'[p] = "none"
    BY <1>6 DEF SaveFails, Dies, Return, TypeOK, Idle
  <2>3. file' = file
    BY <1>6, <1>b DEF SaveFails, Dies, Put, SoleSaver
  <2>4. tmp' = tmp \/ \A q \in Procs \ {p} : ~Saving(q)
    <3>1. CASE At(p, "write")
      BY <3>1, <1>b DEF SoleSaver, Saving
    <3>2. CASE ~At(p, "write")
      BY <1>6, <3>2 DEF SaveFails, Dies
    <3> QED
      BY <3>1, <3>2
  <2> QED
    BY <1>b, <2>1, <2>2, <2>3, <2>4 DEF SoleSaver, Saving, At
<1> QED
  BY <1>1, <1>2, <1>3, <1>4, <1>5, <1>6

(* Whatever fails and whoever dies, the store can be loaded, unless two    *)
(* processes saved at once.                                                *)
THEOREM StoreIsWhole == Spec => []FileIsWhole
<1>1. Init => WholeInv
  BY NoneIsCopy DEF Init, WholeInv, SoleSaver, Saving, At, Idle
<1>2. WholeInv => FileIsWhole
  BY DEF WholeInv, FileIsWhole
<1> QED
  BY <1>1, <1>2, NextWhole, TypeCorrect, PTL DEF Spec

-----------------------------------------------------------------------------
(* What the file has of each key may be found there, and so may what every *)
(* process has that no other has overtaken; a change in progress is of a   *)
(* key in the copy.                                                        *)
OnFile(k) == IF file = NoFile THEN NoKey ELSE RecordOf(file, k)

KeysPresent == \A p \in Procs : call[p] # Idle => call[p].key \in DOMAIN memory[p].keys

Accounted ==
  /\ \A k \in Keys : OnFile(k) \in may[k]
  /\ \A p \in Procs \ stale : Running(p) => \A k \in Keys : RecordOf(memory[p], k) \in may[k]

AckInv == KeysPresent /\ may \in [Keys -> SUBSET (KeyRecord \cup {NoKey})] /\ (~met /\ ~lost => Accounted)

LEMMA RecordIsTyped ==
  ASSUME NEW copy \in Copy, NEW k \in Keys
  PROVE  RecordOf(copy, k) \in KeyRecord \cup {NoKey}
BY DEF Copy, RecordOf

LEMMA InitAck ==
  ASSUME Init
  PROVE  AckInv
<1>1. KeysPresent
  BY DEF Init, KeysPresent
<1>2. \A k \in Keys : may[k] = {NoKey}
  BY DEF Init
<1>3. may \in [Keys -> SUBSET (KeyRecord \cup {NoKey})]
  BY DEF Init
<1>4. Accounted
  BY <1>2 DEF Init, Accounted, OnFile, Running
<1> QED
  BY <1>1, <1>3, <1>4 DEF AckInv

(* A change begun: the copy's records may be found, and its own one more.  *)
LEMMA ChangeAck ==
  ASSUME TypeOK, AckInv, NEW p \in Procs, NEW k \in Keys, NEW copy \in Copy, ChangesOne(p, k, copy)
  PROVE  AckInv'
<1>1. PICK r \in KeyRecord : copy.keys = With(memory[p].keys, k, r)
  BY DEF ChangesOne
<1>2. BeginSave(p, k, copy) /\ memory[p] \in Copy
  BY DEF ChangesOne, BeginSave, TypeOK, Running
<1>3. copy.keys[k] = r /\ k \in DOMAIN copy.keys
  BY <1>1 DEF With
<1>4. \A j \in Keys \ {k} : RecordOf(copy, j) = RecordOf(memory[p], j)
  BY <1>1 DEF With, RecordOf
<1>5. RecordOf(copy, k) = copy.keys[k]
  BY <1>3 DEF RecordOf
<1>6. /\ \A j \in Keys : may[j] \subseteq may'[j]
      /\ copy.keys[k] \in may'[k]
      /\ may' \in [Keys -> SUBSET (KeyRecord \cup {NoKey})]
  BY <1>2, <1>3 DEF BeginSave, AckInv
<1>7. /\ memory'[p] = copy /\ \A q \in Procs \ {p} : memory'[q] = memory[q]
      /\ call'[p].key = k /\ \A q \in Procs \ {p} : call'[q] = call[q]
      /\ file' = file /\ met' = met /\ lost' = lost /\ stale' = stale
  BY <1>2 DEF BeginSave, TypeOK
<1>8. KeysPresent'
  BY <1>3, <1>7 DEF AckInv, KeysPresent
<1>9. ASSUME ~met, ~lost PROVE Accounted'
  <2>1. Accounted
    BY <1>9 DEF AckInv
  <2>2. \A j \in Keys : OnFile(j)' \in may'[j]
    BY <2>1, <1>6, <1>7 DEF Accounted, OnFile
  <2>3. ASSUME NEW q \in Procs \ stale, memory'[q] # NoFile, NEW j \in Keys
        PROVE  RecordOf(memory'[q], j) \in may'[j]
    <3>1. CASE q = p /\ j = k
      BY <3>1, <1>5, <1>6, <1>7
    <3>2. CASE q = p /\ j # k
      <4>1. RecordOf(memory[p], j) \in may[j]
        BY <2>1, <2>3, <3>2, <1>2 DEF Accounted, BeginSave
      <4> QED
        BY <4>1, <3>2, <1>4, <1>6, <1>7
    <3>3. CASE q # p
      BY <2>1, <2>3, <3>3, <1>6, <1>7 DEF Accounted, Running
    <3> QED
      BY <3>1, <3>2, <3>3
  <2> QED
    BY <2>2, <2>3, <1>7 DEF Accounted, Running
<1> QED
  BY <1>6, <1>7, <1>8, <1>9 DEF AckInv

(* A save that is not of an overtaken copy: what it puts on file may be    *)
(* found there, and is from now on all there is of its key.                *)
LEMMA RenameAck ==
  ASSUME TypeOK, TypeOK', WholeInv, AckInv, NEW p \in Procs, Rename(p)
  PROVE  AckInv'
<1> DEFINE key == call[p].key
<1>1. call[p] # Idle /\ key \in Keys /\ key \in DOMAIN memory[p].keys /\ memory[p] \in Copy
  BY DEF Rename, At, TypeOK, Running, Idle, AckInv, KeysPresent
<1>2. memory[p].keys[key] = RecordOf(memory[p], key)
  BY <1>1 DEF RecordOf
<1>3. RecordOf(memory[p], key) \in KeyRecord \cup {NoKey}
  BY <1>1, RecordIsTyped
<1>4. may' = [may EXCEPT ![key] = {RecordOf(memory[p], key)}]
  BY <1>2 DEF Rename
<1> HIDE DEF key
<1>5. may' \in [Keys -> SUBSET (KeyRecord \cup {NoKey})]
  BY <1>3, <1>4 DEF AckInv
<1>6. /\ call'[p] = Idle /\ \A q \in Procs \ {p} : call'[q] = call[q]
      /\ memory' = memory /\ met' = met /\ (lost' = (lost \/ p \in stale))
      /\ stale' = stale \cup {q \in Procs \ {p} : Running(q)} /\ file' = tmp
  BY DEF Rename, Return, TypeOK
<1>7. KeysPresent'
  BY <1>6 DEF AckInv, KeysPresent
<1>8. ASSUME ~met, ~lost, p \notin stale PROVE Accounted'
  <2>1. Accounted /\ tmp = memory[p]
    BY <1>8 DEF AckInv, WholeInv, SoleSaver, Rename
  <2>2. ASSUME NEW j \in Keys PROVE RecordOf(memory[p], j) \in may'[j]
    <3>1. RecordOf(memory[p], j) \in may[j]
      BY <2>1, <1>1, <1>8, NoneIsCopy DEF Accounted, Running
    <3> QED
      BY <3>1, <1>4 DEF AckInv
  <2>3. \A j \in Keys : OnFile(j)' \in may'[j]
    BY <2>1, <2>2, <1>1, <1>6, NoneIsCopy DEF OnFile
  <2>4. \A q \in Procs \ stale' : memory'[q] # NoFile => q = p
    BY <1>6 DEF Running
  <2> QED
    BY <2>2, <2>3, <2>4, <1>6 DEF Accounted, Running
<1> QED
  BY <1>5, <1>6, <1>7, <1>8 DEF AckInv

LEMMA NextAck ==
  ASSUME TypeOK, TypeOK', WholeInv, AckInv, [Next]_vars
  PROVE  AckInv'
<1> SUFFICES ASSUME NEW p \in Procs,
                    \/ Start(p) \/ Change(p) \/ FindDemoKeyAbsent(p) \/ RegisterDemoKey(p)
                    \/ OpenTemp(p) \/ Write(p) \/ Rename(p) \/ SaveFails(p) \/ Dies(p) \/ UNCHANGED vars
             PROVE  AckInv'
  <2>1. CASE UNCHANGED vars
    BY <2>1 DEF vars, AckInv, KeysPresent, Accounted, OnFile, Running
  <2> QED
    BY <2>1 DEF Next
<1>1. CASE Start(p)
  <2>1. /\ \A q \in Procs \ {p} : memory'[q] = memory[q]
        /\ memory'[p] = IF file = NoFile THEN Fresh ELSE file
        /\ call' = call /\ file' = file /\ may' = may /\ met' = met /\ lost' = lost
        /\ stale' = stale \ {p}
    BY <1>1 DEF Start, TypeOK
  <2>2. call[p] = Idle
    BY <1>1 DEF Start, TypeOK
  <2>3. KeysPresent'
    BY <2>1, <2>2 DEF AckInv, KeysPresent
  <2>4. \A k \in Keys : RecordOf(Fresh, k) = NoKey
    BY DEF RecordOf, Fresh
  <2>5. \A k \in Keys : RecordOf(memory'[p], k) = OnFile(k)
    BY <2>1, <2>4 DEF OnFile
  <2> QED
    BY <2>1, <2>3, <2>5 DEF AckInv, Accounted, OnFile, Running
<1>2. CASE Change(p) \/ RegisterDemoKey(p)
  BY <1>2, BeginsSave, ChangeAck
<1>3. CASE Rename(p)
  BY <1>3, RenameAck
<1>4. CASE FindDemoKeyAbsent(p) \/ UNCHANGED vars
  BY <1>4 DEF FindDemoKeyAbsent, vars, AckInv, KeysPresent, Accounted, OnFile, Running
<1>5. CASE OpenTemp(p) \/ Write(p)
  <2>1. /\ \A q \in Procs : call'[q] # Idle => call[q] # Idle /\ call'[q].key = call[q].key
        /\ memory' = memory /\ may' = may /\ lost' = lost /\ stale' = stale
        /\ ~met' => ~met
    BY <1>5 DEF OpenTemp, Write, TypeOK, At, Idle
  <2>2. ~met => file' = file
    BY <1>5 DEF OpenTemp, Write, Put, WholeInv, SoleSaver
  <2> QED
    BY <2>1, <2>2 DEF AckInv, KeysPresent, Accounted, OnFile, Running
<1>6. CASE SaveFails(p) \/ Dies(p)
  <2>1. /\ \A q \in Procs \ {p} : call'[q] = call[q] /\ memory'[q] = memory[q]
        /\ call'[p] = Idle /\ memory'[p] \in {memory[p], NoFile}
        /\ may' = may /\ lost' = lost /\ stale' = stale /\ met' = met
    BY <1>6 DEF SaveFails, Dies, Return, TypeOK
  <2>2. ~met => file' = file
    BY <1>6 DEF SaveFails, Dies, Put, WholeInv, SoleSaver
  <2> QED
    BY <2>1, <2>2 DEF AckInv, KeysPresent, Accounted, OnFile, Running
<1> QED
  BY <1>1, <1>2, <1>3, <1>4, <1>5, <1>6

(* For any processes, keys and secrets: what the file has of a key is the  *)
(* last change that was acknowledged or a later one that was begun, unless *)
(* two saves met or a process saved a copy that another had overtaken.     *)
THEOREM AcknowledgedStays == Spec => []AcknowledgedIsStored
<1>1. AckInv => AcknowledgedIsStored
  BY DEF AckInv, AcknowledgedIsStored, Accounted, OnFile
<1>2. Spec => []WholeInv
  <2>1. Init => WholeInv
    BY NoneIsCopy DEF Init, WholeInv, SoleSaver, Saving, At, Idle
  <2> QED
    BY <2>1, NextWhole, TypeCorrect, PTL DEF Spec
<1> QED
  BY <1>1, <1>2, InitAck, NextAck, TypeCorrect, PTL DEF Spec
=============================================================================
