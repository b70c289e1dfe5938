----------------------------- MODULE Provenance -----------------------------
(***************************************************************************)
(* The verification of inference records: provenance/verifier.py           *)
(* (verify_record) with the keys of crypto/keystore.py and the replay      *)
(* registry of storage/database.py (seen_nonces, session_sequences).       *)
(*                                                                         *)
(* Workers are the threads of the API server and the command-line          *)
(* processes; they share the database.  A registry operation is a SELECT   *)
(* followed by a write: sqlite3 opens a transaction at the first write, so *)
(* the SELECT is a step of its own and another worker may write between    *)
(* the two.                                                                *)
(*                                                                         *)
(* A signature or an HMAC is modelled by the key material it was computed  *)
(* with over this very payload: it verifies under that material and under  *)
(* no other.                                                               *)
(***************************************************************************)
EXTENDS Integers, Sequences

CONSTANTS
    Worker,        \* threads and processes that verify records
    Record,        \* the records submitted
    Content,       \* Content[r]: what record r says
    Session, Nonce,
    Key,           \* the keys registered in the trust store
    UnknownKey,    \* a key id the trust store does not hold
    Material,      \* key material
    PublicOf,      \* PublicOf[k]: public_key_hex of k
    SecretOf,      \* SecretOf[k]: hmac secret of k
    Mismatches,    \* what the caller's reference values may disagree on
    Enforced,      \* values of enforce_replay_checks
    StorageFails,  \* whether a database statement may fail
    Tolerance,     \* tolerance_seconds
    MaxCalls,      \* bound: calls of verify_record
    MaxTime,       \* bound: the wall clock
    Absent, Idle

Stream == Session \X (Key \cup {UnknownKey})

Contents == [nonce : Nonce, session : Session, key : Key \cup {UnknownKey, Absent},
             seq : Nat, ts : Nat, schema : {"1.0", "other"},
             signature : Material \cup {Absent}, hmac : Material \cup {Absent}]

References == {"image", "model", "preprocessing", "link"}

ASSUME RecordAssumption == Content \in [Record -> Contents]
ASSUME KeyAssumption ==
    /\ UnknownKey \notin Key
    /\ Absent \notin Key \cup {UnknownKey} \cup Material
    /\ PublicOf \in [Key -> Material \cup {Absent}]
    /\ SecretOf \in [Key -> Material \cup {Absent}]
ASSUME CallAssumption ==
    /\ Mismatches \subseteq SUBSET References
    /\ Enforced \subseteq BOOLEAN
    /\ StorageFails \in BOOLEAN
ASSUME NumberAssumption == Absent \notin Nat
ASSUME BoundAssumption == Tolerance \in Nat /\ MaxCalls \in Nat /\ MaxTime \in Nat

VARIABLES
    seen,      \* the table seen_nonces
    last,      \* the table session_sequences: last[stream], or Absent
    overtaken, \* the streams whose number was written over another than the writer had read
    active,    \* the keys that check_key_validity finds valid
    call,      \* call[w]: the verify_record call of w, or Idle
    begun,     \* the records verify_record was called with, in order
    accepted,  \* the valid verifications with replay checks, in the order of their commit
    unchecked, \* the valid verifications without replay checks
    now        \* the wall clock

history == << accepted, unchecked >>

vars == << seen, last, overtaken, active, call, begun, history, now >>

Findings == {"unknownKey", "inactiveKey", "wrongSignature", "wrongHmac", "unbound",
             "skew", "regression", "gap", "replayed"} \cup References

Outcomes == {"UNSUPPORTED", "TAMPERED_OUTPUT", "REPLAYED_RECORD", "SUBSTITUTED_MODEL",
             "EXPIRED_KEY", "UNVERIFIED_KEY", "VERIFIED_WITH_WARNING", "VERIFIED"}

Steps == {"readSequence", "writeSequence", "readNonce", "writeNonce", "answer"}

Calls == [id : Nat, rec : Record, bound : BOOLEAN, findings : SUBSET Findings,
          prev : Nat \cup {Absent}, step : Steps]

Acceptances == [rec : Record, outcome : Outcomes, prev : Nat \cup {Absent}, nonce : Nonce,
                stream : Session \X (Key \cup {UnknownKey, Absent}), seq : Nat,
                bound : BOOLEAN]

TypeOK ==
    /\ seen \in SUBSET Nonce
    /\ last \in [Stream -> Nat \cup {Absent}]
    /\ overtaken \in SUBSET Stream
    /\ active \in SUBSET Key
    /\ call \in [Worker -> Calls \cup {Idle}]
    /\ begun \in Seq(Record)
    /\ accepted \in Seq(Acceptances)
    /\ unchecked \in SUBSET Acceptances
    /\ now \in Nat

-----------------------------------------------------------------------------
(* The checks of verify_record that do not touch the registry.             *)

(* Mutant: the sequence kept for the session alone.                        *)
StreamOfSession(r) ==
    << Content[r].session, CHOOSE k \in Key : TRUE >>

(* The row of session_sequences a record belongs to.                       *)
StreamOf(r) == << Content[r].session, Content[r].key >>

(* Mutant: a key that is not valid any more is used all the same.          *)
KeyFindingsAnyStatus(r) == { f \in {"unknownKey"} : Content[r].key \notin Key }

(* Step 2: key resolution.                                                 *)
KeyFindings(r) ==
    { f \in {"unknownKey", "inactiveKey"} :
        \/ f = "unknownKey" /\ Content[r].key \notin Key
        \/ f = "inactiveKey" /\ Content[r].key \in Key \ active }

(* The material the bindings are checked with: none for an inactive key.   *)
PublicFor(r) == IF Content[r].key \in active THEN PublicOf[Content[r].key] ELSE Absent
SecretFor(r) == IF Content[r].key \in active THEN SecretOf[Content[r].key] ELSE Absent

SignatureVerifies(r) == Content[r].signature # Absent /\ PublicFor(r) = Content[r].signature
HmacVerifies(r) == Content[r].hmac # Absent /\ SecretFor(r) = Content[r].hmac

(* binding_verified.                                                       *)
BindingVerified(r) == SignatureVerifies(r) \/ HmacVerifies(r)

(* Step 3: a binding without material to check it against passes unnoticed. *)
BindingFindings(r) ==
    { f \in {"wrongSignature", "wrongHmac", "unbound"} :
        \/ /\ f = "wrongSignature"
           /\ Content[r].signature # Absent /\ PublicFor(r) # Absent /\ ~SignatureVerifies(r)
        \/ /\ f = "wrongHmac"
           /\ Content[r].hmac # Absent /\ SecretFor(r) # Absent /\ ~HmacVerifies(r)
        \/ f = "unbound" /\ Content[r].signature = Absent /\ Content[r].hmac = Absent }

(* Step 7: the absolute skew against the clock.                            *)
SkewFindings(r) ==
    { f \in {"skew"} : now - Content[r].ts > Tolerance \/ Content[r].ts - now > Tolerance }

(* Steps 2 to 8, given what the caller's references disagree on.           *)
StaticFindings(r, mismatch) ==
    KeyFindings(r) \cup BindingFindings(r) \cup mismatch \cup SkewFindings(r)

(* Findings with threat id IT-1 or IT-4: these alone are CRITICAL here.    *)
Tampering == {"wrongSignature", "wrongHmac", "unbound", "image", "link"}

(* is_crypto_verified; mutant: without binding_verified and the key.       *)
CryptoVerifiedByFindings(r, findings) == findings \cap Tampering = {}

CryptoVerified(r, findings) ==
    /\ BindingVerified(r)
    /\ findings \cap {"unknownKey", "inactiveKey"} = {}
    /\ findings \cap Tampering = {}

(* _synthesize_status: the first ground that applies.                      *)
SynthesizeStatus(findings) ==
    LET found(f) == findings \cap f # {} IN
    IF found(Tampering) THEN "TAMPERED_OUTPUT"
    ELSE IF found({"replayed", "regression", "skew"}) THEN "REPLAYED_RECORD"
    ELSE IF found({"model", "preprocessing"}) THEN "SUBSTITUTED_MODEL"
    ELSE IF found({"inactiveKey"}) THEN "EXPIRED_KEY"
    ELSE IF found({"unknownKey"}) THEN "UNVERIFIED_KEY"
    ELSE IF found({"gap"}) THEN "VERIFIED_WITH_WARNING"
    ELSE "VERIFIED"

IsValid(outcome) == outcome \in {"VERIFIED", "VERIFIED_WITH_WARNING"}

-----------------------------------------------------------------------------
Init ==
    /\ seen = {}
    /\ last = [s \in Stream |-> Absent] /\ overtaken = {}
    /\ active = Key
    /\ call = [w \in Worker |-> Idle]
    /\ begun = << >> /\ accepted = << >> /\ unchecked = {}
    /\ now = 0

Acceptance(r, bound, findings, prev) ==
    [rec |-> r, outcome |-> SynthesizeStatus(findings), prev |-> prev,
     nonce |-> Content[r].nonce, stream |-> StreamOf(r), seq |-> Content[r].seq, bound |-> bound]

(* A verification is decided: it counts as accepted when its outcome is valid. *)
Decide(r, enforced, bound, findings, prev) ==
    LET result == Acceptance(r, bound, findings, prev) IN
    /\ accepted' = IF enforced /\ IsValid(result.outcome)
                   THEN Append(accepted, result) ELSE accepted
    /\ unchecked' = IF ~enforced /\ IsValid(result.outcome)
                    THEN unchecked \cup {result} ELSE unchecked

(* verify_record of a record with another schema version: UNSUPPORTED,     *)
(* before anything else is looked at.                                      *)
RejectSchema(w, r) ==
    /\ call[w] = Idle
    /\ Len(begun) < MaxCalls
    /\ Content[r].schema # "1.0"
    /\ begun' = Append(begun, r)
    /\ UNCHANGED << seen, last, overtaken, active, call, history, now >>

(* verify_record without the registry: the caller turned replay checks     *)
(* off, or the record names no key.                                        *)
VerifyWithoutRegistry(w, r, enforced, mismatch) ==
    LET found == StaticFindings(r, mismatch) IN
    /\ call[w] = Idle
    /\ Len(begun) < MaxCalls
    /\ Content[r].schema = "1.0"
    /\ ~enforced \/ Content[r].key = Absent
    /\ begun' = Append(begun, r)
    /\ Decide(r, enforced, BindingVerified(r), found, Absent)
    /\ UNCHANGED << seen, last, overtaken, active, call, now >>

(* verify_record up to step 9: a record that is not cryptographically      *)
(* verified leaves the sequence alone; its nonce is registered all the     *)
(* same.                                                                   *)
BeginReplayChecks(w, r, mismatch) ==
    LET found == StaticFindings(r, mismatch) IN
    /\ call[w] = Idle
    /\ Len(begun) < MaxCalls
    /\ Content[r].schema = "1.0"
    /\ Content[r].key # Absent
    /\ begun' = Append(begun, r)
    /\ call' = [call EXCEPT ![w] =
                 [id |-> Len(begun'), rec |-> r, bound |-> BindingVerified(r),
                  findings |-> found, prev |-> Absent,
                  step |-> IF CryptoVerified(r, found) THEN "readSequence" ELSE "readNonce"]]
    /\ UNCHANGED << seen, last, overtaken, active, history, now >>

-----------------------------------------------------------------------------
(* The registry, one statement at a time.                                  *)

(* The call of w is over: it returns its result, or it raises StorageError *)
(* and its transaction is rolled back.                                     *)
End(w) == call' = [call EXCEPT ![w] = Idle]

At(w, step) == call[w] # Idle /\ call[w].step = step

GoTo(w, step, found, prev) ==
    call' = [call EXCEPT ![w] = [call[w] EXCEPT !.step = step, !.prev = prev,
                                                !.findings = call[w].findings \cup found]]

(* Mutant: the same number again is let through.                           *)
ReadSequenceLax(w) ==
    LET prev == last[StreamOf(call[w].rec)]
        seq == Content[call[w].rec].seq
    IN  /\ At(w, "readSequence")
        /\ IF prev # Absent /\ seq < prev
           THEN GoTo(w, "readNonce", {"regression"}, prev)
           ELSE GoTo(w, "writeSequence", {}, prev)
        /\ UNCHANGED << seen, last, overtaken, active, begun, history, now >>

(* Mutant: a regression is reported, the row is written all the same.      *)
ReadSequenceWritesAnyway(w) ==
    LET prev == last[StreamOf(call[w].rec)]
        seq == Content[call[w].rec].seq
    IN  /\ At(w, "readSequence")
        /\ GoTo(w, "writeSequence",
                { f \in {"regression"} : prev # Absent /\ seq <= prev }, prev)
        /\ UNCHANGED << seen, last, overtaken, active, begun, history, now >>

(* record_sequence_if_monotonic, the SELECT and the comparison.            *)
ReadSequence(w) ==
    LET prev == last[StreamOf(call[w].rec)]
        seq == Content[call[w].rec].seq
    IN  /\ At(w, "readSequence")
        /\ IF prev # Absent /\ seq <= prev
           THEN GoTo(w, "readNonce", {"regression"}, prev)
           ELSE GoTo(w, "writeSequence", {}, prev)
        /\ UNCHANGED << seen, last, overtaken, active, begun, history, now >>

(* Mutant: a gap of one record goes unnoticed.                             *)
GapFromTwo(seq, prev) == { f \in {"gap"} : prev # Absent /\ seq > prev + 2 }

GapFindings(seq, prev) == { f \in {"gap"} : prev # Absent /\ seq > prev + 1 }

(* record_sequence_if_monotonic, the write: an INSERT when the SELECT found *)
(* no row, which fails when another worker inserted one since; otherwise an *)
(* UPDATE whose WHERE clause does not compare the number again.            *)
WriteSequence(w) ==
    LET s == StreamOf(call[w].rec)
        seq == Content[call[w].rec].seq
        prev == call[w].prev
    IN  /\ At(w, "writeSequence")
        /\ IF prev = Absent /\ last[s] # Absent
           THEN End(w) /\ UNCHANGED << last, overtaken >>
           ELSE /\ last' = [last EXCEPT ![s] = seq]
                /\ overtaken' = overtaken \cup { q \in {s} : prev # last[s] }
                /\ GoTo(w, "readNonce", GapFindings(seq, prev), prev)
        /\ UNCHANGED << seen, active, begun, history, now >>

(* record_nonce_if_new, the SELECT: a nonce seen before ends the checks.   *)
ReadNonce(w) ==
    /\ At(w, "readNonce")
    /\ IF Content[call[w].rec].nonce \in seen
       THEN GoTo(w, "answer", {"replayed"}, call[w].prev)
       ELSE GoTo(w, "writeNonce", {}, call[w].prev)
    /\ UNCHANGED << seen, last, overtaken, active, begun, history, now >>

(* Mutant: the nonce inserted without regard to the primary key.           *)
WriteNonceOrIgnore(w) ==
    LET r == call[w].rec IN
    /\ At(w, "writeNonce")
    /\ seen' = seen \cup {Content[r].nonce}
    /\ GoTo(w, "answer", {}, call[w].prev)
    /\ Decide(r, TRUE, call[w].bound, call[w].findings, call[w].prev)
    /\ UNCHANGED << last, overtaken, active, begun, now >>

(* record_nonce_if_new, the INSERT: the primary key of seen_nonces refuses *)
(* a nonce another worker inserted since the SELECT.                       *)
WriteNonce(w) ==
    LET r == call[w].rec IN
    /\ At(w, "writeNonce")
    /\ IF Content[r].nonce \in seen
       THEN End(w) /\ UNCHANGED << seen, history >>
       ELSE /\ seen' = seen \cup {Content[r].nonce}
            /\ GoTo(w, "answer", {}, call[w].prev)
            /\ Decide(r, TRUE, call[w].bound, call[w].findings, call[w].prev)
    /\ UNCHANGED << last, overtaken, active, begun, now >>

(* verify_record returns its result.                                       *)
Answer(w) ==
    /\ At(w, "answer")
    /\ End(w)
    /\ UNCHANGED << seen, last, overtaken, active, begun, history, now >>

(* A statement of the registry fails (database locked, disk full).         *)
StatementFails(w) ==
    /\ StorageFails
    /\ call[w] # Idle /\ call[w].step # "answer"
    /\ End(w)
    /\ UNCHANGED << seen, last, overtaken, active, begun, history, now >>

(* The server stops: calls in flight vanish, what was committed stays.     *)
Crash ==
    /\ call' = [w \in Worker |-> Idle]
    /\ UNCHANGED << seen, last, overtaken, active, begun, history, now >>

(* A key becomes valid or invalid: set_key_status, registration, valid_until. *)
KeyStatusChanges(k) ==
    /\ active' = IF k \in active THEN active \ {k} ELSE active \cup {k}
    /\ UNCHANGED << seen, last, overtaken, call, begun, history, now >>

Tick ==
    /\ now < MaxTime
    /\ now' = now + 1
    /\ UNCHANGED << seen, last, overtaken, active, call, begun, history >>

VerifyRecord(w) ==
    \E r \in Record :
        \/ RejectSchema(w, r)
        \/ \E m \in Mismatches :
             \/ \E e \in Enforced : VerifyWithoutRegistry(w, r, e, m)
             \/ TRUE \in Enforced /\ BeginReplayChecks(w, r, m)

Registry(w) ==
    \/ ReadSequence(w) \/ WriteSequence(w)
    \/ ReadNonce(w) \/ WriteNonce(w)
    \/ Answer(w) \/ StatementFails(w)

Next ==
    \/ \E w \in Worker : VerifyRecord(w) \/ Registry(w)
    \/ Crash
    \/ \E k \in Key : KeyStatusChanges(k)
    \/ Tick

Spec == Init /\ [][Next]_vars

-----------------------------------------------------------------------------
(* Properties.                                                             *)

(* Two verifications with replay checks never both accept the same nonce,  *)
(* whatever the workers, crashes and failed statements do in between.      *)
NonceAcceptedOnce ==
    \A i, j \in DOMAIN accepted : i # j => accepted[i].nonce # accepted[j].nonce

(* A record that carries a signature or an HMAC of a registered key.       *)
Authentic(r) ==
    LET c == Content[r] IN
    /\ c.key \in Key
    /\ \/ c.signature # Absent /\ c.signature = PublicOf[c.key]
       \/ c.hmac # Absent /\ c.hmac = SecretOf[c.key]

(* The sequence of a stream is only ever set by a record of that stream    *)
(* whose signature or HMAC verifies under a registered key: a record that  *)
(* is not authenticated never advances it.                                 *)
AdvancedByBoundRecord ==
    \A s \in Stream : last[s] # Absent =>
        \E i \in DOMAIN begun :
            /\ Authentic(begun[i])
            /\ << Content[begun[i]].session, Content[begun[i]].key >> = s
            /\ Content[begun[i]].seq = last[s]

(* A valid outcome means that a signature or an HMAC of the record was     *)
(* verified, or that the key holds no material of the kind to verify it    *)
(* with: that case passes unnoticed.                                       *)
AcceptedIsBoundOrUncheckable ==
    \A a \in unchecked \cup { accepted[i] : i \in DOMAIN accepted } :
        LET c == Content[a.rec] IN
        \/ a.bound
        \/ c.key \in Key /\ c.signature # Absent /\ PublicOf[c.key] = Absent
        \/ c.key \in Key /\ c.hmac # Absent /\ SecretOf[c.key] = Absent

(* A record is called a replay only if its timestamp is off or if another  *)
(* call brought the same nonce, or a number of the same session and key    *)
(* that is no smaller: contributors cannot disturb each other's streams.   *)
AccusedHasCause ==
    \A w \in Worker : call[w] # Idle /\ {"replayed", "regression"} \cap call[w].findings # {} =>
        \E i \in DOMAIN begun \ {call[w].id} :
            LET c == Content[begun[i]] d == Content[call[w].rec] IN
            \/ c.nonce = d.nonce
            \/ c.session = d.session /\ c.key = d.key /\ c.seq >= d.seq

(* A record accepted without a warning was uncheckable, opened its stream, *)
(* or follows a record of the stream that carries the number before its    *)
(* own: dropped records are noticed, also when workers interleave.  A      *)
(* record without a verified binding skips the sequence, and the first one *)
(* of a stream may have any number: there nothing is noticed.              *)
GapNoticed ==
    \A i \in DOMAIN accepted :
        accepted[i].outcome = "VERIFIED" =>
            \/ ~accepted[i].bound
            \/ accepted[i].prev = Absent
            \/ \E j \in DOMAIN begun :
                 /\ StreamOf(begun[j]) = accepted[i].stream
                 /\ Content[begun[j]].seq = accepted[i].seq - 1

(* The last number of a stream never goes back.                            *)
SequenceNeverGoesBack ==
    [][ \A s \in Stream : last[s] # Absent => last'[s] # Absent /\ last'[s] >= last[s] ]_vars

(* It goes back in one case only: another worker wrote it between the      *)
(* SELECT and the UPDATE of the call that writes it.                       *)
Overtaken(s) ==
    \E w \in Worker :
        At(w, "writeSequence") /\ StreamOf(call[w].rec) = s /\ call[w].prev # last[s]

BackOnlyWhenOvertaken ==
    [][ \A s \in Stream : last[s] # Absent =>
            last'[s] # Absent /\ (last'[s] >= last[s] \/ Overtaken(s)) ]_vars

(* No call comes to an INSERT that the table refuses: while the database   *)
(* works, every call ends in an answer.                                    *)
NoCallRaises ==
    \A w \in Worker :
        /\ At(w, "writeNonce") => Content[call[w].rec].nonce \notin seen
        /\ At(w, "writeSequence") /\ call[w].prev = Absent =>
            last[StreamOf(call[w].rec)] = Absent

(* The verifier implements replay protection: what it accepts with the     *)
(* checks on is admitted by the registry, one nonce once, one opener for a *)
(* stream, and one record for a number while no call was overtaken.        *)
Protection == INSTANCE ReplayRegistry WITH Stream <- Session \X Key
ReplayProtection == Protection!Spec

=============================================================================
