-------------------------- MODULE ProvenanceProofs --------------------------
(***************************************************************************)
(* Theorems about Provenance, for any number of workers, records and keys: *)
(* type correctness, that a nonce is accepted once, that only              *)
(* authenticated records advance a sequence; that what is accepted was     *)
(* bound, that accusations have a cause and gaps are noticed; when a number *)
(* goes back, and that the registry implements ReplayRegistry.             *)
(***************************************************************************)
EXTENDS Provenance, SequenceTheorems, TLAPS

USE DEF history

(* An accepted nonce is in the table.                                      *)
AcceptedSeen ==
    \A i \in DOMAIN accepted : accepted[i].nonce \in seen

(* A call at the registry names a key; as long as it may still write the   *)
(* sequence it carries an authenticated record.                            *)
CallsSound ==
    \A w \in Worker : call[w] # Idle =>
        /\ Content[call[w].rec].key # Absent
        /\ call[w].step \in {"readSequence", "writeSequence"} =>
             /\ Authentic(call[w].rec)
             /\ \E i \in DOMAIN begun : begun[i] = call[w].rec

IInv == TypeOK /\ NonceAcceptedOnce /\ AcceptedSeen /\ CallsSound /\ AdvancedByBoundRecord

-----------------------------------------------------------------------------
(* The outcome of any findings is an outcome.                              *)
LEMMA StatusType == \A f : SynthesizeStatus(f) \in Outcomes
BY DEF SynthesizeStatus, Outcomes

(* The findings of the checks are findings.                                *)
LEMMA StaticType ==
    ASSUME NEW r, NEW m \in SUBSET References
    PROVE  StaticFindings(r, m) \in SUBSET Findings
BY DEF StaticFindings, KeyFindings, BindingFindings, SkewFindings, References, Findings

(* A record without a key id is never valid.                               *)
LEMMA UnkeyedInvalid ==
    ASSUME NEW r, Content[r].key = Absent, NEW m
    PROVE  ~IsValid(SynthesizeStatus(StaticFindings(r, m)))
<1>1. "unknownKey" \in StaticFindings(r, m)
    BY KeyAssumption DEF StaticFindings, KeyFindings
<1>2. StaticFindings(r, m) \cap {"unknownKey"} # {}
    BY <1>1
<1> QED
    BY <1>2 DEF SynthesizeStatus, IsValid

(* What is verified is authentic.                                          *)
LEMMA VerifiedAuthentic ==
    ASSUME NEW r, active \in SUBSET Key, BindingVerified(r)
    PROVE  Authentic(r)
BY DEF BindingVerified, SignatureVerifies, HmacVerifies, PublicFor, SecretFor, Authentic

(* A call of the registry goes on to a call.                               *)
LEMMA GoToType ==
    ASSUME TypeOK, NEW w \in Worker, call[w] # Idle, NEW step \in Steps,
           NEW found \in SUBSET Findings, NEW prev \in Nat \cup {Absent},
           GoTo(w, step, found, prev)
    PROVE  /\ call' \in [Worker -> Calls \cup {Idle}]
           /\ call'[w].rec = call[w].rec
           /\ call'[w].step = step
           /\ call'[w].id = call[w].id /\ call'[w].bound = call[w].bound
           /\ call'[w].findings = call[w].findings \cup found
           /\ call'[w].prev = prev
           /\ \A v \in Worker : v # w => call'[v] = call[v]
<1>1. call[w] \in Calls /\ call \in [Worker -> Calls \cup {Idle}]
    BY DEF TypeOK
<1> DEFINE after == [call[w] EXCEPT !.step = step, !.prev = prev,
                                    !.findings = call[w].findings \cup found]
<1>2. /\ after \in Calls /\ after.rec = call[w].rec /\ after.step = step
      /\ after.id = call[w].id /\ after.bound = call[w].bound
      /\ after.findings = call[w].findings \cup found /\ after.prev = prev
    BY <1>1 DEF Calls
<1>3. call' = [call EXCEPT ![w] = after]
    BY DEF GoTo
<1> QED
    BY <1>1, <1>2, <1>3

(* A call that ends leaves the others alone.                               *)
LEMMA EndType ==
    ASSUME TypeOK, NEW w \in Worker, call' = [call EXCEPT ![w] = Idle]
    PROVE  /\ call' \in [Worker -> Calls \cup {Idle}]
           /\ call'[w] = Idle
           /\ \A v \in Worker : v # w => call'[v] = call[v]
BY DEF TypeOK

(* What a verification that is decided adds to the history.                *)
LEMMA DecideEffect ==
    ASSUME TypeOK, NEW r \in Record, NEW enforced \in BOOLEAN, NEW bound \in BOOLEAN,
           NEW found, NEW prev \in Nat \cup {Absent},
           Decide(r, enforced, bound, found, prev)
    PROVE  LET new == Acceptance(r, bound, found, prev) IN
           /\ accepted' \in Seq(Acceptances) /\ unchecked' \in SUBSET Acceptances
           /\ new \in Acceptances
           /\ \/ accepted' = accepted
              \/ /\ enforced /\ IsValid(new.outcome)
                 /\ accepted' = Append(accepted, new)
           /\ \A a \in unchecked' : a \in unchecked \/ (a = new /\ IsValid(new.outcome))
<1> DEFINE new == Acceptance(r, bound, found, prev)
<1>1. Content[r] \in Contents
    BY RecordAssumption
<1>2. StreamOf(r) \in Session \X (Key \cup {UnknownKey, Absent})
    BY <1>1 DEF StreamOf, Contents
<1>3. new \in Acceptances
    BY <1>1, <1>2, StatusType DEF Acceptance, Acceptances, Contents
<1>4. accepted \in Seq(Acceptances) /\ unchecked \in SUBSET Acceptances
    BY DEF TypeOK
<1> HIDE DEF new
<1>5. /\ accepted' = IF enforced /\ IsValid(new.outcome) THEN Append(accepted, new) ELSE accepted
      /\ unchecked' = IF ~enforced /\ IsValid(new.outcome)
                      THEN unchecked \cup {new} ELSE unchecked
    BY DEF Decide, new
<1> QED
    BY <1>3, <1>4, <1>5, AppendProperties DEF new

(* The records given to verify_record only grow in number.                 *)
LEMMA BegunGrows ==
    ASSUME TypeOK, NEW r \in Record, begun' = Append(begun, r)
    PROVE  /\ begun' \in Seq(Record)
           /\ Len(begun') \in Nat
           /\ \A i \in DOMAIN begun : i \in DOMAIN begun' /\ begun'[i] = begun[i]
           /\ \E i \in DOMAIN begun' : begun'[i] = r
           /\ Len(begun') \in DOMAIN begun' /\ begun'[Len(begun')] = r
           /\ Len(begun') \notin DOMAIN begun
<1>1. begun \in Seq(Record)
    BY DEF TypeOK
<1> QED
    BY <1>1, AppendProperties

-----------------------------------------------------------------------------
(* The parts of the invariant under steps that leave their state alone.    *)
LEMMA AdvancedKept ==
    ASSUME AdvancedByBoundRecord, last' = last,
           \A i \in DOMAIN begun : i \in DOMAIN begun' /\ begun'[i] = begun[i]
    PROVE  AdvancedByBoundRecord'
<1> SUFFICES ASSUME NEW s \in Stream, last[s] # Absent
             PROVE  \E i \in DOMAIN begun' :
                        /\ Authentic(begun'[i])
                        /\ << Content[begun'[i]].session, Content[begun'[i]].key >> = s
                        /\ Content[begun'[i]].seq = last[s]
    BY DEF AdvancedByBoundRecord, Authentic
<1>1. PICK i \in DOMAIN begun :
            /\ Authentic(begun[i])
            /\ << Content[begun[i]].session, Content[begun[i]].key >> = s
            /\ Content[begun[i]].seq = last[s]
    BY DEF AdvancedByBoundRecord
<1>2. i \in DOMAIN begun' /\ begun'[i] = begun[i]
    OBVIOUS
<1> QED
    BY <1>1, <1>2

LEMMA CallsKept ==
    ASSUME CallsSound,
           \A i \in DOMAIN begun : i \in DOMAIN begun' /\ begun'[i] = begun[i],
           \A v \in Worker : call'[v] = call[v] \/ call'[v] = Idle
    PROVE  CallsSound'
BY DEF CallsSound, Authentic

(* One call moves on within the registry.                                  *)
LEMMA CallMoves ==
    ASSUME CallsSound, NEW w \in Worker, call[w] # Idle, begun' = begun,
           call'[w].rec = call[w].rec,
           call'[w].step \in {"readSequence", "writeSequence"} =>
               call[w].step \in {"readSequence", "writeSequence"},
           \A v \in Worker : v # w => call'[v] = call[v]
    PROVE  CallsSound'
<1> SUFFICES ASSUME NEW v \in Worker, call'[v] # Idle
             PROVE  /\ Content[call'[v].rec].key # Absent
                    /\ call'[v].step \in {"readSequence", "writeSequence"} =>
                         /\ Authentic(call'[v].rec)
                         /\ \E i \in DOMAIN begun : begun[i] = call'[v].rec
    BY DEF CallsSound, Authentic
<1>1. CASE v = w
    BY <1>1 DEF CallsSound
<1>2. CASE v # w
    BY <1>2 DEF CallsSound
<1> QED
    BY <1>1, <1>2

LEMMA NoncesKept ==
    ASSUME AcceptedSeen, NonceAcceptedOnce, accepted' = accepted, seen \subseteq seen'
    PROVE  AcceptedSeen' /\ NonceAcceptedOnce'
BY DEF AcceptedSeen, NonceAcceptedOnce

(* A verification whose nonce was not in the table and now is may be       *)
(* accepted.                                                               *)
LEMMA NoncesExtended ==
    ASSUME TypeOK, AcceptedSeen, NonceAcceptedOnce, NEW new \in Acceptances,
           accepted' = Append(accepted, new), seen \subseteq seen',
           new.nonce \notin seen, new.nonce \in seen'
    PROVE  AcceptedSeen' /\ NonceAcceptedOnce'
<1>1. /\ accepted \in Seq(Acceptances) /\ Len(accepted) \in Nat
      /\ DOMAIN accepted = 1 .. Len(accepted)
      /\ DOMAIN accepted' = 1 .. Len(accepted) + 1
      /\ accepted'[Len(accepted) + 1] = new
      /\ \A i \in DOMAIN accepted : accepted'[i] = accepted[i]
    BY AppendProperties DEF TypeOK
<1>2. AcceptedSeen'
    BY <1>1 DEF AcceptedSeen
<1>3. ASSUME NEW i \in DOMAIN accepted', NEW j \in DOMAIN accepted', i # j
      PROVE  accepted'[i].nonce # accepted'[j].nonce
    <2>1. CASE i \in DOMAIN accepted /\ j \in DOMAIN accepted
        BY <1>1, <1>3, <2>1 DEF NonceAcceptedOnce
    <2>2. CASE i = Len(accepted) + 1 \/ j = Len(accepted) + 1
        BY <1>1, <1>3, <2>2 DEF AcceptedSeen
    <2> QED
        BY <1>1, <2>1, <2>2
<1>4. NonceAcceptedOnce'
    BY <1>3 DEF NonceAcceptedOnce
<1> QED
    BY <1>2, <1>4

-----------------------------------------------------------------------------
(* The steps, one by one.                                                  *)
LEMMA InitInv == Init => IInv
<1> SUFFICES ASSUME Init PROVE IInv
    OBVIOUS
<1>1. TypeOK
    BY DEF Init, TypeOK
<1>2. NonceAcceptedOnce /\ AcceptedSeen
    BY DEF Init, NonceAcceptedOnce, AcceptedSeen
<1>3. CallsSound
    BY DEF Init, CallsSound
<1>4. AdvancedByBoundRecord
    BY DEF Init, AdvancedByBoundRecord
<1> QED
    BY <1>1, <1>2, <1>3, <1>4 DEF IInv

LEMMA RejectSchemaStep ==
    ASSUME IInv, NEW w \in Worker, NEW r \in Record, RejectSchema(w, r)
    PROVE  IInv'
<1> USE DEF IInv
<1>1. /\ UNCHANGED << seen, last, overtaken, active, call, history, now >>
      /\ begun' = Append(begun, r)
    BY DEF RejectSchema
<1>2. /\ begun' \in Seq(Record) /\ Len(begun') \in Nat
      /\ \A i \in DOMAIN begun : i \in DOMAIN begun' /\ begun'[i] = begun[i]
    BY <1>1, BegunGrows
<1>3. TypeOK'
    BY <1>1, <1>2 DEF TypeOK
<1>4. NonceAcceptedOnce' /\ AcceptedSeen'
    BY <1>1, NoncesKept
<1>5. CallsSound'
    BY <1>1, <1>2, CallsKept
<1>6. AdvancedByBoundRecord'
    BY <1>1, <1>2, AdvancedKept
<1> QED
    BY <1>3, <1>4, <1>5, <1>6

LEMMA VerifyWithoutRegistryStep ==
    ASSUME IInv, NEW w \in Worker, NEW r \in Record, NEW e \in Enforced,
           NEW m \in Mismatches, VerifyWithoutRegistry(w, r, e, m)
    PROVE  IInv'
<1> USE DEF IInv
<1> DEFINE found == StaticFindings(r, m)
<1>1. /\ UNCHANGED << seen, last, overtaken, active, call, now >>
      /\ ~e \/ Content[r].key = Absent
      /\ begun' = Append(begun, r)
      /\ Decide(r, e, BindingVerified(r), found, Absent)
    BY DEF VerifyWithoutRegistry
<1>2. e \in BOOLEAN /\ m \in SUBSET References /\ BindingVerified(r) \in BOOLEAN
    BY CallAssumption DEF BindingVerified, SignatureVerifies, HmacVerifies
<1>3. found \in SUBSET Findings
    BY <1>2, StaticType
<1>4. /\ begun' \in Seq(Record) /\ Len(begun') \in Nat
      /\ \A i \in DOMAIN begun : i \in DOMAIN begun' /\ begun'[i] = begun[i]
    BY <1>1, BegunGrows
<1>5. Content[r].key = Absent => ~IsValid(SynthesizeStatus(found))
    BY UnkeyedInvalid
<1> HIDE DEF found
<1>6. /\ accepted' \in Seq(Acceptances) /\ unchecked' \in SUBSET Acceptances
      /\ accepted' = accepted \/ (e /\ IsValid(SynthesizeStatus(found)))
    BY <1>1, <1>2, DecideEffect DEF Acceptance
<1>7. TypeOK'
    BY <1>1, <1>4, <1>6 DEF TypeOK
<1>8. accepted' = accepted
    BY <1>1, <1>5, <1>6
<1>9. NonceAcceptedOnce' /\ AcceptedSeen'
    BY <1>1, <1>8, NoncesKept
<1>10. CallsSound'
    BY <1>1, <1>4, CallsKept
<1>11. AdvancedByBoundRecord'
    BY <1>1, <1>4, AdvancedKept
<1> QED
    BY <1>7, <1>9, <1>10, <1>11

LEMMA BeginReplayChecksStep ==
    ASSUME IInv, NEW w \in Worker, NEW r \in Record, NEW m \in Mismatches,
           BeginReplayChecks(w, r, m)
    PROVE  IInv'
<1> USE DEF IInv
<1> DEFINE found == StaticFindings(r, m)
           new == [id |-> Len(begun'), rec |-> r, bound |-> BindingVerified(r),
                   findings |-> found, prev |-> Absent,
                   step |-> IF CryptoVerified(r, found) THEN "readSequence" ELSE "readNonce"]
<1>1. /\ UNCHANGED << seen, last, overtaken, active, history, now >>
      /\ Content[r].key # Absent
      /\ begun' = Append(begun, r)
      /\ call' = [call EXCEPT ![w] = new]
    BY DEF BeginReplayChecks
<1>2. m \in SUBSET References /\ BindingVerified(r) \in BOOLEAN
    BY CallAssumption DEF BindingVerified, SignatureVerifies, HmacVerifies
<1>3. found \in SUBSET Findings
    BY <1>2, StaticType
<1>4. /\ begun' \in Seq(Record) /\ Len(begun') \in Nat
      /\ \A i \in DOMAIN begun : i \in DOMAIN begun' /\ begun'[i] = begun[i]
      /\ \E i \in DOMAIN begun' : begun'[i] = r
    BY <1>1, BegunGrows
<1>5. CryptoVerified(r, found) => Authentic(r)
    BY VerifiedAuthentic DEF CryptoVerified, TypeOK
<1> HIDE DEF found
<1>6. /\ new \in Calls /\ new.rec = r
      /\ new.step = "readSequence" => Authentic(r)
      /\ new.step # "writeSequence"
    BY <1>2, <1>3, <1>4, <1>5 DEF Calls, Steps
<1> HIDE DEF new
<1>7. /\ call' \in [Worker -> Calls \cup {Idle}]
      /\ call'[w] = new
      /\ \A v \in Worker : v # w => call'[v] = call[v]
    BY <1>1, <1>6 DEF TypeOK
<1>8. TypeOK'
    BY <1>1, <1>4, <1>7 DEF TypeOK
<1>9. NonceAcceptedOnce' /\ AcceptedSeen'
    BY <1>1, NoncesKept
<1>10. CallsSound'
    <2> SUFFICES ASSUME NEW v \in Worker, call'[v] # Idle
                 PROVE  /\ Content[call'[v].rec].key # Absent
                        /\ call'[v].step \in {"readSequence", "writeSequence"} =>
                             /\ Authentic(call'[v].rec)
                             /\ \E i \in DOMAIN begun' : begun'[i] = call'[v].rec
        BY DEF CallsSound, Authentic
    <2>1. CASE v = w
        BY <1>1, <1>4, <1>6, <1>7, <2>1
    <2>2. CASE v # w
        BY <1>4, <1>7, <2>2 DEF CallsSound
    <2> QED
        BY <2>1, <2>2
<1>11. AdvancedByBoundRecord'
    BY <1>1, <1>4, AdvancedKept
<1> QED
    BY <1>8, <1>9, <1>10, <1>11

(* What is known of a call that stands at a step.                          *)
LEMMA CallType ==
    ASSUME TypeOK, CallsSound, NEW w \in Worker, call[w] # Idle
    PROVE  /\ call[w] \in Calls
           /\ Content[call[w].rec] \in Contents
           /\ StreamOf(call[w].rec) \in Stream
           /\ StreamOf(call[w].rec) = << Content[call[w].rec].session, Content[call[w].rec].key >>
<1>1. call[w] \in Calls
    BY DEF TypeOK
<1>2. call[w].rec \in Record
    BY <1>1 DEF Calls
<1>3. Content[call[w].rec] \in Contents
    BY <1>2, RecordAssumption
<1>4. Content[call[w].rec].key \in Key \cup {UnknownKey}
    BY <1>3 DEF CallsSound, Contents
<1> QED
    BY <1>1, <1>3, <1>4 DEF StreamOf, Stream, Contents

LEMMA ReadSequenceStep ==
    ASSUME IInv, NEW w \in Worker, ReadSequence(w)
    PROVE  IInv'
<1> USE DEF IInv
<1> DEFINE prev == last[StreamOf(call[w].rec)]
<1>1. /\ UNCHANGED << seen, last, overtaken, active, begun, history, now >>
      /\ call[w] # Idle /\ call[w].step = "readSequence"
      /\ \/ GoTo(w, "readNonce", {"regression"}, prev)
         \/ GoTo(w, "writeSequence", {}, prev)
    BY DEF ReadSequence, At
<1>2. prev \in Nat \cup {Absent}
    BY <1>1, CallType DEF TypeOK
<1>3. /\ {} \in SUBSET Findings /\ {"regression"} \in SUBSET Findings
      /\ "readNonce" \in Steps /\ "writeSequence" \in Steps
    BY DEF Findings, Steps
<1> HIDE DEF prev
<1>4. /\ call' \in [Worker -> Calls \cup {Idle}]
      /\ call'[w].rec = call[w].rec
      /\ \A v \in Worker : v # w => call'[v] = call[v]
    BY <1>1, <1>2, <1>3, GoToType
<1>5. TypeOK'
    BY <1>1, <1>4 DEF TypeOK
<1>6. NonceAcceptedOnce' /\ AcceptedSeen'
    BY <1>1, NoncesKept
<1>7. CallsSound'
    BY <1>1, <1>4, CallMoves
<1>8. AdvancedByBoundRecord'
    BY <1>1, AdvancedKept
<1> QED
    BY <1>5, <1>6, <1>7, <1>8

LEMMA WriteSequenceStep ==
    ASSUME IInv, NEW w \in Worker, WriteSequence(w)
    PROVE  IInv'
<1> USE DEF IInv
<1> DEFINE r == call[w].rec
           s == StreamOf(r)
           seq == Content[r].seq
           prev == call[w].prev
           gap == GapFindings(seq, prev)
<1>1. /\ UNCHANGED << seen, active, begun, history, now >>
      /\ call[w] # Idle /\ call[w].step = "writeSequence"
      /\ \/ End(w) /\ UNCHANGED << last, overtaken >>
         \/ /\ last' = [last EXCEPT ![s] = seq]
            /\ overtaken' = overtaken \cup { q \in {s} : prev # last[s] }
            /\ GoTo(w, "readNonce", gap, prev)
    BY DEF WriteSequence, At
<1>2. /\ call[w] \in Calls /\ Content[r] \in Contents /\ s \in Stream
      /\ s = << Content[r].session, Content[r].key >>
    BY <1>1, CallType
<1>3. seq \in Nat /\ prev \in Nat \cup {Absent} /\ call[w].id \in Nat
    BY <1>2 DEF Contents, Calls
<1>4. gap \in SUBSET Findings /\ "readNonce" \in Steps
    BY DEF GapFindings, Findings, Steps
<1>5. Authentic(r) /\ \E i \in DOMAIN begun : begun[i] = r
    BY <1>1 DEF CallsSound
<1>6. NonceAcceptedOnce' /\ AcceptedSeen'
    BY <1>1, NoncesKept
<1> HIDE DEF r, s, seq, prev, gap
<1>7. CASE End(w) /\ UNCHANGED << last, overtaken >>
    <2>1. call' = [call EXCEPT ![w] = Idle]
        BY <1>7 DEF End
    <2>2. /\ call' \in [Worker -> Calls \cup {Idle}]
          /\ \A v \in Worker : call'[v] = call[v] \/ call'[v] = Idle
        BY <2>1, EndType
    <2>3. TypeOK'
        BY <1>1, <1>3, <1>7, <2>1, <2>2 DEF TypeOK
    <2>4. CallsSound'
        BY <1>1, <2>2, CallsKept
    <2>5. AdvancedByBoundRecord'
        BY <1>1, <1>7, AdvancedKept
    <2> QED
        BY <1>6, <2>3, <2>4, <2>5
<1>8. CASE /\ last' = [last EXCEPT ![s] = seq]
           /\ overtaken' = overtaken \cup { q \in {s} : prev # last[s] }
           /\ GoTo(w, "readNonce", gap, prev)
    <2>1. /\ call' \in [Worker -> Calls \cup {Idle}]
          /\ call'[w].rec = call[w].rec
          /\ call'[w].step = "readNonce"
          /\ \A v \in Worker : v # w => call'[v] = call[v]
        BY <1>1, <1>3, <1>4, <1>8, GoToType
    <2>2. TypeOK'
        BY <1>1, <1>2, <1>3, <1>8, <2>1 DEF TypeOK
    <2>3. CallsSound'
        BY <1>1, <2>1, CallMoves
    <2>4. ASSUME NEW q \in Stream, last'[q] # Absent
          PROVE  \E i \in DOMAIN begun :
                    /\ Authentic(begun[i])
                    /\ << Content[begun[i]].session, Content[begun[i]].key >> = q
                    /\ Content[begun[i]].seq = last'[q]
        <3>1. CASE q = s
            <4>1. last'[q] = seq
                BY <1>2, <1>8, <3>1 DEF TypeOK
            <4> QED
                BY <1>2, <1>5, <3>1, <4>1 DEF seq
        <3>2. CASE q # s
            <4>1. last'[q] = last[q]
                BY <1>8, <3>2 DEF TypeOK
            <4> QED
                BY <2>4, <4>1 DEF AdvancedByBoundRecord
        <3> QED
            BY <3>1, <3>2
    <2>5. AdvancedByBoundRecord'
        BY <1>1, <2>4 DEF AdvancedByBoundRecord, Authentic
    <2> QED
        BY <1>6, <2>2, <2>3, <2>5
<1> QED
    BY <1>1, <1>7, <1>8

LEMMA ReadNonceStep ==
    ASSUME IInv, NEW w \in Worker, ReadNonce(w)
    PROVE  IInv'
<1> USE DEF IInv
<1>1. /\ UNCHANGED << seen, last, overtaken, active, begun, history, now >>
      /\ call[w] # Idle /\ call[w].step = "readNonce"
      /\ \/ GoTo(w, "answer", {"replayed"}, call[w].prev)
         \/ GoTo(w, "writeNonce", {}, call[w].prev)
    BY DEF ReadNonce, At
<1>2. call[w].prev \in Nat \cup {Absent}
    BY <1>1, CallType DEF Calls
<1>3. /\ {} \in SUBSET Findings /\ {"replayed"} \in SUBSET Findings
      /\ "answer" \in Steps /\ "writeNonce" \in Steps
    BY DEF Findings, Steps
<1>4. /\ call' \in [Worker -> Calls \cup {Idle}]
      /\ call'[w].rec = call[w].rec
      /\ call'[w].step \in {"answer", "writeNonce"}
      /\ \A v \in Worker : v # w => call'[v] = call[v]
    BY <1>1, <1>2, <1>3, GoToType
<1>5. TypeOK'
    BY <1>1, <1>4 DEF TypeOK
<1>6. NonceAcceptedOnce' /\ AcceptedSeen'
    BY <1>1, NoncesKept
<1>7. CallsSound'
    BY <1>1, <1>4, CallMoves
<1>8. AdvancedByBoundRecord'
    BY <1>1, AdvancedKept
<1> QED
    BY <1>5, <1>6, <1>7, <1>8

LEMMA WriteNonceStep ==
    ASSUME IInv, NEW w \in Worker, WriteNonce(w)
    PROVE  IInv'
<1> USE DEF IInv
<1> DEFINE r == call[w].rec
           n == Content[r].nonce
<1>1. /\ UNCHANGED << last, overtaken, active, begun, now >>
      /\ call[w] # Idle /\ call[w].step = "writeNonce"
      /\ \/ End(w) /\ UNCHANGED << seen, history >>
         \/ /\ n \notin seen
            /\ seen' = seen \cup {n}
            /\ GoTo(w, "answer", {}, call[w].prev)
            /\ Decide(r, TRUE, call[w].bound, call[w].findings, call[w].prev)
    BY DEF WriteNonce, At
<1>2. call[w] \in Calls /\ Content[r] \in Contents
    BY <1>1, CallType
<1>3. /\ r \in Record /\ n \in Nonce /\ call[w].id \in Nat /\ call[w].bound \in BOOLEAN
      /\ call[w].prev \in Nat \cup {Absent}
    BY <1>2 DEF Calls, Contents
<1>4. {} \in SUBSET Findings /\ "answer" \in Steps
    BY DEF Findings, Steps
<1>5. AdvancedByBoundRecord'
    BY <1>1, AdvancedKept
<1> HIDE DEF n, r
<1>6. CASE End(w) /\ UNCHANGED << seen, history >>
    <2>1. call' = [call EXCEPT ![w] = Idle]
        BY <1>6 DEF End
    <2>2. /\ call' \in [Worker -> Calls \cup {Idle}]
          /\ \A v \in Worker : call'[v] = call[v] \/ call'[v] = Idle
        BY <2>1, EndType
    <2>3. TypeOK'
        BY <1>1, <1>3, <1>6, <2>1, <2>2 DEF TypeOK
    <2>4. CallsSound'
        BY <1>1, <2>2, CallsKept
    <2>5. NonceAcceptedOnce' /\ AcceptedSeen'
        BY <1>6, NoncesKept
    <2> QED
        BY <1>5, <2>3, <2>4, <2>5
<1>7. CASE /\ n \notin seen
           /\ seen' = seen \cup {n}
           /\ GoTo(w, "answer", {}, call[w].prev)
           /\ Decide(r, TRUE, call[w].bound, call[w].findings, call[w].prev)
    <2>1. /\ call' \in [Worker -> Calls \cup {Idle}]
          /\ call'[w].rec = call[w].rec
          /\ call'[w].step = "answer"
          /\ \A v \in Worker : v # w => call'[v] = call[v]
        BY <1>1, <1>3, <1>4, <1>7, GoToType
    <2>2. /\ accepted' \in Seq(Acceptances) /\ unchecked' \in SUBSET Acceptances
          /\ \/ accepted' = accepted
             \/ \E new \in Acceptances : new.nonce = n /\ accepted' = Append(accepted, new)
        BY <1>3, <1>7, DecideEffect DEF n, Acceptance
    <2>3. TypeOK'
        BY <1>1, <1>3, <1>7, <2>1, <2>2 DEF TypeOK
    <2>4. CallsSound'
        BY <1>1, <2>1, CallMoves
    <2>5. NonceAcceptedOnce' /\ AcceptedSeen'
        BY <1>7, <2>2, NoncesKept, NoncesExtended
    <2> QED
        BY <1>5, <2>3, <2>4, <2>5
<1> QED
    BY <1>1, <1>6, <1>7

(* A call ends: an answer, a failed statement, a crash.                    *)
LEMMA EndStep ==
    ASSUME IInv, UNCHANGED << seen, last, overtaken, active, begun, history, now >>,
           call' \in [Worker -> Calls \cup {Idle}],
           \A v \in Worker : call'[v] = call[v] \/ call'[v] = Idle
    PROVE  IInv'
<1> USE DEF IInv
<1>1. TypeOK'
    BY DEF TypeOK
<1>2. NonceAcceptedOnce' /\ AcceptedSeen'
    BY NoncesKept
<1>3. CallsSound'
    BY CallsKept
<1>4. AdvancedByBoundRecord'
    BY AdvancedKept
<1> QED
    BY <1>1, <1>2, <1>3, <1>4

LEMMA AnswerStep ==
    ASSUME IInv, NEW w \in Worker, Answer(w) \/ StatementFails(w)
    PROVE  IInv'
<1>1. /\ UNCHANGED << seen, last, overtaken, active, begun, history, now >>
      /\ call' = [call EXCEPT ![w] = Idle]
    BY DEF Answer, StatementFails, End
<1>2. /\ call' \in [Worker -> Calls \cup {Idle}]
      /\ \A v \in Worker : call'[v] = call[v] \/ call'[v] = Idle
    BY <1>1, EndType DEF IInv
<1> QED
    BY <1>1, <1>2, EndStep

LEMMA SurroundingsStep ==
    ASSUME IInv,
           \/ Crash
           \/ \E k \in Key : KeyStatusChanges(k)
           \/ Tick
           \/ UNCHANGED vars
    PROVE  IInv'
<1> USE DEF IInv
<1>1. /\ UNCHANGED << seen, last, overtaken, begun, history >>
      /\ active' \in SUBSET Key
      /\ now' \in Nat
      /\ call' \in [Worker -> Calls \cup {Idle}]
      /\ \A v \in Worker : call'[v] = call[v] \/ call'[v] = Idle
    BY DEF Crash, KeyStatusChanges, Tick, vars, TypeOK
<1>2. TypeOK'
    BY <1>1 DEF TypeOK
<1>3. NonceAcceptedOnce' /\ AcceptedSeen'
    BY <1>1, NoncesKept
<1>4. CallsSound'
    BY <1>1, CallsKept
<1>5. AdvancedByBoundRecord'
    BY <1>1, AdvancedKept
<1> QED
    BY <1>2, <1>3, <1>4, <1>5

LEMMA NextStep == IInv /\ [Next]_vars => IInv'
<1> SUFFICES ASSUME IInv, [Next]_vars PROVE IInv'
    OBVIOUS
<1>1. ASSUME NEW w \in Worker, VerifyRecord(w) PROVE IInv'
    BY <1>1, RejectSchemaStep, VerifyWithoutRegistryStep, BeginReplayChecksStep
       DEF VerifyRecord
<1>2. ASSUME NEW w \in Worker, Registry(w) PROVE IInv'
    BY <1>2, ReadSequenceStep, WriteSequenceStep, ReadNonceStep, WriteNonceStep,
       AnswerStep DEF Registry
<1>3. CASE \/ Crash
           \/ \E k \in Key : KeyStatusChanges(k)
           \/ Tick
           \/ UNCHANGED vars
    BY <1>3, SurroundingsStep
<1> QED
    BY <1>1, <1>2, <1>3 DEF Next

(* The inductive invariant holds in every state the verifier reaches,      *)
(* however its workers' registry statements interleave.                    *)
THEOREM Invariance == Spec => []IInv
<1>1. Init => IInv
    BY InitInv
<1>2. IInv /\ [Next]_vars => IInv'
    BY NextStep
<1> QED
    BY <1>1, <1>2, PTL DEF Spec

-----------------------------------------------------------------------------
(* The variables of the verifier and of the replay registry keep their     *)
(* types.                                                                  *)
THEOREM VerifierTypeCorrect == Spec => []TypeOK
<1>1. IInv => TypeOK
    BY DEF IInv
<1> QED
    BY <1>1, Invariance, PTL

(* However many workers verify records, crash or fail: two enforced        *)
(* verifications never both accept one nonce.                              *)
THEOREM NoncesAcceptedOnce == Spec => []NonceAcceptedOnce
<1>1. IInv => NonceAcceptedOnce
    BY DEF IInv
<1> QED
    BY <1>1, Invariance, PTL

(* However many workers verify records: the number kept for a stream is    *)
(* that of an authenticated record of the stream.                          *)
THEOREM OnlyBoundRecordsAdvance == Spec => []AdvancedByBoundRecord
<1>1. IInv => AdvancedByBoundRecord
    BY DEF IInv
<1> QED
    BY <1>1, Invariance, PTL

-----------------------------------------------------------------------------
(* What the calls, the tables and the history owe to the records begun.    *)

(* Record r continues number n of its stream.                              *)
Follows(b, r, n) ==
    \E i \in DOMAIN b : StreamOf(b[i]) = StreamOf(r) /\ Content[b[i]].seq = n

(* The key of r holds no material of a kind r carries.                     *)
Uncheckable(r) ==
    LET c == Content[r] IN
    /\ c.key \in Key
    /\ \/ c.signature # Absent /\ PublicOf[c.key] = Absent
       \/ c.hmac # Absent /\ SecretOf[c.key] = Absent

(* The findings of a binding that was not verified.                        *)
Noticed == {"unknownKey", "inactiveKey", "wrongSignature", "wrongHmac", "unbound"}

(* Another call than c brought the nonce or a number of c's record.        *)
Caused(c, b) ==
    \E i \in DOMAIN b \ {c.id} :
        LET o == Content[b[i]] d == Content[c.rec] IN
        \/ o.nonce = d.nonce
        \/ o.session = d.session /\ o.key = d.key /\ o.seq >= d.seq

Known(c, b) == c.id \in DOMAIN b /\ b[c.id] = c.rec

BindingTold(c) ==
    /\ c.bound \/ Uncheckable(c.rec) \/ c.findings \cap Noticed # {}
    /\ Content[c.rec].key \in Key \/ "unknownKey" \in c.findings

(* The number a call found: a regression, a gap, or the one before.        *)
NumberTold(c, b) ==
    /\ c.step = "readSequence" => c.prev = Absent
    /\ c.prev # Absent =>
         /\ Follows(b, c.rec, c.prev)
         /\ \/ c.step # "writeSequence" /\ "regression" \in c.findings
            \/ /\ c.prev < Content[c.rec].seq
               /\ \/ c.step = "writeSequence"
                  \/ "gap" \in c.findings
                  \/ Content[c.rec].seq = c.prev + 1

AccusedSound(c, b) == {"replayed", "regression"} \cap c.findings # {} => Caused(c, b)

Sound(c, b) == Known(c, b) /\ BindingTold(c) /\ NumberTold(c, b) /\ AccusedSound(c, b)

CallsStory ==
    /\ \A w \in Worker : call[w] # Idle => Sound(call[w], begun)
    /\ \A v, w \in Worker :
         v # w /\ call[v] # Idle /\ call[w] # Idle => call[v].id # call[w].id

(* The call that began as number i is past these steps.                    *)
Past(i, steps, calls) ==
    \A w \in Worker : calls[w] # Idle /\ calls[w].step \in steps => calls[w].id # i

Writing == {"readSequence", "writeSequence"}
Open == Writing \cup {"readNonce", "writeNonce"}

(* Each row of the tables was written by a call that is past writing it.   *)
NoncesTold ==
    \A n \in seen : \E i \in DOMAIN begun : Content[begun[i]].nonce = n /\ Past(i, Open, call)

NumbersTold ==
    \A s \in Stream : last[s] # Absent =>
        \E i \in DOMAIN begun :
            StreamOf(begun[i]) = s /\ Content[begun[i]].seq = last[s] /\ Past(i, Writing, call)

Justified(a) == a.bound \/ Uncheckable(a.rec)

AcceptedSound(a, b) ==
    /\ Justified(a)
    /\ a.prev = Absent \/ a.prev < a.seq
    /\ a.prev # Absent /\ a.outcome = "VERIFIED" => Follows(b, a.rec, a.seq - 1)
    /\ a.stream = StreamOf(a.rec)

HistoryStory ==
    /\ \A i \in DOMAIN accepted : AcceptedSound(accepted[i], begun)
    /\ \A a \in unchecked : Justified(a)

Story == CallsStory /\ NoncesTold /\ NumbersTold /\ HistoryStory

-----------------------------------------------------------------------------
(* A valid outcome leaves no finding but a gap, and that not when VERIFIED. *)
LEMMA ValidMeans ==
    ASSUME NEW f, IsValid(SynthesizeStatus(f))
    PROVE  /\ f \cap Noticed = {}
           /\ "unknownKey" \notin f /\ "regression" \notin f
           /\ SynthesizeStatus(f) = "VERIFIED" => "gap" \notin f
<1>1. f \cap Tampering = {} /\ f \cap {"replayed", "regression", "skew"} = {}
    BY DEF SynthesizeStatus, IsValid
<1>2. f \cap {"inactiveKey"} = {} /\ f \cap {"unknownKey"} = {}
    BY DEF SynthesizeStatus, IsValid
<1>3. SynthesizeStatus(f) = "VERIFIED" => f \cap {"gap"} = {}
    BY DEF SynthesizeStatus
<1> QED
    BY <1>1, <1>2, <1>3 DEF Tampering, Noticed

(* A binding that is not verified is noticed, unless it cannot be checked. *)
LEMMA StaticTold ==
    ASSUME NEW r, NEW m
    PROVE  /\ \/ BindingVerified(r)
              \/ Uncheckable(r)
              \/ StaticFindings(r, m) \cap Noticed # {}
           /\ Content[r].key \in Key \/ "unknownKey" \in StaticFindings(r, m)
<1>1. Content[r].key \in Key \/ "unknownKey" \in StaticFindings(r, m)
    BY DEF StaticFindings, KeyFindings
<1>2. CASE Content[r].key \notin active
    <2>1. Content[r].key \notin Key \/ "inactiveKey" \in StaticFindings(r, m)
        BY <1>2 DEF StaticFindings, KeyFindings
    <2> QED
        BY <1>1, <2>1 DEF Noticed
<1>3. CASE Content[r].key \in active /\ ~BindingVerified(r)
    <2>1. PublicFor(r) = PublicOf[Content[r].key] /\ SecretFor(r) = SecretOf[Content[r].key]
        BY <1>3 DEF PublicFor, SecretFor
    <2>2. Content[r].signature # Absent /\ PublicFor(r) # Absent
            => "wrongSignature" \in StaticFindings(r, m)
        BY <1>3 DEF StaticFindings, BindingFindings, BindingVerified
    <2>3. Content[r].hmac # Absent /\ SecretFor(r) # Absent
            => "wrongHmac" \in StaticFindings(r, m)
        BY <1>3 DEF StaticFindings, BindingFindings, BindingVerified
    <2>4. Content[r].signature = Absent /\ Content[r].hmac = Absent
            => "unbound" \in StaticFindings(r, m)
        BY DEF StaticFindings, BindingFindings
    <2> QED
        BY <1>1, <2>1, <2>2, <2>3, <2>4 DEF Noticed, Uncheckable
<1> QED
    BY <1>1, <1>2, <1>3

(* The findings a verification begins with accuse nobody.                  *)
LEMMA StaticAccusesNobody ==
    ASSUME NEW r, NEW m \in SUBSET References
    PROVE  {"replayed", "regression"} \cap StaticFindings(r, m) = {}
BY DEF StaticFindings, KeyFindings, BindingFindings, SkewFindings, References

(* More records begun leave what was sound sound.                          *)
LEMMA SoundGrows ==
    ASSUME NEW b, NEW b2, \A i \in DOMAIN b : i \in DOMAIN b2 /\ b2[i] = b[i],
           NEW c, Sound(c, b)
    PROVE  Sound(c, b2)
<1>1. Known(c, b2)
    BY DEF Sound, Known
<1>2. NumberTold(c, b2)
    BY DEF Sound, NumberTold, Follows
<1>3. AccusedSound(c, b2)
    BY DEF Sound, AccusedSound, Caused
<1> QED
    BY <1>1, <1>2, <1>3 DEF Sound

LEMMA AcceptedGrows ==
    ASSUME NEW b, NEW b2, \A i \in DOMAIN b : i \in DOMAIN b2 /\ b2[i] = b[i],
           NEW a, AcceptedSound(a, b)
    PROVE  AcceptedSound(a, b2)
BY DEF AcceptedSound, Follows

LEMMA HistoryKept ==
    ASSUME HistoryStory, \A i \in DOMAIN begun : i \in DOMAIN begun' /\ begun'[i] = begun[i],
           UNCHANGED history
    PROVE  HistoryStory'
BY AcceptedGrows DEF HistoryStory

(* Calls that stay where they are or end.                                  *)
LEMMA StoryOfOthers ==
    ASSUME CallsStory, \A i \in DOMAIN begun : i \in DOMAIN begun' /\ begun'[i] = begun[i],
           \A v \in Worker : call'[v] = call[v] \/ call'[v] = Idle
    PROVE  CallsStory'
BY SoundGrows DEF CallsStory

(* The rows written before, when calls only begin, move on or end.         *)
LEMMA TablesKept ==
    ASSUME \A i \in DOMAIN begun : i \in DOMAIN begun' /\ begun'[i] = begun[i],
           \A v \in Worker : call'[v] # Idle =>
               \/ call'[v].id \notin DOMAIN begun
               \/ /\ call[v] # Idle /\ call[v].id = call'[v].id
                  /\ call'[v].step \in Open => call[v].step \in Open
                  /\ call'[v].step \in Writing => call[v].step \in Writing
    PROVE  /\ NoncesTold /\ seen' = seen => NoncesTold'
           /\ NumbersTold /\ last' = last => NumbersTold'
<1>1. ASSUME NEW i \in DOMAIN begun, Past(i, Open, call) PROVE Past(i, Open, call')
    BY <1>1 DEF Past
<1>2. ASSUME NEW i \in DOMAIN begun, Past(i, Writing, call) PROVE Past(i, Writing, call')
    BY <1>2 DEF Past
<1>3. ASSUME NoncesTold, seen' = seen PROVE NoncesTold'
    BY <1>1, <1>3 DEF NoncesTold
<1>4. ASSUME NumbersTold, last' = last PROVE NumbersTold'
    BY <1>2, <1>4 DEF NumbersTold
<1> QED
    BY <1>3, <1>4

-----------------------------------------------------------------------------
(* The story, step by step.                                                *)
LEMMA StoryInit == Init => Story
BY DEF Init, Story, CallsStory, NoncesTold, NumbersTold, HistoryStory

(* A call moves on: what remains to show is that it is sound where it is.  *)
LEMMA StoryMoves ==
    ASSUME IInv, Story, NEW w \in Worker, call[w] # Idle, begun' = begun, UNCHANGED history,
           call'[w].id = call[w].id, Sound(call'[w], begun),
           \A v \in Worker : v # w => call'[v] = call[v]
    PROVE  CallsStory' /\ HistoryStory'
<1>1. HistoryStory'
    BY HistoryKept DEF Story
<1>2. ASSUME NEW v \in Worker, call'[v] # Idle PROVE Sound(call'[v], begun')
    BY <1>2 DEF Story, CallsStory
<1>3. CallsStory'
    BY <1>2 DEF Story, CallsStory
<1> QED
    BY <1>1, <1>3

LEMMA RejectSchemaStory ==
    ASSUME IInv, Story, NEW w \in Worker, NEW r \in Record, RejectSchema(w, r)
    PROVE  Story'
<1>1. UNCHANGED << seen, last, call, history >> /\ begun' = Append(begun, r)
    BY DEF RejectSchema
<1>2. \A i \in DOMAIN begun : i \in DOMAIN begun' /\ begun'[i] = begun[i]
    BY <1>1, BegunGrows DEF IInv
<1> QED
    BY <1>1, <1>2, StoryOfOthers, TablesKept, HistoryKept DEF Story

LEMMA VerifyWithoutRegistryStory ==
    ASSUME IInv, Story, NEW w \in Worker, NEW r \in Record, NEW e \in Enforced,
           NEW m \in Mismatches, VerifyWithoutRegistry(w, r, e, m)
    PROVE  Story' /\ accepted' = accepted
<1> DEFINE found == StaticFindings(r, m)
           new == Acceptance(r, BindingVerified(r), found, Absent)
<1>1. /\ UNCHANGED << seen, last, call >>
      /\ ~e \/ Content[r].key = Absent
      /\ begun' = Append(begun, r)
      /\ Decide(r, e, BindingVerified(r), found, Absent)
    BY DEF VerifyWithoutRegistry
<1>2. e \in BOOLEAN /\ BindingVerified(r) \in BOOLEAN
    BY CallAssumption DEF BindingVerified, SignatureVerifies, HmacVerifies
<1>3. \A i \in DOMAIN begun : i \in DOMAIN begun' /\ begun'[i] = begun[i]
    BY <1>1, BegunGrows DEF IInv
<1>4. /\ Content[r].key = Absent => ~IsValid(SynthesizeStatus(found))
      /\ BindingVerified(r) \/ Uncheckable(r) \/ found \cap Noticed # {}
    BY UnkeyedInvalid, StaticTold
<1> HIDE DEF found
<1>5. /\ new.outcome = SynthesizeStatus(found) /\ new.bound = BindingVerified(r)
      /\ new.rec = r
    BY DEF Acceptance
<1>6. /\ accepted' = accepted \/ (e /\ IsValid(new.outcome))
      /\ \A a \in unchecked' : a \in unchecked \/ (a = new /\ IsValid(new.outcome))
    <2>1. /\ accepted' = IF e /\ IsValid(new.outcome) THEN Append(accepted, new) ELSE accepted
          /\ unchecked' = IF ~e /\ IsValid(new.outcome) THEN unchecked \cup {new} ELSE unchecked
        BY <1>1 DEF Decide
    <2> HIDE DEF new
    <2> QED
        BY <2>1
<1>7. accepted' = accepted
    BY <1>1, <1>4, <1>5, <1>6
<1>8. IsValid(new.outcome) => Justified(new)
    BY <1>4, <1>5, ValidMeans DEF Justified
<1> HIDE DEF new
<1>9. HistoryStory'
    <2>1. \A i \in DOMAIN accepted' : AcceptedSound(accepted'[i], begun')
        BY <1>3, <1>7, AcceptedGrows DEF Story, HistoryStory
    <2>2. \A a \in unchecked' : Justified(a)
        BY <1>6, <1>8 DEF Story, HistoryStory
    <2> QED
        BY <2>1, <2>2 DEF HistoryStory
<1> QED
    BY <1>1, <1>3, <1>7, <1>9, StoryOfOthers, TablesKept DEF Story

LEMMA BeginReplayChecksStory ==
    ASSUME IInv, Story, NEW w \in Worker, NEW r \in Record, NEW m \in Mismatches,
           BeginReplayChecks(w, r, m)
    PROVE  Story'
<1> DEFINE found == StaticFindings(r, m)
           new == [id |-> Len(begun'), rec |-> r, bound |-> BindingVerified(r),
                   findings |-> found, prev |-> Absent,
                   step |-> IF CryptoVerified(r, found) THEN "readSequence" ELSE "readNonce"]
<1>1. /\ UNCHANGED << seen, last, history >>
      /\ begun' = Append(begun, r)
      /\ call[w] = Idle
      /\ call' = [call EXCEPT ![w] = new]
    BY DEF BeginReplayChecks
<1>2. /\ \A i \in DOMAIN begun : i \in DOMAIN begun' /\ begun'[i] = begun[i]
      /\ Len(begun') \in DOMAIN begun' /\ begun'[Len(begun')] = r
      /\ Len(begun') \notin DOMAIN begun
    BY <1>1, BegunGrows DEF IInv
<1>3. /\ BindingVerified(r) \/ Uncheckable(r) \/ found \cap Noticed # {}
      /\ Content[r].key \in Key \/ "unknownKey" \in found
      /\ {"replayed", "regression"} \cap found = {}
    BY StaticTold, StaticAccusesNobody, CallAssumption
<1> HIDE DEF found
<1>4. Sound(new, begun')
    BY <1>2, <1>3 DEF Sound, Known, BindingTold, NumberTold, AccusedSound
<1>5. new.id = Len(begun')
    OBVIOUS
<1> HIDE DEF new
<1>6. call'[w] = new /\ \A v \in Worker : v # w => call'[v] = call[v]
    BY <1>1 DEF IInv, TypeOK
<1>7. ASSUME NEW v \in Worker, call'[v] # Idle, v # w
      PROVE  Sound(call'[v], begun') /\ call'[v].id \in DOMAIN begun
    <2>1. Sound(call[v], begun)
        BY <1>6, <1>7 DEF Story, CallsStory
    <2> QED
        BY <1>2, <1>6, <1>7, <2>1, SoundGrows DEF Sound, Known
<1>8. CallsStory'
    <2>1. \A v \in Worker : call'[v] # Idle => Sound(call'[v], begun')
        BY <1>4, <1>6, <1>7
    <2>2. ASSUME NEW u \in Worker, NEW v \in Worker, u # v, call'[u] # Idle, call'[v] # Idle
          PROVE  call'[u].id # call'[v].id
        <3>1. CASE u # w /\ v # w
            BY <1>6, <2>2, <3>1 DEF Story, CallsStory
        <3>2. CASE u = w \/ v = w
            BY <1>2, <1>5, <1>6, <1>7, <2>2, <3>2
        <3> QED
            BY <3>1, <3>2
    <2> QED
        BY <2>1, <2>2 DEF CallsStory
<1>9. \A v \in Worker : call'[v] # Idle =>
        \/ call'[v].id \notin DOMAIN begun
        \/ call'[v] = call[v]
    BY <1>2, <1>5, <1>6
<1>10. NoncesTold' /\ NumbersTold'
    BY <1>1, <1>2, <1>9, TablesKept DEF Story
<1>11. HistoryStory'
    BY <1>1, <1>2, HistoryKept DEF Story
<1> QED
    BY <1>8, <1>10, <1>11 DEF Story

(* What a call has told already it still tells after the next statement.   *)
LEMMA GoToSound ==
    ASSUME IInv, Story, NEW w \in Worker, call[w] # Idle, NEW step \in Steps,
           NEW found \in SUBSET Findings, NEW prev \in Nat \cup {Absent},
           GoTo(w, step, found, prev), NumberTold(call'[w], begun),
           {"replayed", "regression"} \cap found # {} => Caused(call[w], begun)
    PROVE  Sound(call'[w], begun)
<1>1. /\ call'[w].rec = call[w].rec /\ call'[w].id = call[w].id
      /\ call'[w].bound = call[w].bound
      /\ call'[w].findings = call[w].findings \cup found
    BY GoToType DEF IInv
<1>2. Sound(call[w], begun)
    BY DEF Story, CallsStory
<1>3. Known(call'[w], begun)
    BY <1>1, <1>2 DEF Sound, Known
<1>4. BindingTold(call'[w])
    BY <1>1, <1>2 DEF Sound, BindingTold
<1>5. AccusedSound(call'[w], begun)
    <2>1. Caused(call[w], begun) => Caused(call'[w], begun)
        BY <1>1 DEF Caused
    <2> QED
        BY <1>1, <1>2, <2>1 DEF Sound, AccusedSound
<1> QED
    BY <1>3, <1>4, <1>5 DEF Sound

LEMMA ReadSequenceStory ==
    ASSUME IInv, Story, NEW w \in Worker, ReadSequence(w)
    PROVE  Story'
<1> DEFINE c == call[w]
           prev == last[StreamOf(c.rec)]
           seq == Content[c.rec].seq
<1>1. /\ UNCHANGED << seen, last, begun, history >>
      /\ c # Idle /\ c.step = "readSequence"
      /\ IF prev # Absent /\ seq <= prev
         THEN GoTo(w, "readNonce", {"regression"}, prev)
         ELSE GoTo(w, "writeSequence", {}, prev)
    BY DEF ReadSequence, At
<1>2. /\ c \in Calls /\ Content[c.rec] \in Contents /\ StreamOf(c.rec) \in Stream
      /\ prev \in Nat \cup {Absent} /\ seq \in Nat
    BY <1>1, CallType DEF IInv, TypeOK, Contents
<1>3. /\ {} \in SUBSET Findings /\ {"regression"} \in SUBSET Findings
      /\ "readNonce" \in Steps /\ "writeSequence" \in Steps
    BY DEF Findings, Steps
<1>4. ASSUME prev # Absent
      PROVE  \E i \in DOMAIN begun :
                 /\ StreamOf(begun[i]) = StreamOf(c.rec)
                 /\ Content[begun[i]].seq = prev
                 /\ i # c.id
    BY <1>1, <1>2, <1>4 DEF Story, NumbersTold, Past, Writing
<1>5. prev # Absent => Follows(begun, c.rec, prev)
    BY <1>4 DEF Follows
<1>6. CASE prev # Absent /\ seq <= prev
    <2>1. Caused(c, begun)
        <3>1. PICK i \in DOMAIN begun :
                 /\ StreamOf(begun[i]) = StreamOf(c.rec)
                 /\ Content[begun[i]].seq = prev
                 /\ i # c.id
            BY <1>4, <1>6
        <3> QED
            BY <1>2, <1>6, <3>1 DEF Caused, StreamOf
    <2> HIDE DEF prev, seq
    <2>2. GoTo(w, "readNonce", {"regression"}, prev)
        BY <1>1, <1>6
    <2>3. /\ call'[w].rec = c.rec /\ call'[w].id = c.id /\ call'[w].prev = prev
          /\ call'[w].step = "readNonce"
          /\ call'[w].findings = c.findings \cup {"regression"}
          /\ \A v \in Worker : v # w => call'[v] = call[v]
        BY <1>1, <1>2, <1>3, <2>2, GoToType DEF IInv
    <2>4. NumberTold(call'[w], begun)
        BY <1>5, <2>3 DEF NumberTold
    <2>5. Sound(call'[w], begun)
        BY <1>1, <1>2, <1>3, <2>1, <2>2, <2>4, GoToSound
    <2>6. CallsStory' /\ HistoryStory'
        BY <1>1, <2>3, <2>5, StoryMoves
    <2>7. NoncesTold' /\ NumbersTold'
        BY <1>1, <2>3, TablesKept DEF Story, Open, Writing
    <2> QED
        BY <2>6, <2>7 DEF Story
<1>7. CASE prev = Absent \/ ~(seq <= prev)
    <2>1. prev # Absent => prev < seq
        BY <1>2, <1>7
    <2>2. GoTo(w, "writeSequence", {}, prev)
        BY <1>1, <1>7
    <2>3. seq = Content[c.rec].seq
        OBVIOUS
    <2> HIDE DEF prev, seq
    <2>4. /\ call'[w].rec = c.rec /\ call'[w].id = c.id /\ call'[w].prev = prev
          /\ call'[w].step = "writeSequence"
          /\ \A v \in Worker : v # w => call'[v] = call[v]
        BY <1>1, <1>2, <1>3, <2>2, GoToType DEF IInv
    <2>5. NumberTold(call'[w], begun)
        BY <1>5, <2>1, <2>3, <2>4 DEF NumberTold
    <2>6. Sound(call'[w], begun)
        BY <1>1, <1>2, <1>3, <2>2, <2>5, GoToSound
    <2>7. CallsStory' /\ HistoryStory'
        BY <1>1, <2>4, <2>6, StoryMoves
    <2>8. NoncesTold' /\ NumbersTold'
        BY <1>1, <2>4, TablesKept DEF Story, Open, Writing
    <2> QED
        BY <2>7, <2>8 DEF Story
<1> QED
    BY <1>6, <1>7

LEMMA ReadNonceStory ==
    ASSUME IInv, Story, NEW w \in Worker, ReadNonce(w)
    PROVE  Story'
<1> DEFINE c == call[w]
           n == Content[c.rec].nonce
           step == IF n \in seen THEN "answer" ELSE "writeNonce"
           found == IF n \in seen THEN {"replayed"} ELSE {}
<1>1. /\ UNCHANGED << seen, last, begun, history >>
      /\ c # Idle /\ c.step = "readNonce"
      /\ GoTo(w, step, found, c.prev)
    BY DEF ReadNonce, At
<1>2. c \in Calls /\ c.prev \in Nat \cup {Absent}
    BY <1>1, CallType DEF IInv, Calls
<1>3. found \in SUBSET Findings /\ step \in Steps /\ step \in {"answer", "writeNonce"}
    BY DEF Findings, Steps
<1>4. {"replayed", "regression"} \cap found # {} => Caused(c, begun)
    <2> SUFFICES ASSUME n \in seen PROVE Caused(c, begun)
        OBVIOUS
    <2>1. PICK i \in DOMAIN begun : Content[begun[i]].nonce = n /\ Past(i, Open, call)
        BY DEF Story, NoncesTold
    <2>2. i # c.id
        BY <1>1, <2>1 DEF Past, Open
    <2> QED
        BY <2>1, <2>2 DEF Caused
<1> HIDE DEF found, step
<1>5. /\ call'[w].rec = c.rec /\ call'[w].id = c.id /\ call'[w].prev = c.prev
      /\ call'[w].step = step
      /\ call'[w].findings = c.findings \cup found
      /\ \A v \in Worker : v # w => call'[v] = call[v]
    BY <1>1, <1>2, <1>3, GoToType DEF IInv
<1>6. NumberTold(call'[w], begun)
    BY <1>1, <1>3, <1>5 DEF Story, CallsStory, Sound, NumberTold
<1>7. Sound(call'[w], begun)
    BY <1>1, <1>2, <1>3, <1>4, <1>6, GoToSound
<1>8. CallsStory' /\ HistoryStory'
    BY <1>1, <1>5, <1>7, StoryMoves
<1>9. NoncesTold' /\ NumbersTold'
    BY <1>1, <1>3, <1>5, TablesKept DEF Story, Open, Writing
<1> QED
    BY <1>8, <1>9 DEF Story

(* A call ends: an answer, a failed statement, a crash; nothing else moves. *)
LEMMA EndStory ==
    ASSUME IInv, Story, UNCHANGED << seen, last, begun, history >>,
           \A v \in Worker : call'[v] = call[v] \/ call'[v] = Idle
    PROVE  Story'
BY StoryOfOthers, TablesKept, HistoryKept DEF Story

LEMMA WriteSequenceStory ==
    ASSUME IInv, Story, NEW w \in Worker, WriteSequence(w)
    PROVE  Story'
<1> DEFINE c == call[w]
           s == StreamOf(c.rec)
           seq == Content[c.rec].seq
           gap == GapFindings(seq, c.prev)
<1>1. /\ UNCHANGED << seen, begun, history >>
      /\ c # Idle /\ c.step = "writeSequence"
      /\ \/ End(w) /\ UNCHANGED last
         \/ /\ last' = [last EXCEPT ![s] = seq]
            /\ GoTo(w, "readNonce", gap, c.prev)
    BY DEF WriteSequence, At
<1>2. /\ c \in Calls /\ s \in Stream /\ seq \in Nat
      /\ c.prev \in Nat \cup {Absent}
    BY <1>1, CallType DEF IInv, Calls, Contents
<1>3. /\ gap \in SUBSET Findings /\ "readNonce" \in Steps
      /\ {"replayed", "regression"} \cap gap = {}
    BY DEF GapFindings, Findings, Steps
<1>4. Sound(c, begun)
    BY <1>1 DEF Story, CallsStory
<1>5. CASE End(w) /\ UNCHANGED last
    BY <1>1, <1>5, EndType, EndStory DEF End, IInv
<1>6. CASE /\ last' = [last EXCEPT ![s] = seq]
           /\ GoTo(w, "readNonce", gap, c.prev)
    <2>1. c.prev # Absent => c.prev < seq \/ "regression" \in c.findings
        BY <1>4 DEF Sound, NumberTold
    <2>2. c.prev # Absent /\ c.prev < seq => "gap" \in gap \/ seq = c.prev + 1
        BY <1>2 DEF GapFindings
    <2>3. last' = [last EXCEPT ![s] = Content[c.rec].seq] /\ seq = Content[c.rec].seq
        BY <1>6
    <2> HIDE DEF gap, seq
    <2>4. /\ call'[w].rec = c.rec /\ call'[w].id = c.id /\ call'[w].prev = c.prev
          /\ call'[w].step = "readNonce"
          /\ call'[w].findings = c.findings \cup gap
          /\ \A v \in Worker : v # w => call'[v] = call[v]
        BY <1>1, <1>2, <1>3, <1>6, GoToType DEF IInv
    <2>5. NumberTold(call'[w], begun)
        <3>1. c.prev # Absent => Follows(begun, c.rec, c.prev)
            BY <1>4 DEF Sound, NumberTold
        <3> QED
            BY <2>1, <2>2, <2>3, <2>4, <3>1 DEF NumberTold
    <2>6. Sound(call'[w], begun)
        BY <1>1, <1>2, <1>3, <1>6, <2>5, GoToSound
    <2>7. CallsStory' /\ HistoryStory'
        BY <1>1, <2>4, <2>6, StoryMoves
    <2>8. \A v \in Worker : call'[v] # Idle =>
              /\ call[v] # Idle /\ call[v].id = call'[v].id
              /\ call'[v].step \in Open => call[v].step \in Open
              /\ call'[v].step \in Writing => call[v].step \in Writing
        BY <1>1, <2>4 DEF Open, Writing
    <2>9. NoncesTold'
        BY <1>1, <2>8, TablesKept DEF Story
    <2>10. ASSUME NEW q \in Stream, last'[q] # Absent
           PROVE  \E i \in DOMAIN begun :
                     /\ StreamOf(begun[i]) = q
                     /\ Content[begun[i]].seq = last'[q]
                     /\ Past(i, Writing, call')
        <3>1. CASE q = s
            <4>1. c.id \in DOMAIN begun /\ begun[c.id] = c.rec
                BY <1>4 DEF Sound, Known
            <4>2. \A v \in Worker : v # w /\ call[v] # Idle => call[v].id # c.id
                BY <1>1 DEF Story, CallsStory
            <4>3. Past(c.id, Writing, call')
                BY <2>4, <4>2 DEF Past, Writing
            <4>4. last'[q] = Content[c.rec].seq
                BY <1>2, <2>3, <3>1 DEF IInv, TypeOK
            <4> QED
                BY <3>1, <4>1, <4>3, <4>4
        <3>2. CASE q # s
            <4>1. last'[q] = last[q]
                BY <1>6, <3>2 DEF IInv, TypeOK
            <4>2. PICK i \in DOMAIN begun :
                     /\ StreamOf(begun[i]) = q
                     /\ Content[begun[i]].seq = last[q]
                     /\ Past(i, Writing, call)
                BY <2>10, <4>1 DEF Story, NumbersTold
            <4>3. Past(i, Writing, call')
                BY <2>8, <4>2 DEF Past
            <4> QED
                BY <4>1, <4>2, <4>3
        <3> QED
            BY <3>1, <3>2
    <2>11. NumbersTold'
        BY <1>1, <2>10 DEF NumbersTold
    <2> QED
        BY <2>7, <2>9, <2>11 DEF Story
<1> QED
    BY <1>1, <1>5, <1>6

(* What a call ready to be decided is accepted as.                         *)
LEMMA AcceptanceSound ==
    ASSUME NEW c \in Calls, NEW b, Sound(c, b), c.step = "writeNonce",
           Content[c.rec] \in Contents,
           IsValid(SynthesizeStatus(c.findings))
    PROVE  /\ AcceptedSound(Acceptance(c.rec, c.bound, c.findings, c.prev), b)
           /\ Content[c.rec].key \in Key
<1> DEFINE new == Acceptance(c.rec, c.bound, c.findings, c.prev)
           seq == Content[c.rec].seq
<1>1. /\ new.bound = c.bound /\ new.rec = c.rec /\ new.prev = c.prev
      /\ new.seq = seq /\ new.stream = StreamOf(c.rec)
      /\ new.outcome = SynthesizeStatus(c.findings)
    BY DEF Acceptance
<1>2. /\ c.findings \cap Noticed = {}
      /\ "unknownKey" \notin c.findings /\ "regression" \notin c.findings
      /\ SynthesizeStatus(c.findings) = "VERIFIED" => "gap" \notin c.findings
    BY ValidMeans
<1>3. c.bound \/ Uncheckable(c.rec)
    BY <1>2 DEF Sound, BindingTold
<1>4. Content[c.rec].key \in Key
    BY <1>2 DEF Sound, BindingTold
<1>5. c.prev = Absent \/ c.prev < seq
    BY <1>2 DEF Sound, NumberTold
<1>6. ASSUME c.prev # Absent, SynthesizeStatus(c.findings) = "VERIFIED"
      PROVE  Follows(b, c.rec, seq - 1)
    <2>1. Follows(b, c.rec, c.prev) /\ seq = c.prev + 1
        BY <1>2, <1>6 DEF Sound, NumberTold
    <2>2. c.prev \in Nat /\ seq - 1 = c.prev
        BY <1>6, <2>1 DEF Calls
    <2> QED
        BY <2>1, <2>2
<1> HIDE DEF new, seq
<1>7. AcceptedSound(new, b)
    BY <1>1, <1>3, <1>5, <1>6 DEF AcceptedSound, Justified
<1> QED
    BY <1>4, <1>7 DEF new

(* A nonce is written: the call may be accepted with it.                   *)
LEMMA WriteNonceStory ==
    ASSUME IInv, Story, NEW w \in Worker, WriteNonce(w)
    PROVE  /\ Story'
           /\ \/ accepted' = accepted
              \/ \E new \in Acceptances :
                    /\ accepted' = Append(accepted, new)
                    /\ AcceptedSound(new, begun)
                    /\ new.stream \in Session \X Key
                    /\ new.nonce \notin seen
<1> DEFINE c == call[w]
           n == Content[c.rec].nonce
           new == Acceptance(c.rec, c.bound, c.findings, c.prev)
<1>1. /\ UNCHANGED << last, begun >>
      /\ c # Idle /\ c.step = "writeNonce"
      /\ \/ End(w) /\ UNCHANGED << seen, history >>
         \/ /\ n \notin seen
            /\ seen' = seen \cup {n}
            /\ GoTo(w, "answer", {}, c.prev)
            /\ Decide(c.rec, TRUE, c.bound, c.findings, c.prev)
    BY DEF WriteNonce, At
<1>2. /\ c \in Calls /\ Content[c.rec] \in Contents /\ c.rec \in Record
      /\ c.prev \in Nat \cup {Absent} /\ c.bound \in BOOLEAN
    BY <1>1, CallType DEF IInv, Calls
<1>3. {} \in SUBSET Findings /\ "answer" \in Steps
    BY DEF Findings, Steps
<1>4. Sound(c, begun)
    BY <1>1 DEF Story, CallsStory
<1>5. CASE End(w) /\ UNCHANGED << seen, history >>
    BY <1>1, <1>5, EndType, EndStory DEF End, IInv
<1>6. CASE /\ n \notin seen
           /\ seen' = seen \cup {n}
           /\ GoTo(w, "answer", {}, c.prev)
           /\ Decide(c.rec, TRUE, c.bound, c.findings, c.prev)
    <2>1. /\ call'[w].rec = c.rec /\ call'[w].id = c.id /\ call'[w].prev = c.prev
          /\ call'[w].step = "answer"
          /\ call'[w].findings = c.findings \cup {}
          /\ \A v \in Worker : v # w => call'[v] = call[v]
        BY <1>1, <1>2, <1>3, <1>6, GoToType DEF IInv
    <2>2. NumberTold(call'[w], begun)
        BY <1>1, <1>4, <2>1 DEF Sound, NumberTold
    <2>3. Sound(call'[w], begun)
        BY <1>1, <1>2, <1>3, <1>6, <2>2, GoToSound
    <2>4. CallsStory'
        <3>1. ASSUME NEW v \in Worker, call'[v] # Idle PROVE Sound(call'[v], begun')
            BY <1>1, <2>1, <2>3, <3>1 DEF Story, CallsStory
        <3> QED
            BY <1>1, <2>1, <3>1 DEF Story, CallsStory
    <2>5. \A v \in Worker : call'[v] # Idle =>
              /\ call[v] # Idle /\ call[v].id = call'[v].id
              /\ call'[v].step \in Open => call[v].step \in Open
              /\ call'[v].step \in Writing => call[v].step \in Writing
        BY <1>1, <2>1 DEF Open, Writing
    <2>6. NumbersTold'
        BY <1>1, <2>5, TablesKept DEF Story
    <2>7. ASSUME NEW x \in seen'
          PROVE  \E i \in DOMAIN begun : Content[begun[i]].nonce = x /\ Past(i, Open, call')
        <3>1. CASE x \in seen
            <4>1. PICK i \in DOMAIN begun : Content[begun[i]].nonce = x /\ Past(i, Open, call)
                BY <3>1 DEF Story, NoncesTold
            <4>2. Past(i, Open, call')
                BY <2>5, <4>1 DEF Past
            <4> QED
                BY <4>1, <4>2
        <3>2. CASE x = n
            <4>1. c.id \in DOMAIN begun /\ begun[c.id] = c.rec
                BY <1>4 DEF Sound, Known
            <4>2. \A v \in Worker : v # w /\ call[v] # Idle => call[v].id # c.id
                BY <1>1 DEF Story, CallsStory
            <4>3. Past(c.id, Open, call')
                BY <2>1, <4>2 DEF Past, Open, Writing
            <4> QED
                BY <3>2, <4>1, <4>3
        <3> QED
            BY <1>6, <3>1, <3>2
    <2>8. NoncesTold'
        BY <1>1, <2>7 DEF NoncesTold
    <2>9. /\ new \in Acceptances /\ accepted \in Seq(Acceptances)
          /\ accepted' = accepted \/ accepted' = Append(accepted, new)
          /\ accepted' = accepted \/ IsValid(SynthesizeStatus(c.findings))
          /\ unchecked' = unchecked
        <3>1. new \in Acceptances /\ accepted \in Seq(Acceptances)
            BY <1>2, <1>6, DecideEffect DEF IInv, TypeOK
        <3>2. new.outcome = SynthesizeStatus(c.findings)
            BY DEF Acceptance
        <3>3. /\ accepted' = IF IsValid(new.outcome) THEN Append(accepted, new) ELSE accepted
              /\ unchecked' = unchecked
            BY <1>6 DEF Decide
        <3> QED
            BY <3>1, <3>2, <3>3
    <2>10. accepted' = accepted \/ (AcceptedSound(new, begun) /\ Content[c.rec].key \in Key)
        BY <1>1, <1>2, <1>4, <2>9, AcceptanceSound
    <2>11. new.nonce = n /\ new.stream = << Content[c.rec].session, Content[c.rec].key >>
        BY DEF Acceptance, StreamOf
    <2>12. accepted' = accepted \/ new.stream \in Session \X Key
        BY <1>2, <2>10, <2>11 DEF Contents
    <2> HIDE DEF new, n
    <2>13. HistoryStory'
        <3>1. ASSUME accepted' = Append(accepted, new), accepted' # accepted,
                     NEW i \in DOMAIN accepted'
              PROVE  AcceptedSound(accepted'[i], begun)
            <4>1. (i \in DOMAIN accepted /\ accepted'[i] = accepted[i]) \/ accepted'[i] = new
                BY <2>9, <3>1, AppendProperties
            <4> QED
                BY <2>10, <3>1, <4>1 DEF Story, HistoryStory
        <3>2. \A i \in DOMAIN accepted' : AcceptedSound(accepted'[i], begun)
            BY <2>9, <3>1 DEF Story, HistoryStory
        <3> QED
            BY <1>1, <2>9, <3>2 DEF Story, HistoryStory
    <2> QED
        BY <1>6, <2>4, <2>6, <2>8, <2>9, <2>10, <2>11, <2>12, <2>13 DEF Story
<1> QED
    BY <1>1, <1>5, <1>6

LEMMA SurroundingsStory ==
    ASSUME IInv, Story,
           \/ Crash
           \/ \E k \in Key : KeyStatusChanges(k)
           \/ Tick
           \/ UNCHANGED vars
    PROVE  Story' /\ accepted' = accepted
<1>1. /\ UNCHANGED << seen, last, begun, history >>
      /\ \A v \in Worker : call'[v] = call[v] \/ call'[v] = Idle
    BY DEF Crash, KeyStatusChanges, Tick, vars
<1> QED
    BY <1>1, EndStory

LEMMA AnswerStory ==
    ASSUME IInv, Story, NEW w \in Worker, Answer(w) \/ StatementFails(w)
    PROVE  Story' /\ accepted' = accepted
<1>1. /\ UNCHANGED << seen, last, begun, history >>
      /\ call' = [call EXCEPT ![w] = Idle]
    BY DEF Answer, StatementFails, End
<1> QED
    BY <1>1, EndType, EndStory DEF IInv

(* Every step keeps the story and admits at most one record, in its place. *)
Admitted(new) ==
    /\ accepted' = Append(accepted, new)
    /\ AcceptedSound(new, begun)
    /\ new.stream \in Session \X Key
    /\ new.nonce \notin seen

(* Every step keeps the story of calls, registry and histories.            *)
LEMMA StoryStep ==
    ASSUME IInv, Story, [Next]_vars
    PROVE  Story' /\ (accepted' = accepted \/ \E new \in Acceptances : Admitted(new))
<1>1. ASSUME NEW w \in Worker, VerifyRecord(w) PROVE Story' /\ accepted' = accepted
    <2>1. PICK r \in Record :
            \/ RejectSchema(w, r)
            \/ \E m \in Mismatches :
                 \/ \E e \in Enforced : VerifyWithoutRegistry(w, r, e, m)
                 \/ BeginReplayChecks(w, r, m)
        BY <1>1 DEF VerifyRecord
    <2>2. CASE RejectSchema(w, r)
        BY <2>2, RejectSchemaStory DEF RejectSchema
    <2>3. ASSUME NEW m \in Mismatches, NEW e \in Enforced, VerifyWithoutRegistry(w, r, e, m)
          PROVE  Story' /\ accepted' = accepted
        BY <2>3, VerifyWithoutRegistryStory
    <2>4. ASSUME NEW m \in Mismatches, BeginReplayChecks(w, r, m)
          PROVE  Story' /\ accepted' = accepted
        BY <2>4, BeginReplayChecksStory DEF BeginReplayChecks
    <2> QED
        BY <2>1, <2>2, <2>3, <2>4
<1>2. ASSUME NEW w \in Worker, ReadSequence(w) \/ WriteSequence(w) \/ ReadNonce(w)
      PROVE  Story' /\ accepted' = accepted
    <2>1. accepted' = accepted
        BY <1>2 DEF ReadSequence, WriteSequence, ReadNonce
    <2> QED
        BY <1>2, <2>1, ReadSequenceStory, WriteSequenceStory, ReadNonceStory
<1>3. ASSUME NEW w \in Worker, WriteNonce(w)
      PROVE  Story' /\ (accepted' = accepted \/ \E new \in Acceptances : Admitted(new))
    BY <1>3, WriteNonceStory DEF Admitted
<1>4. ASSUME NEW w \in Worker, Registry(w)
      PROVE  Story' /\ (accepted' = accepted \/ \E new \in Acceptances : Admitted(new))
    BY <1>2, <1>3, <1>4, AnswerStory DEF Registry
<1>5. CASE \/ Crash
           \/ \E k \in Key : KeyStatusChanges(k)
           \/ Tick
           \/ UNCHANGED vars
    BY <1>5, SurroundingsStory
<1> QED
    BY <1>1, <1>4, <1>5 DEF Next

(* What every call, the registry and the histories tell of each other holds *)
(* in every state.                                                         *)
THEOREM StoryHolds == Spec => [](IInv /\ Story)
<1>1. Init => IInv /\ Story
    BY InitInv, StoryInit
<1>2. IInv /\ Story /\ [Next]_vars => IInv' /\ Story'
    BY NextStep, StoryStep
<1> QED
    BY <1>1, <1>2, PTL DEF Spec

-----------------------------------------------------------------------------
(* A valid outcome means a verified binding, or a key without the material *)
(* to verify it with: with and without replay checks, for any workers.     *)
THEOREM AcceptedAreBound == Spec => []AcceptedIsBoundOrUncheckable
<1>1. Story => AcceptedIsBoundOrUncheckable
    BY DEF Story, HistoryStory, AcceptedSound, Justified, Uncheckable,
           AcceptedIsBoundOrUncheckable
<1> QED
    BY <1>1, StoryHolds, PTL

(* Nobody is called a replay for the call's own rows: another call brought *)
(* the nonce, or a number of the same session and key at least as high.    *)
THEOREM AccusationsHaveCause == Spec => []AccusedHasCause
<1>1. Story => AccusedHasCause
    BY DEF Story, CallsStory, Sound, AccusedSound, Caused, AccusedHasCause
<1> QED
    BY <1>1, StoryHolds, PTL

(* A record accepted without a warning whose binding was verified opened   *)
(* its stream or follows its predecessor.                                  *)
THEOREM GapsNoticed == Spec => []GapNoticed
<1>1. Story => GapNoticed
    <2> SUFFICES ASSUME Story, NEW i \in DOMAIN accepted, accepted[i].outcome = "VERIFIED",
                        accepted[i].prev # Absent
                 PROVE  \E j \in DOMAIN begun :
                           /\ StreamOf(begun[j]) = accepted[i].stream
                           /\ Content[begun[j]].seq = accepted[i].seq - 1
        BY DEF GapNoticed
    <2>1. AcceptedSound(accepted[i], begun)
        BY DEF Story, HistoryStory
    <2> QED
        BY <2>1 DEF AcceptedSound, Follows
<1> QED
    BY <1>1, StoryHolds, PTL

(* The number of a stream goes back only under a call that was overtaken   *)
(* between its SELECT and its UPDATE.                                      *)
LEMMA BackStep ==
    ASSUME IInv, Story, [Next]_vars, NEW s \in Stream, last[s] # Absent
    PROVE  last'[s] # Absent /\ (last'[s] >= last[s] \/ Overtaken(s))
<1>1. last[s] \in Nat
    BY DEF IInv, TypeOK
<1>2. CASE last' = last
    BY <1>1, <1>2
<1>3. ASSUME NEW w \in Worker, WriteSequence(w)
      PROVE  last'[s] # Absent /\ (last'[s] >= last[s] \/ Overtaken(s))
    <2> DEFINE c == call[w]
               q == StreamOf(c.rec)
               seq == Content[c.rec].seq
    <2>1. /\ c # Idle /\ c.step = "writeSequence"
          /\ \/ UNCHANGED last
             \/ last' = [last EXCEPT ![q] = seq] /\ (c.prev # Absent \/ last[q] = Absent)
        BY <1>3 DEF WriteSequence, At
    <2>2. /\ c \in Calls /\ q \in Stream /\ seq \in Nat
          /\ last \in [Stream -> Nat \cup {Absent}]
        BY <2>1, CallType DEF IInv, TypeOK, Contents
    <2>3. c.prev # Absent => c.prev < seq
        BY <2>1 DEF Story, CallsStory, Sound, NumberTold
    <2>4. CASE last' = [last EXCEPT ![q] = seq] /\ c.prev # Absent /\ q = s
        <3>1. last'[s] = seq
            BY <2>1, <2>2, <2>4
        <3>2. last'[s] # Absent
            BY <2>2, <3>1, NumberAssumption
        <3>3. CASE c.prev = last[s]
            BY <1>1, <2>2, <2>3, <3>1, <3>2, <3>3
        <3>4. CASE c.prev # last[s]
            <4>1. Overtaken(s)
                BY <2>1, <2>4, <3>4 DEF Overtaken, At
            <4> QED
                BY <3>2, <4>1
        <3> QED
            BY <3>3, <3>4
    <2>5. CASE last' = [last EXCEPT ![q] = seq] /\ q # s
        <3>1. last'[s] = last[s]
            BY <2>2, <2>5
        <3> QED
            BY <1>1, <3>1
    <2> QED
        BY <1>2, <2>1, <2>4, <2>5
<1>4. last' = last \/ \E w \in Worker : WriteSequence(w)
    BY DEF Next, vars, VerifyRecord, Registry, RejectSchema, VerifyWithoutRegistry,
           BeginReplayChecks, ReadSequence, ReadNonce, WriteNonce, Answer, StatementFails,
           Crash, KeyStatusChanges, Tick
<1> QED
    BY <1>2, <1>3, <1>4

(* The number of a stream goes back only when the call that writes it read *)
(* it before another call did: the SELECT stands outside the transaction.  *)
THEOREM BackOnlyByOvertaking == Spec => BackOnlyWhenOvertaken
<1>1. IInv /\ Story /\ [Next]_vars =>
        [ \A s \in Stream : last[s] # Absent =>
            last'[s] # Absent /\ (last'[s] >= last[s] \/ Overtaken(s)) ]_vars
    BY BackStep
<1> QED
    BY <1>1, StoryHolds, PTL DEF Spec, BackOnlyWhenOvertaken

-----------------------------------------------------------------------------
(* Openers and numbers.  A call that has written its number and may still  *)
(* be accepted counts like a record that was.                              *)
Candidate(c) == Acceptance(c.rec, c.bound, c.findings, c.prev)

Pending(c) ==
    c # Idle /\ c.step \in {"readNonce", "writeNonce"} /\ c.bound
    /\ IsValid(SynthesizeStatus(c.findings))

(* The table knows the stream of a, and a number no smaller.               *)
Recorded(a, numbers, marked) ==
    /\ a.stream \in Stream /\ numbers[a.stream] # Absent
    /\ a.stream \in marked \/ a.seq <= numbers[a.stream]

Apart(a, b, marked) ==
    a.stream = b.stream =>
        /\ a.prev # Absent \/ b.prev # Absent
        /\ a.stream \in marked \/ a.seq # b.seq

NumbersInv ==
    /\ \A i \in DOMAIN accepted : accepted[i].bound => Recorded(accepted[i], last, overtaken)
    /\ \A v \in Worker : Pending(call[v]) => Recorded(Candidate(call[v]), last, overtaken)
    /\ \A i, j \in DOMAIN accepted :
         i # j /\ accepted[i].bound /\ accepted[j].bound => Apart(accepted[i], accepted[j], overtaken)
    /\ \A i \in DOMAIN accepted, v \in Worker :
         accepted[i].bound /\ Pending(call[v]) => Apart(accepted[i], Candidate(call[v]), overtaken)
    /\ \A v, w \in Worker :
         v # w /\ Pending(call[v]) /\ Pending(call[w])
         => Apart(Candidate(call[v]), Candidate(call[w]), overtaken)

(* A step that writes no number and accepts nothing.                       *)
LEMMA NumbersKept ==
    ASSUME NumbersInv, UNCHANGED << last, overtaken, accepted >>,
           \A v \in Worker : Pending(call'[v]) =>
               Pending(call[v]) /\ Candidate(call'[v]) = Candidate(call[v])
    PROVE  NumbersInv'
BY DEF NumbersInv

(* Where a call begins it has no number to show, or nothing to be accepted *)
(* for: what is not cryptographically verified is bound to be refused.     *)
LEMMA RefusedUnverified ==
    ASSUME NEW r, NEW f, BindingVerified(r), ~CryptoVerified(r, f)
    PROVE  ~IsValid(SynthesizeStatus(f))
<1>1. \/ f \cap {"unknownKey", "inactiveKey"} # {}
      \/ f \cap Tampering # {}
    BY DEF CryptoVerified
<1>2. f \cap {"unknownKey", "inactiveKey"} # {} =>
        f \cap {"inactiveKey"} # {} \/ f \cap {"unknownKey"} # {}
    OBVIOUS
<1> QED
    BY <1>1, <1>2 DEF SynthesizeStatus, IsValid

LEMMA RefusedRegression ==
    ASSUME NEW f
    PROVE  ~IsValid(SynthesizeStatus(f \cup {"regression"}))
<1>1. (f \cup {"regression"}) \cap {"replayed", "regression", "skew"} # {}
    OBVIOUS
<1> QED
    BY <1>1 DEF SynthesizeStatus, IsValid

LEMMA BeginNumbers ==
    ASSUME IInv, NumbersInv, NEW w \in Worker, NEW r \in Record, NEW m \in Mismatches,
           BeginReplayChecks(w, r, m)
    PROVE  NumbersInv'
<1> DEFINE found == StaticFindings(r, m)
           new == [id |-> Len(begun'), rec |-> r, bound |-> BindingVerified(r),
                   findings |-> found, prev |-> Absent,
                   step |-> IF CryptoVerified(r, found) THEN "readSequence" ELSE "readNonce"]
<1>1. UNCHANGED << last, overtaken, accepted >> /\ call' = [call EXCEPT ![w] = new]
    BY DEF BeginReplayChecks
<1>2. ~Pending(new)
    BY RefusedUnverified DEF Pending
<1> HIDE DEF new
<1>3. call'[w] = new /\ \A v \in Worker : v # w => call'[v] = call[v]
    BY <1>1 DEF IInv, TypeOK
<1> QED
    BY <1>1, <1>2, <1>3, NumbersKept

LEMMA ReadSequenceNumbers ==
    ASSUME IInv, NumbersInv, NEW w \in Worker, ReadSequence(w)
    PROVE  NumbersInv'
<1> DEFINE prev == last[StreamOf(call[w].rec)]
<1>1. /\ UNCHANGED << last, overtaken, accepted >> /\ call[w] # Idle
      /\ \/ GoTo(w, "readNonce", {"regression"}, prev)
         \/ GoTo(w, "writeSequence", {}, prev)
    BY DEF ReadSequence, At
<1>2. prev \in Nat \cup {Absent}
    BY <1>1, CallType DEF IInv, TypeOK
<1> HIDE DEF prev
<1>3. /\ {} \in SUBSET Findings /\ {"regression"} \in SUBSET Findings
      /\ "readNonce" \in Steps /\ "writeSequence" \in Steps
    BY DEF Findings, Steps
<1>4. /\ \/ call'[w].step = "writeSequence"
         \/ call'[w].findings = call[w].findings \cup {"regression"}
      /\ \A v \in Worker : v # w => call'[v] = call[v]
    <2> DEFINE found == {"regression"}
    <2>i. TypeOK /\ call[w] # Idle /\ found \in SUBSET Findings
        BY <1>1, <1>3 DEF IInv
    <2> HIDE DEF found
    <2>1. CASE GoTo(w, "readNonce", found, prev)
        BY <1>2, <1>3, <2>1, <2>i, GoToType DEF found
    <2>2. CASE GoTo(w, "writeSequence", {}, prev)
        BY <1>2, <1>3, <2>2, <2>i, GoToType
    <2> USE DEF found
    <2> QED
        BY <1>1, <2>1, <2>2
<1>5. ~Pending(call'[w])
    BY <1>4, RefusedRegression DEF Pending
<1> QED
    BY <1>1, <1>4, <1>5, NumbersKept

LEMMA ReadNonceNumbers ==
    ASSUME IInv, NumbersInv, NEW w \in Worker, ReadNonce(w)
    PROVE  NumbersInv'
<1>1. /\ UNCHANGED << last, overtaken, accepted >>
      /\ call[w] # Idle /\ call[w].step = "readNonce"
      /\ \/ GoTo(w, "answer", {"replayed"}, call[w].prev)
         \/ GoTo(w, "writeNonce", {}, call[w].prev)
    BY DEF ReadNonce, At
<1>2. call[w].prev \in Nat \cup {Absent}
    BY <1>1, CallType DEF IInv, Calls
<1>3. /\ {} \in SUBSET Findings /\ {"replayed"} \in SUBSET Findings
      /\ "answer" \in Steps /\ "writeNonce" \in Steps
    BY DEF Findings, Steps
<1>4. /\ call'[w].rec = call[w].rec /\ call'[w].bound = call[w].bound
      /\ call'[w].prev = call[w].prev
      /\ \/ call'[w].step = "answer"
         \/ call'[w].step = "writeNonce" /\ call'[w].findings = call[w].findings \cup {}
      /\ \A v \in Worker : v # w => call'[v] = call[v]
    BY <1>1, <1>2, <1>3, GoToType DEF IInv
<1>5. Pending(call'[w]) => Pending(call[w]) /\ Candidate(call'[w]) = Candidate(call[w])
    <2>1. call[w].findings \cup {} = call[w].findings
        OBVIOUS
    <2> QED
        BY <1>1, <1>4, <2>1 DEF Pending, Candidate
<1> QED
    BY <1>1, <1>4, <1>5, NumbersKept

(* A number is written over the one that was read, which is smaller, or    *)
(* the stream is marked; as an opener only where there was no number.      *)
LEMMA WriteSequenceNumbers ==
    ASSUME IInv, Story, NumbersInv, NEW w \in Worker, WriteSequence(w)
    PROVE  NumbersInv'
<1> DEFINE c == call[w]
           s == StreamOf(c.rec)
           seq == Content[c.rec].seq
           gap == GapFindings(seq, c.prev)
<1>1. /\ UNCHANGED accepted /\ c # Idle /\ c.step = "writeSequence"
      /\ \/ End(w) /\ UNCHANGED << last, overtaken >>
         \/ /\ last' = [last EXCEPT ![s] = seq]
            /\ overtaken' = overtaken \cup { q \in {s} : c.prev # last[s] }
            /\ GoTo(w, "readNonce", gap, c.prev)
            /\ c.prev = Absent => last[s] = Absent
    BY DEF WriteSequence, At
<1>2. /\ c \in Calls /\ s \in Stream /\ seq \in Nat /\ c.prev \in Nat \cup {Absent}
      /\ last \in [Stream -> Nat \cup {Absent}]
    BY <1>1, CallType DEF IInv, TypeOK, Calls, Contents
<1>3. c.prev # Absent => c.prev < seq
    BY <1>1 DEF Story, CallsStory, Sound, NumberTold
<1>4. CASE End(w) /\ UNCHANGED << last, overtaken >>
    <2>1. call'[w] = Idle /\ \A v \in Worker : v # w => call'[v] = call[v]
        BY <1>4, EndType DEF End, IInv
    <2> QED
        BY <1>1, <1>4, <2>1, NumbersKept DEF Pending
<1>5. CASE /\ last' = [last EXCEPT ![s] = seq]
           /\ overtaken' = overtaken \cup { q \in {s} : c.prev # last[s] }
           /\ GoTo(w, "readNonce", gap, c.prev)
           /\ c.prev = Absent => last[s] = Absent
    <2>1. gap \in SUBSET Findings /\ "readNonce" \in Steps
        BY DEF GapFindings, Findings, Steps
    <2>2. Content[c.rec].seq = seq /\ StreamOf(c.rec) = s
        OBVIOUS
    <2> HIDE DEF c, s, seq, gap
    <2>3. /\ call'[w].rec = c.rec /\ call'[w].prev = c.prev
          /\ \A v \in Worker : v # w => call'[v] = call[v]
        BY <1>1, <1>2, <1>5, <2>1, GoToType DEF IInv, c
    <2> DEFINE new == Candidate(call'[w])
    <2>4. new.stream = s /\ new.seq = seq /\ new.prev = c.prev
        BY <2>2, <2>3 DEF Candidate, Acceptance
    <2> HIDE DEF new
    <2>5. /\ last'[s] = seq /\ \A q \in Stream : q # s => last'[q] = last[q]
          /\ overtaken \subseteq overtaken'
          /\ s \in overtaken' \/ c.prev = last[s]
        BY <1>2, <1>5
    <2>6. seq # Absent /\ last[s] \in Nat \cup {Absent}
        BY <1>2, NumberAssumption
    <2>7. Recorded(new, last', overtaken')
        BY <1>2, <2>4, <2>5, <2>6 DEF Recorded
    <2>8. ASSUME NEW a, Recorded(a, last, overtaken), a.seq \in Nat
          PROVE  /\ Recorded(a, last', overtaken')
                 /\ Apart(a, new, overtaken') /\ Apart(new, a, overtaken')
        <3>1. CASE a.stream # s
            BY <2>4, <2>5, <2>8, <3>1 DEF Recorded, Apart
        <3>2. CASE a.stream = s
            <4>1. last[s] # Absent /\ c.prev # Absent /\ c.prev < seq
                BY <1>3, <1>5, <2>8, <3>2 DEF Recorded
            <4>2. s \in overtaken' \/ (a.seq <= last[s] /\ last[s] < seq)
                BY <2>5, <2>8, <3>2, <4>1 DEF Recorded
            <4>3. s \in overtaken' \/ a.seq < seq
                BY <1>2, <2>6, <2>8, <4>1, <4>2
            <4>4. Recorded(a, last', overtaken')
                BY <1>2, <2>5, <2>6, <2>8, <3>2, <4>3 DEF Recorded
            <4> QED
                BY <1>2, <2>4, <2>8, <3>2, <4>1, <4>3, <4>4 DEF Apart
        <3> QED
            BY <3>1, <3>2
    <2>9. \A i \in DOMAIN accepted : accepted[i].seq \in Nat
        <3>1. accepted \in Seq(Acceptances)
            BY DEF IInv, TypeOK
        <3>2. \A i \in DOMAIN accepted : accepted[i] \in Acceptances
            BY <3>1, ElementOfSeq
        <3> QED
            BY <3>2 DEF Acceptances
    <2>10. ASSUME NEW v \in Worker, v # w, Pending(call'[v])
           PROVE  /\ Pending(call[v]) /\ Candidate(call'[v]) = Candidate(call[v])
                  /\ Candidate(call'[v]).seq \in Nat
        <3>1. call'[v] = call[v] /\ call[v] # Idle
            BY <2>3, <2>10 DEF Pending
        <3>2. Content[call[v].rec] \in Contents
            BY <3>1, CallType DEF IInv
        <3> QED
            BY <2>10, <3>1, <3>2 DEF Candidate, Acceptance, Contents
    <2>11. \A a, b : Apart(a, b, overtaken) => Apart(a, b, overtaken')
        BY <2>5 DEF Apart
    <2>12. ASSUME NEW v \in Worker, Pending(call'[v])
           PROVE  Recorded(Candidate(call'[v]), last', overtaken')
        BY <2>7, <2>8, <2>10, <2>12 DEF NumbersInv, new
    <2>13. ASSUME NEW i \in DOMAIN accepted, accepted[i].bound, NEW v \in Worker,
                  Pending(call'[v])
           PROVE  Apart(accepted[i], Candidate(call'[v]), overtaken')
        BY <2>8, <2>9, <2>10, <2>11, <2>13 DEF NumbersInv, new
    <2>14. ASSUME NEW u \in Worker, NEW v \in Worker, u # v,
                  Pending(call'[u]), Pending(call'[v])
           PROVE  Apart(Candidate(call'[u]), Candidate(call'[v]), overtaken')
        <3>1. CASE u # w /\ v # w
            BY <2>10, <2>11, <2>14, <3>1 DEF NumbersInv
        <3>2. CASE u = w
            BY <2>8, <2>10, <2>14, <3>2 DEF NumbersInv, new
        <3>3. CASE v = w
            BY <2>8, <2>10, <2>14, <3>3 DEF NumbersInv, new
        <3> QED
            BY <3>1, <3>2, <3>3
    <2>15. \A i \in DOMAIN accepted : accepted[i].bound => Recorded(accepted[i], last', overtaken')
        BY <2>8, <2>9 DEF NumbersInv
    <2> QED
        BY <1>1, <2>11, <2>12, <2>13, <2>14, <2>15 DEF NumbersInv
<1> QED
    BY <1>1, <1>4, <1>5

(* The record that is accepted is the one that was pending.                *)
LEMMA WriteNonceNumbers ==
    ASSUME IInv, NumbersInv, NEW w \in Worker, WriteNonce(w)
    PROVE  /\ NumbersInv'
           /\ accepted' = accepted \/
                \A i \in DOMAIN accepted :
                  accepted[i].bound /\ accepted'[Len(accepted) + 1].bound =>
                    Apart(accepted[i], accepted'[Len(accepted) + 1], overtaken)
<1> DEFINE c == call[w]
           new == Candidate(c)
<1>1. /\ UNCHANGED << last, overtaken >> /\ c # Idle /\ c.step = "writeNonce"
      /\ \/ End(w) /\ UNCHANGED accepted
         \/ /\ GoTo(w, "answer", {}, c.prev)
            /\ Decide(c.rec, TRUE, c.bound, c.findings, c.prev)
    BY DEF WriteNonce, At
<1>2. c \in Calls /\ c.rec \in Record /\ c.prev \in Nat \cup {Absent} /\ c.bound \in BOOLEAN
    BY <1>1, CallType DEF IInv, Calls
<1>3. /\ {} \in SUBSET Findings /\ "answer" \in Steps
      /\ \A v \in Worker : v # w => call'[v] = call[v]
      /\ ~Pending(call'[w])
    <2>1. {} \in SUBSET Findings /\ "answer" \in Steps
        BY DEF Findings, Steps
    <2>2. CASE End(w)
        BY <2>1, <2>2, EndType DEF End, IInv, Pending
    <2>3. CASE GoTo(w, "answer", {}, c.prev)
        BY <1>1, <1>2, <2>1, <2>3, GoToType DEF IInv, Pending
    <2> QED
        BY <1>1, <2>1, <2>2, <2>3
<1>4. CASE accepted' = accepted
    BY <1>1, <1>3, <1>4, NumbersKept
<1>5. CASE accepted' # accepted
    <2>1. /\ new \in Acceptances /\ accepted' = Append(accepted, new)
          /\ new.bound = c.bound /\ IsValid(SynthesizeStatus(c.findings))
        <3>1. /\ new \in Acceptances
              /\ \/ accepted' = accepted
                 \/ IsValid(new.outcome) /\ accepted' = Append(accepted, new)
            BY <1>1, <1>2, <1>5, DecideEffect DEF IInv, Candidate
        <3> QED
            BY <1>5, <3>1 DEF Candidate, Acceptance
    <2>2. new.bound => Pending(c)
        BY <1>1, <2>1 DEF Pending
    <2>3. /\ accepted \in Seq(Acceptances) /\ Len(accepted) \in Nat
          /\ DOMAIN accepted = 1 .. Len(accepted)
          /\ DOMAIN accepted' = 1 .. Len(accepted) + 1
          /\ accepted'[Len(accepted) + 1] = new
          /\ \A i \in DOMAIN accepted : accepted'[i] = accepted[i]
        BY <2>1, AppendProperties DEF IInv, TypeOK
    <2>4. /\ \A a : Recorded(a, last, overtaken) => Recorded(a, last', overtaken')
          /\ \A a, b : Apart(a, b, overtaken) => Apart(a, b, overtaken')
        BY <1>1 DEF Recorded, Apart
    <2>5. \A v \in Worker : Pending(call'[v]) => v # w /\ call'[v] = call[v]
        BY <1>3
    <2>6. \A a, b : Apart(a, b, overtaken') => Apart(b, a, overtaken')
        BY DEF Apart
    <2>7. new.bound => /\ Recorded(new, last, overtaken)
                       /\ \A i \in DOMAIN accepted :
                            accepted[i].bound => Apart(accepted[i], new, overtaken)
                       /\ \A v \in Worker : v # w /\ Pending(call[v]) =>
                            Apart(new, Candidate(call[v]), overtaken)
        BY <2>2 DEF NumbersInv
    <2> HIDE DEF new, c
    <2>8. \A i \in DOMAIN accepted' : accepted'[i].bound => Recorded(accepted'[i], last', overtaken')
        BY <2>3, <2>4, <2>7 DEF NumbersInv
    <2>9. \A v \in Worker : Pending(call'[v]) => Recorded(Candidate(call'[v]), last', overtaken')
        BY <2>4, <2>5 DEF NumbersInv
    <2>10. ASSUME NEW i \in DOMAIN accepted', NEW j \in DOMAIN accepted', i # j,
                  accepted'[i].bound, accepted'[j].bound
           PROVE  Apart(accepted'[i], accepted'[j], overtaken')
        <3>1. CASE i \in DOMAIN accepted /\ j \in DOMAIN accepted
            BY <2>3, <2>4, <2>10, <3>1 DEF NumbersInv
        <3>2. CASE j = Len(accepted) + 1
            BY <2>3, <2>4, <2>7, <2>10, <3>2
        <3>3. CASE i = Len(accepted) + 1
            BY <2>3, <2>4, <2>6, <2>7, <2>10, <3>3
        <3> QED
            BY <2>3, <3>1, <3>2, <3>3
    <2>11. ASSUME NEW i \in DOMAIN accepted', accepted'[i].bound, NEW v \in Worker,
                  Pending(call'[v])
           PROVE  Apart(accepted'[i], Candidate(call'[v]), overtaken')
        BY <2>3, <2>4, <2>5, <2>7, <2>11 DEF NumbersInv
    <2>12. ASSUME NEW u \in Worker, NEW v \in Worker, u # v,
                  Pending(call'[u]), Pending(call'[v])
           PROVE  Apart(Candidate(call'[u]), Candidate(call'[v]), overtaken')
        BY <2>4, <2>5, <2>12 DEF NumbersInv
    <2>13. NumbersInv'
        BY <2>8, <2>9, <2>10, <2>11, <2>12 DEF NumbersInv
    <2> QED
        BY <2>3, <2>7, <2>13
<1> QED
    BY <1>4, <1>5

LEMMA NumbersStep ==
    ASSUME IInv, Story, NumbersInv, [Next]_vars
    PROVE  NumbersInv'
<1>1. ASSUME NEW w \in Worker, VerifyRecord(w) PROVE NumbersInv'
    <2>1. PICK r \in Record :
            \/ RejectSchema(w, r)
            \/ \E m \in Mismatches :
                 \/ \E e \in Enforced : VerifyWithoutRegistry(w, r, e, m)
                 \/ BeginReplayChecks(w, r, m)
        BY <1>1 DEF VerifyRecord
    <2>2. CASE RejectSchema(w, r)
        BY <2>2, NumbersKept DEF RejectSchema
    <2>3. ASSUME NEW m \in Mismatches, NEW e \in Enforced, VerifyWithoutRegistry(w, r, e, m)
          PROVE  NumbersInv'
        BY <2>3, VerifyWithoutRegistryStory, NumbersKept DEF VerifyWithoutRegistry
    <2> QED
        BY <2>1, <2>2, <2>3, BeginNumbers
<1>2. ASSUME NEW w \in Worker, Answer(w) \/ StatementFails(w)
      PROVE  NumbersInv'
    <2>1. /\ UNCHANGED << last, overtaken, accepted >>
          /\ call' = [call EXCEPT ![w] = Idle]
        BY <1>2 DEF Answer, StatementFails, End
    <2>2. call'[w] = Idle /\ \A v \in Worker : v # w => call'[v] = call[v]
        BY <2>1, EndType DEF IInv
    <2> QED
        BY <2>1, <2>2, NumbersKept DEF Pending
<1>3. ASSUME NEW w \in Worker, Registry(w) PROVE NumbersInv'
    BY <1>2, <1>3, ReadSequenceNumbers, WriteSequenceNumbers, ReadNonceNumbers,
       WriteNonceNumbers DEF Registry
<1>4. CASE \/ Crash
           \/ \E k \in Key : KeyStatusChanges(k)
           \/ Tick
           \/ UNCHANGED vars
    <2>1. /\ UNCHANGED << last, overtaken, accepted >>
          /\ \A v \in Worker : call'[v] = call[v] \/ call'[v] = Idle
        BY <1>4 DEF Crash, KeyStatusChanges, Tick, vars
    <2> QED
        BY <2>1, NumbersKept DEF Pending
<1> QED
    BY <1>1, <1>3, <1>4 DEF Next

(* For any workers, failures and crashes: a stream has one opener among    *)
(* what is accepted and what may be, and one record of a number as long as *)
(* no call on it was overtaken.                                            *)
THEOREM NumbersHold == Spec => []NumbersInv
<1>1. Init => NumbersInv
    BY DEF Init, NumbersInv, Pending
<1>2. IInv /\ Story /\ NumbersInv /\ [Next]_vars => NumbersInv'
    BY NumbersStep
<1> QED
    BY <1>1, <1>2, StoryHolds, PTL DEF Spec

(* The verifier implements the replay registry: each record accepted with  *)
(* the checks on is admitted behind the others, apart from them.           *)
LEMMA AdmitStep ==
    ASSUME IInv, Story, NumbersInv, [Next]_vars, accepted' # accepted
    PROVE  Protection!Admit
<1>1. PICK w \in Worker : WriteNonce(w)
    BY StoryStep, VerifyWithoutRegistryStory
       DEF Next, vars, VerifyRecord, Registry, RejectSchema, BeginReplayChecks, ReadSequence,
           WriteSequence, ReadNonce, Answer, StatementFails, Crash, KeyStatusChanges, Tick
<1>2. PICK new \in Acceptances : Admitted(new)
    BY StoryStep
<1>3. /\ accepted \in Seq(Acceptances) /\ accepted' = Append(accepted, new)
      /\ Len(accepted) \in Nat
    BY <1>2 DEF IInv, TypeOK, Admitted
<1>4. /\ Len(accepted') = Len(accepted) + 1
      /\ accepted'[Len(accepted) + 1] = new
      /\ Len(accepted) + 1 - 1 = Len(accepted)
    BY <1>3, AppendProperties
<1>5. SubSeq(accepted', 1, Len(accepted)) = accepted
    <2>1. /\ accepted' \in Seq(Acceptances)
          /\ \A i \in 1 .. Len(accepted) : accepted'[i] = accepted[i]
        BY <1>3, AppendProperties
    <2> DEFINE n == Len(accepted)
    <2>i. n \in Nat /\ 1 \in Int /\ n - 1 + 1 = n /\ \A i \in 1 .. n : accepted'[i] \in Acceptances
        BY <1>3, <2>1, ElementOfSeq
    <2>j. \A i \in 1 .. n : 1 + i - 1 = i
        OBVIOUS
    <2>2. /\ SubSeq(accepted', 1, Len(accepted)) \in Seq(Acceptances)
          /\ Len(SubSeq(accepted', 1, Len(accepted))) = Len(accepted)
          /\ \A i \in 1 .. Len(accepted) : SubSeq(accepted', 1, Len(accepted))[i] = accepted'[i]
        BY <2>i, <2>j, SubSeqProperties
    <2> QED
        BY <1>3, <2>1, <2>2, SeqEqual
<1>6. /\ new.nonce \in Nonce /\ new.stream \in Session \X Key
      /\ new.prev = Absent \/ new.prev < new.seq
    BY <1>2 DEF Acceptances, Admitted, AcceptedSound
<1>7. \A i \in DOMAIN accepted : accepted[i].nonce # new.nonce
    BY <1>2 DEF IInv, AcceptedSeen, Admitted
<1>8. \A i \in DOMAIN accepted : Protection!Apart(accepted[i], new)
    <2>1. \A i \in DOMAIN accepted :
             accepted[i].bound /\ new.bound => Apart(accepted[i], new, overtaken)
        BY <1>1, <1>4, WriteNonceNumbers
    <2> QED
        BY <2>1 DEF Apart, Protection!Apart
<1>9. overtaken' = overtaken
    BY <1>1 DEF WriteNonce
<1> HIDE DEF Admitted
<1> QED
    BY <1>4, <1>5, <1>6, <1>7, <1>8, <1>9 DEF Protection!Admit

(* A stream is marked by the call that writes its number: its record is    *)
(* authentic, so that the stream is one of a registered key.               *)
LEMMA OvertakeStep ==
    ASSUME IInv, [Next]_vars, overtaken' # overtaken
    PROVE  Protection!Overtake
<1>1. PICK w \in Worker : WriteSequence(w)
    BY DEF Next, vars, VerifyRecord, Registry, RejectSchema, VerifyWithoutRegistry,
           BeginReplayChecks, ReadSequence, ReadNonce, WriteNonce, Answer, StatementFails,
           Crash, KeyStatusChanges, Tick
<1> DEFINE s == StreamOf(call[w].rec)
<1>2. /\ UNCHANGED accepted /\ call[w] # Idle /\ call[w].step = "writeSequence"
      /\ \/ overtaken' = overtaken
         \/ overtaken' = overtaken \cup { q \in {s} : call[w].prev # last[s] }
    BY <1>1 DEF WriteSequence, At
<1>3. s \in Session \X Key
    <2>1. Authentic(call[w].rec) /\ Content[call[w].rec] \in Contents
        BY <1>2, CallType DEF IInv, CallsSound
    <2> QED
        BY <2>1 DEF Authentic, StreamOf, Contents
<1> HIDE DEF s
<1>4. overtaken' = overtaken \cup {s}
    BY <1>2
<1> QED
    BY <1>2, <1>3, <1>4 DEF Protection!Overtake

(* The verifier implements ReplayRegistry: a step adds one accepted record *)
(* behind the others or none; its nonce is new, its number is larger than  *)
(* the one it was accepted over, and it neither opens a stream again nor   *)
(* repeats a number where no call was overtaken.                           *)
THEOREM ImplementsProtection == Spec => ReplayProtection
<1>1. Init => Protection!Init
    BY DEF Init, Protection!Init
<1>2. IInv /\ Story /\ NumbersInv /\ [Next]_vars
        => [Protection!Next]_<< accepted, overtaken >>
    BY AdmitStep, OvertakeStep DEF Protection!Next
<1> QED
    BY <1>1, <1>2, StoryHolds, NumbersHold, PTL DEF Spec, ReplayProtection, Protection!Spec

=============================================================================
