--------------------------- MODULE DatasetProofs ---------------------------
(***************************************************************************)
(* Theorems about the ingestion and the scan of a dataset, for any         *)
(* directories, clients, calls, edits and failures: what is registered     *)
(* hangs together, is attributed and relabelled honestly and can be        *)
(* traced, a check that lost something is noted as failed, and what the    *)
(* scan of an undisturbed directory says of equal, alike and patched       *)
(* pictures is so.                                                         *)
(***************************************************************************)
EXTENDS DatasetScan, FiniteSetTheorems, SequenceTheorems, WellFoundedInduction, TLAPS

(* A record with the fields in D, and a list of any length.                *)
IsRecord(r, D) == r = [x \in D |-> r[x]]
IsList(s) == Len(s) \in Nat /\ s = [i \in 1..Len(s) |-> s[i]]

LEMMA SeqIsList ==
    ASSUME NEW S, NEW s \in Seq(S)
    PROVE  IsList(s) /\ DOMAIN s = 1..Len(s)
<1>1. s \in [1..Len(s) -> S] /\ Len(s) \in Nat
    BY LenProperties
<1> QED
    BY <1>1 DEF IsList

LEMMA ListAppends ==
    ASSUME NEW s, IsList(s), NEW x
    PROVE  /\ IsList(Append(s, x)) /\ Len(Append(s, x)) = Len(s) + 1
           /\ DOMAIN s = 1..Len(s) /\ DOMAIN Append(s, x) = 1..(Len(s) + 1)
           /\ Append(s, x)[Len(s) + 1] = x
           /\ \A i \in 1..Len(s) : Append(s, x)[i] = s[i]
<1> DEFINE S == {s[i] : i \in 1..Len(s)} \cup {x}
<1>1. s \in Seq(S)
    BY DEF IsList
<1>2. x \in S
    OBVIOUS
<1> HIDE DEF S
<1>3. /\ Append(s, x) \in Seq(S) /\ Len(Append(s, x)) = Len(s) + 1
      /\ Append(s, x)[Len(s) + 1] = x
      /\ \A i \in 1..Len(s) : Append(s, x)[i] = s[i]
    BY <1>1, <1>2, AppendProperties
<1>4. IsList(Append(s, x)) /\ DOMAIN Append(s, x) = 1..(Len(s) + 1)
    BY <1>3, SeqIsList
<1>5. DOMAIN s = 1..Len(s)
    BY <1>1
<1> QED
    BY <1>3, <1>4, <1>5

LEMMA ListGrows == \A s, x : IsList(s) => IsList(Append(s, x))
BY ListAppends

LEMMA EmptyIsList == IsList(<<>>) /\ Len(<<>>) = 0
<1>1. <<>> \in Seq({}) /\ Len(<<>>) = 0
    BY EmptySeq
<1> QED
    BY <1>1 DEF IsList

(* A finite set of numbers has a least and a greatest element: the sets of *)
(* smaller, or of greater, elements cannot shrink forever.                 *)
LEMMA FiniteMin ==
    ASSUME NEW S \in SUBSET Int, IsFiniteSet(S), S # {}
    PROVE  Min(S) \in S /\ \A y \in S : Min(S) <= y
<1> DEFINE Below(i) == {j \in S : j < i}
           Family == {Below(i) : i \in S}
<1>1. \A i \in S : Below(i) \in FiniteSubsetsOf(S)
    BY FS_Subset DEF FiniteSubsetsOf
<1>2. \E least \in Family : \A A \in Family : ~ (<<A, least>> \in StrictSubsetOrdering(S))
    <2>1. Family # {} /\ Family \subseteq FiniteSubsetsOf(S)
        BY <1>1
    <2> HIDE DEF Family
    <2> QED
        BY <2>1, FS_StrictSubsetOrderingWellFounded, WFMin, Zenon
<1>3. PICK i \in S : \A A \in Family : ~ (<<A, Below(i)>> \in StrictSubsetOrdering(S))
    BY <1>2
<1>4. ASSUME NEW j \in S, j < i PROVE FALSE
    <2>1. Below(j) \in Family /\ <<Below(j), Below(i)>> \notin StrictSubsetOrdering(S)
        BY <1>3
    <2>2. /\ Below(j) \subseteq Below(i) /\ Below(j) # Below(i)
          /\ Below(j) \in SUBSET S /\ Below(i) \in SUBSET S
        <3>1. i \in Int /\ j \in Int /\ j \in Below(i) /\ j \notin Below(j)
            BY <1>4
        <3>2. \A k \in S : k < j => k < i
            BY <1>4, <3>1
        <3>3. Below(j) \subseteq Below(i)
            BY <3>2
        <3> QED
            BY <3>1, <3>3
    <2> HIDE DEF Below
    <2> QED
        BY <2>1, <2>2 DEF StrictSubsetOrdering
<1>5. \A y \in S : i <= y
    BY <1>4
<1> QED
    BY <1>5 DEF Min

(* The greatest of finitely many integers.                                 *)
LEMMA FiniteMax ==
    ASSUME NEW S \in SUBSET Int, IsFiniteSet(S), S # {}
    PROVE  Max(S) \in S /\ \A y \in S : y <= Max(S)
<1> DEFINE Above(i) == {j \in S : j > i}
           Family == {Above(i) : i \in S}
<1>1. \A i \in S : Above(i) \in FiniteSubsetsOf(S)
    BY FS_Subset DEF FiniteSubsetsOf
<1>2. \E least \in Family : \A A \in Family : ~ (<<A, least>> \in StrictSubsetOrdering(S))
    <2>1. Family # {} /\ Family \subseteq FiniteSubsetsOf(S)
        BY <1>1
    <2> HIDE DEF Family
    <2> QED
        BY <2>1, FS_StrictSubsetOrderingWellFounded, WFMin, Zenon
<1>3. PICK i \in S : \A A \in Family : ~ (<<A, Above(i)>> \in StrictSubsetOrdering(S))
    BY <1>2
<1>4. ASSUME NEW j \in S, j > i PROVE FALSE
    <2>1. Above(j) \in Family /\ <<Above(j), Above(i)>> \notin StrictSubsetOrdering(S)
        BY <1>3
    <2>2. /\ Above(j) \subseteq Above(i) /\ Above(j) # Above(i)
          /\ Above(j) \in SUBSET S /\ Above(i) \in SUBSET S
        <3>1. i \in Int /\ j \in Int /\ j \in Above(i) /\ j \notin Above(j)
            BY <1>4
        <3>2. \A k \in S : k > j => k > i
            BY <1>4, <3>1
        <3>3. Above(j) \subseteq Above(i)
            BY <3>2
        <3> QED
            BY <3>1, <3>3
    <2> HIDE DEF Above
    <2> QED
        BY <2>1, <2>2 DEF StrictSubsetOrdering
<1>5. \A y \in S : i >= y
    BY <1>4
<1> QED
    BY <1>5 DEF Max

-----------------------------------------------------------------------------
(* The steps of a call.                                                    *)

BeginFields == {"pc", "fmt", "found", "who", "batch", "steady"}
ToldFields == BeginFields \cup {"told"}
LoadedFields == ToldFields \cup {"data", "contributor", "batchOf", "hash"}
ScanFields == LoadedFields \cup {"todo", "executed", "skipped", "findings"}

CallShape ==
    \/ call = Idle
    \/ call.pc = "selected" /\ IsRecord(call, BeginFields)
    \/ call.pc \in {"validated", "loading"} /\ IsRecord(call, ToldFields)
    \/ call.pc \in {"loaded", "attached", "saved", "logged"} /\ IsRecord(call, LoadedFields)
    \/ call.pc = "checking" /\ IsRecord(call, ScanFields)

Shapes ==
    /\ CallShape
    /\ disk \in Trees \cup Edits
    /\ IsList(assets) /\ IsList(log) /\ IsList(answers) /\ IsList(sessions)

Same(fields) == \A x \in fields \ {"pc"} : call'[x] = call[x]

Begun ==
    /\ call = Idle
    /\ IsRecord(call', BeginFields) /\ call'.pc = "selected"
    /\ call'.steady = TRUE
    /\ call'.fmt \in Detect(disk) /\ call'.fmt # Unsupported
    /\ call'.found = DiscoverManifests(disk)
    /\ UNCHANGED << disk, assets, log, answers, evidence, recorded, sessions >>

Validated ==
    /\ call.pc = "selected" /\ IsRecord(call, BeginFields)
    /\ IsRecord(call', ToldFields) /\ call'.pc = "validated" /\ Same(BeginFields)
    /\ Errors(call.fmt, call.found) = {} /\ call'.told = Warnings(call.fmt, call.found)
    /\ UNCHANGED << disk, assets, log, answers, evidence, recorded, sessions >>

Revalidated ==
    /\ call.pc = "validated" /\ IsRecord(call, ToldFields)
    /\ IsRecord(call', ToldFields) /\ call'.pc = "loading" /\ Same(ToldFields)
    /\ UNCHANGED << disk, assets, log, answers, evidence, recorded, sessions >>

LoadedNow ==
    /\ call.pc = "loading" /\ IsRecord(call, ToldFields)
    /\ IsRecord(call', LoadedFields) /\ call'.pc = "loaded" /\ Same(ToldFields)
    /\ Loads(call.fmt, call.found)
    /\ call'.data = WithBytes(Loaded(call.fmt, call.found))
    /\ call'.contributor = call'.data.contributor /\ call'.batchOf = NoBatch
    /\ call'.hash = DatasetHash(call'.data, call'.contributor, NoBatch)
    /\ UNCHANGED << disk, assets, log, answers, evidence, recorded, sessions >>

Attached ==
    /\ call.pc = "loaded" /\ IsRecord(call, LoadedFields)
    /\ IsRecord(call', LoadedFields) /\ call'.pc = "attached" /\ Same(ToldFields \cup {"data"})
    /\ call'.contributor = IF call.contributor = NoContributor THEN call.who ELSE call.contributor
    /\ call'.batchOf = call.batch
    /\ call'.hash = HashWithProvenance(call'.contributor)
    /\ UNCHANGED << disk, assets, log, answers, evidence, recorded, sessions >>

Saved ==
    /\ call.pc = "attached" /\ IsRecord(call, LoadedFields)
    /\ IsRecord(call', LoadedFields) /\ call'.pc = "saved" /\ Same(LoadedFields)
    /\ assets' = Append(assets, [row |-> Row, call |-> call, seen |-> disk])
    /\ UNCHANGED << disk, log, answers, evidence, recorded, sessions >>

Logged ==
    /\ call.pc = "saved" /\ IsRecord(call, LoadedFields)
    /\ IsRecord(call', LoadedFields) /\ call'.pc = "logged" /\ Same(LoadedFields)
    /\ log' = Append(log, [asset |-> Len(assets), hash |-> call.hash, contributor |-> call.contributor])
    /\ UNCHANGED << disk, assets, answers, evidence, recorded, sessions >>

(* The client of an ingestion or of a scan is told of the row.             *)
Answered ==
    /\ call' = Idle
    /\ \E a : a.ok = TRUE /\ a.asset = Len(assets) /\ answers' = Append(answers, a)
    /\ \/ call.pc = "logged" /\ UNCHANGED sessions
       \/ /\ call.pc = "checking" /\ call.todo = <<>>
          /\ sessions' = Append(sessions,
                [asset |-> Len(assets), executed |-> call.executed, skipped |-> call.skipped,
                 findings |-> call.findings, call |-> call])
    /\ UNCHANGED << disk, assets, log, evidence, recorded >>

Edited ==
    /\ disk' \in Edits \ {disk}
    /\ \/ call = Idle /\ call' = Idle
       \/ /\ call # Idle /\ call'.pc = call.pc /\ call'.steady = FALSE
          /\ \A D : IsRecord(call, D) =>
               IsRecord(call', D) /\ \A x \in D \ {"steady"} : call'[x] = call[x]
    /\ UNCHANGED << assets, log, answers, evidence, recorded, sessions >>

Started ==
    /\ call.pc = "logged" /\ IsRecord(call, LoadedFields)
    /\ IsRecord(call', ScanFields) /\ call'.pc = "checking" /\ Same(LoadedFields)
    /\ call'.todo = CheckOrder /\ call'.executed = {} /\ call'.skipped = {}
    /\ call'.findings = <<>>
    /\ UNCHANGED << disk, assets, log, answers, evidence, recorded, sessions >>

Skipped ==
    /\ call.pc = "checking" /\ call.todo # <<>> /\ IsRecord(call, ScanFields)
    /\ IsRecord(call', ScanFields) /\ call'.pc = "checking"
    /\ Same(LoadedFields \cup {"executed", "findings"})
    /\ call'.todo = Tail(call.todo) /\ call.skipped \subseteq call'.skipped
    /\ UNCHANGED << disk, assets, log, answers, evidence, recorded, sessions >>

Found == Run(Head(call.todo), call.data, Readable(call.data, disk), call.contributor, call.findings)

Checked ==
    /\ call.pc = "checking" /\ call.todo # <<>> /\ IsRecord(call, ScanFields)
    /\ IsRecord(call', ScanFields) /\ call'.pc = "checking" /\ Same(LoadedFields)
    /\ call'.todo = Tail(call.todo)
    /\ \E kept, noted \in 0..Len(Found) :
         /\ evidence' = evidence \cup {Named(Found[i]) : i \in 1..kept}
         /\ recorded' = recorded \cup {Named(Found[i]) : i \in 1..noted}
         /\ \/ /\ kept < Len(Found)
               /\ call'.executed = call.executed /\ call'.findings = call.findings
               /\ call'.skipped = call.skipped \cup {<<Head(call.todo), "error">>}
            \/ /\ kept = Len(Found)
               /\ call'.executed = call.executed \cup {Head(call.todo)}
               /\ call'.findings = call.findings \o Found
               /\ IF noted < Len(Found)
                  THEN call'.skipped = call.skipped \cup {<<Head(call.todo), "error">>}
                  ELSE call'.skipped = call.skipped
    /\ UNCHANGED << disk, assets, log, answers, sessions >>

Failing == Fail /\ UNCHANGED << disk, assets, log, evidence, recorded, sessions >>

Step == \/ Begun \/ Validated \/ Revalidated \/ LoadedNow \/ Attached \/ Saved \/ Logged
        \/ Answered \/ Edited \/ Started \/ Skipped \/ Checked \/ Failing

(* What each group of steps does to the variables the invariants name.     *)
LEMMA BeginSteps ==
    ASSUME CallShape, NEW who, NEW batch, Begin(who, batch),
           UNCHANGED << evidence, recorded, sessions >>
    PROVE  Begun \/ Failing
<1>1. call = Idle
    BY DEF Begin, CallShape
<1>2. PICK fmt \in Detect(disk) :
        IF fmt = Unsupported
        THEN Fail /\ UNCHANGED << disk, assets, log, edits >>
        ELSE /\ call' = [pc |-> "selected", fmt |-> fmt, found |-> DiscoverManifests(disk),
                         who |-> who, batch |-> batch, steady |-> TRUE]
             /\ UNCHANGED << disk, assets, log, edits, answers >>
    BY DEF Begin
<1>3. CASE fmt = Unsupported
    BY <1>2, <1>3 DEF Failing
<1>4. CASE fmt # Unsupported
    BY <1>1, <1>2, <1>4 DEF Begun, IsRecord, BeginFields
<1> QED
    BY <1>3, <1>4

LEMMA IntakeSteps ==
    ASSUME CallShape, UNCHANGED << evidence, recorded, sessions >>,
           Validate \/ Revalidate \/ Load \/ AttachProvenance \/ SaveAsset \/ LogEvent
    PROVE  Validated \/ Revalidated \/ LoadedNow \/ Attached \/ Saved \/ Logged \/ Failing
<1>1. ASSUME Validate PROVE Validated \/ Failing
    <2> DEFINE s == [pc |-> "validated", told |-> Warnings(call.fmt, call.found)]
    <2>1. IsRecord(call, BeginFields) /\ call.pc = "selected"
        BY <1>1 DEF Validate, CallShape, Idle
    <2>2. CASE Errors(call.fmt, call.found) # {}
        BY <1>1, <2>2 DEF Validate, Failing
    <2>3. CASE Errors(call.fmt, call.found) = {}
        <3>1. call' = Extended(call, s) /\ UNCHANGED << disk, assets, log, edits, answers >>
            BY <1>1, <2>3 DEF Validate
        <3>2. /\ IsRecord(s, {"pc", "told"}) /\ s.pc = "validated"
              /\ s.told = Warnings(call.fmt, call.found)
            BY DEF IsRecord
        <3> HIDE DEF s
        <3>3. /\ IsRecord(call', BeginFields \cup {"pc", "told"})
              /\ call'.pc = "validated" /\ call'.told = s.told
              /\ \A x \in BeginFields \ {"pc", "told"} : call'[x] = call[x]
            BY <2>1, <3>1, <3>2 DEF Extended, IsRecord
        <3>4. BeginFields \cup {"pc", "told"} = ToldFields /\ "told" \notin BeginFields
            BY DEF BeginFields, ToldFields
        <3> QED
            BY <2>1, <2>3, <3>1, <3>2, <3>3, <3>4 DEF Validated, Same
    <2> QED
        BY <2>2, <2>3
<1>2. ASSUME Revalidate PROVE Revalidated \/ Failing
    <2>1. IsRecord(call, ToldFields) /\ call.pc = "validated"
        BY <1>2 DEF Revalidate, CallShape, Idle
    <2>2. CASE Errors(call.fmt, call.found) # {}
        BY <1>2, <2>2 DEF Revalidate, Failing
    <2>3. CASE Errors(call.fmt, call.found) = {}
        <3>1. /\ call' = [call EXCEPT !.pc = "loading"]
              /\ UNCHANGED << disk, assets, log, edits, answers >>
            BY <1>2, <2>3 DEF Revalidate
        <3>2. IsRecord(call', ToldFields) /\ call'.pc = "loading" /\ Same(ToldFields)
            BY <2>1, <3>1 DEF IsRecord, ToldFields, BeginFields, Same
        <3> QED
            BY <2>1, <3>1, <3>2 DEF Revalidated
    <2> QED
        BY <2>2, <2>3
<1>3. ASSUME Load PROVE LoadedNow \/ Failing
    <2> DEFINE data == WithBytes(Loaded(call.fmt, call.found))
               s == [pc |-> "loaded", data |-> data, contributor |-> data.contributor,
                     batchOf |-> NoBatch, hash |-> DatasetHash(data, data.contributor, NoBatch)]
               D == {"pc", "data", "contributor", "batchOf", "hash"}
    <2>1. IsRecord(call, ToldFields) /\ call.pc = "loading"
        BY <1>3 DEF Load, CallShape, Idle
    <2>2. CASE ~Loads(call.fmt, call.found)
        BY <1>3, <2>2 DEF Load, Failing
    <2>3. CASE Loads(call.fmt, call.found)
        <3>1. call' = Extended(call, s) /\ UNCHANGED << disk, assets, log, edits, answers >>
            BY <1>3, <2>3 DEF Load
        <3> HIDE DEF data
        <3>2. /\ IsRecord(s, D) /\ s.pc = "loaded" /\ s.data = data
              /\ s.contributor = data.contributor /\ s.batchOf = NoBatch
              /\ s.hash = DatasetHash(data, data.contributor, NoBatch)
            BY DEF IsRecord
        <3> HIDE DEF s
        <3>3. /\ IsRecord(call', ToldFields \cup D)
              /\ \A x \in D : call'[x] = s[x]
              /\ \A x \in ToldFields \ D : call'[x] = call[x]
            BY <2>1, <3>1, <3>2 DEF Extended, IsRecord
        <3>4. /\ ToldFields \cup D = LoadedFields
              /\ ToldFields \ {"pc"} \subseteq ToldFields \ D
            BY DEF BeginFields, ToldFields, LoadedFields
        <3>5. Same(ToldFields)
            BY <3>3, <3>4 DEF Same
        <3>6. /\ call'.pc = "loaded" /\ call'.data = data
              /\ call'.contributor = data.contributor /\ call'.batchOf = NoBatch
              /\ call'.hash = DatasetHash(data, data.contributor, NoBatch)
            BY <3>2, <3>3
        <3> QED
            BY <2>1, <2>3, <3>1, <3>3, <3>4, <3>5, <3>6 DEF LoadedNow, data
    <2> QED
        BY <2>2, <2>3
<1>4. ASSUME AttachProvenance PROVE Attached
    <2> DEFINE contributor == IF call.contributor = NoContributor THEN call.who ELSE call.contributor
    <2>1. IsRecord(call, LoadedFields) /\ call.pc = "loaded"
        BY <1>4 DEF AttachProvenance, CallShape, Idle
    <2>2. /\ call' = [call EXCEPT !.pc = "attached", !.contributor = contributor,
                                  !.batchOf = call.batch, !.hash = HashWithProvenance(contributor)]
          /\ UNCHANGED << disk, assets, log, answers, edits >>
        BY <1>4 DEF AttachProvenance
    <2> HIDE DEF contributor
    <2>3. /\ IsRecord(call', LoadedFields) /\ call'.pc = "attached"
          /\ call'.contributor = contributor /\ call'.batchOf = call.batch
          /\ call'.hash = HashWithProvenance(contributor)
          /\ Same(ToldFields \cup {"data"})
        BY <2>1, <2>2 DEF IsRecord, LoadedFields, ToldFields, BeginFields, Same
    <2> QED
        BY <2>1, <2>2, <2>3 DEF Attached, contributor
<1>5. ASSUME SaveAsset PROVE Saved
    <2>1. IsRecord(call, LoadedFields) /\ call.pc = "attached"
        BY <1>5 DEF SaveAsset, CallShape, Idle
    <2>2. /\ call' = [call EXCEPT !.pc = "saved"]
          /\ assets' = Append(assets, [row |-> Row, call |-> call, seen |-> disk])
          /\ UNCHANGED << disk, log, answers, edits >>
        BY <1>5 DEF SaveAsset
    <2>3. IsRecord(call', LoadedFields) /\ call'.pc = "saved" /\ Same(LoadedFields)
        BY <2>1, <2>2 DEF IsRecord, LoadedFields, ToldFields, BeginFields, Same
    <2> QED
        BY <2>1, <2>2, <2>3 DEF Saved
<1>6. ASSUME LogEvent PROVE Logged
    <2>1. IsRecord(call, LoadedFields) /\ call.pc = "saved"
        BY <1>6 DEF LogEvent, CallShape, Idle
    <2>2. /\ call' = [call EXCEPT !.pc = "logged"]
          /\ log' = Append(log, [asset |-> Len(assets), hash |-> call.hash,
                                 contributor |-> call.contributor])
          /\ UNCHANGED << disk, assets, answers, edits >>
        BY <1>6 DEF LogEvent
    <2>3. IsRecord(call', LoadedFields) /\ call'.pc = "logged" /\ Same(LoadedFields)
        BY <2>1, <2>2 DEF IsRecord, LoadedFields, ToldFields, BeginFields, Same
    <2> QED
        BY <2>1, <2>2, <2>3 DEF Logged
<1> QED
    BY <1>1, <1>2, <1>3, <1>4, <1>5, <1>6

LEMMA EditSteps ==
    ASSUME CallShape, EditDirectory, UNCHANGED << evidence, recorded, sessions >>
    PROVE  Edited
<1>1. disk' \in Edits \ {disk} /\ UNCHANGED << assets, log, answers >>
    BY DEF EditDirectory
<1>2. CASE call = Idle
    BY <1>1, <1>2 DEF EditDirectory, Edited, Idle
<1>3. CASE call # Idle
    <2>1. call.pc # "idle"
        BY <1>3 DEF CallShape
    <2>2. call' = [call EXCEPT !.steady = FALSE]
        BY <2>1 DEF EditDirectory
    <2>3. PICK C : IsRecord(call, C) /\ "pc" \in C /\ "steady" \in C
        BY <1>3 DEF CallShape, BeginFields, ToldFields, LoadedFields, ScanFields
    <2>4. call'.pc = call.pc /\ call'.steady = FALSE
        BY <2>2, <2>3 DEF IsRecord
    <2>5. ASSUME NEW D, IsRecord(call, D)
          PROVE  IsRecord(call', D) /\ \A x \in D \ {"steady"} : call'[x] = call[x]
        BY <2>2, <2>5 DEF IsRecord
    <2> QED
        BY <1>1, <1>3, <2>4, <2>5 DEF Edited
<1> QED
    BY <1>2, <1>3

LEMMA StartSteps ==
    ASSUME CallShape, StartAnalysis
    PROVE  Started
<1> DEFINE s == [pc |-> "checking", todo |-> CheckOrder, executed |-> {}, skipped |-> {},
                 findings |-> <<>>]
           D == {"pc", "todo", "executed", "skipped", "findings"}
<1>1. IsRecord(call, LoadedFields) /\ call.pc = "logged"
    BY DEF StartAnalysis, CallShape, Idle
<1>2. call' = Extended(call, s) /\ UNCHANGED << disk, assets, log, answers, edits, scanVars >>
    BY DEF StartAnalysis
<1>3. /\ IsRecord(s, D) /\ s.pc = "checking" /\ s.todo = CheckOrder /\ s.executed = {}
      /\ s.skipped = {} /\ s.findings = <<>>
    BY DEF IsRecord
<1> HIDE DEF s
<1>4. /\ IsRecord(call', LoadedFields \cup D)
      /\ \A x \in D : call'[x] = s[x]
      /\ \A x \in LoadedFields \ D : call'[x] = call[x]
    BY <1>1, <1>2, <1>3 DEF Extended, IsRecord
<1>5. LoadedFields \cup D = ScanFields /\ LoadedFields \ {"pc"} \subseteq LoadedFields \ D
    BY DEF BeginFields, ToldFields, LoadedFields, ScanFields
<1>6. Same(LoadedFields)
    BY <1>4, <1>5 DEF Same
<1>7. /\ call'.pc = "checking" /\ call'.todo = CheckOrder /\ call'.executed = {}
      /\ call'.skipped = {} /\ call'.findings = <<>>
    BY <1>3, <1>4
<1> QED
    BY <1>1, <1>2, <1>4, <1>5, <1>6, <1>7 DEF Started, scanVars

LEMMA RunSteps ==
    ASSUME CallShape, RunCheck
    PROVE  Skipped \/ Checked
<1>1. /\ IsRecord(call, ScanFields) /\ call.pc = "checking" /\ call.todo # <<>>
      /\ UNCHANGED << disk, assets, log, answers, edits >>
    BY DEF RunCheck, CallShape, Idle
<1> DEFINE check == Head(call.todo)
<1>2. CASE SkipCheck(check)
    <2> DEFINE skipped == IF check = "DT-6" THEN call.skipped
                          ELSE call.skipped \cup {<<check, "not applicable">>}
    <2>1. call' = [call EXCEPT !.todo = Tail(call.todo), !.skipped = skipped] /\ UNCHANGED scanVars
        BY <1>2 DEF SkipCheck
    <2>2. call.skipped \subseteq skipped
        OBVIOUS
    <2> HIDE DEF skipped, check
    <2>3. /\ IsRecord(call', ScanFields) /\ call'.pc = "checking"
          /\ Same(LoadedFields \cup {"executed", "findings"})
          /\ call'.todo = Tail(call.todo) /\ call'.skipped = skipped
        BY <1>1, <2>1 DEF IsRecord, ScanFields, LoadedFields, ToldFields, BeginFields, Same
    <2> QED
        BY <1>1, <2>1, <2>2, <2>3 DEF Skipped, scanVars
<1>3. CASE PerformCheck(check, Found)
    <2>1. PICK kept \in 0..Len(Found), noted \in 0..Len(Found) :
            LET First(n) == {Named(Found[i]) : i \in 1..n}
                raises == kept < Len(Found)
                fails == raises \/ noted < Len(Found)
            IN /\ raises => noted = 0
               /\ evidence' = evidence \cup First(kept)
               /\ recorded' = recorded \cup First(noted)
               /\ call' = [call EXCEPT !.todo = Tail(@),
                                       !.executed = IF raises THEN @ ELSE @ \cup {check},
                                       !.findings = IF raises THEN @ ELSE @ \o Found,
                                       !.skipped = @ \cup NoteOfFailure(check, fails, raises)]
               /\ UNCHANGED << scanning, sessions >>
        BY <1>3, Zenon DEF PerformCheck
    <2> DEFINE raises == kept < Len(Found)
               executed == IF raises THEN call.executed ELSE call.executed \cup {check}
               findings == IF raises THEN call.findings ELSE call.findings \o Found
               skipped == call.skipped \cup NoteOfFailure(check, raises \/ noted < Len(Found), raises)
    <2>2. /\ evidence' = evidence \cup {Named(Found[i]) : i \in 1..kept}
          /\ recorded' = recorded \cup {Named(Found[i]) : i \in 1..noted}
          /\ call' = [call EXCEPT !.todo = Tail(call.todo), !.executed = executed,
                                  !.findings = findings, !.skipped = skipped]
          /\ UNCHANGED << scanning, sessions >>
        BY <2>1, Zenon
    <2>3. \/ /\ kept < Len(Found)
             /\ executed = call.executed /\ findings = call.findings
             /\ skipped = call.skipped \cup {<<check, "error">>}
          \/ /\ kept = Len(Found)
             /\ executed = call.executed \cup {check} /\ findings = call.findings \o Found
             /\ IF noted < Len(Found) THEN skipped = call.skipped \cup {<<check, "error">>}
                ELSE skipped = call.skipped
        BY DEF NoteOfFailure
    <2> HIDE DEF executed, findings, skipped, check
    <2>4. /\ IsRecord(call', ScanFields) /\ call'.pc = "checking" /\ Same(LoadedFields)
          /\ call'.todo = Tail(call.todo) /\ call'.executed = executed
          /\ call'.findings = findings /\ call'.skipped = skipped
        BY <1>1, <2>2 DEF IsRecord, ScanFields, LoadedFields, ToldFields, BeginFields, Same
    <2> QED
        BY <1>1, <2>2, <2>3, <2>4 DEF Checked, check
<1> QED
    BY <1>2, <1>3 DEF RunCheck, Found

LEMMA AnswerSteps ==
    ASSUME CallShape,
           \/ Answer /\ UNCHANGED << evidence, recorded, sessions >>
           \/ CompleteAnalysis
    PROVE  Answered
<1>1. CASE Answer /\ UNCHANGED << evidence, recorded, sessions >>
    <2>1. /\ call.pc = "logged" /\ call' = Idle
          /\ answers' = Append(answers, [ok |-> TRUE, asset |-> Len(assets),
                                         contributor |-> call.contributor, warnings |-> call.told])
          /\ UNCHANGED << disk, assets, log, edits >>
        BY <1>1 DEF Answer
    <2> QED
        BY <1>1, <2>1 DEF Answered
<1>2. CASE CompleteAnalysis
    <2>1. /\ call.pc = "checking" /\ call.todo = <<>> /\ call' = Idle
          /\ \E severe : answers' = Append(answers, [ok |-> TRUE, asset |-> Len(assets),
                                         contributor |-> call.contributor, severe |-> severe])
          /\ sessions' = Append(sessions,
                [asset |-> Len(assets), executed |-> call.executed, skipped |-> call.skipped,
                 findings |-> call.findings, call |-> call])
          /\ UNCHANGED << disk, assets, log, edits, scanning, evidence, recorded, failures >>
        BY <1>2, Zenon DEF CompleteAnalysis
    <2> QED
        BY <2>1 DEF Answered
<1> QED
    BY <1>1, <1>2

(* Every step is of one of these groups.                                   *)
LEMMA StepCases ==
    ASSUME CallShape, [ScanNext]_allVars
    PROVE  Step \/ UNCHANGED << disk, call, assets, log, answers, evidence, recorded, sessions >>
<1>1. CASE UNCHANGED allVars
    BY <1>1 DEF allVars, vars, scanVars
<1>2. CASE \/ \E who \in Callers, batch \in Batches \cup {NoBatch} : BeginIngest(who, batch)
           \/ \E who \in Callers : BeginScan(who)
    <2>1. /\ \E who, batch : Begin(who, batch)
          /\ UNCHANGED << evidence, recorded, sessions >>
        BY <1>2, Zenon DEF BeginIngest, BeginScan
    <2> QED
        BY <2>1, BeginSteps DEF Step
<1>3. CASE IntakeStep
    <2>1. UNCHANGED << evidence, recorded, sessions >>
        BY <1>3 DEF IntakeStep, scanVars
    <2>2. CASE Validate \/ Revalidate \/ Load \/ AttachProvenance \/ SaveAsset \/ LogEvent
        BY <2>1, <2>2, IntakeSteps DEF Step
    <2>3. CASE StorageFails \/ Crash
        BY <2>1, <2>3 DEF StorageFails, Crash, Failing, Step
    <2>4. CASE EditDirectory
        BY <2>1, <2>4, EditSteps DEF Step
    <2>5. CASE Answer
        BY <2>1, <2>5, AnswerSteps DEF Step
    <2> QED
        BY <1>3, <2>2, <2>3, <2>4, <2>5 DEF IntakeStep
<1>4. CASE StartAnalysis \/ RunCheck \/ CompleteAnalysis
    BY <1>4, StartSteps, RunSteps, AnswerSteps DEF Step
<1> QED
    BY <1>1, <1>2, <1>3, <1>4 DEF ScanNext

LEMMA ShapesStep ==
    ASSUME Shapes, Step
    PROVE  Shapes'
<1>1. CASE Begun \/ Validated \/ Revalidated \/ LoadedNow \/ Attached \/ Started \/ Skipped \/ Checked
    BY <1>1 DEF Shapes, CallShape, Begun, Validated, Revalidated, LoadedNow, Attached, Started,
                Skipped, Checked
<1>2. CASE Saved \/ Logged
    BY <1>2, ListGrows DEF Shapes, CallShape, Saved, Logged
<1>3. CASE Answered
    <2>1. PICK a : answers' = Append(answers, a)
        BY <1>3 DEF Answered
    <2>2. call' = Idle /\ IsList(answers') /\ UNCHANGED << disk, assets, log >>
        BY <1>3, <2>1, ListGrows DEF Shapes, Answered
    <2>3. IsList(sessions')
        BY <1>3, ListGrows DEF Shapes, Answered
    <2> QED
        BY <2>2, <2>3 DEF Shapes, CallShape
<1>4. CASE Edited
    <2>1. CallShape'
        BY <1>4 DEF Shapes, CallShape, Edited
    <2> QED
        BY <1>4, <2>1 DEF Shapes, Edited
<1>5. CASE Failing
    BY <1>5, ListGrows DEF Shapes, CallShape, Failing, Fail
<1> QED
    BY <1>1, <1>2, <1>3, <1>4, <1>5 DEF Step

LEMMA ShapesInit == ScanInit => Shapes
BY EmptyIsList DEF ScanInit, Init, Shapes, CallShape

-----------------------------------------------------------------------------
(* Who is told of a row can point to its event.                            *)

(* What the log has an event of, and the calls that were refused.          *)
Evented == {log[k].asset : k \in DOMAIN log}
Refused == {k \in DOMAIN answers : ~answers[k].ok}

TraceInv ==
    /\ Evented \subseteq DOMAIN assets
    /\ call.pc \in {"saved", "logged", "checking"} => Len(assets) \in DOMAIN assets
    /\ call.pc = "saved" => Len(assets) \notin Evented
    /\ call.pc \in {"logged", "checking"} => Len(assets) \in Evented
    /\ Traceable

(* Traceable in the terms of TraceInv: rows without event are counted by   *)
(* the calls that failed.                                                  *)
LEMMA TraceableStated ==
    Traceable <=>
        /\ \A k \in DOMAIN answers \ Refused : answers[k].asset \in Evented
        /\ Cardinality(DOMAIN assets \ Evented)
             <= Cardinality(Refused) + (IF call.pc = "saved" THEN 1 ELSE 0)
BY DEF Traceable, Evented, Refused

(* The numbers of what is and of what is not in the log are numbers.       *)
LEMMA CountsAreNatural ==
    ASSUME Shapes
    PROVE  /\ DOMAIN assets = 1..Len(assets) /\ DOMAIN log = 1..Len(log)
           /\ DOMAIN answers = 1..Len(answers)
           /\ Len(assets) \in Nat /\ Len(log) \in Nat /\ Len(answers) \in Nat
           /\ IsFiniteSet(DOMAIN assets \ Evented) /\ Cardinality(DOMAIN assets \ Evented) \in Nat
           /\ IsFiniteSet(Refused) /\ Cardinality(Refused) \in Nat
<1>1. /\ DOMAIN assets = 1..Len(assets) /\ DOMAIN log = 1..Len(log)
      /\ DOMAIN answers = 1..Len(answers)
      /\ Len(assets) \in Nat /\ Len(log) \in Nat /\ Len(answers) \in Nat
    BY ListAppends DEF Shapes, IsList
<1>2. IsFiniteSet(DOMAIN assets) /\ IsFiniteSet(DOMAIN answers)
    BY <1>1, FS_Interval
<1>3. IsFiniteSet(DOMAIN assets \ Evented) /\ IsFiniteSet(Refused)
    BY <1>2, FS_Subset DEF Refused
<1> QED
    BY <1>1, <1>3, FS_CardinalityType

(* A row and its event, an answer and its row: step by step.               *)
LEMMA TraceStep ==
    ASSUME Shapes, TraceInv, Step
    PROVE  TraceInv'
<1>s. Shapes'
    BY ShapesStep
<1>n. /\ DOMAIN assets = 1..Len(assets) /\ DOMAIN log = 1..Len(log)
      /\ DOMAIN answers = 1..Len(answers)
      /\ Len(assets) \in Nat /\ Len(log) \in Nat /\ Len(answers) \in Nat
      /\ IsFiniteSet(DOMAIN assets \ Evented) /\ Cardinality(DOMAIN assets \ Evented) \in Nat
      /\ IsFiniteSet(Refused) /\ Cardinality(Refused) \in Nat
    BY CountsAreNatural
<1>t. /\ \A k \in DOMAIN answers \ Refused : answers[k].asset \in Evented
      /\ Cardinality(DOMAIN assets \ Evented)
           <= Cardinality(Refused) + (IF call.pc = "saved" THEN 1 ELSE 0)
    BY TraceableStated DEF TraceInv
<1> DEFINE Goal == /\ \A k \in DOMAIN answers' \ Refused' : answers'[k].asset \in Evented'
                   /\ Cardinality(DOMAIN assets' \ Evented')
                        <= Cardinality(Refused') + (IF call'.pc = "saved" THEN 1 ELSE 0)
<1>g. Goal => Traceable'
    BY DEF Traceable, Evented, Refused
<1>1. CASE \/ Begun \/ Validated \/ Revalidated \/ LoadedNow \/ Attached \/ Edited \/ Started
           \/ Skipped \/ Checked
    <2>1. /\ UNCHANGED << assets, log, answers >>
          /\ \/ call'.pc \notin {"saved", "logged", "checking"} /\ call.pc # "saved"
             \/ call'.pc = call.pc
             \/ call'.pc = "checking" /\ call.pc \in {"logged", "checking"}
        BY <1>1 DEF Begun, Validated, Revalidated, LoadedNow, Attached, Edited, Started,
                    Skipped, Checked, Idle
    <2>2. Evented' = Evented /\ Refused' = Refused
        BY <2>1 DEF Evented, Refused
    <2>3. Goal
        BY <1>t, <2>1, <2>2
    <2> QED
        BY <1>g, <2>1, <2>2, <2>3 DEF TraceInv
<1>2. CASE Saved
    <2>1. /\ call.pc = "attached" /\ call'.pc = "saved" /\ UNCHANGED << log, answers >>
          /\ DOMAIN assets' = 1..(Len(assets) + 1) /\ Len(assets') = Len(assets) + 1
        BY <1>2, ListAppends DEF Saved, Shapes
    <2>2. Evented' = Evented /\ Refused' = Refused
        BY <2>1 DEF Evented, Refused
    <2>3. /\ DOMAIN assets' \ Evented' = (DOMAIN assets \ Evented) \cup {Len(assets) + 1}
          /\ Len(assets) + 1 \notin DOMAIN assets \ Evented
          /\ Len(assets) + 1 \notin Evented
        BY <1>n, <2>1, <2>2 DEF TraceInv
    <2>4. Cardinality(DOMAIN assets' \ Evented') = Cardinality(DOMAIN assets \ Evented) + 1
        BY <1>n, <2>3, FS_AddElement
    <2>5. Goal
        BY <1>n, <1>t, <2>1, <2>2, <2>4
    <2> QED
        BY <1>g, <1>n, <2>1, <2>2, <2>3, <2>5 DEF TraceInv
<1>3. CASE Logged
    <2>1. /\ call.pc = "saved" /\ call'.pc = "logged" /\ UNCHANGED << assets, answers >>
          /\ DOMAIN log' = 1..(Len(log) + 1)
          /\ log'[Len(log) + 1].asset = Len(assets)
          /\ \A k \in 1..Len(log) : log'[k] = log[k]
        BY <1>3, ListAppends DEF Logged, Shapes
    <2>2. Evented' = Evented \cup {Len(assets)} /\ Refused' = Refused
        BY <1>n, <2>1 DEF Evented, Refused
    <2>3. Len(assets) \in DOMAIN assets \ Evented
        BY <2>1 DEF TraceInv
    <2>4. Cardinality(DOMAIN assets' \ Evented') = Cardinality(DOMAIN assets \ Evented) - 1
        <3>1. DOMAIN assets' \ Evented' = (DOMAIN assets \ Evented) \ {Len(assets)}
            BY <2>1, <2>2
        <3>2. Cardinality((DOMAIN assets \ Evented) \ {Len(assets)})
                = Cardinality(DOMAIN assets \ Evented) - 1
            <4> DEFINE S == DOMAIN assets \ Evented
                       x == Len(assets)
            <4>1. IsFiniteSet(S) /\ x \in S
                BY <1>n, <2>3
            <4> HIDE DEF S, x
            <4>2. Cardinality(S \ {x}) = Cardinality(S) - 1
                BY <4>1, FS_RemoveElement
            <4> QED
                BY <4>2 DEF S, x
        <3> QED
            BY <3>1, <3>2
    <2>5. Goal
        BY <1>n, <1>t, <2>1, <2>2, <2>4
    <2> QED
        BY <1>g, <2>1, <2>2, <2>3, <2>5 DEF TraceInv
<1>4. CASE Answered
    <2>1. PICK a : a.ok = TRUE /\ a.asset = Len(assets) /\ answers' = Append(answers, a)
        BY <1>4 DEF Answered
    <2>2. /\ call'.pc = "idle" /\ call.pc \in {"logged", "checking"} /\ UNCHANGED << assets, log >>
          /\ DOMAIN answers' = 1..(Len(answers) + 1)
          /\ answers'[Len(answers) + 1] = a
          /\ \A k \in 1..Len(answers) : answers'[k] = answers[k]
        BY <1>4, <2>1, ListAppends DEF Answered, Shapes, Idle
    <2>3. Evented' = Evented /\ Refused' = Refused
        BY <1>n, <2>1, <2>2 DEF Evented, Refused
    <2>4. Len(assets) \in Evented
        BY <2>2 DEF TraceInv
    <2>5. Goal
        BY <1>n, <1>t, <2>1, <2>2, <2>3, <2>4
    <2> QED
        BY <1>g, <2>2, <2>3, <2>5 DEF TraceInv
<1>5. CASE Failing
    <2>1. /\ call'.pc = "idle" /\ UNCHANGED << assets, log >>
          /\ DOMAIN answers' = 1..(Len(answers) + 1)
          /\ answers'[Len(answers) + 1].ok = FALSE
          /\ \A k \in 1..Len(answers) : answers'[k] = answers[k]
        BY <1>5, ListAppends DEF Failing, Fail, Shapes, Idle
    <2>2. Evented' = Evented /\ Refused' = Refused \cup {Len(answers) + 1}
        BY <1>n, <2>1 DEF Evented, Refused
    <2>3. Cardinality(Refused') = Cardinality(Refused) + 1
        <3>1. Len(answers) + 1 \notin Refused
            BY <1>n DEF Refused
        <3> QED
            BY <1>n, <2>2, <3>1, FS_AddElement
    <2>4. Goal
        BY <1>n, <1>t, <2>1, <2>2, <2>3
    <2> QED
        BY <1>g, <2>1, <2>2, <2>4 DEF TraceInv
<1> QED
    BY <1>1, <1>2, <1>3, <1>4, <1>5 DEF Step

LEMMA TraceInit == ScanInit => TraceInv
<1> SUFFICES ASSUME ScanInit PROVE TraceInv
    OBVIOUS
<1>1. /\ DOMAIN assets = {} /\ DOMAIN log = {} /\ DOMAIN answers = {} /\ call.pc = "idle"
    BY DEF ScanInit, Init, Idle
<1>2. Evented = {} /\ Refused = {}
    BY <1>1 DEF Evented, Refused
<1>3. Cardinality(DOMAIN assets \ Evented) = 0 /\ Cardinality(Refused) = 0
    BY <1>1, <1>2, FS_EmptySet
<1> QED
    BY <1>1, <1>2, <1>3, TraceableStated DEF TraceInv

(* Records of every state keep their fields, whatever has been loaded.     *)
LEMMA ShapesHold == ScanSpec => []Shapes
<1>1. Shapes /\ [ScanNext]_allVars => Shapes'
    <2> SUFFICES ASSUME Shapes, [ScanNext]_allVars PROVE Shapes'
        OBVIOUS
    <2>1. CallShape
        BY DEF Shapes
    <2>2. CASE Step
        BY <2>2, ShapesStep
    <2>3. CASE UNCHANGED << disk, call, assets, log, answers, evidence, recorded, sessions >>
        BY <2>3 DEF Shapes, CallShape
    <2> QED
        BY <2>1, <2>2, <2>3, StepCases
<1> QED
    BY <1>1, ShapesInit, PTL DEF ScanSpec

(* Whoever is told INGESTED can point to a row of the catalogue and to its *)
(* event in the audit log, for any directories and any number of calls,    *)
(* edits, failures and deaths: Traceable (gateway.py:113-134).             *)
THEOREM ToldIsTraceable == ScanSpec => []Traceable
<1>1. Shapes /\ TraceInv /\ [ScanNext]_allVars => TraceInv'
    <2> SUFFICES ASSUME Shapes, TraceInv, [ScanNext]_allVars PROVE TraceInv'
        OBVIOUS
    <2>1. CallShape
        BY DEF Shapes
    <2>2. CASE Step
        BY <2>2, TraceStep
    <2>3. CASE UNCHANGED << disk, call, assets, log, answers, evidence, recorded, sessions >>
        BY <2>3 DEF TraceInv, Traceable, Evented, Refused
    <2> QED
        BY <2>1, <2>2, <2>3, StepCases
<1>2. TraceInv => Traceable
    BY DEF TraceInv
<1> QED
    BY <1>1, <1>2, TraceInit, ShapesHold, PTL DEF ScanSpec

-----------------------------------------------------------------------------
(* Findings with evidence are shown, or their check is noted as failed.    *)

CheckNames == {"DT-1", "DT-2", "DT-3", "DT-4", "DT-5", "DT-6"}

Joined(s, t) == s \o t

(* The elements of the second list follow those of the first.              *)
JoinsLists(s, t, joined) ==
    /\ IsList(joined) /\ Len(joined) = Len(s) + Len(t)
    /\ DOMAIN joined = 1..(Len(s) + Len(t)) /\ DOMAIN s = 1..Len(s)
    /\ \A i \in 1..Len(s) : joined[i] = s[i]
    /\ \A i \in 1..Len(t) : joined[Len(s) + i] = t[i]
    /\ \A i \in 1..(Len(s) + Len(t)) :
         \/ i \in 1..Len(s) /\ joined[i] = s[i]
         \/ i - Len(s) \in 1..Len(t) /\ joined[i] = t[i - Len(s)]

LEMMA JoinedLists ==
    ASSUME NEW s, IsList(s), NEW t, IsList(t)
    PROVE  JoinsLists(s, t, Joined(s, t))
<1> DEFINE S == {s[i] : i \in 1..Len(s)} \cup {t[i] : i \in 1..Len(t)}
<1>1. s \in Seq(S) /\ t \in Seq(S)
    BY DEF IsList
<1> HIDE DEF S
<1>2. /\ Joined(s, t) \in Seq(S) /\ Len(Joined(s, t)) = Len(s) + Len(t)
      /\ \A i \in 1..(Len(s) + Len(t)) :
           Joined(s, t)[i] = IF i <= Len(s) THEN s[i] ELSE t[i - Len(s)]
    BY <1>1, ConcatProperties DEF Joined
<1>3. IsList(Joined(s, t)) /\ DOMAIN Joined(s, t) = 1..(Len(s) + Len(t))
    BY <1>2, SeqIsList
<1>4. DOMAIN s = 1..Len(s)
    BY <1>1, SeqIsList
<1>5. Len(s) \in Nat /\ Len(t) \in Nat
    BY DEF IsList
<1> QED
    BY <1>2, <1>3, <1>4, <1>5 DEF JoinsLists

(* A list of findings of one check.                                        *)
FindingsOf(check, list) == IsList(list) /\ \A i \in 1..Len(list) : list[i].threat = check

LEMMA IfFindings ==
    \A condition, check, title, severity, disposition :
        FindingsOf(check, If(condition, Finding(check, title, severity, disposition)))
<1> SUFFICES ASSUME NEW condition, NEW check, NEW title, NEW severity, NEW disposition
             PROVE  FindingsOf(check, If(condition, Finding(check, title, severity, disposition)))
    OBVIOUS
<1> DEFINE f == Finding(check, title, severity, disposition)
<1>1. f.threat = check
    BY DEF Finding
<1> HIDE DEF f
<1>2. CASE condition
    <2>1. <<f>> \in Seq({f}) /\ Len(<<f>>) = 1 /\ <<f>>[1] = f
        OBVIOUS
    <2>2. IsList(<<f>>)
        BY <2>1, SeqIsList
    <2>3. FindingsOf(check, <<f>>)
        BY <1>1, <2>1, <2>2 DEF FindingsOf
    <2>4. If(condition, f) = <<f>>
        BY <1>2 DEF If
    <2> QED
        BY <2>3, <2>4 DEF f
<1>3. CASE ~condition
    BY <1>3, EmptyIsList DEF If, FindingsOf
<1> QED
    BY <1>2, <1>3 DEF f

(* What a check finds, whatever it looks at, carries its name.             *)
LEMMA RunFindings ==
    ASSUME NEW check \in CheckNames, NEW data, NEW seen, NEW contributor, NEW prior
    PROVE  FindingsOf(check, Run(check, data, seen, contributor, prior))
<1>1. FindingsOf("DT-4", NearDuplicates(data, seen))
    <2> DEFINE listed == Listed(data)
               exact == If(\E i, j \in DOMAIN listed : i < j /\ listed[i].bytes = listed[j].bytes,
                           Finding("DT-4", "exact", "HIGH", "QUARANTINE"))
               near == If(LookAlikes(listed, seen), Finding("DT-4", "near", "MEDIUM", "REVIEW"))
    <2>1. FindingsOf("DT-4", exact) /\ FindingsOf("DT-4", near)
        BY IfFindings
    <2>2. NearDuplicates(data, seen) = Joined(exact, near)
        BY DEF NearDuplicates, Joined
    <2> HIDE DEF exact, near
    <2>3. /\ IsList(exact) /\ \A i \in 1..Len(exact) : exact[i].threat = "DT-4"
          /\ IsList(near) /\ \A i \in 1..Len(near) : near[i].threat = "DT-4"
        BY <2>1 DEF FindingsOf
    <2>4. JoinsLists(exact, near, Joined(exact, near))
        BY <2>3, JoinedLists
    <2> QED
        BY <2>2, <2>3, <2>4 DEF FindingsOf, JoinsLists
<1>2. FindingsOf("DT-1", TriggerInjection(data, seen))
    BY IfFindings, Zenon DEF TriggerInjection
<1>3. FindingsOf("DT-2", LabelFlipping(data, Annotated(data, seen)))
    BY IfFindings, Zenon DEF LabelFlipping
<1>4. FindingsOf("DT-3", SystematicMislabelling(data, Annotated(data, seen)))
    BY IfFindings, Zenon DEF SystematicMislabelling
<1>5. FindingsOf("DT-5", OODInsertion(data, seen))
    BY IfFindings, Zenon DEF OODInsertion
<1>6. FindingsOf("DT-6", ContributorRisk(data, contributor, prior))
    BY IfFindings, Zenon DEF ContributorRisk
<1> QED
    BY <1>1, <1>2, <1>3, <1>4, <1>5, <1>6 DEF Run, CheckNames

(* The evidence of an asset is shown, or its check is noted as failed.     *)
Covered(asset, findings, skipped) ==
    \A e \in evidence : e.asset = asset =>
        \/ \E i \in DOMAIN findings : findings[i] = e.finding
        \/ <<e.finding.threat, "error">> \in skipped

(* What is shown has evidence, and is recorded or its check noted.         *)
Shown(asset, findings, skipped, executed) ==
    \A i \in DOMAIN findings :
        LET e == [asset |-> asset, finding |-> findings[i]]
        IN /\ e \in evidence
           /\ e \in recorded \/ <<findings[i].threat, "error">> \in skipped
           /\ findings[i].threat \in executed

CallAccounted ==
    /\ call.todo \in Seq(CheckNames) /\ IsList(call.findings)
    /\ Covered(Len(assets), call.findings, call.skipped)
    /\ Shown(Len(assets), call.findings, call.skipped, call.executed)

SessionAccounted(s) ==
    /\ s.asset \in 1..Len(assets)
    /\ Covered(s.asset, s.findings, s.skipped)
    /\ Shown(s.asset, s.findings, s.skipped, s.executed)

(* An asset has evidence, and a session, only once its checks are run.     *)
ScanInv ==
    /\ \A e \in evidence : e.asset \in 1..Len(assets)
    /\ call.pc \in {"saved", "logged"} => \A e \in evidence : e.asset # Len(assets)
    /\ call.pc \in {"saved", "logged", "checking"} =>
         /\ Len(assets) \in 1..Len(assets)
         /\ \A k \in DOMAIN sessions : sessions[k].asset # Len(assets)
    /\ call.pc = "checking" => CallAccounted
    /\ \A k \in DOMAIN sessions : SessionAccounted(sessions[k])

LEMMA OrderIsOfChecks == CheckOrder \in Seq(CheckNames)
BY DEF CheckOrder, CheckNames

(* One check: evidence is saved, findings recorded, the call told of both. *)
LEMMA CheckedAccounts ==
    ASSUME Shapes, ScanInv, Checked
    PROVE  ScanInv'
<1> DEFINE check == Head(call.todo)
           a == Len(assets)
<1>1. /\ call.pc = "checking" /\ call'.pc = "checking" /\ call'.todo = Tail(call.todo)
      /\ call.todo # <<>>
      /\ UNCHANGED << assets, sessions >>
    BY DEF Checked
<1>2. CallAccounted
    BY <1>1 DEF ScanInv
<1>3. check \in CheckNames /\ call'.todo \in Seq(CheckNames)
    BY <1>1, <1>2, HeadTailProperties DEF CallAccounted
<1>4. FindingsOf(check, Found)
    BY <1>3, RunFindings DEF Found
<1> HIDE DEF check, a
<1>5. PICK kept \in 0..Len(Found), noted \in 0..Len(Found) :
         /\ evidence' = evidence \cup {Named(Found[i]) : i \in 1..kept}
         /\ recorded' = recorded \cup {Named(Found[i]) : i \in 1..noted}
         /\ \/ /\ kept < Len(Found)
               /\ call'.executed = call.executed /\ call'.findings = call.findings
               /\ call'.skipped = call.skipped \cup {<<check, "error">>}
            \/ /\ kept = Len(Found)
               /\ call'.executed = call.executed \cup {check}
               /\ call'.findings = call.findings \o Found
               /\ IF noted < Len(Found)
                  THEN call'.skipped = call.skipped \cup {<<check, "error">>}
                  ELSE call'.skipped = call.skipped
    BY DEF Checked, check
<1> DEFINE new == {Named(Found[i]) : i \in 1..kept}
<1>6. /\ Len(Found) \in Nat
      /\ \A i \in 1..Len(Found) : Found[i].threat = check
    BY <1>4 DEF FindingsOf, IsList
<1> HIDE DEF Found
<1>7. /\ a \in 1..Len(assets) /\ a = Len(assets)
      /\ \A k \in DOMAIN sessions : sessions[k].asset # a
    BY <1>1 DEF ScanInv, a
<1>8. /\ \A e \in new : e.asset = a
      /\ \A i \in 1..kept : [asset |-> a, finding |-> Found[i]] \in new
      /\ \A e \in new : \E i \in 1..kept : e.finding = Found[i]
    BY DEF Named, a
<1>9. /\ evidence \subseteq evidence' /\ recorded \subseteq recorded'
      /\ evidence' = evidence \cup new
      /\ call.skipped \subseteq call'.skipped /\ call.executed \subseteq call'.executed
      /\ \A i \in 1..noted : [asset |-> a, finding |-> Found[i]] \in recorded'
    BY <1>5 DEF Named, a
<1> HIDE DEF new
<1>10. \A e \in evidence' : e.asset \in 1..Len(assets)
    BY <1>7, <1>8, <1>9 DEF ScanInv
<1>11. ASSUME NEW k \in DOMAIN sessions PROVE SessionAccounted(sessions[k])'
    <2>1. SessionAccounted(sessions[k]) /\ sessions[k].asset # a
        BY <1>7, <1>11 DEF ScanInv
    <2>2. Covered(sessions[k].asset, sessions[k].findings, sessions[k].skipped)'
        BY <1>1, <1>8, <1>9, <2>1 DEF SessionAccounted, Covered
    <2>3. Shown(sessions[k].asset, sessions[k].findings, sessions[k].skipped, sessions[k].executed)'
        BY <1>1, <1>9, <2>1 DEF SessionAccounted, Shown
    <2> QED
        BY <1>1, <2>1, <2>2, <2>3 DEF SessionAccounted
<1>12. CallAccounted'
    <2>1. CASE /\ kept < Len(Found)
               /\ call'.executed = call.executed /\ call'.findings = call.findings
               /\ call'.skipped = call.skipped \cup {<<check, "error">>}
        <3>1. Covered(Len(assets), call.findings, call.skipped)'
            <4> SUFFICES ASSUME NEW e \in evidence', e.asset = a
                         PROVE  \/ \E i \in DOMAIN call.findings : call.findings[i] = e.finding
                                \/ <<e.finding.threat, "error">> \in call'.skipped
                BY <1>1, <1>7, <2>1 DEF Covered
            <4>1. CASE e \in evidence
                BY <1>2, <1>7, <1>9, <4>1 DEF CallAccounted, Covered
            <4>2. CASE e \in new
                BY <1>6, <1>8, <2>1, <4>2
            <4> QED
                BY <1>9, <4>1, <4>2
        <3>2. Shown(Len(assets), call.findings, call.skipped, call.executed)'
            BY <1>1, <1>2, <1>9, <2>1 DEF CallAccounted, Shown
        <3> QED
            BY <1>2, <1>3, <2>1, <3>1, <3>2 DEF CallAccounted
    <2>2. CASE /\ kept = Len(Found)
               /\ call'.executed = call.executed \cup {check}
               /\ call'.findings = call.findings \o Found
               /\ IF noted < Len(Found)
                  THEN call'.skipped = call.skipped \cup {<<check, "error">>}
                  ELSE call'.skipped = call.skipped
        <3>1. /\ IsList(call'.findings)
              /\ DOMAIN call'.findings = 1..(Len(call.findings) + Len(Found))
              /\ DOMAIN call.findings = 1..Len(call.findings)
              /\ Len(call.findings) \in Nat
              /\ \A i \in 1..Len(call.findings) : call'.findings[i] = call.findings[i]
              /\ \A i \in 1..Len(Found) : call'.findings[Len(call.findings) + i] = Found[i]
              /\ \A i \in 1..(Len(call.findings) + Len(Found)) :
                   \/ i \in 1..Len(call.findings) /\ call'.findings[i] = call.findings[i]
                   \/ /\ i - Len(call.findings) \in 1..Len(Found)
                      /\ call'.findings[i] = Found[i - Len(call.findings)]
            <4>1. IsList(call.findings) /\ IsList(Found)
                BY <1>2, <1>4 DEF CallAccounted, FindingsOf
            <4>2. call'.findings = Joined(call.findings, Found) /\ Len(call.findings) \in Nat
                BY <2>2, <4>1 DEF IsList, Joined
            <4>3. JoinsLists(call.findings, Found, call'.findings)
                BY <4>1, <4>2, JoinedLists
            <4> QED
                BY <4>2, <4>3 DEF JoinsLists
        <3>2. Covered(Len(assets), call.findings, call.skipped)'
            <4> SUFFICES ASSUME NEW e \in evidence', e.asset = a
                         PROVE  \/ \E i \in DOMAIN call'.findings : call'.findings[i] = e.finding
                                \/ <<e.finding.threat, "error">> \in call'.skipped
                BY <1>1, <1>7 DEF Covered
            <4>1. CASE e \in evidence
                <5>1. \/ \E i \in DOMAIN call.findings : call.findings[i] = e.finding
                      \/ <<e.finding.threat, "error">> \in call.skipped
                    BY <1>2, <1>7, <4>1 DEF CallAccounted, Covered
                <5> QED
                    BY <1>6, <1>9, <3>1, <5>1
            <4>2. CASE e \in new
                <5>1. PICK i \in 1..Len(Found) : e.finding = Found[i]
                    BY <1>8, <2>2, <4>2
                <5>2. Len(call.findings) + i \in DOMAIN call'.findings
                    BY <1>6, <3>1
                <5> QED
                    BY <3>1, <5>1, <5>2
            <4> QED
                BY <1>9, <4>1, <4>2
        <3>3. Shown(Len(assets), call.findings, call.skipped, call.executed)'
            <4> DEFINE e(f) == [asset |-> a, finding |-> f]
            <4> SUFFICES ASSUME NEW i \in 1..(Len(call.findings) + Len(Found))
                         PROVE  /\ e(call'.findings[i]) \in evidence'
                                /\ \/ e(call'.findings[i]) \in recorded'
                                   \/ <<call'.findings[i].threat, "error">> \in call'.skipped
                                /\ call'.findings[i].threat \in call'.executed
                BY <1>1, <1>7, <3>1 DEF Shown
            <4>1. CASE i \in 1..Len(call.findings) /\ call'.findings[i] = call.findings[i]
                <5>1. /\ e(call.findings[i]) \in evidence
                      /\ \/ e(call.findings[i]) \in recorded
                         \/ <<call.findings[i].threat, "error">> \in call.skipped
                      /\ call.findings[i].threat \in call.executed
                    BY <1>2, <1>7, <3>1, <4>1 DEF CallAccounted, Shown
                <5> QED
                    BY <1>9, <4>1, <5>1
            <4>2. ASSUME i - Len(call.findings) \in 1..Len(Found),
                         call'.findings[i] = Found[i - Len(call.findings)]
                  PROVE  /\ e(call'.findings[i]) \in evidence'
                         /\ \/ e(call'.findings[i]) \in recorded'
                            \/ <<call'.findings[i].threat, "error">> \in call'.skipped
                         /\ call'.findings[i].threat \in call'.executed
                <5> DEFINE j == i - Len(call.findings)
                <5>1. j \in 1..Len(Found) /\ call'.findings[i] = Found[j] /\ Found[j].threat = check
                    BY <1>6, <4>2
                <5> HIDE DEF j
                <5>2. e(Found[j]) \in evidence'
                    BY <1>8, <1>9, <2>2, <5>1
                <5>3. e(Found[j]) \in recorded' \/ <<check, "error">> \in call'.skipped
                    <6>1. CASE noted < Len(Found)
                        BY <2>2, <6>1
                    <6>2. CASE noted = Len(Found)
                        BY <1>9, <5>1, <6>2
                    <6> QED
                        BY <1>6, <6>1, <6>2
                <5> QED
                    BY <2>2, <5>1, <5>2, <5>3
            <4> QED
                BY <3>1, <4>1, <4>2
        <3> QED
            BY <1>3, <3>1, <3>2, <3>3 DEF CallAccounted
    <2> QED
        BY <1>5, <2>1, <2>2
<1> QED
    BY <1>1, <1>7, <1>10, <1>11, <1>12 DEF ScanInv, a

(* A check saves evidence and findings, or leaves a note.                  *)
LEMMA ScanStep ==
    ASSUME Shapes, ScanInv, Step
    PROVE  ScanInv'
<1>0. Len(assets) \in Nat /\ IsList(sessions)
    BY DEF Shapes, IsList
<1>1. CASE \/ Begun \/ Validated \/ Revalidated \/ LoadedNow \/ Attached \/ Failing
    <2>1. /\ UNCHANGED << assets, evidence, recorded, sessions >>
          /\ call'.pc \notin {"saved", "logged", "checking"}
        BY <1>1 DEF Begun, Validated, Revalidated, LoadedNow, Attached, Failing, Fail, Idle
    <2> QED
        BY <2>1 DEF ScanInv, SessionAccounted, Covered, Shown
<1>2. CASE Saved
    <2>1. /\ UNCHANGED << evidence, recorded, sessions >> /\ call'.pc = "saved"
          /\ Len(assets') = Len(assets) + 1
        BY <1>2, ListAppends DEF Saved, Shapes
    <2>2. \A k \in DOMAIN sessions : SessionAccounted(sessions[k])' /\ sessions[k].asset # Len(assets')
        BY <1>0, <2>1 DEF ScanInv, SessionAccounted, Covered, Shown
    <2> QED
        BY <1>0, <2>1, <2>2 DEF ScanInv
<1>3. CASE Logged
    <2>1. /\ UNCHANGED << assets, evidence, recorded, sessions >>
          /\ call.pc = "saved" /\ call'.pc = "logged"
        BY <1>3 DEF Logged
    <2> QED
        BY <2>1 DEF ScanInv, SessionAccounted, Covered, Shown
<1>4. CASE Answered
    <2>1. /\ UNCHANGED << assets, evidence, recorded >> /\ call'.pc = "idle"
        BY <1>4 DEF Answered, Idle
    <2>2. CASE UNCHANGED sessions
        BY <2>1, <2>2 DEF ScanInv, SessionAccounted, Covered, Shown
    <2>3. CASE /\ call.pc = "checking"
               /\ sessions' = Append(sessions,
                     [asset |-> Len(assets), executed |-> call.executed, skipped |-> call.skipped,
                      findings |-> call.findings, call |-> call])
        <3> DEFINE s == [asset |-> Len(assets), executed |-> call.executed, skipped |-> call.skipped,
                         findings |-> call.findings, call |-> call]
        <3>1. SessionAccounted(s)
            BY <2>3 DEF ScanInv, CallAccounted, SessionAccounted
        <3> HIDE DEF s
        <3>2. /\ DOMAIN sessions' = 1..(Len(sessions) + 1) /\ sessions'[Len(sessions) + 1] = s
              /\ DOMAIN sessions = 1..Len(sessions) /\ Len(sessions) \in Nat
              /\ \A k \in 1..Len(sessions) : sessions'[k] = sessions[k]
            BY <1>0, <2>3, ListAppends DEF s, IsList
        <3>3. \A k \in DOMAIN sessions' : SessionAccounted(sessions'[k])
            BY <3>1, <3>2 DEF ScanInv
        <3>4. \A k \in DOMAIN sessions' : SessionAccounted(sessions[k])'
            BY <2>1, <3>3 DEF SessionAccounted, Covered, Shown
        <3> QED
            BY <2>1, <3>4 DEF ScanInv
    <2> QED
        BY <1>4, <2>2, <2>3 DEF Answered
<1>5. CASE Edited
    <2>1. /\ UNCHANGED << assets, evidence, recorded, sessions >> /\ call'.pc = call.pc
          /\ call.pc = "checking" => \A x \in {"todo", "findings", "skipped", "executed"} : call'[x] = call[x]
        BY <1>5 DEF Edited, Shapes, CallShape, ScanFields, Idle
    <2>2. call'.pc = "checking" => CallAccounted'
        BY <2>1 DEF ScanInv, CallAccounted, Covered, Shown
    <2> QED
        BY <2>1, <2>2 DEF ScanInv, SessionAccounted, Covered, Shown
<1>6. CASE Started
    <2>1. /\ UNCHANGED << assets, evidence, recorded, sessions >>
          /\ call.pc = "logged" /\ call'.pc = "checking"
          /\ call'.todo = CheckOrder /\ call'.findings = <<>>
        BY <1>6 DEF Started
    <2>2. CallAccounted'
        BY <2>1, OrderIsOfChecks, EmptyIsList DEF ScanInv, CallAccounted, Covered, Shown
    <2> QED
        BY <2>1, <2>2 DEF ScanInv, SessionAccounted, Covered, Shown
<1>7. CASE Skipped
    <2>1. /\ UNCHANGED << assets, evidence, recorded, sessions >>
          /\ call.pc = "checking" /\ call'.pc = "checking"
          /\ call.todo # <<>> /\ call'.todo = Tail(call.todo)
          /\ call.skipped \subseteq call'.skipped
          /\ call'.findings = call.findings /\ call'.executed = call.executed
        BY <1>7 DEF Skipped, Same, LoadedFields
    <2>2. call'.todo \in Seq(CheckNames)
        BY <2>1, HeadTailProperties DEF ScanInv, CallAccounted
    <2>3. CallAccounted'
        BY <2>1, <2>2 DEF ScanInv, CallAccounted, Covered, Shown
    <2> QED
        BY <2>1, <2>3 DEF ScanInv, SessionAccounted, Covered, Shown
<1> QED
    BY <1>1, <1>2, <1>3, <1>4, <1>5, <1>6, <1>7, CheckedAccounts DEF Step

(* What is shown and what has evidence agree in every state.               *)
LEMMA ScanHolds == ScanSpec => []ScanInv
<1>1. ScanInit => ScanInv
    BY DEF ScanInit, Init, Idle, ScanInv
<1>2. Shapes /\ ScanInv /\ [ScanNext]_allVars => ScanInv'
    <2> SUFFICES ASSUME Shapes, ScanInv, [ScanNext]_allVars PROVE ScanInv'
        OBVIOUS
    <2>1. CallShape
        BY DEF Shapes
    <2>2. CASE Step
        BY <2>2, ScanStep
    <2>3. CASE UNCHANGED << disk, call, assets, log, answers, evidence, recorded, sessions >>
        BY <2>3 DEF ScanInv, CallAccounted, SessionAccounted, Covered, Shown
    <2> QED
        BY <2>1, <2>2, <2>3, StepCases
<1> QED
    BY <1>1, <1>2, ShapesHold, PTL DEF ScanSpec

(* A finding whose evidence is saved is shown by the session of its asset  *)
(* or its check is noted as failed, and a finding that is shown has        *)
(* evidence and is recorded unless its check is noted as failed, whatever  *)
(* the checks find and wherever storage fails: LostFindingIsNoted          *)
(* (orchestrator.py:96-130).                                               *)
THEOREM LossesAreNoted == ScanSpec => []LostFindingIsNoted
<1>1. ScanInv => LostFindingIsNoted
    <2> SUFFICES ASSUME ScanInv, NEW k \in DOMAIN sessions
                 PROVE  /\ \A e \in evidence : sessions[k].asset = e.asset =>
                             e.finding \in Range(sessions[k].findings) \/ Failed(sessions[k], e.finding.threat)
                        /\ \A f \in Range(sessions[k].findings) :
                             LET e == [asset |-> sessions[k].asset, finding |-> f]
                             IN /\ e \in evidence
                                /\ e \in recorded \/ Failed(sessions[k], f.threat)
                                /\ f.threat \in sessions[k].executed
        BY DEF LostFindingIsNoted
    <2>1. /\ Covered(sessions[k].asset, sessions[k].findings, sessions[k].skipped)
          /\ Shown(sessions[k].asset, sessions[k].findings, sessions[k].skipped, sessions[k].executed)
        BY DEF ScanInv, SessionAccounted
    <2> QED
        BY <2>1 DEF Covered, Shown, Range, Failed
<1> QED
    BY <1>1, ScanHolds, PTL

-----------------------------------------------------------------------------
(* The row, its hash and its event name one contributor.                   *)

Attributed(c, contributor, hash, batch) ==
    /\ contributor = IF c.data.contributor = NoContributor THEN c.who ELSE c.data.contributor
    /\ hash = DatasetHash(c.data, contributor, batch)

RowAttributed(asset) ==
    /\ asset.row.data = asset.call.data
    /\ Attributed(asset.call, asset.row.contributor, asset.row.hash, asset.row.batch)

EventAttributed(event) ==
    /\ event.asset \in DOMAIN assets
    /\ event.hash = assets[event.asset].row.hash
    /\ event.contributor = assets[event.asset].row.contributor

(* A call that has loaded the dataset has yet to name the client's part.   *)
AttributionInv ==
    /\ call.pc = "loaded" =>
         /\ call.contributor = call.data.contributor /\ call.batchOf = NoBatch
         /\ call.hash = DatasetHash(call.data, call.contributor, NoBatch)
    /\ call.pc \in {"attached", "saved"} =>
         Attributed(call, call.contributor, call.hash, call.batchOf)
    /\ call.pc = "saved" =>
         /\ Len(assets) \in DOMAIN assets
         /\ assets[Len(assets)].row.hash = call.hash
         /\ assets[Len(assets)].row.contributor = call.contributor
    /\ \A i \in DOMAIN assets : RowAttributed(assets[i])
    /\ \A k \in DOMAIN log : EventAttributed(log[k])

(* The row is written with the contributor its hash was computed with.     *)
LEMMA AttributionStep ==
    ASSUME Shapes, AttributionInv, Step
    PROVE  AttributionInv'
<1>1. CASE Begun \/ Validated \/ Revalidated \/ Failing \/ Started \/ Skipped \/ Checked \/ Answered
    <2>1. UNCHANGED << assets, log >> /\ call'.pc \notin {"loaded", "attached", "saved"}
        BY <1>1 DEF Begun, Validated, Revalidated, Failing, Fail, Started, Skipped, Checked,
                    Answered, Idle
    <2> QED
        BY <2>1 DEF AttributionInv, RowAttributed, EventAttributed
<1>2. CASE LoadedNow
    <2>1. /\ UNCHANGED << assets, log >> /\ call'.pc = "loaded"
          /\ call'.contributor = call'.data.contributor /\ call'.batchOf = NoBatch
          /\ call'.hash = DatasetHash(call'.data, call'.contributor, NoBatch)
        BY <1>2 DEF LoadedNow
    <2> QED
        BY <2>1 DEF AttributionInv, RowAttributed, EventAttributed
<1>3. CASE Attached
    <2>1. /\ UNCHANGED << assets, log >> /\ call.pc = "loaded" /\ call'.pc = "attached"
          /\ call'.data = call.data /\ call'.who = call.who
          /\ call'.contributor = IF call.contributor = NoContributor THEN call.who ELSE call.contributor
          /\ call'.batchOf = call.batch
          /\ call'.hash = HashWithProvenance(call'.contributor)
        BY <1>3 DEF Attached, Same, ToldFields, BeginFields
    <2>2. /\ call.contributor = call.data.contributor
          /\ call.hash = DatasetHash(call.data, call.contributor, NoBatch)
        BY <2>1 DEF AttributionInv
    <2>3. call'.hash = DatasetHash(call.data, call'.contributor, call.batch)
        BY <2>1, <2>2 DEF HashWithProvenance
    <2>4. Attributed(call, call.contributor, call.hash, call.batchOf)'
        BY <2>1, <2>2, <2>3 DEF Attributed
    <2> QED
        BY <2>1, <2>4 DEF AttributionInv, RowAttributed, EventAttributed
<1>4. CASE Saved
    <2>1. /\ UNCHANGED log /\ call.pc = "attached" /\ call'.pc = "saved"
          /\ assets' = Append(assets, [row |-> Row, call |-> call, seen |-> disk])
          /\ \A x \in {"data", "who", "contributor", "hash", "batchOf"} : call'[x] = call[x]
        BY <1>4 DEF Saved, Same, LoadedFields, ToldFields, BeginFields
    <2> DEFINE new == [row |-> Row, call |-> call, seen |-> disk]
    <2>2. /\ new.call = call /\ new.row.data = call.data /\ new.row.contributor = call.contributor
          /\ new.row.hash = call.hash /\ new.row.batch = call.batchOf
        BY DEF Row
    <2>3. assets' = Append(assets, new)
        BY <2>1
    <2> HIDE DEF new
    <2>4. /\ Len(assets') = Len(assets) + 1 /\ DOMAIN assets' = 1..(Len(assets) + 1)
          /\ DOMAIN assets = 1..Len(assets) /\ Len(assets) \in Nat
          /\ assets'[Len(assets) + 1] = new
          /\ \A i \in 1..Len(assets) : assets'[i] = assets[i]
        BY <2>3, ListAppends DEF Shapes, IsList
    <2>5. Attributed(call, call.contributor, call.hash, call.batchOf)
        BY <2>1 DEF AttributionInv
    <2>6. RowAttributed(new)
        BY <2>2, <2>5 DEF RowAttributed
    <2>7. \A i \in DOMAIN assets' : RowAttributed(assets'[i])
        BY <2>4, <2>6 DEF AttributionInv
    <2>8. \A k \in DOMAIN log' : EventAttributed(log[k])'
        BY <2>1, <2>4 DEF AttributionInv, EventAttributed
    <2>9. Attributed(call, call.contributor, call.hash, call.batchOf)'
        BY <2>1, <2>5 DEF Attributed
    <2> QED
        BY <2>1, <2>2, <2>4, <2>7, <2>8, <2>9 DEF AttributionInv, RowAttributed
<1>5. CASE Logged
    <2> DEFINE event == [asset |-> Len(assets), hash |-> call.hash, contributor |-> call.contributor]
    <2>1. /\ UNCHANGED assets /\ call.pc = "saved" /\ call'.pc = "logged"
          /\ log' = Append(log, event)
        BY <1>5 DEF Logged
    <2>2. EventAttributed(event)
        BY <2>1 DEF AttributionInv, EventAttributed
    <2> HIDE DEF event
    <2>3. /\ DOMAIN log' = 1..(Len(log) + 1) /\ DOMAIN log = 1..Len(log) /\ Len(log) \in Nat
          /\ log'[Len(log) + 1] = event
          /\ \A k \in 1..Len(log) : log'[k] = log[k]
        BY <2>1, ListAppends DEF Shapes, IsList
    <2>4. \A k \in DOMAIN log' : EventAttributed(log'[k])
        BY <2>2, <2>3 DEF AttributionInv
    <2> QED
        BY <2>1, <2>4 DEF AttributionInv, RowAttributed, EventAttributed
<1>6. CASE Edited
    <2>1. /\ UNCHANGED << assets, log >> /\ call'.pc = call.pc
          /\ call.pc \in {"loaded", "attached", "saved"} =>
               \A x \in {"data", "who", "contributor", "hash", "batchOf"} : call'[x] = call[x]
        BY <1>6 DEF Edited, Shapes, CallShape, LoadedFields, ToldFields, BeginFields, Idle
    <2> QED
        BY <2>1 DEF AttributionInv, Attributed, RowAttributed, EventAttributed
<1> QED
    BY <1>1, <1>2, <1>3, <1>4, <1>5, <1>6 DEF Step

LEMMA AttributionHolds == ScanSpec => []AttributionInv
<1>1. ScanInit => AttributionInv
    BY DEF ScanInit, Init, Idle, AttributionInv
<1>2. Shapes /\ AttributionInv /\ [ScanNext]_allVars => AttributionInv'
    <2> SUFFICES ASSUME Shapes, AttributionInv, [ScanNext]_allVars PROVE AttributionInv'
        OBVIOUS
    <2>1. CallShape
        BY DEF Shapes
    <2>2. CASE Step
        BY <2>2, AttributionStep
    <2>3. CASE UNCHANGED << disk, call, assets, log, answers, evidence, recorded, sessions >>
        BY <2>3 DEF AttributionInv, Attributed, RowAttributed, EventAttributed
    <2> QED
        BY <2>1, <2>2, <2>3, StepCases
<1> QED
    BY <1>1, <1>2, ShapesHold, PTL DEF ScanSpec

-----------------------------------------------------------------------------
(* What a call read of a directory nobody edited.                          *)

ErrorsIn(tree, fmt, found) == IF fmt = "coco" THEN CocoErrors(tree, found) ELSE YoloErrors(tree)
WarningsIn(tree, fmt, found) == IF fmt = "coco" THEN CocoWarnings(tree, found) ELSE YoloWarnings(tree)
LoadedIn(tree, fmt, found) == IF fmt = "coco" THEN LoadCoco(tree, found) ELSE LoadYolo(tree)
BytesIn(tree, data) ==
    [data EXCEPT !.images = {[id |-> i.id, file |-> i.file, bytes |-> tree.images[i.file]] : i \in @}]

IsFound(found) == \E n \in Nat : DOMAIN found = 1..n

Passed(tree, c) ==
    ErrorsIn(tree, c.fmt, c.found) = {} /\ c.told = WarningsIn(tree, c.fmt, c.found)
ReadFrom(tree, c) == c.data = BytesIn(tree, LoadedIn(tree, c.fmt, c.found))
Selected(c) == c.fmt \in {"coco", "yolo"} /\ IsFound(c.found)

ReadWhole(asset) ==
    /\ Selected(asset.call) /\ asset.seen \in Trees \cup Edits
    /\ asset.call.steady => Passed(asset.seen, asset.call) /\ ReadFrom(asset.seen, asset.call)

SteadyInv ==
    /\ call # Idle => Selected(call)
    /\ call.pc \in {"validated", "loading", "loaded", "attached", "saved", "logged", "checking"}
         /\ call.steady => Passed(disk, call)
    /\ call.pc \in {"loaded", "attached", "saved", "logged", "checking"} /\ call.steady =>
         ReadFrom(disk, call)
    /\ \A i \in DOMAIN assets : ReadWhole(assets[i])

LEMMA InOrderLists ==
    ASSUME NEW S, IsFiniteSet(S)
    PROVE  IsFound(InOrder(S))
<1>1. Cardinality(S) \in Nat
    BY FS_CardinalityType
<1> QED
    BY <1>1 DEF InOrder, Ranked, IsFound

(* The list of manifests of a directory has an end.                        *)
LEMMA ManifestsAreListed ==
    ASSUME NEW tree \in Trees \cup Edits
    PROVE  IsFound(DiscoverManifests(tree))
<1> DEFINE splits == Ranked({i \in DOMAIN SplitNames : CocoIn(tree, <<SplitNames[i]>>) # {}}, <)
           In(dir) == LET standard == {p \in CocoIn(tree, dir) : p.std /\ p.tag # NoSplit}
                      IN InOrder(IF standard # {} THEN standard ELSE CocoIn(tree, dir))
           Tagged(places) == [i \in DOMAIN places |-> [split |-> places[i].tag, place |-> places[i]]]
           BySplit == [i \in DOMAIN splits |->
                        [split |-> SplitNames[splits[i]],
                         place |-> InOrder(CocoIn(tree, <<SplitNames[splits[i]]>>))[1]]]
<1>1. DiscoverManifests(tree)
        = IF splits # <<>> THEN BySplit
          ELSE Tagged(IF In(<<"annotations">>) # <<>> THEN In(<<"annotations">>) ELSE In(<<>>))
    BY DEF DiscoverManifests
<1>2. IsFiniteSet(DOMAIN tree.manifests)
    BY TreesAreFinite
<1>3. ASSUME NEW dir PROVE IsFound(In(dir))
    <2> DEFINE standard == {p \in CocoIn(tree, dir) : p.std /\ p.tag # NoSplit}
               S == IF standard # {} THEN standard ELSE CocoIn(tree, dir)
    <2>1. S \subseteq DOMAIN tree.manifests
        BY DEF CocoIn
    <2> HIDE DEF S
    <2>2. IsFiniteSet(S)
        BY <1>2, <2>1, FS_Subset
    <2>3. IsFound(InOrder(S))
        BY <2>2, InOrderLists
    <2> QED
        BY <2>3 DEF S
<1>4. IsFound(splits)
    <2> DEFINE S == {i \in DOMAIN SplitNames : CocoIn(tree, <<SplitNames[i]>>) # {}}
    <2>1. PICK n \in Nat : DOMAIN SplitNames = 1..n
        <3>1. DOMAIN SplitNames = 1..4
            BY DEF SplitNames
        <3> QED
            BY <3>1
    <2>2. S \subseteq 1..n
        <3>1. S \subseteq DOMAIN SplitNames
            BY Zenon
        <3> HIDE DEF S
        <3> QED
            BY <2>1, <3>1
    <2>3. IsFiniteSet(1..n)
        BY FS_Interval
    <2> HIDE DEF S
    <2>4. Cardinality(S) \in Nat
        BY <2>2, <2>3, FS_Subset, FS_CardinalityType
    <2> QED
        BY <2>4 DEF Ranked, IsFound, S
<1>5. \A places : IsFound(places) => IsFound(Tagged(places))
    BY DEF IsFound
<1>6. IsFound(BySplit)
    BY <1>4 DEF IsFound
<1> HIDE DEF splits, In, Tagged, BySplit
<1> QED
    BY <1>1, <1>3, <1>5, <1>6

(* There are two formats.                                                  *)
LEMMA DetectsFormats ==
    ASSUME NEW tree, NEW fmt \in Detect(tree), fmt # Unsupported
    PROVE  fmt \in {"coco", "yolo"}
BY DEF Detect, Unsupported

(* While nobody edits the directory, what was validated is what is loaded. *)
LEMMA SteadyStep ==
    ASSUME Shapes, SteadyInv, Step
    PROVE  SteadyInv'
<1> DEFINE Late == {"loaded", "attached", "saved", "logged", "checking"}
<1>1. CASE Begun
    <2>1. /\ call' # Idle /\ call'.pc = "selected" /\ UNCHANGED << disk, assets >>
          /\ call'.fmt \in Detect(disk) /\ call'.fmt # Unsupported
          /\ call'.found = DiscoverManifests(disk)
        BY <1>1 DEF Begun, Idle
    <2>2. Selected(call')
        BY <2>1, DetectsFormats, ManifestsAreListed DEF Shapes, Selected
    <2> QED
        BY <2>1, <2>2 DEF SteadyInv, Selected, ReadWhole
<1>2. CASE Validated
    <2>1. /\ call.pc = "selected" /\ call'.pc = "validated" /\ UNCHANGED << disk, assets >>
          /\ call'.fmt = call.fmt /\ call'.found = call.found
          /\ Errors(call.fmt, call.found) = {} /\ call'.told = Warnings(call.fmt, call.found)
        BY <1>2 DEF Validated, Same, BeginFields
    <2>2. Selected(call') /\ Passed(disk, call')
        BY <2>1 DEF SteadyInv, Selected, Passed, Errors, ErrorsIn, Warnings, WarningsIn, Idle
    <2> QED
        BY <2>1, <2>2 DEF SteadyInv, Selected, ReadWhole, Passed
<1>3. CASE LoadedNow
    <2>1. /\ call.pc = "loading" /\ call'.pc = "loaded" /\ UNCHANGED << disk, assets >>
          /\ \A x \in {"fmt", "found", "told", "steady"} : call'[x] = call[x]
          /\ call'.data = WithBytes(Loaded(call.fmt, call.found))
        BY <1>3 DEF LoadedNow, Same, ToldFields, BeginFields
    <2>2. /\ Selected(call')
          /\ call'.steady => Passed(disk, call')
        BY <2>1 DEF SteadyInv, Selected, Passed, Idle
    <2>3. ReadFrom(disk, call')
        <3>1. LoadedIn(disk, call.fmt, call.found) = Loaded(call.fmt, call.found)
            BY DEF Loaded, LoadedIn
        <3>2. \A data : WithBytes(data) = BytesIn(disk, data)
            BY DEF WithBytes, BytesIn
        <3> QED
            BY <2>1, <3>1, <3>2 DEF ReadFrom
    <2> QED
        BY <2>1, <2>2, <2>3 DEF SteadyInv, Selected, ReadWhole, Passed, ReadFrom
<1>4. CASE Revalidated
    <2>1. /\ call.pc = "validated" /\ call'.pc = "loading" /\ UNCHANGED << disk, assets >>
          /\ \A x \in {"fmt", "found", "told", "steady"} : call'[x] = call[x]
        BY <1>4 DEF Revalidated, Same, ToldFields, BeginFields
    <2> QED
        BY <2>1 DEF SteadyInv, Selected, ReadWhole, Passed, Idle
<1>5. CASE Attached \/ Logged \/ Started \/ Skipped \/ Checked
    <2>1. /\ call.pc \in Late /\ call'.pc \in Late /\ UNCHANGED << disk, assets >>
          /\ \A x \in {"fmt", "found", "told", "steady", "data"} : call'[x] = call[x]
        BY <1>5 DEF Attached, Logged, Started, Skipped, Checked, Same, LoadedFields, ToldFields,
                    BeginFields
    <2> QED
        BY <2>1 DEF SteadyInv, Selected, ReadWhole, Passed, ReadFrom, Idle
<1>6. CASE Saved
    <2> DEFINE new == [row |-> Row, call |-> call, seen |-> disk]
    <2>1. /\ call.pc = "attached" /\ call'.pc = "saved" /\ UNCHANGED disk
          /\ \A x \in {"fmt", "found", "told", "steady", "data"} : call'[x] = call[x]
          /\ assets' = Append(assets, new)
        BY <1>6 DEF Saved, Same, LoadedFields, ToldFields, BeginFields
    <2>2. new.call = call /\ new.seen = disk
        OBVIOUS
    <2> HIDE DEF new
    <2>3. /\ DOMAIN assets' = 1..(Len(assets) + 1) /\ DOMAIN assets = 1..Len(assets)
          /\ Len(assets) \in Nat /\ assets'[Len(assets) + 1] = new
          /\ \A i \in 1..Len(assets) : assets'[i] = assets[i]
        BY <2>1, ListAppends DEF Shapes, IsList
    <2>4. ReadWhole(new)
        BY <2>1, <2>2 DEF SteadyInv, Shapes, ReadWhole, Idle
    <2>5. \A i \in DOMAIN assets' : ReadWhole(assets'[i])
        BY <2>3, <2>4 DEF SteadyInv
    <2> QED
        BY <2>1, <2>5 DEF SteadyInv, Selected, Passed, ReadFrom, Idle
<1>7. CASE Answered \/ Failing
    <2>1. call' = Idle /\ UNCHANGED << disk, assets >>
        BY <1>7 DEF Answered, Failing, Fail
    <2> QED
        BY <2>1 DEF SteadyInv, ReadWhole, Idle
<1>8. CASE Edited
    <2>1. UNCHANGED assets
        BY <1>8 DEF Edited
    <2>2. CASE call' = Idle
        BY <2>1, <2>2 DEF SteadyInv, ReadWhole, Idle
    <2>3. CASE /\ call # Idle /\ call'.pc = call.pc /\ call'.steady = FALSE
               /\ \A D : IsRecord(call, D) =>
                    IsRecord(call', D) /\ \A x \in D \ {"steady"} : call'[x] = call[x]
        <3>1. call'.fmt = call.fmt /\ call'.found = call.found
            BY <2>3 DEF Shapes, CallShape, BeginFields, ToldFields, LoadedFields, ScanFields
        <3> QED
            BY <2>1, <2>3, <3>1 DEF SteadyInv, Selected, ReadWhole
    <2> QED
        BY <1>8, <2>2, <2>3 DEF Edited
<1> QED
    BY <1>1, <1>2, <1>3, <1>4, <1>5, <1>6, <1>7, <1>8 DEF Step

LEMMA SteadyHolds == ScanSpec => []SteadyInv
<1>1. ScanInit => SteadyInv
    BY DEF ScanInit, Init, Idle, SteadyInv
<1>2. Shapes /\ SteadyInv /\ [ScanNext]_allVars => SteadyInv'
    <2> SUFFICES ASSUME Shapes, SteadyInv, [ScanNext]_allVars PROVE SteadyInv'
        OBVIOUS
    <2>1. CallShape
        BY DEF Shapes
    <2>2. CASE Step
        BY <2>2, SteadyStep
    <2>3. CASE UNCHANGED << disk, call, assets, log, answers, evidence, recorded, sessions >>
        BY <2>3 DEF SteadyInv, Selected, ReadWhole
    <2> QED
        BY <2>1, <2>2, <2>3, StepCases
<1> QED
    BY <1>1, <1>2, ShapesHold, PTL DEF ScanSpec

(* A list of names says the first that is not NoContributor.               *)
LEMMA FirstNamedIsFirst ==
    ASSUME NEW names, IsFound(names), NEW k \in DOMAIN names, names[k] # NoContributor
    PROVE  \E j \in 1..k : j \in DOMAIN names /\ names[j] = FirstNamed(names)
                           /\ names[j] # NoContributor
<1> DEFINE named == {i \in DOMAIN names : names[i] # NoContributor}
           m == Min(named)
<1>1. PICK n \in Nat : DOMAIN names = 1..n
    BY DEF IsFound
<1>2. k \in named /\ named \in SUBSET Int /\ named \subseteq 1..n
    BY <1>1
<1>3. IsFiniteSet(named)
    BY <1>2, FS_Interval, FS_Subset
<1>4. m \in named /\ m <= k
    <2> HIDE DEF named
    <2> QED
        BY <1>2, <1>3, FiniteMin
<1>5. FirstNamed(names) = names[m]
    BY <1>2 DEF FirstNamed
<1> HIDE DEF m
<1> QED
    BY <1>1, <1>4, <1>5

(* The contributor of what a COCO manifest list loads.                     *)
LEMMA LoadedContributor ==
    ASSUME NEW tree, NEW found
    PROVE  BytesIn(tree, LoadCoco(tree, found)).contributor
             = FirstNamed([i \in DOMAIN found |-> tree.manifests[found[i].place].contributor])
BY DEF BytesIn, LoadCoco

(* The contributor of a row is whom the first manifest that names one      *)
(* names, or else the client's; the row's hash and its event commit to it, *)
(* for any directories, clients and edits: AttributionHonest               *)
(* (gateway.py:73-80, 117).                                                *)
THEOREM AttributionIsHonest == ScanSpec => []AttributionHonest
<1>1. AttributionInv /\ SteadyInv => AttributionHonest
    <2> SUFFICES ASSUME AttributionInv, SteadyInv PROVE AttributionHonest
        OBVIOUS
    <2>1. ASSUME NEW i \in DOMAIN assets
          PROVE  LET row == assets[i].row
                 IN /\ row.contributor = IF row.data.contributor = NoContributor
                                         THEN assets[i].call.who ELSE row.data.contributor
                    /\ row.hash = DatasetHash(row.data, row.contributor, row.batch)
        BY <2>1 DEF AttributionInv, RowAttributed, Attributed
    <2>2. ASSUME NEW i \in SteadyRows, assets[i].call.fmt = "coco",
                 NEW k \in DOMAIN assets[i].call.found
          PROVE  LET named == assets[i].seen.manifests[assets[i].call.found[k].place].contributor
                 IN \/ named \in {NoContributor, assets[i].row.contributor}
                    \/ \E j \in 1..(k - 1) :
                         assets[i].seen.manifests[assets[i].call.found[j].place].contributor
                           = assets[i].row.contributor
        <3> DEFINE tree == assets[i].seen
                   found == assets[i].call.found
                   names == [j \in DOMAIN found |-> tree.manifests[found[j].place].contributor]
        <3>1. i \in DOMAIN assets /\ IsFound(found) /\ ReadFrom(tree, assets[i].call)
            BY <2>2 DEF SteadyRows, SteadyInv, ReadWhole, Selected
        <3>2. assets[i].call.data = BytesIn(tree, LoadCoco(tree, found))
            BY <2>2, <3>1 DEF ReadFrom, LoadedIn
        <3>3. assets[i].row.data.contributor = FirstNamed(names)
            <4>1. BytesIn(tree, LoadCoco(tree, found)).contributor = FirstNamed(names)
                BY LoadedContributor
            <4>2. assets[i].row.data = assets[i].call.data
                BY <3>1 DEF AttributionInv, RowAttributed
            <4> HIDE DEF names
            <4> QED
                BY <3>2, <4>1, <4>2
        <3>4. IsFound(names) /\ DOMAIN names = DOMAIN found
            BY <3>1 DEF IsFound
        <3>5. CASE names[k] # NoContributor
            <4>1. k \in DOMAIN names
                BY <2>2, <3>4
            <4> HIDE DEF names
            <4>2. PICK j \in 1..k : j \in DOMAIN names /\ names[j] = FirstNamed(names)
                                    /\ names[j] # NoContributor
                BY <3>4, <3>5, <4>1, FirstNamedIsFirst
            <4>3. names[j] = assets[i].row.contributor
                BY <2>1, <3>1, <3>3, <4>2
            <4>4. j = k \/ j \in 1..(k - 1)
                <5>1. k \in Int
                    BY <3>4, <4>1 DEF IsFound
                <5> QED
                    BY <5>1
            <4> QED
                BY <4>2, <4>3, <4>4 DEF names
        <3>6. CASE names[k] = NoContributor
            BY <3>6
        <3> QED
            BY <3>5, <3>6
    <2> QED
        BY <2>1, <2>2 DEF AttributionHonest, AttributionInv, EventAttributed
<1> QED
    BY <1>1, AttributionHolds, SteadyHolds, PTL

-----------------------------------------------------------------------------
(* What a passed validation guarantees of the manifests, and what loading  *)
(* them gives.                                                             *)

Manifest(tree, found, i) == tree.manifests[found[i].place]
IdIn(tree, found, i, id) == ImageId(IsMultiSplit(tree, found), found[i].split, id)
IdsIn(tree, found, i) == {IdIn(tree, found, i, m.id) : m \in Manifest(tree, found, i).images}

(* No manifest repeats an id, lacks a file, or annotates what is not there.*)
Orderly(tree, found, i) ==
    /\ ~ (Cardinality(IdsIn(tree, found, i)) < Cardinality(Manifest(tree, found, i).images))
    /\ \A j \in DOMAIN found : j < i => IdsIn(tree, found, i) \cap IdsIn(tree, found, j) = {}
    /\ \A m \in Manifest(tree, found, i).images :
         FindImageFile(tree, m.file, found[i].place.dir) # {}
    /\ \A a \in Manifest(tree, found, i).annotations :
         \E j \in DOMAIN found : j <= i /\ IdIn(tree, found, i, a.image) \in IdsIn(tree, found, j)

(* When validation finds no error, every manifest was read and is orderly. *)
LEMMA PassedManifests ==
    ASSUME NEW tree, NEW found, CocoErrors(tree, found) = {}
    PROVE  /\ Admitted(tree, found) = DOMAIN found
           /\ \A i \in DOMAIN found : Orderly(tree, found, i)
<1> DEFINE read == Admitted(tree, found)
           Of(i) == tree.manifests[found[i].place]
           Id(i, id) == ImageId(IsMultiSplit(tree, found), found[i].split, id)
           IdsOf(i) == {Id(i, m.id) : m \in Of(i).images}
           Bad(i) ==
             (IF ~Of(i).complete THEN {"incomplete entry"} ELSE {})
             \cup (IF \/ Cardinality(IdsOf(i)) < Cardinality(Of(i).images)
                      \/ \E j \in read : j < i /\ IdsOf(i) \cap IdsOf(j) # {}
                   THEN {"duplicate image id"} ELSE {})
             \cup {"image not found" :
                     m \in {m \in Of(i).images : FindImageFile(tree, m.file, found[i].place.dir) = {}}}
             \cup {"orphan annotation" :
                     a \in {a \in Of(i).annotations : \A j \in read : j <= i => Id(i, a.image) \notin IdsOf(j)}}
             \cup {"unknown category" :
                     a \in {a \in Of(i).annotations : \A j \in read : j <= i => a.cat \notin DOMAIN Of(j).names}}
             \cup {"bad box" : a \in {a \in Of(i).annotations : a.box \in {"malformed", "flat"}}}
           Errs == (IF read # DOMAIN found THEN {"manifest not usable"} ELSE {})
                     \cup UNION {Bad(i) : i \in read}
<1>1. CocoErrors(tree, found)
        = IF found = <<>> THEN {"no manifest"}
          ELSE IF Errs = {} /\ \A i \in read : Of(i).images = {} THEN {"nothing in it"} ELSE Errs
    BY Zenon DEF CocoErrors
<1> HIDE DEF Errs
<1>2. Errs = {}
    BY <1>1
<1> HIDE DEF Bad
<1>3. read = DOMAIN found
    BY <1>2 DEF Errs
<1>4. \A i \in read : Bad(i) = {}
    BY <1>2 DEF Errs
<1>5. ASSUME NEW i \in DOMAIN found PROVE Orderly(tree, found, i)
    <2>1. Bad(i) = {}
        BY <1>3, <1>4
    <2>2. \A id : Id(i, id) = IdIn(tree, found, i, id)
        BY DEF IdIn
    <2>3. \A j \in DOMAIN found : IdsOf(j) = IdsIn(tree, found, j)
        BY DEF IdsIn, IdIn, Manifest
    <2> HIDE DEF read, Id, IdsOf
    <2>4. ~ (\/ Cardinality(IdsOf(i)) < Cardinality(Of(i).images)
             \/ \E j \in read : j < i /\ IdsOf(i) \cap IdsOf(j) # {})
        BY <2>1, Zenon DEF Bad
    <2>5. \A m \in Of(i).images : FindImageFile(tree, m.file, found[i].place.dir) # {}
        BY <2>1, Zenon DEF Bad
    <2>6. \A a \in Of(i).annotations : \E j \in read : j <= i /\ Id(i, a.image) \in IdsOf(j)
        BY <2>1, Zenon DEF Bad
    <2> QED
        BY <1>3, <2>2, <2>3, <2>4, <2>5, <2>6 DEF Orderly, Manifest
<1> QED
    BY <1>3, <1>5

(* A class has the name the last manifest that has the class gives it.     *)
NameIn(tree, found, c) ==
    LET i == CHOOSE i \in DOMAIN found :
               /\ c \in DOMAIN Manifest(tree, found, i).names
               /\ \A j \in DOMAIN found : c \in DOMAIN Manifest(tree, found, j).names => j <= i
    IN Manifest(tree, found, i).names[c]

(* The name a class is given is one a manifest gives it.                   *)
LEMMA NamesAreOfManifests ==
    ASSUME NEW tree, NEW found, IsFound(found), NEW c, NEW k \in DOMAIN found,
           c \in DOMAIN Manifest(tree, found, k).names
    PROVE  \E i \in DOMAIN found :
             /\ c \in DOMAIN Manifest(tree, found, i).names
             /\ NameIn(tree, found, c) = Manifest(tree, found, i).names[c]
<1> DEFINE S == {i \in DOMAIN found : c \in DOMAIN Manifest(tree, found, i).names}
<1>1. PICK n \in Nat : DOMAIN found = 1..n
    BY DEF IsFound
<1>2. k \in S /\ S \subseteq 1..n /\ S \in SUBSET Int
    BY <1>1
<1>3. IsFiniteSet(S)
    BY <1>2, FS_Interval, FS_Subset
<1>4. Max(S) \in S /\ \A j \in S : j <= Max(S)
    <2> HIDE DEF S
    <2> QED
        BY <1>2, <1>3, FiniteMax
<1>5. \E i \in DOMAIN found :
        /\ c \in DOMAIN Manifest(tree, found, i).names
        /\ \A j \in DOMAIN found : c \in DOMAIN Manifest(tree, found, j).names => j <= i
    BY <1>4
<1> QED
    BY <1>5, Zenon DEF NameIn

(* The images LoadCoco registers, entry by entry.                          *)
LEMMA ImagesLoaded ==
    ASSUME NEW tree, NEW found
    PROVE  LET images == BytesIn(tree, LoadCoco(tree, found)).images
           IN /\ \A im \in images :
                   \E i \in DOMAIN found : \E m \in Manifest(tree, found, i).images :
                     /\ im.file \in FindImageFile(tree, m.file, found[i].place.dir)
                     /\ im = [id |-> IdIn(tree, found, i, m.id), file |-> im.file,
                              bytes |-> tree.images[im.file]]
              /\ \A i \in DOMAIN found : \A m \in Manifest(tree, found, i).images :
                   \A f \in FindImageFile(tree, m.file, found[i].place.dir) :
                     \E im \in images : im.id = IdIn(tree, found, i, m.id) /\ im.file = f
<1> DEFINE Of(i) == tree.manifests[found[i].place]
           Id(i, id) == ImageId(IsMultiSplit(tree, found), found[i].split, id)
           Images(i) == UNION {{[id |-> Id(i, m.id), file |-> f] :
                                  f \in FindImageFile(tree, m.file, found[i].place.dir)} : m \in Of(i).images}
           read == UNION {Images(i) : i \in DOMAIN found}
           images == BytesIn(tree, LoadCoco(tree, found)).images
<1>1. LoadCoco(tree, found).images = read
    BY DEF LoadCoco
<1>2. images = {[id |-> i.id, file |-> i.file, bytes |-> tree.images[i.file]] : i \in read}
    <2>1. \A data : DOMAIN data = {"images", "annotations", "classes", "contributor"} =>
            BytesIn(tree, data).images
              = {[id |-> i.id, file |-> i.file, bytes |-> tree.images[i.file]] : i \in data.images}
        BY DEF BytesIn
    <2>2. DOMAIN LoadCoco(tree, found) = {"images", "annotations", "classes", "contributor"}
        BY DEF LoadCoco
    <2> HIDE DEF read
    <2> QED
        BY <1>1, <2>1, <2>2
<1>3. \A i \in DOMAIN found : \A m \in Manifest(tree, found, i).images :
        \A f \in FindImageFile(tree, m.file, found[i].place.dir) :
          [id |-> IdIn(tree, found, i, m.id), file |-> f] \in read
    BY DEF IdIn, Manifest
<1>4. \A r \in read : \E i \in DOMAIN found : \E m \in Manifest(tree, found, i).images :
        /\ r.file \in FindImageFile(tree, m.file, found[i].place.dir)
        /\ r = [id |-> IdIn(tree, found, i, m.id), file |-> r.file]
    BY DEF IdIn, Manifest
<1> HIDE DEF read, images
<1>5. ASSUME NEW im \in images
      PROVE  \E i \in DOMAIN found : \E m \in Manifest(tree, found, i).images :
               /\ im.file \in FindImageFile(tree, m.file, found[i].place.dir)
               /\ im = [id |-> IdIn(tree, found, i, m.id), file |-> im.file,
                        bytes |-> tree.images[im.file]]
    <2>1. PICK r \in read : im = [id |-> r.id, file |-> r.file, bytes |-> tree.images[r.file]]
        BY <1>2, <1>5
    <2>5. PICK i \in DOMAIN found : \E m \in Manifest(tree, found, i).images :
            /\ r.file \in FindImageFile(tree, m.file, found[i].place.dir)
            /\ r = [id |-> IdIn(tree, found, i, m.id), file |-> r.file]
        BY <1>4, <2>1
    <2>2. PICK m \in Manifest(tree, found, i).images :
            /\ r.file \in FindImageFile(tree, m.file, found[i].place.dir)
            /\ r = [id |-> IdIn(tree, found, i, m.id), file |-> r.file]
        BY <2>5
    <2>3. r.id = IdIn(tree, found, i, m.id) /\ im.file = r.file
        BY <2>1, <2>2
    <2> QED
        BY <2>1, <2>2, <2>3
<1>6. ASSUME NEW i \in DOMAIN found, NEW m \in Manifest(tree, found, i).images,
             NEW f \in FindImageFile(tree, m.file, found[i].place.dir)
      PROVE  \E im \in images : im.id = IdIn(tree, found, i, m.id) /\ im.file = f
    <2> DEFINE r == [id |-> IdIn(tree, found, i, m.id), file |-> f]
    <2>1. r \in read /\ r.id = IdIn(tree, found, i, m.id) /\ r.file = f
        BY <1>3
    <2> HIDE DEF r
    <2>2. [id |-> r.id, file |-> r.file, bytes |-> tree.images[r.file]] \in images
        BY <1>2, <2>1
    <2> QED
        BY <2>1, <2>2
<1> QED
    BY <1>5, <1>6 DEF images

(* The annotations LoadCoco registers, each with its manifest.             *)
LEMMA AnnotationsLoaded ==
    ASSUME NEW tree, NEW found, NEW a \in BytesIn(tree, LoadCoco(tree, found)).annotations
    PROVE  \E i \in DOMAIN found : \E x \in Manifest(tree, found, i).annotations :
             /\ a.from = i /\ a.cat = x.cat /\ a.image = IdIn(tree, found, i, x.image)
             /\ (\E k \in DOMAIN found : a.cat \in DOMAIN Manifest(tree, found, k).names) =>
                  a.name = NameIn(tree, found, a.cat)
<1> DEFINE Of(i) == tree.manifests[found[i].place]
           Known == UNION {DOMAIN Of(i).names : i \in DOMAIN found}
           Read(i, x) == [image |-> IdIn(tree, found, i, x.image), from |-> i, cat |-> x.cat,
                          name |-> IF x.cat \in Known THEN NameIn(tree, found, x.cat) ELSE "class_<id>",
                          box |-> IF x.box \in {"ok", "negative"} THEN x.box ELSE NoBox]
<1>1. BytesIn(tree, LoadCoco(tree, found)).annotations = LoadCoco(tree, found).annotations
    <2>1. \A data : BytesIn(tree, data).annotations = data.annotations
        BY DEF BytesIn
    <2> QED
        BY <2>1
<1>2. LoadCoco(tree, found).annotations
        = UNION {{Read(i, x) : x \in Of(i).annotations} : i \in DOMAIN found}
    BY DEF LoadCoco, NameIn, IdIn, Manifest
<1>3. \E i \in DOMAIN found : \E x \in Of(i).annotations : a = Read(i, x)
    <2> HIDE DEF Read
    <2> QED
        BY <1>1, <1>2
<1>4. \A i, x : Read(i, x).from = i /\ Read(i, x).cat = x.cat
               /\ Read(i, x).image = IdIn(tree, found, i, x.image)
               /\ (x.cat \in Known => Read(i, x).name = NameIn(tree, found, x.cat))
    <2> HIDE DEF Known
    <2> QED
        OBVIOUS
<1>5. (\E k \in DOMAIN found : a.cat \in DOMAIN Manifest(tree, found, k).names) => a.cat \in Known
    BY DEF Manifest
<1> HIDE DEF Known, Read
<1> QED
    BY <1>3, <1>4, <1>5 DEF Manifest

(* Two manifests that name a category differently give a warning.          *)
LEMMA ConflictsAreTold ==
    ASSUME NEW tree, NEW found, Admitted(tree, found) = DOMAIN found,
           NEW i \in DOMAIN found, NEW k \in DOMAIN found, NEW c,
           c \in DOMAIN Manifest(tree, found, i).names,
           c \in DOMAIN Manifest(tree, found, k).names,
           Manifest(tree, found, i).names[c] # Manifest(tree, found, k).names[c]
    PROVE  "conflicting names" \in CocoWarnings(tree, found)
<1> DEFINE Of(j) == tree.manifests[found[j].place]
<1>1. NamedTwice({Of(j) : j \in Admitted(tree, found)})
    BY DEF NamedTwice, Manifest
<1> QED
    BY <1>1, Zenon DEF CocoWarnings

(* What a passed validation of a YOLO dataset says of its classes.         *)
LEMMA YoloClasses ==
    ASSUME NEW tree \in Trees \cup Edits, YoloErrors(tree) = {},
           NEW a \in BytesIn(tree, LoadYolo(tree)).annotations,
           a.cat \notin DOMAIN DeclaredNames(tree), DOMAIN DeclaredNames(tree) # {}
    PROVE  "class not declared" \in YoloWarnings(tree) \/ a.cat < Max(DOMAIN DeclaredNames(tree))
<1> DEFINE pairs == DiscoverPairs(tree)
           declared == DOMAIN DeclaredNames(tree)
           all == UNION {tree.labels[f] : f \in MatchedLabels(tree)}
           Lines(p) == IF p.label = NoLabel THEN {} ELSE {l \in tree.labels[p.label] : YoloRow(l)}
           Read(p, l) == [image |-> <<NoSplit, p.file.stem>>, from |-> p.file, cat |-> l.class,
                          name |-> IF l.class \in DOMAIN DeclaredNames(tree)
                                   THEN DeclaredNames(tree)[l.class] ELSE "class_<id>",
                          box |-> IF l.shape \in {"box", "polygon"} THEN l.shape ELSE NoBox]
<1>1. BytesIn(tree, LoadYolo(tree)).annotations = LoadYolo(tree).annotations
    <2>1. \A data : BytesIn(tree, data).annotations = data.annotations
        BY DEF BytesIn
    <2> QED
        BY <2>1
<1>2. LoadYolo(tree).annotations = UNION {{Read(p, l) : l \in Lines(p)} : p \in pairs}
    BY DEF LoadYolo
<1>3. \A p, l : Read(p, l).cat = l.class
    OBVIOUS
<1>4. \E p \in pairs : \E l \in Lines(p) : a.cat = l.class
    <2> HIDE DEF pairs, Lines, Read
    <2> QED
        BY <1>1, <1>2, <1>3
<1>5. PICK l \in all : a.cat = l.class /\ YoloRow(l)
    <2>1. \A p \in pairs : p.label # NoLabel => p.label \in MatchedLabels(tree)
        BY DEF MatchedLabels
    <2> HIDE DEF pairs
    <2> QED
        BY <1>4, <2>1
<1>6. l.class \in Nat /\ l.shape # "short"
    <2>1. pairs # {}
        BY DEF YoloErrors
    <2>2. {"bad line" : x \in {x \in all : \/ x.shape \in {"short", "text", "bad box"}
                                           \/ x.class \notin Nat}} = {}
        BY <2>1, Zenon DEF YoloErrors
    <2> HIDE DEF all
    <2> QED
        BY <2>2
<1>7. CASE l.class > Max(declared)
    <2>1. {"class not declared" : x \in {x \in all : /\ declared # {} /\ x.shape # "short"
                                                    /\ x.class \in Nat /\ x.class > Max(declared)}}
            \subseteq YoloWarnings(tree)
        BY Zenon DEF YoloWarnings
    <2> HIDE DEF all, declared
    <2> QED
        BY <1>5, <1>6, <1>7, <2>1 DEF declared
<1>8. CASE ~ (l.class > Max(declared))
    <2>1. IsFiniteSet(declared) /\ declared \in SUBSET Int
        BY TreesAreFinite
    <2> HIDE DEF declared
    <2>2. Max(declared) \in declared
        BY <2>1, FiniteMax DEF declared
    <2>3. Max(declared) \in Int /\ Max(declared) # l.class
        BY <1>5, <2>1, <2>2 DEF declared
    <2>4. l.class < Max(declared)
        <3> DEFINE m == Max(declared)
        <3>1. m \in Int /\ m # l.class /\ ~ (l.class > m)
            BY <1>8, <2>3
        <3> HIDE DEF m
        <3>2. l.class < m
            BY <1>6, <3>1
        <3> QED
            BY <3>2 DEF m
    <2>5. a.cat < Max(DOMAIN DeclaredNames(tree))
        BY <1>5, <2>4, Zenon DEF declared
    <2> QED
        BY <2>5
<1> QED
    BY <1>7, <1>8

(* A class gets another name than its manifest's only with a warning, and  *)
(* an undeclared YOLO class only with a warning or within a gap of the     *)
(* declared ones, for any directories: RelabelledIsWarned                  *)
(* (coco.py:288, coco.py:463, yolo.py:255).                                *)
THEOREM RelabellingIsWarned == ScanSpec => []RelabelledIsWarned
<1>1. AttributionInv /\ SteadyInv => RelabelledIsWarned
    <2> SUFFICES ASSUME AttributionInv, SteadyInv, NEW i \in SteadyRows,
                        NEW a \in assets[i].row.data.annotations
                 PROVE  LET told == assets[i].call.told
                            tree == assets[i].seen
                            found == assets[i].call.found
                        IN IF assets[i].call.fmt = "coco"
                           THEN LET own == tree.manifests[found[a.from].place].names
                                IN a.cat \in DOMAIN own /\ own[a.cat] # a.name
                                     => "conflicting names" \in told
                           ELSE LET declared == DOMAIN DeclaredNames(tree)
                                IN a.cat \notin declared /\ declared # {} =>
                                     "class not declared" \in told \/ a.cat < Max(declared)
        BY DEF RelabelledIsWarned
    <2> DEFINE told == assets[i].call.told
               tree == assets[i].seen
               found == assets[i].call.found
    <2>1. /\ i \in DOMAIN assets /\ assets[i].call.steady
          /\ Selected(assets[i].call) /\ tree \in Trees \cup Edits
          /\ Passed(tree, assets[i].call) /\ ReadFrom(tree, assets[i].call)
          /\ assets[i].row.data = assets[i].call.data
        BY DEF SteadyRows, SteadyInv, ReadWhole, AttributionInv, RowAttributed
    <2>2. CASE assets[i].call.fmt = "coco"
        <3>1. /\ IsFound(found) /\ CocoErrors(tree, found) = {} /\ told = CocoWarnings(tree, found)
              /\ a \in BytesIn(tree, LoadCoco(tree, found)).annotations
            BY <2>1, <2>2 DEF Selected, Passed, ReadFrom, ErrorsIn, WarningsIn, LoadedIn
        <3> HIDE DEF tree, found, told
        <3> DEFINE own == Manifest(tree, found, a.from).names
        <3>2. Admitted(tree, found) = DOMAIN found
            BY <3>1, PassedManifests
        <3>3. /\ a.from \in DOMAIN found
              /\ a.cat \in DOMAIN own => a.name = NameIn(tree, found, a.cat)
            BY <3>1, AnnotationsLoaded
        <3>4. a.cat \in DOMAIN own /\ own[a.cat] # a.name => "conflicting names" \in told
            <4> SUFFICES ASSUME a.cat \in DOMAIN own, own[a.cat] # a.name
                         PROVE  "conflicting names" \in told
                OBVIOUS
            <4>1. PICK k \in DOMAIN found :
                    /\ a.cat \in DOMAIN Manifest(tree, found, k).names
                    /\ NameIn(tree, found, a.cat) = Manifest(tree, found, k).names[a.cat]
                BY <3>1, <3>3, NamesAreOfManifests
            <4>2. Manifest(tree, found, k).names[a.cat] # own[a.cat]
                BY <3>3, <4>1
            <4> QED
                BY <3>1, <3>2, <3>3, <4>1, <4>2, ConflictsAreTold
        <3> QED
            BY <2>2, <3>4 DEF Manifest, tree, found, told
    <2>3. CASE assets[i].call.fmt # "coco"
        <3>1. /\ YoloErrors(tree) = {} /\ told = YoloWarnings(tree)
              /\ a \in BytesIn(tree, LoadYolo(tree)).annotations
            BY <2>1, <2>3 DEF Passed, ReadFrom, ErrorsIn, WarningsIn, LoadedIn
        <3> HIDE DEF tree, told
        <3>2. a.cat \notin DOMAIN DeclaredNames(tree) /\ DOMAIN DeclaredNames(tree) # {} =>
                "class not declared" \in told \/ a.cat < Max(DOMAIN DeclaredNames(tree))
            BY <2>1, <3>1, YoloClasses DEF tree
        <3> QED
            BY <2>3, <3>2 DEF tree, told
    <2> QED
        BY <2>2, <2>3
<1> QED
    BY <1>1, AttributionHolds, SteadyHolds, PTL

-----------------------------------------------------------------------------
(* What is registered hangs together.                                      *)

(* At most one file is found, of that name, and beside the manifest if it  *)
(* is there.                                                               *)
LEMMA FindsOneFile ==
    ASSUME NEW tree, NEW stem, NEW preferred
    PROVE  LET files == FindImageFile(tree, stem, preferred)
           IN /\ \A f, g \in files : f = g
              /\ \A f \in files : f.stem = stem
              /\ [dir |-> preferred, stem |-> stem] \in DOMAIN tree.images =>
                   \A f \in files : f.dir = preferred
<1> DEFINE folders == <<preferred>> \o ImageFolders
           named == {f \in DOMAIN tree.images : f.stem = stem}
           usual == {i \in DOMAIN folders : [dir |-> folders[i], stem |-> stem] \in named}
           files == FindImageFile(tree, stem, preferred)
<1>1. files = IF usual # {} THEN {[dir |-> folders[Min(usual)], stem |-> stem]}
              ELSE IF named # {} THEN {CHOOSE f \in named : TRUE} ELSE {}
    BY DEF FindImageFile, FindIn
<1>2. DOMAIN folders = 1..11 /\ folders[1] = preferred
    BY DEF ImageFolders
<1>3. CASE usual # {}
    <2>1. /\ \A f \in files : f = [dir |-> folders[Min(usual)], stem |-> stem]
        BY <1>1, <1>3
    <2>2. ASSUME [dir |-> preferred, stem |-> stem] \in DOMAIN tree.images
          PROVE  Min(usual) = 1
        <3>1. 1 \in usual
            BY <1>2, <2>2
        <3>2. \A i \in usual : i \in Int /\ 1 <= i
            BY <1>2
        <3> HIDE DEF usual
        <3> QED
            BY <3>1, <3>2 DEF Min
    <2> HIDE DEF files, folders, usual
    <2> QED
        BY <1>2, <2>1, <2>2 DEF files
<1>4. CASE usual = {}
    <2> DEFINE any == CHOOSE f \in named : TRUE
    <2>1. files = IF named # {} THEN {any} ELSE {}
        BY <1>1, <1>4, Zenon
    <2>2. named # {} => any \in named
        BY Zenon
    <2>3. [dir |-> preferred, stem |-> stem] \notin DOMAIN tree.images
        <3>1. ASSUME [dir |-> preferred, stem |-> stem] \in named PROVE 1 \in usual
            BY <1>2, <3>1
        <3> QED
            BY <1>4, <3>1
    <2> HIDE DEF any
    <2>4. \A f \in files : f = any /\ f.stem = stem
        BY <2>1, <2>2
    <2> HIDE DEF files
    <2> QED
        BY <2>3, <2>4 DEF files
<1> QED
    BY <1>3, <1>4

(* Entries of one manifest have different ids: as many as there are        *)
(* entries.                                                                *)
LEMMA EntriesHaveOwnIds ==
    ASSUME NEW tree, NEW found, NEW i,
           IsFiniteSet(Manifest(tree, found, i).images),
           ~ (Cardinality(IdsIn(tree, found, i)) < Cardinality(Manifest(tree, found, i).images)),
           NEW m \in Manifest(tree, found, i).images, NEW n \in Manifest(tree, found, i).images,
           IdIn(tree, found, i, m.id) = IdIn(tree, found, i, n.id)
    PROVE  m = n
<1> DEFINE S == Manifest(tree, found, i).images
           T == IdsIn(tree, found, i)
           f == [x \in S |-> IdIn(tree, found, i, x.id)]
<1>1. f \in Surjection(S, T) /\ f[m] = f[n]
    BY DEF IdsIn, Surjection
<1>2. IsFiniteSet(S) /\ m \in S /\ n \in S /\ ~ (Cardinality(T) < Cardinality(S))
    OBVIOUS
<1> HIDE DEF S, T, f
<1>3. /\ IsFiniteSet(T) /\ Cardinality(T) <= Cardinality(S)
      /\ Cardinality(T) = Cardinality(S) => f \in Injection(S, T)
    BY <1>1, <1>2, FS_Surjection
<1>4. Cardinality(T) \in Nat /\ Cardinality(S) \in Nat
    BY <1>2, <1>3, FS_CardinalityType
<1>5. f \in Injection(S, T)
    BY <1>2, <1>3, <1>4
<1> QED
    BY <1>1, <1>2, <1>5 DEF Injection, IsInjective

(* Two entries of the manifests with one id are one entry.                 *)
LEMMA IdsAreUnique ==
    ASSUME NEW tree, NEW found, IsFound(found), \A i \in DOMAIN found : Orderly(tree, found, i),
           \A i \in DOMAIN found : IsFiniteSet(Manifest(tree, found, i).images),
           NEW i \in DOMAIN found, NEW j \in DOMAIN found,
           NEW m \in Manifest(tree, found, i).images, NEW n \in Manifest(tree, found, j).images,
           IdIn(tree, found, i, m.id) = IdIn(tree, found, j, n.id)
    PROVE  i = j /\ m = n
<1>1. i \in Int /\ j \in Int
    BY DEF IsFound
<1>2. ASSUME NEW k \in DOMAIN found, NEW l \in DOMAIN found, k < l
      PROVE  IdsIn(tree, found, l) \cap IdsIn(tree, found, k) = {}
    BY <1>2 DEF Orderly
<1>3. IdIn(tree, found, i, m.id) \in IdsIn(tree, found, i)
    BY DEF IdsIn
<1>4. IdIn(tree, found, j, n.id) \in IdsIn(tree, found, j)
    BY DEF IdsIn
<1>5. i = j
    BY <1>1, <1>2, <1>3, <1>4
<1>6. ~ (Cardinality(IdsIn(tree, found, i)) < Cardinality(Manifest(tree, found, i).images))
    BY DEF Orderly
<1> QED
    BY <1>5, <1>6, EntriesHaveOwnIds

(* A COCO dataset that was loaded as it was validated hangs together.      *)
LEMMA CocoIsSound ==
    ASSUME NEW tree \in Trees \cup Edits, NEW found, IsFound(found), CocoErrors(tree, found) = {}
    PROVE  LET data == BytesIn(tree, LoadCoco(tree, found))
           IN /\ \A a \in data.annotations : \E im \in data.images : im.id = a.image
              /\ \A im, other \in data.images : im.id = other.id => im = other
              /\ \A k \in DOMAIN found : \A m \in tree.manifests[found[k].place].images :
                   \E im \in data.images :
                     /\ im.id[2] = m.id
                     /\ im.file.stem = m.file
                     /\ [dir |-> found[k].place.dir, stem |-> m.file] \in DOMAIN tree.images =>
                          im.file.dir = found[k].place.dir
<1> DEFINE data == BytesIn(tree, LoadCoco(tree, found))
           images == data.images
<1>1. /\ Admitted(tree, found) = DOMAIN found
      /\ \A i \in DOMAIN found : Orderly(tree, found, i)
    BY PassedManifests
<1>2. \A i \in DOMAIN found : IsFiniteSet(Manifest(tree, found, i).images)
    BY <1>1, TreesAreFinite DEF Admitted, Parsed, Manifest
<1>3. /\ \A im \in images :
           \E i \in DOMAIN found : \E m \in Manifest(tree, found, i).images :
             /\ im.file \in FindImageFile(tree, m.file, found[i].place.dir)
             /\ im = [id |-> IdIn(tree, found, i, m.id), file |-> im.file,
                      bytes |-> tree.images[im.file]]
      /\ \A i \in DOMAIN found : \A m \in Manifest(tree, found, i).images :
           \A f \in FindImageFile(tree, m.file, found[i].place.dir) :
             \E im \in images : im.id = IdIn(tree, found, i, m.id) /\ im.file = f
    BY ImagesLoaded
<1>4. ASSUME NEW a \in data.annotations PROVE \E im \in images : im.id = a.image
    <2>1. PICK i \in DOMAIN found : \E x \in Manifest(tree, found, i).annotations :
            a.image = IdIn(tree, found, i, x.image)
        BY <1>4, AnnotationsLoaded
    <2>2. PICK j \in DOMAIN found : a.image \in IdsIn(tree, found, j)
        BY <1>1, <2>1 DEF Orderly
    <2>3. PICK m \in Manifest(tree, found, j).images : a.image = IdIn(tree, found, j, m.id)
        BY <2>2 DEF IdsIn
    <2>4. PICK f : f \in FindImageFile(tree, m.file, found[j].place.dir)
        BY <1>1 DEF Orderly
    <2> HIDE DEF images
    <2> QED
        BY <1>3, <2>3, <2>4
<1> HIDE DEF images
<1>5. ASSUME NEW im \in images, NEW other \in images, im.id = other.id PROVE im = other
    <2>1. PICK i \in DOMAIN found : \E m \in Manifest(tree, found, i).images :
            /\ im.file \in FindImageFile(tree, m.file, found[i].place.dir)
            /\ im = [id |-> IdIn(tree, found, i, m.id), file |-> im.file, bytes |-> tree.images[im.file]]
        BY <1>3
    <2>2. PICK m \in Manifest(tree, found, i).images :
            /\ im.file \in FindImageFile(tree, m.file, found[i].place.dir)
            /\ im = [id |-> IdIn(tree, found, i, m.id), file |-> im.file, bytes |-> tree.images[im.file]]
        BY <2>1
    <2>3. PICK j \in DOMAIN found : \E n \in Manifest(tree, found, j).images :
            /\ other.file \in FindImageFile(tree, n.file, found[j].place.dir)
            /\ other = [id |-> IdIn(tree, found, j, n.id), file |-> other.file,
                        bytes |-> tree.images[other.file]]
        BY <1>3
    <2>4. PICK n \in Manifest(tree, found, j).images :
            /\ other.file \in FindImageFile(tree, n.file, found[j].place.dir)
            /\ other = [id |-> IdIn(tree, found, j, n.id), file |-> other.file,
                        bytes |-> tree.images[other.file]]
        BY <2>3
    <2>5. im.id = IdIn(tree, found, i, m.id) /\ other.id = IdIn(tree, found, j, n.id)
        BY <2>2, <2>4
    <2>6. i = j /\ m = n
        <3>1. IdIn(tree, found, i, m.id) = IdIn(tree, found, j, n.id)
            BY <1>5, <2>5
        <3> QED
            BY <1>1, <1>2, <3>1, IdsAreUnique
    <2>7. im.file = other.file
        <3>1. /\ im.file \in FindImageFile(tree, m.file, found[i].place.dir)
              /\ other.file \in FindImageFile(tree, m.file, found[i].place.dir)
            BY <2>2, <2>4, <2>6
        <3>2. \A f, g \in FindImageFile(tree, m.file, found[i].place.dir) : f = g
            BY FindsOneFile
        <3> QED
            BY <3>1, <3>2
    <2> QED
        BY <1>5, <2>2, <2>4, <2>7
<1>6. ASSUME NEW k \in DOMAIN found, NEW m \in Manifest(tree, found, k).images
      PROVE  \E im \in images :
               /\ im.id[2] = m.id
               /\ im.file.stem = m.file
               /\ [dir |-> found[k].place.dir, stem |-> m.file] \in DOMAIN tree.images =>
                    im.file.dir = found[k].place.dir
    <2>1. PICK f : f \in FindImageFile(tree, m.file, found[k].place.dir)
        BY <1>1 DEF Orderly
    <2>2. PICK im \in images : im.id = IdIn(tree, found, k, m.id) /\ im.file = f
        BY <1>3, <2>1
    <2>3. IdIn(tree, found, k, m.id)[2] = m.id
        BY DEF IdIn, ImageId
    <2>4. /\ f.stem = m.file
          /\ [dir |-> found[k].place.dir, stem |-> m.file] \in DOMAIN tree.images =>
               f.dir = found[k].place.dir
        BY <2>1, FindsOneFile
    <2> QED
        BY <2>2, <2>3, <2>4
<1> QED
    BY <1>4, <1>5, <1>6 DEF images, Manifest

(* So does a YOLO dataset.                                                 *)
LEMMA YoloIsSound ==
    ASSUME NEW tree
    PROVE  LET data == BytesIn(tree, LoadYolo(tree))
           IN /\ \A a \in data.annotations : \E im \in data.images : im.id = a.image
              /\ \A im, other \in data.images : im.id = other.id => im.file.stem = other.file.stem
<1> DEFINE data == BytesIn(tree, LoadYolo(tree))
           pairs == DiscoverPairs(tree)
           read == {[id |-> <<NoSplit, p.file.stem>>, file |-> p.file] : p \in pairs}
<1>1. LoadYolo(tree).images = read
    BY DEF LoadYolo
<1>2. \A a \in LoadYolo(tree).annotations : \E p \in pairs : a.image = <<NoSplit, p.file.stem>>
    BY DEF LoadYolo
<1>3. /\ data.annotations = LoadYolo(tree).annotations
      /\ data.images = {[id |-> i.id, file |-> i.file, bytes |-> tree.images[i.file]] :
                          i \in LoadYolo(tree).images}
    <2>1. \A d : DOMAIN d = {"images", "annotations", "classes", "contributor"} =>
            /\ BytesIn(tree, d).annotations = d.annotations
            /\ BytesIn(tree, d).images
                 = {[id |-> i.id, file |-> i.file, bytes |-> tree.images[i.file]] : i \in d.images}
        BY DEF BytesIn
    <2>2. DOMAIN LoadYolo(tree) = {"images", "annotations", "classes", "contributor"}
        BY DEF LoadYolo
    <2> QED
        BY <2>1, <2>2
<1> HIDE DEF data, pairs
<1>4. \A p \in pairs : \E im \in data.images : im.id = <<NoSplit, p.file.stem>>
    <2> SUFFICES ASSUME NEW p \in pairs PROVE \E im \in data.images : im.id = <<NoSplit, p.file.stem>>
        OBVIOUS
    <2> DEFINE r == [id |-> <<NoSplit, p.file.stem>>, file |-> p.file]
    <2>1. r \in read /\ r.id = <<NoSplit, p.file.stem>>
        OBVIOUS
    <2> HIDE DEF r, read
    <2>2. [id |-> r.id, file |-> r.file, bytes |-> tree.images[r.file]] \in data.images
        BY <1>1, <1>3, <2>1
    <2> QED
        BY <2>1, <2>2
<1>5. \A im \in data.images : im.id = <<NoSplit, im.file.stem>>
    <2>1. \A r \in read : r.id = <<NoSplit, r.file.stem>>
        OBVIOUS
    <2> HIDE DEF read
    <2> QED
        BY <1>1, <1>3, <2>1
<1>6. \A im, other \in data.images : im.id = other.id => im.file.stem = other.file.stem
    BY <1>5
<1> QED
    BY <1>2, <1>3, <1>4, <1>6 DEF data

(* Annotations speak of registered images, every image entry of a manifest *)
(* is registered with the file beside the manifest if there is one, and an *)
(* id names one image but for YOLO files of one name, for any directories: *)
(* RegisteredIsSound (coco.py:500, yolo.py:358).                           *)
THEOREM RegistrationIsSound == ScanSpec => []RegisteredIsSound
<1>1. AttributionInv /\ SteadyInv => RegisteredIsSound
    <2> SUFFICES ASSUME AttributionInv, SteadyInv, NEW i \in SteadyRows
                 PROVE  LET data == assets[i].row.data
                            tree == assets[i].seen
                            found == assets[i].call.found
                            coco == assets[i].call.fmt = "coco"
                        IN /\ \A a \in data.annotations : \E im \in data.images : im.id = a.image
                           /\ \A im, other \in data.images :
                                im.id = other.id /\ im # other => ~coco /\ im.file.stem = other.file.stem
                           /\ coco => \A k \in DOMAIN found :
                                \A m \in tree.manifests[found[k].place].images :
                                  \E im \in data.images :
                                    /\ im.id[2] = m.id
                                    /\ im.file.stem = m.file
                                    /\ [dir |-> found[k].place.dir, stem |-> m.file] \in DOMAIN tree.images
                                         => im.file.dir = found[k].place.dir
        BY DEF RegisteredIsSound
    <2> DEFINE tree == assets[i].seen
               found == assets[i].call.found
    <2>1. /\ i \in DOMAIN assets /\ assets[i].call.steady
          /\ Selected(assets[i].call) /\ tree \in Trees \cup Edits
          /\ Passed(tree, assets[i].call) /\ ReadFrom(tree, assets[i].call)
          /\ assets[i].row.data = assets[i].call.data
        BY DEF SteadyRows, SteadyInv, ReadWhole, AttributionInv, RowAttributed
    <2>2. CASE assets[i].call.fmt = "coco"
        <3>1. /\ IsFound(found) /\ CocoErrors(tree, found) = {}
              /\ assets[i].row.data = BytesIn(tree, LoadCoco(tree, found))
            BY <2>1, <2>2 DEF Selected, Passed, ReadFrom, ErrorsIn, LoadedIn
        <3> QED
            BY <2>1, <2>2, <3>1, CocoIsSound
    <2>3. CASE assets[i].call.fmt # "coco"
        <3>1. assets[i].row.data = BytesIn(tree, LoadYolo(tree))
            BY <2>1, <2>3 DEF ReadFrom, LoadedIn
        <3> QED
            BY <2>3, <3>1, YoloIsSound
    <2> QED
        BY <2>2, <2>3
<1> QED
    BY <1>1, AttributionHolds, SteadyHolds, PTL

-----------------------------------------------------------------------------
(* The list of the images has each of them once.                           *)

(* Induction over the subsets of a finite set.                             *)
LEMMA SubsetInduction ==
    ASSUME NEW S, IsFiniteSet(S), NEW Good,
           \A T \in SUBSET S : (\A x \in T : T \ {x} \in Good) => T \in Good
    PROVE  S \in Good
<1> DEFINE Bad == {T \in SUBSET S : T \notin Good}
<1> SUFFICES ASSUME S \notin Good PROVE FALSE
    OBVIOUS
<1>1. \E T \in Bad : \A A \in Bad : ~ (<<A, T>> \in StrictSubsetOrdering(S))
    <2>1. Bad # {} /\ Bad \subseteq FiniteSubsetsOf(S)
        BY FS_FiniteSubsetsOfFinite
    <2> HIDE DEF Bad
    <2> QED
        BY <2>1, FS_StrictSubsetOrderingWellFounded, WFMin, Zenon
<1>2. PICK T \in Bad : \A A \in Bad : ~ (<<A, T>> \in StrictSubsetOrdering(S))
    BY <1>1
<1>3. PICK x \in T : T \ {x} \notin Good
    BY <1>2
<1>4. T \ {x} \in Bad /\ <<T \ {x}, T>> \in StrictSubsetOrdering(S)
    <2>1. T \in SUBSET S /\ T \ {x} \in SUBSET S /\ T \ {x} # T
        BY <1>2, <1>3
    <2> QED
        BY <1>3, <2>1 DEF StrictSubsetOrdering
<1> QED
    BY <1>2, <1>4

(* A list of each subset of S: one element after the list of the others.   *)
Longer(list, x) == Append(list, x)
Some(s) == CHOOSE x \in s : TRUE
Lists(g, S) == g = [s \in SUBSET S |-> IF s = {} THEN <<>> ELSE Longer(g[s \ {Some(s)}], Some(s))]
ListOf(S) == (CHOOSE g : Lists(g, S))[S]

LEMMA SomeIsIn == \A s : s # {} => Some(s) \in s
BY DEF Some

(* The images of a dataset are listed so.                                  *)
LEMMA ListedIsListOf ==
    ASSUME NEW data
    PROVE  Listed(data) = ListOf(data.images)
<1>1. Listed(data) =
        (CHOOSE g : g = [s \in SUBSET data.images |->
           IF s = {} THEN <<>> ELSE Append(g[s \ {CHOOSE x \in s : TRUE}], CHOOSE x \in s : TRUE)])[data.images]
    BY DEF Listed, FoldSet, MapThenFoldSet
<1> QED
    BY <1>1 DEF ListOf, Lists, Some, Longer

(* The last of a list is one of its set.                                   *)
LEMMA ListsOne ==
    ASSUME NEW S, NEW g, Lists(g, S), NEW s \in SUBSET S
    PROVE  /\ s = {} => g[s] = <<>>
           /\ s # {} => Some(s) \in s /\ g[s] = Longer(g[s \ {Some(s)}], Some(s))
<1>1. g[s] = IF s = {} THEN <<>> ELSE Longer(g[s \ {Some(s)}], Some(s))
    BY Zenon DEF Lists
<1> QED
    BY <1>1, SomeIsIn

(* There is no more than one such function.                                *)
LEMMA ListsAgree ==
    ASSUME NEW S, NEW T, NEW g, NEW h, Lists(g, S), Lists(h, T),
           NEW r \in SUBSET S, r \in SUBSET T, IsFiniteSet(r)
    PROVE  g[r] = h[r]
<1> DEFINE Good == {s \in SUBSET r : g[s] = h[s]}
<1>1. ASSUME NEW s \in SUBSET r, \A x \in s : s \ {x} \in Good
      PROVE  s \in Good
    <2>1. CASE s = {}
        BY <2>1, ListsOne
    <2>2. CASE s # {}
        <3>1. g[s] = Longer(g[s \ {Some(s)}], Some(s)) /\ h[s] = Longer(h[s \ {Some(s)}], Some(s))
            BY <2>2, ListsOne
        <3>2. g[s \ {Some(s)}] = h[s \ {Some(s)}]
            BY <1>1, <2>2, SomeIsIn
        <3> QED
            BY <3>1, <3>2
    <2> QED
        BY <2>1, <2>2
<1> HIDE DEF Good
<1>2. r \in Good
    BY <1>1, SubsetInduction
<1> QED
    BY <1>2 DEF Good

(* The list of a part is what the function gives for that part.            *)
LEMMA ListOfPart ==
    ASSUME NEW S, NEW g, Lists(g, S), NEW s \in SUBSET S, IsFiniteSet(s)
    PROVE  ListOf(s) = g[s]
<1> DEFINE part == [r \in SUBSET s |-> g[r]]
<1>1. Lists(part, s)
    <2>1. ASSUME NEW r \in SUBSET s
          PROVE  part[r] = IF r = {} THEN <<>> ELSE Longer(part[r \ {Some(r)}], Some(r))
        <3>1. r \in SUBSET S /\ part[r] = g[r] /\ part[r \ {Some(r)}] = g[r \ {Some(r)}]
            OBVIOUS
        <3> HIDE DEF part
        <3>2. /\ r = {} => g[r] = <<>>
              /\ r # {} => g[r] = Longer(g[r \ {Some(r)}], Some(r))
            BY <3>1, ListsOne
        <3> QED
            BY <3>1, <3>2
    <2> QED
        BY <2>1, Zenon DEF Lists
<1> HIDE DEF part
<1>2. PICK h : Lists(h, s) /\ ListOf(s) = h[s]
    BY <1>1, Zenon DEF ListOf
<1> QED
    BY <1>2, ListsAgree

(* There is such a function for every finite set.                          *)
LEMMA ListsExist ==
    ASSUME NEW S, IsFiniteSet(S)
    PROVE  \E g : Lists(g, S)
<1> DEFINE Good == {T \in SUBSET S : \E g : Lists(g, T)}
<1>1. ASSUME NEW T \in SUBSET S, \A x \in T : T \ {x} \in Good
      PROVE  T \in Good
    <2> DEFINE g == [s \in SUBSET T |->
                       IF s = {} THEN <<>> ELSE Longer(ListOf(s \ {Some(s)}), Some(s))]
    <2>1. ASSUME NEW s \in SUBSET T, s # {}
          PROVE  g[s \ {Some(s)}] = ListOf(s \ {Some(s)})
        <3> DEFINE r == s \ {Some(s)}
        <3>1. Some(s) \in T /\ r \in SUBSET (T \ {Some(s)}) /\ r \in SUBSET T
            BY <2>1, SomeIsIn
        <3>2. PICK h : Lists(h, T \ {Some(s)})
            BY <1>1, <3>1
        <3>3. IsFiniteSet(r) /\ IsFiniteSet(r \ {Some(r)})
            BY <3>1, FS_Subset
        <3> HIDE DEF r
        <3>4. ListOf(r) = h[r]
            BY <3>1, <3>2, <3>3, ListOfPart
        <3>5. ListOf(r \ {Some(r)}) = h[r \ {Some(r)}]
            BY <3>1, <3>2, <3>3, ListOfPart
        <3>6. h[r] = IF r = {} THEN <<>> ELSE Longer(h[r \ {Some(r)}], Some(r))
            BY <3>1, <3>2, ListsOne
        <3>7. g[r] = IF r = {} THEN <<>> ELSE Longer(ListOf(r \ {Some(r)}), Some(r))
            BY <3>1
        <3> QED
            BY <3>4, <3>5, <3>6, <3>7 DEF r
    <2>2. ASSUME NEW s \in SUBSET T
          PROVE  g[s] = IF s = {} THEN <<>> ELSE Longer(g[s \ {Some(s)}], Some(s))
        BY <2>1
    <2>3. Lists(g, T)
        BY <2>2, Zenon DEF Lists
    <2> QED
        BY <2>3
<1> HIDE DEF Good
<1>2. S \in Good
    BY <1>1, SubsetInduction
<1> QED
    BY <1>2 DEF Good

(* A list with each element of a set once.                                 *)
Enumerates(list, S) ==
    /\ IsList(list)
    /\ \A i \in 1..Len(list) : list[i] \in S
    /\ \A x \in S : \E i \in 1..Len(list) : list[i] = x
    /\ \A i, j \in 1..Len(list) : list[i] = list[j] => i = j

LEMMA ListEnumerates ==
    ASSUME NEW S, IsFiniteSet(S)
    PROVE  Enumerates(ListOf(S), S)
<1>1. PICK g : Lists(g, S)
    BY ListsExist
<1> DEFINE Good == {T \in SUBSET S : Enumerates(g[T], T)}
<1>2. ASSUME NEW T \in SUBSET S, \A x \in T : T \ {x} \in Good
      PROVE  T \in Good
    <2>1. CASE T = {}
        <3>1. g[T] = <<>>
            BY <1>1, <2>1, ListsOne
        <3>2. Enumerates(<<>>, T)
            BY <2>1, EmptyIsList DEF Enumerates
        <3> QED
            BY <3>1, <3>2
    <2>2. CASE T # {}
        <3> DEFINE x == Some(T)
                   s == g[T \ {x}]
        <3>1. x \in T /\ g[T] = Longer(s, x)
            BY <1>1, <2>2, ListsOne
        <3>2. Enumerates(s, T \ {x})
            BY <1>2, <3>1
        <3> HIDE DEF x, s
        <3>3. /\ IsList(Append(s, x)) /\ Len(Append(s, x)) = Len(s) + 1
              /\ Append(s, x)[Len(s) + 1] = x
              /\ \A i \in 1..Len(s) : Append(s, x)[i] = s[i]
            BY <3>2, ListAppends DEF Enumerates
        <3>4. Len(s) \in Nat /\ 1..(Len(s) + 1) = 1..Len(s) \cup {Len(s) + 1} /\ Len(s) + 1 \notin 1..Len(s)
            BY <3>2 DEF Enumerates, IsList
        <3> DEFINE t == Append(s, x)
        <3> HIDE DEF t
        <3>5. \A i \in 1..Len(t) : t[i] \in T
            BY <3>1, <3>2, <3>3, <3>4 DEF Enumerates, t
        <3>6. \A y \in T : \E i \in 1..Len(t) : t[i] = y
            BY <3>2, <3>3, <3>4 DEF Enumerates, t
        <3>7. \A i, j \in 1..Len(t) : t[i] = t[j] => i = j
            BY <3>2, <3>3, <3>4 DEF Enumerates, t
        <3> QED
            BY <3>1, <3>3, <3>5, <3>6, <3>7 DEF Enumerates, Longer, t
    <2> QED
        BY <2>1, <2>2
<1> HIDE DEF Good
<1>3. S \in Good
    BY <1>2, SubsetInduction
<1>4. ListOf(S) = g[S]
    BY <1>1, ListOfPart
<1> QED
    BY <1>3, <1>4 DEF Good

-----------------------------------------------------------------------------
(* The images of an undisturbed directory, and what the checks read again. *)

AsRead(tree, images) ==
    /\ IsFiniteSet(images)
    /\ \A im \in images : im.file \in DOMAIN tree.images /\ im.bytes = tree.images[im.file]

LEMMA FirstNumbers ==
    ASSUME NEW n \in Nat
    PROVE  IsFiniteSet(1..n) /\ Cardinality(1..n) = n
<1>1. IsFiniteSet(1..n) /\ Cardinality(1..n) = IF 1 > n THEN 0 ELSE n - 1 + 1
    <2>1. 1 \in Int /\ n \in Int
        OBVIOUS
    <2> QED
        BY <2>1, FS_Interval
<1> QED
    BY <1>1

(* A file that is found is a file of the directory.                        *)
LEMMA FindsWhatIsThere ==
    ASSUME NEW tree, NEW stem, NEW preferred
    PROVE  FindImageFile(tree, stem, preferred) \subseteq DOMAIN tree.images
<1> DEFINE folders == <<preferred>> \o ImageFolders
           named == {f \in DOMAIN tree.images : f.stem = stem}
           usual == {i \in DOMAIN folders : [dir |-> folders[i], stem |-> stem] \in named}
           files == FindImageFile(tree, stem, preferred)
<1>1. files = IF usual # {} THEN {[dir |-> folders[Min(usual)], stem |-> stem]}
              ELSE IF named # {} THEN {CHOOSE f \in named : TRUE} ELSE {}
    BY DEF FindImageFile, FindIn
<1>2. DOMAIN folders = 1..11
    BY DEF ImageFolders
<1>3. CASE usual # {}
    <2>1. usual \subseteq 1..11
        BY <1>2
    <2>2. PICK n \in Nat : n = 11
        OBVIOUS
    <2>7. IsFiniteSet(1..n) /\ 1..n \subseteq Int
        BY FirstNumbers
    <2>3. \A i \in usual : [dir |-> folders[i], stem |-> stem] \in DOMAIN tree.images
        OBVIOUS
    <2>4. files = {[dir |-> folders[Min(usual)], stem |-> stem]}
        BY <1>1, <1>3
    <2> HIDE DEF usual, folders, files
    <2>5. IsFiniteSet(usual) /\ usual \in SUBSET Int
        BY <2>1, <2>2, <2>7, FS_Subset
    <2>6. Min(usual) \in usual
        BY <1>3, <2>5, FiniteMin
    <2> QED
        BY <2>3, <2>4, <2>6 DEF files
<1>4. CASE usual = {}
    <2>1. files = IF named # {} THEN {CHOOSE f \in named : TRUE} ELSE {}
        BY <1>1, <1>4, Zenon
    <2>2. named # {} => (CHOOSE f \in named : TRUE) \in named
        BY Zenon
    <2> HIDE DEF files
    <2> QED
        BY <2>1, <2>2 DEF files
<1> QED
    BY <1>3, <1>4

(* Ids tell the images of a COCO dataset apart, and there are not more of  *)
(* them than entries in the manifests.                                     *)
LEMMA CocoAsRead ==
    ASSUME NEW tree \in Trees \cup Edits, NEW found, IsFound(found), CocoErrors(tree, found) = {}
    PROVE  AsRead(tree, BytesIn(tree, LoadCoco(tree, found)).images)
<1> DEFINE images == BytesIn(tree, LoadCoco(tree, found)).images
           Ids == {IdsIn(tree, found, i) : i \in DOMAIN found}
<1>1. \A i \in DOMAIN found : IsFiniteSet(Manifest(tree, found, i).images)
    <2>1. Admitted(tree, found) = DOMAIN found
        BY PassedManifests
    <2> QED
        BY <2>1, TreesAreFinite DEF Admitted, Parsed, Manifest
<1>2. \A im \in images :
        \E i \in DOMAIN found : \E m \in Manifest(tree, found, i).images :
          /\ im.file \in FindImageFile(tree, m.file, found[i].place.dir)
          /\ im = [id |-> IdIn(tree, found, i, m.id), file |-> im.file, bytes |-> tree.images[im.file]]
    BY ImagesLoaded
<1>3. \A im, other \in images : im.id = other.id => im = other
    BY CocoIsSound
<1>4. \A ids \in Ids : IsFiniteSet(ids)
    <2> SUFFICES ASSUME NEW i \in DOMAIN found PROVE IsFiniteSet(IdsIn(tree, found, i))
        OBVIOUS
    <2> DEFINE S == Manifest(tree, found, i).images
               f == [m \in S |-> IdIn(tree, found, i, m.id)]
    <2>1. f \in Surjection(S, IdsIn(tree, found, i))
        BY DEF IdsIn, Surjection
    <2>2. IsFiniteSet(S)
        BY <1>1
    <2> HIDE DEF S, f
    <2> QED
        BY <2>1, <2>2, FS_Surjection
<1>5. IsFiniteSet(Ids)
    <2> DEFINE f == [i \in DOMAIN found |-> IdsIn(tree, found, i)]
    <2>1. f \in Surjection(DOMAIN found, Ids)
        BY DEF Surjection
    <2>2. IsFiniteSet(DOMAIN found)
        BY FS_Interval DEF IsFound
    <2> HIDE DEF f, Ids
    <2> QED
        BY <2>1, <2>2, FS_Surjection
<1> HIDE DEF images
<1>6. IsFiniteSet(images)
    <2> DEFINE f == [im \in images |-> im.id]
    <2>1. ASSUME NEW im \in images PROVE im.id \in UNION Ids
        <3>1. PICK i \in DOMAIN found : \E m \in Manifest(tree, found, i).images :
                im = [id |-> IdIn(tree, found, i, m.id), file |-> im.file, bytes |-> tree.images[im.file]]
            BY <1>2
        <3>2. im.id \in IdsIn(tree, found, i)
            BY <3>1 DEF IdsIn
        <3> QED
            BY <3>2
    <2> HIDE DEF Ids
    <2>2. f \in Injection(images, UNION Ids)
        BY <1>3, <2>1 DEF Injection, IsInjective
    <2>3. IsFiniteSet(UNION Ids)
        BY <1>4, <1>5, FS_UNION
    <2> HIDE DEF f
    <2> QED
        BY <2>2, <2>3, FS_Injection
<1>7. ASSUME NEW im \in images
      PROVE  im.file \in DOMAIN tree.images /\ im.bytes = tree.images[im.file]
    <2>1. PICK i \in DOMAIN found : \E m \in Manifest(tree, found, i).images :
            /\ im.file \in FindImageFile(tree, m.file, found[i].place.dir)
            /\ im = [id |-> IdIn(tree, found, i, m.id), file |-> im.file, bytes |-> tree.images[im.file]]
        BY <1>2
    <2> QED
        BY <2>1, FindsWhatIsThere
<1> QED
    BY <1>6, <1>7 DEF AsRead, images

(* The images of a YOLO dataset are among the files of the directory.      *)
LEMMA PairsAreFiles ==
    ASSUME NEW tree
    PROVE  \A p \in DiscoverPairs(tree) : p.file \in DOMAIN tree.images
<1> DEFINE all == DOMAIN tree.images
           nested == {f \in all : Len(f.dir) = 2 /\ f.dir[1] = "images"}
           flat == IF FolderExists(tree, <<"labels">>) THEN {f \in all : f.dir = <<"images">>} ELSE {}
           splitFirst == {f \in all : Len(f.dir) = 2 /\ f.dir[2] = "images"}
           Sibling(dir) == [i \in DOMAIN dir |-> IF i = Max({j \in DOMAIN dir : dir[j] = "images"} \cup {0})
                                                 THEN "labels" ELSE dir[i]]
           Beside(f) == [f EXCEPT !.dir = Sibling(f.dir)]
           Above(f) == {i \in {Len(f.dir) - 1, Len(f.dir)} \cap DOMAIN f.dir : f.dir[i] \in Range(SplitNames)}
           SplitAbove(f) == IF Above(f) = {} THEN NoSplit ELSE f.dir[Max(Above(f))]
           Deep(f) == [f EXCEPT !.dir = <<"labels", f.dir[2]>>]
           Near(f) == IF f \in DOMAIN tree.labels THEN f ELSE Beside(f)
           Pair(f, split, label) ==
               [file |-> f, split |-> split, label |-> IF label \in DOMAIN tree.labels THEN label ELSE NoLabel]
<1>1. DiscoverPairs(tree) =
        CASE nested # {} -> {Pair(f, f.dir[2], Deep(f)) : f \in nested}
          [] nested = {} /\ flat # {} -> {Pair(f, NoSplit, Beside(f)) : f \in flat}
          [] nested = {} /\ flat = {} /\ splitFirst # {} -> {Pair(f, f.dir[1], Beside(f)) : f \in splitFirst}
          [] OTHER -> {Pair(f, SplitAbove(f), Near(f)) : f \in all}
    BY Zenon DEF DiscoverPairs, WithLabels
<1>2. \A f, split, label : Pair(f, split, label).file = f
    OBVIOUS
<1>3. nested \subseteq all /\ flat \subseteq all /\ splitFirst \subseteq all
    OBVIOUS
<1> HIDE DEF all, nested, flat, splitFirst, Beside, SplitAbove, Deep, Near, Pair
<1> QED
    BY <1>1, <1>2, <1>3 DEF all

LEMMA YoloAsRead ==
    ASSUME NEW tree \in Trees \cup Edits
    PROVE  AsRead(tree, BytesIn(tree, LoadYolo(tree)).images)
<1> DEFINE images == BytesIn(tree, LoadYolo(tree)).images
           f == [im \in images |-> im.file]
<1>1. images = {[id |-> i.id, file |-> i.file, bytes |-> tree.images[i.file]] : i \in LoadYolo(tree).images}
    <2>1. \A d : DOMAIN d = {"images", "annotations", "classes", "contributor"} =>
            BytesIn(tree, d).images
              = {[id |-> i.id, file |-> i.file, bytes |-> tree.images[i.file]] : i \in d.images}
        BY DEF BytesIn
    <2>2. DOMAIN LoadYolo(tree) = {"images", "annotations", "classes", "contributor"}
        BY DEF LoadYolo
    <2> QED
        BY <2>1, <2>2
<1>2. LoadYolo(tree).images = {[id |-> <<NoSplit, p.file.stem>>, file |-> p.file] : p \in DiscoverPairs(tree)}
    BY DEF LoadYolo
<1> HIDE DEF images
<1>3. \A im \in images :
        /\ im = [id |-> <<NoSplit, im.file.stem>>, file |-> im.file, bytes |-> tree.images[im.file]]
        /\ im.file \in DOMAIN tree.images
    BY <1>1, <1>2, PairsAreFiles
<1>4. f \in Injection(images, DOMAIN tree.images)
    BY <1>3 DEF Injection, IsInjective
<1>5. IsFiniteSet(DOMAIN tree.images)
    BY TreesAreFinite
<1> HIDE DEF f
<1>6. IsFiniteSet(images)
    BY <1>4, <1>5, FS_Injection
<1>7. \A im \in images : im.bytes = tree.images[im.file]
    BY <1>3
<1> QED
    BY <1>3, <1>6, <1>7 DEF AsRead, images

LEMMA SteadyAsRead ==
    ASSUME NEW tree \in Trees \cup Edits, NEW c, Selected(c), Passed(tree, c), ReadFrom(tree, c)
    PROVE  AsRead(tree, c.data.images)
<1>1. CASE c.fmt = "coco"
    <2>1. IsFound(c.found) /\ CocoErrors(tree, c.found) = {}
        BY <1>1 DEF Selected, Passed, ErrorsIn
    <2>2. c.data = BytesIn(tree, LoadCoco(tree, c.found))
        BY <1>1 DEF ReadFrom, LoadedIn
    <2> QED
        BY <2>1, <2>2, CocoAsRead
<1>2. CASE c.fmt # "coco"
    <2>1. c.data = BytesIn(tree, LoadYolo(tree))
        BY <1>2 DEF ReadFrom, LoadedIn
    <2> QED
        BY <2>1, YoloAsRead
<1> QED
    BY <1>1, <1>2

(* Of a directory as it was read, every picture is seen at its place.      *)
LEMMA SeenAsListed ==
    ASSUME NEW data, NEW tree, AsRead(tree, data.images)
    PROVE  /\ Enumerates(Listed(data), data.images)
           /\ DOMAIN Readable(data, tree) = DOMAIN Listed(data)
           /\ \A i \in DOMAIN Listed(data) : Readable(data, tree)[i].now = Listed(data)[i].bytes
<1> DEFINE listed == Listed(data)
           there == {i \in DOMAIN listed : listed[i].file \in DOMAIN tree.images}
           Nth(n) == CHOOSE i \in there : Cardinality({j \in there : j <= i}) = n
<1>1. Readable(data, tree) =
        [n \in 1..Cardinality(there) |-> [id |-> listed[Nth(n)].id, now |-> tree.images[listed[Nth(n)].file]]]
    BY DEF Readable
<1>2. Enumerates(listed, data.images)
    BY ListedIsListOf, ListEnumerates DEF AsRead
<1>3. Len(listed) \in Nat /\ DOMAIN listed = 1..Len(listed)
    BY <1>2 DEF Enumerates, IsList
<1>4. there = 1..Len(listed)
    BY <1>2, <1>3 DEF Enumerates, AsRead
<1>5. \A n \in 1..Len(listed) : listed[n] \in data.images
    BY <1>2 DEF Enumerates
<1> HIDE DEF listed, there
<1>6. Cardinality(there) = Len(listed)
    BY <1>3, <1>4, FirstNumbers
<1>7. ASSUME NEW n \in 1..Len(listed) PROVE Nth(n) = n
    <2>1. ASSUME NEW i \in there PROVE Cardinality({j \in there : j <= i}) = i
        <3>1. {j \in there : j <= i} = 1..i /\ i \in Nat
            BY <1>3, <1>4, <2>1
        <3> QED
            BY <3>1, FirstNumbers
    <2> QED
        BY <1>4, <2>1
<1> HIDE DEF Nth
<1>8. DOMAIN Readable(data, tree) = 1..Len(listed)
    BY <1>1, <1>6
<1>9. \A n \in 1..Len(listed) : Readable(data, tree)[n].now = listed[n].bytes
    <2> SUFFICES ASSUME NEW n \in 1..Len(listed) PROVE Readable(data, tree)[n].now = listed[n].bytes
        OBVIOUS
    <2>1. Readable(data, tree)[n].now = tree.images[listed[n].file]
        BY <1>1, <1>6, <1>7
    <2> QED
        BY <1>5, <2>1 DEF AsRead
<1> QED
    BY <1>2, <1>3, <1>8, <1>9 DEF listed

-----------------------------------------------------------------------------
(* What DT-4 and DT-1 say of an undisturbed directory.                     *)

Says(findings, threat, title) ==
    \E i \in DOMAIN findings : findings[i].threat = threat /\ findings[i].title = title

SomeSame(images) == \E x, y \in images : x # y /\ x.bytes = y.bytes
SomeAlike(images) == \E x, y \in images : x.bytes # y.bytes /\ <<x.bytes, y.bytes>> \in Alike
SomePatched(images) == \E im \in images : im.bytes \in Patched

SaysOfEqual(images, findings) ==
    /\ Says(findings, "DT-4", "exact") <=> SomeSame(images)
    /\ Says(findings, "DT-4", "near") <=> SomeAlike(images)
SaysOfPatched(images, findings) == Says(findings, "DT-1", "trigger") <=> SomePatched(images)

(* A list with one finding, or with none, says that or nothing.            *)
LEMMA IfSays ==
    ASSUME NEW check, NEW title, NEW severity, NEW disposition
    PROVE  LET f == Finding(check, title, severity, disposition)
           IN /\ IsList(<<f>>) /\ IsList(<<>>)
              /\ \A threat, other : Says(<<f>>, threat, other) <=> threat = check /\ other = title
              /\ \A threat, other : ~ Says(<<>>, threat, other)
<1> DEFINE f == Finding(check, title, severity, disposition)
<1>1. f.threat = check /\ f.title = title
    BY DEF Finding
<1> HIDE DEF f
<1>2. <<f>> \in Seq({f}) /\ DOMAIN <<f>> = {1} /\ <<f>>[1] = f
    OBVIOUS
<1>3. IsList(<<f>>)
    BY <1>2, SeqIsList
<1>4. \A threat, other : Says(<<f>>, threat, other) <=> threat = check /\ other = title
    BY <1>1, <1>2 DEF Says
<1>5. \A threat, other : ~ Says(<<>>, threat, other)
    BY DEF Says
<1> QED
    BY <1>3, <1>4, <1>5, EmptyIsList DEF f

(* Two lists together say what either of them says.                        *)
LEMMA JoinedSays ==
    ASSUME NEW s, IsList(s), NEW t, IsList(t)
    PROVE  \A threat, title :
             Says(Joined(s, t), threat, title) <=> Says(s, threat, title) \/ Says(t, threat, title)
<1>1. JoinsLists(s, t, Joined(s, t))
    BY JoinedLists
<1>2. /\ DOMAIN s = 1..Len(s) /\ DOMAIN t = 1..Len(t) /\ Len(s) \in Nat /\ Len(t) \in Nat
    BY DEF IsList
<1> DEFINE joined == Joined(s, t)
<1> HIDE DEF joined
<1>3. /\ DOMAIN joined = 1..(Len(s) + Len(t))
      /\ \A i \in 1..Len(s) : i \in 1..(Len(s) + Len(t)) /\ joined[i] = s[i]
      /\ \A i \in 1..Len(t) : Len(s) + i \in 1..(Len(s) + Len(t)) /\ joined[Len(s) + i] = t[i]
      /\ \A i \in 1..(Len(s) + Len(t)) :
           \/ i \in 1..Len(s) /\ joined[i] = s[i]
           \/ i - Len(s) \in 1..Len(t) /\ joined[i] = t[i - Len(s)]
    BY <1>1, <1>2 DEF JoinsLists, joined
<1> SUFFICES ASSUME NEW threat, NEW title
             PROVE  Says(joined, threat, title) <=> Says(s, threat, title) \/ Says(t, threat, title)
    BY DEF joined
<1>4. Says(s, threat, title) => Says(joined, threat, title)
    BY <1>2, <1>3 DEF Says
<1>5. Says(t, threat, title) => Says(joined, threat, title)
    BY <1>2, <1>3 DEF Says
<1>6. Says(joined, threat, title) => Says(s, threat, title) \/ Says(t, threat, title)
    <2> SUFFICES ASSUME NEW i \in DOMAIN joined, joined[i].threat = threat, joined[i].title = title
                 PROVE  Says(s, threat, title) \/ Says(t, threat, title)
        BY DEF Says
    <2>1. CASE i \in 1..Len(s) /\ joined[i] = s[i]
        BY <1>2, <2>1 DEF Says
    <2>2. CASE i - Len(s) \in 1..Len(t) /\ joined[i] = t[i - Len(s)]
        BY <1>2, <2>2 DEF Says
    <2> QED
        BY <1>3, <2>1, <2>2
<1> QED
    BY <1>4, <1>5, <1>6

(* Findings of another check say nothing in this check's name.             *)
LEMMA OthersSayNothing ==
    ASSUME NEW check, NEW found, FindingsOf(check, found), NEW threat, threat # check
    PROVE  \A title : ~ Says(found, threat, title)
BY DEF FindingsOf, IsList, Says

(* The two at different places of the list are two images of the dataset.  *)
LEMMA PlacesArePairs ==
    ASSUME NEW images, NEW list, Enumerates(list, images)
    PROVE  /\ DOMAIN list = 1..Len(list) /\ Len(list) \in Nat
           /\ (\E i, j \in 1..Len(list) : i < j /\ list[i].bytes = list[j].bytes) <=> SomeSame(images)
           /\ (\E i, j \in 1..Len(list) : i < j /\ list[i].bytes # list[j].bytes
                                              /\ <<list[i].bytes, list[j].bytes>> \in Alike) <=> SomeAlike(images)
<1>1. DOMAIN list = 1..Len(list) /\ Len(list) \in Nat
    BY DEF Enumerates, IsList
<1>2. ASSUME NEW i \in 1..Len(list), NEW j \in 1..Len(list), i < j
      PROVE  list[i] \in images /\ list[j] \in images /\ list[i] # list[j]
    BY <1>1, <1>2 DEF Enumerates
<1>3. ASSUME NEW x \in images, NEW y \in images, x # y
      PROVE  \E i, j \in 1..Len(list) : i < j /\ ((list[i] = x /\ list[j] = y) \/ (list[i] = y /\ list[j] = x))
    <2>1. PICK i \in 1..Len(list), j \in 1..Len(list) : list[i] = x /\ list[j] = y
        BY DEF Enumerates
    <2>2. i < j \/ j < i
        BY <1>1, <1>3, <2>1
    <2> QED
        BY <2>1, <2>2
<1>4. \A x, y : <<x, y>> \in Alike => <<y, x>> \in Alike
    BY AlikeIsSymmetric
<1>5. (\E i, j \in 1..Len(list) : i < j /\ list[i].bytes = list[j].bytes) => SomeSame(images)
    BY <1>2 DEF SomeSame
<1>6. SomeSame(images) => \E i, j \in 1..Len(list) : i < j /\ list[i].bytes = list[j].bytes
    <2> SUFFICES ASSUME NEW x \in images, NEW y \in images, x # y, x.bytes = y.bytes
                 PROVE  \E i, j \in 1..Len(list) : i < j /\ list[i].bytes = list[j].bytes
        BY DEF SomeSame
    <2> QED
        BY <1>3
<1>7. (\E i, j \in 1..Len(list) : i < j /\ list[i].bytes # list[j].bytes
                                        /\ <<list[i].bytes, list[j].bytes>> \in Alike) => SomeAlike(images)
    BY <1>2 DEF SomeAlike
<1>8. SomeAlike(images) => \E i, j \in 1..Len(list) : i < j /\ list[i].bytes # list[j].bytes
                                                         /\ <<list[i].bytes, list[j].bytes>> \in Alike
    <2> SUFFICES ASSUME NEW x \in images, NEW y \in images, x.bytes # y.bytes,
                        <<x.bytes, y.bytes>> \in Alike
                 PROVE  \E i, j \in 1..Len(list) : i < j /\ list[i].bytes # list[j].bytes
                                                       /\ <<list[i].bytes, list[j].bytes>> \in Alike
        BY DEF SomeAlike
    <2> QED
        BY <1>3, <1>4
<1> QED
    BY <1>1, <1>5, <1>6, <1>7, <1>8

(* DT-4 is right about a directory that is as it was read.                 *)
LEMMA DuplicatesAreSo ==
    ASSUME NEW data, NEW tree, AsRead(tree, data.images)
    PROVE  SaysOfEqual(data.images, NearDuplicates(data, Readable(data, tree)))
<1> DEFINE listed == Listed(data)
           seen == Readable(data, tree)
           first == Finding("DT-4", "exact", "HIGH", "QUARANTINE")
           second == Finding("DT-4", "near", "MEDIUM", "REVIEW")
           same == \E i, j \in DOMAIN listed : i < j /\ listed[i].bytes = listed[j].bytes
           exact == If(same, first)
           near == If(LookAlikes(listed, seen), second)
<1>1. /\ Enumerates(listed, data.images) /\ DOMAIN seen = DOMAIN listed
      /\ \A i \in DOMAIN listed : seen[i].now = listed[i].bytes
    BY SeenAsListed
<1>2. NearDuplicates(data, seen) = Joined(exact, near)
    BY DEF NearDuplicates, Joined
<1>3. same <=> SomeSame(data.images)
    BY <1>1, PlacesArePairs
<1>4. LookAlikes(listed, seen) <=> SomeAlike(data.images)
    <2> HIDE DEF listed, seen
    <2>1. DOMAIN listed = 1..Len(listed)
        BY <1>1, PlacesArePairs
    <2>2. DOMAIN seen = 1..Len(listed) /\ \A i \in 1..Len(listed) : seen[i].now = listed[i].bytes
        BY <1>1, <2>1
    <2>3. LookAlikes(listed, seen) <=>
            \E i, j \in 1..Len(listed) : i < j /\ listed[i].bytes # listed[j].bytes
                                             /\ <<listed[i].bytes, listed[j].bytes>> \in Alike
        BY <2>2 DEF LookAlikes
    <2> QED
        BY <1>1, <2>3, PlacesArePairs
<1> HIDE DEF same
<1>5. /\ IsList(exact)
      /\ \A threat, title : Says(exact, threat, title) <=> same /\ threat = "DT-4" /\ title = "exact"
    <2>1. CASE same
        BY <2>1, IfSays DEF If
    <2>2. CASE ~same
        BY <2>2, IfSays DEF If
    <2> QED
        BY <2>1, <2>2
<1>6. /\ IsList(near)
      /\ \A threat, title : Says(near, threat, title) <=>
                              LookAlikes(listed, seen) /\ threat = "DT-4" /\ title = "near"
    <2>1. CASE LookAlikes(listed, seen)
        BY <2>1, IfSays DEF If
    <2>2. CASE ~LookAlikes(listed, seen)
        BY <2>2, IfSays DEF If
    <2> QED
        BY <2>1, <2>2
<1> HIDE DEF exact, near, listed, seen
<1>7. \A threat, title :
        Says(Joined(exact, near), threat, title) <=> Says(exact, threat, title) \/ Says(near, threat, title)
    BY <1>5, <1>6, JoinedSays
<1>8. SaysOfEqual(data.images, Joined(exact, near))
    BY <1>3, <1>4, <1>5, <1>6, <1>7 DEF SaysOfEqual
<1> QED
    BY <1>2, <1>8 DEF seen

(* So is DT-1.                                                             *)
LEMMA TriggersAreSo ==
    ASSUME NEW data, NEW tree, AsRead(tree, data.images)
    PROVE  SaysOfPatched(data.images, TriggerInjection(data, Readable(data, tree)))
<1> DEFINE listed == Listed(data)
           seen == Readable(data, tree)
           flagged == {i \in DOMAIN seen : seen[i].now \in Patched}
           severity == IF Cardinality(flagged) >= 3 THEN "CRITICAL" ELSE "HIGH"
           f == Finding("DT-1", "trigger", severity, "QUARANTINE")
<1>1. /\ Enumerates(listed, data.images) /\ DOMAIN seen = DOMAIN listed
      /\ \A i \in DOMAIN listed : seen[i].now = listed[i].bytes
    BY SeenAsListed
<1>2. TriggerInjection(data, seen) = If(flagged # {}, f)
    BY DEF TriggerInjection
<1>3. flagged # {} <=> SomePatched(data.images)
    <2> HIDE DEF listed, seen
    <2>1. DOMAIN listed = 1..Len(listed)
        BY <1>1, PlacesArePairs
    <2> QED
        BY <1>1, <2>1 DEF Enumerates, SomePatched
<1>4. Says(If(flagged # {}, f), "DT-1", "trigger") <=> flagged # {}
    <2> HIDE DEF flagged, severity
    <2>1. CASE flagged # {}
        BY <2>1, IfSays DEF If
    <2>2. CASE flagged = {}
        BY <2>2, IfSays DEF If
    <2> QED
        BY <2>1, <2>2
<1> QED
    BY <1>2, <1>3, <1>4 DEF SaysOfPatched

(* What an analysis that has come so far says is so.                       *)
SaysTruly(images, findings, executed) ==
    /\ "DT-4" \in executed => SaysOfEqual(images, findings)
    /\ "DT-1" \in executed => SaysOfPatched(images, findings)

(* Every check is still to come once, or has been run.                     *)
EachOnce ==
    /\ \A i, j \in DOMAIN call.todo : call.todo[i] = call.todo[j] => i = j
    /\ \A i \in DOMAIN call.todo : call.todo[i] \notin call.executed

ToldInv ==
    /\ call.pc = "checking" =>
         /\ EachOnce
         /\ call.steady => SaysTruly(call.data.images, call.findings, call.executed)
    /\ \A k \in DOMAIN sessions : sessions[k].call.steady =>
         SaysTruly(sessions[k].call.data.images, sessions[k].findings, sessions[k].executed)

(* What the first check to come finds is about its own threat.             *)
LEMMA FoundIsSo ==
    ASSUME Shapes, SteadyInv, call.pc = "checking", call.steady
    PROVE  /\ Head(call.todo) = "DT-4" => SaysOfEqual(call.data.images, Found)
           /\ Head(call.todo) = "DT-1" => SaysOfPatched(call.data.images, Found)
<1>1. /\ Selected(call) /\ Passed(disk, call) /\ ReadFrom(disk, call) /\ disk \in Trees \cup Edits
    BY DEF SteadyInv, Shapes, Idle
<1>2. AsRead(disk, call.data.images)
    BY <1>1, SteadyAsRead
<1>3. CASE Head(call.todo) = "DT-4"
    <2>1. Found = NearDuplicates(call.data, Readable(call.data, disk))
        BY <1>3 DEF Found, Run
    <2> QED
        BY <1>2, <1>3, <2>1, DuplicatesAreSo
<1>4. CASE Head(call.todo) = "DT-1"
    <2>1. Found = TriggerInjection(call.data, Readable(call.data, disk))
        BY <1>4 DEF Found, Run
    <2> QED
        BY <1>2, <1>4, <2>1, TriggersAreSo
<1> QED
    BY <1>3, <1>4

(* One check goes from what is to come to what has been run.               *)
LEMMA EachOnceStep ==
    ASSUME ScanInv, call.pc = "checking", call.todo # <<>>, EachOnce,
           call'.todo = Tail(call.todo),
           call'.executed \subseteq call.executed \cup {Head(call.todo)}
    PROVE  EachOnce'
<1>1. call.todo \in Seq(CheckNames)
    BY DEF ScanInv, CallAccounted
<1>2. /\ Len(call.todo) \in Nat \ {0} /\ DOMAIN call.todo = 1..Len(call.todo)
      /\ DOMAIN Tail(call.todo) = 1..(Len(call.todo) - 1)
      /\ \A i \in 1..(Len(call.todo) - 1) : Tail(call.todo)[i] = call.todo[i + 1]
      /\ Head(call.todo) = call.todo[1]
    BY <1>1
<1> DEFINE todo == call.todo
           rest == Tail(call.todo)
           head == Head(call.todo)
<1> HIDE DEF todo, rest, head
<1>3. /\ Len(todo) \in Nat \ {0} /\ DOMAIN todo = 1..Len(todo) /\ DOMAIN rest = 1..(Len(todo) - 1)
      /\ \A i \in 1..(Len(todo) - 1) : rest[i] = todo[i + 1] /\ i + 1 \in 1..Len(todo) /\ i + 1 # 1
      /\ head = todo[1] /\ 1 \in 1..Len(todo)
    BY <1>2 DEF todo, rest, head
<1>4. /\ \A i, j \in 1..Len(todo) : todo[i] = todo[j] => i = j
      /\ \A i \in 1..Len(todo) : todo[i] \notin call.executed
    BY <1>3 DEF EachOnce, todo
<1>5. ASSUME NEW i \in 1..(Len(todo) - 1), NEW j \in 1..(Len(todo) - 1), rest[i] = rest[j]
      PROVE  i = j
    <2>1. i + 1 = j + 1
        BY <1>3, <1>4, <1>5
    <2> QED
        BY <1>3, <2>1
<1>6. ASSUME NEW i \in 1..(Len(todo) - 1) PROVE rest[i] \notin call'.executed
    <2>1. rest[i] \notin call.executed /\ rest[i] # head
        BY <1>3, <1>4
    <2> QED
        BY <2>1 DEF head
<1> QED
    BY <1>3, <1>5, <1>6 DEF EachOnce, rest

(* A check that has run adds its findings to those of the others.          *)
LEMMA CheckedTells ==
    ASSUME Shapes, ScanInv, SteadyInv, ToldInv, Checked
    PROVE  ToldInv'
<1> DEFINE check == Head(call.todo)
<1>1. /\ call.pc = "checking" /\ call'.pc = "checking" /\ call'.todo = Tail(call.todo)
      /\ call.todo # <<>> /\ UNCHANGED sessions
      /\ call'.data = call.data /\ call'.steady = call.steady
    BY DEF Checked, Same, LoadedFields, ToldFields, BeginFields
<1>2. EachOnce /\ CallAccounted
    BY <1>1 DEF ScanInv, ToldInv
<1>3. \/ call'.executed = call.executed /\ call'.findings = call.findings
      \/ call'.executed = call.executed \cup {check} /\ call'.findings = Joined(call.findings, Found)
    BY Zenon DEF Checked, Joined
<1>4. EachOnce'
    BY <1>1, <1>2, <1>3, EachOnceStep
<1>5. ASSUME call.steady PROVE SaysTruly(call.data.images, call'.findings, call'.executed)
    <2> DEFINE images == call.data.images
    <2>1. SaysTruly(images, call.findings, call.executed)
        BY <1>1, <1>5 DEF ToldInv
    <2>2. CASE call'.executed = call.executed /\ call'.findings = call.findings
        BY <2>1, <2>2
    <2>3. CASE call'.executed = call.executed \cup {check} /\ call'.findings = Joined(call.findings, Found)
        <3>1. check \in CheckNames /\ check \notin call.executed
            <4>1. call.todo \in Seq(CheckNames)
                BY <1>2 DEF CallAccounted
            <4>2. check = call.todo[1] /\ 1 \in DOMAIN call.todo /\ check \in CheckNames
                BY <1>1, <4>1
            <4> QED
                BY <1>2, <4>2 DEF EachOnce
        <3>2. FindingsOf(check, Found)
            BY <3>1, RunFindings DEF Found
        <3>3. /\ check = "DT-4" => SaysOfEqual(images, Found)
              /\ check = "DT-1" => SaysOfPatched(images, Found)
            BY <1>1, <1>5, FoundIsSo
        <3>4. \A title : ~ Says(call.findings, check, title)
            BY <1>2, <3>1 DEF CallAccounted, Shown, Says
        <3> HIDE DEF check, images
        <3>5. \A threat, title : Says(call'.findings, threat, title) <=>
                Says(call.findings, threat, title) \/ Says(Found, threat, title)
            BY <1>2, <2>3, <3>2, JoinedSays DEF CallAccounted, FindingsOf
        <3>6. \A threat, title : threat # check => ~ Says(Found, threat, title)
            BY <3>2, OthersSayNothing
        <3>7. ASSUME "DT-4" \in call'.executed PROVE SaysOfEqual(images, call'.findings)
            <4>1. CASE check = "DT-4"
                BY <3>3, <3>4, <3>5, <4>1 DEF SaysOfEqual
            <4>2. CASE check # "DT-4"
                BY <2>1, <2>3, <3>5, <3>6, <3>7, <4>2 DEF SaysOfEqual, SaysTruly
            <4> QED
                BY <4>1, <4>2
        <3>8. ASSUME "DT-1" \in call'.executed PROVE SaysOfPatched(images, call'.findings)
            <4>1. CASE check = "DT-1"
                BY <3>3, <3>4, <3>5, <4>1 DEF SaysOfPatched
            <4>2. CASE check # "DT-1"
                BY <2>1, <2>3, <3>5, <3>6, <3>8, <4>2 DEF SaysOfPatched, SaysTruly
            <4> QED
                BY <4>1, <4>2
        <3> QED
            BY <3>7, <3>8 DEF SaysTruly, images
    <2> QED
        BY <1>3, <2>2, <2>3
<1> QED
    BY <1>1, <1>4, <1>5 DEF ToldInv

LEMMA ToldStep ==
    ASSUME Shapes, ScanInv, SteadyInv, ToldInv, Step
    PROVE  ToldInv'
<1>1. CASE Begun \/ Validated \/ Revalidated \/ LoadedNow \/ Attached \/ Saved \/ Logged \/ Failing
    <2>1. UNCHANGED sessions /\ call'.pc # "checking"
        BY <1>1 DEF Begun, Validated, Revalidated, LoadedNow, Attached, Saved, Logged, Failing, Fail, Idle
    <2> QED
        BY <2>1 DEF ToldInv
<1>2. CASE Answered
    <2>1. call'.pc = "idle"
        BY <1>2 DEF Answered, Idle
    <2>2. CASE UNCHANGED sessions
        BY <2>1, <2>2 DEF ToldInv
    <2>3. CASE /\ call.pc = "checking"
               /\ sessions' = Append(sessions,
                     [asset |-> Len(assets), executed |-> call.executed, skipped |-> call.skipped,
                      findings |-> call.findings, call |-> call])
        <3> DEFINE s == [asset |-> Len(assets), executed |-> call.executed, skipped |-> call.skipped,
                         findings |-> call.findings, call |-> call]
        <3>1. s.call.steady => SaysTruly(s.call.data.images, s.findings, s.executed)
            BY <2>3 DEF ToldInv
        <3> HIDE DEF s
        <3>2. /\ DOMAIN sessions' = 1..(Len(sessions) + 1) /\ sessions'[Len(sessions) + 1] = s
              /\ DOMAIN sessions = 1..Len(sessions) /\ Len(sessions) \in Nat
              /\ \A k \in 1..Len(sessions) : sessions'[k] = sessions[k]
            BY <2>3, ListAppends DEF s, Shapes, IsList
        <3>3. \A k \in DOMAIN sessions' : sessions'[k].call.steady =>
                SaysTruly(sessions'[k].call.data.images, sessions'[k].findings, sessions'[k].executed)
            BY <3>1, <3>2 DEF ToldInv
        <3> QED
            BY <2>1, <3>3 DEF ToldInv
    <2> QED
        BY <1>2, <2>2, <2>3 DEF Answered
<1>3. CASE Edited
    <2>1. /\ UNCHANGED sessions /\ call'.pc = call.pc
          /\ call.pc = "checking" => /\ call'.steady = FALSE
                                     /\ call'.todo = call.todo /\ call'.executed = call.executed
        BY <1>3 DEF Edited, Shapes, CallShape, ScanFields, Idle
    <2> QED
        BY <2>1 DEF ToldInv, EachOnce
<1>4. CASE Started
    <2>1. /\ UNCHANGED sessions /\ call'.pc = "checking"
          /\ call'.todo = CheckOrder /\ call'.executed = {}
        BY <1>4 DEF Started
    <2>2. \A i, j \in DOMAIN CheckOrder : CheckOrder[i] = CheckOrder[j] => i = j
        BY DEF CheckOrder
    <2> QED
        BY <2>1, <2>2 DEF ToldInv, EachOnce, SaysTruly
<1>5. CASE Skipped
    <2>1. /\ UNCHANGED sessions /\ call.pc = "checking" /\ call'.pc = "checking"
          /\ call.todo # <<>> /\ call'.todo = Tail(call.todo)
          /\ call'.findings = call.findings /\ call'.executed = call.executed
          /\ call'.data = call.data /\ call'.steady = call.steady
        BY <1>5 DEF Skipped, Same, LoadedFields, ToldFields, BeginFields
    <2>2. EachOnce'
        BY <2>1, EachOnceStep DEF ToldInv
    <2> QED
        BY <2>1, <2>2 DEF ToldInv
<1> QED
    BY <1>1, <1>2, <1>3, <1>4, <1>5, CheckedTells DEF Step

(* DT-4 tells of equal and of differing but like pictures exactly when the *)
(* directory has some, and DT-1 of patches exactly when a picture carries  *)
(* one, for any directory nobody edits during the call, whichever checks   *)
(* fail: DuplicatesAreTold (near_duplicates.py:63-138,                     *)
(* trigger_injection.py:100-117).                                          *)
THEOREM DuplicatesAreAlwaysTold == ScanSpec => []DuplicatesAreTold
<1>1. ScanInit => ToldInv
    BY DEF ScanInit, Init, Idle, ToldInv
<1>2. Shapes /\ ScanInv /\ SteadyInv /\ ToldInv /\ [ScanNext]_allVars => ToldInv'
    <2> SUFFICES ASSUME Shapes, ScanInv, SteadyInv, ToldInv, [ScanNext]_allVars PROVE ToldInv'
        OBVIOUS
    <2>1. CallShape
        BY DEF Shapes
    <2>2. CASE Step
        BY <2>2, ToldStep
    <2>3. CASE UNCHANGED << disk, call, assets, log, answers, evidence, recorded, sessions >>
        BY <2>3 DEF ToldInv, EachOnce
    <2> QED
        BY <2>1, <2>2, <2>3, StepCases
<1>3. ToldInv => DuplicatesAreTold
    <2> SUFFICES ASSUME ToldInv, NEW k \in DOMAIN sessions, sessions[k].call.steady
                 PROVE  LET s == sessions[k]
                            images == s.call.data.images
                            Said(threat, title) ==
                                \E i \in DOMAIN s.findings : s.findings[i].threat = threat /\ s.findings[i].title = title
                        IN /\ "DT-4" \in s.executed =>
                                /\ Said("DT-4", "exact") = (\E im, other \in images : im # other /\ im.bytes = other.bytes)
                                /\ Said("DT-4", "near") =
                                     (\E im, other \in images :
                                        im.bytes # other.bytes /\ <<im.bytes, other.bytes>> \in Alike)
                           /\ "DT-1" \in s.executed =>
                                Said("DT-1", "trigger") = (\E im \in images : im.bytes \in Patched)
        BY Zenon DEF DuplicatesAreTold
    <2>1. SaysTruly(sessions[k].call.data.images, sessions[k].findings, sessions[k].executed)
        BY DEF ToldInv
    <2> QED
        BY <2>1 DEF SaysTruly, SaysOfEqual, SaysOfPatched, SomeSame, SomeAlike, SomePatched, Says
<1> QED
    BY <1>1, <1>2, <1>3, ShapesHold, ScanHolds, SteadyHolds, PTL DEF ScanSpec

=============================================================================
