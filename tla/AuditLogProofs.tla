-------------------------- MODULE AuditLogProofs --------------------------
(***************************************************************************)
(* Theorems about AuditLog.  For every ledger: its types, that links never *)
(* dangle, and that a lost event shows.  For a ledger with one writing     *)
(* process: that the chain on disk verifies, that damage is located, and   *)
(* that the file implements AuditLedger.                                   *)
(***************************************************************************)
EXTENDS AuditLog, SequenceTheorems, TLAPS

(* What a line of the file is.                                             *)
Line == Event \cup {Malformed}

(* The events log_event builds are events.                                 *)
LEMMA BuiltEventType ==
    ASSUME NEW s \in Nat, NEW ts \in Nat, NEW id \in Nat, NEW prev \in Digest
    PROVE  [seq |-> s, ts |-> ts, id |-> id, prev |-> prev,
            hash |-> Append(prev, [seq |-> s, ts |-> ts, id |-> id])] \in Event
<1>1. [seq |-> s, ts |-> ts, id |-> id] \in Contents
    BY DEF Contents
<1>2. Append(prev, [seq |-> s, ts |-> ts, id |-> id]) \in Digest
    BY <1>1 DEF Digest
<1> QED
    BY <1>2 DEF Event

(* A file cut short keeps its first lines.                                 *)
LEMMA CutFile ==
    ASSUME NEW file0 \in Seq(Line), NEW n \in 0 .. Len(file0)
    PROVE  /\ SubSeq(file0, 1, n) \in Seq(Line)
           /\ Len(SubSeq(file0, 1, n)) = n
           /\ \A i \in 1 .. n : SubSeq(file0, 1, n)[i] = file0[i]
<1>1. \A i \in 1 .. n : file0[i] \in Line
    BY ElementOfSeq
<1> QED
    BY <1>1, SubSeqProperties

(* A file that lost a line keeps the lines before it in place and the      *)
(* lines after it one position lower.                                      *)
LEMMA LostLine ==
    ASSUME NEW file0 \in Seq(Line), NEW i \in 1 .. Len(file0), i < Len(file0)
    PROVE  LET less == SubSeq(file0, 1, i - 1) \o SubSeq(file0, i + 1, Len(file0)) IN
           /\ less \in Seq(Line)
           /\ Len(less) = Len(file0) - 1
           /\ \A j \in 1 .. Len(file0) - 1 :
                less[j] = IF j < i THEN file0[j] ELSE file0[j + 1]
<1> DEFINE head == SubSeq(file0, 1, i - 1)
           rest == SubSeq(file0, i + 1, Len(file0))
<1>1. /\ head \in Seq(Line)
      /\ Len(head) = i - 1
      /\ \A j \in 1 .. i - 1 : head[j] = file0[j]
    BY CutFile
<1>2. Len(file0) \in Nat /\ \A j \in i + 1 .. Len(file0) : file0[j] \in Line
    BY ElementOfSeq
<1>3. /\ rest \in Seq(Line)
      /\ Len(rest) = Len(file0) - i
      /\ \A j \in 1 .. Len(file0) - i : rest[j] = file0[i + j]
    BY <1>2, SubSeqProperties
<1> HIDE DEF head, rest
<1>4. /\ head \o rest \in Seq(Line)
      /\ Len(head \o rest) = Len(head) + Len(rest)
      /\ \A j \in 1 .. Len(head) + Len(rest) :
           (head \o rest)[j] = IF j <= Len(head) THEN head[j] ELSE rest[j - Len(head)]
    BY <1>1, <1>3, ConcatProperties
<1>5. Len(head) + Len(rest) = Len(file0) - 1
    BY <1>1, <1>2, <1>3
<1>6. ASSUME NEW j \in 1 .. Len(file0) - 1
      PROVE  (head \o rest)[j] = IF j < i THEN file0[j] ELSE file0[j + 1]
    <2>1. CASE j < i
        BY <1>1, <1>4, <1>5, <2>1
    <2>2. CASE ~(j < i)
        <3>1. j - (i - 1) \in 1 .. Len(file0) - i /\ i + (j - (i - 1)) = j + 1
            BY <1>2, <2>2
        <3>2. rest[j - (i - 1)] = file0[j + 1]
            BY <1>3, <3>1
        <3> QED
            BY <1>1, <1>2, <1>4, <1>5, <2>2, <3>2
    <2> QED
        BY <2>1, <2>2
<1> QED
    BY <1>4, <1>5, <1>6 DEF head, rest

(* An event whose payload is damaged is an event.                          *)
LEMMA DamagedEventType ==
    ASSUME NEW e \in Event
    PROVE  /\ [e EXCEPT !.id = 0] \in Event
           /\ [e EXCEPT !.id = 0].hash = e.hash
           /\ [e EXCEPT !.id = 0].seq = e.seq
           /\ [e EXCEPT !.id = 0].ts = e.ts
BY DEF Event

-----------------------------------------------------------------------------
(* A process that starts takes over a digest and a number.                 *)
LEMMA RecoveredType ==
    ASSUME TypeOK, Readable
    PROVE  RecoveredTip \in Digest /\ RecoveredSeq \in Nat
<1>1. CASE lines = << >>
    BY <1>1 DEF RecoveredTip, RecoveredSeq, Genesis, Digest
<1>2. CASE lines # << >>
    <2>1. Len(lines) \in DOMAIN lines
        BY <1>2, EmptySeq DEF TypeOK
    <2>2. lines[Len(lines)] \in Event
        BY <2>1, ElementOfSeq DEF TypeOK, Readable
    <2> QED
        BY <1>2, <2>2 DEF RecoveredTip, RecoveredSeq, Event
<1> QED
    BY <1>1, <1>2

LEMMA AppendType ==
    ASSUME TypeOK, NEW e \in Event, WriteLine(e)
    PROVE  lines' \in Seq(Event \cup {Malformed}) /\ partial' \in BOOLEAN
<1> DEFINE line == IF partial THEN Malformed ELSE e
<1>1. line \in Line /\ lines \in Seq(Line)
    BY DEF TypeOK, Line
<1> HIDE DEF line
<1>2. Append(lines, line) \in Seq(Line)
    BY <1>1
<1> QED
    BY <1>2 DEF WriteLine, Line, line

(* Every variable keeps its type in every behaviour of every ledger.       *)
THEOREM TypeCorrect == Spec => []TypeOK
<1>1. Init => TypeOK
    <2> SUFFICES ASSUME Init PROVE TypeOK
        OBVIOUS
    <2>1. << >> \in Seq(Event \cup {Malformed}) /\ Genesis \in Digest
        BY EmptySeq DEF Genesis, Digest
    <2>2. lines \in Seq(Event \cup {Malformed}) /\ partial \in BOOLEAN /\ outage \in BOOLEAN
        BY <2>1 DEF Init
    <2>3. up \in SUBSET Process /\ acked \in SUBSET Nat /\ damaged \in SUBSET (Nat \ {0})
        BY DEF Init
    <2>4. tip \in [Process -> Digest] /\ nextSeq \in [Process -> Nat]
        BY <2>1 DEF Init
    <2>5. lock \in [Process -> Thread \cup {Free}] /\ pending \in [Thread -> Event \cup {NoEvent}]
        BY DEF Init
    <2>6. now \in Nat /\ nextId \in Nat \ {0}
        BY DEF Init
    <2> QED
        BY <2>2, <2>3, <2>4, <2>5, <2>6 DEF TypeOK
<1>2. TypeOK /\ [Next]_vars => TypeOK'
    <2> SUFFICES ASSUME TypeOK, [Next]_vars
                 PROVE  TypeOK'
        OBVIOUS
    <2> USE ThreadsAssumption, MarkersAssumption
    <2>1. ASSUME NEW p \in Process, RecoverState(p)
          PROVE  TypeOK'
        BY <2>1, RecoveredType DEF TypeOK, RecoverState, file
    <2>2. ASSUME NEW p \in Process, Exit(p)
          PROVE  TypeOK'
        BY <2>2 DEF TypeOK, Exit, file
    <2>3. ASSUME NEW t \in Thread, BuildEvent(t)
          PROVE  TypeOK'
        <3> DEFINE p == ProcessOf[t]
                   e == [seq |-> nextSeq[p], ts |-> now, id |-> nextId, prev |-> tip[p],
                         hash |-> Append(tip[p], [seq |-> nextSeq[p], ts |-> now, id |-> nextId])]
        <3>1. p \in Process /\ nextSeq[p] \in Nat /\ tip[p] \in Digest
            BY DEF TypeOK
        <3>2. e \in Event
            BY <3>1, BuiltEventType DEF TypeOK
        <3>3. pending' = [pending EXCEPT ![t] = e]
            BY <2>3 DEF BuildEvent
        <3>4. pending' \in [Thread -> Event \cup {NoEvent}]
            BY <3>2, <3>3 DEF TypeOK
        <3>5. nextSeq' \in [Process -> Nat]
            BY <2>3, <3>1 DEF TypeOK, BuildEvent
        <3>6. lock' \in [Process -> Thread \cup {Free}] /\ nextId' \in Nat \ {0}
            BY <2>3, <3>1 DEF TypeOK, BuildEvent
        <3> QED
            BY <2>3, <3>4, <3>5, <3>6 DEF TypeOK, BuildEvent, file
    <2>4. ASSUME NEW t \in Thread, AppendEvent(t)
          PROVE  TypeOK'
        <3>1. pending[t] \in Event
            BY <2>4 DEF TypeOK, AppendEvent
        <3>2. lines' \in Seq(Event \cup {Malformed}) /\ partial' \in BOOLEAN
            BY <2>4, <3>1, AppendType DEF AppendEvent
        <3>3. tip' \in [Process -> Digest] /\ acked' \in SUBSET Nat
            BY <2>4, <3>1 DEF TypeOK, AppendEvent, Event
        <3> QED
            BY <2>4, <3>2, <3>3 DEF TypeOK, AppendEvent, LeaveLogEvent
    <2>5. ASSUME NEW t \in Thread, AppendFails(t)
          PROVE  TypeOK'
        <3>1. pending[t] \in Event
            BY <2>5 DEF TypeOK, AppendFails
        <3>2. lines' \in Seq(Event \cup {Malformed}) /\ partial' \in BOOLEAN
            BY <2>5, <3>1, AppendType DEF TypeOK, AppendFails, FailedWrite, file
        <3> QED
            BY <2>5, <3>2 DEF TypeOK, AppendFails, LeaveLogEvent
    <2>6. ASSUME PowerLoss
          PROVE  TypeOK'
        <3>1. lines' \in Seq(Event \cup {Malformed}) /\ damaged' \in SUBSET (Nat \ {0})
            BY <2>6, CutFile DEF TypeOK, PowerLoss, Line
        <3> QED
            BY <2>6, <3>1 DEF TypeOK, PowerLoss
    <2>7. ASSUME Tick
          PROVE  TypeOK'
        BY <2>7, BoundsAssumption DEF TypeOK, Tick, file, memory
    <2>8. ASSUME NEW i \in DOMAIN lines, DamageEvent(i)
          PROVE  TypeOK'
        <3>1. i \in 1 .. Len(lines) /\ lines[i] \in Event \cup {Malformed}
            BY ElementOfSeq DEF TypeOK
        <3>2. lines' \in Seq(Event \cup {Malformed})
            <4>1. CASE /\ lines[i] # Malformed
                       /\ lines' = [lines EXCEPT ![i] = [@ EXCEPT !.id = 0]]
                BY <3>1, <4>1, DamagedEventType, ExceptSeq DEF TypeOK
            <4>2. CASE /\ i < Len(lines)
                       /\ lines' = SubSeq(lines, 1, i - 1) \o SubSeq(lines, i + 1, Len(lines))
                BY <3>1, <4>2, LostLine DEF TypeOK, Line
            <4> QED
                BY <2>8, <4>1, <4>2 DEF DamageEvent
        <3> QED
            BY <2>8, <3>1, <3>2 DEF TypeOK, DamageEvent, memory
    <2>9. CASE UNCHANGED vars
        BY <2>9 DEF TypeOK, vars
    <2> QED
        BY <2>1, <2>2, <2>3, <2>4, <2>5, <2>6, <2>7, <2>8, <2>9 DEF Next
<1> QED
    BY <1>1, <1>2, PTL DEF Spec

-----------------------------------------------------------------------------
(* One process writes the ledger, a failed append leaves nothing in the    *)
(* file, the clock runs forward.                                           *)
SoleWriter ==
    /\ \A t, u \in Thread : ProcessOf[t] = ProcessOf[u]
    /\ Failures \subseteq {"nothing"}
    /\ ~ClockStepsBack

(* Whether an event passes the checks depends on it and its predecessor.   *)
LEMMA EventOKLocal ==
    ASSUME NEW a, NEW b, NEW i \in Nat \ {0}, a[i] = b[i], i > 1 => a[i - 1] = b[i - 1]
    PROVE  EventOK(a, i) <=> EventOK(b, i)
BY DEF EventOK, LinkOK, HashOK, SequenceOK, TimeOK

(* What the last line hands over to a new logger.                          *)
LEMMA LastLine ==
    ASSUME NEW file0 \in Seq(Line), file0 # << >>
    PROVE  Len(file0) \in Nat \ {0} /\ Len(file0) \in DOMAIN file0
BY EmptySeq

(* The file after a successful append of an event that fits.               *)
LEMMA AppendSound ==
    ASSUME TypeOK, FileSound, DamageEvident, NEW e \in Event,
           e.prev = RecoveredTip, e.hash = ComputeHash(e),
           RecoveredSeq <= e.seq, e.ts <= now, e.id # 0,
           lines # << >> => lines[Len(lines)].ts <= e.ts,
           WriteLine(e), now' = now, damaged' = damaged
    PROVE  /\ FileSound' /\ DamageEvident'
           /\ RecoveredTip' = e.hash /\ RecoveredSeq' = e.seq + 1
           /\ lines' # << >> /\ lines'[Len(lines')].ts = e.ts
<1> DEFINE n == Len(lines)
<1>1. lines' = Append(lines, e) /\ ~partial'
    BY DEF WriteLine, FileSound
<1>2. /\ n \in Nat /\ lines \in Seq(Line) /\ e \in Line
      /\ DOMAIN lines = 1 .. n
    BY DEF TypeOK, Line
<1>3. /\ Len(lines') = n + 1 /\ DOMAIN lines' = 1 .. n + 1 /\ lines' # << >>
      /\ lines'[n + 1] = e
      /\ \A i \in 1 .. n : lines'[i] = lines[i]
    BY <1>1, <1>2
<1> HIDE DEF n
<1>4. \A i \in 1 .. n : EventOK(lines', i) <=> EventOK(lines, i)
    <2> TAKE i \in 1 .. n
    <2>1. i > 1 => i - 1 \in 1 .. n
        BY <1>2
    <2> QED
        BY <1>2, <1>3, <2>1, EventOKLocal
<1>5. EventOK(lines', n + 1)
    <2>1. CASE lines = << >>
        <3>1. n = 0
            BY <2>1 DEF n
        <3>2. e.prev = Genesis
            BY <2>1 DEF RecoveredTip
        <3> QED
            BY <1>3, <3>1, <3>2 DEF EventOK, LinkOK, HashOK, SequenceOK, TimeOK
    <2>2. CASE lines # << >>
        <3>1. n \in 1 .. n /\ n + 1 > 1 /\ n + 1 # 1 /\ (n + 1) - 1 = n
            BY <1>2, <2>2, LastLine DEF n
        <3>2. e.prev = lines[n].hash /\ lines[n].seq + 1 <= e.seq /\ lines[n].ts <= e.ts
            BY <2>2 DEF RecoveredTip, RecoveredSeq, n
        <3>3. lines[n] \in Event /\ e.seq \in Nat /\ e.ts \in Nat
            BY <1>2, <3>1, ElementOfSeq DEF FileSound, Line, Event
        <3>4. lines[n].seq \in Nat /\ lines[n].ts \in Nat
            BY <3>3 DEF Event
        <3>5. lines'[n] = lines[n] /\ lines'[n + 1] = e
            BY <1>3, <3>1
        <3> QED
            BY <3>1, <3>2, <3>3, <3>4, <3>5 DEF EventOK, LinkOK, HashOK, SequenceOK, TimeOK
    <2> QED
        BY <2>1, <2>2
<1>6. FileSound'
    <2>1. e # Malformed
        BY MarkersAssumption
    <2>2. ASSUME NEW i \in 1 .. n + 1
          PROVE  /\ lines'[i] # Malformed
                 /\ lines'[i].ts <= now
                 /\ (\A d \in damaged : i < d) => EventOK(lines', i) /\ lines'[i].id # 0
        <3>1. CASE i = n + 1
            BY <1>3, <1>5, <2>1, <3>1
        <3>2. CASE i # n + 1
            <4>1. i \in 1 .. n
                BY <1>2, <3>2
            <4> QED
                BY <1>2, <1>3, <1>4, <4>1 DEF FileSound
        <3> QED
            BY <3>1, <3>2
    <2> QED
        BY <1>1, <1>3, <2>2 DEF FileSound
<1>7. DamageEvident'
    <2>1. ASSUME NEW i \in damaged
          PROVE  i \in 1 .. n + 1 /\ ~EventOK(lines', i)
        BY <1>2, <1>4 DEF DamageEvident
    <2> QED
        BY <1>3, <2>1 DEF DamageEvident
<1>8. RecoveredTip' = e.hash /\ RecoveredSeq' = e.seq + 1 /\ lines'[Len(lines')].ts = e.ts
    BY <1>3 DEF RecoveredTip, RecoveredSeq
<1> QED
    BY <1>3, <1>6, <1>7, <1>8

(* The file after a power loss.                                            *)
LEMMA CutSound ==
    ASSUME TypeOK, FileSound, DamageEvident, NEW n \in 0 .. Len(lines),
           lines' = SubSeq(lines, 1, n), damaged' = { i \in damaged : i <= n },
           partial' = FALSE, now' = now
    PROVE  FileSound' /\ DamageEvident'
<1>1. /\ lines \in Seq(Line) /\ DOMAIN lines = 1 .. Len(lines) /\ Len(lines) \in Nat
      /\ damaged \subseteq Nat \ {0}
    BY DEF TypeOK, Line
<1>2. /\ lines' \in Seq(Line) /\ Len(lines') = n /\ DOMAIN lines' = 1 .. n
      /\ \A i \in 1 .. n : lines'[i] = lines[i]
    BY <1>1, CutFile
<1>3. 1 .. n \subseteq 1 .. Len(lines)
    BY <1>1
<1>4. \A i \in 1 .. n : EventOK(lines', i) <=> EventOK(lines, i)
    <2> TAKE i \in 1 .. n
    <2>1. i \in Nat \ {0} /\ (i > 1 => i - 1 \in 1 .. n)
        BY <1>1
    <2>2. lines'[i] = lines[i] /\ (i > 1 => lines'[i - 1] = lines[i - 1])
        BY <1>2, <2>1
    <2> QED
        BY <2>1, <2>2, EventOKLocal
<1>5. ASSUME NEW i \in 1 .. n, \A d \in damaged' : i < d
      PROVE  \A d \in damaged : i < d
    BY <1>1, <1>5
<1>6. FileSound'
    BY <1>1, <1>2, <1>3, <1>4, <1>5 DEF FileSound
<1>7. DamageEvident'
    BY <1>1, <1>2, <1>4 DEF DamageEvident
<1> QED
    BY <1>6, <1>7

(* The file after a payload changed.                                       *)
LEMMA PayloadDamageSound ==
    ASSUME TypeOK, FileSound, damaged = {}, NEW i \in 1 .. Len(lines),
           lines' = [lines EXCEPT ![i] = [@ EXCEPT !.id = 0]],
           damaged' = {i}, partial' = partial, now' = now
    PROVE  /\ FileSound' /\ DamageEvident'
           /\ RecoveredTip' = RecoveredTip /\ RecoveredSeq' = RecoveredSeq
           /\ (lines' = << >>) = (lines = << >>)
           /\ lines # << >> => lines'[Len(lines')].ts = lines[Len(lines)].ts
<1> DEFINE n == Len(lines)
           bad == [lines[i] EXCEPT !.id = 0]
<1>1. lines \in Seq(Line) /\ n \in Nat /\ DOMAIN lines = 1 .. n
    BY DEF TypeOK, Line
<1>2. \A j \in 1 .. n : lines[j] \in Event
    BY <1>1, ElementOfSeq DEF FileSound, Line
<1>3. /\ bad \in Event /\ bad.hash = lines[i].hash /\ bad.seq = lines[i].seq
      /\ bad.ts = lines[i].ts /\ bad.id = 0 /\ bad.prev = lines[i].prev
    BY <1>2 DEF Event
<1>4. /\ lines' \in Seq(Line) /\ Len(lines') = n /\ DOMAIN lines' = 1 .. n
      /\ \A j \in 1 .. n : lines'[j] = IF j = i THEN bad ELSE lines[j]
    BY <1>1, <1>3, ExceptSeq DEF Line
<1>5. \A j \in 1 .. n : EventOK(lines, j) /\ lines[j].id # 0
    BY <1>1 DEF FileSound
<1> HIDE DEF n, bad
<1>6. ASSUME NEW j \in 1 .. n, j < i
      PROVE  EventOK(lines', j) /\ lines'[j].id # 0
    <2>1. j \in Nat \ {0} /\ (j > 1 => j - 1 \in 1 .. n /\ j - 1 # i)
        BY <1>1, <1>6
    <2>2. lines'[j] = lines[j] /\ (j > 1 => lines'[j - 1] = lines[j - 1])
        BY <1>1, <1>4, <1>6, <2>1
    <2> QED
        BY <1>5, <2>1, <2>2, EventOKLocal
<1>7. ~HashOK(lines', i)
    <2>1. i \in 1 .. n /\ lines'[i] = bad
        BY <1>4 DEF n
    <2>2. lines[i].hash = ComputeHash(lines[i]) /\ lines[i].id # 0
        BY <1>5, <2>1 DEF EventOK, HashOK
    <2>3. lines[i].prev \in Digest
        BY <1>2, <2>1 DEF Event
    <2> DEFINE c == [seq |-> lines[i].seq, ts |-> lines[i].ts, id |-> lines[i].id]
               z == [seq |-> lines[i].seq, ts |-> lines[i].ts, id |-> 0]
    <2>4. c # z /\ c \in Contents /\ z \in Contents
        BY <1>2, <2>1, <2>2 DEF Event, Contents
    <2>5. ComputeHash(lines[i]) = Append(lines[i].prev, c)
        BY DEF ComputeHash
    <2>6. ComputeHash(bad) = Append(lines[i].prev, z)
        BY <1>3 DEF ComputeHash
    <2> HIDE DEF c, z
    <2>7. Append(lines[i].prev, c) # Append(lines[i].prev, z)
        BY <2>3, <2>4 DEF Digest
    <2> QED
        BY <1>3, <2>1, <2>2, <2>5, <2>6, <2>7 DEF HashOK
<1>8. FileSound'
    <2>1. ASSUME NEW j \in 1 .. n
          PROVE  lines'[j] # Malformed /\ lines'[j].ts <= now
        BY <1>1, <1>2, <1>3, <1>4, <2>1, MarkersAssumption DEF FileSound
    <2> QED
        BY <1>4, <1>6, <2>1 DEF FileSound
<1>9. DamageEvident'
    BY <1>4, <1>7 DEF DamageEvident, EventOK, n
<1>10. RecoveredTip' = RecoveredTip /\ RecoveredSeq' = RecoveredSeq
       /\ (lines' = << >>) = (lines = << >>)
    <2>1. lines # << >> /\ lines' # << >>
        BY <1>1, <1>4 DEF n
    <2>2. n \in 1 .. n
        BY <1>1, <2>1, LastLine DEF n
    <2>3. lines'[n].hash = lines[n].hash /\ lines'[n].seq = lines[n].seq
        BY <1>3, <1>4, <2>2
    <2> QED
        BY <1>4, <2>1, <2>3 DEF RecoveredTip, RecoveredSeq, n
<1>11. lines # << >> => lines'[Len(lines')].ts = lines[Len(lines)].ts
    <2> SUFFICES ASSUME lines # << >> PROVE lines'[n].ts = lines[n].ts
        BY <1>4 DEF n
    <2>1. n \in 1 .. n
        BY <1>1, LastLine DEF n
    <2> QED
        BY <1>3, <1>4, <2>1
<1> QED
    BY <1>8, <1>9, <1>10, <1>11

(* The file after a line with a successor was lost.                        *)
LEMMA LineLossSound ==
    ASSUME TypeOK, FileSound, damaged = {}, NEW i \in 1 .. Len(lines), i < Len(lines),
           lines' = SubSeq(lines, 1, i - 1) \o SubSeq(lines, i + 1, Len(lines)),
           damaged' = {i}, partial' = partial, now' = now
    PROVE  /\ FileSound' /\ DamageEvident'
           /\ RecoveredTip' = RecoveredTip /\ RecoveredSeq' = RecoveredSeq
           /\ (lines' = << >>) = (lines = << >>)
           /\ lines # << >> => lines'[Len(lines')].ts = lines[Len(lines)].ts
<1> DEFINE n == Len(lines)
           less == SubSeq(lines, 1, i - 1) \o SubSeq(lines, i + 1, Len(lines))
<1>1. lines \in Seq(Line) /\ n \in Nat /\ DOMAIN lines = 1 .. n /\ i \in 1 .. n - 1
    BY DEF TypeOK, Line
<1>2. \A j \in 1 .. n : lines[j] \in Event
    BY <1>1, ElementOfSeq DEF FileSound, Line
<1>3. /\ lines' \in Seq(Line) /\ Len(lines') = n - 1 /\ DOMAIN lines' = 1 .. n - 1
      /\ \A j \in 1 .. n - 1 : lines'[j] = IF j < i THEN lines[j] ELSE lines[j + 1]
    <2>1. /\ less \in Seq(Line)
          /\ Len(less) = Len(lines) - 1
          /\ \A j \in 1 .. Len(lines) - 1 : less[j] = IF j < i THEN lines[j] ELSE lines[j + 1]
        BY <1>1, LostLine
    <2>2. lines' = less
        OBVIOUS
    <2> HIDE DEF less
    <2>3. DOMAIN less = 1 .. Len(less)
        BY <2>1
    <2> QED
        BY <2>1, <2>2, <2>3
<1>4. \A j \in 1 .. n : EventOK(lines, j) /\ lines[j].id # 0
    BY <1>1 DEF FileSound
<1> HIDE DEF n, less
<1>5. ASSUME NEW j \in 1 .. n - 1, j < i
      PROVE  EventOK(lines', j) /\ lines'[j].id # 0
    <2>1. j \in Nat \ {0} /\ j \in 1 .. n /\ (j > 1 => j - 1 \in 1 .. n - 1 /\ j - 1 < i)
        BY <1>1, <1>5
    <2>2. lines'[j] = lines[j] /\ (j > 1 => lines'[j - 1] = lines[j - 1])
        BY <1>3, <1>5, <2>1
    <2> QED
        BY <1>4, <2>1, <2>2, EventOKLocal
<1>6. ~LinkOK(lines', i)
    <2>0. /\ i \in 1 .. n /\ i + 1 \in 1 .. n /\ i + 1 # 1 /\ (i + 1) - 1 = i
          /\ ~(i < i) /\ i \in 1 .. n - 1
        BY <1>1
    <2>1. /\ i \in 1 .. n /\ i + 1 \in 1 .. n /\ i + 1 # 1 /\ (i + 1) - 1 = i
          /\ lines'[i] = lines[i + 1]
        BY <1>3, <2>0
    <2>2. lines[i + 1].prev = lines[i].hash
        BY <1>4, <2>1 DEF EventOK, LinkOK
    <2>3. lines[i].hash = ComputeHash(lines[i]) /\ lines[i].prev \in Digest
        BY <1>2, <1>4, <2>1 DEF EventOK, HashOK, Event
    <2>4. lines[i].hash # lines[i].prev
        <3> DEFINE c == [seq |-> lines[i].seq, ts |-> lines[i].ts, id |-> lines[i].id]
        <3>1. c \in Contents
            BY <1>2, <2>1 DEF Event, Contents
        <3>2. lines[i].hash = Append(lines[i].prev, c)
            BY <2>3 DEF ComputeHash
        <3> HIDE DEF c
        <3> QED
            BY <2>3, <3>1, <3>2 DEF Digest
    <2>5. lines[i].prev = IF i = 1 THEN Genesis ELSE lines[i - 1].hash
        BY <1>4, <2>1 DEF EventOK, LinkOK
    <2>6. i # 1 => lines'[i - 1] = lines[i - 1]
        <3>1. i # 1 => i - 1 \in 1 .. n - 1 /\ i - 1 < i
            BY <1>1
        <3> QED
            BY <1>3, <3>1
    <2> QED
        BY <2>1, <2>2, <2>4, <2>5, <2>6 DEF LinkOK
<1>7. FileSound'
    <2>1. ASSUME NEW j \in 1 .. n - 1
          PROVE  lines'[j] # Malformed /\ lines'[j].ts <= now
        <3>1. j \in 1 .. n /\ j + 1 \in 1 .. n
            BY <1>1
        <3> QED
            BY <1>1, <1>3, <3>1 DEF FileSound
    <2> QED
        BY <1>3, <1>5, <2>1 DEF FileSound
<1>8. DamageEvident'
    BY <1>1, <1>3, <1>6 DEF DamageEvident, EventOK
<1>9. lines # << >> /\ lines' # << >> /\ lines'[n - 1] = lines[n]
    <2>1. n - 1 \in 1 .. n - 1 /\ ~(n - 1 < i) /\ (n - 1) + 1 = n
        BY <1>1
    <2>2. Len(lines) # 0 /\ Len(lines') # 0
        <3>1. n # 0 /\ n - 1 # 0
            BY <1>1
        <3>2. Len(lines') = n - 1
            BY <1>3
        <3> QED
            BY <3>1, <3>2 DEF n
    <2>3. lines'[n - 1] = lines[n]
        BY <1>3, <2>1
    <2> QED
        BY <2>2, <2>3, EmptySeq
<1> QED
    BY <1>3, <1>7, <1>8, <1>9 DEF RecoveredTip, RecoveredSeq, n

(* A step that leaves the file, the damage and the clock alone.            *)
LEMMA FileUntouched ==
    ASSUME FileSound, DamageEvident, UNCHANGED << lines, partial, damaged >>, now' >= now,
           TypeOK, now' \in Nat
    PROVE  FileSound' /\ DamageEvident'
<1>1. DamageEvident'
    BY DEF DamageEvident, EventOK, LinkOK, HashOK, SequenceOK, TimeOK, ComputeHash
<1>2. ASSUME NEW i \in DOMAIN lines
      PROVE  /\ lines[i] # Malformed
             /\ lines[i].ts <= now'
             /\ (\A d \in damaged : i < d) => EventOK(lines, i) /\ lines[i].id # 0
    <2>1. lines[i] \in Event /\ lines[i].ts <= now
        BY ElementOfSeq DEF FileSound, TypeOK
    <2>2. lines[i].ts \in Nat /\ now \in Nat
        BY <2>1 DEF Event, TypeOK
    <2> QED
        BY <2>1, <2>2 DEF FileSound
<1> QED
    BY <1>1, <1>2 DEF FileSound

(* One writing process: SoleInv is inductive.                              *)
LEMMA SoleStep ==
    ASSUME SoleWriter, TypeOK, TypeOK', SoleInv, [Next]_vars
    PROVE  SoleInv'
<1> USE ThreadsAssumption
<1>t. \A t \in Thread : ProcessOf[t] \in Process
    OBVIOUS
<1>1. ASSUME NEW p \in Process, RecoverState(p)
      PROVE  SoleInv'
    <2>1. FileSound' /\ DamageEvident'
        BY <1>1, FileUntouched DEF SoleInv, RecoverState, file, TypeOK
    <2>2. RecoveredTip' = RecoveredTip /\ RecoveredSeq' = RecoveredSeq /\ RecoveredSeq \in Nat
        BY <1>1, RecoveredType DEF RecoverState, file, RecoveredTip, RecoveredSeq
    <2>3. TipCurrent'
        BY <1>1, <2>2 DEF SoleInv, TipCurrent, RecoverState, TypeOK
    <2>4. PendingFits'
        BY <1>1, <2>2 DEF SoleInv, PendingFits, RecoverState, file, ComputeHash, TypeOK
    <2> QED
        BY <2>1, <2>3, <2>4 DEF SoleInv
<1>2. ASSUME NEW p \in Process, Exit(p)
      PROVE  SoleInv'
    <2>1. FileSound' /\ DamageEvident'
        BY <1>2, FileUntouched DEF SoleInv, Exit, file, TypeOK
    <2>2. RecoveredTip' = RecoveredTip /\ RecoveredSeq' = RecoveredSeq
        BY <1>2 DEF Exit, file, RecoveredTip, RecoveredSeq
    <2>3. TipCurrent'
        BY <1>2, <2>2 DEF SoleInv, TipCurrent, Exit
    <2>4. ASSUME NEW t \in Thread, pending'[t] # NoEvent
          PROVE  ProcessOf[t] # p /\ pending'[t] = pending[t] /\ lock'[ProcessOf[t]] = lock[ProcessOf[t]]
        BY <1>2, <2>4 DEF Exit, TypeOK
    <2>5. PendingFits'
        BY <1>2, <2>2, <2>4 DEF SoleInv, PendingFits, Exit, file, ComputeHash
    <2> QED
        BY <2>1, <2>3, <2>5 DEF SoleInv
<1>3. ASSUME NEW t \in Thread, BuildEvent(t)
      PROVE  SoleInv'
    <2> DEFINE p == ProcessOf[t]
               e == pending'[t]
    <2>1. FileSound' /\ DamageEvident'
        BY <1>3, FileUntouched DEF SoleInv, BuildEvent, file, TypeOK
    <2>2. RecoveredTip' = RecoveredTip /\ RecoveredSeq' = RecoveredSeq
        BY <1>3 DEF BuildEvent, file, RecoveredTip, RecoveredSeq
    <2>3. p \in up /\ nextSeq[p] \in Nat /\ nextSeq' = [nextSeq EXCEPT ![p] = nextSeq[p] + 1]
          /\ tip' = tip /\ up' = up /\ RecoveredSeq \in Nat
        BY <1>3, RecoveredType DEF BuildEvent, TypeOK, SoleInv, FileSound, Readable
    <2>4. TipCurrent'
        <3> SUFFICES ASSUME NEW u \in Thread, ProcessOf[u] \in up'
                     PROVE  tip'[ProcessOf[u]] = RecoveredTip' /\ RecoveredSeq' <= nextSeq'[ProcessOf[u]]
            BY DEF TipCurrent
        <3>1. ProcessOf[u] = p
            BY DEF SoleWriter
        <3>2. tip[p] = RecoveredTip /\ RecoveredSeq <= nextSeq[p]
            BY <2>3 DEF SoleInv, TipCurrent
        <3>3. nextSeq'[p] = nextSeq[p] + 1
            BY <2>3 DEF TypeOK
        <3> QED
            BY <2>2, <2>3, <3>1, <3>2, <3>3
    <2>5. \A u \in Thread : u # t => pending'[u] = NoEvent
        <3> SUFFICES ASSUME NEW u \in Thread, u # t
                     PROVE  pending'[u] = NoEvent
            OBVIOUS
        <3>1. pending'[u] = pending[u]
            BY <1>3 DEF BuildEvent, TypeOK
        <3>2. pending[u] = NoEvent
            <4>1. ProcessOf[u] = p /\ lock[p] = Free
                BY <1>3 DEF SoleWriter, BuildEvent, LockFree
            <4> QED
                BY <4>1, MarkersAssumption DEF SoleInv, PendingFits
        <3> QED
            BY <3>1, <3>2
    <2>6. /\ e.seq = nextSeq[p] /\ e.ts = now /\ e.id = nextId /\ e.prev = tip[p]
          /\ e.hash = ComputeHash(e) /\ lock'[p] = t /\ nextSeq'[p] = nextSeq[p] + 1
          /\ now' = now /\ lines' = lines
        BY <1>3 DEF BuildEvent, ComputeHash, TypeOK, file
    <2>7. tip[p] = RecoveredTip /\ RecoveredSeq <= nextSeq[p]
        BY <2>3 DEF SoleInv, TipCurrent
    <2>8. lines # << >> => lines[Len(lines)].ts <= now
        BY LastLine DEF SoleInv, FileSound, TypeOK, Line
    <2>9. e.id # 0 /\ now \in Nat
        BY <2>6 DEF TypeOK
    <2>10. /\ p \in up' /\ lock'[p] = t /\ e.prev = RecoveredTip' /\ e.hash = ComputeHash(e)
           /\ RecoveredSeq' <= e.seq /\ e.seq < nextSeq'[p] /\ e.ts <= now' /\ e.id # 0
           /\ lines' # << >> => lines'[Len(lines')].ts <= e.ts
        <3>1. e.seq < nextSeq'[p] /\ e.ts <= now'
            BY <2>3, <2>6, <2>9
        <3> QED
            BY <2>2, <2>3, <2>6, <2>7, <2>8, <2>9, <3>1
    <2>11. PendingFits'
        <3> SUFFICES ASSUME NEW u \in Thread, pending'[u] # NoEvent
                     PROVE  u = t
            BY <2>10 DEF PendingFits, ComputeHash
        <3> QED
            BY <2>5
    <2> QED
        BY <2>1, <2>4, <2>11 DEF SoleInv
<1>4. ASSUME NEW t \in Thread, AppendEvent(t)
      PROVE  SoleInv'
    <2> DEFINE p == ProcessOf[t]
               e == pending[t]
    <2>1. /\ e \in Event /\ p \in up /\ lock[p] = t /\ e.prev = RecoveredTip
          /\ e.hash = ComputeHash(e) /\ RecoveredSeq <= e.seq /\ e.seq < nextSeq[p]
          /\ e.ts <= now /\ e.id # 0
          /\ lines # << >> => lines[Len(lines)].ts <= e.ts
        BY <1>4 DEF AppendEvent, SoleInv, PendingFits, TypeOK
    <2>2. WriteLine(e) /\ now' = now /\ damaged' = damaged /\ up' = up /\ nextSeq' = nextSeq
        BY <1>4 DEF AppendEvent
    <2>3. /\ FileSound' /\ DamageEvident'
          /\ RecoveredTip' = e.hash /\ RecoveredSeq' = e.seq + 1
        BY <2>1, <2>2, AppendSound DEF SoleInv
    <2>4. tip'[p] = e.hash
        BY <1>4 DEF AppendEvent, TypeOK
    <2>5. e.seq \in Nat /\ nextSeq[p] \in Nat
        BY <2>1 DEF Event, TypeOK
    <2>6. TipCurrent'
        <3> SUFFICES ASSUME NEW u \in Thread, ProcessOf[u] \in up'
                     PROVE  tip'[ProcessOf[u]] = RecoveredTip' /\ RecoveredSeq' <= nextSeq'[ProcessOf[u]]
            BY DEF TipCurrent
        <3>1. ProcessOf[u] = p
            BY DEF SoleWriter
        <3> QED
            BY <2>1, <2>2, <2>3, <2>4, <2>5, <3>1
    <2>7. PendingFits'
        <3> SUFFICES ASSUME NEW u \in Thread
                     PROVE  pending'[u] = NoEvent
            BY DEF PendingFits
        <3>1. u # t => pending[u] = NoEvent
            BY <2>1 DEF SoleInv, PendingFits, SoleWriter
        <3> QED
            BY <1>4, <3>1 DEF AppendEvent, LeaveLogEvent, TypeOK
    <2> QED
        BY <2>3, <2>6, <2>7 DEF SoleInv
<1>5. ASSUME NEW t \in Thread, AppendFails(t)
      PROVE  SoleInv'
    <2>1. UNCHANGED << lines, partial, damaged, now, up, tip, nextSeq >>
        BY <1>5 DEF AppendFails, FailedWrite, file, SoleWriter
    <2>2. FileSound' /\ DamageEvident'
        BY <2>1, FileUntouched DEF SoleInv, TypeOK
    <2>3. RecoveredTip' = RecoveredTip /\ RecoveredSeq' = RecoveredSeq
        BY <2>1 DEF RecoveredTip, RecoveredSeq
    <2>4. TipCurrent'
        BY <2>1, <2>3 DEF SoleInv, TipCurrent
    <2>5. PendingFits'
        <3> SUFFICES ASSUME NEW u \in Thread
                     PROVE  pending'[u] = NoEvent
            BY DEF PendingFits
        <3>1. u # t => pending[u] = NoEvent
            BY <1>5 DEF SoleInv, PendingFits, SoleWriter, AppendFails
        <3> QED
            BY <1>5, <3>1 DEF AppendFails, LeaveLogEvent, TypeOK
    <2> QED
        BY <2>2, <2>4, <2>5 DEF SoleInv
<1>6. ASSUME PowerLoss
      PROVE  SoleInv'
    <2>1. partial' = FALSE /\ now' = now /\ up' = {} /\ pending' = [t \in Thread |-> NoEvent]
        BY <1>6 DEF PowerLoss, SoleWriter
    <2>2. FileSound' /\ DamageEvident'
        BY <1>6, <2>1, CutSound DEF PowerLoss, SoleInv
    <2>3. TipCurrent' /\ PendingFits'
        BY <2>1 DEF TipCurrent, PendingFits
    <2> QED
        BY <2>2, <2>3 DEF SoleInv
<1>7. ASSUME Tick
      PROVE  SoleInv'
    <2>1. /\ now' = now + 1 /\ now \in Nat /\ now' \in Nat
          /\ UNCHANGED << lines, partial, damaged, up, tip, nextSeq, lock, pending >>
        BY <1>7 DEF Tick, file, memory, SoleWriter, TypeOK
    <2>2. FileSound' /\ DamageEvident'
        BY <2>1, FileUntouched DEF SoleInv
    <2>3. TipCurrent'
        BY <2>1 DEF SoleInv, TipCurrent, RecoveredTip, RecoveredSeq
    <2>4. ASSUME NEW t \in Thread, pending[t] # NoEvent
          PROVE  pending[t].ts <= now'
        <3>1. pending[t] \in Event /\ pending[t].ts <= now
            BY <2>4 DEF TypeOK, SoleInv, PendingFits
        <3> QED
            BY <2>1, <3>1 DEF Event
    <2>5. PendingFits'
        BY <2>1, <2>4 DEF SoleInv, PendingFits, RecoveredTip, RecoveredSeq, ComputeHash
    <2> QED
        BY <2>2, <2>3, <2>5 DEF SoleInv
<1>8. ASSUME NEW i \in DOMAIN lines, DamageEvent(i)
      PROVE  SoleInv'
    <2>1. /\ damaged = {} /\ damaged' = {i} /\ partial' = partial /\ now' = now
          /\ UNCHANGED << up, tip, nextSeq, lock, pending >>
          /\ i \in 1 .. Len(lines)
        BY <1>8 DEF DamageEvent, memory, TypeOK
    <2>2. /\ FileSound' /\ DamageEvident'
          /\ RecoveredTip' = RecoveredTip /\ RecoveredSeq' = RecoveredSeq
          /\ (lines' = << >>) = (lines = << >>)
          /\ lines # << >> => lines'[Len(lines')].ts = lines[Len(lines)].ts
        <3>1. CASE lines' = [lines EXCEPT ![i] = [@ EXCEPT !.id = 0]]
            BY <2>1, <3>1, PayloadDamageSound DEF SoleInv
        <3>2. CASE /\ i < Len(lines)
                   /\ lines' = SubSeq(lines, 1, i - 1) \o SubSeq(lines, i + 1, Len(lines))
            BY <2>1, <3>2, LineLossSound DEF SoleInv
        <3> QED
            BY <1>8, <3>1, <3>2 DEF DamageEvent
    <2>3. TipCurrent'
        BY <2>1, <2>2 DEF SoleInv, TipCurrent
    <2>4. PendingFits'
        BY <2>1, <2>2 DEF SoleInv, PendingFits, ComputeHash
    <2> QED
        BY <2>2, <2>3, <2>4 DEF SoleInv
<1>9. CASE UNCHANGED vars
    <2>1. FileSound' /\ DamageEvident'
        BY <1>9, FileUntouched DEF vars, SoleInv, TypeOK
    <2>2. TipCurrent' /\ PendingFits'
        BY <1>9 DEF vars, SoleInv, TipCurrent, PendingFits, RecoveredTip, RecoveredSeq, ComputeHash
    <2> QED
        BY <2>1, <2>2 DEF SoleInv
<1> QED
    BY <1>1, <1>2, <1>3, <1>4, <1>5, <1>6, <1>7, <1>8, <1>9 DEF Next

(* With one writing process the inductive invariant always holds.          *)
THEOREM SoleInvariant ==
    ASSUME SoleWriter
    PROVE  Spec => []SoleInv
<1>1. Init => SoleInv
    BY DEF Init, SoleInv, FileSound, TipCurrent, PendingFits, DamageEvident
<1>2. TypeOK /\ TypeOK' /\ SoleInv /\ [Next]_vars => SoleInv'
    BY SoleStep
<1> QED
    BY <1>1, <1>2, TypeCorrect, PTL DEF Spec

(* One writing process: whatever its threads, failed appends, restarts and *)
(* power losses do, an undamaged ledger reads and verifies.                *)
THEOREM SoleChainIntact ==
    ASSUME SoleWriter
    PROVE  Spec => []ChainIntact
<1>1. TypeOK /\ SoleInv => ChainIntact
    BY DEF SoleInv, FileSound, ChainIntact, Readable, ChainValid, FailedIndices
<1> QED
    BY <1>1, SoleInvariant, TypeCorrect, PTL

(* One writing process: damage to the file is reported where it is.        *)
THEOREM SoleDamageLocated ==
    ASSUME SoleWriter
    PROVE  Spec => []DamageLocated
<1>1. TypeOK /\ SoleInv => DamageLocated
    <2> SUFFICES ASSUME TypeOK, SoleInv, NEW i \in damaged
                 PROVE  ~ChainValid(lines) /\ FailedIndex(lines) = i
        BY DEF DamageLocated
    <2>1. i \in FailedIndices(lines) /\ DOMAIN lines = 1 .. Len(lines) /\ Len(lines) \in Nat
        BY DEF SoleInv, DamageEvident, FailedIndices, TypeOK
    <2>2. ASSUME NEW j \in FailedIndices(lines)
          PROVE  i <= j /\ j \in Nat
        <3>1. j \in DOMAIN lines /\ ~EventOK(lines, j) /\ i \in DOMAIN lines
            BY <2>1 DEF FailedIndices
        <3>2. ~(\A d \in damaged : j < d)
            BY <3>1 DEF SoleInv, FileSound
        <3>3. ~(j < i)
            BY <3>2 DEF SoleInv, DamageEvident
        <3> QED
            BY <2>1, <3>1, <3>3
    <2>3. ASSUME NEW k \in FailedIndices(lines), \A j \in FailedIndices(lines) : k <= j
          PROVE  k = i
        BY <2>1, <2>2, <2>3
    <2> QED
        BY <2>1, <2>2, <2>3 DEF ChainValid, FailedIndex
<1> QED
    BY <1>1, SoleInvariant, TypeCorrect, PTL

-----------------------------------------------------------------------------
(* Any number of writing processes.                                        *)

(* Line i reads, and so does every line before it, as it was written.      *)
GoodUpTo(i) == \A j \in 1 .. i : lines[j] # Malformed /\ j \notin damaged

Sound == Readable /\ damaged = {}

(* A digest that an event of the file bears, or the genesis.               *)
Known(evs, digest) == digest = Genesis \/ \E j \in DOMAIN evs : evs[j].hash = digest

(* What processes build on is in the file, unless the file stopped to read *)
(* (then it does not read again before all have started anew); and every   *)
(* readable beginning of the file is linked.                               *)
LinkInv ==
    /\ damaged \subseteq DOMAIN lines
    /\ \A i \in DOMAIN lines : GoodUpTo(i) =>
         \/ lines[i].prev = Genesis
         \/ \E j \in 1 .. i - 1 : lines[j].hash = lines[i].prev
    /\ \A p \in up : Sound => Known(lines, tip[p])
    /\ \A t \in Thread : pending[t] # NoEvent =>
         ProcessOf[t] \in up /\ (Sound => Known(lines, pending[t].prev))

LEMMA LineTypes ==
    ASSUME TypeOK
    PROVE  /\ lines \in Seq(Line) /\ Len(lines) \in Nat /\ DOMAIN lines = 1 .. Len(lines)
           /\ \A i \in DOMAIN lines : lines[i] # Malformed => lines[i] \in Event
<1>1. lines \in Seq(Line) /\ Len(lines) \in Nat /\ DOMAIN lines = 1 .. Len(lines)
    BY DEF TypeOK, Line
<1>2. \A i \in DOMAIN lines : lines[i] \in Line
    BY <1>1, ElementOfSeq
<1> QED
    BY <1>1, <1>2 DEF Line

(* A line is written that continues what its process knows.                *)
LEMMA WriteLinked ==
    ASSUME TypeOK, LinkInv, NEW e \in Event, Sound => Known(lines, e.prev),
           WriteLine(e), UNCHANGED damaged
    PROVE  /\ damaged' \subseteq DOMAIN lines'
           /\ \A i \in DOMAIN lines' : GoodUpTo(i)' =>
                \/ lines'[i].prev = Genesis
                \/ \E j \in 1 .. i - 1 : lines'[j].hash = lines'[i].prev
           /\ Sound' => Sound
           /\ Sound' => Known(lines', e.hash)
           /\ \A d \in Digest : Known(lines, d) => Known(lines', d)
<1> DEFINE n == Len(lines)
           l == IF partial THEN Malformed ELSE e
<1>1. n \in Nat /\ lines \in Seq(Line) /\ DOMAIN lines = 1 .. n
    BY LineTypes
<1>2. l \in Line /\ lines' = Append(lines, l) /\ partial' = FALSE
    BY DEF Line, WriteLine
<1> HIDE DEF l
<1>3. /\ DOMAIN lines' = 1 .. n + 1 /\ lines'[n + 1] = l
      /\ \A i \in 1 .. n : lines'[i] = lines[i]
    BY <1>1, <1>2
<1> HIDE DEF n
<1>4. e # Malformed
    BY MarkersAssumption
<1>5. l # Malformed => ~partial /\ l = e
    BY DEF l
<1>6. Sound' => Sound /\ l = e
    BY <1>1, <1>3, <1>5 DEF Sound, Readable
<1>7. \A d \in Digest : Known(lines, d) => Known(lines', d)
    BY <1>1, <1>3 DEF Known
<1>8. ASSUME NEW i \in 1 .. n + 1, GoodUpTo(i)'
      PROVE  \/ lines'[i].prev = Genesis
             \/ \E j \in 1 .. i - 1 : lines'[j].hash = lines'[i].prev
    <2>1. CASE i # n + 1
        <3>1. i \in 1 .. n /\ 1 .. i \subseteq 1 .. n /\ 1 .. i - 1 \subseteq 1 .. n
            BY <1>1, <2>1
        <3>2. GoodUpTo(i)
            BY <1>3, <1>8, <3>1 DEF GoodUpTo
        <3> QED
            BY <1>1, <1>3, <3>1, <3>2 DEF LinkInv
    <2>2. CASE i = n + 1
        <3>1. \A j \in 1 .. n + 1 : lines'[j] # Malformed /\ j \notin damaged
            BY <1>8, <2>2 DEF GoodUpTo
        <3>2. n + 1 \in 1 .. n + 1 /\ 1 .. n \subseteq 1 .. n + 1 /\ (n + 1) - 1 = n
            BY <1>1
        <3>3. Readable /\ l = e
            BY <1>1, <1>3, <1>5, <3>1, <3>2 DEF Readable
        <3>4. damaged = {}
            BY <1>1, <3>1, <3>2 DEF LinkInv
        <3>5. Known(lines, e.prev)
            BY <3>3, <3>4 DEF Sound
        <3> QED
            BY <1>1, <1>3, <2>2, <3>2, <3>3, <3>5 DEF Known
    <2> QED
        BY <2>1, <2>2
<1>9. Sound' => Known(lines', e.hash)
    BY <1>1, <1>3, <1>6 DEF Known
<1>10. damaged' \subseteq DOMAIN lines'
    BY <1>1, <1>3 DEF LinkInv
<1> QED
    BY <1>3, <1>6, <1>7, <1>8, <1>9, <1>10

(* A beginning of the file that stays is linked as before.                 *)
LEMMA BeginningLinked ==
    ASSUME TypeOK, LinkInv, NEW n \in 0 .. Len(lines),
           \A i \in 1 .. n : lines'[i] = lines[i],
           \A i \in DOMAIN lines' : GoodUpTo(i)' => i <= n /\ i \in Nat \ {0},
           \A i \in 1 .. n : i \in damaged => i \in damaged'
    PROVE  \A i \in DOMAIN lines' : GoodUpTo(i)' =>
             \/ lines'[i].prev = Genesis
             \/ \E j \in 1 .. i - 1 : lines'[j].hash = lines'[i].prev
<1> SUFFICES ASSUME NEW i \in DOMAIN lines', GoodUpTo(i)'
             PROVE  \/ lines'[i].prev = Genesis
                    \/ \E j \in 1 .. i - 1 : lines'[j].hash = lines'[i].prev
    OBVIOUS
<1>1. Len(lines) \in Nat /\ DOMAIN lines = 1 .. Len(lines)
    BY LineTypes
<1>2. i \in 1 .. n /\ 1 .. i \subseteq 1 .. n /\ 1 .. i - 1 \subseteq 1 .. n /\ i \in DOMAIN lines
    BY <1>1
<1>3. GoodUpTo(i)
    BY <1>2 DEF GoodUpTo
<1> QED
    BY <1>2, <1>3 DEF LinkInv

(* Every step keeps lines and pending events linked to what precedes them. *)
LEMMA LinkStep ==
    ASSUME TypeOK, LinkInv, [Next]_vars
    PROVE  LinkInv'
<1> USE ThreadsAssumption
<1>t. /\ Len(lines) \in Nat /\ DOMAIN lines = 1 .. Len(lines)
      /\ damaged \subseteq DOMAIN lines
    BY LineTypes DEF LinkInv
<1>1. ASSUME UNCHANGED << lines, damaged >>, Sound' => Sound,
             \A p \in up' : Sound => Known(lines, tip'[p]),
             \A t \in Thread : pending'[t] # NoEvent =>
                 ProcessOf[t] \in up' /\ (Sound => Known(lines, pending'[t].prev))
      PROVE  LinkInv'
    <2>1. \A i : GoodUpTo(i)' => GoodUpTo(i)
        BY <1>1 DEF GoodUpTo
    <2>2. \A d : Known(lines', d) <=> Known(lines, d)
        BY <1>1 DEF Known
    <2> QED
        BY <1>1, <2>1, <2>2 DEF LinkInv, Known
<1>2. ASSUME NEW p \in Process, RecoverState(p)
      PROVE  LinkInv'
    <2>1. Sound => Known(lines, RecoveredTip)
        BY LineTypes, LastLine DEF RecoveredTip, Known
    <2>2. \A q \in up' : Sound => Known(lines, tip'[q])
        BY <1>2, <2>1 DEF RecoverState, LinkInv, TypeOK
    <2> QED
        BY <1>1, <1>2, <2>2 DEF RecoverState, LinkInv, file, Sound, Readable
<1>3. ASSUME NEW p \in Process, Exit(p)
      PROVE  LinkInv'
    BY <1>1, <1>3 DEF Exit, LinkInv, file, Sound, Readable
<1>4. ASSUME NEW t \in Thread, BuildEvent(t)
      PROVE  LinkInv'
    <2> DEFINE p == ProcessOf[t]
    <2>1. p \in up /\ pending' = [pending EXCEPT ![t] =
              [seq |-> nextSeq[p], ts |-> now, id |-> nextId, prev |-> tip[p],
               hash |-> Append(tip[p], [seq |-> nextSeq[p], ts |-> now, id |-> nextId])]]
        BY <1>4 DEF BuildEvent
    <2>2. pending'[t].prev = tip[p] /\ \A u \in Thread \ {t} : pending'[u] = pending[u]
        BY <2>1 DEF TypeOK
    <2>3. UNCHANGED << lines, partial, damaged, up, tip >>
        BY <1>4 DEF BuildEvent, file
    <2> QED
        BY <1>1, <2>1, <2>2, <2>3 DEF LinkInv, Sound, Readable
<1>5. ASSUME NEW t \in Thread, NEW e \in Event, pending[t] = e, WriteLine(e),
             LeaveLogEvent(t), UNCHANGED << up, damaged >>,
             tip' = tip \/ tip' = [tip EXCEPT ![ProcessOf[t]] = e.hash]
      PROVE  LinkInv'
    <2>1. Sound => Known(lines, e.prev)
        BY <1>5, MarkersAssumption DEF LinkInv
    <2>2. /\ damaged' \subseteq DOMAIN lines'
          /\ \A i \in DOMAIN lines' : GoodUpTo(i)' =>
               \/ lines'[i].prev = Genesis
               \/ \E j \in 1 .. i - 1 : lines'[j].hash = lines'[i].prev
          /\ Sound' => Sound
          /\ Sound' => Known(lines', e.hash)
          /\ \A d \in Digest : Known(lines, d) => Known(lines', d)
        BY <1>5, <2>1, WriteLinked
    <2>3. ASSUME NEW p \in up', Sound'
          PROVE  Known(lines', tip'[p])
        <3>1. p \in up /\ Known(lines, tip[p]) /\ tip[p] \in Digest /\ e.hash \in Digest
            BY <1>5, <2>2, <2>3 DEF LinkInv, TypeOK, Event
        <3>2. tip'[p] = tip[p] \/ tip'[p] = e.hash
            BY <1>5, <3>1 DEF TypeOK
        <3>3. \A d : d = tip[p] \/ d = e.hash => Known(lines', d)
            BY <2>2, <2>3, <3>1 DEF Known
        <3> QED
            BY <3>2, <3>3 DEF Known
    <2>4. ASSUME NEW u \in Thread, pending'[u] # NoEvent
          PROVE  ProcessOf[u] \in up' /\ (Sound' => Known(lines', pending'[u].prev))
        <3>1. pending'[u] = pending[u]
            BY <1>5, <2>4 DEF LeaveLogEvent, TypeOK
        <3>2. pending[u] \in Event /\ pending[u].prev \in Digest
            BY <2>4, <3>1 DEF TypeOK, Event
        <3>3. \A d : d = pending[u].prev /\ Known(lines, d) => Known(lines', d)
            BY <2>2, <3>2
        <3> QED
            BY <1>5, <2>2, <2>4, <3>1, <3>3 DEF LinkInv, Known
    <2> QED
        BY <2>2, <2>3, <2>4 DEF LinkInv, Known
<1>6. ASSUME NEW t \in Thread, AppendEvent(t)
      PROVE  LinkInv'
    <2>1. pending[t] \in Event
        BY <1>6 DEF AppendEvent, TypeOK
    <2> QED
        BY <1>5, <1>6, <2>1 DEF AppendEvent
<1>7. ASSUME NEW t \in Thread, AppendFails(t)
      PROVE  LinkInv'
    <2>1. pending[t] \in Event
        BY <1>7 DEF AppendFails, TypeOK
    <2>2. CASE WriteLine(pending[t])
        BY <1>5, <1>7, <2>1, <2>2 DEF AppendFails
    <2>3. CASE UNCHANGED lines /\ (partial' = TRUE \/ partial' = partial)
        <3>1. \A u \in Thread : pending'[u] # NoEvent => pending'[u] = pending[u]
            BY <1>7 DEF AppendFails, LeaveLogEvent, TypeOK
        <3>2. Sound' => Sound
            BY <1>7, <2>3 DEF Sound, Readable, AppendFails
        <3> QED
            BY <1>1, <1>7, <2>3, <3>1, <3>2 DEF AppendFails, LinkInv
    <2> QED
        BY <1>7, <2>2, <2>3 DEF AppendFails, FailedWrite, file
<1>8. CASE PowerLoss
    <2>1. PICK n \in 0 .. Len(lines) :
            lines' = SubSeq(lines, 1, n) /\ damaged' = { i \in damaged : i <= n }
        BY <1>8 DEF PowerLoss
    <2>2. DOMAIN lines' = 1 .. n /\ \A i \in 1 .. n : lines'[i] = lines[i]
        <3>1. lines' \in Seq(Line) /\ Len(lines') = n /\ \A i \in 1 .. n : lines'[i] = lines[i]
            BY <2>1, CutFile, LineTypes
        <3> QED
            BY <3>1
    <2>3. \A i \in DOMAIN lines' : GoodUpTo(i)' =>
             \/ lines'[i].prev = Genesis
             \/ \E j \in 1 .. i - 1 : lines'[j].hash = lines'[i].prev
        BY <1>t, <2>1, <2>2, BeginningLinked
    <2>4. damaged' \subseteq DOMAIN lines'
        BY <1>t, <2>1, <2>2
    <2> QED
        BY <1>8, <2>3, <2>4 DEF LinkInv, PowerLoss
<1>9. CASE Tick \/ UNCHANGED vars
    BY <1>1, <1>9 DEF Tick, vars, file, memory, LinkInv, Sound, Readable
<1>10. ASSUME NEW i \in DOMAIN lines, DamageEvent(i)
       PROVE  LinkInv'
    <2>1. damaged' = {i} /\ UNCHANGED << up, tip, pending >>
        BY <1>10 DEF DamageEvent, memory
    <2>2. /\ i \in DOMAIN lines' /\ DOMAIN lines' \subseteq Nat \ {0}
          /\ \A k \in 1 .. i - 1 : lines'[k] = lines[k]
        <3>1. CASE lines' = [lines EXCEPT ![i] = [@ EXCEPT !.id = 0]]
            BY <1>t, <3>1
        <3>2. CASE /\ i < Len(lines)
                   /\ lines' = SubSeq(lines, 1, i - 1) \o SubSeq(lines, i + 1, Len(lines))
            <4>1. /\ lines' \in Seq(Line) /\ Len(lines') = Len(lines) - 1
                  /\ \A k \in 1 .. Len(lines) - 1 :
                       lines'[k] = IF k < i THEN lines[k] ELSE lines[k + 1]
                <5> DEFINE less == SubSeq(lines, 1, i - 1) \o SubSeq(lines, i + 1, Len(lines))
                <5>1. lines \in Seq(Line) /\ i \in 1 .. Len(lines) /\ i < Len(lines)
                    BY <3>2, LineTypes
                <5>2. /\ less \in Seq(Line) /\ Len(less) = Len(lines) - 1
                      /\ \A k \in 1 .. Len(lines) - 1 :
                           less[k] = IF k < i THEN lines[k] ELSE lines[k + 1]
                    BY <5>1, LostLine
                <5>3. lines' = less
                    BY <3>2
                <5> HIDE DEF less
                <5> QED
                    BY <5>2, <5>3
            <4>2. DOMAIN lines' = 1 .. Len(lines) - 1
                BY <4>1
            <4> QED
                BY <1>t, <3>2, <4>1, <4>2
        <3> QED
            BY <1>10, <3>1, <3>2 DEF DamageEvent
    <2>3. ASSUME NEW k \in DOMAIN lines', GoodUpTo(k)'
          PROVE  k <= i - 1 /\ k \in Nat \ {0}
        BY <1>t, <2>1, <2>2, <2>3 DEF GoodUpTo
    <2>4. \A k \in 1 .. i - 1 : k \notin damaged
        BY <1>10 DEF DamageEvent
    <2>5. \A k \in DOMAIN lines' : GoodUpTo(k)' =>
             \/ lines'[k].prev = Genesis
             \/ \E j \in 1 .. k - 1 : lines'[j].hash = lines'[k].prev
        <3>1. i - 1 \in 0 .. Len(lines)
            BY <1>t
        <3> QED
            BY <2>2, <2>3, <2>4, <3>1, BeginningLinked
    <2>6. ~Sound'
        BY <2>1 DEF Sound
    <2> QED
        BY <2>1, <2>2, <2>5, <2>6 DEF LinkInv
<1> QED
    BY <1>2, <1>3, <1>4, <1>6, <1>7, <1>8, <1>9, <1>10 DEF Next

(* Any number of processes, whatever fails: in a readable file every event *)
(* continues the genesis or an event before it; a shared ledger may fork,  *)
(* its events never hang in the air.                                       *)
THEOREM LinksNeverDangle == Spec => []NoDanglingLink
<1>1. Init => LinkInv
    BY DEF Init, LinkInv
<1>2. TypeOK /\ LinkInv => NoDanglingLink
    <2> SUFFICES ASSUME TypeOK, LinkInv, Readable, damaged = {}, NEW i \in DOMAIN lines
                 PROVE  \/ lines[i].prev = Genesis
                        \/ \E j \in 1 .. i - 1 : lines[j].hash = lines[i].prev
        BY DEF NoDanglingLink
    <2>1. GoodUpTo(i)
        BY LineTypes DEF GoodUpTo, Readable
    <2> QED
        BY <2>1 DEF LinkInv
<1> QED
    BY <1>1, <1>2, LinkStep, TypeCorrect, PTL DEF Spec
(* A file that reads has always read, unless the power failed: every line  *)
(* that is written behind unfinished text stays unreadable.                *)
LEMMA ReadableBefore ==
    ASSUME TypeOK, NEW e \in Event, WriteLine(e), Readable'
    PROVE  /\ Readable
           /\ \A i \in DOMAIN lines : i \in DOMAIN lines' /\ lines'[i] = lines[i]
           /\ \E i \in DOMAIN lines' : lines'[i] = e
<1> DEFINE n == Len(lines)
           l == IF partial THEN Malformed ELSE e
<1>1. n \in Nat /\ lines \in Seq(Line) /\ DOMAIN lines = 1 .. n
    BY LineTypes
<1>2. l \in Line /\ lines' = Append(lines, l)
    BY DEF Line, WriteLine
<1> HIDE DEF l
<1>3. /\ DOMAIN lines' = 1 .. n + 1 /\ lines'[n + 1] = l
      /\ \A i \in 1 .. n : lines'[i] = lines[i]
    BY <1>1, <1>2
<1> HIDE DEF n
<1>4. l # Malformed
    BY <1>1, <1>3 DEF Readable
<1>5. ~partial /\ l = e
    BY <1>4 DEF l
<1> QED
    BY <1>1, <1>3, <1>5 DEF Readable

(* No step but a power failure loses an acknowledged event unseen.         *)
LEMMA LossStep ==
    ASSUME TypeOK, LossIsVisible, [Next]_vars
    PROVE  LossIsVisible'
<1> USE ThreadsAssumption
<1>1. CASE UNCHANGED << lines, partial, outage, damaged, acked >>
    BY <1>1 DEF LossIsVisible, Readable
<1>2. ASSUME NEW t \in Thread, NEW e \in Event, WriteLine(e), UNCHANGED << outage, damaged >>,
             acked' \subseteq acked \cup {e.id}
      PROVE  LossIsVisible'
    <2> SUFFICES ASSUME Readable', ~outage, damaged = {}, NEW id \in acked'
                 PROVE  \E i \in DOMAIN lines' : lines'[i].id = id
        BY <1>2 DEF LossIsVisible
    <2> QED
        BY <1>2, ReadableBefore DEF LossIsVisible
<1>3. ASSUME NEW t \in Thread, AppendEvent(t)
      PROVE  LossIsVisible'
    BY <1>2, <1>3 DEF AppendEvent, TypeOK
<1>4. ASSUME NEW t \in Thread, AppendFails(t)
      PROVE  LossIsVisible'
    <2>1. pending[t] \in Event /\ UNCHANGED << acked, outage, damaged >>
        BY <1>4 DEF AppendFails, TypeOK
    <2>2. CASE WriteLine(pending[t])
        BY <1>2, <2>1, <2>2
    <2>3. CASE partial' = TRUE \/ UNCHANGED file
        BY <1>1, <2>1, <2>3 DEF file, LossIsVisible, Readable
    <2> QED
        BY <1>4, <2>2, <2>3 DEF AppendFails, FailedWrite
<1>5. CASE PowerLoss \/ \E i \in DOMAIN lines : DamageEvent(i)
    BY <1>5 DEF PowerLoss, DamageEvent, LossIsVisible
<1> QED
    BY <1>1, <1>3, <1>4, <1>5
       DEF Next, RecoverState, Exit, BuildEvent, Tick, vars, file, memory

(* Any number of processes: an event whose log_event returned is in the    *)
(* file, or the file does not read, unless the power failed.               *)
THEOREM LossAlwaysVisible == Spec => []LossIsVisible
<1>1. Init => LossIsVisible
    BY DEF Init, LossIsVisible
<1>2. TypeOK /\ LossIsVisible /\ [Next]_vars => LossIsVisible'
    BY LossStep
<1> QED
    BY <1>1, <1>2, TypeCorrect, PTL DEF Spec

-----------------------------------------------------------------------------
(* One writing process implements AuditLedger.                             *)

(* One history is the beginning of another.                                *)
Begins(s, h) == Len(s) <= Len(h) /\ \A k \in 1 .. Len(s) : s[k] = h[k]

(* The lines commit to ever longer beginnings of one history, none of      *)
(* whose numbers is beyond that of the line.                               *)
HistoryInv ==
    /\ \A i, j \in DOMAIN lines : j <= i => Begins(lines[j].hash, lines[i].hash)
    /\ \A i \in DOMAIN lines : \A k \in DOMAIN lines[i].hash : lines[i].hash[k].seq <= lines[i].seq

LEMMA BeginsTrans ==
    ASSUME NEW a \in Digest, NEW b \in Digest, NEW c \in Digest, Begins(a, b), Begins(b, c)
    PROVE  Begins(a, c)
BY DEF Begins, Digest

LEMMA BeginsAppend ==
    ASSUME NEW a \in Digest, NEW b \in Digest, NEW c \in Contents, Begins(a, b)
    PROVE  Begins(a, Append(b, c)) /\ Begins(a, a)
BY DEF Begins, Digest

(* A beginning is cut off the history.                                     *)
LEMMA BeginsIsCut ==
    ASSUME NEW a \in Digest, NEW b \in Digest, Begins(a, b)
    PROVE  Len(a) \in 0 .. Len(b) /\ a = SubSeq(b, 1, Len(a))
<1>1. /\ a \in Seq(Contents) /\ b \in Seq(Contents)
      /\ Len(a) \in Nat /\ Len(b) \in Nat /\ Len(a) <= Len(b)
    BY DEF Digest, Begins
<1>2. \A k \in 1 .. Len(a) : b[k] \in Contents
    BY <1>1, ElementOfSeq
<1>3. /\ SubSeq(b, 1, Len(a)) \in Seq(Contents) /\ Len(SubSeq(b, 1, Len(a))) = Len(a)
      /\ \A k \in 1 .. Len(a) : SubSeq(b, 1, Len(a))[k] = b[k]
    BY <1>1, <1>2, SubSeqProperties
<1> QED
    BY <1>1, <1>3, SeqEqual DEF Begins

(* Lines that are a selection of the old ones, in order, with their        *)
(* digests and numbers.                                                    *)
LEMMA SelectionKeeps ==
    ASSUME HistoryInv, NEW at \in [DOMAIN lines' -> DOMAIN lines],
           \A i \in DOMAIN lines' :
               lines'[i].hash = lines[at[i]].hash /\ lines'[i].seq = lines[at[i]].seq,
           \A i, j \in DOMAIN lines' : j <= i => at[j] <= at[i]
    PROVE  HistoryInv'
BY DEF HistoryInv

LEMMA SoundLines ==
    ASSUME TypeOK, SoleInv
    PROVE  /\ lines \in Seq(Line) /\ Len(lines) \in Nat /\ DOMAIN lines = 1 .. Len(lines)
           /\ \A i \in DOMAIN lines : lines[i] \in Event /\ lines[i].hash \in Digest
                                                     /\ lines[i].seq \in Nat
BY LineTypes DEF SoleInv, FileSound, Event

(* The number of the next line is beyond all that were committed to.       *)
LEMMA TipNumbers ==
    ASSUME TypeOK, SoleInv, HistoryInv
    PROVE  /\ RecoveredTip \in Digest /\ RecoveredSeq \in Nat
           /\ \A k \in DOMAIN RecoveredTip : RecoveredTip[k].seq < RecoveredSeq
           /\ \A j \in DOMAIN lines : Begins(lines[j].hash, RecoveredTip)
<1>1. CASE lines = << >>
    BY <1>1, SoundLines, EmptySeq DEF RecoveredTip, RecoveredSeq, Genesis, Digest
<1>2. CASE lines # << >>
    <2> DEFINE n == Len(lines)
    <2>1. /\ n \in DOMAIN lines /\ n \in Nat /\ \A j \in DOMAIN lines : j <= n
          /\ lines[n].hash \in Seq(Contents) /\ lines[n].seq \in Nat
        BY <1>2, SoundLines, LastLine DEF Digest
    <2>2. RecoveredTip = lines[n].hash /\ RecoveredSeq = lines[n].seq + 1
        BY <1>2 DEF RecoveredTip, RecoveredSeq
    <2> HIDE DEF n
    <2>3. ASSUME NEW k \in DOMAIN lines[n].hash
          PROVE  lines[n].hash[k].seq < lines[n].seq + 1
        <3>1. lines[n].hash[k] \in Contents
            BY <2>1, ElementOfSeq
        <3> QED
            BY <2>1, <3>1 DEF HistoryInv, Contents
    <2> QED
        BY <2>1, <2>2, <2>3 DEF HistoryInv, Digest
<1> QED
    BY <1>1, <1>2

(* What log_event appends when one process writes.                         *)
LEMMA AppendGrows ==
    ASSUME SoleWriter, TypeOK, SoleInv, HistoryInv, NEW t \in Thread, AppendEvent(t)
    PROVE  /\ lines' = Append(lines, pending[t]) /\ pending[t] \in Event
           /\ RecoveredTip' = pending[t].hash
           /\ \E c \in Contents : /\ c.seq = pending[t].seq /\ RecoveredSeq <= c.seq
                                  /\ pending[t].hash = Append(RecoveredTip, c)
<1> DEFINE e == pending[t]
<1>1. e \in Event /\ e # NoEvent /\ ~partial /\ WriteLine(e)
    BY DEF AppendEvent, TypeOK, SoleInv, FileSound
<1>2. e.prev = RecoveredTip /\ e.hash = ComputeHash(e) /\ RecoveredSeq <= e.seq
    BY <1>1 DEF SoleInv, PendingFits
<1>3. [seq |-> e.seq, ts |-> e.ts, id |-> e.id] \in Contents
    BY <1>1 DEF Event, Contents
<1>4. lines' = Append(lines, e)
    BY <1>1 DEF WriteLine
<1>5. RecoveredTip' = e.hash
    <2>1. lines \in Seq(Line) /\ e \in Line
        BY <1>1, SoundLines DEF Line
    <2>2. lines' # << >> /\ lines'[Len(lines')] = e
        BY <1>4, <2>1
    <2> QED
        BY <2>2 DEF RecoveredTip
<1> QED
    BY <1>1, <1>2, <1>3, <1>4, <1>5 DEF ComputeHash

(* A step appends to the history, cuts its end, or leaves it.              *)
LEMMA HistoryStep ==
    ASSUME SoleWriter, TypeOK, SoleInv, HistoryInv, [Next]_vars
    PROVE  HistoryInv'
<1>1. CASE UNCHANGED lines
    BY <1>1 DEF HistoryInv
<1>2. ASSUME NEW t \in Thread, AppendEvent(t)
      PROVE  HistoryInv'
    <2> DEFINE n == Len(lines)
               e == pending[t]
    <2>1. PICK c \in Contents : /\ c.seq = e.seq /\ RecoveredSeq <= c.seq
                                /\ e.hash = Append(RecoveredTip, c)
        BY <1>2, AppendGrows
    <2>2. /\ n \in Nat /\ DOMAIN lines = 1 .. n /\ DOMAIN lines' = 1 .. n + 1
          /\ lines'[n + 1] = e /\ \A i \in 1 .. n : lines'[i] = lines[i]
        <3>1. lines' = Append(lines, e) /\ lines \in Seq(Line) /\ e \in Line
            BY <1>2, AppendGrows, SoundLines DEF Line
        <3> QED
            BY <3>1
    <2> HIDE DEF n, e
    <2>3. /\ RecoveredTip \in Seq(Contents) /\ RecoveredSeq \in Nat /\ c.seq \in Nat
          /\ \A k \in DOMAIN RecoveredTip : RecoveredTip[k].seq < RecoveredSeq
          /\ \A j \in 1 .. n : Begins(lines[j].hash, RecoveredTip) /\ lines[j].hash \in Digest
        BY <2>2, TipNumbers, SoundLines DEF Digest, Contents
    <2>4. /\ Begins(e.hash, e.hash)
          /\ \A j \in 1 .. n : Begins(lines[j].hash, e.hash)
        <3>1. \A j \in 1 .. n : Begins(lines[j].hash, Append(RecoveredTip, c))
            BY <2>3, BeginsAppend DEF Digest
        <3>2. Append(RecoveredTip, c) \in Seq(Contents)
            BY <2>3
        <3> QED
            BY <2>1, <3>1, <3>2 DEF Begins
    <2>5. ASSUME NEW k \in DOMAIN e.hash
          PROVE  e.hash[k].seq <= e.seq
        <3>1. k \in 1 .. Len(RecoveredTip) + 1 /\ Len(RecoveredTip) \in Nat
            BY <2>1, <2>3, <2>5
        <3>2. CASE k = Len(RecoveredTip) + 1
            <4>1. e.hash[k] = c
                BY <2>1, <2>3, <3>2
            <4> QED
                BY <2>1, <2>3, <4>1
        <3>3. CASE k \in 1 .. Len(RecoveredTip)
            <4>1. e.hash[k] = RecoveredTip[k] /\ k \in DOMAIN RecoveredTip
                BY <2>1, <2>3, <3>3
            <4>2. RecoveredTip[k] \in Contents
                BY <2>3, <3>3, ElementOfSeq
            <4> QED
                BY <2>1, <2>3, <4>1, <4>2 DEF Contents
        <3> QED
            BY <3>1, <3>2, <3>3
    <2>6. \A i, j \in DOMAIN lines' : j <= i => Begins(lines'[j].hash, lines'[i].hash)
        <3> SUFFICES ASSUME NEW i \in 1 .. n + 1, NEW j \in 1 .. n + 1, j <= i
                     PROVE  Begins(lines'[j].hash, lines'[i].hash)
            BY <2>2
        <3>1. CASE i = n + 1
            BY <2>2, <2>4, <3>1
        <3>2. CASE i # n + 1
            <4>1. i \in 1 .. n /\ j \in 1 .. n
                BY <2>2, <3>2
            <4> QED
                BY <2>2, <4>1 DEF HistoryInv
        <3> QED
            BY <3>1, <3>2
    <2>7. \A i \in DOMAIN lines' : \A k \in DOMAIN lines'[i].hash : lines'[i].hash[k].seq <= lines'[i].seq
        BY <2>2, <2>5 DEF HistoryInv
    <2> QED
        BY <2>6, <2>7 DEF HistoryInv
<1>3. CASE PowerLoss
    <2>1. PICK n \in 0 .. Len(lines) : lines' = SubSeq(lines, 1, n)
        BY <1>3 DEF PowerLoss
    <2>2. /\ DOMAIN lines' = 1 .. n /\ \A i \in 1 .. n : lines'[i] = lines[i]
          /\ 1 .. n \subseteq DOMAIN lines
        <3>1. lines' \in Seq(Line) /\ Len(lines') = n /\ \A i \in 1 .. n : lines'[i] = lines[i]
            BY <2>1, CutFile, SoundLines
        <3> QED
            BY <3>1, SoundLines
    <2> DEFINE at == [i \in DOMAIN lines' |-> i]
    <2>3. at \in [DOMAIN lines' -> DOMAIN lines]
        BY <2>2
    <2> QED
        BY <2>2, <2>3, SelectionKeeps
<1>4. ASSUME NEW i \in DOMAIN lines, DamageEvent(i)
      PROVE  HistoryInv'
    <2>1. CASE lines' = [lines EXCEPT ![i] = [@ EXCEPT !.id = 0]]
        <3> DEFINE at == [k \in DOMAIN lines' |-> k]
        <3>1. /\ DOMAIN lines' = DOMAIN lines /\ lines'[i] = [lines[i] EXCEPT !.id = 0]
              /\ \A k \in DOMAIN lines \ {i} : lines'[k] = lines[k]
            BY <2>1, SoundLines
        <3>2. lines'[i].hash = lines[i].hash /\ lines'[i].seq = lines[i].seq
            BY <3>1, SoundLines, DamagedEventType
        <3>3. at \in [DOMAIN lines' -> DOMAIN lines]
            BY <3>1
        <3> QED
            BY <3>1, <3>2, <3>3, SelectionKeeps
    <2>2. CASE /\ i < Len(lines)
               /\ lines' = SubSeq(lines, 1, i - 1) \o SubSeq(lines, i + 1, Len(lines))
        <3> DEFINE less == SubSeq(lines, 1, i - 1) \o SubSeq(lines, i + 1, Len(lines))
                   at == [k \in DOMAIN lines' |-> IF k < i THEN k ELSE k + 1]
        <3>1. lines \in Seq(Line) /\ i \in 1 .. Len(lines) /\ Len(lines) \in Nat
            BY SoundLines
        <3>2. /\ less \in Seq(Line) /\ Len(less) = Len(lines) - 1
              /\ \A k \in 1 .. Len(lines) - 1 :
                   less[k] = IF k < i THEN lines[k] ELSE lines[k + 1]
            BY <2>2, <3>1, LostLine
        <3>3. lines' = less
            BY <2>2
        <3> HIDE DEF less
        <3>4. /\ DOMAIN lines' = 1 .. Len(lines) - 1 /\ DOMAIN lines = 1 .. Len(lines)
              /\ \A k \in DOMAIN lines' : lines'[k] = IF k < i THEN lines[k] ELSE lines[k + 1]
            BY <3>2, <3>3, SoundLines
        <3>5. at \in [DOMAIN lines' -> DOMAIN lines]
            BY <3>1, <3>4
        <3>6. \A k \in DOMAIN lines' : lines'[k] = lines[at[k]]
            BY <3>4
        <3>7. \A k, j \in DOMAIN lines' : j <= k => at[j] <= at[k]
            BY <3>1, <3>4
        <3> HIDE DEF at
        <3> QED
            BY <3>5, <3>6, <3>7, SelectionKeeps
    <2> QED
        BY <1>4, <2>1, <2>2 DEF DamageEvent
<1>5. ASSUME NEW t \in Thread, AppendFails(t)
      PROVE  HistoryInv'
    BY <1>1, <1>5 DEF AppendFails, FailedWrite, SoleWriter, file
<1> QED
    BY <1>1, <1>2, <1>3, <1>4, <1>5
       DEF Next, RecoverState, Exit, BuildEvent, Tick, vars, file, memory

(* One writing process: what the last line commits to is one history, to   *)
(* which log_event adds one event at the end under a greater number, and   *)
(* of which only a power failure takes the newest events away.             *)
THEOREM SoleLinearLedger ==
    ASSUME SoleWriter
    PROVE  Spec => LinearLedger
<1>1. Init => Ledger!Init /\ HistoryInv
    BY DEF Init, Ledger!Init, RecoveredTip, Genesis, HistoryInv
<1>2. TypeOK /\ SoleInv /\ HistoryInv /\ [Next]_vars => HistoryInv'
    BY HistoryStep
<1>3. ASSUME TypeOK, SoleInv, HistoryInv, [Next]_vars
      PROVE  [Ledger!Next]_<< RecoveredTip, outage >>
    <2>0. RecoveredTip \in Seq(Contents) /\ Len(RecoveredTip) \in Nat
        BY <1>3, TipNumbers DEF Digest
    <2>1. CASE UNCHANGED << lines, outage >>
        BY <2>1 DEF RecoveredTip
    <2>2. ASSUME NEW t \in Thread, AppendEvent(t)
          PROVE  Ledger!Record
        <3> DEFINE h == RecoveredTip
                   n == Len(h) + 1
        <3>1. PICK c \in Contents : RecoveredSeq <= c.seq /\ RecoveredTip' = Append(h, c)
            BY <1>3, <2>2, AppendGrows
        <3>2. /\ Len(RecoveredTip') = n /\ RecoveredTip'[n] = c
              /\ \A k \in 1 .. n - 1 : RecoveredTip'[k] = h[k]
              /\ RecoveredTip' \in Seq(Contents)
            BY <2>0, <3>1
        <3>3. SubSeq(RecoveredTip', 1, n - 1) = h
            <4>1. Begins(h, RecoveredTip')
                BY <2>0, <3>2 DEF Begins
            <4> QED
                BY <2>0, <3>2, <4>1, BeginsIsCut DEF Digest
        <3>4. \A k \in DOMAIN h : h[k].seq < c.seq
            <4> TAKE k \in DOMAIN h
            <4>1. h[k].seq < RecoveredSeq /\ RecoveredSeq \in Nat /\ h[k] \in Contents
                BY <1>3, <2>0, TipNumbers, ElementOfSeq
            <4> QED
                BY <3>1, <4>1 DEF Contents
        <3> QED
            BY <2>2, <3>2, <3>3, <3>4 DEF Ledger!Record, AppendEvent
    <2>3. CASE PowerLoss
        <3>1. PICK n \in 0 .. Len(lines) : lines' = SubSeq(lines, 1, n)
            BY <2>3 DEF PowerLoss
        <3>2. /\ Len(lines') = n /\ \A i \in 1 .. n : lines'[i] = lines[i]
              /\ (lines' = << >>) <=> (n = 0)
            <4>1. lines' \in Seq(Line) /\ Len(lines') = n /\ \A i \in 1 .. n : lines'[i] = lines[i]
                BY <1>3, <3>1, CutFile, SoundLines
            <4> QED
                BY <4>1, EmptySeq
        <3>3. RecoveredTip' \in Digest /\ Begins(RecoveredTip', RecoveredTip)
            <4>1. CASE n = 0
                BY <2>0, <3>2, <4>1, EmptySeq DEF RecoveredTip, Genesis, Begins, Digest
            <4>2. CASE n # 0
                <5>1. n \in 1 .. n /\ n \in DOMAIN lines /\ RecoveredTip' = lines[n].hash
                    BY <1>3, <3>2, <4>2, SoundLines DEF RecoveredTip
                <5> QED
                    BY <1>3, <5>1, TipNumbers, SoundLines
            <4> QED
                BY <4>1, <4>2
        <3>4. \E m \in 0 .. Len(RecoveredTip) : RecoveredTip' = SubSeq(RecoveredTip, 1, m)
            BY <2>0, <3>3, BeginsIsCut DEF Digest
        <3> QED
            BY <2>3, <3>4 DEF Ledger!Next, Ledger!LoseNewest, PowerLoss
    <2>4. ASSUME NEW i \in DOMAIN lines, DamageEvent(i)
          PROVE  UNCHANGED << RecoveredTip, outage >>
        <3> DEFINE n == Len(lines)
        <3>1. /\ lines \in Seq(Line) /\ n \in Nat /\ DOMAIN lines = 1 .. n /\ lines # << >>
              /\ \A k \in 1 .. n : lines[k] \in Event
            BY <1>3, <2>4, SoundLines
        <3>2. CASE lines' = [lines EXCEPT ![i] = [@ EXCEPT !.id = 0]]
            <4>1. Len(lines') = n /\ lines' # << >> /\ n \in 1 .. n
                BY <3>1, <3>2
            <4>2. lines'[n].hash = lines[n].hash
                BY <3>1, <3>2, <4>1, DamagedEventType
            <4> QED
                BY <2>4, <3>1, <4>1, <4>2 DEF RecoveredTip, DamageEvent
        <3>3. CASE /\ i < Len(lines)
                   /\ lines' = SubSeq(lines, 1, i - 1) \o SubSeq(lines, i + 1, Len(lines))
            <4> DEFINE less == SubSeq(lines, 1, i - 1) \o SubSeq(lines, i + 1, Len(lines))
            <4>0. lines \in Seq(Line) /\ i \in 1 .. Len(lines) /\ i < Len(lines)
                BY <3>1, <3>3
            <4>1. /\ less \in Seq(Line) /\ Len(less) = n - 1
                  /\ \A k \in 1 .. n - 1 : less[k] = IF k < i THEN lines[k] ELSE lines[k + 1]
                BY <4>0, LostLine
            <4>2. lines' = less
                BY <3>3
            <4> HIDE DEF less
            <4>3. n - 1 \in 1 .. n - 1 /\ ~(n - 1 < i) /\ (n - 1) + 1 = n
                BY <3>1, <3>3
            <4>4. lines' # << >> /\ lines'[Len(lines')] = lines[n]
                BY <4>1, <4>2, <4>3
            <4> QED
                BY <2>4, <3>1, <4>4 DEF RecoveredTip, DamageEvent
        <3> QED
            BY <2>4, <3>2, <3>3 DEF DamageEvent
    <2>5. ASSUME NEW t \in Thread, AppendFails(t)
          PROVE  UNCHANGED << lines, outage >>
        BY <2>5 DEF AppendFails, FailedWrite, SoleWriter, file
    <2> QED
        BY <1>3, <2>1, <2>2, <2>3, <2>4, <2>5
           DEF Next, Ledger!Next, RecoverState, Exit, BuildEvent, Tick, vars, file, memory
<1> QED
    BY <1>1, <1>2, <1>3, SoleInvariant, TypeCorrect, PTL DEF Spec, LinearLedger, Ledger!Spec

=============================================================================
