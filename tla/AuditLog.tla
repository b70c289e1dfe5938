------------------------------ MODULE AuditLog ------------------------------
(***************************************************************************)
(* The audit ledger of cvif: audit/logger.py (AuditLogger) writing one     *)
(* JSONL file, and crypto/chain.py (verify_audit_chain) reading it.        *)
(*                                                                         *)
(* Every process that builds a RuntimeContext (the API server, and each    *)
(* invocation of the command line) owns an AuditLogger with its own lock,  *)
(* its own copy of the chain tip and its own next sequence number; the     *)
(* file is all that they share.  Inside a process the worker threads take  *)
(* the logger's RLock around the whole of log_event.                       *)
(*                                                                         *)
(* A SHA-256 digest is modelled by what it commits to: hashing a payload   *)
(* that contains the previous digest commits to the whole history, so a    *)
(* digest IS that history, the sequence of the event contents.  This is    *)
(* injective, as collision resistance is taken to be.                      *)
(***************************************************************************)
EXTENDS Integers, Sequences

CONSTANTS
    Process,         \* operating-system processes that open the ledger
    Thread,          \* worker threads that call log_event
    ProcessOf,       \* the process of each thread
    Failures,        \* what a failed append may leave in the file
    ClockStepsBack,  \* whether the wall clock may be set back
    MaxEvents,       \* bound: events ever built
    MaxTime,         \* bound: the wall clock
    MediumDecays,    \* whether the medium may damage the file
    Malformed,       \* a line that does not parse as an AuditEvent
    NoEvent,         \* the thread is not inside log_event
    Free             \* the lock is not held

(* The digests: the histories an event can commit to.                      *)
Contents == [seq : Nat, ts : Nat, id : Nat]
Digest == Seq(Contents)
Genesis == << >>

Event == [seq : Nat, ts : Nat, id : Nat, prev : Digest, hash : Digest]

ASSUME ThreadsAssumption == ProcessOf \in [Thread -> Process]
ASSUME FailuresAssumption == Failures \subseteq {"nothing", "prefix", "line"}
ASSUME SwitchesAssumption == ClockStepsBack \in BOOLEAN /\ MediumDecays \in BOOLEAN
ASSUME BoundsAssumption == MaxEvents \in Nat /\ MaxTime \in Nat
ASSUME MarkersAssumption == Malformed \notin Event /\ NoEvent \notin Event /\ Free \notin Thread

VARIABLES
    lines,    \* the file: its complete lines, in order
    partial,  \* whether text without a line end follows them
    up,       \* the processes whose AuditLogger is constructed
    tip,      \* tip[p]: _last_event_hash
    nextSeq,  \* nextSeq[p]: _next_sequence_number
    lock,     \* lock[p]: the thread that holds _lock
    pending,  \* pending[t]: the event built by the log_event call of t
    now,      \* the wall clock, utc_now()
    nextId,   \* the next event id (uuid4): ids are never reused
    acked,    \* ids of the events whose log_event call returned
    outage,   \* whether the machine has lost power
    damaged   \* positions of the file the medium has damaged

file == << lines, partial >>
memory == << up, tip, nextSeq, lock, pending >>
vars == << lines, partial, up, tip, nextSeq, lock, pending, now, nextId,
           acked, outage, damaged >>

TypeOK ==
    /\ lines \in Seq(Event \cup {Malformed})
    /\ partial \in BOOLEAN
    /\ up \in SUBSET Process
    /\ tip \in [Process -> Digest]
    /\ nextSeq \in [Process -> Nat]
    /\ lock \in [Process -> Thread \cup {Free}]
    /\ pending \in [Thread -> Event \cup {NoEvent}]
    /\ now \in Nat
    /\ nextId \in Nat \ {0}
    /\ acked \in SUBSET Nat
    /\ outage \in BOOLEAN
    /\ damaged \in SUBSET (Nat \ {0})

-----------------------------------------------------------------------------
(* Reading and verifying the file.                                         *)

(* Mutant: a digest that leaves the payload out.                           *)
ComputeHashNoPayload(e) ==
    Append(e.prev, [seq |-> e.seq, ts |-> e.ts, id |-> e.hash[Len(e.hash)].id])

(* AuditEvent.compute_hash covers every field but event_hash and signature. *)
ComputeHash(e) == Append(e.prev, [seq |-> e.seq, ts |-> e.ts, id |-> e.id])

(* read_all_events raises on the first line that does not parse.           *)
Readable == ~partial /\ \A i \in DOMAIN lines : lines[i] # Malformed

LinkOK(evs, i) == evs[i].prev = IF i = 1 THEN Genesis ELSE evs[i - 1].hash
HashOK(evs, i) == evs[i].hash = ComputeHash(evs[i])
SequenceOK(evs, i) == i > 1 => evs[i].seq > evs[i - 1].seq
TimeOK(evs, i) == i > 1 => evs[i].ts >= evs[i - 1].ts

EventOK(evs, i) ==
    LinkOK(evs, i) /\ HashOK(evs, i) /\ SequenceOK(evs, i) /\ TimeOK(evs, i)

(* verify_audit_chain reports the first index at which a check fails.      *)
FailedIndices(evs) == { i \in DOMAIN evs : ~EventOK(evs, i) }
ChainValid(evs) == FailedIndices(evs) = {}
FailedIndex(evs) ==
    CHOOSE i \in FailedIndices(evs) : \A j \in FailedIndices(evs) : i <= j

-----------------------------------------------------------------------------
Init ==
    /\ lines = << >> /\ partial = FALSE
    /\ up = {}
    /\ tip = [p \in Process |-> Genesis]
    /\ nextSeq = [p \in Process |-> 0]
    /\ lock = [p \in Process |-> Free]
    /\ pending = [t \in Thread |-> NoEvent]
    /\ now = 0 /\ nextId = 1
    /\ acked = {} /\ outage = FALSE /\ damaged = {}

(* The state a new AuditLogger takes over from the file.                   *)
RecoveredTip == IF lines = << >> THEN Genesis ELSE lines[Len(lines)].hash

(* Mutant: the number of the last event again.                             *)
RecoveredSeqRepeated == IF lines = << >> THEN 0 ELSE lines[Len(lines)].seq

RecoveredSeq == IF lines = << >> THEN 0 ELSE lines[Len(lines)].seq + 1

(* AuditLogger.__init__ as RuntimeContext calls it, auto_verify_on_init    *)
(* FALSE: the tip comes from the last line and the chain is not verified.  *)
(* A line that does not parse makes the constructor raise.                 *)
RecoverState(p) ==
    /\ p \notin up
    /\ Readable
    /\ up' = up \cup {p}
    /\ tip' = [tip EXCEPT ![p] = RecoveredTip]
    /\ nextSeq' = [nextSeq EXCEPT ![p] = RecoveredSeq]
    /\ UNCHANGED << file, lock, pending, now, nextId, acked, outage, damaged >>

(* Mutant: log_event without the lock.                                     *)
LockIgnored(p) == TRUE

(* Entering log_event: the RLock of the process's logger.                  *)
LockFree(p) == lock[p] = Free

(* log_event up to the write: take the lock, read the clock, build the     *)
(* event on the tip in memory, count the sequence number up, hash.         *)
BuildEvent(t) ==
    LET p == ProcessOf[t]
        e == [seq |-> nextSeq[p], ts |-> now, id |-> nextId, prev |-> tip[p],
              hash |-> Append(tip[p], [seq |-> nextSeq[p], ts |-> now, id |-> nextId])]
    IN  /\ p \in up
        /\ LockFree(p)
        /\ nextId <= MaxEvents
        /\ lock' = [lock EXCEPT ![p] = t]
        /\ pending' = [pending EXCEPT ![t] = e]
        /\ nextSeq' = [nextSeq EXCEPT ![p] = @ + 1]
        /\ nextId' = nextId + 1
        /\ UNCHANGED << file, up, tip, now, acked, outage, damaged >>

(* Mutant: the file opened for writing instead of appending.               *)
WriteLineAnew(e) == lines' = << e >> /\ partial' = FALSE

(* A line written behind unfinished text continues that line.              *)
WriteLine(e) ==
    /\ lines' = Append(lines, IF partial THEN Malformed ELSE e)
    /\ partial' = FALSE

LeaveLogEvent(t) ==
    /\ lock' = [lock EXCEPT ![ProcessOf[t]] = Free]
    /\ pending' = [pending EXCEPT ![t] = NoEvent]

(* log_event from a successful write and flush to the return.              *)
AppendEvent(t) ==
    /\ pending[t] # NoEvent
    /\ WriteLine(pending[t])
    /\ tip' = [tip EXCEPT ![ProcessOf[t]] = pending[t].hash]
    /\ LeaveLogEvent(t)
    /\ acked' = acked \cup {pending[t].id}
    /\ UNCHANGED << up, nextSeq, now, nextId, outage, damaged >>

(* What a failed write leaves in the file.                                 *)
FailedWrite(e) ==
    \/ "nothing" \in Failures /\ UNCHANGED file
    \/ "prefix" \in Failures /\ partial' = TRUE /\ UNCHANGED lines
    \/ "line" \in Failures /\ WriteLine(e)

(* Mutant: the tip moves before the write.                                 *)
AppendFailsAdvancing(t) ==
    /\ pending[t] # NoEvent
    /\ FailedWrite(pending[t])
    /\ LeaveLogEvent(t)
    /\ tip' = [tip EXCEPT ![ProcessOf[t]] = pending[t].hash]
    /\ UNCHANGED << up, nextSeq, now, nextId, acked, outage, damaged >>

(* The write raises OSError: log_event raises StorageError, the tip stays, *)
(* the sequence number is spent.  The file may hold nothing of the line, a *)
(* prefix of it, or the whole line (close flushes again what flush could   *)
(* not write).                                                             *)
AppendFails(t) ==
    /\ pending[t] # NoEvent
    /\ FailedWrite(pending[t])
    /\ LeaveLogEvent(t)
    /\ UNCHANGED << up, tip, nextSeq, now, nextId, acked, outage, damaged >>

(* A process exits or is killed, perhaps inside log_event.                 *)
Exit(p) ==
    /\ p \in up
    /\ up' = up \ {p}
    /\ lock' = [lock EXCEPT ![p] = Free]
    /\ pending' = [t \in Thread |-> IF ProcessOf[t] = p THEN NoEvent ELSE pending[t]]
    /\ UNCHANGED << file, tip, nextSeq, now, nextId, acked, outage, damaged >>

(* The machine stops.  Nothing is ever fsynced, so the file may come back  *)
(* without its last lines.                                                 *)
PowerLoss ==
    /\ \E n \in 0 .. Len(lines) :
         /\ lines' = SubSeq(lines, 1, n)
         /\ damaged' = { i \in damaged : i <= n }
    /\ partial' \in IF "prefix" \in Failures THEN BOOLEAN ELSE {FALSE}
    /\ up' = {}
    /\ lock' = [p \in Process |-> Free]
    /\ pending' = [t \in Thread |-> NoEvent]
    /\ outage' = TRUE
    /\ UNCHANGED << tip, nextSeq, now, nextId, acked >>

Tick ==
    /\ now' \in { n \in 0 .. MaxTime : n = now + 1 \/ (ClockStepsBack /\ n < now) }
    /\ UNCHANGED << file, memory, nextId, acked, outage, damaged >>

(* The medium damages the file, at one position at a time: the payload of  *)
(* an event changes, or a line with a successor is lost.                   *)
DamageEvent(i) ==
    /\ MediumDecays /\ damaged = {}
    /\ \/ /\ lines[i] # Malformed
          /\ lines' = [lines EXCEPT ![i] = [@ EXCEPT !.id = 0]]
       \/ /\ i < Len(lines)
          /\ lines' = SubSeq(lines, 1, i - 1) \o SubSeq(lines, i + 1, Len(lines))
    /\ damaged' = {i}
    /\ UNCHANGED << partial, memory, now, nextId, acked, outage >>

Next ==
    \/ \E p \in Process : RecoverState(p) \/ Exit(p)
    \/ \E t \in Thread : BuildEvent(t) \/ AppendEvent(t) \/ AppendFails(t)
    \/ PowerLoss
    \/ Tick
    \/ \E i \in DOMAIN lines : DamageEvent(i)

Spec == Init /\ [][Next]_vars

-----------------------------------------------------------------------------
(* Properties.                                                             *)

(* The file always reads and verifies, as long as the medium keeps what    *)
(* was written: whatever the threads, the clock, failed appends, restarts  *)
(* and power losses do, verify_audit_chain raises no false alarm.          *)
ChainIntact == damaged = {} => Readable /\ ChainValid(lines)

(* verify_audit_chain reports damage, and reports it at the position where *)
(* it is, however many events and restarts came after it.                  *)
DamageLocated ==
    \A i \in damaged : ~ChainValid(lines) /\ FailedIndex(lines) = i

(* In a readable file every event continues the chain at the genesis or at *)
(* an event that precedes it, also when several processes write: a shared  *)
(* ledger may fork, its events never hang in the air.                      *)
NoDanglingLink ==
    Readable /\ damaged = {} =>
        \A i \in DOMAIN lines :
            \/ lines[i].prev = Genesis
            \/ \E j \in 1 .. i - 1 : lines[j].hash = lines[i].prev

(* An event whose log_event call returned is in the file, or the file does *)
(* not read: only a power loss loses an acknowledged event silently.       *)
LossIsVisible ==
    Readable /\ ~outage /\ damaged = {} =>
        \A id \in acked : \E i \in DOMAIN lines : lines[i].id = id

(* The strengthening of ChainIntact and DamageLocated that log_event and a *)
(* restart preserve when one process writes: memory and file agree on the  *)
(* tip, the thread in log_event holds the lock and its event fits behind   *)
(* the last line, and every line before the damage satisfies every check.  *)
FileSound ==
    /\ ~partial
    /\ \A i \in DOMAIN lines :
         /\ lines[i] # Malformed
         /\ lines[i].ts <= now
         /\ (\A d \in damaged : i < d) => EventOK(lines, i) /\ lines[i].id # 0

TipCurrent ==
    \A t \in Thread : ProcessOf[t] \in up =>
        /\ tip[ProcessOf[t]] = RecoveredTip
        /\ RecoveredSeq <= nextSeq[ProcessOf[t]]

PendingFits ==
    \A t \in Thread : pending[t] # NoEvent =>
        /\ ProcessOf[t] \in up
        /\ lock[ProcessOf[t]] = t
        /\ pending[t].prev = RecoveredTip
        /\ pending[t].hash = ComputeHash(pending[t])
        /\ RecoveredSeq <= pending[t].seq
        /\ pending[t].seq < nextSeq[ProcessOf[t]]
        /\ pending[t].ts <= now
        /\ lines # << >> => lines[Len(lines)].ts <= pending[t].ts
        /\ pending[t].id # 0

DamageEvident ==
    /\ \A i \in damaged : i \in DOMAIN lines /\ ~EventOK(lines, i)
    /\ \A i, j \in damaged : i = j

SoleInv == FileSound /\ TipCurrent /\ PendingFits /\ DamageEvident

(* The file implements one linear ledger: the digest on its last line      *)
(* commits to a history that an append extends by one event.               *)
Ledger == INSTANCE AuditLedger WITH history <- RecoveredTip
LinearLedger == Ledger!Spec

=============================================================================
