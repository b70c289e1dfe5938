---------------------------- MODULE AuditLedger ----------------------------
(***************************************************************************)
(* What the audit ledger promises: one history, to which events are added  *)
(* at the end under growing sequence numbers, and which loses nothing but, *)
(* when the machine stops, its newest events.                              *)
(***************************************************************************)
EXTENDS Integers, Sequences

CONSTANT Contents   \* what is recorded: records with a field seq

VARIABLES history, outage

Init == history = << >> /\ outage = FALSE

(* One event is added behind everything recorded so far.                   *)
Record ==
    LET n == Len(history) + 1 IN
    /\ UNCHANGED outage
    /\ Len(history') = n
    /\ SubSeq(history', 1, n - 1) = history
    /\ history'[n] \in Contents
    /\ \A i \in DOMAIN history : history[i].seq < history'[n].seq

(* The machine stops and the newest events are lost.                       *)
LoseNewest ==
    /\ outage' = TRUE
    /\ \E n \in 0 .. Len(history) : history' = SubSeq(history, 1, n)

Next == Record \/ LoseNewest

Spec == Init /\ [][Next]_<< history, outage >>

=============================================================================
