--------------------------- MODULE ReplayRegistry ---------------------------
(***************************************************************************)
(* What replay protection promises to the consumer of inference records.   *)
(* No nonce is accepted twice.  Of the records whose binding was verified, *)
(* each was accepted over a smaller number of its stream or opened it, no  *)
(* stream is opened twice, and no number of a stream is accepted twice     *)
(* until a call on that stream was overtaken: after that, numbers may come *)
(* again.  The order of acceptance is not that of the numbers, and for     *)
(* records whose binding could not be checked only the nonce is promised.  *)
(***************************************************************************)
EXTENDS Integers, Sequences

CONSTANTS Nonce, Stream, Absent

VARIABLES
    accepted,  \* records with fields nonce, stream, seq, prev and bound
    overtaken  \* the streams on which a call was overtaken by another

Init == accepted = << >> /\ overtaken = {}

(* Two accepted records of a stream do not both open it, nor do they carry *)
(* one number.                                                             *)
Apart(a, b) ==
    a.bound /\ b.bound /\ a.stream = b.stream =>
        /\ a.prev # Absent \/ b.prev # Absent
        /\ a.stream \in overtaken \/ a.seq # b.seq

(* A record is admitted behind everything admitted so far.                 *)
Admit ==
    LET n == Len(accepted) + 1
        r == accepted'[n]
    IN  /\ Len(accepted') = n
        /\ SubSeq(accepted', 1, n - 1) = accepted
        /\ r.nonce \in Nonce /\ r.stream \in Stream
        /\ r.prev = Absent \/ r.prev < r.seq
        /\ \A i \in DOMAIN accepted :
             accepted[i].nonce # r.nonce /\ Apart(accepted[i], r)
        /\ UNCHANGED overtaken

(* A call on a stream writes its number over one it did not read.          *)
Overtake ==
    /\ \E s \in Stream : overtaken' = overtaken \cup {s}
    /\ UNCHANGED accepted

Next == Admit \/ Overtake

Spec == Init /\ [][Next]_<< accepted, overtaken >>

=============================================================================
