---------------------------- MODULE SessionBoard ----------------------------
(***************************************************************************)
(* What an analysis session promises: a board with one place per pipeline  *)
(* section.  A module that finishes replaces what stands in its own place  *)
(* and leaves the others alone; a verdict is about the board as it stands. *)
(* The promise ends when the board is disturbed: a statement fails, or two *)
(* modules overlap.                                                        *)
(***************************************************************************)
CONSTANTS Section, Run

VARIABLES board, verdict, disturbed

Init == board = [s \in Section |-> 0] /\ verdict = {} /\ disturbed = FALSE

(* A module records its latest run; a verdict about the old board lapses.  *)
Replace ==
    /\ \E s \in Section :
         /\ board'[s] \in Run
         /\ board' = [board EXCEPT ![s] = board'[s]]
    /\ verdict' = {}
    /\ UNCHANGED disturbed

(* The board is assessed, or the verdict on it is withdrawn.               *)
Assess == UNCHANGED << board, disturbed >> /\ verdict' \in {{board}, {}}

Disturb == disturbed' = TRUE

Spec == Init /\ [][Replace \/ Assess \/ Disturb]_<< board, verdict, disturbed >>

=============================================================================
