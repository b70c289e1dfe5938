--------------------------- MODULE MCEvidenceStore ---------------------------
(* Small instances of EvidenceStore.                                       *)
EXTENDS EvidenceStore

CONSTANTS p1, p2, e1, e2, a1, c1, c2

(* Every record refers to every artifact.                                  *)
AllRefs == [e \in Evidence |-> Artifact]
NoRefs == [e \in Evidence |-> {}]

=============================================================================
