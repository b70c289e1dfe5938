---------------------------- MODULE ModelChecks ----------------------------
(***************************************************************************)
(* The model-integrity checks MT-1 to MT-4 as functions of the two models  *)
(* they were given and of what these show.  Behaviour is compared by       *)
(* distance, which is cut at 0.0001, 0.08 and 0.25; weights by a digest,   *)
(* and by statistics per layer; hidden triggers by the size of the masks   *)
(* found for each class.                                                   *)
(***************************************************************************)
EXTENDS ModelAdapters

CONSTANTS
  NaN,          \* the size of a mask whose search failed
  Distance,     \* of two responses: "none", "slight", "drift" or "far"
  StatsDiffer,  \* pairs of weights with a layer whose statistics differ, or that the candidate lacks
  Sparse,       \* weights with a layer that is nearly all zero
  Collapsed,    \* activities with a layer that is mostly dead
  Unlike        \* pairs of activities that point elsewhere in a common layer

(* Activations that are not there, and those an adapter made up twice, do  *)
(* not differ.                                                             *)
ASSUME UnlikeAssumption ==
  \A pair \in Unlike : pair[1] # "none" /\ pair[2] # "none" /\ ~(pair[1] = "made up" /\ pair[2] = "made up")

Finding(threat, title, severity, disposition) ==
  [threat |-> threat, title |-> title, severity |-> severity, disposition |-> disposition]

If(condition, finding) == IF condition THEN <<finding>> ELSE <<>>

(* The signature of a classifier is as long as it has classes; two of      *)
(* different length are at distance 1, without fingerprints to go with it. *)
Comparable(candidate, reference) ==
  \/ reference = NoModel \/ candidate.task = "detection"
  \/ reference.task = candidate.task /\ reference.classes = candidate.classes

(* A signature of zeros is at distance 1 from everything, itself included; *)
(* two detectors that find nothing agree on every probe.                   *)
BehaviouralDistance(candidate, reference, r1, r2) ==
  IF ~Comparable(candidate, reference) THEN "far"
  ELSE IF candidate.task = "detection" /\ r1 = Silent /\ r2 = Silent THEN "none"
  ELSE IF r1 = Silent \/ r2 = Silent THEN "far"
  ELSE Distance[<<r1, r2>>]

(* The digest of weights that were read; else one made of the file's name  *)
(* for its contents.                                                       *)
WeightDigest(weights) == [weights |-> weights, artifact |-> NoFile]
OpaqueDigest(artifact) == [weights |-> NoFile, artifact |-> artifact]

(* Mutant: behaviour alone identifies a model.                             *)
MT1ByBehaviour(candidate, reference, digests, distance) ==
  IF reference = NoModel THEN <<Finding("MT-1", "registered", "INFORMATIONAL", "REVIEW")>>
  ELSE IF distance = "none" THEN <<Finding("MT-1", "verified", "INFORMATIONAL", "ACCEPT")>>
  ELSE If(distance = "far", Finding("MT-1", "substituted", "HIGH", "QUARANTINE"))

Substitution(candidate, reference, digests, distance) ==
  IF reference = NoModel THEN <<Finding("MT-1", "registered", "INFORMATIONAL", "REVIEW")>>
  ELSE IF Readable(candidate) /\ Readable(reference) /\ digests[1] = digests[2] /\ distance = "none"
       THEN <<Finding("MT-1", "verified", "INFORMATIONAL", "ACCEPT")>>
  ELSE If(distance = "far", Finding("MT-1", "substituted", "HIGH", "QUARANTINE"))

(* The candidate's weights alone are looked at for zeros; when they cannot *)
(* be loaded, that part is left out.                                       *)
Modification(candidate, reference, own, other, distance) ==
  LET both == reference # NoModel /\ Readable(candidate) /\ Readable(reference)
  IN If(both /\ <<own.weights, other.weights>> \in StatsDiffer, Finding("MT-2", "modified", "MEDIUM", "REVIEW"))
     \o If(reference # NoModel /\ distance = "drift", Finding("MT-2", "drifted", "MEDIUM", "REVIEW"))
     \o If(Readable(candidate) /\ own.ok /\ own.weights \in Sparse, Finding("MT-2", "sparse", "LOW", "REVIEW"))

-----------------------------------------------------------------------------
(* Twice the median of a sequence of numbers in order.                     *)
TwiceMedian(s) ==
  LET n == Len(s) IN IF n % 2 = 1 THEN 2 * s[n \div 2 + 1] ELSE s[n \div 2] + s[n \div 2 + 1]

InOrder(s) == SortSeq(s, LAMBDA x, y : x < y)
Off(x, y) == IF x < y THEN y - x ELSE x - y

(* The sizes of the masks, one per class, NaN left out.  The               *)
(* index is how far the smallest lies below the median, in units of        *)
(* 1.4826 MAD, rounded to hundredths, so that 1.995 counts as 2.           *)
NeuralCleanse(norms) ==
  LET valid == InOrder(SelectSeq(norms, LAMBDA x : x # NaN))
      twice == TwiceMedian(valid)
      mad == TwiceMedian(InOrder([i \in DOMAIN valid |-> Off(2 * valid[i], twice)]))
      below == twice - 2 * valid[1]
  IN IF Len(valid) < 3 \/ (mad = 0 /\ below # 0) THEN "insufficient"
     ELSE IF mad # 0 /\ 2000 * below >= 2958 * mad THEN "anomalous"
     ELSE "clean"

(* Twice as many clean probes as perturbed ones; a class whose detections  *)
(* fall by more than 3/4 while the others' fall by less than 1/4 on        *)
(* average.                                                                *)
Evades(clean, perturbed) ==
  LET seen == {c \in DOMAIN clean : clean[c] >= 2}
      Whole(c) == FoldSet(LAMBDA d, n : n * clean[d], 1, seen \ {c})
      Fall(c) == FoldSet(LAMBDA d, n : n + (clean[d] - 2 * perturbed[d]) * (Whole(c) \div clean[d]), 0, seen \ {c})
  IN \E c \in seen : /\ clean[c] > 8 * perturbed[c]
                     /\ seen # {c} => 4 * Fall(c) < Whole(c) * (Cardinality(seen) - 1)

(* The other adapters give every probe the same answer.                    *)

Backdoor(candidate, own) ==
  IF candidate.task = "detection"
  THEN If(own.runs /\ candidate.kind = "mock" /\ Evades(own.of.clean, own.of.perturbed),
          Finding("MT-3", "evasion", "HIGH", "QUARANTINE"))
  ELSE IF ~Differentiable(candidate, own) THEN <<Finding("MT-3", "unsupported", "INFORMATIONAL", "ACCEPT")>>
  ELSE CASE NeuralCleanse(own.norms) = "insufficient" -> <<Finding("MT-3", "insufficient", "INFORMATIONAL", "ACCEPT")>>
         [] NeuralCleanse(own.norms) = "anomalous" -> <<Finding("MT-3", "trigger", "HIGH", "QUARANTINE")>>
         [] OTHER -> <<>>

(* An adapter that shows no activations leaves the check without a word.   *)
Activation(candidate, reference, own, other) ==
  LET shown == Activities(candidate, own)
      compared == IF reference = NoModel THEN "none" ELSE Activities(reference, other)
  IN IF candidate.access # "white" THEN <<Finding("MT-4", "skipped", "INFORMATIONAL", "REVIEW")>>
     ELSE If(shown \in Collapsed, Finding("MT-4", "dead", "MEDIUM", "REVIEW"))
          \o If(<<shown, compared>> \in Unlike, Finding("MT-4", "diverged", "HIGH", "QUARANTINE"))
=============================================================================
