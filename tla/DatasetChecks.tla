--------------------------- MODULE DatasetChecks ---------------------------
(***************************************************************************)
(* The data-integrity checks DT-1 to DT-6 as functions of a registered     *)
(* dataset, of the directory as it is when the check reads it again, and   *)
(* of what a picture looks like.  A missing file is skipped without a      *)
(* word, and so is one that cannot be read at the moment: a directory      *)
(* without the file stands for both.                                       *)
(*                                                                         *)
(* Floating-point work on pixels is abstracted to three constants: which   *)
(* contents look alike (dHash at a distance of at most 4), which show a    *)
(* corner patch (score 0.55 or more), and where a content lies in feature  *)
(* space, taken to be a line.  Everything decided from these is kept:      *)
(* counts, thresholds, votes, ratios and severities; ratios are compared   *)
(* by cross-multiplication.  The order of the image list is arbitrary.      *)
(***************************************************************************)
EXTENDS DatasetFormats

CONSTANTS
  Alike,      \* a set of pairs of contents
  Patched,    \* a set of contents
  Position    \* a function from contents to integers

(* A distance does not depend on the order of the two.                     *)
ASSUME AlikeIsSymmetric == \A pair \in Alike : <<pair[2], pair[1]>> \in Alike

Finding(threat, title, severity, disposition) ==
  [threat |-> threat, title |-> title, severity |-> severity, disposition |-> disposition]

If(condition, finding) == IF condition THEN <<finding>> ELSE <<>>

Listed(data) == FoldSet(LAMBDA im, list : Append(list, im), <<>>, data.images)

(* The images whose files are still there, with what is in them now.       *)
Readable(data, tree) ==
  LET listed == Listed(data)
      there == {i \in DOMAIN listed : listed[i].file \in DOMAIN tree.images}
      Nth(n) == CHOOSE i \in there : Cardinality({j \in there : j <= i}) = n
  IN [n \in 1..Cardinality(there) |-> [id |-> listed[Nth(n)].id, now |-> tree.images[listed[Nth(n)].file]]]

ClassesOf(data, im) == {a.cat : a \in {a \in data.annotations : a.image = im.id}}
PrimaryClass(data, im) == CHOOSE c \in ClassesOf(data, im) : TRUE

Annotated(data, samples) == SelectSeq(samples, LAMBDA s : ClassesOf(data, s) # {})

Abs(x) == IF x < 0 THEN -x ELSE x
SumOf(f) == FoldFunction(LAMBDA x, y : x + y, 0, f)

(* Mutant: equal files are paired as look-alikes, too.                     *)
LookAlikesOrEqual(listed, seen) ==
  \E i, j \in DOMAIN seen : i < j /\ (seen[i].now = seen[j].now \/ <<seen[i].now, seen[j].now>> \in Alike)

(* The pairing takes digests by an image's place in the full list, and     *)
(* fingerprints by its place among the files that were there.              *)
LookAlikes(listed, seen) ==
  \E i, j \in DOMAIN seen : /\ i < j
                            /\ listed[i].bytes # listed[j].bytes
                            /\ seen[i].now = seen[j].now \/ <<seen[i].now, seen[j].now>> \in Alike

NearDuplicates(data, seen) ==
  LET listed == Listed(data)
  IN If(\E i, j \in DOMAIN listed : i < j /\ listed[i].bytes = listed[j].bytes,
        Finding("DT-4", "exact", "HIGH", "QUARANTINE"))
     \o If(LookAlikes(listed, seen), Finding("DT-4", "near", "MEDIUM", "REVIEW"))

TriggerInjection(data, seen) ==
  LET flagged == {i \in DOMAIN seen : seen[i].now \in Patched}
  IN If(flagged # {}, Finding("DT-1", "trigger", IF Cardinality(flagged) >= 3 THEN "CRITICAL" ELSE "HIGH", "QUARANTINE"))

(* Of the 5 nearest others at most 1 has the class the image is labelled.  *)
LabelFlipping(data, samples) ==
  LET Apart(i, j) == Abs(Position[samples[i].now] - Position[samples[j].now])
      Nearer(i, j, k) == Apart(i, j) < Apart(i, k) \/ (Apart(i, j) = Apart(i, k) /\ j < k)
      Neighbours(i) == LET others == DOMAIN samples \ {i}
                       IN {j \in others : Cardinality({k \in others : Nearer(i, k, j)}) < 5}
      suspicious == {i \in DOMAIN samples :
                       Cardinality({j \in Neighbours(i) : PrimaryClass(data, samples[j]) = PrimaryClass(data, samples[i])}) <= 1}
  IN If(Len(samples) >= 6 /\ suspicious # {},
        Finding("DT-2", "labels", IF 20 * Cardinality(suspicious) > Len(samples) THEN "HIGH" ELSE "MEDIUM", "REVIEW"))

(* Samples of class c nearer to the mean of class d than to that of c.     *)
SystematicMislabelling(data, samples) ==
  LET Of(c) == {i \in DOMAIN samples : PrimaryClass(data, samples[i]) = c}
      Num(c) == Cardinality(Of(c))
      Total(c) == SumOf([i \in Of(c) |-> Position[samples[i].now]])
      FromMean(i, c) == Abs(Num(c) * Position[samples[i].now] - Total(c))
      Confused(c, d) == Cardinality({i \in Of(c) : FromMean(i, d) * Num(c) < FromMean(i, c) * Num(d)})
      active == {c \in DOMAIN data.classes : Num(c) >= 3}
      Flagged(c, d) == /\ 10 * Confused(c, d) > 3 * Num(c)
                       /\ 100 * Abs(Confused(c, d) * Num(d) - Confused(d, c) * Num(c)) >= 35 * Num(c) * Num(d)
  IN If(\E c, d \in active : c # d /\ Flagged(c, d), Finding("DT-3", "mislabelling", "HIGH", "REVIEW"))

(* An image without an annotation counts as one of class 0.  More than     *)
(* three standard deviations from the mean of its class: squared, and      *)
(* multiplied by the number of samples.                                    *)
OODInsertion(data, samples) ==
  LET ClassOf(i) == IF ClassesOf(data, samples[i]) = {} THEN 0 ELSE PrimaryClass(data, samples[i])
      Fellows(i) == {j \in DOMAIN samples : ClassOf(j) = ClassOf(i)}
      Num(i) == Cardinality(Fellows(i))
      Dev(i, j) == Num(i) * Position[samples[j].now] - SumOf([k \in Fellows(i) |-> Position[samples[k].now]])
      Outlier(i) == /\ Num(i) >= 4
                    /\ (Num(i) - 1) * Dev(i, i) * Dev(i, i)
                         > 9 * SumOf([j \in Fellows(i) |-> Dev(i, j) * Dev(i, j)])
  IN If(\E i \in DOMAIN samples : Outlier(i), Finding("DT-5", "outliers", "MEDIUM", "REVIEW"))

(* The findings so far, weighed against a tenth of the images; the profile *)
(* itself is a further finding.                                            *)
Weight(severity) ==
  CASE severity = "MEDIUM" -> 40 [] severity = "HIGH" -> 75 [] severity = "CRITICAL" -> 100

ContributorRisk(data, contributor, prior) ==
  LET score == SumOf([i \in DOMAIN prior |-> Weight(prior[i].severity)])
      Exceeds(percent) == 10 * score > percent * Max({10, Cardinality(data.images)})
      Reaches(percent) == 10 * score >= percent * Max({10, Cardinality(data.images)})
  IN If(contributor # NoContributor /\ prior # <<>>,
        Finding("DT-6", "profile", IF Exceeds(60) THEN "HIGH" ELSE "MEDIUM", IF Reaches(70) THEN "QUARANTINE" ELSE "REVIEW"))

CheckOrder == <<"DT-4", "DT-1", "DT-2", "DT-3", "DT-5", "DT-6">>

Applicable(check, data, contributor) ==
  LET images == Cardinality(data.images)
      twoClasses == Cardinality(DOMAIN data.classes) >= 2
  IN CASE check = "DT-4" -> images >= 2
       [] check = "DT-1" -> images >= 3
       [] check = "DT-2" -> images >= 6 /\ twoClasses
       [] check = "DT-3" -> images >= 10 /\ twoClasses
       [] check = "DT-5" -> images >= 6
       [] check = "DT-6" -> contributor # NoContributor

Run(check, data, seen, contributor, prior) ==
  CASE check = "DT-4" -> NearDuplicates(data, seen)
    [] check = "DT-1" -> TriggerInjection(data, seen)
    [] check = "DT-2" -> LabelFlipping(data, Annotated(data, seen))
    [] check = "DT-3" -> SystematicMislabelling(data, Annotated(data, seen))
    [] check = "DT-5" -> OODInsertion(data, seen)
    [] check = "DT-6" -> ContributorRisk(data, contributor, prior)
=============================================================================
