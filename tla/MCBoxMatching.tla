--------------------------- MODULE MCBoxMatching ---------------------------
EXTENDS BoxMatching

MCUnit == 2

(* Overlaps none, half or full, of up to three boxes with three others.    *)
MCMatrices ==
  [1..3 -> [1..3 -> 0..2]]
    \cup [1..2 -> [1..3 -> 0..2]]
    \cup [1..3 -> [1..2 -> 0..2]]
=============================================================================
