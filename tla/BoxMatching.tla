---------------------------- MODULE BoxMatching ----------------------------
(***************************************************************************)
(* hungarian_match and match_detections: the boxes of two detectors on one *)
(* image are paired so that the sum of 1 - IoU is least, one column at a   *)
(* time, with prices u for rows and v for columns.  Each turn of a loop is *)
(* a step; rows and columns count from 1 and column 0 is the root of the   *)
(* search, as in the code.  Costs are whole numbers of 1/Unit.             *)
(***************************************************************************)
EXTENDS Integers, Sequences, FiniteSets, FiniteSetsExt

CONSTANTS
  Unit,         \* what stands for a cost of 1
  Matrices      \* the cost matrices to consider: sequences of rows

ASSUME UnitAssumption == Unit \in Nat \ {0}

ASSUME MatricesAssumption ==
  \A m \in Matrices : /\ Len(m) \in Nat \ {0} /\ Len(m[1]) \in Nat \ {0}
                      /\ m \in [1..Len(m) -> [1..Len(m[1]) -> 0..Unit]]

VARIABLES
  costs,        \* the matrix as given
  cost,         \* the matrix, padded to a square
  i,            \* the row to be placed
  j0,           \* the column at hand
  u, v,         \* prices
  p,            \* the row placed in a column, or 0
  way,          \* the column from which another was reached
  minv, used,
  pc

vars == <<costs, cost, i, j0, u, v, p, way, minv, used, pc>>

Rows(m) == DOMAIN m
Cols(m) == DOMAIN m[1]
Dim(m) == IF Len(m) > Len(m[1]) THEN Len(m) ELSE Len(m[1])
Side == DOMAIN cost
Inf == 1000 * Unit

IsLargest(m, x) ==
  /\ \E r \in Rows(m), c \in Cols(m) : m[r][c] = x
  /\ \A r \in Rows(m), c \in Cols(m) : m[r][c] <= x

(* What is missing of a square costs pad.                                  *)
Padded(m, pad) ==
  [r \in 1..Dim(m) |-> [c \in 1..Dim(m) |-> IF r \in Rows(m) /\ c \in Cols(m) THEN m[r][c] ELSE pad]]

Init ==
  /\ costs \in Matrices
  /\ \E largest \in 0..Unit : IsLargest(costs, largest) /\ cost = Padded(costs, largest + 10 * Unit)
  /\ i = 1 /\ j0 = 0
  /\ u = [r \in Side |-> 0]
  /\ v = [c \in Side \cup {0} |-> 0]
  /\ p = [c \in Side \cup {0} |-> 0]
  /\ way = [c \in Side \cup {0} |-> 0]
  /\ minv = [c \in Side |-> Inf]
  /\ used = {}
  /\ pc = "row"

StartRow ==
  /\ pc = "row" /\ i \in Side
  /\ p' = [p EXCEPT ![0] = i]
  /\ j0' = 0
  /\ minv' = [c \in Side |-> Inf]
  /\ used' = {}
  /\ pc' = "search"
  /\ UNCHANGED <<costs, cost, i, u, v, way>>

(* Mutant: the cheapest so far is never lowered.                           *)
IsFirstFree(j, free, price) == j \in free /\ \A k \in free : j <= k

(* The first of the cheapest columns among those not yet used.             *)
IsNext(j, free, price) ==
  /\ j \in free
  /\ \A k \in free : price[j] <= price[k]
  /\ \A k \in free : price[k] = price[j] => j <= k

(* Mutant: prices of columns not yet used stay as they are.                *)
LowerNothing(price, free, delta) == price

LowerPrices(price, free, delta) == [j \in DOMAIN price |-> IF j \in free THEN price[j] - delta ELSE price[j]]

(* The rows in the columns used are different ones, so that each price is  *)
(* raised once.                                                            *)
Search ==
  /\ pc = "search"
  /\ LET seen == used \cup {j0}
         free == Side \ seen
         Over(j) == cost[p[j0]][j] - u[p[j0]] - v[j]
         price == [j \in Side |-> IF j \in free /\ Over(j) < minv[j] THEN Over(j) ELSE minv[j]]
     IN \E j1 \in free :
          /\ IsNext(j1, free, price)
          /\ way' = [j \in Side \cup {0} |-> IF j \in free /\ Over(j) < minv[j] THEN j0 ELSE way[j]]
          /\ u' = [r \in Side |-> IF \E j \in seen : p[j] = r THEN u[r] + price[j1] ELSE u[r]]
          /\ v' = [j \in Side \cup {0} |-> IF j \in seen THEN v[j] - price[j1] ELSE v[j]]
          /\ minv' = LowerPrices(price, free, price[j1])
          /\ used' = seen
          /\ j0' = j1
          /\ pc' = IF p[j1] = 0 THEN "unwind" ELSE "search"
  /\ UNCHANGED <<costs, cost, i, p>>

(* Mutant: the loop ends as the one before it does.                        *)
AtUnplaced(j) == p[j] = 0

AtRoot(j) == j = 0

Unwind ==
  /\ pc = "unwind"
  /\ p' = [p EXCEPT ![j0] = p[way[j0]]]
  /\ j0' = way[j0]
  /\ IF AtRoot(way[j0])
     THEN pc' = "row" /\ i' = i + 1
     ELSE pc' = "unwind" /\ i' = i
  /\ UNCHANGED <<costs, cost, u, v, way, minv, used>>

Done == pc = "row" /\ i \notin Side

Next == StartRow \/ Search \/ Unwind \/ (Done /\ UNCHANGED vars)

(* One thread runs the loops.                                              *)
Spec == Init /\ [][Next]_vars /\ WF_vars(Next)

-----------------------------------------------------------------------------
(* What the function returns: no row and no column of the padding.         *)
Assignments == {a \in Rows(costs) \X Cols(costs) : p[a[2]] = a[1]}

(* match_detections keeps the pairs whose boxes overlap by 0.05 or more.   *)
MatchedPairs == {a \in Assignments : 20 * costs[a[1]][a[2]] <= 19 * Unit}

-----------------------------------------------------------------------------
(* Properties.                                                             *)

TypeOK ==
  /\ costs \in Matrices
  /\ cost \in [1..Dim(costs) -> [1..Dim(costs) -> Nat]]
  /\ i \in Nat \ {0}
  /\ j0 \in Side \cup {0}
  /\ u \in [Side -> Int] /\ v \in [Side \cup {0} -> Int]
  /\ p \in [Side \cup {0} -> Side \cup {0}]
  /\ way \in [Side \cup {0} -> Side \cup {0}]
  /\ minv \in [Side -> Int]
  /\ used \subseteq Side \cup {0}
  /\ pc \in {"row", "search", "unwind"}

(* A pairing of every row, or of every column, whichever are fewer.        *)
IsPairing(pairs) ==
  /\ Cardinality(pairs) = IF Len(costs) < Len(costs[1]) THEN Len(costs) ELSE Len(costs[1])
  /\ \A a, b \in pairs : a = b \/ (a[1] # b[1] /\ a[2] # b[2])

Total(pairs) == SumFunctionOnSet([a \in Rows(costs) \X Cols(costs) |-> costs[a[1]][a[2]]], pairs)

(* "Optimal" pairs are returned: when the loops end every row or every     *)
(* column is paired, and no other pairing costs less in sum (matching.py,  *)
(* line 37), in spite of the padding and of columns that change hands.     *)
MatchingIsBest ==
  Done => /\ IsPairing(Assignments)
          /\ \A pairs \in SUBSET (Rows(costs) \X Cols(costs)) :
               IsPairing(pairs) => Total(Assignments) <= Total(pairs)

(* The prices of a row and a column never exceed what the pair costs: the  *)
(* invariant on which the loops' choice of columns rests (line 78).        *)
PricesFeasible == \A r, c \in Side : u[r] + v[c] <= cost[r][c]

(* Both "while True" loops end, whatever the ties (lines 69 and 96).       *)
Terminates == <>Done
=============================================================================
