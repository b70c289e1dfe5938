---------------------------- MODULE ModelProofs ----------------------------
(***************************************************************************)
(* What is proved of the analysis of models.                               *)
(*                                                                         *)
(* The matching of detections, for matrices of any size and any costs: the *)
(* loops keep their types, no pair of a row and a column is ever priced    *)
(* above its cost, and when the loops have ended the pairs returned are as *)
(* many as can be and no others as many cost less.  The last needs three   *)
(* more invariants: every row placed is in one column at no loss, the ways *)
(* lead back to the root through such columns, and a column that holds no  *)
(* row has no price yet.  At the end the prices bound what any pairs must  *)
(* cost from below.                                                        *)
(*                                                                         *)
(* The scan, for any packages, files and adapters: verdicts have their     *)
(* cause in what was loaded, and all checks judge the contents the         *)
(* evidence names.  The invariant relates the touches a check has left to  *)
(* what it will compare: who is to answer has answered, or still will.     *)
(***************************************************************************)
EXTENDS BoxMatching, ModelScan, FiniteSetTheorems, SequenceTheorems, WellFoundedInduction, TLAPS

(* What the search knows of the columns it has not used: the cheapest way  *)
(* there from the rows it has reached costs at least minv, which is not    *)
(* negative, and these rows are rows.                                      *)
SearchInv ==
  pc = "search" =>
    /\ \A k \in used \cup {j0} : p[k] \in Side
    /\ \A j \in Side \ used : minv[j] >= 0
    /\ \A k \in used, j \in Side \ used : minv[j] <= cost[p[k]][j] - u[p[k]] - v[j]

IInv == TypeOK /\ PricesFeasible /\ SearchInv

-----------------------------------------------------------------------------
(* The square has whole-number costs, and none is negative.                *)
LEMMA PaddedIsSquare ==
  ASSUME NEW m \in Matrices, NEW pad \in Nat
  PROVE  /\ Dim(m) \in Nat
         /\ Padded(m, pad) \in [1..Dim(m) -> [1..Dim(m) -> Nat]]
<1>1. /\ Len(m) \in Nat \ {0} /\ Len(m[1]) \in Nat \ {0}
      /\ m \in [1..Len(m) -> [1..Len(m[1]) -> 0..Unit]]
  BY MatricesAssumption
<1>2. Dim(m) \in Nat
  BY <1>1 DEF Dim
<1>3. \A r \in Rows(m), c \in Cols(m) : m[r][c] \in Nat
  <2>1. m[1] \in [1..Len(m[1]) -> 0..Unit]
    BY <1>1
  <2>2. \A r \in Rows(m) : m[r] \in [1..Len(m[1]) -> 0..Unit]
    BY <1>1 DEF Rows
  <2>3. 0..Unit \subseteq Nat
    BY UnitAssumption
  <2> QED
    BY <2>1, <2>2, <2>3 DEF Cols
<1>4. Padded(m, pad) \in [1..Dim(m) -> [1..Dim(m) -> Nat]]
  BY <1>3 DEF Padded
<1> QED
  BY <1>2, <1>4

LEMMA InitInv ==
  ASSUME Init
  PROVE  IInv
<1>1. PICK largest \in 0..Unit : cost = Padded(costs, largest + 10 * Unit)
  BY DEF Init
<1>2. largest + 10 * Unit \in Nat /\ Inf \in Nat
  BY UnitAssumption DEF Inf
<1>3. cost \in [1..Dim(costs) -> [1..Dim(costs) -> Nat]]
  BY <1>1, <1>2, PaddedIsSquare DEF Init
<1>4. Side = 1..Dim(costs)
  BY <1>3 DEF Side
<1>5. TypeOK
  BY <1>2, <1>3 DEF Init, TypeOK
<1>6. PricesFeasible
  <2> SUFFICES ASSUME NEW r \in Side, NEW c \in Side PROVE u[r] + v[c] <= cost[r][c]
    BY DEF PricesFeasible
  <2>1. u[r] = 0 /\ v[c] = 0
    BY DEF Init
  <2>2. cost[r][c] \in Nat
    BY <1>3, <1>4
  <2> QED
    BY <2>1, <2>2
<1> QED
  BY <1>5, <1>6 DEF IInv, SearchInv, Init

-----------------------------------------------------------------------------
LEMMA StartRowInv ==
  ASSUME IInv, StartRow
  PROVE  IInv'
<1> USE DEF IInv, TypeOK
<1>1. Side' = Side
  BY DEF StartRow, Side
<1>2. Inf \in Nat
  BY UnitAssumption DEF Inf
<1>3. 0 \in Side \cup {0} /\ i \in Side
  BY DEF StartRow
<1>4. TypeOK'
  BY <1>1, <1>2, <1>3 DEF StartRow
<1>5. PricesFeasible'
  BY <1>1 DEF StartRow, PricesFeasible
<1>6. SearchInv'
  BY <1>1, <1>2, <1>3 DEF StartRow, SearchInv
<1> QED
  BY <1>4, <1>5, <1>6

LEMMA UnwindInv ==
  ASSUME IInv, Unwind
  PROVE  IInv'
<1> USE DEF IInv, TypeOK
<1>1. Side' = Side
  BY DEF Unwind, Side
<1>2. way[j0] \in Side \cup {0} /\ p[way[j0]] \in Side \cup {0}
  OBVIOUS
<1>3. pc' \in {"row", "unwind"} /\ i' \in Nat \ {0}
  BY DEF Unwind
<1>4. TypeOK'
  BY <1>1, <1>2, <1>3 DEF Unwind
<1>5. PricesFeasible'
  BY <1>1 DEF Unwind, PricesFeasible
<1>6. SearchInv'
  BY <1>3 DEF SearchInv
<1> QED
  BY <1>4, <1>5, <1>6

-----------------------------------------------------------------------------
(* One turn of the search: the columns seen and those still free, what    *)
(* each of these would cost from the column at hand, and the least it is   *)
(* known to cost; delta is the price of the column chosen.                 *)
Seen == used \cup {j0}
Free == Side \ Seen
Over(j) == cost[p[j0]][j] - u[p[j0]] - v[j]
Price == [j \in Side |-> IF j \in Free /\ Over(j) < minv[j] THEN Over(j) ELSE minv[j]]

Moves(j1, delta) ==
  /\ way' = [j \in Side \cup {0} |-> IF j \in Free /\ Over(j) < minv[j] THEN j0 ELSE way[j]]
  /\ u' = [r \in Side |-> IF \E j \in Seen : p[j] = r THEN u[r] + delta ELSE u[r]]
  /\ v' = [j \in Side \cup {0} |-> IF j \in Seen THEN v[j] - delta ELSE v[j]]
  /\ minv' = [j \in Side |-> IF j \in Free THEN Price[j] - delta ELSE Price[j]]
  /\ used' = Seen
  /\ j0' = j1
  /\ pc' = IF p[j1] = 0 THEN "unwind" ELSE "search"
  /\ UNCHANGED <<costs, cost, i, p>>

(* Prices and costs are numbers.                                           *)
LEMMA Numbers ==
  ASSUME TypeOK
  PROVE  /\ \A r \in Side : u[r] \in Int
         /\ \A j \in Side \cup {0} : v[j] \in Int
         /\ \A j \in Side : minv[j] \in Int
         /\ \A r, c \in Side : cost[r][c] \in Nat
<1>1. Side = 1..Dim(costs)
  BY DEF TypeOK, Side
<1>2. cost \in [Side -> [Side -> Nat]]
  BY <1>1 DEF TypeOK
<1>3. \A r, c \in Side : cost[r][c] \in Nat
  BY <1>2
<1>4. \A r \in Side : u[r] \in Int /\ minv[r] \in Int
  BY DEF TypeOK
<1>5. \A j \in Side \cup {0} : v[j] \in Int
  BY DEF TypeOK
<1> QED
  BY <1>3, <1>4, <1>5

(* The column chosen has a least price, which no row reached undercuts.    *)
LEMMA SearchMoves ==
  ASSUME IInv, Search
  PROVE  /\ pc = "search"
         /\ Seen \subseteq Side \cup {0}
         /\ \A k \in Seen : p[k] \in Side
         /\ Price \in [Side -> Int]
         /\ \A j \in Free : Over(j) \in Int /\ minv[j] \in Int
         /\ \A k \in Seen, j \in Free : Price[j] <= cost[p[k]][j] - u[p[k]] - v[j]
         /\ \E j1 \in Free : /\ Price[j1] >= 0
                             /\ \A j \in Free : Price[j1] <= Price[j]
                             /\ Moves(j1, Price[j1])
<1>1. PICK j1 \in Free :
        /\ IsNext(j1, Free, Price)
        /\ way' = [j \in Side \cup {0} |-> IF j \in Free /\ Over(j) < minv[j] THEN j0 ELSE way[j]]
        /\ u' = [r \in Side |-> IF \E j \in Seen : p[j] = r THEN u[r] + Price[j1] ELSE u[r]]
        /\ v' = [j \in Side \cup {0} |-> IF j \in Seen THEN v[j] - Price[j1] ELSE v[j]]
        /\ minv' = LowerPrices(Price, Free, Price[j1])
        /\ used' = Seen
        /\ j0' = j1
        /\ pc' = IF p[j1] = 0 THEN "unwind" ELSE "search"
  BY DEF Search, Seen, Free, Over, Price
<1>2. pc = "search" /\ UNCHANGED <<costs, cost, i, p>>
  BY DEF Search
<1>3. Free \subseteq Side
  BY DEF Free
<1>4. \A k \in Seen : p[k] \in Side
  BY <1>2 DEF IInv, SearchInv, Seen
<1>5. Seen \subseteq Side \cup {0}
  BY DEF IInv, TypeOK, Seen
<1>6. /\ \A r \in Side : u[r] \in Int
      /\ \A j \in Side \cup {0} : v[j] \in Int
      /\ \A j \in Side : minv[j] \in Int
      /\ \A r, c \in Side : cost[r][c] \in Nat
  BY Numbers DEF IInv
<1>7. \A j \in Free : Over(j) \in Int /\ Over(j) >= 0
  <2>1. p[j0] \in Side
    BY <1>4 DEF Seen
  <2> SUFFICES ASSUME NEW j \in Free PROVE Over(j) \in Int /\ Over(j) >= 0
    OBVIOUS
  <2>2. u[p[j0]] + v[j] <= cost[p[j0]][j]
    BY <1>3, <2>1 DEF IInv, PricesFeasible
  <2>3. u[p[j0]] \in Int /\ v[j] \in Int /\ cost[p[j0]][j] \in Nat
    BY <1>3, <2>1, <1>6
  <2> QED
    BY <2>2, <2>3 DEF Over
<1>8. \A j \in Side : Price[j] \in Int
  BY <1>6, <1>7 DEF Price
<1>9. \A j \in Free : Price[j] >= 0 /\ Price[j] <= minv[j] /\ Price[j] <= Over(j)
  <2>1. \A j \in Free : j \in Side \ used
    BY DEF Free, Seen
  <2>2. \A j \in Free : minv[j] >= 0
    BY <1>2, <2>1 DEF IInv, SearchInv
  <2> QED
    BY <1>3, <1>6, <1>7, <2>2 DEF Price
<1>10. \A j \in Free : Price[j1] <= Price[j]
  BY <1>1 DEF IsNext
<1>11. Price[j1] >= 0 /\ Price \in [Side -> Int]
  BY <1>1, <1>8, <1>9 DEF Price
<1>12. \A k \in Seen, j \in Free : Price[j] <= cost[p[k]][j] - u[p[k]] - v[j]
  <2> SUFFICES ASSUME NEW k \in Seen, NEW j \in Free
               PROVE  Price[j] <= cost[p[k]][j] - u[p[k]] - v[j]
    OBVIOUS
  <2>1. CASE k = j0
    BY <2>1, <1>9 DEF Over
  <2>2. CASE k \in used
    <3>1. minv[j] <= cost[p[k]][j] - u[p[k]] - v[j]
      BY <2>2, <1>2 DEF IInv, SearchInv, Free, Seen
    <3>2. cost[p[k]][j] \in Nat /\ u[p[k]] \in Int /\ v[j] \in Int /\ minv[j] \in Int /\ Price[j] \in Int
      BY <1>3, <1>4, <1>6, <1>8
    <3> QED
      BY <3>1, <3>2, <1>9
  <2> QED
    BY <2>1, <2>2 DEF Seen
<1>13. DOMAIN Price = Side
  BY DEF Price
<1>14. Moves(j1, Price[j1])
  BY <1>1, <1>2, <1>13 DEF Moves, LowerPrices
<1> QED
  BY <1>2, <1>3, <1>4, <1>5, <1>6, <1>7, <1>10, <1>11, <1>12, <1>14

LEMMA SearchStepInv ==
  ASSUME IInv, Search
  PROVE  IInv'
<1>1. PICK j1 \in Free : /\ Price[j1] >= 0
                         /\ \A j \in Free : Price[j1] <= Price[j]
                         /\ Moves(j1, Price[j1])
  BY SearchMoves
<1>2. /\ Seen \subseteq Side \cup {0}
      /\ \A k \in Seen : p[k] \in Side
      /\ Price \in [Side -> Int]
      /\ \A k \in Seen, j \in Free : Price[j] <= cost[p[k]][j] - u[p[k]] - v[j]
  BY SearchMoves
<1>3. /\ Side' = Side /\ j1 \in Side /\ UNCHANGED <<costs, cost, i, p>>
      /\ Free \subseteq Side /\ Free = Side \ Seen
  BY <1>1 DEF Side, Free, Moves
<1>4. /\ \A r \in Side : u[r] \in Int
      /\ \A j \in Side \cup {0} : v[j] \in Int
      /\ \A j \in Side : minv[j] \in Int
      /\ \A r, c \in Side : cost[r][c] \in Nat
  BY Numbers DEF IInv
<1> DEFINE delta == Price[j1]
<1>5. delta \in Int /\ delta >= 0 /\ (\A j \in Free : delta <= Price[j]) /\ Moves(j1, delta)
  BY <1>1, <1>2, <1>3
<1> HIDE DEF delta
<1>6. TypeOK'
  <2>1. u' \in [Side -> Int] /\ v' \in [Side \cup {0} -> Int]
    BY <1>4, <1>5 DEF Moves
  <2>2. minv' \in [Side -> Int]
    BY <1>2, <1>5 DEF Moves
  <2>3. way' \in [Side \cup {0} -> Side \cup {0}]
    BY <1>5 DEF IInv, TypeOK, Moves
  <2>4. used' \subseteq Side \cup {0} /\ j0' \in Side \cup {0} /\ pc' \in {"row", "search", "unwind"}
    BY <1>2, <1>3, <1>5 DEF Moves
  <2> QED
    BY <2>1, <2>2, <2>3, <2>4, <1>3 DEF IInv, TypeOK
<1>7. PricesFeasible'
  <2> SUFFICES ASSUME NEW r \in Side, NEW c \in Side PROVE u'[r] + v'[c] <= cost[r][c]
    BY <1>3 DEF PricesFeasible
  <2>1. u[r] + v[c] <= cost[r][c]
    BY DEF IInv, PricesFeasible
  <2>2. u[r] \in Int /\ v[c] \in Int /\ cost[r][c] \in Nat
    BY <1>4
  <2>3. CASE c \in Seen
    <3>1. v'[c] = v[c] - delta
      BY <2>3, <1>5 DEF Moves
    <3>2. u'[r] = u[r] + delta \/ u'[r] = u[r]
      BY <1>5 DEF Moves
    <3> QED
      BY <2>1, <2>2, <3>1, <3>2, <1>5
  <2>4. CASE c \notin Seen /\ \E k \in Seen : p[k] = r
    <3>1. v'[c] = v[c] /\ u'[r] = u[r] + delta
      BY <2>4, <1>5 DEF Moves
    <3>2. Price[c] <= cost[r][c] - u[r] - v[c]
      BY <2>4, <1>2, <1>3
    <3>3. delta <= Price[c] /\ Price[c] \in Int
      BY <2>4, <1>2, <1>3, <1>5
    <3> QED
      BY <2>2, <3>1, <3>2, <3>3, <1>5
  <2>5. CASE c \notin Seen /\ ~\E k \in Seen : p[k] = r
    BY <2>1, <2>5, <1>5 DEF Moves
  <2> QED
    BY <2>3, <2>4, <2>5
<1>8. SearchInv'
  <2> SUFFICES ASSUME pc' = "search"
               PROVE  /\ \A k \in used' \cup {j0'} : p'[k] \in Side'
                      /\ \A j \in Side' \ used' : minv'[j] >= 0
                      /\ \A k \in used', j \in Side' \ used' : minv'[j] <= cost'[p'[k]][j] - u'[p'[k]] - v'[j]
    BY DEF SearchInv
  <2>1. p[j1] \in Side
    BY <1>3, <1>5 DEF IInv, TypeOK, Moves
  <2>2. \A j \in Free : minv'[j] = Price[j] - delta
    BY <1>3, <1>5 DEF Moves
  <2>3. \A j \in Free : minv'[j] >= 0
    BY <2>2, <1>2, <1>3, <1>5
  <2>4. ASSUME NEW k \in Seen, NEW j \in Free
        PROVE  minv'[j] <= cost[p[k]][j] - u'[p[k]] - v'[j]
    <3>1. p[k] \in Side
      BY <1>2
    <3>2. u'[p[k]] = u[p[k]] + delta /\ v'[j] = v[j]
      BY <3>1, <1>3, <1>5 DEF Moves
    <3>3. Price[j] <= cost[p[k]][j] - u[p[k]] - v[j]
      BY <1>2
    <3>4. cost[p[k]][j] \in Nat /\ u[p[k]] \in Int /\ v[j] \in Int /\ Price[j] \in Int
      BY <3>1, <1>2, <1>3, <1>4
    <3>5. minv'[j] = Price[j] - delta
      BY <2>2
    <3> QED
      BY <3>2, <3>3, <3>4, <3>5, <1>5
  <2>5. used' = Seen /\ j0' = j1 /\ Side' \ used' = Free /\ p' = p /\ cost' = cost /\ Side' = Side
    BY <1>3, <1>5 DEF Moves
  <2>6. \A k \in used' \cup {j0'} : p'[k] \in Side'
    BY <2>1, <2>5, <1>2
  <2>7. \A k \in used', j \in Side' \ used' : minv'[j] <= cost'[p'[k]][j] - u'[p'[k]] - v'[j]
    BY <2>4, <2>5
  <2> QED
    BY <2>3, <2>5, <2>6, <2>7
<1> QED
  BY <1>6, <1>7, <1>8 DEF IInv

-----------------------------------------------------------------------------
LEMMA NextInv ==
  ASSUME IInv, [Next]_vars
  PROVE  IInv'
<1>1. CASE UNCHANGED vars
  BY <1>1 DEF vars, IInv, TypeOK, PricesFeasible, SearchInv, Side
<1> QED
  BY <1>1, StartRowInv, SearchStepInv, UnwindInv DEF Next

LEMMA Invariance == Spec => []IInv
BY InitInv, NextInv, PTL DEF Spec

(* The loops keep their types, the table of placed rows among them: a      *)
(* column holds a row of the matrix or none.                               *)
THEOREM TypeCorrect == Spec => []TypeOK
<1>1. IInv => TypeOK
  BY DEF IInv
<1> QED
  BY <1>1, Invariance, PTL

(* However large the matrix and whatever it costs, the price of a row and  *)
(* that of a column together never exceed the cost of the pair.            *)
THEOREM PricesStayFeasible == Spec => []PricesFeasible
<1>1. IInv => PricesFeasible
  BY DEF IInv
<1> QED
  BY <1>1, Invariance, PTL

-----------------------------------------------------------------------------
(* A row and a column whose prices are all the pair costs.                 *)
Tight(r, c) == u[r] + v[c] = cost[r][c]

(* The columns that hold rows, the root for the row to be placed while     *)
(* columns change hands, and the rows they hold: 1 to Count.               *)
Held == IF pc = "unwind" THEN (Side \cup {0}) \ {j0} ELSE Side
Count == IF pc = "unwind" THEN i ELSE i - 1

RowAtHand ==
  /\ i \in 1..(Dim(costs) + 1)
  /\ pc # "row" => i \in Side
  /\ pc = "search" => p[0] = i
  /\ pc = "unwind" => j0 \in Side

PlacedInv ==
  /\ RowAtHand
  /\ \A c \in Held : p[c] \in 0..Count
  /\ \A c, d \in Held : p[c] = p[d] /\ p[c] # 0 => c = d
  /\ \A r \in 1..Count : \E c \in Held : p[c] = r

(* A row placed is placed at no loss, and a column that holds none has not *)
(* been priced.                                                            *)
PriceInv ==
  /\ \A c \in Side : v[c] <= 0
  /\ \A r \in Side : r > i \/ (r = i /\ pc = "row") => u[r] = 0
  /\ \A r \in Side : u[r] >= 0
  /\ \A c \in Side \cap Held : IF p[c] = 0 THEN v[c] = 0 ELSE Tight(p[c], c)

(* The way back from a column at no loss, each step to a lower rank, until *)
(* the root is reached.                                                    *)
Ranks == [Side \cup {0} -> Nat]

Reached(j, rank) ==
  j # 0 => way[j] \in used /\ rank[way[j]] < rank[j] /\ p[way[j]] \in Side /\ Tight(p[way[j]], j)

Unreached(j) ==
  \/ minv[j] = Inf - u[i]
  \/ way[j] \in used /\ minv[j] = cost[p[way[j]]][j] - u[p[way[j]]] - v[j]

SearchRank(rank) ==
  /\ \A j \in used : rank[j] < rank[j0]
  /\ \A j \in Seen : Reached(j, rank)

UnwindRank(rank) == \A j \in Seen : rank[j] <= rank[j0] => Reached(j, rank)

SearchTree ==
  /\ 0 \in Seen
  /\ \E rank \in Ranks : SearchRank(rank)
  /\ \A j \in Free : Unreached(j)

UnwindTree == \E rank \in Ranks : UnwindRank(rank)

TreeInv == (pc = "search" => SearchTree) /\ (pc = "unwind" => UnwindTree)

PaddedInv == \E pad \in 0..(11 * Unit) : cost = Padded(costs, pad)

OInv == IInv /\ PlacedInv /\ PriceInv /\ TreeInv /\ PaddedInv

-----------------------------------------------------------------------------
(* The square has a side, column 0 is not on it, and no sum of a cost and  *)
(* the padding reaches what stands for infinity.                           *)
LEMMA SideIs ==
  ASSUME TypeOK
  PROVE  /\ Side = 1..Dim(costs) /\ Dim(costs) \in Nat \ {0}
         /\ 0 \notin Side
         /\ Inf \in Nat /\ 11 * Unit < Inf
<1>1. /\ Len(costs) \in Nat \ {0} /\ Len(costs[1]) \in Nat \ {0}
  BY MatricesAssumption DEF TypeOK
<1>2. Dim(costs) \in Nat \ {0}
  BY <1>1 DEF Dim
<1>3. Side = 1..Dim(costs)
  BY DEF TypeOK, Side
<1> QED
  BY <1>2, <1>3, UnitAssumption DEF Inf

LEMMA InitOInv ==
  ASSUME Init
  PROVE  OInv
<1>1. IInv
  BY InitInv
<1>2. /\ Side = 1..Dim(costs) /\ Dim(costs) \in Nat \ {0}
      /\ 0 \notin Side
  BY <1>1, SideIs DEF IInv
<1>3. pc = "row" /\ i = 1 /\ used = {} /\ j0 = 0 /\ (\A r \in Side : u[r] = 0 /\ v[r] = 0 /\ p[r] = 0)
  BY DEF Init
<1>4. PlacedInv
  BY <1>2, <1>3 DEF PlacedInv, RowAtHand, Held, Count
<1>5. PriceInv
  BY <1>2, <1>3 DEF PriceInv, Held
<1>6. PaddedInv
  <2>1. PICK largest \in 0..Unit : cost = Padded(costs, largest + 10 * Unit)
    BY DEF Init
  <2>2. largest + 10 * Unit \in 0..(11 * Unit)
    BY UnitAssumption
  <2> QED
    BY <2>1, <2>2 DEF PaddedInv
<1>7. TreeInv
  BY <1>3 DEF TreeInv
<1> QED
  BY <1>1, <1>4, <1>5, <1>6, <1>7 DEF OInv

LEMMA StartRowOInv ==
  ASSUME OInv, StartRow
  PROVE  OInv'
<1>1. IInv'
  BY StartRowInv DEF OInv
<1>2. TypeOK /\ TypeOK'
  BY <1>1 DEF IInv, OInv
<1>3. Side' = Side /\ 0 \notin Side
  BY <1>2, SideIs DEF StartRow, Side
<1>4. /\ pc = "row" /\ i \in Side /\ pc' = "search" /\ j0' = 0 /\ used' = {}
      /\ p'[0] = i /\ (\A c \in Side : p'[c] = p[c] /\ minv'[c] = Inf)
      /\ UNCHANGED <<costs, cost, i, u, v, way>>
  BY <1>2, <1>3 DEF StartRow, TypeOK
<1>5. PlacedInv'
  <2>1. Held = Side /\ Held' = Side /\ Count = i - 1 /\ Count' = i - 1
    BY <1>3, <1>4 DEF Held, Count
  <2>2. RowAtHand'
    BY <1>3, <1>4 DEF RowAtHand, OInv, PlacedInv
  <2> QED
    BY <1>4, <2>1, <2>2 DEF OInv, PlacedInv
<1>6. PriceInv'
  <2>1. Held = Side /\ Held' = Side
    BY <1>3, <1>4 DEF Held
  <2>2. \A c \in Side : IF p[c] = 0 THEN v[c] = 0 ELSE u[p[c]] + v[c] = cost[p[c]][c]
    BY <2>1 DEF OInv, PriceInv, Tight
  <2>3. /\ (\A c \in Side : v[c] <= 0)'
        /\ (\A r \in Side : r > i \/ (r = i /\ pc = "row") => u[r] = 0)'
        /\ (\A r \in Side : u[r] >= 0)'
    BY <1>3, <1>4 DEF OInv, PriceInv
  <2>4. (\A c \in Side \cap Held : IF p[c] = 0 THEN v[c] = 0 ELSE Tight(p[c], c))'
    BY <1>3, <1>4, <2>1, <2>2 DEF Tight
  <2> QED
    BY <2>3, <2>4 DEF PriceInv
<1>7. TreeInv'
  <2>1. Seen' = {0} /\ Free' = Side
    BY <1>3, <1>4 DEF Seen, Free
  <2>2. u[i] = 0
    BY <1>4 DEF OInv, PriceInv
  <2>3. (\A j \in Free : Unreached(j))'
    <3>1. Inf \in Nat /\ Inf' = Inf
      BY <1>2, SideIs DEF Inf
    <3> QED
      BY <1>4, <2>1, <2>2, <3>1 DEF Unreached
  <2>4. (\E rank \in Ranks : SearchRank(rank))'
    <3>1. PICK rank : rank = [j \in Side \cup {0} |-> 0]
      OBVIOUS
    <3>2. (rank \in Ranks)'
      BY <1>3, <3>1 DEF Ranks
    <3>3. SearchRank(rank)'
      BY <1>4, <2>1 DEF SearchRank, Reached
    <3> QED
      BY <3>2, <3>3
  <2> QED
    BY <1>4, <2>1, <2>3, <2>4 DEF TreeInv, SearchTree
<1>8. PaddedInv'
  BY <1>4 DEF OInv, PaddedInv
<1> QED
  BY <1>1, <1>5, <1>6, <1>7, <1>8 DEF OInv

-----------------------------------------------------------------------------
(* A column changes hands: it gets the row of the column it was reached    *)
(* from, at no loss; the ways of lower rank do not lead through it.        *)
LEMMA UnwindOInv ==
  ASSUME OInv, Unwind
  PROVE  OInv'
<1>1. IInv'
  BY UnwindInv DEF OInv
<1>2. TypeOK /\ TypeOK' /\ RowAtHand
  BY <1>1 DEF IInv, OInv, PlacedInv
<1>3. Side' = Side /\ 0 \notin Side /\ Side = 1..Dim(costs) /\ Dim(costs) \in Nat
  BY <1>2, SideIs DEF Unwind, Side
<1> DEFINE w == way[j0]
<1>4. /\ pc = "unwind" /\ j0 \in Side /\ i \in Side
      /\ p' = [p EXCEPT ![j0] = p[w]] /\ j0' = w
      /\ w = 0 => pc' = "row" /\ i' = i + 1
      /\ w # 0 => pc' = "unwind" /\ i' = i
      /\ UNCHANGED <<costs, cost, u, v, way, minv, used>>
  BY <1>2 DEF Unwind, AtRoot, RowAtHand
<1>5. PICK rank \in Ranks : UnwindRank(rank)
  BY <1>4 DEF OInv, TreeInv, UnwindTree
<1>6. w \in used /\ rank[w] < rank[j0] /\ p[w] \in Side /\ Tight(p[w], j0) /\ w # j0
  <2>1. rank[j0] \in Nat /\ j0 # 0
    BY <1>3, <1>4, <1>5 DEF Ranks
  <2> QED
    BY <1>3, <1>4, <1>5, <2>1 DEF UnwindRank, Reached, Seen
<1>7. used \subseteq Side \cup {0} /\ w \in Side \cup {0} /\ i \in Int
  BY <1>2, <1>3, <1>4, <1>6 DEF TypeOK
<1>8. /\ p'[j0] = p[w]
      /\ \A c \in Side \cup {0} : c # j0 => p'[c] = p[c]
  BY <1>2, <1>4 DEF TypeOK
<1> HIDE DEF w
<1>9. /\ Held = (Side \cup {0}) \ {j0} /\ Held' = (Held \ {w}) \cup {j0}
      /\ Count' = Count /\ Count = i
  BY <1>3, <1>4, <1>6, <1>7 DEF Held, Count
<1>10. PlacedInv'
  <2>1. RowAtHand'
    BY <1>2, <1>3, <1>4, <1>7 DEF RowAtHand
  <2>2. /\ \A c \in Held : p[c] \in 0..Count
        /\ \A c, d \in Held : p[c] = p[d] /\ p[c] # 0 => c = d
        /\ \A r \in 1..Count : \E c \in Held : p[c] = r
        /\ w \in Held
    BY <1>6, <1>7, <1>9 DEF OInv, PlacedInv
  <2>3. (\A c \in Held : p[c] \in 0..Count)'
    BY <1>8, <1>9, <2>2
  <2>4. (\A c, d \in Held : p[c] = p[d] /\ p[c] # 0 => c = d)'
    <3> SUFFICES ASSUME NEW c \in Held', NEW d \in Held', p'[c] = p'[d], p'[c] # 0
                 PROVE  c = d
      OBVIOUS
    <3>1. \A e \in Held' : e = j0 \/ (e \in Held /\ e # w /\ e # j0 /\ p'[e] = p[e])
      BY <1>8, <1>9
    <3> QED
      BY <1>8, <2>2, <3>1
  <2>5. (\A r \in 1..Count : \E c \in Held : p[c] = r)'
    <3> SUFFICES ASSUME NEW r \in 1..Count PROVE \E c \in Held' : p'[c] = r
      BY <1>9
    <3>1. PICK c \in Held : p[c] = r
      BY <2>2
    <3>2. CASE c = w
      BY <1>8, <1>9, <3>1, <3>2
    <3>3. CASE c # w
      BY <1>8, <1>9, <3>1, <3>3
    <3> QED
      BY <3>2, <3>3
  <2> QED
    BY <2>1, <2>3, <2>4, <2>5 DEF PlacedInv
<1>11. PriceInv'
  <2>1. /\ \A c \in Side : v[c] <= 0
        /\ \A r \in Side : r > i \/ (r = i /\ pc = "row") => u[r] = 0
        /\ \A r \in Side : u[r] >= 0
        /\ \A c \in Side \cap Held : IF p[c] = 0 THEN v[c] = 0 ELSE u[p[c]] + v[c] = cost[p[c]][c]
    BY DEF OInv, PriceInv, Tight
  <2>2. /\ (\A c \in Side : v[c] <= 0)'
        /\ (\A r \in Side : u[r] >= 0)'
    BY <1>3, <1>4, <2>1
  <2>3. (\A r \in Side : r > i \/ (r = i /\ pc = "row") => u[r] = 0)'
    <3> SUFFICES ASSUME NEW r \in Side, r > i' \/ (r = i' /\ pc' = "row") PROVE u'[r] = 0
      BY <1>3
    <3>1. r > i
      BY <1>3, <1>4, <1>7
    <3> QED
      BY <1>4, <2>1, <3>1
  <2>4. (\A c \in Side \cap Held : IF p[c] = 0 THEN v[c] = 0 ELSE Tight(p[c], c))'
    <3> SUFFICES ASSUME NEW c \in Side, c \in Held'
                 PROVE  IF p'[c] = 0 THEN v'[c] = 0 ELSE u'[p'[c]] + v'[c] = cost'[p'[c]][c]
      BY <1>3 DEF Tight
    <3>1. CASE c = j0
      <4>1. p'[c] = p[w] /\ p[w] # 0 /\ u[p[w]] + v[c] = cost[p[w]][c]
        BY <1>3, <1>6, <1>8, <3>1 DEF Tight
      <4> QED
        BY <1>4, <4>1
    <3>2. CASE c # j0
      <4>1. p'[c] = p[c] /\ c \in Held
        BY <1>8, <1>9, <3>2
      <4> QED
        BY <1>4, <2>1, <4>1
    <3> QED
      BY <3>1, <3>2
  <2> QED
    BY <2>2, <2>3, <2>4 DEF PriceInv
<1>12. TreeInv'
  <2>1. UnwindRank(rank)'
    <3> SUFFICES ASSUME NEW j \in used \cup {w}, rank[j] <= rank[w], j # 0
                 PROVE  /\ way[j] \in used /\ rank[way[j]] < rank[j] /\ p'[way[j]] \in Side
                        /\ u[p'[way[j]]] + v[j] = cost[p'[way[j]]][j]
      BY <1>3, <1>4 DEF UnwindRank, Reached, Seen, Tight
    <3>1. j \in used /\ j \in Seen
      BY <1>6 DEF Seen
    <3>2. /\ rank[j] \in Nat /\ rank[w] \in Nat /\ rank[j0] \in Nat
          /\ \A k \in used : rank[k] \in Nat
      BY <1>4, <1>5, <1>7, <3>1 DEF Ranks
    <3>3. Reached(j, rank)
      BY <1>5, <1>6, <3>1, <3>2 DEF UnwindRank
    <3>4. /\ way[j] \in used /\ rank[way[j]] < rank[j] /\ p[way[j]] \in Side
          /\ u[p[way[j]]] + v[j] = cost[p[way[j]]][j]
      BY <3>3 DEF Reached, Tight
    <3>5. way[j] # j0
      BY <1>6, <3>2, <3>4
    <3>6. p'[way[j]] = p[way[j]]
      BY <1>7, <1>8, <3>4, <3>5
    <3> QED
      BY <3>4, <3>6
  <2>2. (\E any \in Ranks : UnwindRank(any))'
    BY <1>3, <1>5, <2>1 DEF Ranks
  <2>3. pc' # "search"
    BY <1>4
  <2> QED
    BY <2>2, <2>3 DEF TreeInv, UnwindTree
<1>13. PaddedInv'
  BY <1>4 DEF OInv, PaddedInv
<1> QED
  BY <1>1, <1>10, <1>11, <1>12, <1>13 DEF OInv

-----------------------------------------------------------------------------
(* No cost is above the padding at its largest.                            *)
LEMMA CostBound ==
  ASSUME OInv
  PROVE  \A r, c \in Side : cost[r][c] \in 0..(11 * Unit)
<1>1. PICK pad \in 0..(11 * Unit) : cost = Padded(costs, pad)
  BY DEF OInv, PaddedInv
<1>2. TypeOK
  BY DEF OInv, IInv
<1>3. costs \in [1..Len(costs) -> [1..Len(costs[1]) -> 0..Unit]] /\ Len(costs) \in Nat \ {0}
  BY <1>2, MatricesAssumption DEF TypeOK
<1>4. \A r \in Rows(costs), c \in Cols(costs) : costs[r][c] \in 0..(11 * Unit)
  <2>1. costs[1] \in [1..Len(costs[1]) -> 0..Unit]
    BY <1>3
  <2>2. \A r \in Rows(costs) : costs[r] \in [1..Len(costs[1]) -> 0..Unit]
    BY <1>3 DEF Rows
  <2>3. 0..Unit \subseteq 0..(11 * Unit)
    BY UnitAssumption
  <2> QED
    BY <2>1, <2>2, <2>3 DEF Cols
<1>5. Side = 1..Dim(costs)
  BY <1>2, SideIs
<1> QED
  BY <1>1, <1>4, <1>5 DEF Padded

(* While a row is to be placed, some column holds none: it is free, and    *)
(* the search knows a way there that costs less than what stands for       *)
(* infinity.                                                               *)
LEMMA ColumnIsLeft ==
  ASSUME OInv, Search
  PROVE  \E f \in Free : p[f] = 0 /\ v[f] = 0
<1>1. TypeOK /\ RowAtHand /\ pc = "search" /\ \A k \in Seen : p[k] \in Side
  BY SearchMoves DEF OInv, IInv, PlacedInv
<1>2. Side = 1..Dim(costs) /\ Dim(costs) \in Nat \ {0} /\ 0 \notin Side
  BY <1>1, SideIs
<1>3. i \in Side /\ Held = Side /\ Count = i - 1
  BY <1>1 DEF RowAtHand, Held, Count
<1>4. PICK f \in Side : p[f] = 0
  <2> SUFFICES ASSUME \A f \in Side : p[f] # 0 PROVE FALSE
    OBVIOUS
  <2> DEFINE held == [c \in Side |-> p[c]]
             few == 1..(i - 1)
  <2>1. held \in [Side -> few]
    BY <1>2, <1>3 DEF OInv, PlacedInv
  <2>2. IsFiniteSet(Side) /\ Cardinality(Side) = Dim(costs)
    BY <1>2, FS_Interval
  <2>3. IsFiniteSet(few) /\ Cardinality(few) = i - 1
    <3>1. i - 1 \in Nat /\ 1 \in Int
      BY <1>2, <1>3
    <3>2. IsFiniteSet(few) /\ Cardinality(few) = IF 1 > i - 1 THEN 0 ELSE i - 1 - 1 + 1
      BY <3>1, FS_Interval
    <3> HIDE DEF few
    <3> QED
      BY <3>1, <3>2
  <2>4. Cardinality(few) < Cardinality(Side)
    BY <1>2, <1>3, <2>2, <2>3
  <2> HIDE DEF few
  <2>5. \E c, d \in Side : c # d /\ held[c] = held[d]
    <3> HIDE DEF held
    <3> QED
      BY <2>1, <2>2, <2>3, <2>4, FS_PigeonHole
  <2>6. \A c, d \in Side : p[c] = p[d] /\ p[c] # 0 => c = d
    BY <1>3 DEF OInv, PlacedInv
  <2> QED
    BY <2>5, <2>6
<1>5. f \in Free
  BY <1>1, <1>2, <1>4 DEF Free
<1>6. v[f] = 0
  BY <1>3, <1>4 DEF OInv, PriceInv
<1> QED
  BY <1>4, <1>5, <1>6

(* So a column that no row reached yet is never chosen.                    *)
LEMMA WayIsCheap ==
  ASSUME OInv, Search
  PROVE  \E f \in Free : Price[f] < Inf - u[i]
<1>1. PICK f \in Free : p[f] = 0 /\ v[f] = 0
  BY ColumnIsLeft
<1>2. /\ TypeOK /\ RowAtHand /\ SearchTree /\ pc = "search"
      /\ Price \in [Side -> Int]
      /\ \A k \in Seen, j \in Free : Price[j] <= cost[p[k]][j] - u[p[k]] - v[j]
  BY SearchMoves DEF OInv, IInv, PlacedInv, TreeInv
<1>3. 0 \in Seen /\ p[0] = i /\ i \in Side
  BY <1>2 DEF SearchTree, RowAtHand
<1>4. Price[f] <= cost[i][f] - u[i] - v[f]
  BY <1>2, <1>3
<1>5. cost[i][f] \in 0..(11 * Unit) /\ u[i] \in Int /\ Price[f] \in Int
  BY <1>2, <1>3, CostBound, Numbers DEF Free
<1>6. Inf \in Nat /\ 11 * Unit < Inf
  BY <1>2, SideIs
<1> QED
  BY <1>1, <1>4, <1>5, <1>6, UnitAssumption

(* A turn of the search: what was at no loss stays so, since prices of     *)
(* rows reached rise by what those of columns seen fall, and the column    *)
(* chosen is reached at no loss.                                           *)
LEMMA SearchOInv ==
  ASSUME OInv, Search
  PROVE  OInv'
<1>1. PICK j1 \in Free : /\ Price[j1] >= 0
                         /\ \A j \in Free : Price[j1] <= Price[j]
                         /\ Moves(j1, Price[j1])
  BY SearchMoves DEF OInv
<1>2. /\ pc = "search"
      /\ Seen \subseteq Side \cup {0}
      /\ \A k \in Seen : p[k] \in Side
      /\ Price \in [Side -> Int]
  BY SearchMoves DEF OInv
<1>3. IInv'
  BY SearchStepInv DEF OInv
<1>4. TypeOK /\ TypeOK' /\ RowAtHand /\ SearchTree
  BY <1>2, <1>3 DEF OInv, IInv, PlacedInv, TreeInv
<1>5. Side = 1..Dim(costs) /\ Dim(costs) \in Nat \ {0} /\ 0 \notin Side /\ Inf \in Nat
  BY <1>4, SideIs
<1>6. /\ \A r \in Side : u[r] \in Int
      /\ \A j \in Side \cup {0} : v[j] \in Int
      /\ \A j \in Side : minv[j] \in Int
      /\ \A r, c \in Side : cost[r][c] \in Nat
  BY <1>4, Numbers
<1>7. /\ 0 \in Seen /\ p[0] = i /\ i \in Side
      /\ Held = Side /\ Count = i - 1
      /\ Free = Side \ Seen /\ j1 \in Side
  BY <1>2, <1>4 DEF SearchTree, RowAtHand, Held, Count, Free
<1> DEFINE delta == Price[j1]
<1>8. /\ delta \in Int /\ delta >= 0 /\ delta < Inf - u[i]
      /\ \A j \in Free : delta <= Price[j]
      /\ Moves(j1, delta)
  <2>1. PICK f \in Free : Price[f] < Inf - u[i]
    BY WayIsCheap
  <2>2. delta \in Int /\ Price[f] \in Int /\ delta <= Price[f]
    BY <1>1, <1>2, <1>7
  <2> QED
    BY <1>1, <1>5, <1>6, <1>7, <2>1, <2>2
<1> HIDE DEF delta
<1>9. /\ used' = Seen /\ j0' = j1 /\ UNCHANGED <<costs, cost, i, p>> /\ Side' = Side
      /\ p[j1] = 0 => pc' = "unwind"
      /\ p[j1] # 0 => pc' = "search"
  BY <1>8 DEF Moves, Side
<1>10. /\ \A c \in Side : p[c] \in 0..(i - 1)
       /\ \A c, d \in Side : p[c] = p[d] /\ p[c] # 0 => c = d
       /\ \A r \in 1..(i - 1) : \E c \in Side : p[c] = r
  BY <1>7 DEF OInv, PlacedInv
<1>11. \A j \in Free : j \in Side /\ v'[j] = v[j] /\ minv'[j] = Price[j] - delta
  BY <1>7, <1>8 DEF Moves
<1>12. \A j \in Seen : j \in Side \cup {0} /\ v'[j] = v[j] - delta /\ u'[p[j]] = u[p[j]] + delta
  BY <1>2, <1>8 DEF Moves
<1>13. \A j \in Free : p[j] # 0 => u'[p[j]] = u[p[j]]
  <2> SUFFICES ASSUME NEW j \in Free, p[j] # 0 PROVE u'[p[j]] = u[p[j]]
    OBVIOUS
  <2>1. p[j] \in 1..(i - 1) /\ p[j] \in Side
    BY <1>5, <1>7, <1>10, <1>11
  <2>2. ~ \E k \in Seen : p[k] = p[j]
    <3> SUFFICES ASSUME NEW k \in Seen, p[k] = p[j] PROVE FALSE
      OBVIOUS
    <3>1. k # 0
      BY <1>5, <1>7, <2>1
    <3>2. k \in Side /\ j \in Side
      BY <1>2, <1>11, <3>1
    <3>3. k = j
      BY <1>10, <3>2
    <3> QED
      BY <1>7, <3>3
  <2> QED
    BY <1>8, <2>1, <2>2 DEF Moves
<1>14. \A r \in Side : u'[r] = u[r] \/ (u'[r] = u[r] + delta /\ r <= i)
  <2> SUFFICES ASSUME NEW r \in Side, NEW k \in Seen, p[k] = r PROVE r <= i
    BY <1>8 DEF Moves
  <2>1. k = 0 \/ k \in Side
    BY <1>2
  <2> QED
    BY <1>5, <1>7, <1>10, <2>1
<1>15. PlacedInv'
  <2>1. RowAtHand'
    BY <1>4, <1>7, <1>9 DEF RowAtHand
  <2>2. CASE p[j1] # 0
    <3>1. Held' = Side /\ Count' = i - 1
      BY <1>9, <2>2 DEF Held, Count
    <3> QED
      BY <1>9, <1>10, <2>1, <3>1 DEF PlacedInv
  <2>3. CASE p[j1] = 0
    <3>1. Held' = (Side \cup {0}) \ {j1} /\ Count' = i
      BY <1>9, <2>3 DEF Held, Count
    <3>2. (\A c \in Held : p[c] \in 0..Count)'
      BY <1>5, <1>7, <1>9, <1>10, <3>1
    <3>3. (\A c, d \in Held : p[c] = p[d] /\ p[c] # 0 => c = d)'
      BY <1>5, <1>7, <1>9, <1>10, <3>1
    <3>4. (\A r \in 1..Count : \E c \in Held : p[c] = r)'
      <4> SUFFICES ASSUME NEW r \in 1..i PROVE \E c \in Held' : p[c] = r
        BY <1>9, <3>1
      <4>1. CASE r = i
        BY <1>5, <1>7, <3>1, <4>1
      <4>2. CASE r # i
        <5>1. r \in 1..(i - 1)
          BY <1>5, <1>7, <4>2
        <5>2. PICK c \in Side : p[c] = r
          BY <1>10, <5>1
        <5> QED
          BY <2>3, <3>1, <5>2
      <4> QED
        BY <4>1, <4>2
    <3> QED
      BY <2>1, <3>2, <3>3, <3>4 DEF PlacedInv
  <2> QED
    BY <2>2, <2>3
<1>16. PriceInv'
  <2>1. /\ \A c \in Side : v[c] <= 0
        /\ \A r \in Side : r > i \/ (r = i /\ pc = "row") => u[r] = 0
        /\ \A r \in Side : u[r] >= 0
        /\ \A c \in Side : IF p[c] = 0 THEN v[c] = 0 ELSE u[p[c]] + v[c] = cost[p[c]][c]
    BY <1>7 DEF OInv, PriceInv, Tight
  <2>2. (\A c \in Side : v[c] <= 0)'
    <3> SUFFICES ASSUME NEW c \in Side PROVE v'[c] <= 0
      BY <1>9
    <3>1. c \in Free \/ c \in Seen
      BY <1>7
    <3> QED
      BY <1>6, <1>8, <1>11, <1>12, <2>1, <3>1
  <2>3. (\A r \in Side : u[r] >= 0)'
    BY <1>6, <1>8, <1>9, <1>14, <2>1
  <2>4. (\A r \in Side : r > i \/ (r = i /\ pc = "row") => u[r] = 0)'
    <3> SUFFICES ASSUME NEW r \in Side, r > i PROVE u'[r] = 0
      BY <1>9
    <3> QED
      BY <1>5, <1>7, <1>14, <2>1
  <2>5. (\A c \in Side \cap Held : IF p[c] = 0 THEN v[c] = 0 ELSE Tight(p[c], c))'
    <3> SUFFICES ASSUME NEW c \in Side
                 PROVE  IF p[c] = 0 THEN v'[c] = 0 ELSE u'[p[c]] + v'[c] = cost[p[c]][c]
      BY <1>9 DEF Tight
    <3>1. CASE p[c] = 0
      <4>1. c \in Free
        BY <1>2, <1>5, <1>7, <3>1
      <4> QED
        BY <1>11, <2>1, <3>1, <4>1
    <3>2. CASE p[c] # 0 /\ c \in Free
      BY <1>11, <1>13, <2>1, <3>2
    <3>3. CASE p[c] # 0 /\ c \in Seen
      <4>1. u[p[c]] \in Int /\ v[c] \in Int /\ cost[p[c]][c] \in Int
        BY <1>2, <1>6, <3>3
      <4> QED
        BY <1>8, <1>12, <2>1, <3>3, <4>1
    <3> QED
      BY <1>7, <3>1, <3>2, <3>3
  <2> QED
    BY <2>2, <2>3, <2>4, <2>5 DEF PriceInv
<1>17. PaddedInv'
  BY <1>9 DEF OInv, PaddedInv
<1>18. ASSUME NEW j \in Free, NEW k \in Seen, Price[j] = cost[p[k]][j] - u[p[k]] - v[j]
       PROVE  minv'[j] = cost[p[k]][j] - u'[p[k]] - v'[j]
  <2>1. minv'[j] = Price[j] - delta /\ v'[j] = v[j] /\ u'[p[k]] = u[p[k]] + delta
    BY <1>11, <1>12
  <2>2. cost[p[k]][j] \in Int /\ u[p[k]] \in Int /\ v[j] \in Int /\ Price[j] \in Int
    BY <1>2, <1>6, <1>11
  <2> QED
    BY <1>8, <1>18, <2>1, <2>2
(* How a free column is reached after this turn.                           *)
<1>19. ASSUME NEW j \in Free
       PROVE  \/ minv'[j] = Inf - u'[i] /\ Price[j] = Inf - u[i]
              \/ way'[j] \in Seen /\ (way'[j] = j0 \/ way'[j] \in used)
                 /\ minv'[j] = cost[p[way'[j]]][j] - u'[p[way'[j]]] - v'[j]
  <2>1. j \in Side /\ minv'[j] = Price[j] - delta
    BY <1>11
  <2>2. CASE Over(j) < minv[j]
    <3>1. Price[j] = Over(j) /\ way'[j] = j0 /\ j0 \in Seen
      BY <1>8, <2>1, <2>2 DEF Price, Moves, Seen
    <3>2. minv'[j] = cost[p[j0]][j] - u'[p[j0]] - v'[j]
      BY <1>18, <3>1 DEF Over
    <3> QED
      BY <3>1, <3>2
  <2>3. CASE ~(Over(j) < minv[j])
    <3>1. Price[j] = minv[j] /\ way'[j] = way[j]
      BY <1>8, <2>1, <2>3 DEF Price, Moves
    <3>2. CASE minv[j] = Inf - u[i]
      <4>1. u'[i] = u[i] + delta /\ u[i] \in Int
        BY <1>6, <1>7, <1>12
      <4> QED
        BY <1>5, <1>8, <2>1, <3>1, <3>2, <4>1
    <3>3. CASE way[j] \in used /\ minv[j] = cost[p[way[j]]][j] - u[p[way[j]]] - v[j]
      <4>1. way[j] \in Seen
        BY <3>3 DEF Seen
      <4>2. minv'[j] = cost[p[way[j]]][j] - u'[p[way[j]]] - v'[j]
        BY <1>18, <3>1, <3>3, <4>1
      <4> QED
        BY <3>1, <3>3, <4>1, <4>2
    <3> QED
      BY <1>4, <3>2, <3>3 DEF SearchTree, Unreached
  <2> QED
    BY <2>2, <2>3
<1>20. PICK rank \in Ranks : SearchRank(rank)
  BY <1>4 DEF SearchTree
<1>21. PICK next : next = [rank EXCEPT ![j1] = rank[j0] + 1]
  OBVIOUS
<1>22. /\ \A j \in Side \cup {0} : rank[j] \in Nat
       /\ j0 \in Seen /\ used \subseteq Seen /\ j1 \notin Seen
       /\ \A j \in used : rank[j] < rank[j0]
  BY <1>7, <1>20 DEF Ranks, Seen, SearchRank
<1>23. /\ next \in Ranks /\ next[j1] = rank[j0] + 1
       /\ \A j \in Seen : next[j] = rank[j] /\ next[j] < next[j1]
  <2>1. rank[j0] \in Nat
    BY <1>2, <1>22
  <2>2. next \in Ranks /\ next[j1] = rank[j0] + 1 /\ \A j \in Seen : next[j] = rank[j]
    BY <1>2, <1>7, <1>20, <1>22, <1>21, <2>1 DEF Ranks
  <2>3. \A j \in Seen : rank[j] < rank[j0] + 1
    <3> SUFFICES ASSUME NEW j \in Seen PROVE rank[j] < rank[j0] + 1
      OBVIOUS
    <3>1. rank[j] \in Nat /\ (j = j0 \/ j \in used)
      BY <1>2, <1>22 DEF Seen
    <3> QED
      BY <1>22, <2>1, <3>1
  <2> QED
    BY <2>2, <2>3
<1>24. ASSUME NEW j \in Seen, j # 0
       PROVE  /\ way'[j] \in Seen /\ next[way'[j]] < next[j] /\ p[way'[j]] \in Side
              /\ u'[p[way'[j]]] + v'[j] = cost[p[way'[j]]][j]
  <2>1. /\ way[j] \in used /\ rank[way[j]] < rank[j] /\ p[way[j]] \in Side
        /\ u[p[way[j]]] + v[j] = cost[p[way[j]]][j]
    BY <1>20, <1>24 DEF SearchRank, Reached, Tight
  <2>2. way'[j] = way[j]
    BY <1>2, <1>7, <1>8 DEF Moves
  <2>3. way[j] \in Seen /\ next[way[j]] = rank[way[j]] /\ next[j] = rank[j]
    BY <1>22, <1>23, <2>1
  <2>4. v'[j] = v[j] - delta /\ u'[p[way[j]]] = u[p[way[j]]] + delta
    BY <1>12, <2>3
  <2>5. v[j] \in Int /\ u[p[way[j]]] \in Int /\ cost[p[way[j]]][j] \in Int
    BY <1>2, <1>6, <1>24, <2>1
  <2> QED
    BY <1>8, <2>1, <2>2, <2>3, <2>4, <2>5
<1>25. /\ way'[j1] \in Seen /\ next[way'[j1]] < next[j1] /\ p[way'[j1]] \in Side
       /\ u'[p[way'[j1]]] + v'[j1] = cost[p[way'[j1]]][j1]
  <2>1. way'[j1] \in Seen /\ minv'[j1] = cost[p[way'[j1]]][j1] - u'[p[way'[j1]]] - v'[j1]
    <3>1. Price[j1] # Inf - u[i]
      BY <1>5, <1>6, <1>7, <1>8 DEF delta
    <3> QED
      BY <1>19, <3>1
  <2>2. minv'[j1] = 0
    BY <1>8, <1>11 DEF delta
  <2>3. p[way'[j1]] \in Side
    BY <1>2, <2>1
  <2>4. u'[p[way'[j1]]] \in Int /\ v'[j1] \in Int /\ cost[p[way'[j1]]][j1] \in Int
    BY <1>6, <1>7, <1>8, <1>11, <1>12, <2>1, <2>3
  <2> QED
    BY <1>23, <2>1, <2>2, <2>3, <2>4
<1>26. TreeInv'
  <2>1. Seen' = Seen \cup {j1} /\ Free' = Free \ {j1}
    BY <1>7, <1>9 DEF Seen, Free
  <2>2. \A j \in Seen \cup {j1} : j # 0 =>
          /\ way'[j] \in used' /\ next[way'[j]] < next[j] /\ p'[way'[j]] \in Side'
          /\ u'[p'[way'[j]]] + v'[j] = cost'[p'[way'[j]]][j]
    BY <1>9, <1>24, <1>25
  <2>3. SearchRank(next)'
    BY <1>9, <1>23, <2>1, <2>2 DEF SearchRank, Reached, Tight
  <2>4. UnwindRank(next)'
    BY <2>3 DEF SearchRank, UnwindRank
  <2>5. (next \in Ranks)'
    BY <1>9, <1>23 DEF Ranks
  <2>6. (\A j \in Free : Unreached(j))'
    <3> SUFFICES ASSUME NEW j \in Free
                 PROVE  \/ minv'[j] = Inf' - u'[i']
                        \/ way'[j] \in used' /\ minv'[j] = cost'[p'[way'[j]]][j] - u'[p'[way'[j]]] - v'[j]
      BY <2>1 DEF Unreached
    <3>1. Inf' = Inf
      BY DEF Inf
    <3> QED
      BY <1>9, <1>19, <3>1
  <2>7. (0 \in Seen)'
    BY <1>7, <2>1
  <2>8. pc' \in {"search", "unwind"}
    BY <1>9
  <2>9. SearchTree'
    BY <2>3, <2>5, <2>6, <2>7 DEF SearchTree
  <2>10. UnwindTree'
    BY <2>4, <2>5 DEF UnwindTree
  <2> QED
    BY <2>9, <2>10 DEF TreeInv
<1> QED
  BY <1>3, <1>15, <1>16, <1>17, <1>26 DEF OInv

-----------------------------------------------------------------------------
(* Induction over the subsets of a finite set.                             *)
LEMMA SubsetInduction ==
  ASSUME NEW S, IsFiniteSet(S), NEW Good,
         \A T \in SUBSET S : (\A x \in T : T \ {x} \in Good) => T \in Good
  PROVE  S \in Good
<1> DEFINE Bad == {T \in SUBSET S : T \notin Good}
<1> SUFFICES ASSUME S \notin Good PROVE FALSE
  OBVIOUS
<1>1. \E T \in Bad : \A A \in Bad : ~ (<<A, T>> \in StrictSubsetOrdering(S))
  <2>1. Bad # {} /\ Bad \subseteq FiniteSubsetsOf(S)
    BY FS_FiniteSubsetsOfFinite
  <2> HIDE DEF Bad
  <2> QED
    BY <2>1, FS_StrictSubsetOrderingWellFounded, WFMin, Zenon
<1>2. PICK T \in Bad : \A A \in Bad : ~ (<<A, T>> \in StrictSubsetOrdering(S))
  BY <1>1
<1>3. PICK x \in T : T \ {x} \notin Good
  BY <1>2
<1>4. T \ {x} \in Bad /\ <<T \ {x}, T>> \in StrictSubsetOrdering(S)
  <2>1. T \in SUBSET S /\ T \ {x} \in SUBSET S /\ T \ {x} # T
    BY <1>2, <1>3
  <2> QED
    BY <1>3, <2>1 DEF StrictSubsetOrdering
<1> QED
  BY <1>2, <1>4

(* The sums of f over the subsets of S, one element after the other.       *)
Some(s) == CHOOSE x \in s : TRUE
Adds(g, f, S) ==
  g = [s \in SUBSET S |-> IF s = {} THEN 0 ELSE f[Some(s)] + g[s \ {Some(s)}]]

LEMMA SomeIsIn == \A s : s # {} => Some(s) \in s
BY DEF Some

(* The sum is that of one of the functions that add up so.                 *)
LEMMA SumChosen ==
  ASSUME NEW S, NEW f
  PROVE  SumFunctionOnSet(f, S) = (CHOOSE g : Adds(g, f, S))[S]
<1>1. SumFunctionOnSet(f, S) =
        (CHOOSE g : g = [s \in SUBSET S |->
           IF s = {} THEN 0 ELSE f[CHOOSE x \in s : TRUE] + g[s \ {CHOOSE x \in s : TRUE}]])[S]
  BY DEF SumFunctionOnSet, FoldFunctionOnSet, MapThenFoldSet
<1> QED
  BY <1>1 DEF Adds, Some

LEMMA AddsOne ==
  ASSUME NEW S, NEW f, NEW g, Adds(g, f, S), NEW s \in SUBSET S
  PROVE  /\ s = {} => g[s] = 0
         /\ s # {} => Some(s) \in s /\ g[s] = f[Some(s)] + g[s \ {Some(s)}]
<1>1. g[s] = IF s = {} THEN 0 ELSE f[Some(s)] + g[s \ {Some(s)}]
  BY Zenon DEF Adds
<1> QED
  BY <1>1, SomeIsIn

(* On a finite set there is one such function at most, and at least one:   *)
(* two of them cannot differ first on any subset.                          *)
LEMMA SumsAgree ==
  ASSUME NEW S, NEW T, NEW f, NEW g, NEW h, Adds(g, f, S), Adds(h, f, T),
         NEW r \in SUBSET S, r \in SUBSET T, IsFiniteSet(r)
  PROVE  g[r] = h[r]
<1> DEFINE Good == {s \in SUBSET r : g[s] = h[s]}
<1>1. ASSUME NEW s \in SUBSET r, \A x \in s : s \ {x} \in Good
      PROVE  s \in Good
  <2>1. CASE s = {}
    BY <2>1, AddsOne
  <2>2. CASE s # {}
    <3>1. g[s] = f[Some(s)] + g[s \ {Some(s)}] /\ h[s] = f[Some(s)] + h[s \ {Some(s)}]
      BY <2>2, AddsOne
    <3>2. g[s \ {Some(s)}] = h[s \ {Some(s)}]
      BY <1>1, <2>2, SomeIsIn
    <3> QED
      BY <3>1, <3>2
  <2> QED
    BY <2>1, <2>2
<1> HIDE DEF Good
<1>2. r \in Good
  BY <1>1, SubsetInduction
<1> QED
  BY <1>2 DEF Good

LEMMA SumIsAdded ==
  ASSUME NEW S, NEW f, NEW g, Adds(g, f, S), NEW s \in SUBSET S, IsFiniteSet(s)
  PROVE  SumFunctionOnSet(f, s) = g[s]
<1> DEFINE part == [r \in SUBSET s |-> g[r]]
<1>1. Adds(part, f, s)
  <2>1. ASSUME NEW r \in SUBSET s
        PROVE  part[r] = IF r = {} THEN 0 ELSE f[Some(r)] + part[r \ {Some(r)}]
    <3>1. r \in SUBSET S /\ part[r] = g[r] /\ part[r \ {Some(r)}] = g[r \ {Some(r)}]
      OBVIOUS
    <3> HIDE DEF part
    <3>2. (r = {} => g[r] = 0) /\ (r # {} => g[r] = f[Some(r)] + g[r \ {Some(r)}])
      BY <3>1, AddsOne
    <3> QED
      BY <3>1, <3>2
  <2> QED
    BY <2>1, Zenon DEF Adds
<1> HIDE DEF part
<1>2. PICK h : Adds(h, f, s) /\ SumFunctionOnSet(f, s) = h[s]
  BY <1>1, SumChosen, Zenon
<1> QED
  BY <1>2, SumsAgree

LEMMA SumsExist ==
  ASSUME NEW S, IsFiniteSet(S), NEW f
  PROVE  \E g : Adds(g, f, S)
<1> DEFINE Good == {T \in SUBSET S : \E g : Adds(g, f, T)}
<1>1. ASSUME NEW T \in SUBSET S, \A x \in T : T \ {x} \in Good
      PROVE  T \in Good
  <2> DEFINE g == [s \in SUBSET T |->
                     IF s = {} THEN 0 ELSE f[Some(s)] + SumFunctionOnSet(f, s \ {Some(s)})]
  <2>1. ASSUME NEW s \in SUBSET T, s # {}
        PROVE  g[s \ {Some(s)}] = SumFunctionOnSet(f, s \ {Some(s)})
    <3> DEFINE r == s \ {Some(s)}
    <3>1. Some(s) \in T /\ r \in SUBSET (T \ {Some(s)}) /\ r \in SUBSET T
      BY <2>1, SomeIsIn
    <3>2. PICK h : Adds(h, f, T \ {Some(s)})
      BY <1>1, <3>1
    <3>3. IsFiniteSet(r) /\ IsFiniteSet(r \ {Some(r)})
      BY <3>1, FS_Subset
    <3> HIDE DEF r
    <3>4. SumFunctionOnSet(f, r) = h[r]
      BY <3>1, <3>2, <3>3, SumIsAdded
    <3>5. SumFunctionOnSet(f, r \ {Some(r)}) = h[r \ {Some(r)}]
      BY <3>1, <3>2, <3>3, SumIsAdded
    <3>6. h[r] = IF r = {} THEN 0 ELSE f[Some(r)] + h[r \ {Some(r)}]
      BY <3>1, <3>2, AddsOne
    <3>7. g[r] = IF r = {} THEN 0 ELSE f[Some(r)] + SumFunctionOnSet(f, r \ {Some(r)})
      BY <3>1
    <3> QED
      BY <3>4, <3>5, <3>6, <3>7 DEF r
  <2>2. ASSUME NEW s \in SUBSET T
        PROVE  g[s] = IF s = {} THEN 0 ELSE f[Some(s)] + g[s \ {Some(s)}]
    BY <2>1
  <2>3. Adds(g, f, T)
    BY <2>2, Zenon DEF Adds
  <2> QED
    BY <2>3
<1> HIDE DEF Good
<1>2. S \in Good
  BY <1>1, SubsetInduction
<1> QED
  BY <1>2 DEF Good

(* The sum of a set is its first element and the sum of the others.        *)
LEMMA SumFirst ==
  ASSUME NEW S, IsFiniteSet(S), NEW f
  PROVE  /\ SumFunctionOnSet(f, {}) = 0
         /\ S # {} => SumFunctionOnSet(f, S) = f[Some(S)] + SumFunctionOnSet(f, S \ {Some(S)})
<1>1. PICK g : Adds(g, f, S)
  BY SumsExist
<1>2. IsFiniteSet({}) /\ IsFiniteSet(S \ {Some(S)})
  BY FS_EmptySet, FS_Subset
<1>3. SumFunctionOnSet(f, {}) = g[{}] /\ SumFunctionOnSet(f, S) = g[S]
      /\ SumFunctionOnSet(f, S \ {Some(S)}) = g[S \ {Some(S)}]
  BY <1>1, <1>2, SumIsAdded
<1>4. (S # {} => g[S] = f[Some(S)] + g[S \ {Some(S)}]) /\ g[{}] = 0
  <2>1. {} \in SUBSET S /\ S \in SUBSET S
    OBVIOUS
  <2>2. g[{}] = 0
    BY <1>1, <2>1, AddsOne
  <2>3. S # {} => g[S] = f[Some(S)] + g[S \ {Some(S)}]
    BY <1>1, <2>1, AddsOne
  <2> QED
    BY <2>2, <2>3
<1> QED
  BY <1>3, <1>4

LEMMA SumType ==
  ASSUME NEW S, IsFiniteSet(S), NEW f, \A x \in S : f[x] \in Int
  PROVE  SumFunctionOnSet(f, S) \in Int
<1> DEFINE Good == {T \in SUBSET S : SumFunctionOnSet(f, T) \in Int}
<1>1. ASSUME NEW T \in SUBSET S, \A x \in T : T \ {x} \in Good
      PROVE  T \in Good
  <2>1. IsFiniteSet(T)
    BY FS_Subset
  <2>2. CASE T = {}
    BY <2>1, <2>2, SumFirst
  <2>3. CASE T # {}
    <3>1. SumFunctionOnSet(f, T \ {Some(T)}) \in Int /\ f[Some(T)] \in Int
      BY <1>1, <2>3, SomeIsIn
    <3>2. SumFunctionOnSet(f, T) = f[Some(T)] + SumFunctionOnSet(f, T \ {Some(T)})
      BY <2>1, <2>3, SumFirst
    <3>3. SumFunctionOnSet(f, T) \in Int
      BY <3>1, <3>2
    <3> QED
      BY <3>3
  <2> QED
    BY <2>2, <2>3
<1> HIDE DEF Good
<1>2. S \in Good
  BY <1>1, SubsetInduction
<1> QED
  BY <1>2 DEF Good

(* Any element may be taken out first: two may be taken out in either      *)
(* order.                                                                  *)
LEMMA SumWithout ==
  ASSUME NEW S, IsFiniteSet(S), NEW f, \A x \in S : f[x] \in Int, NEW y \in S
  PROVE  SumFunctionOnSet(f, S) = f[y] + SumFunctionOnSet(f, S \ {y})
<1> DEFINE Good == {T \in SUBSET S :
                      \A x \in T : SumFunctionOnSet(f, T) = f[x] + SumFunctionOnSet(f, T \ {x})}
<1>1. ASSUME NEW T \in SUBSET S, \A x \in T : T \ {x} \in Good
      PROVE  T \in Good
  <2> SUFFICES ASSUME NEW x \in T
               PROVE  SumFunctionOnSet(f, T) = f[x] + SumFunctionOnSet(f, T \ {x})
    OBVIOUS
  <2> DEFINE z == Some(T)
  <2>1. /\ IsFiniteSet(T) /\ IsFiniteSet((T \ {x}) \ {z})
        /\ z \in T /\ f[x] \in Int /\ f[z] \in Int
    BY FS_Subset, SomeIsIn
  <2>2. SumFunctionOnSet(f, T) = f[z] + SumFunctionOnSet(f, T \ {z})
    BY <2>1, SumFirst
  <2>3. CASE x = z
    BY <2>2, <2>3
  <2>4. CASE x # z
    <3> HIDE DEF z
    <3>1. SumFunctionOnSet(f, T \ {z}) = f[x] + SumFunctionOnSet(f, (T \ {z}) \ {x})
      BY <1>1, <2>1, <2>4
    <3>2. SumFunctionOnSet(f, T \ {x}) = f[z] + SumFunctionOnSet(f, (T \ {x}) \ {z})
      BY <1>1, <2>1, <2>4
    <3>3. (T \ {z}) \ {x} = (T \ {x}) \ {z}
      OBVIOUS
    <3>4. SumFunctionOnSet(f, (T \ {x}) \ {z}) \in Int
      BY <2>1, SumType
    <3>5. SumFunctionOnSet(f, T) = f[z] + (f[x] + SumFunctionOnSet(f, (T \ {x}) \ {z}))
      BY <2>2, <3>1, <3>3
    <3> QED
      BY <2>1, <3>2, <3>4, <3>5
  <2> QED
    BY <2>3, <2>4
<1> HIDE DEF Good
<1>2. S \in Good
  BY <1>1, SubsetInduction
<1> QED
  BY <1>2 DEF Good

(* Nothing adds up to 0.                                                   *)
LEMMA SumEmpty == \A f : SumFunctionOnSet(f, {}) = 0
BY SumFirst, FS_EmptySet

(* Sums of three functions, one the sum of the others or no less than it.  *)
LEMMA SumPlus ==
  ASSUME NEW S, IsFiniteSet(S), NEW f, NEW g, NEW h,
         \A x \in S : f[x] \in Int /\ g[x] \in Int /\ h[x] = f[x] + g[x]
  PROVE  SumFunctionOnSet(h, S) = SumFunctionOnSet(f, S) + SumFunctionOnSet(g, S)
<1> DEFINE F(T) == SumFunctionOnSet(f, T)
           G(T) == SumFunctionOnSet(g, T)
           H(T) == SumFunctionOnSet(h, T)
           Good == {T \in SUBSET S : H(T) = F(T) + G(T)}
<1>1. ASSUME NEW T \in SUBSET S, \A x \in T : T \ {x} \in Good
      PROVE  T \in Good
  <2>1. CASE T = {}
    <3>1. F(T) = 0 /\ G(T) = 0 /\ H(T) = 0
      BY <2>1, SumEmpty
    <3> QED
      BY <3>1
  <2>2. CASE T # {}
    <3>1. PICK x \in T : TRUE
      BY <2>2
    <3>2. IsFiniteSet(T) /\ IsFiniteSet(T \ {x})
      BY FS_Subset
    <3>3. F(T) = f[x] + F(T \ {x})
      BY <3>2, SumWithout
    <3>4. G(T) = g[x] + G(T \ {x})
      BY <3>2, SumWithout
    <3>5. H(T) = h[x] + H(T \ {x})
      BY <3>2, SumWithout
    <3>6. F(T \ {x}) \in Int /\ G(T \ {x}) \in Int
      BY <3>2, SumType
    <3>7. H(T \ {x}) = F(T \ {x}) + G(T \ {x})
      BY <1>1
    <3>8. f[x] \in Int /\ g[x] \in Int /\ h[x] = f[x] + g[x]
      OBVIOUS
    <3> HIDE DEF F, G, H
    <3>9. H(T) = F(T) + G(T)
      BY <3>3, <3>4, <3>5, <3>6, <3>7, <3>8
    <3> QED
      BY <3>9
  <2> QED
    BY <2>1, <2>2
<1> HIDE DEF Good
<1>2. S \in Good
  BY <1>1, SubsetInduction
<1> QED
  BY <1>2 DEF Good

LEMMA SumAtMost ==
  ASSUME NEW S, IsFiniteSet(S), NEW f, NEW g,
         \A x \in S : f[x] \in Int /\ g[x] \in Int /\ f[x] <= g[x]
  PROVE  SumFunctionOnSet(f, S) <= SumFunctionOnSet(g, S)
<1> DEFINE F(T) == SumFunctionOnSet(f, T)
           G(T) == SumFunctionOnSet(g, T)
           Good == {T \in SUBSET S : F(T) <= G(T)}
<1>1. ASSUME NEW T \in SUBSET S, \A x \in T : T \ {x} \in Good
      PROVE  T \in Good
  <2>1. CASE T = {}
    <3>1. F(T) = 0 /\ G(T) = 0
      BY <2>1, SumEmpty
    <3> QED
      BY <3>1
  <2>2. CASE T # {}
    <3>1. PICK x \in T : TRUE
      BY <2>2
    <3>2. IsFiniteSet(T) /\ IsFiniteSet(T \ {x})
      BY FS_Subset
    <3>3. F(T) = f[x] + F(T \ {x})
      BY <3>2, SumWithout
    <3>4. G(T) = g[x] + G(T \ {x})
      BY <3>2, SumWithout
    <3>5. F(T \ {x}) \in Int /\ G(T \ {x}) \in Int
      BY <3>2, SumType
    <3>6. F(T \ {x}) <= G(T \ {x})
      BY <1>1
    <3>7. f[x] \in Int /\ g[x] \in Int /\ f[x] <= g[x]
      OBVIOUS
    <3> HIDE DEF F, G
    <3>8. F(T) <= G(T)
      BY <3>3, <3>4, <3>5, <3>6, <3>7
    <3> QED
      BY <3>8
  <2> QED
    BY <2>1, <2>2
<1> HIDE DEF Good
<1>2. S \in Good
  BY <1>1, SubsetInduction
<1> QED
  BY <1>2 DEF Good

(* Adding up along a renaming that keeps elements apart.                   *)
LEMMA SumRenamed ==
  ASSUME NEW S, IsFiniteSet(S), NEW f, NEW k, NEW name,
         \A x \in S : f[x] \in Int /\ f[x] = k[name[x]],
         \A x, y \in S : name[x] = name[y] => x = y
  PROVE  SumFunctionOnSet(f, S) = SumFunctionOnSet(k, {name[x] : x \in S})
<1> DEFINE F(T) == SumFunctionOnSet(f, T)
           K(T) == SumFunctionOnSet(k, T)
           Names(T) == {name[x] : x \in T}
           Good == {T \in SUBSET S : F(T) = K(Names(T)) /\ IsFiniteSet(Names(T))}
<1>1. ASSUME NEW T \in SUBSET S, \A x \in T : T \ {x} \in Good
      PROVE  T \in Good
  <2>1. CASE T = {}
    <3>1. Names(T) = {}
      BY <2>1
    <3>2. F(T) = 0 /\ K(Names(T)) = 0 /\ IsFiniteSet(Names(T))
      BY <2>1, <3>1, SumEmpty, FS_EmptySet
    <3> QED
      BY <3>2
  <2>2. CASE T # {}
    <3>1. PICK x \in T : TRUE
      BY <2>2
    <3>2. IsFiniteSet(T) /\ IsFiniteSet(T \ {x})
      BY FS_Subset
    <3>3. F(T) = f[x] + F(T \ {x})
      BY <3>2, SumWithout
    <3>4. name[x] \in Names(T) /\ Names(T) \ {name[x]} = Names(T \ {x})
      OBVIOUS
    <3>5. F(T \ {x}) = K(Names(T \ {x})) /\ IsFiniteSet(Names(T \ {x}))
      BY <1>1
    <3>6. Names(T) = Names(T \ {x}) \cup {name[x]}
      OBVIOUS
    <3> DEFINE others == Names(T \ {x})
    <3>7. IsFiniteSet(Names(T))
      <4>1. IsFiniteSet(others) /\ Names(T) = others \cup {name[x]}
        BY <3>5, <3>6
      <4> HIDE DEF others, Names
      <4>2. IsFiniteSet(others \cup {name[x]})
        BY <4>1, FS_AddElement
      <4> QED
        BY <4>1, <4>2
    <3>8. \A y \in Names(T) : k[y] \in Int
      OBVIOUS
    <3>9. f[x] = k[name[x]]
      OBVIOUS
    <3> HIDE DEF Names
    <3>10. K(Names(T)) = k[name[x]] + K(Names(T) \ {name[x]})
      BY <3>4, <3>7, <3>8, SumWithout
    <3>11. F(T) = K(Names(T))
      BY <3>3, <3>4, <3>5, <3>9, <3>10
    <3> QED
      BY <3>7, <3>11
  <2> QED
    BY <2>1, <2>2
<1> HIDE DEF Good
<1>2. S \in Good
  BY <1>1, SubsetInduction
<1> QED
  BY <1>2 DEF Good

(* The elements that are not positive have the least sum, if no other      *)
(* element is negative.                                                    *)
LEMMA SumOfLeast ==
  ASSUME NEW Y, IsFiniteSet(Y), NEW A \in SUBSET Y, NEW B \in SUBSET Y, NEW f,
         \A y \in Y : f[y] \in Int,
         \A y \in A : f[y] <= 0,
         \A y \in Y \ A : f[y] >= 0
  PROVE  SumFunctionOnSet(f, A) <= SumFunctionOnSet(f, B)
<1> DEFINE F(T) == SumFunctionOnSet(f, T)
           Good == {T \in SUBSET Y : F(T \cap A) <= F(T \cap B)}
<1>1. ASSUME NEW T \in SUBSET Y, \A x \in T : T \ {x} \in Good
      PROVE  T \in Good
  <2>1. CASE T = {}
    <3>1. T \cap A = {} /\ T \cap B = {}
      BY <2>1
    <3>2. F(T \cap A) = 0 /\ F(T \cap B) = 0
      BY <3>1, SumEmpty
    <3> QED
      BY <3>2
  <2>2. CASE T # {}
    <3>1. PICK x \in T : TRUE
      BY <2>2
    <3> DEFINE a == T \cap A
               b == T \cap B
    <3>2. /\ (T \ {x}) \cap A = a \ {x} /\ (T \ {x}) \cap B = b \ {x}
          /\ IsFiniteSet(a) /\ IsFiniteSet(b) /\ IsFiniteSet(a \ {x}) /\ IsFiniteSet(b \ {x})
          /\ a \in SUBSET Y /\ b \in SUBSET Y /\ x \in Y
      BY FS_Subset
    <3>3. F(a \ {x}) <= F(b \ {x})
      BY <1>1, <3>2
    <3>4. (x \in a <=> x \in A) /\ (x \in b <=> x \in B)
      OBVIOUS
    <3> HIDE DEF a, b
    <3>5. F(a \ {x}) \in Int /\ F(b \ {x}) \in Int
      BY <3>2, SumType
    <3>6. ASSUME NEW s \in SUBSET Y, IsFiniteSet(s)
          PROVE  F(s) = IF x \in s THEN f[x] + F(s \ {x}) ELSE F(s \ {x})
      <4>1. x \notin s => s \ {x} = s
        OBVIOUS
      <4>2. x \in s => F(s) = f[x] + F(s \ {x})
        BY <3>6, SumWithout
      <4> QED
        BY <4>1, <4>2
    <3>7. /\ F(a) = IF x \in a THEN f[x] + F(a \ {x}) ELSE F(a \ {x})
          /\ F(b) = IF x \in b THEN f[x] + F(b \ {x}) ELSE F(b \ {x})
      BY <3>2, <3>6
    <3>8. f[x] \in Int /\ (x \in a => f[x] <= 0) /\ (x \notin a => f[x] >= 0)
      BY <3>2, <3>4
    <3> HIDE DEF F
    <3>9. F(a) <= F(b)
      BY <3>3, <3>5, <3>7, <3>8
    <3> QED
      BY <3>9 DEF a, b, F
  <2> QED
    BY <2>1, <2>2
<1> HIDE DEF Good
<1>2. Y \in Good
  BY <1>1, SubsetInduction
<1>3. Y \cap A = A /\ Y \cap B = B
  OBVIOUS
<1> QED
  BY <1>2, <1>3 DEF Good

-----------------------------------------------------------------------------
(* The values that the members of T show in one respect.                   *)
Shown(T, name) == {name[x] : x \in T}

(* Pairs that all differ in one respect, as many as there are values of    *)
(* it, show every value.                                                   *)
LEMMA EveryValueShown ==
  ASSUME NEW A, NEW V, IsFiniteSet(V), NEW name,
         \A x \in A : name[x] \in V,
         \A x, y \in A : name[x] = name[y] => x = y
  PROVE  /\ IsFiniteSet(A)
         /\ Cardinality(A) = Cardinality(V) <=> Shown(A, name) = V
<1> DEFINE named == [x \in A |-> name[x]]
<1>1. named \in Surjection(A, V) <=> \A y \in V : \E x \in A : named[x] = y
  BY DEF Surjection
<1>2. Shown(A, name) = V <=> \A y \in V : \E x \in A : named[x] = y
  BY DEF Shown
<1>3. named \in Injection(A, V)
  BY DEF Injection, IsInjective
<1> HIDE DEF named
<1>4. IsFiniteSet(A) /\ (Cardinality(A) = Cardinality(V) <=> named \in Surjection(A, V))
  BY <1>3, FS_Injection
<1> QED
  BY <1>1, <1>4, <1>2

(* Sums over pairs, none of which agree in either respect, of a price for  *)
(* the one and a price for the other.                                      *)
Splits(f, T, K, W, one, other) ==
  /\ IsFiniteSet(T)
  /\ \A x \in T : K[one[x]] \in Int /\ W[other[x]] \in Int /\ f[x] = K[one[x]] + W[other[x]]
  /\ \A x, y \in T : one[x] = one[y] => x = y
  /\ \A x, y \in T : other[x] = other[y] => x = y

LEMMA SumSplit ==
  ASSUME NEW f, NEW T, NEW K, NEW W, NEW one, NEW other, Splits(f, T, K, W, one, other)
  PROVE  /\ SumFunctionOnSet(K, Shown(T, one)) \in Int
         /\ SumFunctionOnSet(W, Shown(T, other)) \in Int
         /\ SumFunctionOnSet(f, T) =
              SumFunctionOnSet(K, Shown(T, one)) + SumFunctionOnSet(W, Shown(T, other))
<1> DEFINE g == [x \in T |-> K[one[x]]]
           h == [x \in T |-> W[other[x]]]
<1> USE DEF Splits
<1>1. \A x \in T : g[x] \in Int /\ g[x] = K[one[x]] /\ h[x] \in Int /\ h[x] = W[other[x]]
                   /\ f[x] = g[x] + h[x]
  OBVIOUS
<1> HIDE DEF g, h
<1>2. SumFunctionOnSet(f, T) = SumFunctionOnSet(g, T) + SumFunctionOnSet(h, T)
  BY <1>1, SumPlus
<1>3. SumFunctionOnSet(g, T) = SumFunctionOnSet(K, Shown(T, one))
  BY <1>1, SumRenamed DEF Shown
<1>4. SumFunctionOnSet(h, T) = SumFunctionOnSet(W, Shown(T, other))
  BY <1>1, SumRenamed DEF Shown
<1>5. SumFunctionOnSet(g, T) \in Int
  BY <1>1, SumType
<1>6. SumFunctionOnSet(h, T) \in Int
  BY <1>1, SumType
<1> QED
  BY <1>2, <1>3, <1>4, <1>5, <1>6

(* Two sets of pairs show the same values in one respect and none twice in *)
(* the other.  If those of A are paid for exactly, those of B at least,    *)
(* and A takes every value whose price is negative and none whose price is *)
(* positive, then A costs no more.                                         *)
Undercuts(A, B, Z, Y, f, K, W, one, other) ==
  /\ IsFiniteSet(Z) /\ A \in SUBSET Z /\ B \in SUBSET Z /\ IsFiniteSet(Y)
  /\ \A x \in Z : f[x] \in Int /\ K[one[x]] \in Int /\ other[x] \in Y
  /\ \A y \in Y : W[y] \in Int
  /\ \A x, y \in A : one[x] = one[y] \/ other[x] = other[y] => x = y
  /\ \A x, y \in B : one[x] = one[y] \/ other[x] = other[y] => x = y
  /\ Shown(A, one) = Shown(B, one)
  /\ \A x \in A : f[x] = K[one[x]] + W[other[x]] /\ W[other[x]] <= 0
  /\ \A x \in B : K[one[x]] + W[other[x]] <= f[x]
  /\ \A y \in Y : (\A x \in A : other[x] # y) => W[y] >= 0

LEMMA CheapestCover ==
  ASSUME NEW A, NEW B, NEW Z, NEW Y, NEW f, NEW K, NEW W, NEW one, NEW other,
         Undercuts(A, B, Z, Y, f, K, W, one, other)
  PROVE  SumFunctionOnSet(f, A) <= SumFunctionOnSet(f, B)
<1> USE DEF Undercuts
<1> DEFINE s == [x \in Z |-> K[one[x]] + W[other[x]]]
<1>1. IsFiniteSet(A) /\ IsFiniteSet(B)
  BY FS_Subset
<1>2. /\ \A x \in A : K[one[x]] \in Int /\ W[other[x]] \in Int /\ f[x] = K[one[x]] + W[other[x]]
      /\ \A x \in B : K[one[x]] \in Int /\ W[other[x]] \in Int /\ s[x] = K[one[x]] + W[other[x]]
      /\ \A x \in B : s[x] \in Int /\ f[x] \in Int /\ s[x] <= f[x]
  OBVIOUS
<1>3. /\ \A x, y \in A : one[x] = one[y] => x = y
      /\ \A x, y \in B : one[x] = one[y] => x = y
      /\ \A x, y \in A : other[x] = other[y] => x = y
      /\ \A x, y \in B : other[x] = other[y] => x = y
  OBVIOUS
<1>4. /\ Shown(A, other) \in SUBSET Y /\ Shown(B, other) \in SUBSET Y
      /\ \A y \in Shown(A, other) : W[y] <= 0
      /\ \A y \in Y \ Shown(A, other) : W[y] >= 0
  BY DEF Shown
<1> HIDE DEF s
<1>5. Splits(f, A, K, W, one, other) /\ Splits(s, B, K, W, one, other)
  BY <1>1, <1>2, <1>3 DEF Splits
<1>6. /\ SumFunctionOnSet(K, Shown(A, one)) \in Int
      /\ SumFunctionOnSet(W, Shown(A, other)) \in Int
      /\ SumFunctionOnSet(f, A) = SumFunctionOnSet(K, Shown(A, one)) + SumFunctionOnSet(W, Shown(A, other))
  BY <1>5, SumSplit
<1>7. /\ SumFunctionOnSet(W, Shown(B, other)) \in Int
      /\ SumFunctionOnSet(s, B) = SumFunctionOnSet(K, Shown(B, one)) + SumFunctionOnSet(W, Shown(B, other))
  BY <1>5, SumSplit
<1>8. SumFunctionOnSet(s, B) <= SumFunctionOnSet(f, B) /\ SumFunctionOnSet(f, B) \in Int
  <2>1. SumFunctionOnSet(s, B) <= SumFunctionOnSet(f, B)
    BY <1>1, <1>2, SumAtMost
  <2>2. SumFunctionOnSet(f, B) \in Int
    BY <1>1, <1>2, SumType
  <2> QED
    BY <2>1, <2>2
<1>9. SumFunctionOnSet(W, Shown(A, other)) <= SumFunctionOnSet(W, Shown(B, other))
  BY <1>4, SumOfLeast
<1> QED
  BY <1>6, <1>7, <1>8, <1>9

-----------------------------------------------------------------------------
(* When the loops end, every row of the square is in one column, at no     *)
(* loss, and no column is empty.                                           *)
LEMMA SquareIsPlaced ==
  ASSUME OInv, Done
  PROVE  /\ \A c \in Side : p[c] \in Side /\ Tight(p[c], c)
         /\ \A c, d \in Side : p[c] = p[d] => c = d
         /\ \A r \in Side : \E c \in Side : p[c] = r
<1>1. TypeOK /\ RowAtHand /\ pc = "row" /\ i \notin Side
  BY DEF OInv, IInv, PlacedInv, Done
<1>2. Side = 1..Dim(costs) /\ Dim(costs) \in Nat \ {0} /\ 0 \notin Side
  BY <1>1, SideIs
<1>3. Held = Side /\ Count = Dim(costs)
  BY <1>1, <1>2 DEF RowAtHand, Held, Count
<1>4. /\ \A c \in Side : p[c] \in 0..Dim(costs)
      /\ \A c, d \in Side : p[c] = p[d] /\ p[c] # 0 => c = d
      /\ \A r \in Side : \E c \in Side : p[c] = r
  BY <1>2, <1>3 DEF OInv, PlacedInv
<1>5. \A c \in Side : p[c] # 0
  <2> SUFFICES ASSUME NEW f \in Side, p[f] = 0 PROVE FALSE
    OBVIOUS
  <2> DEFINE at == [r \in Side |-> CHOOSE c \in Side : p[c] = r]
             others == Side \ {f}
  <2>1. \A r \in Side : at[r] \in Side /\ p[at[r]] = r
    BY <1>4
  <2> HIDE DEF at
  <2>2. \A r \in Side : at[r] # f
    BY <1>2, <2>1
  <2>3. at \in [Side -> others]
    BY <2>1, <2>2 DEF at
  <2>4. IsFiniteSet(Side)
    BY <1>2, FS_Interval
  <2>5. IsFiniteSet(others) /\ Cardinality(others) < Cardinality(Side)
    <3>1. Cardinality(others) = Cardinality(Side) - 1 /\ IsFiniteSet(others)
      BY <2>4, FS_RemoveElement
    <3>2. Cardinality(Side) \in Nat
      BY <2>4, FS_CardinalityType
    <3> QED
      BY <3>1, <3>2
  <2> HIDE DEF others
  <2>6. \E r, q \in Side : r # q /\ at[r] = at[q]
    BY <2>3, <2>4, <2>5, FS_PigeonHole
  <2> QED
    BY <2>1, <2>6
<1> QED
  BY <1>2, <1>3, <1>4, <1>5 DEF OInv, PriceInv

Pairs == Rows(costs) \X Cols(costs)
RowOf == [a \in Pairs |-> a[1]]
ColOf == [a \in Pairs |-> a[2]]
CostOf == [a \in Pairs |-> costs[a[1]][a[2]]]

(* Rows and columns of the matrix as given are rows and columns of the     *)
(* square, and the more numerous ones are all of them.                     *)
LEMMA Shape ==
  ASSUME TypeOK
  PROVE  /\ Len(costs) \in Nat \ {0} /\ Len(costs[1]) \in Nat \ {0}
         /\ Rows(costs) = 1..Len(costs) /\ Cols(costs) = 1..Len(costs[1])
         /\ IsFiniteSet(Rows(costs)) /\ Cardinality(Rows(costs)) = Len(costs)
         /\ IsFiniteSet(Cols(costs)) /\ Cardinality(Cols(costs)) = Len(costs[1])
         /\ Rows(costs) \subseteq Side /\ Cols(costs) \subseteq Side
         /\ Rows(costs) = Side \/ Cols(costs) = Side
         /\ Len(costs) <= Len(costs[1]) <=> Cols(costs) = Side
         /\ IsFiniteSet(Pairs)
<1>1. /\ Len(costs) \in Nat \ {0} /\ Len(costs[1]) \in Nat \ {0}
      /\ costs \in [1..Len(costs) -> [1..Len(costs[1]) -> 0..Unit]]
  BY MatricesAssumption DEF TypeOK
<1>2. Rows(costs) = 1..Len(costs)
  BY <1>1 DEF Rows
<1>3. Cols(costs) = 1..Len(costs[1])
  <2>1. costs[1] \in [1..Len(costs[1]) -> 0..Unit]
    BY <1>1
  <2> QED
    BY <2>1 DEF Cols
<1>4. Side = 1..Dim(costs)
  BY SideIs
<1>5. IsFiniteSet(Rows(costs)) /\ Cardinality(Rows(costs)) = Len(costs)
  BY <1>1, <1>2, FS_Interval
<1>6. IsFiniteSet(Cols(costs)) /\ Cardinality(Cols(costs)) = Len(costs[1])
  BY <1>1, <1>3, FS_Interval
<1>7. /\ Rows(costs) \subseteq Side /\ Cols(costs) \subseteq Side
      /\ Rows(costs) = Side \/ Cols(costs) = Side
      /\ Len(costs) <= Len(costs[1]) => Cols(costs) = Side
  BY <1>1, <1>2, <1>3, <1>4 DEF Dim
<1>8. Cols(costs) = Side => Len(costs) <= Len(costs[1])
  <2> SUFFICES ASSUME Cols(costs) = Side PROVE Len(costs) <= Len(costs[1])
    OBVIOUS
  <2>1. Len(costs) \in Rows(costs)
    BY <1>1, <1>2
  <2>2. Len(costs) \in 1..Len(costs[1])
    BY <1>3, <1>7, <2>1
  <2> QED
    BY <1>1, <2>2
<1>9. IsFiniteSet(Pairs)
  BY <1>5, <1>6, FS_Product DEF Pairs
<1> QED
  BY <1>1, <1>2, <1>3, <1>5, <1>6, <1>7, <1>8, <1>9

(* What a pair costs when the loops have ended, and what the padding does. *)
LEMMA PricesAtEnd ==
  ASSUME OInv, Done
  PROVE  /\ \A a \in Pairs : /\ CostOf[a] \in Int /\ CostOf[a] = cost[a[1]][a[2]]
                             /\ u[a[1]] + v[a[2]] <= CostOf[a]
         /\ \A a \in Assignments : a \in Pairs /\ u[a[1]] + v[a[2]] = CostOf[a]
         /\ \E pad \in Nat : \A r, c \in Side : r \notin Rows(costs) \/ c \notin Cols(costs) => cost[r][c] = pad
<1>1. TypeOK /\ PricesFeasible
  BY DEF OInv, IInv
<1>2. /\ Rows(costs) \subseteq Side /\ Cols(costs) \subseteq Side /\ Side = 1..Dim(costs)
  BY <1>1, SideIs, Shape
<1>3. PICK pad \in 0..(11 * Unit) : cost = Padded(costs, pad)
  BY DEF OInv, PaddedInv
<1>4. pad \in Nat
  BY UnitAssumption
<1>5. \A r, c \in Side : cost[r][c] = IF r \in Rows(costs) /\ c \in Cols(costs) THEN costs[r][c] ELSE pad
  BY <1>2, <1>3 DEF Padded
<1>6. \A a \in Pairs : a[1] \in Rows(costs) /\ a[2] \in Cols(costs) /\ CostOf[a] = costs[a[1]][a[2]]
  BY DEF Pairs, CostOf
<1>7. \A a \in Pairs : a[1] \in Side /\ a[2] \in Side /\ CostOf[a] = cost[a[1]][a[2]]
  BY <1>2, <1>5, <1>6
<1>8. \A r, c \in Side : cost[r][c] \in Int
  BY <1>1, Numbers
<1>9. \A a \in Assignments : a \in Pairs /\ p[a[2]] = a[1]
  BY DEF Assignments, Pairs
<1>10. \A a \in Assignments : u[a[1]] + v[a[2]] = CostOf[a]
  BY <1>7, <1>9, SquareIsPlaced DEF Tight
<1> QED
  BY <1>1, <1>4, <1>5, <1>7, <1>8, <1>9, <1>10 DEF PricesFeasible

(* Pairs that differ in rows and in columns, as many as are asked for,     *)
(* take every row, or every column, whichever are fewer.                   *)
LEMMA PairingShows ==
  ASSUME TypeOK, NEW pairs \in SUBSET Pairs,
         \A a, b \in pairs : a = b \/ (a[1] # b[1] /\ a[2] # b[2])
  PROVE  IsPairing(pairs) <=>
           IF Cols(costs) = Side THEN Shown(pairs, RowOf) = Rows(costs) ELSE Shown(pairs, ColOf) = Cols(costs)
<1>1. \A a \in pairs : RowOf[a] = a[1] /\ ColOf[a] = a[2] /\ RowOf[a] \in Rows(costs) /\ ColOf[a] \in Cols(costs)
  BY DEF Pairs, RowOf, ColOf
<1>2. /\ IsFiniteSet(Rows(costs)) /\ Cardinality(Rows(costs)) = Len(costs)
      /\ IsFiniteSet(Cols(costs)) /\ Cardinality(Cols(costs)) = Len(costs[1])
      /\ Len(costs) \in Nat /\ Len(costs[1]) \in Nat
      /\ Len(costs) <= Len(costs[1]) <=> Cols(costs) = Side
  BY Shape
<1>3. Cardinality(pairs) = Len(costs) <=> Shown(pairs, RowOf) = Rows(costs)
  <2>1. \A a, b \in pairs : RowOf[a] = RowOf[b] => a = b
    BY <1>1
  <2>2. \A a \in pairs : RowOf[a] \in Rows(costs)
    BY <1>1
  <2>3. Cardinality(pairs) = Cardinality(Rows(costs)) <=> Shown(pairs, RowOf) = Rows(costs)
    BY <1>2, <2>1, <2>2, EveryValueShown
  <2> QED
    BY <1>2, <2>3
<1>4. Cardinality(pairs) = Len(costs[1]) <=> Shown(pairs, ColOf) = Cols(costs)
  <2>1. \A a, b \in pairs : ColOf[a] = ColOf[b] => a = b
    BY <1>1
  <2>2. \A a \in pairs : ColOf[a] \in Cols(costs)
    BY <1>1
  <2>3. Cardinality(pairs) = Cardinality(Cols(costs)) <=> Shown(pairs, ColOf) = Cols(costs)
    BY <1>2, <2>1, <2>2, EveryValueShown
  <2> QED
    BY <1>2, <2>3
<1> QED
  BY <1>2, <1>3, <1>4 DEF IsPairing

(* What is returned is a pairing: rows and columns of the padding take no  *)
(* more than those left over.                                              *)
LEMMA AssignmentsPair ==
  ASSUME OInv, Done
  PROVE  IsPairing(Assignments)
<1>1. TypeOK
  BY DEF OInv, IInv
<1>2. /\ \A c \in Side : p[c] \in Side
      /\ \A c, d \in Side : p[c] = p[d] => c = d
      /\ \A r \in Side : \E c \in Side : p[c] = r
  BY SquareIsPlaced
<1>3. Rows(costs) \subseteq Side /\ Cols(costs) \subseteq Side /\ (Rows(costs) = Side \/ Cols(costs) = Side)
  BY <1>1, Shape
<1>4. Assignments \in SUBSET Pairs
  BY DEF Assignments, Pairs
<1>5. \A a, b \in Assignments : a = b \/ (a[1] # b[1] /\ a[2] # b[2])
  BY <1>2, <1>3 DEF Assignments
<1>6. \A r \in Rows(costs), c \in Cols(costs) : p[c] = r =>
        <<r, c>> \in Assignments /\ RowOf[<<r, c>>] = r /\ ColOf[<<r, c>>] = c
  BY DEF Assignments, RowOf, ColOf, Pairs
<1>7. \A a \in Assignments : RowOf[a] \in Rows(costs) /\ ColOf[a] \in Cols(costs)
  BY <1>4 DEF RowOf, ColOf, Pairs
<1>8. CASE Cols(costs) = Side
  <2>1. Shown(Assignments, RowOf) = Rows(costs)
    <3>1. ASSUME NEW r \in Rows(costs) PROVE \E a \in Assignments : RowOf[a] = r
      <4>1. PICK c \in Cols(costs) : p[c] = r
        BY <1>2, <1>3, <1>8
      <4>2. <<r, c>> \in Assignments /\ RowOf[<<r, c>>] = r
        BY <1>6, <4>1
      <4> QED
        BY <4>2
    <3> QED
      BY <1>7, <3>1 DEF Shown
  <2> QED
    BY <1>1, <1>4, <1>5, <1>8, <2>1, PairingShows
<1>9. CASE Cols(costs) # Side
  <2>1. Shown(Assignments, ColOf) = Cols(costs)
    <3>1. ASSUME NEW c \in Cols(costs) PROVE \E a \in Assignments : ColOf[a] = c
      <4>1. p[c] \in Rows(costs)
        BY <1>2, <1>3, <1>9
      <4>2. <<p[c], c>> \in Assignments /\ ColOf[<<p[c], c>>] = c
        BY <1>6, <4>1
      <4> QED
        BY <4>2
    <3> QED
      BY <1>7, <3>1 DEF Shown
  <2> QED
    BY <1>1, <1>4, <1>5, <1>9, <2>1, PairingShows
<1> QED
  BY <1>8, <1>9

(* Columns that hold a row of the padding have the highest price of all,   *)
(* and so have rows in a column of the padding.                            *)
LEMMA PaddingIsDearest ==
  ASSUME OInv, Done
  PROVE  /\ \E t \in Int : \A c \in Side : v[c] <= t /\ (p[c] \notin Rows(costs) => v[c] = t)
         /\ Cols(costs) # Side =>
              \E t \in Int : \A c \in Side : u[p[c]] <= t /\ (c \notin Cols(costs) => u[p[c]] = t)
<1>1. /\ \A c \in Side : p[c] \in Side /\ Tight(p[c], c)
      /\ \A r \in Side : \E c \in Side : p[c] = r
  BY SquareIsPlaced
<1>2. PICK pad \in Nat :
        \A r, c \in Side : r \notin Rows(costs) \/ c \notin Cols(costs) => cost[r][c] = pad
  BY PricesAtEnd
<1>3. TypeOK /\ PricesFeasible /\ \A c \in Side : v[c] <= 0
  BY DEF OInv, IInv, PriceInv
<1>4. /\ \A r \in Side : u[r] \in Int
      /\ \A c \in Side : v[c] \in Int
  BY <1>3, Numbers
<1>5. /\ \A r, c \in Side : r \notin Rows(costs) \/ c \notin Cols(costs) => u[r] + v[c] <= pad
      /\ \A c \in Side : p[c] \notin Rows(costs) \/ c \notin Cols(costs) => u[p[c]] + v[c] = pad
  BY <1>1, <1>2, <1>3 DEF PricesFeasible, Tight
<1>6. \E t \in Int : \A c \in Side : v[c] <= t /\ (p[c] \notin Rows(costs) => v[c] = t)
  <2>1. CASE \A c \in Side : p[c] \in Rows(costs)
    BY <1>3, <2>1
  <2>2. CASE \E c \in Side : p[c] \notin Rows(costs)
    <3>1. PICK d \in Side : p[d] \notin Rows(costs)
      BY <2>2
    <3> SUFFICES ASSUME NEW c \in Side
                 PROVE  v[c] <= v[d] /\ (p[c] \notin Rows(costs) => v[c] = v[d])
      BY <1>4
    <3>2. u[p[d]] + v[d] = pad /\ u[p[d]] + v[c] <= pad
      BY <1>1, <1>5, <3>1
    <3>3. p[c] \notin Rows(costs) => u[p[c]] + v[c] = pad /\ u[p[c]] + v[d] <= pad
      BY <1>1, <1>5
    <3>4. u[p[c]] \in Int /\ u[p[d]] \in Int /\ v[c] \in Int /\ v[d] \in Int
      BY <1>1, <1>4
    <3> QED
      BY <3>2, <3>3, <3>4
  <2> QED
    BY <2>1, <2>2
<1>7. ASSUME Cols(costs) # Side
      PROVE  \E t \in Int : \A c \in Side : u[p[c]] <= t /\ (c \notin Cols(costs) => u[p[c]] = t)
  <2>1. PICK d \in Side : d \notin Cols(costs)
    BY <1>3, <1>7, Shape
  <2>2. p[d] \in Side /\ u[p[d]] \in Int
    BY <1>1, <1>4
  <2> SUFFICES ASSUME NEW c \in Side
               PROVE  u[p[c]] <= u[p[d]] /\ (c \notin Cols(costs) => u[p[c]] = u[p[d]])
    BY <2>2
  <2>3. u[p[d]] + v[d] = pad /\ u[p[c]] + v[d] <= pad
    BY <1>1, <1>5, <2>1
  <2>4. c \notin Cols(costs) => u[p[c]] + v[c] = pad /\ u[p[d]] + v[c] <= pad
    BY <1>1, <1>5
  <2>5. u[p[c]] \in Int /\ u[p[d]] \in Int /\ v[c] \in Int /\ v[d] \in Int
    BY <1>1, <1>4
  <2> QED
    BY <2>3, <2>4, <2>5
<1> QED
  BY <1>6, <1>7

(* No other pairing costs less: the prices of the rows and columns it      *)
(* takes are no lower in sum than those of the rows and columns taken.     *)
LEMMA LeastTotal ==
  ASSUME OInv, Done, NEW pairs \in SUBSET Pairs, IsPairing(pairs)
  PROVE  Total(Assignments) <= Total(pairs)
<1>1. TypeOK /\ Assignments \in SUBSET Pairs /\ IsPairing(Assignments)
  BY AssignmentsPair DEF OInv, IInv, Assignments, Pairs
<1>2. /\ IsFiniteSet(Pairs) /\ IsFiniteSet(Rows(costs)) /\ IsFiniteSet(Cols(costs))
      /\ Rows(costs) \subseteq Side /\ Cols(costs) \subseteq Side
      /\ Rows(costs) = Side \/ Cols(costs) = Side
  BY <1>1, Shape
<1>3. /\ \A a \in Pairs : CostOf[a] \in Int /\ u[a[1]] + v[a[2]] <= CostOf[a]
      /\ \A a \in Assignments : u[a[1]] + v[a[2]] = CostOf[a]
  BY PricesAtEnd
<1>4. \A a \in Pairs : /\ RowOf[a] = a[1] /\ RowOf[a] \in Rows(costs)
                       /\ ColOf[a] = a[2] /\ ColOf[a] \in Cols(costs)
  BY DEF Pairs, RowOf, ColOf
<1>5. (\A r \in Rows(costs) : u[r] \in Int) /\ (\A c \in Cols(costs) : v[c] \in Int)
  BY <1>1, <1>2, Numbers
<1>6. /\ \A a, b \in Assignments : a = b \/ (a[1] # b[1] /\ a[2] # b[2])
      /\ \A a, b \in pairs : a = b \/ (a[1] # b[1] /\ a[2] # b[2])
  BY <1>1 DEF IsPairing
<1>7. /\ \A a, b \in Assignments : RowOf[a] = RowOf[b] \/ ColOf[a] = ColOf[b] => a = b
      /\ \A a, b \in pairs : RowOf[a] = RowOf[b] \/ ColOf[a] = ColOf[b] => a = b
  BY <1>1, <1>4, <1>6
<1>8. \A c \in Side : p[c] \in Side
  BY SquareIsPlaced
<1>9. \A a \in Assignments : p[ColOf[a]] = RowOf[a] /\ ColOf[a] \in Side /\ RowOf[a] \in Rows(costs)
  BY <1>1, <1>2, <1>4 DEF Assignments
<1>10. \A c \in Cols(costs) : p[c] \in Rows(costs) => <<p[c], c>> \in Assignments /\ ColOf[<<p[c], c>>] = c
                                                   /\ RowOf[<<p[c], c>>] = p[c]
  BY DEF Assignments, ColOf, RowOf, Pairs
<1>11. Total(Assignments) = SumFunctionOnSet(CostOf, Assignments) /\ Total(pairs) = SumFunctionOnSet(CostOf, pairs)
  BY DEF Total, CostOf, Pairs
<1>12. CASE Cols(costs) = Side
  <2>1. Shown(Assignments, RowOf) = Shown(pairs, RowOf)
    BY <1>1, <1>6, <1>12, PairingShows
  <2>2. PICK t \in Int : \A c \in Side : v[c] <= t /\ (p[c] \notin Rows(costs) => v[c] = t)
    BY PaddingIsDearest
  <2> DEFINE K == [r \in Rows(costs) |-> u[r] + t]
             W == [c \in Cols(costs) |-> v[c] - t]
  <2>3. /\ \A a \in Pairs : CostOf[a] \in Int /\ K[RowOf[a]] \in Int /\ ColOf[a] \in Cols(costs)
        /\ \A c \in Cols(costs) : W[c] \in Int
    BY <1>3, <1>4, <1>5
  <2>4. \A a \in Pairs : K[RowOf[a]] + W[ColOf[a]] = u[a[1]] + v[a[2]]
    BY <1>4, <1>5
  <2>5. \A c \in Cols(costs) : W[c] <= 0 /\ ((\A a \in Assignments : ColOf[a] # c) => W[c] >= 0)
    <3> SUFFICES ASSUME NEW c \in Cols(costs)
                 PROVE  W[c] <= 0 /\ ((\A a \in Assignments : ColOf[a] # c) => W[c] >= 0)
      OBVIOUS
    <3>1. p[c] \in Rows(costs) => \E a \in Assignments : ColOf[a] = c
      BY <1>10
    <3>2. v[c] \in Int /\ v[c] <= t /\ (p[c] \notin Rows(costs) => v[c] = t)
      BY <1>5, <1>12, <2>2
    <3> QED
      BY <3>1, <3>2
  <2> HIDE DEF K, W
  <2>6. \A a \in Assignments : CostOf[a] = K[RowOf[a]] + W[ColOf[a]] /\ W[ColOf[a]] <= 0
    BY <1>1, <1>3, <1>4, <2>4, <2>5
  <2>7. \A a \in pairs : K[RowOf[a]] + W[ColOf[a]] <= CostOf[a]
    BY <1>3, <2>4
  <2>8. Undercuts(Assignments, pairs, Pairs, Cols(costs), CostOf, K, W, RowOf, ColOf)
    BY <1>1, <1>2, <1>7, <2>1, <2>3, <2>5, <2>6, <2>7 DEF Undercuts
  <2>9. SumFunctionOnSet(CostOf, Assignments) <= SumFunctionOnSet(CostOf, pairs)
    BY <2>8, CheapestCover
  <2> QED
    BY <1>11, <2>9
<1>13. CASE Cols(costs) # Side
  <2>1. Shown(Assignments, ColOf) = Shown(pairs, ColOf)
    BY <1>1, <1>6, <1>13, PairingShows
  <2>2. PICK t \in Int : \A c \in Side : u[p[c]] <= t /\ (c \notin Cols(costs) => u[p[c]] = t)
    BY <1>13, PaddingIsDearest
  <2> DEFINE K == [c \in Cols(costs) |-> v[c] + t]
             W == [r \in Rows(costs) |-> u[r] - t]
  <2>3. /\ \A a \in Pairs : CostOf[a] \in Int /\ K[ColOf[a]] \in Int /\ RowOf[a] \in Rows(costs)
        /\ \A r \in Rows(costs) : W[r] \in Int
    BY <1>3, <1>4, <1>5
  <2>4. \A a \in Pairs : K[ColOf[a]] + W[RowOf[a]] = u[a[1]] + v[a[2]]
    BY <1>4, <1>5
  <2>5. \A r \in Rows(costs) : W[r] <= 0 /\ ((\A a \in Assignments : RowOf[a] # r) => W[r] >= 0)
    <3> SUFFICES ASSUME NEW r \in Rows(costs)
                 PROVE  W[r] <= 0 /\ ((\A a \in Assignments : RowOf[a] # r) => W[r] >= 0)
      OBVIOUS
    <3>1. PICK c \in Side : p[c] = r
      BY <1>2, SquareIsPlaced
    <3>2. c \in Cols(costs) => \E a \in Assignments : RowOf[a] = r
      BY <1>10, <3>1
    <3> QED
      BY <1>5, <2>2, <3>1, <3>2
  <2> HIDE DEF K, W
  <2>6. \A a \in Assignments : CostOf[a] = K[ColOf[a]] + W[RowOf[a]] /\ W[RowOf[a]] <= 0
    BY <1>1, <1>3, <1>4, <2>4, <2>5
  <2>7. \A a \in pairs : K[ColOf[a]] + W[RowOf[a]] <= CostOf[a]
    BY <1>3, <2>4
  <2>8. Undercuts(Assignments, pairs, Pairs, Rows(costs), CostOf, K, W, ColOf, RowOf)
    BY <1>1, <1>2, <1>7, <2>1, <2>3, <2>5, <2>6, <2>7 DEF Undercuts
  <2>9. SumFunctionOnSet(CostOf, Assignments) <= SumFunctionOnSet(CostOf, pairs)
    BY <2>8, CheapestCover
  <2> QED
    BY <1>11, <2>9
<1> QED
  BY <1>12, <1>13

-----------------------------------------------------------------------------
(* Every step keeps the strengthened invariant.                            *)
LEMMA NextOInv ==
  ASSUME OInv, [Next]_vars
  PROVE  OInv'
<1>1. CASE UNCHANGED vars
  <2>1. UNCHANGED <<costs, cost, i, j0, u, v, p, way, minv, used, pc>>
    BY <1>1 DEF vars
  <2>2. Side' = Side /\ Inf' = Inf /\ Seen' = Seen
    BY <2>1 DEF Side, Inf, Seen
  <2>3. IInv'
    BY <1>1, NextInv DEF OInv
  <2>4. PlacedInv' /\ PaddedInv'
    BY <2>1, <2>2 DEF OInv, PlacedInv, RowAtHand, Held, Count, PaddedInv
  <2>5. PriceInv'
    BY <2>1, <2>2 DEF OInv, PriceInv, Held, Tight
  <2>6. TreeInv'
    BY <2>1, <2>2 DEF OInv, TreeInv, SearchTree, UnwindTree, Ranks, SearchRank, UnwindRank,
                       Reached, Unreached, Tight, Free
  <2> QED
    BY <2>3, <2>4, <2>5, <2>6 DEF OInv
<1> QED
  BY <1>1, StartRowOInv, SearchOInv, UnwindOInv DEF Next

(* However large the matrix and whatever it costs: when the loops of       *)
(* hungarian_match have ended, every row or every column is paired,        *)
(* whichever are fewer, and no other pairing has a lower total cost.       *)
THEOREM MatchingIsOptimal == Spec => []MatchingIsBest
<1>1. OInv => MatchingIsBest
  BY AssignmentsPair, LeastTotal DEF MatchingIsBest, Pairs
<1> QED
  BY <1>1, InitOInv, NextOInv, PTL DEF Spec

-----------------------------------------------------------------------------
(* A list of any length.                                                   *)
IsList(s) == Len(s) \in Nat /\ s = [k \in 1..Len(s) |-> s[k]]

LEMMA SeqIsList ==
    ASSUME NEW S, NEW s \in Seq(S)
    PROVE  IsList(s) /\ DOMAIN s = 1..Len(s)
<1>1. s \in [1..Len(s) -> S] /\ Len(s) \in Nat
    BY LenProperties
<1> QED
    BY <1>1 DEF IsList

(* An element more.                                                        *)
LEMMA ListAppends ==
    ASSUME NEW s, IsList(s), NEW x
    PROVE  /\ IsList(Append(s, x)) /\ DOMAIN s = 1..Len(s)
           /\ DOMAIN Append(s, x) = 1..(Len(s) + 1)
           /\ Append(s, x)[Len(s) + 1] = x
           /\ \A k \in 1..Len(s) : Append(s, x)[k] = s[k]
<1> DEFINE S == {s[k] : k \in 1..Len(s)} \cup {x}
<1>1. s \in Seq(S)
    BY DEF IsList
<1>2. x \in S
    OBVIOUS
<1> HIDE DEF S
<1>3. /\ Append(s, x) \in Seq(S) /\ Len(Append(s, x)) = Len(s) + 1
      /\ Append(s, x)[Len(s) + 1] = x
      /\ \A k \in 1..Len(s) : Append(s, x)[k] = s[k]
    BY <1>1, <1>2, AppendProperties
<1>4. IsList(Append(s, x)) /\ DOMAIN Append(s, x) = 1..(Len(s) + 1)
    BY <1>3, SeqIsList
<1>5. DOMAIN s = 1..Len(s)
    BY <1>1
<1> QED
    BY <1>3, <1>4, <1>5

(* Whether a list of findings has one with the title.                      *)
Tells(list, title) == \E k \in DOMAIN list : list[k].title = title

Joined(f, g) == f \o g

(* What two lists tell together, one of them tells.                        *)
LEMMA JoinTells ==
    \A f, g : IsList(f) /\ IsList(g) =>
      /\ IsList(Joined(f, g))
      /\ \A title : Tells(Joined(f, g), title) => Tells(f, title) \/ Tells(g, title)
<1> SUFFICES ASSUME NEW f, IsList(f), NEW g, IsList(g)
             PROVE  /\ IsList(Joined(f, g))
                    /\ \A title : Tells(Joined(f, g), title) => Tells(f, title) \/ Tells(g, title)
    OBVIOUS
<1> DEFINE S == {f[k] : k \in 1..Len(f)} \cup {g[k] : k \in 1..Len(g)}
<1>1. f \in Seq(S) /\ g \in Seq(S)
    BY DEF IsList
<1> HIDE DEF S
<1>2. /\ Joined(f, g) \in Seq(S) /\ Len(Joined(f, g)) = Len(f) + Len(g)
      /\ \A k \in 1..(Len(f) + Len(g)) : Joined(f, g)[k] = IF k <= Len(f) THEN f[k] ELSE g[k - Len(f)]
    BY <1>1, ConcatProperties DEF Joined
<1>3. Len(f) \in Nat /\ Len(g) \in Nat
    BY <1>1, LenProperties
<1>4. /\ DOMAIN f = 1..Len(f) /\ DOMAIN g = 1..Len(g)
      /\ IsList(Joined(f, g)) /\ DOMAIN Joined(f, g) = 1..(Len(f) + Len(g))
    BY <1>1, <1>2, SeqIsList
<1>5. ASSUME NEW title, NEW k \in DOMAIN Joined(f, g), Joined(f, g)[k].title = title
      PROVE  Tells(f, title) \/ Tells(g, title)
    <2>1. CASE k <= Len(f)
        <3>1. k \in DOMAIN f /\ f[k].title = title
            BY <1>2, <1>3, <1>4, <1>5, <2>1
        <3> QED
            BY <3>1 DEF Tells
    <2>2. CASE ~(k <= Len(f))
        <3>1. k - Len(f) \in DOMAIN g /\ g[k - Len(f)].title = title
            BY <1>2, <1>3, <1>4, <1>5, <2>2
        <3> QED
            BY <3>1 DEF Tells
    <2> QED
        BY <2>1, <2>2
<1> QED
    BY <1>4, <1>5 DEF Tells

(* All but the last.                                                       *)
LEMMA FrontTells ==
    ASSUME NEW list, IsList(list), list # <<>>
    PROVE  IsList(Front(list)) /\ \A title : Tells(Front(list), title) => Tells(list, title)
<1> DEFINE S == {list[k] : k \in 1..Len(list)}
           n == Len(list) - 1
<1>1. list \in Seq(S) /\ Len(list) \in Nat
    BY DEF IsList
<1>2. Len(list) # 0 /\ DOMAIN list = 1..Len(list)
    BY <1>1, EmptySeq
<1>3. n \in Nat /\ \A k \in 1..n : k \in 1..Len(list) /\ list[k] \in S
    BY <1>1, <1>2
<1> HIDE DEF S, n
<1>4. /\ SubSeq(list, 1, n) \in Seq(S)
      /\ Len(SubSeq(list, 1, n)) = n /\ \A k \in 1..n : SubSeq(list, 1, n)[k] = list[k]
    <2>1. /\ SubSeq(list, 1, n) \in Seq(S)
          /\ Len(SubSeq(list, 1, n)) = IF 1 <= n THEN n - 1 + 1 ELSE 0
          /\ \A k \in 1..(n - 1 + 1) : SubSeq(list, 1, n)[k] = list[1 + k - 1]
        BY <1>3, SubSeqProperties
    <2> QED
        BY <1>3, <2>1
<1>5. IsList(SubSeq(list, 1, n)) /\ DOMAIN SubSeq(list, 1, n) = 1..n
    BY <1>4, SeqIsList
<1>6. \A title : Tells(SubSeq(list, 1, n), title) => Tells(list, title)
    BY <1>2, <1>3, <1>4, <1>5 DEF Tells
<1>7. Front(list) = SubSeq(list, 1, n)
    BY DEF Front, n
<1> QED
    BY <1>5, <1>6, <1>7

(* A single finding.                                                       *)
LEMMA LoneTells ==
    \A threat, title, severity, disposition :
      LET list == <<Finding(threat, title, severity, disposition)>>
      IN IsList(list) /\ \A other : Tells(list, other) => other = title
<1> SUFFICES ASSUME NEW threat, NEW title, NEW severity, NEW disposition
             PROVE  LET list == <<Finding(threat, title, severity, disposition)>>
                    IN IsList(list) /\ \A other : Tells(list, other) => other = title
    OBVIOUS
<1> DEFINE f == Finding(threat, title, severity, disposition)
<1>1. f.title = title
    BY DEF Finding
<1> HIDE DEF f
<1>2. <<f>> \in Seq({f}) /\ DOMAIN <<f>> = {1} /\ <<f>>[1] = f
    OBVIOUS
<1>3. IsList(<<f>>) /\ \A other : Tells(<<f>>, other) => other = title
    BY <1>1, <1>2, SeqIsList DEF Tells
<1> QED
    BY <1>3 DEF f

LEMMA NothingTells == IsList(<<>>) /\ \A title : ~Tells(<<>>, title)
<1>1. <<>> \in Seq({}) /\ Len(<<>>) = 0 /\ DOMAIN <<>> = {}
    BY EmptySeq
<1>2. IsList(<<>>)
    BY <1>1, SeqIsList
<1> QED
    BY <1>1, <1>2 DEF Tells

(* One finding, or none.                                                   *)
LEMMA OneTells ==
    \A condition, threat, title, severity, disposition :
      LET list == If(condition, Finding(threat, title, severity, disposition))
      IN IsList(list) /\ \A other : Tells(list, other) => other = title
<1> SUFFICES ASSUME NEW condition, NEW threat, NEW title, NEW severity, NEW disposition
             PROVE  LET list == If(condition, Finding(threat, title, severity, disposition))
                    IN IsList(list) /\ \A other : Tells(list, other) => other = title
    OBVIOUS
<1> DEFINE f == Finding(threat, title, severity, disposition)
<1>1. IsList(<<f>>) /\ \A other : Tells(<<f>>, other) => other = title
    BY LoneTells
<1> HIDE DEF f
<1>2. IsList(If(condition, f)) /\ \A other : Tells(If(condition, f), other) => other = title
    BY <1>1, NothingTells DEF If
<1> QED
    BY <1>2 DEF f

-----------------------------------------------------------------------------
(* What the checks tell, and from what.                                    *)

(* MT-1 verifies two models of one digest that respond alike, and calls a  *)
(* candidate substituted when the responses are far apart.                 *)
LEMMA SubstitutionTells ==
    ASSUME NEW candidate, NEW reference, NEW digests, NEW distance
    PROVE  LET list == Substitution(candidate, reference, digests, distance)
           IN /\ IsList(list)
              /\ Tells(list, "verified") => /\ reference # NoModel /\ Readable(candidate) /\ Readable(reference)
                                            /\ digests[1] = digests[2] /\ distance = "none"
              /\ Tells(list, "substituted") => reference # NoModel /\ distance = "far"
              /\ ~Tells(list, "modified") /\ ~Tells(list, "diverged")
<1>1. CASE reference = NoModel
    BY <1>1, LoneTells DEF Substitution
<1>2. CASE reference # NoModel /\ Readable(candidate) /\ Readable(reference) /\ digests[1] = digests[2]
           /\ distance = "none"
    BY <1>2, LoneTells DEF Substitution
<1>3. CASE reference # NoModel /\ ~(Readable(candidate) /\ Readable(reference) /\ digests[1] = digests[2]
           /\ distance = "none")
    <2>1. Substitution(candidate, reference, digests, distance)
            = If(distance = "far", Finding("MT-1", "substituted", "HIGH", "QUARANTINE"))
        BY <1>3 DEF Substitution
    <2>2. \A title : Tells(If(distance = "far", Finding("MT-1", "substituted", "HIGH", "QUARANTINE")), title)
            => title = "substituted"
        BY OneTells, Zenon
    <2>4. distance # "far" =>
            \A title : ~Tells(If(distance = "far", Finding("MT-1", "substituted", "HIGH", "QUARANTINE")), title)
        BY NothingTells DEF If
    <2>3. IsList(If(distance = "far", Finding("MT-1", "substituted", "HIGH", "QUARANTINE")))
        BY OneTells, Zenon
    <2> QED
        BY <1>3, <2>1, <2>2, <2>3, <2>4
<1> QED
    BY <1>1, <1>2, <1>3

(* MT-2 calls a candidate modified when a layer's statistics differ.       *)
LEMMA ModificationTells ==
    ASSUME NEW candidate, NEW reference, NEW own, NEW other, NEW distance
    PROVE  LET list == Modification(candidate, reference, own, other, distance)
           IN /\ IsList(list)
              /\ Tells(list, "modified") => /\ reference # NoModel /\ Readable(candidate) /\ Readable(reference)
                                            /\ <<own.weights, other.weights>> \in StatsDiffer
              /\ ~Tells(list, "verified") /\ ~Tells(list, "substituted") /\ ~Tells(list, "diverged")
<1> DEFINE both == reference # NoModel /\ Readable(candidate) /\ Readable(reference)
           differ == both /\ <<own.weights, other.weights>> \in StatsDiffer
           f == If(differ, Finding("MT-2", "modified", "MEDIUM", "REVIEW"))
           g == If(reference # NoModel /\ distance = "drift", Finding("MT-2", "drifted", "MEDIUM", "REVIEW"))
           h == If(Readable(candidate) /\ own.ok /\ own.weights \in Sparse, Finding("MT-2", "sparse", "LOW", "REVIEW"))
<1>1. /\ IsList(f)
      /\ \A title : Tells(f, title) => title = "modified"
    BY OneTells, Zenon
<1>2. IsList(g) /\ \A title : Tells(g, title) => title = "drifted"
    BY OneTells
<1>3. IsList(h) /\ \A title : Tells(h, title) => title = "sparse"
    BY OneTells
<1>7. ~differ => \A title : ~Tells(f, title)
    BY NothingTells DEF If
<1>4. Modification(candidate, reference, own, other, distance) = Joined(Joined(f, g), h)
    BY DEF Modification, Joined
<1> HIDE DEF f, g, h
<1>5. IsList(Joined(f, g)) /\ \A title : Tells(Joined(f, g), title) => Tells(f, title) \/ Tells(g, title)
    BY <1>1, <1>2, JoinTells
<1>6. /\ IsList(Joined(Joined(f, g), h))
      /\ \A title : Tells(Joined(Joined(f, g), h), title) => Tells(Joined(f, g), title) \/ Tells(h, title)
    BY <1>3, <1>5, JoinTells
<1> QED
    BY <1>1, <1>2, <1>3, <1>4, <1>5, <1>6, <1>7

(* MT-3 speaks of triggers only.                                           *)
LEMMA BackdoorTells ==
    ASSUME NEW candidate, NEW own
    PROVE  LET list == Backdoor(candidate, own)
           IN /\ IsList(list)
              /\ ~Tells(list, "verified") /\ ~Tells(list, "substituted")
              /\ ~Tells(list, "modified") /\ ~Tells(list, "diverged")
<1>1. CASE candidate.task = "detection"
    BY <1>1, OneTells DEF Backdoor
<1>2. CASE candidate.task # "detection" /\ ~Differentiable(candidate, own)
    BY <1>2, LoneTells DEF Backdoor
<1>3. CASE candidate.task # "detection" /\ Differentiable(candidate, own)
    <2> DEFINE verdict == NeuralCleanse(own.norms)
    <2>1. Backdoor(candidate, own)
            = CASE verdict = "insufficient" -> <<Finding("MT-3", "insufficient", "INFORMATIONAL", "ACCEPT")>>
                [] verdict = "anomalous" -> <<Finding("MT-3", "trigger", "HIGH", "QUARANTINE")>>
                [] OTHER -> <<>>
        BY <1>3 DEF Backdoor
    <2> HIDE DEF verdict
    <2>2. CASE verdict = "insufficient"
        BY <2>1, <2>2, LoneTells
    <2>3. CASE verdict = "anomalous"
        BY <2>1, <2>3, LoneTells
    <2>4. CASE verdict \notin {"insufficient", "anomalous"}
        BY <2>1, <2>4, NothingTells
    <2> QED
        BY <2>2, <2>3, <2>4
<1> QED
    BY <1>1, <1>2, <1>3

(* Who shows activations, and has not made them up, has run.               *)
LEMMA ActivitiesShown ==
    ASSUME NEW model, NEW loaded
    PROVE  /\ Activities(model, loaded) # "none" => loaded.ok
           /\ Activities(model, loaded) \notin {"none", "made up"} => loaded.runs
BY DEF Activities

(* MT-4 calls activations diverged that are shown and not both made up.    *)
LEMMA ActivationTells ==
    ASSUME NEW candidate, NEW reference, NEW own, NEW other
    PROVE  LET list == Activation(candidate, reference, own, other)
           IN /\ IsList(list)
              /\ Tells(list, "diverged") => own.ok /\ other.ok /\ (own.runs \/ other.runs)
              /\ ~Tells(list, "verified") /\ ~Tells(list, "substituted") /\ ~Tells(list, "modified")
<1> DEFINE shown == Activities(candidate, own)
           compared == IF reference = NoModel THEN "none" ELSE Activities(reference, other)
           f == If(shown \in Collapsed, Finding("MT-4", "dead", "MEDIUM", "REVIEW"))
           unlike == <<shown, compared>> \in Unlike
           g == If(unlike, Finding("MT-4", "diverged", "HIGH", "QUARANTINE"))
<1>1. CASE candidate.access # "white"
    BY <1>1, LoneTells DEF Activation
<1>2. CASE candidate.access = "white"
    <2>1. IsList(f) /\ \A title : Tells(f, title) => title = "dead"
        BY OneTells
    <2>2. IsList(g) /\ \A title : Tells(g, title) => title = "diverged"
        BY OneTells, Zenon
    <2>6. ~unlike => \A title : ~Tells(g, title)
        BY NothingTells DEF If
    <2>3. Activation(candidate, reference, own, other) = Joined(f, g)
        BY <1>2 DEF Activation, Joined
    <2>4. <<shown, compared>> \in Unlike => own.ok /\ other.ok /\ (own.runs \/ other.runs)
        <3> SUFFICES ASSUME <<shown, compared>> \in Unlike
                     PROVE  own.ok /\ other.ok /\ (own.runs \/ other.runs)
            OBVIOUS
        <3> HIDE DEF shown, compared
        <3>1. shown # "none" /\ compared # "none" /\ ~(shown = "made up" /\ compared = "made up")
            BY UnlikeAssumption
        <3> USE DEF shown, compared
        <3>2. compared = Activities(reference, other)
            BY <3>1
        <3> HIDE DEF shown, compared
        <3>3. shown = Activities(candidate, own)
            BY DEF shown
        <3> QED
            BY <3>1, <3>2, <3>3, ActivitiesShown, Zenon
    <2> HIDE DEF f, g
    <2>5. IsList(Joined(f, g)) /\ \A title : Tells(Joined(f, g), title) => Tells(f, title) \/ Tells(g, title)
        BY <2>1, <2>2, JoinTells
    <2> QED
        BY <2>1, <2>2, <2>3, <2>4, <2>5, <2>6
<1> QED
    BY <1>1, <1>2

-----------------------------------------------------------------------------
(* What an adapter shows of the contents it loaded.                        *)

Shows(l) == l.ok = TRUE /\ l.weights \in {l.of.weights} \cup StandIns /\ l.response = l.of.response

LEMMA LoadedShows ==
    \A weights, runs, f : weights \in {f.weights} \cup StandIns =>
      Shows(Loaded(weights, runs, f)) /\ Loaded(weights, runs, f).of = f
BY DEF Shows, Loaded

LEMMA StandsIn ==
    \A why \in {"script", "graph", "archive", "header", "unread", "empty"} : StandIn[why] \in StandIns
BY StandInAssumption DEF StandIns, Range

LEMMA FailedIsNotOk == Failed.ok = FALSE
BY DEF Failed

(* A load fails or shows what the file holds; a file that is missing fails.*)
LEMMA LoadShows ==
    ASSUME NEW model, IsAdapter(model), NEW f, NEW packages
    PROVE  LET l == Load(model, f, packages)
           IN /\ l = Failed \/ Shows(l)
              /\ l.ok /\ model.kind # "mock" => l.of = f /\ f.size # "missing"
<1>1. CASE model.kind = "mock"
    <2>1. Load(model, f, packages) = Loaded(model.object.weights, TRUE, model.object)
        BY <1>1 DEF Load
    <2>2. Shows(Loaded(model.object.weights, TRUE, model.object))
        BY DEF Shows, Loaded
    <2> QED
        BY <1>1, <2>1, <2>2
<1>2. CASE model.kind # "mock" /\ ScanOutcome(f) # "safe"
    BY <1>2, FailedIsNotOk DEF Load
<1>3. CASE model.kind # "mock" /\ ScanOutcome(f) = "safe"
    <2>1. f.size # "missing"
        BY <1>3 DEF ScanOutcome
    <2>2. CASE model.kind = "torchscript"
        <3>1. Load(model, f, packages) = LoadTorchScript(f, packages)
            BY <1>3, <2>2 DEF Load
        <3>2. \/ LoadTorchScript(f, packages) = Failed
              \/ \E weights \in {f.weights} \cup StandIns, runs \in BOOLEAN :
                   LoadTorchScript(f, packages) = Loaded(weights, runs, f)
            BY StandsIn DEF LoadTorchScript
        <3> QED
            BY <2>1, <3>1, <3>2, LoadedShows, FailedIsNotOk
    <2>3. CASE model.kind = "onnx"
        <3>1. Load(model, f, packages) = LoadONNX(f, packages)
            BY <1>3, <2>3 DEF Load
        <3> DEFINE weights == IF "onnx" \in packages THEN f.weights ELSE StandIn["graph"]
                   runs == "onnxruntime" \in packages /\ f.holds = "graph"
        <3>2. weights \in {f.weights} \cup StandIns
            BY StandsIn
        <3> HIDE DEF weights, runs
        <3>3. Shows(Loaded(weights, runs, f)) /\ Loaded(weights, runs, f).of = f
            BY <3>2, LoadedShows
        <3>4. LoadONNX(f, packages) \in {Failed, Loaded(weights, runs, f)}
            BY DEF LoadONNX, weights, runs
        <3> QED
            BY <2>1, <3>1, <3>3, <3>4, FailedIsNotOk
    <2>4. CASE model.kind = "pytorch"
        <3>1. Load(model, f, packages) = LoadPyTorch(model, f, packages)
            BY <1>3, <2>4 DEF Load
        <3> DEFINE runs == f.holds \in {"module", "script"}
        <3>2. Unpickled(f) \in {f.weights} \cup StandIns
            BY StandsIn DEF Unpickled
        <3>3. LoadPyTorch(model, f, packages) \in
                {Failed, Loaded(Unpickled(f), FALSE, f), Loaded(StandIn["empty"], FALSE, f), Loaded(f.weights, runs, f)}
            BY DEF LoadPyTorch
        <3> HIDE DEF runs
        <3>4. Shows(Loaded(Unpickled(f), FALSE, f)) /\ Loaded(Unpickled(f), FALSE, f).of = f
            BY <3>2, LoadedShows
        <3>5. Shows(Loaded(StandIn["empty"], FALSE, f)) /\ Loaded(StandIn["empty"], FALSE, f).of = f
            BY StandsIn, LoadedShows
        <3>6. Shows(Loaded(f.weights, runs, f)) /\ Loaded(f.weights, runs, f).of = f
            BY LoadedShows
        <3>7. LoadPyTorch(model, f, packages) = Failed
              \/ /\ Shows(LoadPyTorch(model, f, packages))
                 /\ LoadPyTorch(model, f, packages).of = f
            BY <3>3, <3>4, <3>5, <3>6
        <3> QED
            BY <2>1, <3>1, <3>7, FailedIsNotOk
    <2> QED
        BY <1>3, <2>2, <2>3, <2>4 DEF IsAdapter
<1> QED
    BY <1>1, <1>2, <1>3

(* The routes make adapters, too.                                          *)
LEMMA ResolvedIsAdapter == \A suffix : IsAdapter(ResolveAdapter(suffix))
<1> SUFFICES ASSUME NEW suffix PROVE IsAdapter(ResolveAdapter(suffix))
    OBVIOUS
<1>1. CASE suffix = ".onnx"
    BY <1>1 DEF ResolveAdapter, IsAdapter, Adapter
<1>2. CASE suffix \in {".pt", ".pth", ".torchscript"}
    BY <1>2 DEF ResolveAdapter, IsAdapter, Adapter
<1>3. CASE suffix \notin {".onnx", ".pt", ".pth", ".torchscript"}
    BY <1>3 DEF ResolveAdapter, IsAdapter, Adapter
<1> QED
    BY <1>1, <1>2, <1>3

-----------------------------------------------------------------------------
(* The analysis in progress.                                               *)

Fields == {"pc", "models", "loaded", "artifact", "digests", "todo", "plan", "executed", "skipped", "findings",
           "judged", "failures", "steady"}

Rests == {Checks, <<"MT-2", "MT-3", "MT-4">>, <<"MT-3", "MT-4">>, <<"MT-4">>, <<>>}

Both == {Candidate, Reference}
Compares(c) == c.models[Reference] # NoModel
Sides(c) == IF Compares(c) THEN Both ELSE {Candidate}
Touches(c) == [who : Sides(c), how : {"name", "digest", "predict", "read", "try"}]

(* What is known of any analysis.                                          *)
Sound(c) ==
  /\ DOMAIN c = Fields
  /\ c.pc \in {"checking", "touching"}
  /\ DOMAIN c.loaded = Both /\ DOMAIN c.artifact = Both /\ DOMAIN c.digests = Both
  /\ \A who \in Sides(c) : IsAdapter(c.models[who])
  /\ \A who \in Both : c.loaded[who] = Failed \/ Shows(c.loaded[who])
  /\ c.todo \in Rests
  /\ c.plan \in Seq(Touches(c))
  /\ IsList(c.findings)
  /\ c.steady \in BOOLEAN

Cause(s) ==
  LET own == s.loaded[Candidate]
      other == s.loaded[Reference]
  IN /\ Tells(s.findings, "verified") =>
          /\ own.ok /\ other.ok
          /\ s.steady => own.of.weights = other.of.weights \/ own.weights \in StandIns
          /\ own.runs \/ other.runs =>
               \/ Response(own) = Silent /\ Response(other) = Silent
               \/ Distance[<<own.of.response, other.of.response>>] = "none"
     /\ Tells(s.findings, "substituted") =>
          /\ own.ok /\ other.ok
          /\ own.runs /\ other.runs =>
               Silent \in {own.of.response, other.of.response} \/ Distance[<<own.of.response, other.of.response>>] = "far"
     /\ Tells(s.findings, "modified") =>
          /\ own.ok /\ other.ok
          /\ \/ <<own.of.weights, other.of.weights>> \in StatsDiffer
             \/ own.weights \in StandIns \/ other.weights \in StandIns
     /\ Tells(s.findings, "diverged") => own.ok /\ other.ok /\ (own.runs \/ other.runs)

JudgedOne(s) == \A j \in s.judged : s.loaded[Candidate].ok /\ j[2] = s.loaded[Candidate].of

Has(plan, who, how) == \E k \in DOMAIN plan : plan[k] = Touch(who, how)
Left(c, who, how) == Has(c.plan, who, how)

(* A comparison ends only when both models have answered; and, unless the  *)
(* files were replaced, a model that answers had its weights in its digest.*)
Compared(c) ==
  \A who \in Both :
    /\ Left(c, who, "predict") \/ c.loaded[who].ok
    /\ Readable(c.models[who]) /\ c.steady /\ ~Left(c, who, "digest") =>
         IF c.loaded[who].ok THEN c.digests[who] = WeightDigest(c.loaded[who].weights)
         ELSE ~Load(c.models[who], disk[who], installed).ok

Read(c) == \A who \in Both : Left(c, who, "read") \/ c.loaded[who].ok

(* What the check at hand has seen.                                        *)
Witnessed(c) ==
  c.pc = "touching" =>
    /\ c.todo # <<>>
    /\ Head(c.todo) = "MT-1" /\ Compares(c) => Compared(c)
    /\ (Head(c.todo) = "MT-2" /\ Compares(c) /\ Readable(c.models[Candidate]) /\ Readable(c.models[Reference])) => Read(c)
    /\ Head(c.todo) = "MT-1" => \A k \in DOMAIN c.plan : c.plan[k] = Touch(Candidate, "name") => k = 1

(* Unless the files were replaced, what is loaded is what is there, and    *)
(* the first touch of the first check named it.                            *)
Named(c) ==
  c.steady =>
    /\ c.models[Candidate].kind # "mock" /\ c.loaded[Candidate].ok =>
         c.loaded[Candidate].of = disk[Candidate] /\ disk[Candidate].size # "missing"
    /\ \/ c.todo = Checks /\ (c.pc = "checking" \/ Left(c, Candidate, "name"))
       \/ c.artifact[Candidate] = IF IsFile(c.models[Candidate], disk[Candidate]) THEN disk[Candidate] ELSE NoFile

Going(c) == Sound(c) /\ Cause(c) /\ JudgedOne(c) /\ Witnessed(c) /\ Named(c)

Ended(s) ==
  /\ Cause(s) /\ JudgedOne(s)
  /\ s.steady /\ s.models[Candidate].kind # "mock" => \A j \in s.judged : j[2] = s.artifact[Candidate]

ModelsOk(models) == IsAdapter(models[1]) /\ (models[2] = NoModel \/ IsAdapter(models[2]))

CauseInv ==
  /\ \A models \in programs : ModelsOk(models)
  /\ call.pc \in {"checking", "touching"} => Going(call)
  /\ IsList(sessions)
  /\ \A k \in DOMAIN sessions : Ended(sessions[k])

(* What was loaded stays, so that a cause remains one.                     *)
Grows(c, d) ==
  /\ d.models = c.models /\ (d.steady => c.steady)
  /\ \A who \in Both : c.loaded[who].ok => d.loaded[who] = c.loaded[who]

LEMMA GrowthKeeps ==
    ASSUME NEW c, NEW d, Grows(c, d), d.findings = c.findings, d.judged = c.judged, Cause(c), JudgedOne(c)
    PROVE  Cause(d) /\ JudgedOne(d)
<1>1. /\ c.loaded[Candidate].ok => d.loaded[Candidate] = c.loaded[Candidate]
      /\ c.loaded[Reference].ok => d.loaded[Reference] = c.loaded[Reference]
      /\ d.steady => c.steady
    BY DEF Grows, Both
<1>2. JudgedOne(d)
    BY <1>1 DEF JudgedOne
<1>3. ASSUME c.loaded[Candidate].ok, c.loaded[Reference].ok
      PROVE  Cause(d)
    BY <1>1, <1>3 DEF Cause
<1>4. ASSUME ~(c.loaded[Candidate].ok /\ c.loaded[Reference].ok)
      PROVE  Cause(d)
    BY <1>4 DEF Cause
<1> QED
    BY <1>2, <1>3, <1>4

-----------------------------------------------------------------------------
(* An analysis begins, and its files are replaced.                         *)

LEMMA AnalysisBegins ==
    ASSUME NEW models, ModelsOk(models), call' = Analysis(models)
    PROVE  Going(call)'
<1>1. /\ DOMAIN call' = Fields /\ call'.pc = "checking" /\ call'.models = models
      /\ call'.loaded = <<Failed, Failed>> /\ call'.todo = Checks /\ call'.plan = <<>> /\ call'.findings = <<>>
      /\ call'.judged = {} /\ call'.steady = TRUE /\ DOMAIN call'.loaded = Both /\ DOMAIN call'.artifact = Both
      /\ DOMAIN call'.digests = Both
    BY DEF Analysis, Fields, Both, Candidate, Reference
<1>2. Sound(call)'
    <2>1. call'.plan \in Seq(Touches(call'))
        BY <1>1
    <2>2. \A who \in Both : call'.loaded[who] = Failed
        BY <1>1 DEF Both, Candidate, Reference
    <2>3. \A who \in Sides(call') : IsAdapter(call'.models[who])
        BY <1>1 DEF Sides, Both, Compares, Candidate, Reference, ModelsOk
    <2> QED
        BY <1>1, <2>1, <2>2, <2>3, NothingTells DEF Sound, Rests
<1>3. Cause(call)' /\ JudgedOne(call)'
    BY <1>1, NothingTells DEF Cause, JudgedOne
<1>4. Witnessed(call)'
    BY <1>1 DEF Witnessed
<1>5. Named(call)'
    BY <1>1, FailedIsNotOk DEF Named, Candidate
<1> QED
    BY <1>2, <1>3, <1>4, <1>5 DEF Going

LEMMA ReplaceStep ==
    ASSUME Going(call), ReplaceFiles, call.pc \in {"checking", "touching"}
    PROVE  Going(call)'
<1>1. /\ call' = [call EXCEPT !.steady = FALSE]
      /\ Sound(call) /\ Cause(call) /\ JudgedOne(call) /\ Witnessed(call)
    BY DEF ReplaceFiles, Going
<1>2. DOMAIN call = Fields
    BY <1>1 DEF Sound
<1>3. /\ DOMAIN call' = Fields /\ call'.steady = FALSE /\ call'.pc = call.pc /\ call'.models = call.models
      /\ call'.loaded = call.loaded /\ call'.artifact = call.artifact /\ call'.digests = call.digests
      /\ call'.todo = call.todo /\ call'.plan = call.plan /\ call'.findings = call.findings
      /\ call'.judged = call.judged
    BY <1>1, <1>2 DEF Fields
<1>4. Sound(call)'
    BY <1>1, <1>3 DEF Sound, Touches, Sides, Compares
<1>5. Cause(call)' /\ JudgedOne(call)'
    <2>1. Grows(call, call')
        BY <1>3 DEF Grows
    <2> QED
        BY <1>1, <1>3, <2>1, GrowthKeeps
<1>6. Witnessed(call)'
    BY <1>1, <1>3 DEF Witnessed, Compares, Compared, Read, Left
<1>7. Named(call)'
    BY <1>3 DEF Named
<1> QED
    BY <1>4, <1>5, <1>6, <1>7 DEF Going

-----------------------------------------------------------------------------
(* A check starts.                                                         *)

LEMMA FingerprintIs ==
    ASSUME NEW S, NEW who, Touch(who, "name") \in S, Touch(who, "digest") \in S, Touch(who, "predict") \in S
    PROVE  /\ Fingerprint(who) \in Seq(S) /\ Len(Fingerprint(who)) = 3
           /\ Fingerprint(who)[1] = Touch(who, "name") /\ Fingerprint(who)[2] = Touch(who, "digest")
           /\ Fingerprint(who)[3] = Touch(who, "predict")
BY DEF Fingerprint

LEMMA TouchIs ==
    \A c, who, how : who \in Sides(c) /\ how \in {"name", "digest", "predict", "read", "try"} =>
      Touch(who, how) \in Touches(c) /\ Touch(who, how).who = who /\ Touch(who, how).how = how
BY DEF Touches, Touch

LEMMA TouchesDiffer ==
    \A one, other, how, kind : Touch(one, how) = Touch(other, kind) => one = other /\ how = kind
BY DEF Touch

(* The first list is found in a joined one, and so is the second.          *)
LEMMA JoinHas ==
    ASSUME NEW S, NEW f \in Seq(S), NEW g \in Seq(S), NEW who, NEW how
    PROVE  /\ Joined(f, g) \in Seq(S)
           /\ Has(f, who, how) => Has(Joined(f, g), who, how)
           /\ Has(g, who, how) => Has(Joined(f, g), who, how)
<1>1. /\ Joined(f, g) \in Seq(S) /\ Len(Joined(f, g)) = Len(f) + Len(g)
      /\ \A k \in 1..(Len(f) + Len(g)) : Joined(f, g)[k] = IF k <= Len(f) THEN f[k] ELSE g[k - Len(f)]
    BY ConcatProperties DEF Joined
<1>2. Len(f) \in Nat /\ Len(g) \in Nat
    BY LenProperties
<1>3. /\ DOMAIN f = 1..Len(f) /\ DOMAIN g = 1..Len(g) /\ DOMAIN Joined(f, g) = 1..(Len(f) + Len(g))
    BY <1>1, SeqIsList
<1>4. ASSUME NEW k \in DOMAIN f
      PROVE  k \in DOMAIN Joined(f, g) /\ Joined(f, g)[k] = f[k]
    BY <1>1, <1>2, <1>3
<1>5. ASSUME NEW k \in DOMAIN g
      PROVE  Len(f) + k \in DOMAIN Joined(f, g) /\ Joined(f, g)[Len(f) + k] = g[k]
    BY <1>1, <1>2, <1>3
<1> QED
    BY <1>1, <1>4, <1>5 DEF Has

(* MT-1 names the candidate first, and touches each model it compares.     *)
LEMMA ComparisonIs ==
    ASSUME NEW c, Compares(c)
    PROVE  LET plan == Joined(Fingerprint(Candidate), Fingerprint(Reference))
           IN /\ plan \in Seq(Touches(c))
              /\ \A who \in Both : Has(plan, who, "digest") /\ Has(plan, who, "predict")
              /\ Has(plan, Candidate, "name")
              /\ \A k \in DOMAIN plan : plan[k] = Touch(Candidate, "name") => k = 1
<1> DEFINE S == Touches(c)
           f == Fingerprint(Candidate)
           g == Fingerprint(Reference)
<1>1. \A who \in Both : Touch(who, "name") \in S /\ Touch(who, "digest") \in S /\ Touch(who, "predict") \in S
    BY TouchIs DEF Sides
<1>2. /\ f \in Seq(S) /\ Len(f) = 3 /\ f[1] = Touch(Candidate, "name") /\ f[2] = Touch(Candidate, "digest")
      /\ f[3] = Touch(Candidate, "predict")
    BY <1>1, FingerprintIs DEF Both
<1>3. /\ g \in Seq(S) /\ Len(g) = 3 /\ g[1] = Touch(Reference, "name") /\ g[2] = Touch(Reference, "digest")
      /\ g[3] = Touch(Reference, "predict")
    BY <1>1, FingerprintIs DEF Both
<1> HIDE DEF S, f, g
<1>4. /\ Joined(f, g) \in Seq(S) /\ Len(Joined(f, g)) = 6
      /\ \A k \in 1..6 : Joined(f, g)[k] = IF k <= 3 THEN f[k] ELSE g[k - 3]
    <2>1. f \in Seq(S) /\ g \in Seq(S)
        BY <1>2, <1>3
    <2>2. /\ Joined(f, g) \in Seq(S) /\ Len(Joined(f, g)) = Len(f) + Len(g)
          /\ \A k \in 1..(Len(f) + Len(g)) : Joined(f, g)[k] = IF k <= Len(f) THEN f[k] ELSE g[k - Len(f)]
        BY <2>1, ConcatProperties DEF Joined
    <2>3. Len(f) = 3 /\ Len(g) = 3 /\ 3 + 3 = 6
        BY <1>2, <1>3
    <2> QED
        BY <2>2, <2>3
<1>5. DOMAIN Joined(f, g) = 1..6
    BY <1>4, SeqIsList
<1>6. /\ Joined(f, g)[1] = Touch(Candidate, "name") /\ Joined(f, g)[2] = Touch(Candidate, "digest")
      /\ Joined(f, g)[3] = Touch(Candidate, "predict") /\ Joined(f, g)[4] = Touch(Reference, "name")
      /\ Joined(f, g)[5] = Touch(Reference, "digest") /\ Joined(f, g)[6] = Touch(Reference, "predict")
    BY <1>2, <1>3, <1>4
<1>7. /\ Has(Joined(f, g), Candidate, "digest") /\ Has(Joined(f, g), Candidate, "predict")
      /\ Has(Joined(f, g), Candidate, "name") /\ Has(Joined(f, g), Reference, "digest")
      /\ Has(Joined(f, g), Reference, "predict")
    BY <1>5, <1>6 DEF Has
<1>8. ASSUME NEW k \in 1..6, Joined(f, g)[k] = Touch(Candidate, "name")
      PROVE  k = 1
    <2>1. k \in {1, 2, 3, 4, 5, 6}
        OBVIOUS
    <2>2. Candidate # Reference
        BY DEF Candidate, Reference
    <2>3. /\ Touch(Candidate, "digest") # Touch(Candidate, "name") /\ Touch(Candidate, "predict") # Touch(Candidate, "name")
          /\ Touch(Reference, "name") # Touch(Candidate, "name") /\ Touch(Reference, "digest") # Touch(Candidate, "name")
          /\ Touch(Reference, "predict") # Touch(Candidate, "name")
        BY <2>2, TouchesDiffer
    <2> QED
        BY <1>6, <1>8, <2>1, <2>3
<1> QED
    BY <1>4, <1>5, <1>7, <1>8 DEF Both, f, g, S

(* The touches of each check: only models that are there; MT-1 compares,   *)
(* and MT-2 reads before it compares.                                      *)
StartsWell(c, check, plan) ==
    /\ plan \in Seq(Touches(c))
    /\ check = "MT-1" /\ Compares(c) => \A who \in Both : Has(plan, who, "digest") /\ Has(plan, who, "predict")
    /\ check = "MT-1" => /\ Has(plan, Candidate, "name")
                         /\ \A k \in DOMAIN plan : plan[k] = Touch(Candidate, "name") => k = 1
    /\ check = "MT-2" /\ Compares(c) /\ Readable(c.models[Candidate]) /\ Readable(c.models[Reference]) =>
         \A who \in Both : Has(plan, who, "read")

LEMMA TouchesAre ==
    ASSUME NEW check \in {"MT-1", "MT-2", "MT-3", "MT-4"}
    PROVE  StartsWell(call, check, TouchesOf(check))
<1> DEFINE S == Touches(call)
           candidate == call.models[Candidate]
           reference == call.models[Reference]
           compare == IF reference = NoModel THEN <<>> ELSE Joined(Fingerprint(Candidate), Fingerprint(Reference))
<1>1. /\ Touch(Candidate, "name") \in S /\ Touch(Candidate, "digest") \in S /\ Touch(Candidate, "predict") \in S
      /\ Touch(Candidate, "read") \in S /\ Touch(Candidate, "try") \in S
      /\ Compares(call) => Touch(Reference, "read") \in S /\ Touch(Reference, "try") \in S
    BY TouchIs DEF Sides, Both
<1>2. Compares(call) <=> reference # NoModel
    BY DEF Compares
<1>3. compare \in Seq(S)
    BY <1>2, ComparisonIs
<1>4. CASE check = "MT-1"
    <2>1. CASE Compares(call)
        <3>1. TouchesOf(check) = Joined(Fingerprint(Candidate), Fingerprint(Reference))
            BY <1>2, <1>4, <2>1 DEF TouchesOf, Joined
        <3> QED
            BY <1>4, <3>1, <2>1, ComparisonIs DEF StartsWell
    <2>2. CASE ~Compares(call)
        <3> DEFINE f == Fingerprint(Candidate)
        <3>1. TouchesOf(check) = f
            BY <1>2, <1>4, <2>2 DEF TouchesOf
        <3>2. /\ f \in Seq(S) /\ Len(f) = 3 /\ f[1] = Touch(Candidate, "name") /\ f[2] = Touch(Candidate, "digest")
              /\ f[3] = Touch(Candidate, "predict")
            BY <1>1, FingerprintIs
        <3> HIDE DEF f
        <3>3. DOMAIN f = {1, 2, 3}
            BY <3>2, SeqIsList
        <3>4. /\ Touch(Candidate, "digest") # Touch(Candidate, "name")
              /\ Touch(Candidate, "predict") # Touch(Candidate, "name")
            BY TouchesDiffer
        <3>5. Has(f, Candidate, "name") /\ \A k \in DOMAIN f : f[k] = Touch(Candidate, "name") => k = 1
            BY <3>2, <3>3, <3>4 DEF Has
        <3> QED
            BY <1>4, <2>2, <3>1, <3>2, <3>5 DEF StartsWell
    <2> QED
        BY <2>1, <2>2
<1>5. CASE check = "MT-2"
    <2> DEFINE both == reference # NoModel /\ Readable(candidate) /\ Readable(reference)
               reads == IF both THEN <<Touch(Candidate, "read"), Touch(Reference, "read")>> ELSE <<>>
               try == IF Readable(candidate) THEN <<Touch(Candidate, "try")>> ELSE <<>>
    <2>1. TouchesOf(check) = Joined(Joined(reads, compare), try)
        BY <1>5 DEF TouchesOf, Joined
    <2>2. reads \in Seq(S) /\ try \in Seq(S)
        BY <1>1, <1>2
    <2>3. both => \A who \in Both : Has(reads, who, "read")
        <3> SUFFICES ASSUME both PROVE \A who \in Both : Has(reads, who, "read")
            OBVIOUS
        <3>1. reads = <<Touch(Candidate, "read"), Touch(Reference, "read")>>
            OBVIOUS
        <3> HIDE DEF reads
        <3>2. DOMAIN reads = {1, 2} /\ reads[1] = Touch(Candidate, "read") /\ reads[2] = Touch(Reference, "read")
            BY <3>1
        <3>3. Has(reads, Candidate, "read") /\ Has(reads, Reference, "read")
            BY <3>2 DEF Has
        <3> QED
            BY <3>3 DEF Both
    <2> HIDE DEF reads, try, compare
    <2>4. Joined(reads, compare) \in Seq(S) /\ (both => \A who \in Both : Has(Joined(reads, compare), who, "read"))
        BY <1>3, <2>2, <2>3, JoinHas
    <2>5. TouchesOf(check) \in Seq(S) /\ (both => \A who \in Both : Has(TouchesOf(check), who, "read"))
        BY <2>1, <2>2, <2>4, JoinHas
    <2> QED
        BY <1>2, <1>5, <2>5 DEF StartsWell
<1>6. CASE check = "MT-3"
    <2>1. TouchesOf(check) \in {<<>>, <<Touch(Candidate, "predict")>>, <<Touch(Candidate, "try")>>}
        BY <1>6 DEF TouchesOf
    <2>2. TouchesOf(check) \in Seq(S)
        <3> DEFINE answer == <<Touch(Candidate, "predict")>>
                   try == <<Touch(Candidate, "try")>>
        <3>1. <<>> \in Seq(S) /\ answer \in Seq(S) /\ try \in Seq(S)
            BY <1>1
        <3>2. TouchesOf(check) \in {<<>>, answer, try}
            BY <2>1
        <3> HIDE DEF answer, try, S
        <3> QED
            BY <3>1, <3>2
    <2> QED
        BY <1>6, <2>2 DEF StartsWell
<1>7. CASE check = "MT-4"
    <2>1. Trial(Candidate) \in Seq(S)
        BY <1>1 DEF Trial
    <2>2. Trial(Reference) \in Seq(S)
        BY <1>1, <1>2 DEF Trial
    <2>3. Joined(Trial(Candidate), Trial(Reference)) \in Seq(S)
        BY <2>1, <2>2, JoinHas
    <2>4. TouchesOf(check) \in {<<>>, Joined(Trial(Candidate), Trial(Reference))}
        BY <1>7 DEF TouchesOf, Joined
    <2>5. <<>> \in Seq(S)
        OBVIOUS
    <2>6. TouchesOf(check) \in Seq(S)
        BY <2>3, <2>4, <2>5, Zenon
    <2> QED
        BY <1>7, <2>6 DEF StartsWell
<1> QED
    BY <1>4, <1>5, <1>6, <1>7

(* The checks that are left begin with one, and what follows is less.      *)
LEMMA RestsShrink ==
    \A todo \in Rests : todo # <<>> =>
      /\ Head(todo) \in {"MT-1", "MT-2", "MT-3", "MT-4"}
      /\ Tail(todo) \in Rests /\ Tail(todo) # Checks
      /\ Head(todo) = "MT-1" <=> todo = Checks
<1> SUFFICES ASSUME NEW todo \in Rests, todo # <<>>
             PROVE  /\ Head(todo) \in {"MT-1", "MT-2", "MT-3", "MT-4"}
                    /\ Tail(todo) \in Rests /\ Tail(todo) # Checks
                    /\ Head(todo) = "MT-1" <=> todo = Checks
    OBVIOUS
<1>1. CASE todo = Checks
    <2>1. Head(todo) = "MT-1" /\ Tail(todo) = <<"MT-2", "MT-3", "MT-4">> /\ Tail(todo) # Checks
        BY <1>1 DEF Checks
    <2> QED
        BY <1>1, <2>1 DEF Rests
<1>2. CASE todo = <<"MT-2", "MT-3", "MT-4">>
    <2>1. Head(todo) = "MT-2" /\ Tail(todo) = <<"MT-3", "MT-4">> /\ Tail(todo) # Checks /\ todo # Checks
        BY <1>2 DEF Checks
    <2> QED
        BY <2>1 DEF Rests
<1>3. CASE todo = <<"MT-3", "MT-4">>
    <2>1. Head(todo) = "MT-3" /\ Tail(todo) = <<"MT-4">> /\ Tail(todo) # Checks /\ todo # Checks
        BY <1>3 DEF Checks
    <2> QED
        BY <2>1 DEF Rests
<1>4. CASE todo = <<"MT-4">>
    <2>1. Head(todo) = "MT-4" /\ Tail(todo) = <<>> /\ Tail(todo) # Checks /\ todo # Checks
        BY <1>4 DEF Checks
    <2> QED
        BY <2>1 DEF Rests
<1> QED
    BY <1>1, <1>2, <1>3, <1>4 DEF Rests

LEMMA StartStep ==
    ASSUME Going(call), StartCheck
    PROVE  Going(call)'
<1>1. /\ call.pc = "checking" /\ call.todo # <<>>
      /\ call' = [call EXCEPT !.pc = "touching", !.plan = TouchesOf(Head(call.todo))]
      /\ disk' = disk /\ installed' = installed
      /\ Sound(call) /\ Cause(call) /\ JudgedOne(call) /\ Named(call)
    BY DEF StartCheck, Going
<1>2. DOMAIN call = Fields /\ call.todo \in Rests
    BY <1>1 DEF Sound
<1> DEFINE check == Head(call.todo)
           plan == TouchesOf(check)
<1>3. check \in {"MT-1", "MT-2", "MT-3", "MT-4"} /\ (check = "MT-1" <=> call.todo = Checks)
    BY <1>1, <1>2, RestsShrink
<1>4. StartsWell(call, check, plan)
    BY <1>3, TouchesAre
<1>5. /\ DOMAIN call' = Fields /\ call'.steady = call.steady /\ call'.pc = "touching" /\ call'.models = call.models
      /\ call'.loaded = call.loaded /\ call'.artifact = call.artifact /\ call'.digests = call.digests
      /\ call'.todo = call.todo /\ call'.plan = plan /\ call'.findings = call.findings
      /\ call'.judged = call.judged
    BY <1>1, <1>2 DEF Fields
<1> HIDE DEF check, plan
<1>6. Sound(call)'
    BY <1>1, <1>4, <1>5 DEF Sound, Touches, Sides, Compares, StartsWell
<1>7. Cause(call)' /\ JudgedOne(call)'
    <2>1. Grows(call, call')
        BY <1>5 DEF Grows
    <2> QED
        BY <1>1, <1>5, <2>1, GrowthKeeps
<1>8. Witnessed(call)'
    <2>1. call'.todo # <<>> /\ Head(call'.todo) = check
        BY <1>1, <1>5 DEF check
    <2>2. check = "MT-1" /\ Compares(call') => Compared(call)'
        BY <1>4, <1>5 DEF Compared, Left, StartsWell, Compares
    <2>3. (check = "MT-2" /\ Compares(call') /\ Readable(call'.models[Candidate]) /\ Readable(call'.models[Reference]))
            => Read(call)'
        BY <1>4, <1>5 DEF Read, Left, StartsWell, Compares
    <2>4. check = "MT-1" => \A k \in DOMAIN call'.plan : call'.plan[k] = Touch(Candidate, "name") => k = 1
        BY <1>4, <1>5 DEF StartsWell
    <2> QED
        BY <2>1, <2>2, <2>3, <2>4 DEF Witnessed, Compares
<1>9. Named(call)'
    <2>1. call.todo = Checks => Left(call', Candidate, "name")
        BY <1>3, <1>4, <1>5 DEF Left, StartsWell
    <2> QED
        BY <1>1, <1>5, <2>1 DEF Named, IsFile
<1> QED
    BY <1>6, <1>7, <1>8, <1>9 DEF Going

-----------------------------------------------------------------------------
(* A check touches a file or an adapter.                                   *)

(* Of a plan only its first touch goes.                                    *)
LEMMA TailHas ==
    ASSUME NEW S, NEW plan \in Seq(S), plan # <<>>
    PROVE  /\ Head(plan) \in S /\ Tail(plan) \in Seq(S)
           /\ Head(plan) = plan[1] /\ 1 \in DOMAIN plan
           /\ \A k \in DOMAIN Tail(plan) : k + 1 \in DOMAIN plan /\ k + 1 # 1 /\ Tail(plan)[k] = plan[k + 1]
           /\ \A who, how : Has(plan, who, how) => Has(Tail(plan), who, how) \/ Head(plan) = Touch(who, how)
<1>1. Len(plan) \in Nat /\ Len(plan) >= 1 /\ DOMAIN plan = 1..Len(plan)
    BY SeqIsList, EmptySeq, LenProperties
<1>2. /\ Tail(plan) \in Seq(S) /\ Head(plan) \in S /\ Len(Tail(plan)) = Len(plan) - 1 /\ Head(plan) = plan[1]
      /\ \A k \in 1..(Len(plan) - 1) : Tail(plan)[k] = plan[k + 1]
    BY HeadTailProperties
<1>3. DOMAIN Tail(plan) = 1..(Len(plan) - 1)
    BY <1>2, SeqIsList
<1>4. ASSUME NEW who, NEW how, NEW k \in DOMAIN plan, plan[k] = Touch(who, how)
      PROVE  Has(Tail(plan), who, how) \/ Head(plan) = Touch(who, how)
    <2>1. CASE k = 1
        BY <1>2, <1>4, <2>1
    <2>2. CASE k # 1
        <3>1. k - 1 \in DOMAIN Tail(plan) /\ Tail(plan)[k - 1] = Touch(who, how)
            BY <1>1, <1>2, <1>3, <1>4, <2>2
        <3> QED
            BY <3>1 DEF Has
    <2> QED
        BY <2>1, <2>2
<1> QED
    BY <1>1, <1>2, <1>3, <1>4 DEF Has

(* What a touch obtains: what was loaded before, else what loads now.      *)
Obtains(c, who, got) ==
    /\ got = Failed \/ Shows(got)
    /\ c.loaded[who].ok => got = c.loaded[who]
    /\ ~c.loaded[who].ok => got = Load(c.models[who], disk[who], installed)
    /\ (who = Candidate /\ c.steady /\ c.models[who].kind # "mock" /\ got.ok) =>
         got.of = disk[who] /\ disk[who].size # "missing"

LEMMA ObtainIs ==
    ASSUME Going(call), NEW who \in Sides(call)
    PROVE  Obtains(call, who, Obtain(who))
<1>1. Sound(call) /\ Named(call)
    BY DEF Going
<1>2. who \in Both /\ IsAdapter(call.models[who]) /\ (call.loaded[who] = Failed \/ Shows(call.loaded[who]))
    BY <1>1 DEF Sound, Sides, Both
<1>3. CASE call.loaded[who].ok
    <2>1. Obtain(who) = call.loaded[who]
        BY <1>3 DEF Obtain
    <2> QED
        BY <1>1, <1>2, <1>3, <2>1 DEF Obtains, Named
<1>4. CASE ~call.loaded[who].ok
    <2>1. Obtain(who) = Load(call.models[who], disk[who], installed)
        BY <1>4 DEF Obtain
    <2>2. LET l == Load(call.models[who], disk[who], installed)
          IN /\ l = Failed \/ Shows(l)
             /\ l.ok /\ call.models[who].kind # "mock" => l.of = disk[who] /\ disk[who].size # "missing"
        BY <1>2, LoadShows
    <2> QED
        BY <1>4, <2>1, <2>2 DEF Obtains
<1> QED
    BY <1>3, <1>4

(* What a touch t that obtains got changes, and what it leaves.            *)
Leaves(c, d) ==
    /\ DOMAIN d = Fields /\ d.models = c.models /\ d.findings = c.findings /\ d.judged = c.judged
    /\ d.steady = c.steady /\ DOMAIN d.loaded = Both /\ DOMAIN d.artifact = Both /\ DOMAIN d.digests = Both

Gets(c, d, t, got) ==
    /\ \A who \in Both : who # t.who => d.loaded[who] = c.loaded[who]
    /\ d.loaded[t.who] \in {c.loaded[t.who], got}

Touched(c, d, t, got) ==
    /\ Leaves(c, d) /\ Gets(c, d, t, got)
    /\ d.pc = "touching" /\ d.plan = Tail(c.plan) /\ d.todo = c.todo
    /\ t.how \in {"predict", "read"} => d.loaded[t.who] = got /\ got.ok
    /\ \A who \in Both : t # Touch(who, "digest") => d.digests[who] = c.digests[who]
    /\ t.how = "digest" /\ Readable(c.models[t.who]) =>
         d.loaded[t.who] = got /\ (got.ok => d.digests[t.who] = WeightDigest(got.weights))
    /\ t # Touch(Candidate, "name") => d.artifact[Candidate] = c.artifact[Candidate]
    /\ t = Touch(Candidate, "name") =>
         d.artifact[Candidate] = IF IsFile(c.models[Candidate], disk[Candidate]) THEN disk[Candidate] ELSE NoFile

GivesUp(c, d, t, got) ==
    /\ Leaves(c, d) /\ Gets(c, d, t, got)
    /\ d.pc = "checking" /\ d.plan = <<>> /\ d.todo = Tail(c.todo)
    /\ t.how \in {"read", "predict"} /\ d.artifact = c.artifact

LEMMA TouchMoves ==
    ASSUME Going(call), TouchNext
    PROVE  LET t == Head(call.plan)
               got == Obtain(t.who)
           IN Touched(call, call', t, got) \/ GivesUp(call, call', t, got)
<1> DEFINE t == Head(call.plan)
           got == Obtain(t.who)
           kept == [call EXCEPT !.plan = Tail(@), !.loaded[t.who] = got]
           fails == t.how \in {"read", "predict"} /\ (~got.ok \/ (t.how = "predict" /\ ~Predicts(got)))
<1>1. /\ call.pc = "touching" /\ call.plan # <<>>
      /\ DOMAIN call = Fields /\ call.plan \in Seq(Touches(call))
      /\ DOMAIN call.loaded = Both /\ DOMAIN call.artifact = Both /\ DOMAIN call.digests = Both
    BY DEF TouchNext, Going, Sound
<1>2. t \in Touches(call)
    BY <1>1, TailHas
<1>3. t = Touch(t.who, t.how) /\ t.who \in Both /\ t.how \in {"name", "digest", "predict", "read", "try"}
    BY <1>2 DEF Touches, Touch, Sides, Both
<1>4. call' =
        IF t.how = "name"
        THEN [call EXCEPT !.plan = Tail(@),
                          !.artifact[t.who] = IF IsFile(call.models[t.who], disk[t.who]) THEN disk[t.who] ELSE NoFile]
        ELSE IF t.how = "digest" /\ ~Readable(call.models[t.who])
        THEN [call EXCEPT !.plan = Tail(@), !.digests[t.who] = OpaqueDigest(call.artifact[t.who])]
        ELSE IF t.how = "digest"
        THEN [kept EXCEPT !.digests[t.who] = IF got.ok THEN WeightDigest(got.weights) ELSE OpaqueDigest(call.artifact[t.who])]
        ELSE IF fails
        THEN [kept EXCEPT !.pc = "checking", !.plan = <<>>, !.todo = Tail(@), !.skipped = @ \cup {Head(call.todo)}]
        ELSE kept
    BY DEF TouchNext
<1> SUFFICES Touched(call, call', t, got) \/ GivesUp(call, call', t, got)
    OBVIOUS
<1> HIDE DEF t, got, fails
<1>5. /\ DOMAIN kept = Fields /\ kept.models = call.models /\ kept.findings = call.findings
      /\ kept.judged = call.judged /\ kept.steady = call.steady /\ kept.pc = call.pc /\ kept.todo = call.todo
      /\ kept.plan = Tail(call.plan) /\ kept.artifact = call.artifact /\ kept.digests = call.digests
      /\ kept.loaded = [call.loaded EXCEPT ![t.who] = got]
    BY <1>1 DEF Fields
<1>6. DOMAIN kept.loaded = Both /\ kept.loaded[t.who] = got /\ \A who \in Both : who # t.who => kept.loaded[who] = call.loaded[who]
    BY <1>1, <1>3, <1>5
<1> HIDE DEF kept
<1>7. \A who, how : t = Touch(who, how) => who = t.who /\ how = t.how
    BY <1>3, TouchesDiffer
<1>8. CASE t.how = "name"
    <2>1. call' = [call EXCEPT !.plan = Tail(@),
                       !.artifact[t.who] = IF IsFile(call.models[t.who], disk[t.who]) THEN disk[t.who] ELSE NoFile]
        BY <1>4, <1>8
    <2>2. /\ Leaves(call, call') /\ call'.loaded = call.loaded /\ call'.pc = call.pc /\ call'.plan = Tail(call.plan)
          /\ call'.todo = call.todo /\ call'.digests = call.digests
          /\ call'.artifact = [call.artifact EXCEPT ![t.who] =
                                 IF IsFile(call.models[t.who], disk[t.who]) THEN disk[t.who] ELSE NoFile]
        BY <1>1, <1>3, <2>1 DEF Leaves, Fields
    <2>3. t # Touch(Candidate, "name") => call'.artifact[Candidate] = call.artifact[Candidate]
        BY <1>1, <1>3, <1>8, <2>2 DEF Both
    <2>4. t = Touch(Candidate, "name") =>
            call'.artifact[Candidate] = IF IsFile(call.models[Candidate], disk[Candidate]) THEN disk[Candidate] ELSE NoFile
        BY <1>1, <1>3, <1>7, <2>2 DEF Both
    <2>5. Gets(call, call', t, got)
        BY <2>2 DEF Gets
    <2>6. call'.pc = "touching" /\ ~(t.how \in {"predict", "read"}) /\ t.how # "digest"
        BY <1>1, <1>8, <2>2
    <2>7. \A who \in Both : call'.digests[who] = call.digests[who]
        BY <2>2
    <2>8. Touched(call, call', t, got)
        BY <2>2, <2>3, <2>4, <2>5, <2>6, <2>7 DEF Touched
    <2> QED
        BY <2>8
<1>9. CASE t.how = "digest" /\ ~Readable(call.models[t.who])
    <2>1. call' = [call EXCEPT !.plan = Tail(@), !.digests[t.who] = OpaqueDigest(call.artifact[t.who])]
        BY <1>4, <1>9
    <2>2. /\ Leaves(call, call') /\ call'.loaded = call.loaded /\ call'.pc = call.pc /\ call'.plan = Tail(call.plan)
          /\ call'.todo = call.todo /\ call'.artifact = call.artifact
          /\ call'.digests = [call.digests EXCEPT ![t.who] = OpaqueDigest(call.artifact[t.who])]
        BY <1>1, <1>3, <2>1 DEF Leaves, Fields
    <2>3. \A who \in Both : t # Touch(who, "digest") => call'.digests[who] = call.digests[who]
        BY <1>1, <1>3, <1>9, <2>2
    <2>4. Gets(call, call', t, got)
        BY <2>2 DEF Gets
    <2>5. call'.pc = "touching" /\ ~(t.how \in {"predict", "read"}) /\ ~(t.how = "digest" /\ Readable(call.models[t.who]))
        BY <1>1, <1>9, <2>2
    <2>6. t # Touch(Candidate, "name")
        BY <1>7, <1>9
    <2>7. Touched(call, call', t, got)
        BY <2>2, <2>3, <2>4, <2>5, <2>6 DEF Touched
    <2> QED
        BY <2>7
<1>10. CASE t.how = "digest" /\ Readable(call.models[t.who])
    <2>1. call' = [kept EXCEPT !.digests[t.who] = IF got.ok THEN WeightDigest(got.weights) ELSE OpaqueDigest(call.artifact[t.who])]
        BY <1>4, <1>10
    <2>2. /\ DOMAIN call' = Fields /\ call'.models = kept.models /\ call'.findings = kept.findings
          /\ call'.judged = kept.judged /\ call'.steady = kept.steady
          /\ call'.loaded = kept.loaded /\ call'.pc = kept.pc /\ call'.plan = kept.plan
          /\ call'.todo = kept.todo /\ call'.artifact = kept.artifact
          /\ call'.digests = [kept.digests EXCEPT ![t.who] =
                                IF got.ok THEN WeightDigest(got.weights) ELSE OpaqueDigest(call.artifact[t.who])]
        BY <1>5, <2>1 DEF Fields
    <2>3. Leaves(call, call')
        BY <1>1, <1>5, <1>6, <2>2 DEF Leaves
    <2>4. \A who \in Both : t # Touch(who, "digest") => call'.digests[who] = call.digests[who]
        BY <1>1, <1>3, <1>5, <1>10, <2>2
    <2>5. got.ok => call'.digests[t.who] = WeightDigest(got.weights)
        BY <1>1, <1>3, <1>5, <2>2
    <2>6. Gets(call, call', t, got)
        BY <1>6, <2>2 DEF Gets
    <2>7. call'.pc = "touching" /\ ~(t.how \in {"predict", "read"}) /\ t # Touch(Candidate, "name")
        BY <1>1, <1>5, <1>7, <1>10, <2>2
    <2>8. call'.plan = Tail(call.plan) /\ call'.todo = call.todo /\ call'.artifact = call.artifact /\ call'.loaded[t.who] = got
        BY <1>5, <1>6, <2>2
    <2>9. Touched(call, call', t, got)
        BY <2>3, <2>4, <2>5, <2>6, <2>7, <2>8 DEF Touched
    <2> QED
        BY <2>9
<1>11. CASE t.how \notin {"name", "digest"} /\ fails
    <2>1. call' = [kept EXCEPT !.pc = "checking", !.plan = <<>>, !.todo = Tail(@), !.skipped = @ \cup {Head(call.todo)}]
        BY <1>4, <1>11
    <2>2. /\ DOMAIN call' = Fields /\ call'.models = kept.models /\ call'.findings = kept.findings
          /\ call'.judged = kept.judged /\ call'.steady = kept.steady
          /\ call'.loaded = kept.loaded /\ call'.pc = "checking" /\ call'.plan = <<>>
          /\ call'.todo = Tail(kept.todo) /\ call'.artifact = kept.artifact /\ call'.digests = kept.digests
        BY <1>5, <2>1 DEF Fields
    <2>3. Leaves(call, call')
        BY <1>1, <1>5, <1>6, <2>2 DEF Leaves
    <2>4. t.how \in {"read", "predict"}
        BY <1>11 DEF fails
    <2>5. Gets(call, call', t, got)
        BY <1>6, <2>2 DEF Gets
    <2>6. call'.todo = Tail(call.todo) /\ call'.artifact = call.artifact
        BY <1>5, <2>2
    <2>7. GivesUp(call, call', t, got)
        BY <2>2, <2>3, <2>4, <2>5, <2>6 DEF GivesUp
    <2> QED
        BY <2>7
<1>12. CASE t.how \notin {"name", "digest"} /\ ~fails
    <2>1. call' = kept
        BY <1>4, <1>12
    <2>2. Leaves(call, call')
        BY <1>1, <1>5, <1>6, <2>1 DEF Leaves
    <2>3. t.how \in {"predict", "read"} => got.ok
        BY <1>12 DEF fails
    <2>4. t # Touch(Candidate, "name") /\ \A who \in Both : t # Touch(who, "digest")
        BY <1>7, <1>12
    <2>5. Gets(call, call', t, got)
        BY <1>6, <2>1 DEF Gets
    <2>6. /\ call'.pc = "touching" /\ call'.plan = Tail(call.plan) /\ call'.todo = call.todo
          /\ call'.artifact = call.artifact /\ call'.digests = call.digests /\ call'.loaded[t.who] = got
          /\ t.how # "digest"
        BY <1>1, <1>5, <1>6, <1>12, <2>1
    <2>7. Touched(call, call', t, got)
        BY <2>2, <2>3, <2>4, <2>5, <2>6 DEF Touched
    <2> QED
        BY <2>7
<1> QED
    BY <1>3, <1>8, <1>9, <1>10, <1>11, <1>12

LEMMA TouchStep ==
    ASSUME Going(call), TouchNext
    PROVE  Going(call)'
<1> DEFINE t == Head(call.plan)
           got == Obtain(t.who)
<1>1. /\ call.pc = "touching" /\ call.plan # <<>> /\ disk' = disk /\ installed' = installed
      /\ Sound(call) /\ Cause(call) /\ JudgedOne(call) /\ Witnessed(call) /\ Named(call)
    BY DEF TouchNext, Going
<1>2. call.plan \in Seq(Touches(call)) /\ DOMAIN call = Fields
    BY <1>1 DEF Sound
<1>3. /\ t \in Touches(call) /\ Tail(call.plan) \in Seq(Touches(call)) /\ t = call.plan[1] /\ 1 \in DOMAIN call.plan
      /\ \A k \in DOMAIN Tail(call.plan) : k + 1 \in DOMAIN call.plan /\ k + 1 # 1 /\ Tail(call.plan)[k] = call.plan[k + 1]
      /\ \A who, how : Has(call.plan, who, how) => Has(Tail(call.plan), who, how) \/ t = Touch(who, how)
    BY <1>1, <1>2, TailHas
<1>4. t = Touch(t.who, t.how) /\ t.who \in Sides(call) /\ t.who \in Both
    BY <1>3 DEF Touches, Touch, Sides, Both
<1>5. \A who, how : t = Touch(who, how) => who = t.who /\ how = t.how
    BY <1>4, TouchesDiffer
<1>6. Obtains(call, t.who, got)
    BY <1>4, ObtainIs
<1>7. Touched(call, call', t, got) \/ GivesUp(call, call', t, got)
    BY TouchMoves
<1> HIDE DEF t, got
<1>8. Leaves(call, call') /\ Gets(call, call', t, got)
    BY <1>7 DEF Touched, GivesUp
<1>9. Grows(call, call')
    <2>1. ASSUME NEW who \in Both, call.loaded[who].ok
          PROVE  call'.loaded[who] = call.loaded[who]
        BY <1>6, <1>8, <2>1 DEF Obtains, Gets
    <2> QED
        BY <1>8, <2>1 DEF Grows, Leaves
<1>10. Cause(call)' /\ JudgedOne(call)'
    BY <1>1, <1>8, <1>9, GrowthKeeps DEF Leaves
<1>11. call'.todo \in Rests /\ call'.plan \in Seq(Touches(call)) /\ call'.pc \in {"checking", "touching"}
    <2>1. CASE Touched(call, call', t, got)
        BY <1>1, <1>3, <2>1 DEF Touched, Sound
    <2>2. CASE GivesUp(call, call', t, got)
        <3>1. call.todo \in Rests /\ call.todo # <<>>
            BY <1>1 DEF Sound, Witnessed
        <3>2. <<>> \in Seq(Touches(call))
            OBVIOUS
        <3> QED
            BY <2>2, <3>1, <3>2, RestsShrink DEF GivesUp
    <2> QED
        BY <1>7, <2>1, <2>2
<1>12. Sound(call)'
    <2>1. \A who \in Both : call'.loaded[who] = Failed \/ Shows(call'.loaded[who])
        BY <1>1, <1>6, <1>8 DEF Sound, Obtains, Gets
    <2>2. Sides(call') = Sides(call) /\ Touches(call') = Touches(call)
        BY <1>8 DEF Leaves, Sides, Compares, Touches
    <2>3. \A who \in Sides(call') : IsAdapter(call'.models[who])
        BY <1>1, <1>8, <2>2 DEF Sound, Leaves
    <2> QED
        BY <1>1, <1>8, <1>11, <2>1, <2>2, <2>3 DEF Sound, Leaves
<1>13. Witnessed(call)'
    <2> SUFFICES ASSUME Touched(call, call', t, got)
                 PROVE  Witnessed(call)'
        BY <1>7 DEF GivesUp, Witnessed
    <2>1. call'.plan = Tail(call.plan) /\ call'.todo = call.todo /\ call'.models = call.models /\ call'.steady = call.steady
        BY DEF Touched, Leaves
    <2>2. ASSUME NEW who, NEW how \in {"predict", "read"}, Left(call, who, how) \/ call.loaded[who].ok, who \in Both
          PROVE  Left(call', who, how) \/ call'.loaded[who].ok
        <3>1. CASE call.loaded[who].ok
            BY <1>9, <2>2, <3>1 DEF Grows
        <3>2. CASE Left(call, who, how) /\ t # Touch(who, how)
            BY <1>3, <2>1, <3>2 DEF Left
        <3>3. CASE t = Touch(who, how)
            <4>1. who = t.who /\ how = t.how
                BY <1>5, <3>3
            <4> QED
                BY <2>2, <4>1 DEF Touched
        <3> QED
            BY <2>2, <3>1, <3>2, <3>3
    <2>3. ASSUME Read(call)
          PROVE  Read(call)'
        BY <2>2, <2>3 DEF Read
    <2>4. ASSUME Compared(call)
          PROVE  Compared(call)'
        <3>1. \A who \in Both : Left(call', who, "predict") \/ call'.loaded[who].ok
            BY <2>2, <2>4 DEF Compared
        <3>2. ASSUME NEW who \in Both, Readable(call.models[who]), call.steady, ~Left(call', who, "digest")
              PROVE  IF call'.loaded[who].ok THEN call'.digests[who] = WeightDigest(call'.loaded[who].weights)
                     ELSE ~Load(call.models[who], disk[who], installed).ok
            <4>1. CASE t = Touch(who, "digest")
                <5>1. who = t.who /\ t.how = "digest"
                    BY <1>5, <4>1
                <5>2. call'.loaded[who] = got /\ (got.ok => call'.digests[who] = WeightDigest(got.weights))
                    BY <3>2, <5>1 DEF Touched
                <5>3. ~got.ok => ~Load(call.models[who], disk[who], installed).ok
                    BY <1>6, <5>1 DEF Obtains
                <5> QED
                    BY <5>2, <5>3
            <4>2. CASE t # Touch(who, "digest")
                <5>1. ~Left(call, who, "digest")
                    BY <1>3, <2>1, <3>2, <4>2 DEF Left
                <5>2. call'.digests[who] = call.digests[who]
                    BY <4>2 DEF Touched
                <5>3. IF call.loaded[who].ok THEN call.digests[who] = WeightDigest(call.loaded[who].weights)
                      ELSE ~Load(call.models[who], disk[who], installed).ok
                    BY <2>4, <3>2, <5>1 DEF Compared
                <5>4. CASE call.loaded[who].ok
                    <6>1. call'.loaded[who] = call.loaded[who]
                        BY <1>9, <5>4 DEF Grows
                    <6> QED
                        BY <5>2, <5>3, <5>4, <6>1
                <5>5. CASE ~call.loaded[who].ok
                    <6>1. ~Load(call.models[who], disk[who], installed).ok
                        BY <5>3, <5>5
                    <6>2. call'.loaded[who] \in {call.loaded[who], Load(call.models[who], disk[who], installed)}
                        BY <1>6, <1>8, <5>5 DEF Gets, Obtains
                    <6> QED
                        BY <5>5, <6>1, <6>2
                <5> QED
                    BY <5>4, <5>5
            <4> QED
                BY <4>1, <4>2
        <3> QED
            BY <1>1, <2>1, <3>1, <3>2 DEF Compared
    <2>5. Head(call.todo) = "MT-1" => \A k \in DOMAIN call'.plan : call'.plan[k] = Touch(Candidate, "name") => k = 1
        BY <1>1, <1>3, <2>1 DEF Witnessed
    <2> QED
        BY <1>1, <2>1, <2>3, <2>4, <2>5 DEF Witnessed, Compares
<1>14. Named(call)'
    <2> SUFFICES ASSUME call.steady
                 PROVE  /\ call.models[Candidate].kind # "mock" /\ call'.loaded[Candidate].ok =>
                             call'.loaded[Candidate].of = disk[Candidate] /\ disk[Candidate].size # "missing"
                        /\ \/ call'.todo = Checks /\ (call'.pc = "checking" \/ Left(call', Candidate, "name"))
                           \/ call'.artifact[Candidate] =
                                IF IsFile(call.models[Candidate], disk[Candidate]) THEN disk[Candidate] ELSE NoFile
        BY <1>1, <1>8 DEF Named, Leaves, IsFile
    <2>1. call.models[Candidate].kind # "mock" /\ call'.loaded[Candidate].ok =>
             call'.loaded[Candidate].of = disk[Candidate] /\ disk[Candidate].size # "missing"
        <3>1. Candidate \in Both
            BY DEF Both
        <3>2. CASE call'.loaded[Candidate] = call.loaded[Candidate]
            BY <1>1, <3>2 DEF Named
        <3>3. CASE t.who = Candidate /\ call'.loaded[Candidate] = got
            BY <1>6, <3>3 DEF Obtains
        <3> QED
            BY <1>8, <3>1, <3>2, <3>3 DEF Gets
    <2> DEFINE name == IF IsFile(call.models[Candidate], disk[Candidate]) THEN disk[Candidate] ELSE NoFile
    <2>2. (call.todo = Checks /\ Left(call, Candidate, "name")) \/ call.artifact[Candidate] = name
        BY <1>1 DEF Named
    <2>3. CASE Touched(call, call', t, got)
        <3>1. t = Touch(Candidate, "name") => call'.artifact[Candidate] = name
            BY <2>3 DEF Touched
        <3>2. t # Touch(Candidate, "name") => call'.artifact[Candidate] = call.artifact[Candidate]
            BY <2>3 DEF Touched
        <3>3. call'.todo = call.todo /\ call'.plan = Tail(call.plan)
            BY <2>3 DEF Touched
        <3>4. Left(call, Candidate, "name") /\ t # Touch(Candidate, "name") => Left(call', Candidate, "name")
            BY <1>3, <3>3 DEF Left
        <3> QED
            BY <2>1, <2>2, <3>1, <3>2, <3>3, <3>4
    <2>4. CASE GivesUp(call, call', t, got)
        <3>1. t.how \in {"read", "predict"} /\ call'.artifact = call.artifact
            BY <2>4 DEF GivesUp
        <3>2. t # Touch(Candidate, "name")
            BY <1>5, <3>1
        <3>3. ~(call.todo = Checks /\ Left(call, Candidate, "name"))
            <4>1. call.todo = Checks => Head(call.todo) = "MT-1"
                BY DEF Checks
            <4> QED
                BY <1>1, <1>3, <3>2, <4>1 DEF Witnessed, Left, Has
        <3> QED
            BY <2>1, <2>2, <3>1, <3>3
    <2> QED
        BY <1>7, <2>3, <2>4
<1> QED
    BY <1>10, <1>12, <1>13, <1>14 DEF Going

-----------------------------------------------------------------------------
(* A check comes to its verdict.                                           *)

VerifiedFor(own, other) ==
  own.runs \/ other.runs =>
    \/ Response(own) = Silent /\ Response(other) = Silent
    \/ Distance[<<own.of.response, other.of.response>>] = "none"

SubstitutedFor(own, other) ==
  own.runs /\ other.runs =>
    Silent \in {own.of.response, other.of.response} \/ Distance[<<own.of.response, other.of.response>>] = "far"

(* The distance of two responses is that of the contents.                  *)
LEMMA DistanceCause ==
    ASSUME NEW own, Shows(own), NEW other, Shows(other),
           NEW candidate, NEW reference, Comparable(candidate, reference)
    PROVE  LET distance == BehaviouralDistance(candidate, reference, Response(own), Response(other))
           IN /\ distance = "none" => VerifiedFor(own, other)
              /\ distance = "far" => SubstitutedFor(own, other)
<1>1. own.response = own.of.response /\ other.response = other.of.response
    BY DEF Shows
<1>2. CASE Response(own) = Silent /\ Response(other) = Silent
    <2>1. VerifiedFor(own, other)
        BY <1>2 DEF VerifiedFor
    <2>2. SubstitutedFor(own, other)
        BY <1>1, <1>2 DEF SubstitutedFor, Response
    <2> QED
        BY <2>1, <2>2
<1>3. CASE (Response(own) = Silent) # (Response(other) = Silent)
    <2>1. BehaviouralDistance(candidate, reference, Response(own), Response(other)) = "far"
        BY <1>3 DEF BehaviouralDistance
    <2>2. SubstitutedFor(own, other)
        BY <1>1, <1>3 DEF SubstitutedFor, Response
    <2> QED
        BY <2>1, <2>2
<1>4. CASE Response(own) # Silent /\ Response(other) # Silent
    <2>1. own.runs /\ other.runs /\ Response(own) = own.of.response /\ Response(other) = other.of.response
        BY <1>1, <1>4 DEF Response
    <2>2. BehaviouralDistance(candidate, reference, Response(own), Response(other)) = Distance[<<own.of.response, other.of.response>>]
        BY <1>4, <2>1 DEF BehaviouralDistance
    <2> QED
        BY <2>2 DEF VerifiedFor, SubstitutedFor
<1> QED
    BY <1>2, <1>3, <1>4

(* What a verdict tells has its cause in what is loaded.                   *)
Causes(list, own, other, steady) ==
  /\ IsList(list)
  /\ Tells(list, "verified") =>
       /\ own.ok /\ other.ok
       /\ steady => own.of.weights = other.of.weights \/ own.weights \in StandIns
       /\ VerifiedFor(own, other)
  /\ Tells(list, "substituted") => own.ok /\ other.ok /\ SubstitutedFor(own, other)
  /\ Tells(list, "modified") =>
       /\ own.ok /\ other.ok
       /\ \/ <<own.of.weights, other.of.weights>> \in StatsDiffer
          \/ own.weights \in StandIns \/ other.weights \in StandIns
  /\ Tells(list, "diverged") => own.ok /\ other.ok /\ (own.runs \/ other.runs)

LEMMA CauseIs ==
    \A s : IsList(s.findings) =>
      (Cause(s) <=> Causes(s.findings, s.loaded[Candidate], s.loaded[Reference], s.steady))
BY DEF Cause, Causes, VerifiedFor, SubstitutedFor

(* The verdict of MT-1, when its touches are over.                         *)
LEMMA SubstitutionCause ==
    ASSUME NEW c, Sound(c), Compares(c) => Compared(c), c.plan = <<>>,
           Comparable(c.models[Candidate], c.models[Reference])
    PROVE  LET own == c.loaded[Candidate]
               other == c.loaded[Reference]
               distance == BehaviouralDistance(c.models[Candidate], c.models[Reference], Response(own), Response(other))
           IN Causes(Substitution(c.models[Candidate], c.models[Reference], c.digests, distance), own, other, c.steady)
<1> DEFINE own == c.loaded[Candidate]
           other == c.loaded[Reference]
           distance == BehaviouralDistance(c.models[Candidate], c.models[Reference], Response(own), Response(other))
           list == Substitution(c.models[Candidate], c.models[Reference], c.digests, distance)
<1>1. /\ IsList(list)
      /\ Tells(list, "verified") => /\ c.models[Reference] # NoModel
                                    /\ Readable(c.models[Candidate]) /\ Readable(c.models[Reference])
                                    /\ c.digests[1] = c.digests[2] /\ distance = "none"
      /\ Tells(list, "substituted") => c.models[Reference] # NoModel /\ distance = "far"
      /\ ~Tells(list, "modified") /\ ~Tells(list, "diverged")
    BY SubstitutionTells
<1>2. \A who, how : ~Left(c, who, how)
    BY DEF Left, Has
<1>3. Candidate \in Both /\ Reference \in Both
    BY DEF Both
<1>4. c.models[Reference] # NoModel => own.ok /\ other.ok
    BY <1>2, <1>3 DEF Compares, Compared
<1>5. own.ok /\ other.ok => Shows(own) /\ Shows(other)
    BY <1>3, FailedIsNotOk DEF Sound
<1>6. own.ok /\ other.ok => (distance = "none" => VerifiedFor(own, other)) /\ (distance = "far" => SubstitutedFor(own, other))
    BY <1>5, DistanceCause
<1>7. Tells(list, "verified") /\ c.steady => own.of.weights = other.of.weights \/ own.weights \in StandIns
    <2> SUFFICES ASSUME Tells(list, "verified"), c.steady
                 PROVE  own.of.weights = other.of.weights \/ own.weights \in StandIns
        OBVIOUS
    <2>1. /\ Compared(c) /\ Readable(c.models[Candidate]) /\ Readable(c.models[Reference]) /\ own.ok /\ other.ok
          /\ c.digests[1] = c.digests[2]
        BY <1>1, <1>4 DEF Compares
    <2>2. c.digests[Candidate] = WeightDigest(own.weights) /\ c.digests[Reference] = WeightDigest(other.weights)
        BY <1>2, <1>3, <2>1 DEF Compared
    <2>3. WeightDigest(own.weights) = WeightDigest(other.weights)
        BY <2>1, <2>2 DEF Candidate, Reference
    <2>4. own.weights = other.weights
        <3>1. WeightDigest(own.weights).weights = own.weights /\ WeightDigest(other.weights).weights = other.weights
            BY DEF WeightDigest
        <3> QED
            BY <2>3, <3>1
    <2>5. own.weights \in {own.of.weights} \cup StandIns /\ other.weights \in {other.of.weights} \cup StandIns
        BY <1>5, <2>1 DEF Shows
    <2> QED
        BY <2>4, <2>5
<1> HIDE DEF own, other, distance, list
<1>8. Causes(list, own, other, c.steady)
    BY <1>1, <1>4, <1>6, <1>7 DEF Causes
<1> QED
    BY <1>8 DEF own, other, distance, list

(* The verdict of MT-2.                                                    *)
LEMMA ModificationCause ==
    ASSUME NEW c, Sound(c), c.plan = <<>>, NEW distance,
           (Compares(c) /\ Readable(c.models[Candidate]) /\ Readable(c.models[Reference])) => Read(c)
    PROVE  LET own == c.loaded[Candidate]
               other == c.loaded[Reference]
           IN Causes(Modification(c.models[Candidate], c.models[Reference], own, other, distance), own, other, c.steady)
<1> DEFINE own == c.loaded[Candidate]
           other == c.loaded[Reference]
           list == Modification(c.models[Candidate], c.models[Reference], own, other, distance)
<1>1. /\ IsList(list)
      /\ Tells(list, "modified") => /\ c.models[Reference] # NoModel
                                    /\ Readable(c.models[Candidate]) /\ Readable(c.models[Reference])
                                    /\ <<own.weights, other.weights>> \in StatsDiffer
      /\ ~Tells(list, "verified") /\ ~Tells(list, "substituted") /\ ~Tells(list, "diverged")
    BY ModificationTells
<1>2. \A who, how : ~Left(c, who, how)
    BY DEF Left, Has
<1>3. Candidate \in Both /\ Reference \in Both
    BY DEF Both
<1>4. Tells(list, "modified") => own.ok /\ other.ok
    BY <1>1, <1>2, <1>3 DEF Compares, Read
<1>5. own.ok /\ other.ok => Shows(own) /\ Shows(other)
    BY <1>3, FailedIsNotOk DEF Sound
<1>6. Tells(list, "modified") =>
        own.weights \in {own.of.weights} \cup StandIns /\ other.weights \in {other.of.weights} \cup StandIns
    BY <1>4, <1>5 DEF Shows
<1> HIDE DEF own, other, list
<1>7. Causes(list, own, other, c.steady)
    BY <1>1, <1>4, <1>6 DEF Causes
<1> QED
    BY <1>7 DEF own, other, list

LEMMA VerdictCause ==
    ASSUME Sound(call), Witnessed(call), call.pc = "touching", call.plan = <<>>, ~LacksPrints
    PROVE  Causes(Verdict(Head(call.todo)), call.loaded[Candidate], call.loaded[Reference], call.steady)
<1> DEFINE check == Head(call.todo)
           own == call.loaded[Candidate]
           other == call.loaded[Reference]
           candidate == call.models[Candidate]
           reference == call.models[Reference]
           distance == BehaviouralDistance(candidate, reference, Response(own), Response(other))
<1>1. check \in {"MT-1", "MT-2", "MT-3", "MT-4"}
    BY RestsShrink DEF Sound, Witnessed
<1>2. CASE check = "MT-1"
    <2>1. Compares(call) => Compared(call)
        BY <1>2 DEF Witnessed
    <2>2. Verdict(check) = Substitution(candidate, reference, call.digests, distance)
        BY <1>2 DEF Verdict
    <2>3. Comparable(candidate, reference)
        BY <1>2 DEF LacksPrints
    <2> QED
        BY <2>1, <2>2, <2>3, SubstitutionCause
<1>3. CASE check = "MT-2"
    <2>1. (Compares(call) /\ Readable(candidate) /\ Readable(reference)) => Read(call)
        BY <1>3 DEF Witnessed
    <2>2. Verdict(check) = Modification(candidate, reference, own, other, distance)
        BY <1>3 DEF Verdict
    <2> QED
        BY <2>1, <2>2, ModificationCause
<1>4. CASE check = "MT-3"
    <2>1. Verdict(check) = Backdoor(candidate, own)
        BY <1>4 DEF Verdict
    <2> HIDE DEF candidate, own
    <2> DEFINE list == Backdoor(candidate, own)
    <2>2. /\ IsList(list)
          /\ ~Tells(list, "verified") /\ ~Tells(list, "substituted")
          /\ ~Tells(list, "modified") /\ ~Tells(list, "diverged")
        BY BackdoorTells
    <2> HIDE DEF list
    <2>3. Causes(list, own, other, call.steady)
        BY <2>2 DEF Causes
    <2> QED
        BY <2>1, <2>3 DEF own, list
<1>5. CASE check = "MT-4"
    <2>1. Verdict(check) = Activation(candidate, reference, own, other)
        BY <1>5 DEF Verdict
    <2> HIDE DEF candidate, reference, own, other
    <2> DEFINE list == Activation(candidate, reference, own, other)
    <2>2. /\ IsList(list)
          /\ Tells(list, "diverged") => own.ok /\ other.ok /\ (own.runs \/ other.runs)
          /\ ~Tells(list, "verified") /\ ~Tells(list, "substituted") /\ ~Tells(list, "modified")
        BY ActivationTells
    <2> HIDE DEF list
    <2>3. Causes(list, own, other, call.steady)
        BY <2>2 DEF Causes
    <2> QED
        BY <2>1, <2>3 DEF own, other, list
<1> QED
    BY <1>1, <1>2, <1>3, <1>4, <1>5

(* However it ends, with findings that have their cause.                   *)
LEMMA FinishKeeps ==
    ASSUME Going(call), call.pc = "touching", call.plan = <<>>, call.todo # <<>>, UNCHANGED <<disk, installed>>,
           NEW executed, NEW skipped, NEW list, NEW failed, FinishAs(executed, skipped, list, failed),
           Causes(list, call.loaded[Candidate], call.loaded[Reference], call.steady)
    PROVE  Going(call)'
<1> DEFINE check == Head(call.todo)
<1>1. /\ disk' = disk /\ installed' = installed
      /\ Sound(call) /\ Cause(call) /\ JudgedOne(call) /\ Witnessed(call) /\ Named(call)
      /\ call' = [call EXCEPT !.pc = "checking", !.todo = Tail(@), !.executed = @ \cup executed, !.skipped = @ \cup skipped,
                             !.findings = @ \o list, !.failures = @ + failed,
                             !.judged = IF call.loaded[Candidate].ok THEN @ \cup {<<check, call.loaded[Candidate].of>>} ELSE @]
    BY DEF FinishAs, Going
<1>2. DOMAIN call = Fields /\ call.todo \in Rests /\ IsList(call.findings)
    BY <1>1 DEF Sound
<1>3. Tail(call.todo) \in Rests /\ Tail(call.todo) # Checks
    BY <1>2, RestsShrink
<1>4. /\ DOMAIN call' = Fields /\ call'.steady = call.steady /\ call'.pc = "checking" /\ call'.models = call.models
      /\ call'.loaded = call.loaded /\ call'.artifact = call.artifact /\ call'.digests = call.digests
      /\ call'.todo = Tail(call.todo) /\ call'.plan = call.plan
      /\ call'.findings = Joined(call.findings, list)
      /\ call'.judged = IF call.loaded[Candidate].ok
                        THEN call.judged \cup {<<check, call.loaded[Candidate].of>>} ELSE call.judged
    BY <1>1, <1>2 DEF Fields, Joined
<1> HIDE DEF check
<1>5. Causes(call'.findings, call.loaded[Candidate], call.loaded[Reference], call.steady)
    <2> DEFINE f == call.findings
    <2>1. Causes(f, call.loaded[Candidate], call.loaded[Reference], call.steady)
        BY <1>1, <1>2, CauseIs
    <2>2. IsList(f) /\ IsList(list)
        BY <2>1 DEF Causes
    <2> HIDE DEF f
    <2>3. IsList(Joined(f, list)) /\ \A title : Tells(Joined(f, list), title) => Tells(f, title) \/ Tells(list, title)
        BY <2>2, JoinTells
    <2>4. Causes(Joined(f, list), call.loaded[Candidate], call.loaded[Reference], call.steady)
        BY <2>1, <2>3 DEF Causes
    <2> QED
        BY <1>4, <2>4 DEF f
<1>6. IsList(call'.findings)
    BY <1>5 DEF Causes
<1>7. Cause(call)'
    BY <1>4, <1>5, <1>6, CauseIs
<1>8. JudgedOne(call)'
    BY <1>1, <1>4 DEF JudgedOne
<1>9. Sound(call)'
    BY <1>1, <1>3, <1>4, <1>6 DEF Sound, Touches, Sides, Compares
<1>10. Witnessed(call)'
    BY <1>4 DEF Witnessed
<1>11. Named(call)'
    <2>1. ~Left(call, Candidate, "name")
        BY DEF Left, Has
    <2> QED
        BY <1>1, <1>4, <2>1 DEF Named, IsFile
<1> QED
    BY <1>7, <1>8, <1>9, <1>10, <1>11 DEF Going

LEMMA FinishStep ==
    ASSUME Going(call), FinishCheck \/ RecordFails
    PROVE  Going(call)'
<1> DEFINE check == Head(call.todo)
           Sourced(list) == Causes(list, call.loaded[Candidate], call.loaded[Reference], call.steady)
<1>1. /\ call.pc = "touching" /\ call.plan = <<>> /\ UNCHANGED <<disk, installed>>
      /\ Sound(call) /\ Witnessed(call) /\ call.todo # <<>>
    BY DEF FinishCheck, RecordFails, Going, Witnessed
<1>2. ~LacksPrints => Sourced(Verdict(check))
    BY <1>1, VerdictCause
<1>3. Sourced(<<>>)
    BY NothingTells DEF Causes
<1>4. \A list : Sourced(list) /\ list # <<>> => Sourced(Front(list))
    BY FrontTells DEF Causes
<1>5. \A executed, skipped, list, failed :
        FinishAs(executed, skipped, list, failed) /\ Sourced(list) => Going(call)'
    BY <1>1, FinishKeeps
<1> HIDE DEF Sourced
<1>6. CASE FinishCheck
    <2>1. \/ FinishAs({}, {check}, <<>>, 0)
          \/ ~LacksPrints /\ FinishAs({check}, {}, Verdict(check), 0)
        BY <1>6 DEF FinishCheck
    <2> QED
        BY <1>2, <1>3, <1>5, <2>1
<1>7. CASE RecordFails
    <2> DEFINE verdict == Verdict(check)
    <2>1. ~LacksPrints /\ verdict # <<>>
        BY <1>7 DEF RecordFails
    <2>2. \/ FinishAs({check}, {}, Front(verdict), 1)
          \/ FinishAs({}, {check}, <<>>, 1)
          \/ FinishAs({check}, {check}, verdict, 1)
        BY <1>7 DEF RecordFails
    <2>3. Sourced(verdict) /\ Sourced(Front(verdict))
        BY <1>2, <1>4, <2>1
    <2> QED
        BY <1>3, <1>5, <2>2, <2>3
<1> QED
    BY <1>6, <1>7

-----------------------------------------------------------------------------
(* An analysis ends, and its contents are the ones the evidence names.     *)
LEMMA EndIs ==
    ASSUME Going(call), call.todo = <<>>
    PROVE  Ended(call)
<1>1. Sound(call) /\ Cause(call) /\ JudgedOne(call) /\ Named(call)
    BY DEF Going
<1>2. ASSUME call.steady, call.models[Candidate].kind # "mock", NEW j \in call.judged
      PROVE  j[2] = call.artifact[Candidate]
    <2>1. j[2] = disk[Candidate] /\ disk[Candidate].size # "missing"
        BY <1>1, <1>2 DEF JudgedOne, Named
    <2>2. IsFile(call.models[Candidate], disk[Candidate])
        BY <1>1, <1>2, <2>1 DEF Sound, Sides, Both, IsAdapter, IsFile
    <2>3. call.todo # Checks
        BY DEF Checks
    <2> QED
        BY <1>1, <1>2, <2>1, <2>2, <2>3 DEF Named
<1> QED
    BY <1>1, <1>2 DEF Ended

(* No analysis is in progress between calls, nor while files are scanned.  *)
LEMMA NotGoing == ~(Idle.pc \in {"checking", "touching"}) /\ \A compare : ~([pc |-> "reference", compare |-> compare].pc \in {"checking", "touching"})
BY DEF Idle

LEMMA CauseInvStarts == ScanInit => CauseInv
<1> SUFFICES ASSUME ScanInit PROVE CauseInv
    OBVIOUS
<1>1. \A models \in programs : ModelsOk(models)
    BY ProgramsMakeAdapters DEF ScanInit, ModelsOk
<1>2. call = Idle /\ sessions = <<>>
    BY DEF ScanInit
<1> QED
    BY <1>1, <1>2, NotGoing, NothingTells DEF CauseInv

LEMMA CauseInvLasts == CauseInv /\ [ScanNext]_scanVars => CauseInv'
<1> SUFFICES ASSUME CauseInv, [ScanNext]_scanVars
             PROVE  CauseInv'
    OBVIOUS
<1> DEFINE Programs == \A models \in programs : ModelsOk(models)
           Sessions == IsList(sessions) /\ \A k \in DOMAIN sessions : Ended(sessions[k])
           InProgress == call.pc \in {"checking", "touching"} => Going(call)
<1>1. Programs /\ Sessions /\ InProgress
    BY DEF CauseInv
<1>2. SUFFICES Programs' /\ Sessions' /\ InProgress'
    BY DEF CauseInv
<1>3. CASE ScanSafety
    <2>1. UNCHANGED <<programs, call, sessions, disk, installed>>
        BY <1>3 DEF ScanSafety
    <2> QED
        BY <1>1, <2>1 DEF Going, Sound, Cause, JudgedOne, Witnessed, Named, Compared, Read, Left, Touches, Sides, Compares, IsFile
<1>4. CASE BeginScan
    <2>1. UNCHANGED <<programs, sessions>> /\ (call' = Idle \/ \E compare : call' = [pc |-> "reference", compare |-> compare])
        BY <1>4 DEF BeginScan, Answer
    <2>2. ~(call'.pc \in {"checking", "touching"})
        BY <2>1, NotGoing
    <2> QED
        BY <1>1, <2>1, <2>2
<1>5. CASE ScanReference
    <2>1. /\ UNCHANGED <<programs, sessions>>
          /\ \/ call' = Idle
             \/ call' = Analysis(<<ResolveAdapter(disk[Candidate].suffix), NoModel>>)
             \/ call' = Analysis(<<ResolveAdapter(disk[Candidate].suffix), ResolveAdapter(disk[Reference].suffix)>>)
        BY <1>5 DEF ScanReference, Answer
    <2> DEFINE one == <<ResolveAdapter(disk[Candidate].suffix), NoModel>>
               two == <<ResolveAdapter(disk[Candidate].suffix), ResolveAdapter(disk[Reference].suffix)>>
    <2>2. ModelsOk(one) /\ ModelsOk(two)
        BY ResolvedIsAdapter DEF ModelsOk
    <2>3. CASE call' = Idle
        BY <1>1, <2>1, <2>3, NotGoing
    <2>4. ASSUME NEW models, ModelsOk(models), call' = Analysis(models)
          PROVE  Going(call)'
        BY <2>4, AnalysisBegins
    <2> QED
        BY <1>1, <2>1, <2>2, <2>3, <2>4
<1>6. CASE BeginProgram
    <2>1. PICK models \in programs : call' = Analysis(models) /\ UNCHANGED <<programs, sessions>>
        BY <1>6 DEF BeginProgram
    <2>2. Going(call)'
        BY <1>1, <2>1, AnalysisBegins
    <2> QED
        BY <1>1, <2>1, <2>2
<1>7. CASE StartCheck
    <2>1. UNCHANGED <<programs, sessions>> /\ call.pc \in {"checking", "touching"}
        BY <1>7 DEF StartCheck
    <2>2. Going(call)'
        BY <1>1, <1>7, <2>1, StartStep
    <2> QED
        BY <1>1, <2>1, <2>2
<1>8. CASE TouchNext
    <2>1. UNCHANGED <<programs, sessions>> /\ call.pc \in {"checking", "touching"}
        BY <1>8 DEF TouchNext
    <2>2. Going(call)'
        BY <1>1, <1>8, <2>1, TouchStep
    <2> QED
        BY <1>1, <2>1, <2>2
<1>9. CASE FinishCheck \/ RecordFails
    <2>1. UNCHANGED <<programs, sessions>> /\ call.pc \in {"checking", "touching"}
        BY <1>9 DEF FinishCheck, RecordFails
    <2>2. Going(call)'
        BY <1>1, <1>9, <2>1, FinishStep
    <2> QED
        BY <1>1, <2>1, <2>2
<1>10. CASE CompleteAnalysis
    <2>1. /\ UNCHANGED programs /\ call' = Idle /\ sessions' = Append(sessions, call)
          /\ call.pc = "checking" /\ call.todo = <<>>
        BY <1>10 DEF CompleteAnalysis, Answer
    <2>2. Ended(call)
        BY <1>1, <2>1, EndIs
    <2>3. /\ IsList(sessions') /\ DOMAIN sessions = 1..Len(sessions) /\ DOMAIN sessions' = 1..(Len(sessions) + 1)
          /\ sessions'[Len(sessions) + 1] = call
          /\ \A k \in 1..Len(sessions) : sessions'[k] = sessions[k]
        BY <1>1, <2>1, ListAppends
    <2>4. ASSUME NEW k \in DOMAIN sessions'
          PROVE  Ended(sessions'[k])
        <3>1. Len(sessions) \in Nat
            BY <1>1 DEF IsList
        <3>2. k \in DOMAIN sessions \/ k = Len(sessions) + 1
            BY <2>3, <2>4, <3>1
        <3> QED
            BY <1>1, <2>2, <2>3, <3>2
    <2> QED
        BY <1>1, <2>1, <2>3, <2>4, NotGoing
<1>11. CASE ReplaceFiles
    <2>1. UNCHANGED <<programs, sessions>>
        BY <1>11 DEF ReplaceFiles
    <2>2. CASE call.pc \in {"checking", "touching"}
        <3>1. Going(call)'
            BY <1>1, <1>11, <2>2, ReplaceStep
        <3> QED
            BY <1>1, <2>1, <3>1
    <2>3. CASE ~(call.pc \in {"checking", "touching"})
        <3>1. call' = call
            BY <1>11, <2>3 DEF ReplaceFiles
        <3> QED
            BY <1>1, <2>1, <2>3, <3>1
    <2> QED
        BY <2>2, <2>3
<1>12. CASE UNCHANGED scanVars
    <2>1. UNCHANGED <<programs, call, sessions, disk, installed>>
        BY <1>12 DEF scanVars
    <2> QED
        BY <1>1, <2>1 DEF Going, Sound, Cause, JudgedOne, Witnessed, Named, Compared, Read, Left, Touches, Sides, Compares, IsFile
<1> QED
    BY <1>3, <1>4, <1>5, <1>6, <1>7, <1>8, <1>9, <1>10, <1>11, <1>12 DEF ScanNext

THEOREM CauseAlways == ScanSpec => []CauseInv
<1> QED
    BY CauseInvStarts, CauseInvLasts, PTL DEF ScanSpec

(* For any packages, files and adapters, and however often the files are   *)
(* replaced, a verdict about two models has its cause in the contents that *)
(* were loaded (substitution.py:97-173, modification.py:65-115,            *)
(* activation.py:157-199).                                                 *)
THEOREM VerdictsHaveCauses == ScanSpec => []VerdictHasCause
<1>1. CauseInv => VerdictHasCause
    <2> SUFFICES ASSUME CauseInv, NEW k \in DOMAIN sessions
                 PROVE  LET s == sessions[k]
                            own == s.loaded[Candidate]
                            other == s.loaded[Reference]
                        IN /\ Says(s, "verified") =>
                                /\ s.steady => own.of.weights = other.of.weights \/ own.weights \in StandIns
                                /\ own.runs \/ other.runs =>
                                     \/ Response(own) = Silent /\ Response(other) = Silent
                                     \/ Distance[<<own.of.response, other.of.response>>] = "none"
                           /\ Says(s, "substituted") =>
                                (own.runs /\ other.runs =>
                                   \/ Silent \in {own.of.response, other.of.response}
                                   \/ Distance[<<own.of.response, other.of.response>>] = "far")
                           /\ Says(s, "modified") =>
                                \/ <<own.of.weights, other.of.weights>> \in StatsDiffer
                                \/ own.weights \in StandIns \/ other.weights \in StandIns
                           /\ Says(s, "diverged") => own.ok /\ other.ok /\ (own.runs \/ other.runs)
        BY DEF VerdictHasCause
    <2>1. Cause(sessions[k])
        BY DEF CauseInv, Ended
    <2>2. \A title : Says(sessions[k], title) <=> Tells(sessions[k].findings, title)
        BY DEF Says, Tells
    <2> QED
        BY <2>1, <2>2 DEF Cause
<1> QED
    BY <1>1, CauseAlways, PTL

(* The checks of a session judge one and the same contents, which are the  *)
(* ones its evidence names unless the files were replaced meanwhile        *)
(* (model_fingerprint.py:52-62, torchscript_adapter.py:72-77).             *)
THEOREM TheJudgedIsNamed == ScanSpec => []JudgedIsNamed
<1>1. CauseInv => JudgedIsNamed
    <2> SUFFICES ASSUME CauseInv, NEW k \in DOMAIN sessions
                 PROVE  LET s == sessions[k]
                        IN /\ \A j1, j2 \in s.judged : j1[2] = j2[2]
                           /\ (s.steady /\ s.models[Candidate].kind # "mock") => \A j \in s.judged : j[2] = s.artifact[Candidate]
        BY DEF JudgedIsNamed
    <2> QED
        BY DEF CauseInv, Ended, JudgedOne
<1> QED
    BY <1>1, CauseAlways, PTL
=============================================================================
