------------------------------ MODULE SpatialHash ------------------------------
(***************************************************************************)
(* The spatial hash of lua/util/physics.lua: a grid of cells, each with a  *)
(* list of the meshsets a ball in that cell has to be tested against.      *)
(* add_meshset puts a meshset into every cell that its bounding sphere     *)
(* seems to reach; a ball asks for the cell that its centre is in.         *)
(*                                                                         *)
(* Coordinates are integers, and a point has one for each axis.  A cell    *)
(* that is not in the table and one with an empty list are alike:          *)
(* get_cell adds an empty list for every cell that is asked for.           *)
(***************************************************************************)
EXTENDS Integers, Sequences

CONSTANTS
  Axes,
  cell_size,
  GridRange    \* bound: the coordinates of the cells looked at

ASSUME SpatialHashAssumption ==
  /\ cell_size \in Nat \ {0}
  /\ GridRange \subseteq Int

VARIABLE hash

Cells == [Axes -> GridRange]

AllPoints == [Axes -> Int]

HashInit == hash = [cell \in Cells |-> <<>>]

(***************************************************************************)
(* Faulty variants of definitions below, in no specification.              *)
(***************************************************************************)
WithinNarrowSpan(i, radius2) == i = 0 \/ (i * cell_size) * (i * cell_size) < radius2

\* `//` rounds down, as \div does.
world_to_grid(point) == [k \in Axes |-> point[k] \div cell_size]

\* i is in -max_span .. max_span for max_span = ceil(radius / cell_size).
Abs(i) == IF i < 0 THEN -i ELSE i
Sqr(i) == i * i

WithinSpan(i, radius2) == i = 0 \/ Sqr((Abs(i) - 1) * cell_size) < radius2

\* How far a coordinate is from those of a cell.
Gap(v, c) ==
  IF v < c * cell_size THEN c * cell_size - v
  ELSE IF v > (c + 1) * cell_size THEN v - (c + 1) * cell_size
  ELSE 0

(***************************************************************************)
(* dist_sqr_point_aabb assigns where it would have to add: its result is   *)
(* the square of the gap along one axis, the one of those with a gap that  *)
(* pairs() visits last.  Which that is may differ from point to point:     *)
(* VisitOrders has, for any set of axes, the last one visited.             *)
(***************************************************************************)
VisitOrders ==
  {last \in [(SUBSET Axes) \ {{}} -> Axes] : \A ks \in (SUBSET Axes) \ {{}} : last[ks] \in ks}

dist_sqr_point_aabb(last, point, cell) ==
  LET apart == {k \in Axes : Gap(point[k], cell[k]) # 0}
  IN  IF apart = {} THEN 0 ELSE Sqr(Gap(point[last[apart]], cell[last[apart]]))

CellsReached(last, position, radius2) ==
  {cell \in Cells :
     /\ \A k \in Axes : WithinSpan(cell[k] - world_to_grid(position)[k], radius2)
     /\ dist_sqr_point_aabb(last, position, cell) < radius2}

add_to_cells(meshset, position, radius2) ==
  \E last \in VisitOrders :
    hash' = [cell \in Cells |->
               IF cell \in CellsReached(last, position, radius2)
                 THEN Append(hash[cell], meshset) ELSE hash[cell]]

Listed(meshset, cell) == \E i \in 1 .. Len(hash[cell]) : hash[cell][i] = meshset
===============================================================================
