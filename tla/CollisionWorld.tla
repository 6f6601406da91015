---------------------------- MODULE CollisionWorld -----------------------------
(***************************************************************************)
(* ModelSet and SpatialHash together, as MeshSet:new, Hash:add_meshset and *)
(* ball_collisions of lua/util/physics.lua use them: a script loads        *)
(* models, makes meshsets of them, adds those to the hash, and then turns  *)
(* models and tests balls against them sixty times a second.               *)
(*                                                                         *)
(* The balls belong to the script.  What ball_collisions does to one is a  *)
(* function of the world and of the ball's position, CollisionResponse     *)
(* below; what it changes in the world is only whether the program is      *)
(* still defined.  Meshsets of type CURVED and velocities are left out.    *)
(***************************************************************************)
EXTENDS SpatialHash, ModelSet, Functions

CONSTANTS
  Coordinates,    \* bound: the coordinates that balls have
  BallRadius,
  MaxMeshSets     \* bound: how many meshsets the script makes

ASSUME WorldAssumption ==
  /\ Axes = 1 .. 2
  /\ Coordinates \subseteq Int
  /\ Positions \subseteq AllPoints
  /\ \A v \in Coordinates : v \div cell_size \in GridRange
  /\ BallRadius \in Nat

VARIABLES
  meshsets,    \* the script's meshsets: model, position
  added,       \* which of them are in the hash
  wild         \* memory that was never written has been used

vars == <<modelSet, hash, meshsets, added, wild>>
objects == <<meshsets, added, wild>>

BallPositions == [Axes -> Coordinates]

Init ==
  /\ ModelInit /\ HashInit
  /\ meshsets = <<>> /\ added = {} /\ wild = FALSE

LoadModel ==
  /\ (\E meshes \in Files : load_model(meshes)) \/ load_cube_model
  /\ UNCHANGED <<hash, objects>>

\* MeshSet:new, of a model that was loaded before.
NewMeshSet(id, position) ==
  /\ Len(meshsets) < MaxMeshSets
  /\ meshsets' = Append(meshsets, [model |-> id, position |-> position])
  /\ model_rotate_euler(id, 1) /\ model_set_position(id, position)
  /\ UNCHANGED <<models, convexMeshBounds, boundingSpheres, hash, added, wild>>

AddMeshSet(m) ==
  /\ m \notin added
  /\ get_bounding_sphere(meshsets[m].model)
  /\ add_to_cells(m, meshsets[m].position, BoundingRadiusSqr(models[meshsets[m].model]))
  /\ added' = added \cup {m}
  /\ UNCHANGED <<models, turns, convexMeshBounds, positions, meshsets, wild>>

TurnModel(id, n) ==
  /\ model_rotate_euler(id, n)
  /\ UNCHANGED <<models, convexMeshBounds, positions, boundingSpheres, hash, objects>>

(***************************************************************************)
(* ball_collisions: the meshsets in the ball's cell, one after the other,  *)
(* each tested where the responses to the ones before have moved the ball. *)
(* A response moves it out of the side that it is closest to; those to one *)
(* meshset add up, in whichever order pairs() visits the results.          *)
(***************************************************************************)
Respond(result, position) ==
  <<position[1] - result.d * result.normal[1], position[2] - result.d * result.normal[2]>>

ResultsAt(m, position) == separating_axis_sphere(meshsets[m].model, position, BallRadius)

TestMeshSet(ball, m) ==
  LET results == ResultsAt(m, ball.position)
  IN  IF ball.wild \/ EarlyReject(meshsets[m].model, ball.position) THEN ball
      ELSE IF ReadsGarbage(meshsets[m].model) THEN [ball EXCEPT !.wild = TRUE]
      ELSE IF DOMAIN results = {} THEN ball
      ELSE [ball EXCEPT !.position = FoldFunction(Respond, @, results), !.active_object = m]

CellOf(position) == hash[world_to_grid(position)]

\* active_object is 0 when no meshset was hit.
CollisionResponse(position) ==
  LET meshes == CellOf(position)
      ball[i \in 0 .. Len(meshes)] ==
        IF i = 0 THEN [position |-> position, active_object |-> 0, wild |-> FALSE]
        ELSE TestMeshSet(ball[i - 1], meshes[i])
  IN  ball[Len(meshes)]

ball_collisions(position) ==
  /\ wild' = CollisionResponse(position).wild
  /\ UNCHANGED <<modelSet, hash, meshsets, added>>

Next ==
  /\ ~wild
  /\ \/ LoadModel
     \/ \E id \in Ids, position \in Positions : NewMeshSet(id, position)
     \/ \E m \in DOMAIN meshsets : AddMeshSet(m)
     \/ \E id \in Ids, n \in 0 .. 3 : TurnModel(id, n)
     \/ \E position \in BallPositions : ball_collisions(position)

Spec == Init /\ [][Next]_vars

(***************************************************************************)
(* Properties                                                              *)
(***************************************************************************)
TypeOK ==
  /\ Len(models) <= LUA_SET_SIZE
  /\ Len(turns) = Len(models) /\ Len(convexMeshBounds) = Len(models)
  /\ Len(positions) = Len(models) /\ Len(boundingSpheres) = Len(models)
  /\ hash \in [Cells -> Seq(Nat)]
  /\ \A m \in DOMAIN meshsets : meshsets[m].model \in Ids
  /\ added \subseteq DOMAIN meshsets
  /\ wild \in BOOLEAN

DistanceSqr(p, q) == LengthSqr(Subtract(p, q))

(***************************************************************************)
(* Wherever within its bounding sphere a ball's centre is, the ball's cell *)
(* lists the meshset, although the distance to a cell is measured along    *)
(* one axis only and add_meshset looks at a cube of cells that it derives  *)
(* from the radius; turning the model needs no update of the cells         *)
(* (physics.lua:329-352, 393-400).                                         *)
(***************************************************************************)
AddedAreListed ==
  \A m \in added, p \in BallPositions :
    DistanceSqr(p, meshsets[m].position) < BoundingRadiusSqr(models[meshsets[m].model])
      => Listed(m, world_to_grid(p))

(***************************************************************************)
(* What a meshset must be for collisions to work: its model is where it    *)
(* was added, lies around its own origin, and has the meshes that are      *)
(* taken for convex first.                                                 *)
(***************************************************************************)
InPlace(m) == positions[meshsets[m].model] = meshsets[m].position

Centred(meshes) == LET box == get_model_AABB(meshes) IN box.min = Turn(box.max, 2)

ConvexFirst(meshes) ==
  \A i, j \in DOMAIN meshes : i < j /\ is_convex(meshes[j]) => is_convex(meshes[i])

InsideConvexMesh(m, p) ==
  LET id == meshsets[m].model
  IN  \E i \in DOMAIN models[id] :
        /\ Convex(models[id][i])
        /\ \A normal \in Sides : halfspace_point(models[id][i], normal, Local(id, p), 0) < 0

(***************************************************************************)
(* A ball whose centre is inside of a convex mesh of such a model is       *)
(* noticed, however the model was turned and whatever else was loaded,     *)
(* moved and added before or after: neither the hash, nor the early reject, nor the way plane     *)
(* sets are stored and counted lets it through (physics.lua:450-463,       *)
(* lua_physics.c:431-486).                                                 *)
(***************************************************************************)
NoBallInsideUnnoticed ==
  \A m \in added, p \in BallPositions :
    /\ InPlace(m)
    /\ Centred(models[meshsets[m].model]) /\ ConvexFirst(models[meshsets[m].model])
    /\ InsideConvexMesh(m, p)
    => CollisionResponse(p).active_object # 0 \/ CollisionResponse(p).wild

(***************************************************************************)
(* Collision tests read memory that nothing was stored in only for models  *)
(* made by load_cube_model and for models with a mesh that is taken for    *)
(* convex after one that is not (lua_physics.c:58, 189-193, 216, 453-454). *)
(***************************************************************************)
OnlyTheseReadGarbage ==
  wild => \E m \in added :
            \/ models[meshsets[m].model] = <<Cube>>
            \/ ~ConvexFirst(models[meshsets[m].model])

(***************************************************************************)
(* "early reject if no overlap with the polyhedron's bounding sphere"      *)
(* (lua_physics.c:443): a ball that has a point between the planes of a    *)
(* mesh inside of it is never dropped by this test.                        *)
(***************************************************************************)
MeshPoints(id, i) ==
  {q \in BallPositions : \A normal \in Sides :
     halfspace_point(convexMeshBounds[id].meshes[i], normal, Local(id, q), 0) <= 0}

EarlyRejectIsSafe ==
  \A m \in added, p \in BallPositions : LET id == meshsets[m].model IN
    EarlyReject(id, p) /\ ~ReadsGarbage(id)
      => \A i \in 1 .. convexMeshBounds[id].mesh_count, q \in BallPositions :
           q \in MeshPoints(id, i) => DistanceSqr(p, q) >= Sqr(BallRadius)
===============================================================================
