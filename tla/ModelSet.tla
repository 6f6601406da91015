------------------------------- MODULE ModelSet --------------------------------
(***************************************************************************)
(* The models a script has loaded, and what collision tests know of them:  *)
(* ModelSet of src/src/lua-bindings/lua_util.h, filled by lua_raylib.c and *)
(* lua_physics.c.  A model is an index into arrays that only ever grow.    *)
(*                                                                         *)
(* Space has two axes here, a third would be treated alike; coordinates    *)
(* are integers, and models turn by quarters.  The faces of a mesh look    *)
(* along the axes: a convex mesh is a box, a concave one an L or a U.      *)
(*                                                                         *)
(* The arrays are part of a struct that is never cleared, and malloc'ed:   *)
(* what has not been written is GARBAGE.                                   *)
(***************************************************************************)
EXTENDS Integers, Sequences, FiniteSets, FiniteSetsExt

CONSTANTS
  Files,           \* the model files: for each, a sequence of meshes
  Cube,            \* the mesh that load_cube_model makes
  Positions,       \* where a script puts models
  LUA_SET_SIZE,    \* how many models there is room for, 64
  GARBAGE

\* The normals that faces have.
Sides == {<<1, 0>>, <<-1, 0>>, <<0, 1>>, <<0, -1>>}

Dot(v, w) == v[1] * w[1] + v[2] * w[2]

(***************************************************************************)
(* A mesh: its vertices in the order of the file, and for each normal the  *)
(* plane furthest in of those that its faces lie in.  Where a mesh has an  *)
(* inner corner two faces share a normal; those further out bound nothing  *)
(* that this one does not.                                                 *)
(***************************************************************************)
Meshes ==
  {mesh \in [vertices : Seq(Int \X Int) \ {<<>>}, planes : [Sides -> Int]] :
     \A normal \in Sides : \E k \in DOMAIN mesh.vertices :
       Dot(normal, mesh.vertices[k]) = mesh.planes[normal]}

VARIABLES
  models,            \* the meshes of each model; count is how many there are
  turns,             \* models[id].transform: quarter turns
  convexMeshBounds,  \* for each model, meshes (the plane sets) and mesh_count
  positions,
  boundingSpheres    \* the square of the radius

modelSet == <<models, turns, convexMeshBounds, positions, boundingSpheres>>

Ids == 1 .. Len(models)

ModelInit ==
  /\ models = <<>> /\ turns = <<>>
  /\ convexMeshBounds = <<>> /\ positions = <<>> /\ boundingSpheres = <<>>

BehindFaces(mesh, k) ==
  \A normal \in Sides : Dot(normal, mesh.vertices[k]) <= mesh.planes[normal]

\* What the code tells of a mesh: it takes every third index for a vertex's
\* and looks no further than a third of the way.
is_convex(mesh) ==
  \A k \in 1 .. (Len(mesh.vertices) + 2) \div 3 : BehindFaces(mesh, k)

\* What is so.
Convex(mesh) == \A k \in DOMAIN mesh.vertices : BehindFaces(mesh, k)

(***************************************************************************)
(* Faulty variants of definitions below, in no specification.              *)
(***************************************************************************)
AllMeshesCounted(meshes) ==
  [meshes |-> [i \in DOMAIN meshes |-> IF is_convex(meshes[i]) THEN meshes[i] ELSE GARBAGE],
   mesh_count |-> Len(meshes)]

EarlyRejectInWorldSpace(id, center) ==
  center[1] * center[1] + center[2] * center[2] > boundingSpheres[id]

\* The planes of a mesh taken for convex go to the index of the mesh;
\* mesh_count only counts those meshes.
mesh_load_physics_data(meshes) ==
  [meshes |-> [i \in DOMAIN meshes |-> IF is_convex(meshes[i]) THEN meshes[i] ELSE GARBAGE],
   mesh_count |-> Cardinality({i \in DOMAIN meshes : is_convex(meshes[i])})]

ASSUME ModelAssumption ==
  /\ Files \subseteq Seq(Meshes) \ {<<>>} /\ Cube \in Meshes
  /\ GARBAGE \notin Meshes
  /\ \A meshes \in Files : mesh_load_physics_data(meshes) # GARBAGE

(***************************************************************************)
(* Functions for scripts.  The bound on the number of models is the        *)
(* array's: the code itself writes on beyond it.                           *)
(***************************************************************************)
AddModel(meshes, bounds) ==
  /\ Len(models) < LUA_SET_SIZE
  /\ models' = Append(models, meshes)
  /\ turns' = Append(turns, 0)
  /\ convexMeshBounds' = Append(convexMeshBounds, bounds)
  /\ positions' = Append(positions, GARBAGE)
  /\ boundingSpheres' = Append(boundingSpheres, GARBAGE)

load_model(meshes) == AddModel(meshes, mesh_load_physics_data(meshes))

load_cube_model == AddModel(<<Cube>>, GARBAGE)

model_set_position(id, position) == positions' = [positions EXCEPT ![id] = position]

model_rotate_euler(id, n) == turns' = [turns EXCEPT ![id] = n]

mesh_AABB(mesh) ==
  [min |-> [k \in 1 .. 2 |-> Min({mesh.vertices[i][k] : i \in DOMAIN mesh.vertices})],
   max |-> [k \in 1 .. 2 |-> Max({mesh.vertices[i][k] : i \in DOMAIN mesh.vertices})]]

get_model_AABB(meshes) ==
  [min |-> [k \in 1 .. 2 |-> Min({mesh_AABB(meshes[i]).min[k] : i \in DOMAIN meshes})],
   max |-> [k \in 1 .. 2 |-> Max({mesh_AABB(meshes[i]).max[k] : i \in DOMAIN meshes})]]

LengthSqr(v) == v[1] * v[1] + v[2] * v[2]

\* Two of the box's corners are looked at.
BoundingRadiusSqr(meshes) ==
  LET box == get_model_AABB(meshes)
  IN  Max({LengthSqr(box.min), LengthSqr(box.max)})

get_bounding_sphere(id) ==
  boundingSpheres' = [boundingSpheres EXCEPT ![id] = BoundingRadiusSqr(models[id])]

(***************************************************************************)
(* separating_axis_sphere                                                  *)
(***************************************************************************)
Subtract(v, w) == <<v[1] - w[1], v[2] - w[2]>>

Turn(v, n) ==
  CASE n = 0 -> v
    [] n = 1 -> <<-v[2], v[1]>>
    [] n = 2 -> <<-v[1], -v[2]>>
    [] n = 3 -> <<v[2], -v[1]>>

Inverse4(n) == (4 - n) % 4

\* The signed distance of a sphere to the halfspace of a plane.
halfspace_point(mesh, normal, center, radius) ==
  Dot(normal, center) - mesh.planes[normal] - radius

\* The sphere is apart from the mesh, or there is a side it is closest to.
sep_axis_sphere(mesh, center, radius) ==
  \A normal \in Sides : halfspace_point(mesh, normal, center, radius) <= 0

Closest(mesh, center, radius) ==
  LET d(normal) == halfspace_point(mesh, normal, center, radius)
      closest == CHOOSE normal \in Sides : \A other \in Sides : d(normal) >= d(other)
  IN  [d |-> d(closest), normal |-> closest]

Local(id, center) == Turn(Subtract(center, positions[id]), Inverse4(turns[id]))

\* The ball's own radius plays no part in this.
EarlyReject(id, center) == LengthSqr(Subtract(center, positions[id])) > boundingSpheres[id]

\* The result table, with an entry for each plane set the sphere overlaps;
\* normals are turned back into world space.
separating_axis_sphere(id, center, radius) ==
  LET bounds == convexMeshBounds[id]
      overlaps == {i \in 1 .. bounds.mesh_count :
                     sep_axis_sphere(bounds.meshes[i], Local(id, center), radius)}
      result(i) == Closest(bounds.meshes[i], Local(id, center), radius)
  IN  IF EarlyReject(id, center)
        THEN <<>>
        ELSE [i \in overlaps |-> [d |-> result(i).d, normal |-> Turn(result(i).normal, turns[id])]]

\* Plane sets that nothing was stored in are among those a test goes through.
ReadsGarbage(id) ==
  \/ convexMeshBounds[id] = GARBAGE
  \/ \E i \in 1 .. convexMeshBounds[id].mesh_count : convexMeshBounds[id].meshes[i] = GARBAGE
===============================================================================
