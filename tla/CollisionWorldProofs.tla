-------------------------- MODULE CollisionWorldProofs -------------------------
(***************************************************************************)
(* Proofs about CollisionWorld, for every cell size, every set of models   *)
(* and positions, and any number of meshsets.                              *)
(*                                                                         *)
(* The hash: a meshset is listed in the cell of every point within its     *)
(* bounding sphere.  The cell of such a point is among those that          *)
(* add_meshset looks at, and is no further from the centre, along each     *)
(* axis and so along the one that counts, than the point is.               *)
(*                                                                         *)
(* The collision test: a ball inside of a convex mesh is within the        *)
(* bounding sphere of its model, however that is turned; it is therefore   *)
(* listed, not rejected early, and overlaps the plane set that was stored  *)
(* for the mesh; the meshsets tested before leave it where it is, or have  *)
(* noticed it themselves.                                                  *)
(***************************************************************************)
EXTENDS CollisionWorld, SequenceTheorems, FiniteSetTheorems, WellFoundedInduction, TLAPS

-------------------------------------------------------------------------------
(* Induction, and the bounds of finitely many numbers.                     *)

\* A set of naturals that is not empty has a least element.
LEMMA LeastNatural ==
  ASSUME NEW S \in SUBSET Nat, S # {}
  PROVE  \E m \in S : \A x \in S : m <= x
<1>1. PICK m \in S : \A x \in S : <<x, m>> \notin OpToRel(<, Nat)
  BY WFMin, NatLessThanWellFounded
<1>2. \A x \in Nat, y \in Nat : x < y => <<x, y>> \in OpToRel(<, Nat)
  BY Zenon DEF OpToRel
<1>3. \A x \in S : ~(x < m)
  BY <1>1, <1>2
<1> QED
  BY <1>3

\* A set with zero, and with the successor of each natural in it, has them all.
LEMMA SetInduction ==
  ASSUME NEW S, 0 \in S, \A n \in Nat : n \in S => n + 1 \in S
  PROVE  \A n \in Nat : n \in S
<1> SUFFICES ASSUME Nat \ S # {} PROVE FALSE
  OBVIOUS
<1>1. PICK m \in Nat \ S : \A x \in Nat \ S : m <= x
  BY LeastNatural
<1>2. m # 0
  BY <1>1
<1>3. m - 1 \in Nat /\ (m - 1) + 1 = m /\ ~(m <= m - 1)
  BY <1>1, <1>2
<1>4. m - 1 \in S
  BY <1>1, <1>3
<1> QED
  BY <1>1, <1>3, <1>4

LEMMA LeastOfMany ==
  ASSUME NEW n \in Nat, NEW f \in [1..(n + 1) -> Int]
  PROVE  \E i \in 1..(n + 1) : \A j \in 1..(n + 1) : f[i] <= f[j]
<1> DEFINE S == {k \in Nat : k <= n => \E i \in 1..(k + 1) : \A j \in 1..(k + 1) : f[i] <= f[j]}
<1>1. 0 \in S
  <2>1. 1 \in 1..(0 + 1) /\ \A j \in 1..(0 + 1) : j = 1
    OBVIOUS
  <2>2. f[1] \in Int
    OBVIOUS
  <2>3. \A j \in 1..(0 + 1) : f[1] <= f[j]
    BY <2>1, <2>2
  <2> QED
    BY <2>1, <2>3
<1>2. ASSUME NEW k \in Nat, k \in S PROVE k + 1 \in S
  <2> SUFFICES ASSUME k + 1 <= n
               PROVE  \E i \in 1..(k + 1 + 1) : \A j \in 1..(k + 1 + 1) : f[i] <= f[j]
    OBVIOUS
  <2>1. PICK i \in 1..(k + 1) : \A j \in 1..(k + 1) : f[i] <= f[j]
    BY <1>2
  <2>2. \A j \in 1..(k + 1 + 1) : j \in 1..(k + 1) \/ j = k + 1 + 1
    OBVIOUS
  <2>3. /\ i \in 1..(k + 1 + 1) /\ f[i] \in Int
        /\ k + 1 + 1 \in 1..(k + 1 + 1) /\ f[k + 1 + 1] \in Int
        /\ \A j \in 1..(k + 1) : f[j] \in Int
    OBVIOUS
  <2>4. CASE f[i] <= f[k + 1 + 1]
    BY <2>1, <2>2, <2>3, <2>4
  <2>5. CASE f[k + 1 + 1] <= f[i]
    <3>1. \A j \in 1..(k + 1) : f[k + 1 + 1] <= f[j]
      BY <2>1, <2>3, <2>5
    <3>2. f[k + 1 + 1] <= f[k + 1 + 1]
      BY <2>3
    <3>3. \A j \in 1..(k + 1 + 1) : f[k + 1 + 1] <= f[j]
      BY <2>2, <3>1, <3>2
    <3> QED
      BY <2>3, <3>3
  <2> QED
    BY <2>3, <2>4, <2>5
<1> HIDE DEF S
<1>3. n \in S
  BY <1>1, <1>2, SetInduction
<1> QED
  BY <1>3 DEF S

-------------------------------------------------------------------------------
(* The box around a model, and the sphere around the box.                  *)

ModelFiles == Files \cup {<<Cube>>}

LEMMA ModelFilesAre == ModelFiles \subseteq Seq(Meshes) \ {<<>>}
<1>1. <<Cube>> \in Seq(Meshes) /\ <<Cube>> # <<>>
  BY ModelAssumption
<1> QED
  BY <1>1, ModelAssumption DEF ModelFiles

\* What the library's Min and Max make of finitely many integers.
LEMMA BoundsOfMany ==
  ASSUME NEW n \in Nat, NEW f \in [1 .. (n + 1) -> Int], NEW S,
         S = {f[i] : i \in 1 .. (n + 1)}
  PROVE  /\ Min(S) \in Int /\ Max(S) \in Int
         /\ \A i \in 1 .. (n + 1) : Min(S) <= f[i] /\ f[i] <= Max(S)
<1> DEFINE g == [i \in 1 .. (n + 1) |-> -f[i]]
<1>1. g \in [1 .. (n + 1) -> Int]
  OBVIOUS
<1>2. PICK i \in 1 .. (n + 1) : \A j \in 1 .. (n + 1) : f[i] <= f[j]
  BY LeastOfMany
<1>3. PICK h \in 1 .. (n + 1) : \A j \in 1 .. (n + 1) : g[h] <= g[j]
  BY <1>1, LeastOfMany
<1>4. \A j \in 1 .. (n + 1) : f[h] >= f[j]
  <2> SUFFICES ASSUME NEW j \in 1 .. (n + 1) PROVE f[h] >= f[j]
    OBVIOUS
  <2>1. -f[h] <= -f[j]
    BY <1>3
  <2>2. f[h] \in Int /\ f[j] \in Int
    OBVIOUS
  <2> QED
    BY <2>1, <2>2
<1>5. f[i] \in S /\ \A x \in S : f[i] <= x
  BY <1>2
<1>6. f[h] \in S /\ \A x \in S : f[h] >= x
  BY <1>4
<1>7. Min(S) \in S /\ \A x \in S : Min(S) <= x
  BY <1>5 DEF Min
<1>8. Max(S) \in S /\ \A x \in S : Max(S) >= x
  BY <1>6 DEF Max
<1>9. \A x \in S : x \in Int
  OBVIOUS
<1>10. \A j \in 1 .. (n + 1) : f[j] \in S /\ f[j] \in Int
  OBVIOUS
<1>11. Min(S) \in Int /\ Max(S) \in Int
  BY <1>7, <1>8, <1>9
<1>12. \A j \in 1 .. (n + 1) : Min(S) <= f[j] /\ f[j] <= Max(S)
  <2> HIDE DEF g
  <2> SUFFICES ASSUME NEW j \in 1 .. (n + 1) PROVE Min(S) <= f[j] /\ f[j] <= Max(S)
    OBVIOUS
  <2>1. Min(S) <= f[j] /\ Max(S) >= f[j] /\ f[j] \in Int
    BY <1>7, <1>8, <1>10
  <2> QED
    BY <1>11, <2>1
<1> QED
  BY <1>11, <1>12

\* The box of a mesh holds every vertex.
LEMMA VerticesInBox ==
  ASSUME NEW mesh \in Meshes, NEW k \in 1 .. 2
  PROVE  /\ mesh_AABB(mesh).min[k] \in Int /\ mesh_AABB(mesh).max[k] \in Int
         /\ \A i \in DOMAIN mesh.vertices :
              /\ mesh.vertices[i][k] \in Int
              /\ mesh_AABB(mesh).min[k] <= mesh.vertices[i][k]
              /\ mesh.vertices[i][k] <= mesh_AABB(mesh).max[k]
<1> DEFINE n == Len(mesh.vertices) - 1
           f == [i \in 1 .. (n + 1) |-> mesh.vertices[i][k]]
           S == {mesh.vertices[i][k] : i \in DOMAIN mesh.vertices}
<1>1. mesh.vertices \in Seq(Int \X Int) /\ mesh.vertices # <<>>
  BY DEF Meshes
<1>2. n \in Nat /\ DOMAIN mesh.vertices = 1 .. (n + 1)
  BY <1>1, EmptySeq, LenProperties
<1>3. \A i \in DOMAIN mesh.vertices : mesh.vertices[i][k] \in Int
  <2> SUFFICES ASSUME NEW i \in DOMAIN mesh.vertices PROVE mesh.vertices[i][k] \in Int
    OBVIOUS
  <2>1. mesh.vertices[i] \in Int \X Int
    BY <1>1, ElementOfSeq, LenProperties
  <2> QED
    BY <2>1
<1>4. /\ mesh_AABB(mesh).min[k] = Min(S)
      /\ mesh_AABB(mesh).max[k] = Max(S)
  BY DEF mesh_AABB
<1> HIDE DEF n
<1>5. f \in [1 .. (n + 1) -> Int] /\ S = {f[i] : i \in 1 .. (n + 1)}
  BY <1>2, <1>3
<1>6. \A i \in DOMAIN mesh.vertices : i \in 1 .. (n + 1) /\ f[i] = mesh.vertices[i][k]
  BY <1>2
<1> HIDE DEF f, S
<1>7. /\ Min(S) \in Int /\ Max(S) \in Int
      /\ \A i \in 1 .. (n + 1) : Min(S) <= f[i] /\ f[i] <= Max(S)
  BY <1>2, <1>5, BoundsOfMany
<1> QED
  BY <1>3, <1>4, <1>6, <1>7

\* The box of a model holds those of its meshes.
LEMMA BoxHolds ==
  ASSUME NEW meshes \in Seq(Meshes) \ {<<>>}, NEW k \in 1 .. 2
  PROVE  /\ get_model_AABB(meshes).min[k] \in Int
         /\ get_model_AABB(meshes).max[k] \in Int
         /\ \A i \in DOMAIN meshes :
              /\ get_model_AABB(meshes).min[k] <= mesh_AABB(meshes[i]).min[k]
              /\ mesh_AABB(meshes[i]).max[k] <= get_model_AABB(meshes).max[k]
<1> DEFINE n == Len(meshes) - 1
           lower == [i \in 1 .. (n + 1) |-> mesh_AABB(meshes[i]).min[k]]
           upper == [i \in 1 .. (n + 1) |-> mesh_AABB(meshes[i]).max[k]]
           mins == {mesh_AABB(meshes[i]).min[k] : i \in DOMAIN meshes}
           maxs == {mesh_AABB(meshes[i]).max[k] : i \in DOMAIN meshes}
<1>1. n \in Nat /\ DOMAIN meshes = 1 .. (n + 1)
  BY EmptySeq, LenProperties
<1>2. \A i \in DOMAIN meshes :
        mesh_AABB(meshes[i]).min[k] \in Int /\ mesh_AABB(meshes[i]).max[k] \in Int
  <2> SUFFICES ASSUME NEW i \in DOMAIN meshes
               PROVE  mesh_AABB(meshes[i]).min[k] \in Int /\ mesh_AABB(meshes[i]).max[k] \in Int
    OBVIOUS
  <2>1. meshes[i] \in Meshes
    BY ElementOfSeq, LenProperties
  <2> QED
    BY <2>1, VerticesInBox
<1>3. get_model_AABB(meshes).min[k] = Min(mins) /\ get_model_AABB(meshes).max[k] = Max(maxs)
  BY DEF get_model_AABB
<1> HIDE DEF n
<1>4. /\ lower \in [1 .. (n + 1) -> Int] /\ mins = {lower[i] : i \in 1 .. (n + 1)}
      /\ upper \in [1 .. (n + 1) -> Int] /\ maxs = {upper[i] : i \in 1 .. (n + 1)}
  BY <1>1, <1>2
<1>5. \A i \in DOMAIN meshes : /\ i \in 1 .. (n + 1)
                               /\ lower[i] = mesh_AABB(meshes[i]).min[k]
                               /\ upper[i] = mesh_AABB(meshes[i]).max[k]
  BY <1>1
<1> HIDE DEF lower, upper, mins, maxs
<1>6. Min(mins) \in Int /\ \A i \in 1 .. (n + 1) : Min(mins) <= lower[i]
  BY <1>1, <1>4, BoundsOfMany
<1>7. Max(maxs) \in Int /\ \A i \in 1 .. (n + 1) : upper[i] <= Max(maxs)
  BY <1>1, <1>4, BoundsOfMany
<1> QED
  BY <1>3, <1>5, <1>6, <1>7

\* The lengths of vectors.
LEMMA LengthType ==
  ASSUME NEW v, v[1] \in Int, v[2] \in Int
  PROVE  LengthSqr(v) \in Nat
<1>1. \A x \in Int : x * x \in Nat
  OBVIOUS
<1>2. v[1] * v[1] \in Nat /\ v[2] * v[2] \in Nat
  BY <1>1
<1> QED
  BY <1>2 DEF LengthSqr

\* Turning does not change them.
LEMMA TurnKeepsLength ==
  ASSUME NEW v, v[1] \in Int, v[2] \in Int, NEW n \in 0 .. 3
  PROVE  /\ Turn(v, n)[1] \in Int /\ Turn(v, n)[2] \in Int
         /\ LengthSqr(Turn(v, n)) = LengthSqr(v)
<1>1. (-v[1]) * (-v[1]) = v[1] * v[1] /\ (-v[2]) * (-v[2]) = v[2] * v[2]
  OBVIOUS
<1>2. v[1] * v[1] \in Int /\ v[2] * v[2] \in Int
  OBVIOUS
<1>3. CASE n = 0
  BY <1>3 DEF Turn
<1>4. CASE n = 1
  <2>1. Turn(v, n) = <<-v[2], v[1]>>
    BY <1>4 DEF Turn
  <2> QED
    BY <1>1, <1>2, <2>1 DEF LengthSqr
<1>5. CASE n = 2
  <2>1. Turn(v, n) = <<-v[1], -v[2]>>
    BY <1>5 DEF Turn
  <2> QED
    BY <1>1, <1>2, <2>1 DEF LengthSqr
<1>6. CASE n = 3
  <2>1. Turn(v, n) = <<v[2], -v[1]>>
    BY <1>6 DEF Turn
  <2> QED
    BY <1>1, <1>2, <2>1 DEF LengthSqr
<1> QED
  BY <1>3, <1>4, <1>5, <1>6

\* The sphere holds the corner of the box that is used for it.
LEMMA SphereHolds ==
  ASSUME NEW meshes \in Seq(Meshes) \ {<<>>}
  PROVE  /\ BoundingRadiusSqr(meshes) \in Nat
         /\ LengthSqr(get_model_AABB(meshes).max) <= BoundingRadiusSqr(meshes)
<1> DEFINE a == LengthSqr(get_model_AABB(meshes).min)
           b == LengthSqr(get_model_AABB(meshes).max)
<1>1. 1 \in 1 .. 2 /\ 2 \in 1 .. 2
  OBVIOUS
<1>2. a \in Nat /\ b \in Nat
  BY <1>1, BoxHolds, LengthType
<1>3. BoundingRadiusSqr(meshes) = Max({a, b})
  BY DEF BoundingRadiusSqr
<1> HIDE DEF a, b
<1>4. \E x \in {a, b} : \A y \in {a, b} : x >= y
  BY <1>2
<1>5. Max({a, b}) \in {a, b} /\ \A y \in {a, b} : Max({a, b}) >= y
  BY <1>4 DEF Max
<1>6. Max({a, b}) \in Nat /\ Max({a, b}) >= b
  BY <1>2, <1>5
<1> QED
  BY <1>2, <1>3, <1>6 DEF b

LEMMA SmallerSquare ==
  ASSUME NEW x \in Int, NEW b \in Int, -b < x, x < b
  PROVE  x * x < b * b
<1>1. CASE x >= 0
  <2>1. x * x <= x * b /\ x * b < b * b
    BY <1>1
  <2>2. x * x \in Int /\ x * b \in Int /\ b * b \in Int
    OBVIOUS
  <2> QED
    BY <2>1, <2>2
<1>2. CASE x < 0
  <2> DEFINE y == -x
  <2>1. y \in Nat /\ y < b /\ b \in Nat
    BY <1>2
  <2>2. x * x = y * y
    OBVIOUS
  <2> HIDE DEF y
  <2>3. y * y <= y * b /\ y * b < b * b
    BY <2>1
  <2>4. y * y \in Int /\ y * b \in Int /\ b * b \in Int
    BY <2>1
  <2> QED
    BY <2>2, <2>3, <2>4
<1> QED
  BY <1>1, <1>2

\* What is on the inner side of each plane of a mesh is inside of its box.
LEMMA InsideBox ==
  ASSUME NEW mesh \in Meshes, NEW v, v[1] \in Int, v[2] \in Int,
         \A normal \in Sides : halfspace_point(mesh, normal, v, 0) < 0
  PROVE  /\ mesh_AABB(mesh).min[1] < v[1] /\ v[1] < mesh_AABB(mesh).max[1]
         /\ mesh_AABB(mesh).min[2] < v[2] /\ v[2] < mesh_AABB(mesh).max[2]
<1> DEFINE low == mesh_AABB(mesh).min
           high == mesh_AABB(mesh).max
           Within(w) == /\ w[1] \in Int /\ w[2] \in Int
                        /\ low[1] <= w[1] /\ w[1] <= high[1]
                        /\ low[2] <= w[2] /\ w[2] <= high[2]
<1>1. /\ low[1] \in Int /\ low[2] \in Int /\ high[1] \in Int /\ high[2] \in Int
      /\ \A k \in DOMAIN mesh.vertices : Within(mesh.vertices[k])
  <2>1. 1 \in 1 .. 2 /\ 2 \in 1 .. 2
    OBVIOUS
  <2> QED
    BY <2>1, VerticesInBox
<1> HIDE DEF low, high
<1>2. ASSUME NEW normal \in Sides
      PROVE  \E w : Within(w) /\ Dot(normal, v) - Dot(normal, w) - 0 < 0
  <2>1. PICK k \in DOMAIN mesh.vertices : Dot(normal, mesh.vertices[k]) = mesh.planes[normal]
    BY DEF Meshes
  <2>2. Dot(normal, v) - mesh.planes[normal] - 0 < 0
    BY DEF halfspace_point
  <2> QED
    BY <1>1, <2>1, <2>2
<1>3. /\ <<1, 0>> \in Sides /\ <<-1, 0>> \in Sides
      /\ <<0, 1>> \in Sides /\ <<0, -1>> \in Sides
  BY DEF Sides
<1>4. v[1] < high[1]
  <2>1. PICK w : Within(w) /\ Dot(<<1, 0>>, v) - Dot(<<1, 0>>, w) - 0 < 0
    BY <1>2, <1>3
  <2>2. 1 * v[1] + 0 * v[2] - (1 * w[1] + 0 * w[2]) - 0 < 0
    BY <2>1 DEF Dot
  <2> QED
    BY <1>1, <2>1, <2>2
<1>5. low[1] < v[1]
  <2>1. PICK w : Within(w) /\ Dot(<<-1, 0>>, v) - Dot(<<-1, 0>>, w) - 0 < 0
    BY <1>2, <1>3
  <2>2. (-1) * v[1] + 0 * v[2] - ((-1) * w[1] + 0 * w[2]) - 0 < 0
    BY <2>1 DEF Dot
  <2> QED
    BY <1>1, <2>1, <2>2
<1>6. v[2] < high[2]
  <2>1. PICK w : Within(w) /\ Dot(<<0, 1>>, v) - Dot(<<0, 1>>, w) - 0 < 0
    BY <1>2, <1>3
  <2>2. 0 * v[1] + 1 * v[2] - (0 * w[1] + 1 * w[2]) - 0 < 0
    BY <2>1 DEF Dot
  <2> QED
    BY <1>1, <2>1, <2>2
<1>7. low[2] < v[2]
  <2>1. PICK w : Within(w) /\ Dot(<<0, -1>>, v) - Dot(<<0, -1>>, w) - 0 < 0
    BY <1>2, <1>3
  <2>2. 0 * v[1] + (-1) * v[2] - (0 * w[1] + (-1) * w[2]) - 0 < 0
    BY <2>1 DEF Dot
  <2> QED
    BY <1>1, <2>1, <2>2
<1> QED
  BY <1>4, <1>5, <1>6, <1>7 DEF low, high

(***************************************************************************)
(* A point inside of one mesh of a model that lies around its own origin   *)
(* is within the model's bounding sphere.                                  *)
(***************************************************************************)
LEMMA InsideIsNear ==
  ASSUME NEW meshes \in Seq(Meshes) \ {<<>>}, Centred(meshes), NEW i \in DOMAIN meshes,
         NEW v, v[1] \in Int, v[2] \in Int,
         \A normal \in Sides : halfspace_point(meshes[i], normal, v, 0) < 0
  PROVE  LengthSqr(v) < BoundingRadiusSqr(meshes)
<1> DEFINE lo == get_model_AABB(meshes).min
           hi == get_model_AABB(meshes).max
           box == mesh_AABB(meshes[i])
<1>1. 1 \in 1 .. 2 /\ 2 \in 1 .. 2
  OBVIOUS
<1>2. /\ lo[1] \in Int /\ lo[2] \in Int /\ hi[1] \in Int /\ hi[2] \in Int
      /\ lo[1] <= box.min[1] /\ box.max[1] <= hi[1]
      /\ lo[2] <= box.min[2] /\ box.max[2] <= hi[2]
  BY <1>1, BoxHolds
<1>3. meshes[i] \in Meshes
  BY ElementOfSeq, LenProperties
<1>4. /\ box.min[1] < v[1] /\ v[1] < box.max[1]
      /\ box.min[2] < v[2] /\ v[2] < box.max[2]
  BY <1>3, InsideBox
<1>5. /\ box.min[1] \in Int /\ box.min[2] \in Int
      /\ box.max[1] \in Int /\ box.max[2] \in Int
  BY <1>1, <1>3, VerticesInBox
<1>6. lo = Turn(hi, 2)
  BY DEF Centred
<1> HIDE DEF lo, hi, box
<1>7. lo[1] = -hi[1] /\ lo[2] = -hi[2]
  BY <1>2, <1>6 DEF Turn
<1>8. -hi[1] < v[1] /\ v[1] < hi[1] /\ -hi[2] < v[2] /\ v[2] < hi[2]
  <2>1. \A a, b, c \in Int : a <= b /\ b < c => a < c
    OBVIOUS
  <2>2. \A a, b, c \in Int : a < b /\ b <= c => a < c
    OBVIOUS
  <2>3. lo[1] < v[1] /\ lo[2] < v[2]
    BY <1>2, <1>4, <1>5, <2>1
  <2>4. v[1] < hi[1] /\ v[2] < hi[2]
    BY <1>2, <1>4, <1>5, <2>2
  <2> QED
    BY <1>7, <2>3, <2>4
<1>9. v[1] * v[1] < hi[1] * hi[1] /\ v[2] * v[2] < hi[2] * hi[2]
  BY <1>2, <1>8, SmallerSquare
<1>10. LengthSqr(v) < LengthSqr(hi)
  <2>1. /\ v[1] * v[1] \in Int /\ hi[1] * hi[1] \in Int
        /\ v[2] * v[2] \in Int /\ hi[2] * hi[2] \in Int
    BY <1>2
  <2>2. \A a, b, c, d \in Int : a < b /\ c < d => a + c < b + d
    OBVIOUS
  <2>3. v[1] * v[1] + v[2] * v[2] < hi[1] * hi[1] + hi[2] * hi[2]
    BY <1>9, <2>1, <2>2
  <2> QED
    BY <2>3 DEF LengthSqr
<1>11. LengthSqr(v) \in Nat /\ LengthSqr(hi) \in Nat
  BY <1>2, LengthType
<1>12. BoundingRadiusSqr(meshes) \in Nat /\ LengthSqr(hi) <= BoundingRadiusSqr(meshes)
  BY SphereHolds DEF hi
<1> QED
  BY <1>10, <1>11, <1>12

-------------------------------------------------------------------------------
(* The hash.                                                               *)

\* Rounding down to a cell and back up.
LEMMA CellHolds ==
  ASSUME NEW v \in Int
  PROVE  /\ v \div cell_size \in Int
         /\ (v \div cell_size) * cell_size <= v
         /\ v < (v \div cell_size + 1) * cell_size
BY SpatialHashAssumption

\* Of two numbers, the one with the larger size has the larger square.
LEMMA SquaresGrow ==
  ASSUME NEW a \in Nat, NEW b \in Nat, a <= b
  PROVE  Sqr(a) <= Sqr(b)
<1>1. a * a <= a * b /\ a * b <= b * b
  OBVIOUS
<1> QED
  BY <1>1 DEF Sqr

\* What is said of a point and the cell of another, along one axis.
LEMMA AxisReached ==
  ASSUME NEW p \in Int, NEW q \in Int, NEW r2 \in Nat, Sqr(q - p) < r2
  PROVE  /\ WithinSpan(q \div cell_size - p \div cell_size, r2)
         /\ Sqr(Gap(p, q \div cell_size)) < r2
<1> DEFINE c == cell_size
           gp == p \div c
           gq == q \div c
           i == gq - gp
<1>1. /\ gp \in Int /\ gp * c <= p /\ p < (gp + 1) * c
      /\ gq \in Int /\ gq * c <= q /\ q < (gq + 1) * c
  BY CellHolds
<1>2. c \in Nat \ {0}
  BY SpatialHashAssumption
<1>3. Sqr(q - p) = Sqr(p - q) /\ Sqr(q - p) \in Int
  BY DEF Sqr
<1> HIDE DEF gp, gq, c
<1>4. ASSUME i > 0 PROVE WithinSpan(i, r2)
  <2>1. (i - 1) * c <= q - p
    <3>1. (i - 1) * c = gq * c - (gp + 1) * c
      BY <1>1, <1>2
    <3>2. gq * c \in Int /\ (gp + 1) * c \in Int
      BY <1>1, <1>2
    <3> QED
      BY <1>1, <3>1, <3>2
  <2>2. (i - 1) * c \in Nat /\ q - p \in Nat
    <3>1. i - 1 \in Nat
      BY <1>1, <1>4
    <3>2. (i - 1) * c \in Nat
      BY <1>2, <3>1
    <3> QED
      BY <2>1, <3>2
  <2>3. Sqr((i - 1) * c) <= Sqr(q - p)
    BY <2>1, <2>2, SquaresGrow
  <2>4. Abs(i) = i
    BY <1>1, <1>4 DEF Abs
  <2>5. Sqr((i - 1) * c) \in Int
    BY <2>2 DEF Sqr
  <2> QED
    BY <1>3, <2>3, <2>4, <2>5 DEF WithinSpan, c
<1>5. ASSUME i < 0 PROVE WithinSpan(i, r2)
  <2>1. (-i - 1) * c <= p - q
    <3>1. (-i - 1) * c = gp * c - (gq + 1) * c
      BY <1>1, <1>2
    <3>2. gp * c \in Int /\ (gq + 1) * c \in Int
      BY <1>1, <1>2
    <3> QED
      BY <1>1, <3>1, <3>2
  <2>2. (-i - 1) * c \in Nat /\ p - q \in Nat
    <3>1. -i - 1 \in Nat
      BY <1>1, <1>5
    <3>2. (-i - 1) * c \in Nat
      BY <1>2, <3>1
    <3> QED
      BY <2>1, <3>2
  <2>3. Sqr((-i - 1) * c) <= Sqr(p - q)
    BY <2>1, <2>2, SquaresGrow
  <2>4. Abs(i) = -i
    BY <1>1, <1>5 DEF Abs
  <2>5. Sqr((-i - 1) * c) \in Int
    BY <2>2 DEF Sqr
  <2> QED
    BY <1>3, <2>3, <2>4, <2>5 DEF WithinSpan, c
<1>6. WithinSpan(i, r2)
  <2>1. CASE i = 0
    BY <2>1 DEF WithinSpan
  <2> QED
    BY <1>1, <1>4, <1>5, <2>1
<1>7. CASE p < gq * c
  <2>1. Gap(p, gq) = gq * c - p
    BY <1>7 DEF Gap, c
  <2>2. gq * c \in Int
    BY <1>1, <1>2
  <2>3. gq * c - p \in Nat /\ q - p \in Nat /\ gq * c - p <= q - p
    BY <1>1, <1>7, <2>2
  <2>4. Sqr(gq * c - p) <= Sqr(q - p) /\ Sqr(gq * c - p) \in Int
    BY <2>3, SquaresGrow DEF Sqr
  <2> QED
    BY <1>3, <1>6, <2>1, <2>4 DEF gq, gp, c
<1>8. CASE p > (gq + 1) * c
  <2>1. (gq + 1) * c \in Int /\ gq * c \in Int /\ (gq + 1) * c = gq * c + c
    BY <1>1, <1>2
  <2>2. Gap(p, gq) = p - (gq + 1) * c
    <3>1. ~(p < gq * c)
      BY <1>2, <1>8, <2>1
    <3> QED
      BY <1>8, <3>1 DEF Gap, c
  <2>3. p - (gq + 1) * c \in Nat /\ p - q \in Nat /\ p - (gq + 1) * c <= p - q
    BY <1>1, <1>8, <2>1
  <2>4. Sqr(p - (gq + 1) * c) <= Sqr(p - q) /\ Sqr(p - (gq + 1) * c) \in Int
    BY <2>3, SquaresGrow DEF Sqr
  <2> QED
    BY <1>3, <1>6, <2>2, <2>4 DEF gq, gp, c
<1>9. CASE ~(p < gq * c) /\ ~(p > (gq + 1) * c)
  <2>1. Gap(p, gq) = 0
    BY <1>9 DEF Gap, c
  <2>2. 0 <= Sqr(q - p)
    BY DEF Sqr
  <2>3. Sqr(Gap(p, gq)) < r2
    BY <1>3, <2>1, <2>2 DEF Sqr
  <2> QED
    BY <1>6, <2>3 DEF gq, gp, c
<1> QED
  BY <1>7, <1>8, <1>9

(***************************************************************************)
(* A point whose square distance along every axis is below the radius has  *)
(* its cell among the cells reached, whichever axis counts in the end.     *)
(***************************************************************************)
LEMMA PointReached ==
  ASSUME NEW last \in VisitOrders, NEW p \in AllPoints, NEW q \in AllPoints, NEW r2 \in Nat,
         \A k \in Axes : Sqr(q[k] - p[k]) < r2,
         Axes # {},
         world_to_grid(q) \in Cells
  PROVE  world_to_grid(q) \in CellsReached(last, p, r2)
<1> DEFINE cell == world_to_grid(q)
<1>1. \A k \in Axes : cell[k] = q[k] \div cell_size /\ p[k] \in Int /\ q[k] \in Int
  BY DEF world_to_grid, AllPoints
<1>2. \A k \in Axes : WithinSpan(cell[k] - world_to_grid(p)[k], r2)
  <2> SUFFICES ASSUME NEW k \in Axes
               PROVE  WithinSpan(cell[k] - world_to_grid(p)[k], r2)
    OBVIOUS
  <2>1. world_to_grid(p)[k] = p[k] \div cell_size
    BY DEF world_to_grid
  <2> QED
    BY <1>1, <2>1, AxisReached
<1>3. \A k \in Axes : Sqr(Gap(p[k], cell[k])) < r2
  BY <1>1, AxisReached
<1>4. dist_sqr_point_aabb(last, p, cell) < r2
  <2> DEFINE apart == {k \in Axes : Gap(p[k], cell[k]) # 0}
  <2>1. CASE apart = {}
    <3>1. PICK k \in Axes : TRUE
      OBVIOUS
    <3>2. Sqr(Gap(p[k], cell[k])) = 0
      BY <2>1 DEF Sqr
    <3>3. 0 < r2
      BY <1>3, <3>1, <3>2
    <3> QED
      BY <2>1, <3>3 DEF dist_sqr_point_aabb
  <2>2. CASE apart # {}
    <3>1. last[apart] \in apart
      BY <2>2 DEF VisitOrders
    <3>2. last[apart] \in Axes
      BY <3>1
    <3>3. dist_sqr_point_aabb(last, p, cell) = Sqr(Gap(p[last[apart]], cell[last[apart]]))
      BY <2>2 DEF dist_sqr_point_aabb
    <3> QED
      BY <1>3, <3>2, <3>3
  <2> QED
    BY <2>1, <2>2
<1> QED
  BY <1>2, <1>4 DEF CellsReached

(***************************************************************************)
(* In the plane: a point closer than the radius is so along both axes.     *)
(***************************************************************************)
LEMMA CloseAlongAxes ==
  ASSUME NEW p \in AllPoints, NEW q \in AllPoints, NEW r2 \in Nat,
         DistanceSqr(p, q) < r2
  PROVE  \A k \in Axes : Sqr(p[k] - q[k]) < r2
<1>1. Axes = 1 .. 2
  BY WorldAssumption
<1>2. p[1] \in Int /\ p[2] \in Int /\ q[1] \in Int /\ q[2] \in Int
  BY <1>1 DEF AllPoints
<1>3. DistanceSqr(p, q) = Sqr(p[1] - q[1]) + Sqr(p[2] - q[2])
  BY DEF DistanceSqr, LengthSqr, Subtract, Sqr
<1>4. \A x \in Int : Sqr(x) \in Nat
  BY DEF Sqr
<1>5. Sqr(p[1] - q[1]) \in Nat /\ Sqr(p[2] - q[2]) \in Nat
  <2>1. p[1] - q[1] \in Int /\ p[2] - q[2] \in Int
    BY <1>2
  <2> QED
    BY <1>4, <2>1
<1>6. Sqr(p[1] - q[1]) < r2 /\ Sqr(p[2] - q[2]) < r2
  BY <1>3, <1>5
<1> QED
  BY <1>1, <1>6

MeshSets == [model : Nat, position : AllPoints]

ListInv ==
  /\ models \in Seq(Files \cup {<<Cube>>})
  /\ meshsets \in Seq(MeshSets)
  /\ \A m \in DOMAIN meshsets : meshsets[m].model \in DOMAIN models
  /\ added \subseteq DOMAIN meshsets
  /\ hash \in [Cells -> Seq(Nat)]
  /\ AddedAreListed

LEMMA ListInit == Init => ListInv
<1> SUFFICES ASSUME Init PROVE ListInv
  OBVIOUS
<1>1. hash \in [Cells -> Seq(Nat)]
  BY DEF Init, HashInit
<1>2. AddedAreListed
  BY DEF Init, AddedAreListed
<1>3. models = <<>> /\ meshsets = <<>> /\ added = {}
  BY DEF Init, ModelInit
<1> QED
  BY <1>1, <1>2, <1>3 DEF ListInv

\* Points of the bounded world are points, and have their cell in it.
LEMMA BallsInCells ==
  ASSUME NEW p \in BallPositions
  PROVE  p \in AllPoints /\ world_to_grid(p) \in Cells
<1>1. \A k \in Axes : p[k] \in Coordinates
  BY DEF BallPositions
<1>2. p \in AllPoints
  BY <1>1, WorldAssumption DEF BallPositions, AllPoints
<1>3. \A k \in Axes : p[k] \div cell_size \in GridRange
  BY <1>1, WorldAssumption
<1> QED
  BY <1>2, <1>3 DEF world_to_grid, Cells

(***************************************************************************)
(* Steps that add no meshset to the hash keep what is listed, provided the *)
(* models and meshsets there were are still there.                         *)
(***************************************************************************)
LEMMA ListsKept ==
  ASSUME ListInv, UNCHANGED <<hash, added>>,
         models' \in Seq(Files \cup {<<Cube>>}), meshsets' \in Seq(MeshSets),
         DOMAIN models \subseteq DOMAIN models', DOMAIN meshsets \subseteq DOMAIN meshsets',
         \A id \in DOMAIN models : models'[id] = models[id],
         \A m \in DOMAIN meshsets : meshsets'[m] = meshsets[m],
         \A m \in DOMAIN meshsets' : meshsets'[m].model \in DOMAIN models'
  PROVE  ListInv'
<1>1. AddedAreListed'
  <2> SUFFICES ASSUME NEW m \in added', NEW p \in BallPositions,
                      DistanceSqr(p, meshsets'[m].position)
                        < BoundingRadiusSqr(models'[meshsets'[m].model])
               PROVE  Listed(m, world_to_grid(p))'
    BY DEF AddedAreListed
  <2>1. m \in DOMAIN meshsets /\ m \in added
    BY DEF ListInv
  <2>2. meshsets'[m] = meshsets[m] /\ meshsets[m].model \in DOMAIN models
    BY <2>1 DEF ListInv
  <2>3. models'[meshsets'[m].model] = models[meshsets[m].model]
    BY <2>2
  <2>4. Listed(m, world_to_grid(p))
    BY <2>1, <2>2, <2>3 DEF ListInv, AddedAreListed
  <2> QED
    BY <2>4 DEF Listed
<1>2. added' \subseteq DOMAIN meshsets' /\ hash' \in [Cells -> Seq(Nat)]
  BY DEF ListInv
<1> QED
  BY <1>1, <1>2 DEF ListInv

LEMMA AddStep ==
  ASSUME ListInv, NEW m \in DOMAIN meshsets, AddMeshSet(m)
  PROVE  ListInv'
<1> DEFINE mesh == meshsets[m]
           r2 == BoundingRadiusSqr(models[mesh.model])
<1>1. UNCHANGED <<models, meshsets>> /\ added' = added \cup {m}
  BY DEF AddMeshSet
<1>2. mesh.position \in AllPoints /\ mesh.model \in DOMAIN models /\ m \in Nat
  <2>1. mesh \in MeshSets
    BY ElementOfSeq DEF ListInv
  <2> QED
    BY <2>1 DEF ListInv, MeshSets
<1>3. r2 \in Nat
  <2>1. models[mesh.model] \in ModelFiles
    BY <1>2, ElementOfSeq DEF ListInv, ModelFiles
  <2> QED
    BY <2>1, ModelFilesAre, SphereHolds
<1>4. PICK last \in VisitOrders :
        hash' = [cell \in Cells |->
                   IF cell \in CellsReached(last, mesh.position, r2)
                     THEN Append(hash[cell], m) ELSE hash[cell]]
  BY DEF AddMeshSet, add_to_cells
<1>5. \A cell \in Cells :
        /\ hash[cell] \in Seq(Nat)
        /\ hash'[cell] \in {hash[cell], Append(hash[cell], m)}
        /\ cell \in CellsReached(last, mesh.position, r2) => hash'[cell] = Append(hash[cell], m)
  BY <1>4 DEF ListInv
<1>6. hash' \in [Cells -> Seq(Nat)]
  <2>1. ASSUME NEW cell \in Cells PROVE hash'[cell] \in Seq(Nat)
    <3>1. hash[cell] \in Seq(Nat)
      BY <1>5
    <3>2. Append(hash[cell], m) \in Seq(Nat)
      BY <1>2, <3>1
    <3> QED
      BY <1>5, <3>1, <3>2
  <2> QED
    BY <1>4, <2>1
<1>7. AddedAreListed'
  <2> SUFFICES ASSUME NEW n \in added', NEW p \in BallPositions,
                      DistanceSqr(p, meshsets[n].position)
                        < BoundingRadiusSqr(models[meshsets[n].model])
               PROVE  Listed(n, world_to_grid(p))'
    BY <1>1 DEF AddedAreListed
  <2> DEFINE cell == world_to_grid(p)
  <2>1. p \in AllPoints /\ cell \in Cells
    BY BallsInCells
  <2> HIDE DEF cell
  <2>2. CASE n \in added
    <3>1. Listed(n, cell)
      BY <2>2 DEF ListInv, AddedAreListed, cell
    <3>2. PICK i \in 1 .. Len(hash[cell]) : hash[cell][i] = n
      BY <3>1 DEF Listed
    <3>3. i \in 1 .. Len(hash'[cell]) /\ hash'[cell][i] = n
      BY <1>5, <2>1, <3>2
    <3> QED
      BY <3>3 DEF Listed, cell
  <2>3. CASE n = m
    <3>1. \A k \in Axes : Sqr(p[k] - mesh.position[k]) < r2
      BY <1>2, <1>3, <2>1, <2>3, CloseAlongAxes
    <3>2. cell \in CellsReached(last, mesh.position, r2)
      BY <1>2, <1>3, <2>1, <3>1, PointReached, WorldAssumption DEF cell
    <3>3. hash'[cell] = Append(hash[cell], m) /\ hash[cell] \in Seq(Nat)
      BY <1>5, <2>1, <3>2
    <3>4. Len(hash[cell]) + 1 \in 1 .. Len(hash'[cell]) /\ hash'[cell][Len(hash[cell]) + 1] = n
      BY <1>2, <2>3, <3>3
    <3> QED
      BY <3>4 DEF Listed, cell
  <2> QED
    BY <1>1, <2>2, <2>3
<1> QED
  BY <1>1, <1>6, <1>7 DEF ListInv

LEMMA ListStep == ListInv /\ [Next]_vars => ListInv'
<1> SUFFICES ASSUME ListInv, [Next]_vars PROVE ListInv'
  OBVIOUS
<1>0. /\ models \in Seq(Files \cup {<<Cube>>}) /\ meshsets \in Seq(MeshSets)
      /\ \A m \in DOMAIN meshsets : meshsets[m].model \in DOMAIN models
  BY DEF ListInv
<1>1. ASSUME LoadModel PROVE ListInv'
  <2>1. PICK meshes \in Files \cup {<<Cube>>} : models' = Append(models, meshes)
    BY <1>1 DEF LoadModel, load_model, load_cube_model, AddModel
  <2>2. UNCHANGED <<hash, meshsets, added>>
    BY <1>1 DEF LoadModel, objects
  <2>3. /\ models' \in Seq(Files \cup {<<Cube>>}) /\ DOMAIN models \subseteq DOMAIN models'
        /\ \A id \in DOMAIN models : models'[id] = models[id]
    BY <1>0, <2>1
  <2> QED
    BY <1>0, <2>2, <2>3, ListsKept
<1>2. ASSUME NEW id \in Ids, NEW position \in Positions, NewMeshSet(id, position)
      PROVE  ListInv'
  <2>1. /\ meshsets' = Append(meshsets, [model |-> id, position |-> position])
        /\ UNCHANGED <<models, hash, added>>
    BY <1>2 DEF NewMeshSet
  <2>2. [model |-> id, position |-> position] \in MeshSets
    BY WorldAssumption DEF MeshSets, Ids
  <2>3. id \in DOMAIN models
    BY <1>0 DEF Ids
  <2>4. /\ meshsets' \in Seq(MeshSets) /\ DOMAIN meshsets \subseteq DOMAIN meshsets'
        /\ \A m \in DOMAIN meshsets : meshsets'[m] = meshsets[m]
    BY <1>0, <2>1, <2>2
  <2>5. \A m \in DOMAIN meshsets' :
          m \in DOMAIN meshsets \/ meshsets'[m] = [model |-> id, position |-> position]
    BY <1>0, <2>1, <2>2
  <2>6. \A m \in DOMAIN meshsets' : meshsets'[m].model \in DOMAIN models'
    BY <1>0, <2>1, <2>3, <2>4, <2>5
  <2> QED
    BY <1>0, <2>1, <2>4, <2>6, ListsKept
<1>3. ASSUME NEW m \in DOMAIN meshsets, AddMeshSet(m) PROVE ListInv'
  BY <1>3, AddStep
<1>4. ASSUME UNCHANGED <<models, meshsets, hash, added>> PROVE ListInv'
  BY <1>0, <1>4, ListsKept
<1>5. ASSUME NEW id \in Ids, NEW n \in 0 .. 3, TurnModel(id, n) PROVE ListInv'
  BY <1>4, <1>5 DEF TurnModel, objects
<1>6. ASSUME NEW position \in BallPositions, ball_collisions(position) PROVE ListInv'
  BY <1>4, <1>6 DEF ball_collisions, modelSet
<1>7. CASE UNCHANGED vars
  BY <1>4, <1>7 DEF vars, modelSet
<1> QED
  BY <1>1, <1>2, <1>3, <1>5, <1>6, <1>7 DEF Next

-------------------------------------------------------------------------------
(***************************************************************************)
(* The rest of the inductive invariant: the arrays go together, the plane  *)
(* sets of a model are those of its file or were never stored, a meshset   *)
(* that is in the hash has its radius, and nothing else is in the hash.    *)
(***************************************************************************)
Bounds == {mesh_load_physics_data(meshes) : meshes \in Files} \cup {GARBAGE}

ModelsInv ==
  /\ turns \in Seq(0 .. 3) /\ Len(turns) = Len(models)
  /\ convexMeshBounds \in Seq(Bounds) /\ Len(convexMeshBounds) = Len(models)
  /\ boundingSpheres \in Seq(Nat \cup {GARBAGE}) /\ Len(boundingSpheres) = Len(models)
  /\ \A id \in DOMAIN models :
       \/ models[id] \in Files /\ convexMeshBounds[id] = mesh_load_physics_data(models[id])
       \/ models[id] = <<Cube>> /\ convexMeshBounds[id] = GARBAGE

SpheresInv ==
  \A m \in added :
    boundingSpheres[meshsets[m].model] = BoundingRadiusSqr(models[meshsets[m].model])

OnlyAddedInv == \A cell \in Cells : \A i \in 1 .. Len(hash[cell]) : hash[cell][i] \in added

WorldInv == ListInv /\ ModelsInv /\ SpheresInv /\ OnlyAddedInv

LEMMA WorldInit == Init => WorldInv
<1> SUFFICES ASSUME Init PROVE WorldInv
  OBVIOUS
<1>1. /\ models = <<>> /\ turns = <<>> /\ convexMeshBounds = <<>> /\ boundingSpheres = <<>>
      /\ added = {}
  BY DEF Init, ModelInit
<1>2. \A cell \in Cells : hash[cell] = <<>>
  BY DEF Init, HashInit
<1>3. ModelsInv
  BY <1>1 DEF ModelsInv
<1>4. SpheresInv /\ OnlyAddedInv
  BY <1>1, <1>2 DEF SpheresInv, OnlyAddedInv
<1> QED
  BY <1>3, <1>4, ListInit DEF WorldInv

\* A model that is loaded.
LEMMA LoadStep ==
  ASSUME WorldInv, LoadModel
  PROVE  ModelsInv' /\ SpheresInv' /\ OnlyAddedInv'
<1>1. PICK meshes \in Files \cup {<<Cube>>}, bounds \in Bounds :
        /\ AddModel(meshes, bounds)
        /\ \/ meshes \in Files /\ bounds = mesh_load_physics_data(meshes)
           \/ meshes = <<Cube>> /\ bounds = GARBAGE
  BY DEF LoadModel, load_model, load_cube_model, Bounds
<1>2. /\ models' = Append(models, meshes) /\ turns' = Append(turns, 0)
      /\ convexMeshBounds' = Append(convexMeshBounds, bounds)
      /\ boundingSpheres' = Append(boundingSpheres, GARBAGE)
  BY <1>1 DEF AddModel
<1>3. UNCHANGED <<hash, meshsets, added>>
  BY DEF LoadModel, objects
<1>4. models \in Seq(Files \cup {<<Cube>>}) /\ Len(models) \in Nat /\ DOMAIN models = 1 .. Len(models)
  BY DEF WorldInv, ListInv
<1>5. /\ models' \in Seq(Files \cup {<<Cube>>}) /\ Len(models') = Len(models) + 1
      /\ \A id \in 1 .. Len(models) : models'[id] = models[id]
      /\ models'[Len(models) + 1] = meshes
  BY <1>2, <1>4
<1>6. /\ turns' \in Seq(0 .. 3) /\ Len(turns') = Len(models')
  BY <1>2, <1>4, <1>5 DEF WorldInv, ModelsInv
<1>7. /\ convexMeshBounds' \in Seq(Bounds) /\ Len(convexMeshBounds') = Len(models')
      /\ \A id \in 1 .. Len(models) : convexMeshBounds'[id] = convexMeshBounds[id]
      /\ convexMeshBounds'[Len(models) + 1] = bounds
  BY <1>2, <1>4, <1>5 DEF WorldInv, ModelsInv
<1>8. /\ boundingSpheres' \in Seq(Nat \cup {GARBAGE}) /\ Len(boundingSpheres') = Len(models')
      /\ \A id \in 1 .. Len(models) : boundingSpheres'[id] = boundingSpheres[id]
  BY <1>2, <1>4, <1>5 DEF WorldInv, ModelsInv
<1>9. ASSUME NEW id \in DOMAIN models'
      PROVE  \/ models'[id] \in Files /\ convexMeshBounds'[id] = mesh_load_physics_data(models'[id])
             \/ models'[id] = <<Cube>> /\ convexMeshBounds'[id] = GARBAGE
  <2>1. id \in 1 .. Len(models) \/ id = Len(models) + 1
    BY <1>4, <1>5
  <2>2. CASE id \in 1 .. Len(models)
    BY <1>4, <1>5, <1>7, <2>2 DEF WorldInv, ModelsInv
  <2>3. CASE id = Len(models) + 1
    BY <1>1, <1>5, <1>7, <2>3
  <2> QED
    BY <2>1, <2>2, <2>3
<1>10. ModelsInv'
  BY <1>6, <1>7, <1>8, <1>9 DEF ModelsInv
<1>11. SpheresInv'
  <2> SUFFICES ASSUME NEW m \in added
               PROVE  boundingSpheres'[meshsets[m].model] = BoundingRadiusSqr(models'[meshsets[m].model])
    BY <1>3 DEF SpheresInv
  <2>1. meshsets[m].model \in 1 .. Len(models)
    BY <1>4 DEF WorldInv, ListInv
  <2> QED
    BY <1>5, <1>8, <2>1 DEF WorldInv, SpheresInv
<1>12. OnlyAddedInv'
  BY <1>3 DEF WorldInv, OnlyAddedInv
<1> QED
  BY <1>10, <1>11, <1>12

\* A meshset that is put into the hash.
LEMMA AddKeepsWorld ==
  ASSUME WorldInv, NEW m \in DOMAIN meshsets, AddMeshSet(m)
  PROVE  ModelsInv' /\ SpheresInv' /\ OnlyAddedInv'
<1> DEFINE id == meshsets[m].model
<1>1. /\ UNCHANGED <<models, turns, convexMeshBounds, meshsets>> /\ added' = added \cup {m}
      /\ boundingSpheres' = [boundingSpheres EXCEPT ![id] = BoundingRadiusSqr(models[id])]
  BY DEF AddMeshSet, get_bounding_sphere
<1>2. models \in Seq(ModelFiles) /\ id \in 1 .. Len(models)
  BY DEF WorldInv, ListInv, ModelFiles
<1>3. BoundingRadiusSqr(models[id]) \in Nat
  <2>1. models[id] \in ModelFiles
    BY <1>2, ElementOfSeq
  <2> QED
    BY <2>1, ModelFilesAre, SphereHolds
<1> HIDE DEF id
<1>4. /\ boundingSpheres' \in Seq(Nat \cup {GARBAGE}) /\ Len(boundingSpheres') = Len(models)
      /\ \A n \in 1 .. Len(models) :
           boundingSpheres'[n] = IF n = id THEN BoundingRadiusSqr(models[id]) ELSE boundingSpheres[n]
  <2>1. boundingSpheres \in Seq(Nat \cup {GARBAGE}) /\ Len(boundingSpheres) = Len(models)
    BY DEF WorldInv, ModelsInv
  <2> QED
    BY <1>1, <1>2, <1>3, <2>1, ExceptSeq
<1>5. ModelsInv'
  BY <1>1, <1>4 DEF WorldInv, ModelsInv
<1>6. SpheresInv'
  <2> SUFFICES ASSUME NEW n \in added \cup {m}
               PROVE  boundingSpheres'[meshsets[n].model] = BoundingRadiusSqr(models[meshsets[n].model])
    BY <1>1 DEF SpheresInv
  <2>1. meshsets[n].model \in 1 .. Len(models)
    BY <1>2 DEF WorldInv, ListInv
  <2>2. CASE meshsets[n].model = id
    BY <1>4, <2>1, <2>2
  <2>3. CASE meshsets[n].model # id
    <3>1. n \in added
      BY <2>3 DEF id
    <3> QED
      BY <1>4, <2>1, <2>3, <3>1 DEF WorldInv, SpheresInv
  <2> QED
    BY <2>2, <2>3
<1>7. OnlyAddedInv'
  <2> SUFFICES ASSUME NEW cell \in Cells, NEW i \in 1 .. Len(hash'[cell])
               PROVE  hash'[cell][i] \in added \cup {m}
    BY <1>1 DEF OnlyAddedInv
  <2>1. hash[cell] \in Seq(Nat) /\ m \in Nat /\ Len(hash[cell]) \in Nat
    BY DEF WorldInv, ListInv
  <2>2. hash'[cell] = hash[cell] \/ hash'[cell] = Append(hash[cell], m)
    BY DEF AddMeshSet, add_to_cells
  <2>3. \A j \in 1 .. Len(hash[cell]) : hash[cell][j] \in added
    BY DEF WorldInv, OnlyAddedInv
  <2>4. CASE hash'[cell] = hash[cell]
    BY <2>3, <2>4
  <2>5. CASE hash'[cell] = Append(hash[cell], m)
    <3>1. i \in 1 .. Len(hash[cell]) \/ i = Len(hash[cell]) + 1
      BY <2>1, <2>5
    <3>2. CASE i \in 1 .. Len(hash[cell])
      BY <2>1, <2>3, <2>5, <3>2
    <3>3. CASE i = Len(hash[cell]) + 1
      BY <2>1, <2>5, <3>3
    <3> QED
      BY <3>1, <3>2, <3>3
  <2> QED
    BY <2>2, <2>4, <2>5
<1> QED
  BY <1>5, <1>6, <1>7

\* Steps that turn or place a model, make a meshset, or test a ball.
LEMMA TurnKeepsWorld ==
  ASSUME WorldInv, UNCHANGED <<models, convexMeshBounds, boundingSpheres, hash, added>>,
         turns' = turns \/ \E id \in Ids, n \in 0 .. 3 : turns' = [turns EXCEPT ![id] = n],
         \A m \in added : meshsets'[m] = meshsets[m]
  PROVE  ModelsInv' /\ SpheresInv' /\ OnlyAddedInv'
<1>1. turns \in Seq(0 .. 3) /\ Len(turns) = Len(models)
  BY DEF WorldInv, ModelsInv
<1>2. turns' \in Seq(0 .. 3) /\ Len(turns') = Len(models)
  <2>1. CASE turns' = turns
    BY <1>1, <2>1
  <2>2. ASSUME NEW id \in 1 .. Len(models), NEW n \in 0 .. 3, turns' = [turns EXCEPT ![id] = n]
        PROVE  turns' \in Seq(0 .. 3) /\ Len(turns') = Len(models)
    BY <1>1, <2>2, ExceptSeq
  <2> QED
    BY <2>1, <2>2 DEF Ids
<1>3. ModelsInv'
  BY <1>2 DEF WorldInv, ModelsInv
<1> QED
  BY <1>3 DEF WorldInv, SpheresInv, OnlyAddedInv

LEMMA WorldStep == WorldInv /\ [Next]_vars => WorldInv'
<1> SUFFICES ASSUME WorldInv, [Next]_vars PROVE WorldInv'
  OBVIOUS
<1>0. ListInv'
  BY ListStep DEF WorldInv
<1>1. CASE LoadModel
  BY <1>0, <1>1, LoadStep DEF WorldInv
<1>2. ASSUME NEW id \in Ids, NEW position \in Positions, NewMeshSet(id, position)
      PROVE  WorldInv'
  <2>1. /\ UNCHANGED <<models, convexMeshBounds, boundingSpheres, hash, added>>
        /\ turns' = [turns EXCEPT ![id] = 1]
        /\ meshsets' = Append(meshsets, [model |-> id, position |-> position])
    BY <1>2 DEF NewMeshSet, model_rotate_euler
  <2>2. \A m \in added : meshsets'[m] = meshsets[m]
    <3>1. meshsets \in Seq(MeshSets) /\ added \subseteq DOMAIN meshsets
      BY DEF WorldInv, ListInv
    <3>2. [model |-> id, position |-> position] \in MeshSets
      BY WorldAssumption DEF MeshSets, Ids
    <3> QED
      BY <2>1, <3>1, <3>2
  <2>3. 1 \in 0 .. 3
    OBVIOUS
  <2> QED
    BY <1>0, <2>1, <2>2, <2>3, TurnKeepsWorld DEF WorldInv
<1>3. ASSUME NEW m \in DOMAIN meshsets, AddMeshSet(m) PROVE WorldInv'
  BY <1>0, <1>3, AddKeepsWorld DEF WorldInv
<1>4. ASSUME NEW id \in Ids, NEW n \in 0 .. 3, TurnModel(id, n) PROVE WorldInv'
  BY <1>0, <1>4, TurnKeepsWorld DEF WorldInv, TurnModel, model_rotate_euler, objects
<1>5. ASSUME NEW position \in BallPositions, ball_collisions(position) PROVE WorldInv'
  BY <1>0, <1>5, TurnKeepsWorld DEF WorldInv, ball_collisions, modelSet
<1>6. CASE UNCHANGED vars
  BY <1>0, <1>6, TurnKeepsWorld DEF WorldInv, vars, modelSet
<1> QED
  BY <1>1, <1>2, <1>3, <1>4, <1>5, <1>6 DEF Next

-------------------------------------------------------------------------------
(* Plane sets.                                                             *)

\* No convex mesh is taken for concave.
LEMMA ConvexPasses ==
  ASSUME NEW mesh \in Meshes, Convex(mesh)
  PROVE  is_convex(mesh)
<1> DEFINE n == Len(mesh.vertices)
<1>1. mesh.vertices \in Seq(Int \X Int) /\ mesh.vertices # <<>>
  BY DEF Meshes
<1>2. n \in Nat /\ n # 0 /\ DOMAIN mesh.vertices = 1 .. n
  BY <1>1, EmptySeq, LenProperties
<1> HIDE DEF n
<1>3. 1 .. (n + 2) \div 3 \subseteq 1 .. n
  BY <1>2
<1> QED
  BY <1>2, <1>3 DEF is_convex, Convex, n

\* With the meshes taken for convex first, those are the ones counted.
LEMMA CountedAreConvex ==
  ASSUME NEW meshes \in Seq(Meshes) \ {<<>>}, ConvexFirst(meshes)
  PROVE  /\ mesh_load_physics_data(meshes).mesh_count \in Nat
         /\ \A i \in 1 .. mesh_load_physics_data(meshes).mesh_count :
              i \in DOMAIN meshes /\ is_convex(meshes[i])
         /\ \A i \in DOMAIN meshes :
              is_convex(meshes[i]) => i \in 1 .. mesh_load_physics_data(meshes).mesh_count
<1> DEFINE convex == {i \in DOMAIN meshes : is_convex(meshes[i])}
           n == Len(meshes)
<1>1. DOMAIN meshes = 1 .. n /\ n \in Nat
  BY LenProperties
<1>2. IsFiniteSet(1 .. n) /\ Cardinality(1 .. n) <= n
  BY <1>1, FS_Interval
<1>3. convex \in SUBSET (1 .. n)
  BY <1>1
<1>4. IsFiniteSet(convex) /\ Cardinality(convex) <= Cardinality(1 .. n)
  BY <1>2, <1>3, FS_Subset
<1>5. Cardinality(convex) \in Nat /\ Cardinality(1 .. n) \in Nat
  BY <1>2, <1>4, FS_CardinalityType
<1>6. mesh_load_physics_data(meshes).mesh_count = Cardinality(convex)
  BY DEF mesh_load_physics_data
<1>7. ASSUME NEW i \in 1 .. Cardinality(convex)
      PROVE  i \in DOMAIN meshes /\ is_convex(meshes[i])
  <2>1. i \in DOMAIN meshes
    BY <1>1, <1>2, <1>4, <1>5
  <2>2. ASSUME ~is_convex(meshes[i]) PROVE FALSE
    <3>1. \A j \in convex : j \in 1 .. (i - 1)
      <4> SUFFICES ASSUME NEW j \in convex PROVE j \in 1 .. (i - 1)
        OBVIOUS
      <4>1. j \in 1 .. n /\ i \in 1 .. n /\ is_convex(meshes[j])
        BY <1>1, <2>1
      <4>2. ~(i < j)
        BY <1>1, <2>1, <2>2, <4>1 DEF ConvexFirst
      <4>3. j # i
        BY <2>2, <4>1
      <4> QED
        BY <4>1, <4>2, <4>3
    <3>2. convex \in SUBSET (1 .. (i - 1))
      BY <3>1
    <3>3. IsFiniteSet(1 .. (i - 1)) /\ Cardinality(1 .. (i - 1)) = i - 1
      <4>1. 1 \in Int /\ i - 1 \in Int
        OBVIOUS
      <4>2. /\ IsFiniteSet(1 .. (i - 1))
            /\ Cardinality(1 .. (i - 1)) = IF 1 > i - 1 THEN 0 ELSE i - 1 - 1 + 1
        BY <4>1, FS_Interval
      <4> QED
        BY <4>2
    <3>4. Cardinality(convex) <= Cardinality(1 .. (i - 1))
      BY <3>2, <3>3, FS_Subset
    <3> QED
      BY <1>5, <3>3, <3>4
  <2> QED
    BY <2>1, <2>2
<1>8. ASSUME NEW i \in DOMAIN meshes, is_convex(meshes[i])
      PROVE  i \in 1 .. Cardinality(convex)
  <2>1. (1 .. i) \in SUBSET convex
    <3> SUFFICES ASSUME NEW j \in 1 .. i PROVE j \in convex
      OBVIOUS
    <3>1. j \in DOMAIN meshes /\ (j < i \/ j = i)
      BY <1>1
    <3> QED
      BY <1>8, <3>1 DEF ConvexFirst
  <2>2. i \in Int /\ 1 \in Int /\ i >= 1
    BY <1>1
  <2>3. Cardinality(1 .. i) = IF 1 > i THEN 0 ELSE i - 1 + 1
    BY <2>2, FS_Interval
  <2>4. Cardinality(1 .. i) <= Cardinality(convex)
    BY <1>4, <2>1, FS_Subset
  <2> QED
    BY <1>5, <2>2, <2>3, <2>4
<1> HIDE DEF convex
<1> QED
  BY <1>5, <1>6, <1>7, <1>8

\* A test goes through unwritten memory for the models named alone.
LEMMA GarbageOnly ==
  ASSUME WorldInv, NEW m \in added, ReadsGarbage(meshsets[m].model)
  PROVE  \/ models[meshsets[m].model] = <<Cube>>
         \/ ~ConvexFirst(models[meshsets[m].model])
<1> DEFINE id == meshsets[m].model
           meshes == models[id]
<1> SUFFICES ASSUME meshes # <<Cube>>, ConvexFirst(meshes) PROVE FALSE
  OBVIOUS
<1>1. id \in DOMAIN models
  BY DEF WorldInv, ListInv
<1>2. meshes \in Files /\ convexMeshBounds[id] = mesh_load_physics_data(meshes)
  BY <1>1 DEF WorldInv, ModelsInv
<1>3. meshes \in Seq(Meshes) \ {<<>>} /\ mesh_load_physics_data(meshes) # GARBAGE
  BY <1>2, ModelAssumption
<1> HIDE DEF meshes
<1>4. PICK i \in 1 .. mesh_load_physics_data(meshes).mesh_count :
        mesh_load_physics_data(meshes).meshes[i] = GARBAGE
  BY <1>2, <1>3 DEF ReadsGarbage
<1>5. i \in DOMAIN meshes /\ is_convex(meshes[i])
  BY <1>3, <1>4, CountedAreConvex
<1>6. mesh_load_physics_data(meshes).meshes[i] = meshes[i]
  BY <1>5 DEF mesh_load_physics_data
<1>7. meshes[i] \in Meshes
  BY <1>3, <1>5, ElementOfSeq, LenProperties
<1> QED
  BY <1>4, <1>6, <1>7, ModelAssumption

\* A sphere around a point inside of a mesh overlaps it.
LEMMA InsideOverlaps ==
  ASSUME NEW mesh \in Meshes, NEW v, v[1] \in Int, v[2] \in Int,
         \A normal \in Sides : halfspace_point(mesh, normal, v, 0) < 0
  PROVE  sep_axis_sphere(mesh, v, BallRadius)
<1> SUFFICES ASSUME NEW normal \in Sides
             PROVE  halfspace_point(mesh, normal, v, BallRadius) <= 0
  BY DEF sep_axis_sphere
<1>1. mesh.planes \in [Sides -> Int]
  BY DEF Meshes
<1>2. mesh.planes[normal] \in Int /\ normal[1] \in Int /\ normal[2] \in Int
  BY <1>1 DEF Sides
<1>3. Dot(normal, v) \in Int
  <2>1. normal[1] * v[1] \in Int /\ normal[2] * v[2] \in Int
    BY <1>2
  <2> QED
    BY <2>1 DEF Dot
<1>4. Dot(normal, v) - mesh.planes[normal] - 0 < 0
  <2>1. halfspace_point(mesh, normal, v, 0) < 0
    OBVIOUS
  <2> QED
    BY <2>1 DEF halfspace_point
<1>5. \A d, o, r \in Int : r >= 0 /\ d - o - 0 < 0 => d - o - r <= 0
  OBVIOUS
<1>6. Dot(normal, v) - mesh.planes[normal] - BallRadius <= 0
  BY <1>2, <1>3, <1>4, <1>5, WorldAssumption
<1> QED
  BY <1>6 DEF halfspace_point

(***************************************************************************)
(* A ball inside of a model that is as NoBallInsideUnnoticed wants it is   *)
(* within the bounding sphere, is not rejected early, and overlaps one of  *)
(* the plane sets, unless those are not what was stored.                   *)
(***************************************************************************)
LEMMA InsideIsHit ==
  ASSUME WorldInv, NEW m \in added, NEW p \in BallPositions, InPlace(m),
         Centred(models[meshsets[m].model]), ConvexFirst(models[meshsets[m].model]),
         InsideConvexMesh(m, p)
  PROVE  /\ DistanceSqr(p, meshsets[m].position) < BoundingRadiusSqr(models[meshsets[m].model])
         /\ ~EarlyReject(meshsets[m].model, p)
         /\ ReadsGarbage(meshsets[m].model) \/ DOMAIN ResultsAt(m, p) # {}
<1> DEFINE id == meshsets[m].model
           meshes == models[id]
           v == Local(id, p)
           w == Subtract(p, positions[id])
<1>1. models \in Seq(ModelFiles) /\ id \in DOMAIN models /\ m \in DOMAIN meshsets
      /\ meshsets[m].position \in AllPoints
  <2>1. meshsets \in Seq(MeshSets) /\ m \in DOMAIN meshsets
    BY DEF WorldInv, ListInv
  <2>2. meshsets[m] \in MeshSets
    BY <2>1, ElementOfSeq, LenProperties
  <2> QED
    BY <2>1, <2>2 DEF WorldInv, ListInv, MeshSets, ModelFiles
<1>2. meshes \in Seq(Meshes) \ {<<>>}
  <2>1. meshes \in ModelFiles
    BY <1>1, ElementOfSeq, LenProperties
  <2> QED
    BY <2>1, ModelFilesAre
<1>3. positions[id] = meshsets[m].position
  BY DEF InPlace
<1>4. w[1] \in Int /\ w[2] \in Int
  <2>1. p \in AllPoints /\ positions[id] \in AllPoints /\ Axes = 1 .. 2
    BY <1>1, <1>3, BallsInCells, WorldAssumption
  <2>2. p[1] \in Int /\ p[2] \in Int /\ positions[id][1] \in Int /\ positions[id][2] \in Int
    BY <2>1 DEF AllPoints
  <2> QED
    BY <2>2 DEF Subtract
<1>5. Inverse4(turns[id]) \in 0 .. 3
  <2>1. turns \in Seq(0 .. 3) /\ id \in 1 .. Len(turns)
    BY <1>1, LenProperties DEF WorldInv, ModelsInv
  <2>2. turns[id] \in 0 .. 3
    BY <2>1, ElementOfSeq
  <2>3. \A n \in 0 .. 3 : (4 - n) % 4 \in 0 .. 3
    OBVIOUS
  <2> QED
    BY <2>2, <2>3 DEF Inverse4
<1>6. v = Turn(w, Inverse4(turns[id]))
  BY DEF Local
<1> HIDE DEF v, w, meshes, id
<1>7. v[1] \in Int /\ v[2] \in Int /\ LengthSqr(v) = LengthSqr(w)
  BY <1>4, <1>5, <1>6, TurnKeepsLength
<1>8. PICK i \in DOMAIN meshes :
        Convex(meshes[i]) /\ \A normal \in Sides : halfspace_point(meshes[i], normal, v, 0) < 0
  BY DEF InsideConvexMesh, id, meshes, v
<1>9. LengthSqr(w) < BoundingRadiusSqr(meshes)
  <2>1. Centred(meshes)
    BY DEF meshes, id
  <2>2. LengthSqr(v) < BoundingRadiusSqr(meshes)
    BY <1>2, <1>7, <1>8, <2>1, InsideIsNear
  <2> QED
    BY <1>7, <2>2
<1>10. DistanceSqr(p, meshsets[m].position) = LengthSqr(w)
  BY <1>3 DEF DistanceSqr, w
<1>11. ~EarlyReject(id, p)
  <2>1. boundingSpheres[id] = BoundingRadiusSqr(meshes)
    BY DEF WorldInv, SpheresInv, id, meshes
  <2>2. BoundingRadiusSqr(meshes) \in Nat /\ LengthSqr(w) \in Nat
    BY <1>2, <1>4, SphereHolds, LengthType
  <2> QED
    BY <1>9, <2>1, <2>2 DEF EarlyReject, w
<1>12. ASSUME ~ReadsGarbage(id) PROVE DOMAIN ResultsAt(m, p) # {}
  <2>1. convexMeshBounds[id] # GARBAGE
    BY <1>12 DEF ReadsGarbage
  <2>2. convexMeshBounds[id] = mesh_load_physics_data(meshes)
    BY <1>1, <2>1 DEF WorldInv, ModelsInv, meshes
  <2>3. ConvexFirst(meshes)
    BY DEF meshes, id
  <2>4. i \in 1 .. convexMeshBounds[id].mesh_count
    <3>1. is_convex(meshes[i])
      BY <1>2, <1>8, ConvexPasses, ElementOfSeq, LenProperties
    <3> QED
      BY <1>2, <1>8, <2>2, <2>3, <3>1, CountedAreConvex
  <2>5. convexMeshBounds[id].meshes[i] = meshes[i]
    BY <1>2, <1>8, <2>2, ConvexPasses, ElementOfSeq, LenProperties DEF mesh_load_physics_data
  <2>6. meshes[i] \in Meshes
    BY <1>2, <1>8, ElementOfSeq, LenProperties
  <2>7. sep_axis_sphere(convexMeshBounds[id].meshes[i], Local(id, p), BallRadius)
    BY <1>7, <1>8, <2>5, <2>6, InsideOverlaps DEF v
  <2>8. DOMAIN ResultsAt(m, p)
          = {j \in 1 .. convexMeshBounds[id].mesh_count :
               sep_axis_sphere(convexMeshBounds[id].meshes[j], Local(id, p), BallRadius)}
    BY <1>11 DEF ResultsAt, separating_axis_sphere, id
  <2> QED
    BY <2>4, <2>7, <2>8
<1> QED
  BY <1>9, <1>10, <1>11, <1>12 DEF id, meshes

-------------------------------------------------------------------------------
(* A ball's way through the list of its cell.                              *)

Fresh(p) == [position |-> p, active_object |-> 0, wild |-> FALSE]

IsBall(b) ==
  /\ DOMAIN b = {"position", "active_object", "wild"}
  /\ b.active_object \in Nat /\ b.wild \in BOOLEAN

Noticed(b) == b.active_object # 0 \/ b.wild

\* Whether a ball that has got this far will be noticed by the test of m.
Hit(b, m) ==
  /\ ~EarlyReject(meshsets[m].model, b.position)
  /\ ReadsGarbage(meshsets[m].model) \/ DOMAIN ResultsAt(m, b.position) # {}

\* The two changes that a test makes of a ball.
LEMMA BallChanges ==
  ASSUME NEW b, IsBall(b), NEW y, NEW m \in Nat
  PROVE  LET hit == [b EXCEPT !.position = y, !.active_object = m]
             lost == [b EXCEPT !.wild = TRUE]
         IN  /\ IsBall(hit) /\ hit.active_object = m /\ hit.wild = b.wild
             /\ IsBall(lost) /\ lost.wild = TRUE
BY DEF IsBall

(***************************************************************************)
(* One test notices the ball or leaves it as it is, and never forgets what *)
(* was noticed before.                                                     *)
(***************************************************************************)
LEMMA TestNotices ==
  ASSUME NEW b, IsBall(b), NEW m \in Nat \ {0}
  PROVE  /\ IsBall(TestMeshSet(b, m))
         /\ Noticed(b) => Noticed(TestMeshSet(b, m))
         /\ ~Noticed(TestMeshSet(b, m)) => TestMeshSet(b, m) = b
         /\ TestMeshSet(b, m).wild => b.wild \/ ReadsGarbage(meshsets[m].model)
         /\ Hit(b, m) => Noticed(TestMeshSet(b, m))
<1> DEFINE results == ResultsAt(m, b.position)
           moved == FoldFunction(Respond, b.position, results)
           hit == [b EXCEPT !.position = moved, !.active_object = m]
           lost == [b EXCEPT !.wild = TRUE]
           after == TestMeshSet(b, m)
<1>1. /\ after = IF b.wild \/ EarlyReject(meshsets[m].model, b.position) THEN b
                 ELSE IF ReadsGarbage(meshsets[m].model) THEN lost
                 ELSE IF DOMAIN results = {} THEN b
                 ELSE hit
  BY DEF TestMeshSet
<1>2. /\ IsBall(hit) /\ hit.active_object = m /\ hit.wild = b.wild
      /\ IsBall(lost) /\ lost.wild = TRUE
  BY BallChanges
<1> HIDE DEF after, hit, lost, moved, results
<1>3. Noticed(hit) /\ Noticed(lost)
  BY <1>2 DEF Noticed
<1>4. CASE b.wild \/ EarlyReject(meshsets[m].model, b.position)
  BY <1>1, <1>4 DEF after, Noticed, Hit
<1>5. CASE ~(b.wild \/ EarlyReject(meshsets[m].model, b.position))
  <2>1. CASE ReadsGarbage(meshsets[m].model)
    BY <1>1, <1>2, <1>3, <1>5, <2>1 DEF after
  <2>2. CASE ~ReadsGarbage(meshsets[m].model) /\ DOMAIN results = {}
    BY <1>1, <1>5, <2>2 DEF after, Hit, results
  <2>3. CASE ~ReadsGarbage(meshsets[m].model) /\ DOMAIN results # {}
    BY <1>1, <1>2, <1>3, <1>5, <2>3 DEF after
  <2> QED
    BY <2>1, <2>2, <2>3
<1> QED
  BY <1>4, <1>5

\* What ball_collisions makes of a ball, one entry of the list after another.
Passes(ball, list, n, p) ==
  ball = [i \in 0 .. n |-> IF i = 0 THEN Fresh(p) ELSE TestMeshSet(ball[i - 1], list[i])]

LEMMA PassesExist ==
  ASSUME NEW list, NEW p
  PROVE  \A n \in Nat : \E ball : Passes(ball, list, n, p)
<1> DEFINE S == {n \in Nat : \E ball : Passes(ball, list, n, p)}
<1>1. 0 \in S
  <2> DEFINE ball == [i \in 0 .. 0 |-> Fresh(p)]
  <2>1. ball = [i \in 0 .. 0 |-> IF i = 0 THEN Fresh(p) ELSE TestMeshSet(ball[i - 1], list[i])]
    OBVIOUS
  <2> HIDE DEF ball
  <2>2. Passes(ball, list, 0, p)
    BY <2>1 DEF Passes
  <2> QED
    BY <2>2
<1>2. ASSUME NEW n \in Nat, n \in S PROVE n + 1 \in S
  <2>1. PICK g : Passes(g, list, n, p)
    BY <1>2
  <2> DEFINE next == TestMeshSet(g[n], list[n + 1])
             ball == [i \in 0 .. n + 1 |-> IF i = n + 1 THEN next ELSE g[i]]
  <2>2. \A i \in 0 .. n : g[i] = IF i = 0 THEN Fresh(p) ELSE TestMeshSet(g[i - 1], list[i])
    BY <2>1, Zenon DEF Passes
  <2>3. ASSUME NEW i \in 0 .. n + 1
        PROVE  ball[i] = IF i = 0 THEN Fresh(p) ELSE TestMeshSet(ball[i - 1], list[i])
    <3> HIDE DEF next
    <3>1. CASE i = n + 1
      <4>1. i # 0 /\ i - 1 = n /\ i - 1 \in 0 .. n + 1 /\ i - 1 # n + 1
        BY <3>1
      <4>2. ball[i] = next /\ ball[i - 1] = g[n]
        BY <3>1, <4>1
      <4> QED
        BY <3>1, <4>1, <4>2 DEF next
    <3>2. CASE i = 0
      <4>1. 0 \in 0 .. n /\ 0 \in 0 .. n + 1 /\ 0 # n + 1
        OBVIOUS
      <4> QED
        BY <2>2, <3>2, <4>1
    <3>3. CASE i # n + 1 /\ i # 0
      <4>1. i \in 0 .. n /\ i - 1 \in 0 .. n + 1 /\ i - 1 # n + 1
        BY <3>3
      <4>2. ball[i] = g[i] /\ ball[i - 1] = g[i - 1]
        BY <3>3, <4>1
      <4> QED
        BY <2>2, <3>3, <4>1, <4>2
    <3> QED
      BY <3>1, <3>2, <3>3
  <2>4. ball = [i \in 0 .. n + 1 |-> ball[i]]
    OBVIOUS
  <2> HIDE DEF ball
  <2>5. Passes(ball, list, n + 1, p)
    BY <2>3, <2>4, Zenon DEF Passes
  <2> QED
    BY <2>5
<1> HIDE DEF S
<1>3. \A n \in Nat : n \in S
  BY <1>1, <1>2, SetInduction
<1> QED
  BY <1>3 DEF S

LEMMA ResponsePasses ==
  ASSUME NEW p, Len(CellOf(p)) \in Nat
  PROVE  \E ball : /\ Passes(ball, CellOf(p), Len(CellOf(p)), p)
                   /\ CollisionResponse(p) = ball[Len(CellOf(p))]
<1> DEFINE list == CellOf(p)
           g == CHOOSE ball : Passes(ball, list, Len(list), p)
<1>1. \E ball : Passes(ball, list, Len(list), p)
  BY PassesExist
<1>2. Passes(g, list, Len(list), p)
  BY <1>1, Zenon
<1>3. CollisionResponse(p) = g[Len(list)]
  BY DEF CollisionResponse, Passes, Fresh
<1> QED
  BY <1>2, <1>3

(***************************************************************************)
(* All along the list: the ball is one, is unmoved as long as it has not   *)
(* been noticed, and goes through unwritten memory for a listed meshset    *)
(* alone.                                                                  *)
(***************************************************************************)
LEMMA AlongTheList ==
  ASSUME NEW ball, NEW list, NEW n \in Nat, NEW p, Passes(ball, list, n, p),
         \A i \in 1 .. n : list[i] \in Nat \ {0}
  PROVE  \A i \in 0 .. n :
           /\ IsBall(ball[i])
           /\ ~Noticed(ball[i]) => ball[i] = Fresh(p)
           /\ ball[i].wild => \E j \in 1 .. n : ReadsGarbage(meshsets[list[j]].model)
           /\ \A j \in 1 .. i : Hit(Fresh(p), list[j]) => Noticed(ball[i])
<1> DEFINE Garbage == \E j \in 1 .. n : ReadsGarbage(meshsets[list[j]].model)
           Good(i) == /\ IsBall(ball[i])
                      /\ ~Noticed(ball[i]) => ball[i] = Fresh(p)
                      /\ ball[i].wild => Garbage
                      /\ \A j \in 1 .. i : Hit(Fresh(p), list[j]) => Noticed(ball[i])
           S == {i \in Nat : i <= n => Good(i)}
<1>1. \A i \in 0 .. n : ball[i] = IF i = 0 THEN Fresh(p) ELSE TestMeshSet(ball[i - 1], list[i])
  BY Zenon DEF Passes
<1>2. 0 \in S
  <2>1. ball[0] = Fresh(p)
    <3>1. 0 \in 0 .. n
      OBVIOUS
    <3> QED
      BY <1>1, <3>1
  <2>2. IsBall(Fresh(p)) /\ Fresh(p).wild = FALSE
    <3>1. 0 \in Nat /\ FALSE \in BOOLEAN
      OBVIOUS
    <3> QED
      BY <3>1, Zenon DEF Fresh, IsBall
  <2>3. \A j \in 1 .. 0 : FALSE
    OBVIOUS
  <2> HIDE DEF Garbage
  <2>4. Good(0)
    BY <2>1, <2>2, <2>3
  <2> QED
    BY <2>4
<1>3. ASSUME NEW k \in Nat, k \in S PROVE k + 1 \in S
  <2> SUFFICES ASSUME k + 1 <= n PROVE Good(k + 1)
    OBVIOUS
  <2> DEFINE b == ball[k]
             m == list[k + 1]
  <2>1. Good(k)
    BY <1>3
  <2>2. k + 1 \in 1 .. n /\ k + 1 \in 0 .. n /\ k + 1 # 0 /\ (k + 1) - 1 = k
    OBVIOUS
  <2>3. ball[k + 1] = TestMeshSet(b, m)
    BY <1>1, <2>2
  <2>4. IsBall(b) /\ m \in Nat \ {0}
    BY <2>1, <2>2
  <2> HIDE DEF b, m
  <2>5. /\ IsBall(ball[k + 1])
        /\ Noticed(b) => Noticed(ball[k + 1])
        /\ ~Noticed(ball[k + 1]) => ball[k + 1] = b
        /\ ball[k + 1].wild => b.wild \/ ReadsGarbage(meshsets[m].model)
        /\ Hit(b, m) => Noticed(ball[k + 1])
    BY <2>3, <2>4, TestNotices
  <2>6. ~Noticed(ball[k + 1]) => ball[k + 1] = Fresh(p)
    BY <2>1, <2>5 DEF b
  <2>7. ball[k + 1].wild => Garbage
    BY <2>1, <2>2, <2>5 DEF b, m
  <2>8. ASSUME NEW j \in 1 .. k + 1, Hit(Fresh(p), list[j]) PROVE Noticed(ball[k + 1])
    <3>1. CASE Noticed(b)
      BY <2>5, <3>1
    <3>2. CASE ~Noticed(b)
      <4>1. b = Fresh(p)
        BY <2>1, <3>2 DEF b
      <4>2. j \in 1 .. k \/ j = k + 1
        OBVIOUS
      <4>3. ~(j \in 1 .. k)
        BY <2>1, <2>8, <3>2 DEF b
      <4>4. Hit(b, m)
        BY <2>8, <4>1, <4>2, <4>3 DEF m
      <4> QED
        BY <2>5, <4>4
    <3> QED
      BY <3>1, <3>2
  <2> HIDE DEF Garbage
  <2> QED
    BY <2>5, <2>6, <2>7, <2>8
<1> HIDE DEF S, Good
<1>4. \A i \in Nat : i \in S
  BY <1>2, <1>3, SetInduction
<1>5. \A i \in 0 .. n : Good(i)
  BY <1>4 DEF S
<1> QED
  BY <1>5 DEF Good

-------------------------------------------------------------------------------
(* The theorems.                                                           *)

(***************************************************************************)
(* A ball anywhere within the bounding sphere of a meshset in the hash is  *)
(* tested against it, for cells and models of any size                     *)
(* (add_meshset of lua/util/physics.lua).                                  *)
(***************************************************************************)
THEOREM HashReachesEveryBall == Spec => []AddedAreListed
<1>1. ListInv => AddedAreListed
  BY DEF ListInv
<1> QED
  BY <1>1, ListInit, ListStep, PTL DEF Spec

\* The list of a ball's cell: meshsets that were added, by their numbers.
LEMMA CellList ==
  ASSUME WorldInv, NEW p \in BallPositions
  PROVE  /\ Len(CellOf(p)) \in Nat
         /\ \A i \in 1 .. Len(CellOf(p)) : CellOf(p)[i] \in added /\ CellOf(p)[i] \in Nat \ {0}
<1>1. world_to_grid(p) \in Cells
  BY BallsInCells
<1>2. hash[world_to_grid(p)] \in Seq(Nat)
  BY <1>1 DEF WorldInv, ListInv
<1>3. meshsets \in Seq(MeshSets) /\ added \subseteq DOMAIN meshsets
  BY DEF WorldInv, ListInv
<1>4. \A m \in added : m \in Nat \ {0}
  BY <1>3, LenProperties
<1>5. \A i \in 1 .. Len(CellOf(p)) : CellOf(p)[i] \in added
  BY <1>1 DEF WorldInv, OnlyAddedInv, CellOf
<1> QED
  BY <1>2, <1>4, <1>5 DEF CellOf

\* What comes of testing one ball.
LEMMA ResponseIs ==
  ASSUME WorldInv, NEW p \in BallPositions
  PROVE  /\ CollisionResponse(p).wild \in BOOLEAN
         /\ CollisionResponse(p).wild => \E m \in added : ReadsGarbage(meshsets[m].model)
         /\ \A m \in added : /\ Listed(m, world_to_grid(p))
                             /\ Hit(Fresh(p), m)
                             => Noticed(CollisionResponse(p))
<1> DEFINE list == CellOf(p)
           n == Len(list)
<1>1. n \in Nat /\ \A i \in 1 .. n : list[i] \in added /\ list[i] \in Nat \ {0}
  BY CellList
<1>2. PICK ball : Passes(ball, list, n, p) /\ CollisionResponse(p) = ball[n]
  BY <1>1, ResponsePasses
<1>3. \A m : Listed(m, world_to_grid(p)) => \E j \in 1 .. n : list[j] = m
  BY DEF Listed, CellOf
<1> HIDE DEF n, list
<1>4. n \in 0 .. n
  BY <1>1
<1>5. /\ IsBall(ball[n])
      /\ ball[n].wild => \E j \in 1 .. n : ReadsGarbage(meshsets[list[j]].model)
      /\ \A j \in 1 .. n : Hit(Fresh(p), list[j]) => Noticed(ball[n])
  BY <1>1, <1>2, <1>4, AlongTheList
<1>6. ball[n].wild \in BOOLEAN
  BY <1>5 DEF IsBall
<1> QED
  BY <1>1, <1>2, <1>3, <1>5, <1>6

(***************************************************************************)
(* A ball inside of a convex mesh is noticed, wherever it is in a list of  *)
(* any length and whatever the meshsets before it did (ball_collisions of  *)
(* lua/util/physics.lua, separating_axis_sphere of lua_physics.c).         *)
(***************************************************************************)
THEOREM NoBallSlipsInside == Spec => []NoBallInsideUnnoticed
<1>1. WorldInv => NoBallInsideUnnoticed
  <2> SUFFICES ASSUME WorldInv, NEW m \in added, NEW p \in BallPositions, InPlace(m),
                      Centred(models[meshsets[m].model]),
                      ConvexFirst(models[meshsets[m].model]),
                      InsideConvexMesh(m, p)
               PROVE  CollisionResponse(p).active_object # 0 \/ CollisionResponse(p).wild
    BY Zenon DEF NoBallInsideUnnoticed
  <2>1. /\ DistanceSqr(p, meshsets[m].position) < BoundingRadiusSqr(models[meshsets[m].model])
        /\ ~EarlyReject(meshsets[m].model, p)
        /\ ReadsGarbage(meshsets[m].model) \/ DOMAIN ResultsAt(m, p) # {}
    BY InsideIsHit
  <2>2. Listed(m, world_to_grid(p))
    BY <2>1 DEF WorldInv, ListInv, AddedAreListed
  <2>3. Fresh(p).position = p
    BY DEF Fresh
  <2>4. Hit(Fresh(p), m)
    BY <2>1, <2>3 DEF Hit
  <2> QED
    BY <2>2, <2>4, ResponseIs DEF Noticed
<1> QED
  BY <1>1, WorldInit, WorldStep, PTL DEF Spec

(***************************************************************************)
(* Collision tests go through memory that was never written for no other   *)
(* models than load_cube_model's and those with a mesh that is taken for   *)
(* convex after one that is not (mesh_load_physics_data of lua_physics.c). *)
(***************************************************************************)
THEOREM GarbageIsReadForThese == Spec => []OnlyTheseReadGarbage
<1>1. Init => ~wild
  BY DEF Init
<1>2. ASSUME WorldInv, OnlyTheseReadGarbage, [Next]_vars PROVE OnlyTheseReadGarbage'
  <2>1. CASE UNCHANGED vars
    BY <1>2, <2>1 DEF vars, modelSet, OnlyTheseReadGarbage
  <2>2. ASSUME NEW p \in BallPositions, ball_collisions(p) PROVE OnlyTheseReadGarbage'
    <3>1. wild' = CollisionResponse(p).wild /\ UNCHANGED <<models, meshsets, added>>
      BY <2>2 DEF ball_collisions, modelSet
    <3>2. wild' => \E m \in added : \/ models[meshsets[m].model] = <<Cube>>
                                    \/ ~ConvexFirst(models[meshsets[m].model])
      BY <1>2, <3>1, ResponseIs, GarbageOnly
    <3> QED
      BY <3>1, <3>2 DEF OnlyTheseReadGarbage
  <2>3. CASE Next /\ wild' = wild
    BY <2>3 DEF Next, OnlyTheseReadGarbage
  <2>4. Next => wild' = wild \/ \E p \in BallPositions : ball_collisions(p)
    BY DEF Next, LoadModel, NewMeshSet, AddMeshSet, TurnModel, objects
  <2> QED
    BY <1>2, <2>1, <2>2, <2>3, <2>4
<1>3. Init => OnlyTheseReadGarbage
  BY <1>1 DEF OnlyTheseReadGarbage
<1> QED
  BY <1>2, <1>3, WorldInit, WorldStep, PTL DEF Spec

===============================================================================
