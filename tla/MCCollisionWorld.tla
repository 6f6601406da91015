--------------------------- MODULE MCCollisionWorld ----------------------------
(***************************************************************************)
(* CollisionWorld with cells of three units, models that reach into one to *)
(* four of them, and room for two models.                                  *)
(***************************************************************************)
EXTENDS CollisionWorld, SequencesExt

Box(x, y, x2, y2) ==
  [vertices |-> <<<<x, y>>, <<x2, y>>, <<x2, y2>>, <<x, y2>>>>,
   planes |-> [n \in Sides |-> CASE n = <<1, 0>> -> x2 [] n = <<-1, 0>> -> -x
                                 [] n = <<0, 1>> -> y2 [] n = <<0, -1>> -> -y]]

\* A box without its upper right corner, which begins at xm and ym.  With this
\* order of the vertices it is taken for convex, in reverse it is not.
Ell(x, y, xm, ym, x2, y2) ==
  [Box(x, y, xm, ym) EXCEPT !.vertices =
     <<<<x, y>>, <<xm, ym>>, <<xm, y2>>, <<x, y2>>, <<x2, y>>, <<x2, ym>>>>]

Reversed(mesh) == [mesh EXCEPT !.vertices = Reverse(@)]

MCAxes == 1 .. 2
MCFiles ==
  { <<Box(-2, -1, 0, 1), Reversed(Ell(0, -1, 1, 0, 2, 1))>>,
    <<Reversed(Ell(-2, -1, -1, 0, 0, 1)), Box(0, -1, 2, 1)>>,
    <<Ell(-2, -1, -1, 0, 0, 1), Box(0, -1, 2, 1)>> }
MCCube == Box(-1, -1, 1, 1)
MCPositions == {<<0, 0>>, <<2, -1>>}
MCCoordinates == -3 .. 3
MCGridRange == -3 .. 2
===============================================================================
