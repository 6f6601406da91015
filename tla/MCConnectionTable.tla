--------------------------- MODULE MCConnectionTable ---------------------------
(***************************************************************************)
(* ConnectionTable with the websocket thread, which has two clients,       *)
(* against a gamepad thread; the table is too small for all of them.       *)
(***************************************************************************)
EXTENDS ConnectionTable, TLC

CONSTANTS ws, js, w1, w2, j1

MCThreads == {ws, js}
MCPlayers == {w1, w2, j1}
MCOwner == [x \in MCPlayers |-> IF x = j1 THEN js ELSE ws]
ClientSymmetry == Permutations({w1, w2})
===============================================================================
