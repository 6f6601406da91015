---------------------------- MODULE MCMessageQueue ----------------------------
(***************************************************************************)
(* MessageQueue with the websocket thread and one gamepad thread, which    *)
(* send a few events each.                                                 *)
(***************************************************************************)
EXTENDS MessageQueue

CONSTANTS ws, js, c1, c2, c3, c4

MCProducers == {ws, js}
MCCells == {c1, c2, c3, c4}
===============================================================================
