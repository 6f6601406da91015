-------------------------------- MODULE MCFrame --------------------------------
(***************************************************************************)
(* Frame with a step of three units of time, updates that take up to two   *)
(* and an emitter of four particles.                                       *)
(***************************************************************************)
EXTENDS Frame
===============================================================================
