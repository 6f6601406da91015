----------------------------- MODULE MCSmoothServo -----------------------------
(***************************************************************************)
(* SmoothServo with seven widths, and up to nine updates for a whole move. *)
(***************************************************************************)
EXTENDS SmoothServo
===============================================================================
