---------------------------- MODULE MCGamepadServer ----------------------------
(***************************************************************************)
(* GamepadServer with the two threads that main.c starts and devices that  *)
(* send one axis, button A and another button.                             *)
(***************************************************************************)
EXTENDS GamepadServer

CONSTANTS t0, t1

MCThreads == {t0, t1}
MCAxisValues == {0, 1}
\* On open, the device tells that button A is pressed, or nothing.
MCEvents ==
  {e \in JsEvent : e.number = 0 /\ (e.init => e.type = "button" /\ e.value = 1)}
    \cup [type : {"button"}, number : {1}, value : {0}, init : {FALSE}]
===============================================================================
