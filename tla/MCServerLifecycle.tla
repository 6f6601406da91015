--------------------------- MODULE MCServerLifecycle ---------------------------
(***************************************************************************)
(* ServerLifecycle with the two gamepad threads that main.c starts.        *)
(***************************************************************************)
EXTENDS ServerLifecycle

CONSTANTS js0, js1

MCPads == {js0, js1}
===============================================================================
