------------------------------ MODULE MCTerminal -------------------------------
(***************************************************************************)
(* Terminal with a buffer of five bytes and two characters.                *)
(***************************************************************************)
EXTENDS Terminal

CONSTANTS a, b

MCChars == {a, b}
===============================================================================
