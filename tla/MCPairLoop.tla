------------------------------ MODULE MCPairLoop -------------------------------
(***************************************************************************)
(* PairLoop with two threads and three process ids.                        *)
(***************************************************************************)
EXTENDS PairLoop
===============================================================================
