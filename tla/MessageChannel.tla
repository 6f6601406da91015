---------------------------- MODULE MessageChannel ----------------------------
(***************************************************************************)
(* What the event queue promises to the Lua script, whatever linked lists, *)
(* locks and buffers it is built from: threads send numbered events, and   *)
(* the script now and then takes, in one indivisible step, the oldest      *)
(* events that are pending (src/lua/tests/README.md:88, "server.pop() -        *)
(* returns a MessageList of events since the last time this was called").  *)
(* MessageQueue is shown to implement this module.                         *)
(***************************************************************************)
EXTENDS Integers, Sequences

CONSTANTS
  Producers,   \* the threads that call enq_msg
  MaxSent,     \* bound on the number of events of one producer
  Capacity     \* the most events that one call can return

VARIABLES
  sent,        \* sent[p]: how many events p has sent
  pending,     \* the events that were sent and not taken yet, oldest first
  batch        \* the events returned by the last call

chanVars == <<sent, pending, batch>>

\* An event is its sender and its place among the events of that sender.
Event == Producers \X (1..MaxSent)

\* How many events a call takes from a queue of length n.
TakeCount(n) == IF n < Capacity THEN n ELSE Capacity

Init ==
  /\ sent = [p \in Producers |-> 0]
  /\ pending = <<>>
  /\ batch = <<>>

Send(p) ==
  /\ sent[p] < MaxSent
  /\ sent' = [sent EXCEPT ![p] = @ + 1]
  /\ pending' = Append(pending, <<p, sent[p] + 1>>)
  /\ UNCHANGED batch

Take ==
  /\ pending # <<>>
  /\ batch' = SubSeq(pending, 1, TakeCount(Len(pending)))
  /\ pending' = SubSeq(pending, TakeCount(Len(pending)) + 1, Len(pending))
  /\ UNCHANGED sent

Next == Take \/ \E p \in Producers : Send(p)

Spec == Init /\ [][Next]_chanVars
===============================================================================
