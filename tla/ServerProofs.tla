----------------------------- MODULE ServerProofs -----------------------------
(***************************************************************************)
(* Proofs about the server that scripts see: ConnectionTable, its table of *)
(* players, for every number of threads, players and slots (what survives  *)
(* the missing lock, and what insert_id and remove_id guarantee as long as *)
(* their calls do not overlap), and ServerLifecycle, its threads, for      *)
(* every number of gamepads (what the start handshake and the order of     *)
(* main's cleanup guarantee).  The two share no variable, and each has its *)
(* own specification.                                                      *)
(***************************************************************************)
EXTENDS ConnectionTable, ServerLifecycle, FiniteSetTheorems, TLAPS

-------------------------------------------------------------------------------
(* What holds under every interleaving.                                    *)

\* The arguments and locals of each thread's call.
CallInv == \A t \in Threads :
  /\ pc[t] = "idle" => id[t] = NULL /\ at[t] = 0 /\ index[t] = -1 /\ local[t] = 0
  /\ pc[t] # "idle" => id[t] \in Players /\ Owner[id[t]] = t
  /\ pc[t] \in Inserting => id[t] \notin connected
  /\ pc[t] \in Removing => id[t] \in connected
  /\ pc[t] \in {"claim", "erase"} => at[t] \in Slots

\* Only its owner's thread puts a player into the table or takes it out: where
\* the player can be, given where that thread is.
PlaceInv == \A t \in Threads : \A s \in Slots : connection_ids[s] = id[t] =>
  /\ pc[t] \notin {"test", "reset", "clear", "scan", "claim", "load", "decrement"}
  /\ pc[t] = "find" => s >= at[t]
  /\ pc[t] = "erase" => s = at[t]

TableInv == TypeOK /\ CallInv /\ NoGhosts /\ OneSlotEach /\ PlaceInv

LEMMA TableInit == Init => TableInv
<1> SUFFICES ASSUME Init PROVE TableInv
  OBVIOUS
<1> USE TableAssumption DEF Init
<1>1. TypeOK
  <2>1. connection_ids \in [Slots -> Players \cup {NULL}] /\ index \in [Threads -> Slots \cup {-1}]
    OBVIOUS
  <2>2. pc \in [Threads -> {"idle"} \cup Inserting \cup Removing]
    OBVIOUS
  <2>3. id \in [Threads -> Players \cup {NULL}] /\ at \in [Threads -> 0..TableSize]
        /\ local \in [Threads -> Int] /\ idOf \in [Players -> Slots \cup {-1}]
    OBVIOUS
  <2>4. alone \in [Threads -> BOOLEAN] /\ overlapped \in BOOLEAN
    OBVIOUS
  <2> QED
    BY <2>1, <2>2, <2>3, <2>4 DEF TypeOK
<1>0. CallInv
  BY DEF CallInv, Inserting, Removing
<1>2. NoGhosts /\ OneSlotEach
  BY DEF NoGhosts, OneSlotEach, Occupied
<1>3. PlaceInv
  BY DEF PlaceInv
<1> QED
  BY <1>0, <1>1, <1>2, <1>3 DEF TableInv

LEMMA InsertCallTable ==
  ASSUME TableInv, NEW t \in Threads, InsertCall(t)
  PROVE  TableInv'
<1> USE TableAssumption DEF TableInv, InsertCall, Call, Goto, Return, NextSlot, shared, locals
<1>1. TypeOK'
  <2>1. pc' \in [Threads -> {"idle"} \cup Inserting \cup Removing]
    BY DEF TypeOK, Inserting, Removing
  <2>2. id' \in [Threads -> Players \cup {NULL}] /\ at' \in [Threads -> 0..TableSize]
    BY DEF TypeOK
  <2>3. alone' \in [Threads -> BOOLEAN] /\ overlapped' \in BOOLEAN
    BY DEF TypeOK, OthersIdle
  <2> QED
    BY <2>1, <2>2, <2>3 DEF TypeOK
<1>2. CallInv'
  BY DEF CallInv, TypeOK, Slots, Inserting, Removing
<1>3. NoGhosts'
  BY DEF NoGhosts, Occupied, CallInv, PlaceInv, TypeOK, Inserting, Removing
<1>4. OneSlotEach'
  BY DEF OneSlotEach, Occupied, PlaceInv, CallInv, TypeOK, Inserting, Removing
<1>5. PlaceInv'
  BY DEF PlaceInv, CallInv, NoGhosts, Occupied, OneSlotEach, TypeOK, Inserting, Removing
<1> QED
  BY <1>1, <1>2, <1>3, <1>4, <1>5

LEMMA TestFirstTable ==
  ASSUME TableInv, NEW t \in Threads, TestFirst(t)
  PROVE  TableInv'
<1> USE TableAssumption DEF TableInv, TestFirst, Call, Goto, Return, NextSlot, shared, locals
<1>1. TypeOK'
  BY DEF TypeOK, Slots, Inserting, Removing
<1>2. CallInv'
  BY DEF CallInv, TypeOK, Slots, Inserting, Removing
<1>3. NoGhosts'
  BY DEF NoGhosts, Occupied, CallInv, PlaceInv, TypeOK, Inserting, Removing
<1>4. OneSlotEach'
  BY DEF OneSlotEach, Occupied, PlaceInv, CallInv, TypeOK, Inserting, Removing
<1>5. PlaceInv'
  BY DEF PlaceInv, CallInv, NoGhosts, Occupied, OneSlotEach, TypeOK, Inserting, Removing
<1> QED
  BY <1>1, <1>2, <1>3, <1>4, <1>5

LEMMA ResetFirstTable ==
  ASSUME TableInv, NEW t \in Threads, ResetFirst(t)
  PROVE  TableInv'
<1> USE TableAssumption DEF TableInv, ResetFirst, Call, Goto, Return, NextSlot, shared, locals
<1>1. TypeOK'
  BY DEF TypeOK, Slots, Inserting, Removing
<1>2. CallInv'
  BY DEF CallInv, TypeOK, Slots, Inserting, Removing
<1>3. NoGhosts'
  BY DEF NoGhosts, Occupied, CallInv, PlaceInv, TypeOK, Inserting, Removing
<1>4. OneSlotEach'
  BY DEF OneSlotEach, Occupied, PlaceInv, CallInv, TypeOK, Inserting, Removing
<1>5. PlaceInv'
  BY DEF PlaceInv, CallInv, NoGhosts, Occupied, OneSlotEach, TypeOK, Inserting, Removing
<1> QED
  BY <1>1, <1>2, <1>3, <1>4, <1>5

LEMMA ClearSlotTable ==
  ASSUME TableInv, NEW t \in Threads, ClearSlot(t)
  PROVE  TableInv'
<1> USE TableAssumption DEF TableInv, ClearSlot, Call, Goto, Return, NextSlot, shared, locals
<1>1. TypeOK'
  <2>1. pc' \in [Threads -> {"idle"} \cup Inserting \cup Removing]
    BY DEF TypeOK, Inserting, Removing
  <2>2. connection_ids' \in [Slots -> Players \cup {NULL}] /\ at' \in [Threads -> 0..TableSize]
    BY DEF TypeOK, OthersIdle
  <2> QED
    BY <2>1, <2>2 DEF TypeOK
<1>2. CallInv'
  <2>1. CASE at[t] < TableSize
    BY <2>1 DEF CallInv, TypeOK, Inserting, Removing
  <2>2. CASE at[t] = TableSize
    BY <2>2 DEF CallInv, TypeOK, Inserting, Removing
  <2> QED
    BY <2>1, <2>2
<1>3. NoGhosts'
  BY DEF NoGhosts, Occupied, CallInv, PlaceInv, TypeOK, Inserting, Removing
<1>4. OneSlotEach'
  BY DEF OneSlotEach, Occupied, PlaceInv, CallInv, TypeOK, Inserting, Removing
<1>5. PlaceInv'
  BY DEF PlaceInv, CallInv, NoGhosts, Occupied, OneSlotEach, TypeOK, Inserting, Removing
<1> QED
  BY <1>1, <1>2, <1>3, <1>4, <1>5

LEMMA ScanSlotTable ==
  ASSUME TableInv, NEW t \in Threads, ScanSlot(t)
  PROVE  TableInv'
<1> USE TableAssumption DEF TableInv, ScanSlot, Call, Goto, Return, NextSlot, shared, locals
<1>1. TypeOK'
  <2>1. pc' \in [Threads -> {"idle"} \cup Inserting \cup Removing]
    BY DEF TypeOK, Inserting, Removing
  <2>2. at' \in [Threads -> 0..TableSize]
    BY DEF TypeOK, OthersIdle
  <2> QED
    BY <2>1, <2>2 DEF TypeOK
<1>2. CallInv'
  BY DEF CallInv, TypeOK, Slots, Inserting, Removing
<1>3. NoGhosts'
  BY DEF NoGhosts, Occupied, CallInv, PlaceInv, TypeOK, Inserting, Removing
<1>4. OneSlotEach'
  BY DEF OneSlotEach, Occupied, PlaceInv, CallInv, TypeOK, Inserting, Removing
<1>5. PlaceInv'
  BY DEF PlaceInv, CallInv, NoGhosts, Occupied, OneSlotEach, TypeOK, Inserting, Removing
<1> QED
  BY <1>1, <1>2, <1>3, <1>4, <1>5

LEMMA ClaimSlotTable ==
  ASSUME TableInv, NEW t \in Threads, ClaimSlot(t)
  PROVE  TableInv'
<1> USE TableAssumption DEF TableInv, ClaimSlot, Call, Goto, Return, NextSlot, shared, locals
<1>1. TypeOK'
  <2>1. pc' \in [Threads -> {"idle"} \cup Inserting \cup Removing]
    BY DEF TypeOK, Inserting, Removing
  <2>2. connection_ids' \in [Slots -> Players \cup {NULL}] /\ at' \in [Threads -> 0..TableSize]
        /\ index' \in [Threads -> Slots \cup {-1}]
    BY DEF TypeOK, CallInv
  <2> QED
    BY <2>1, <2>2 DEF TypeOK
<1>2. CallInv'
  BY DEF CallInv, TypeOK, Slots, Inserting, Removing
<1>3. NoGhosts'
  BY DEF NoGhosts, Occupied, CallInv, PlaceInv, TypeOK, Inserting, Removing
<1>4. OneSlotEach'
  BY DEF OneSlotEach, Occupied, PlaceInv, CallInv, TypeOK, Inserting, Removing
<1>5. PlaceInv'
  BY DEF PlaceInv, CallInv, NoGhosts, Occupied, OneSlotEach, TypeOK, Inserting, Removing
<1> QED
  BY <1>1, <1>2, <1>3, <1>4, <1>5

LEMMA CountSlotTable ==
  ASSUME TableInv, NEW t \in Threads, CountSlot(t)
  PROVE  TableInv'
<1> USE TableAssumption DEF TableInv, CountSlot, Call, Goto, Return, NextSlot, shared, locals
<1>1. TypeOK'
  <2>1. pc' \in [Threads -> {"idle"} \cup Inserting \cup Removing]
    BY DEF TypeOK, Inserting, Removing
  <2>2. at' \in [Threads -> 0..TableSize] /\ local' \in [Threads -> Int]
    BY DEF TypeOK, OthersIdle
  <2> QED
    BY <2>1, <2>2 DEF TypeOK
<1>2. CallInv'
  <2>1. CASE at[t] < TableSize
    BY <2>1 DEF CallInv, TypeOK, Inserting, Removing
  <2>2. CASE at[t] = TableSize
    BY <2>2 DEF CallInv, TypeOK, Inserting, Removing
  <2> QED
    BY <2>1, <2>2
<1>3. NoGhosts'
  BY DEF NoGhosts, Occupied, CallInv, PlaceInv, TypeOK, Inserting, Removing
<1>4. OneSlotEach'
  BY DEF OneSlotEach, Occupied, PlaceInv, CallInv, TypeOK, Inserting, Removing
<1>5. PlaceInv'
  BY DEF PlaceInv, CallInv, NoGhosts, Occupied, OneSlotEach, TypeOK, Inserting, Removing
<1> QED
  BY <1>1, <1>2, <1>3, <1>4, <1>5

LEMMA InsertReturnTable ==
  ASSUME TableInv, NEW t \in Threads, InsertReturn(t)
  PROVE  TableInv'
<1> USE TableAssumption DEF TableInv, InsertReturn, Call, Goto, Return, NextSlot, shared, locals
<1>1. TypeOK'
  <2>1. pc' \in [Threads -> {"idle"} \cup Inserting \cup Removing]
    BY DEF TypeOK, Inserting, Removing
  <2>2. id' \in [Threads -> Players \cup {NULL}] /\ at' \in [Threads -> 0..TableSize]
        /\ index' \in [Threads -> Slots \cup {-1}] /\ local' \in [Threads -> Int]
        /\ alone' \in [Threads -> BOOLEAN]
    BY DEF TypeOK, OthersIdle
  <2>3. connected' \subseteq Players /\ idOf' \in [Players -> Slots \cup {-1}]
    BY DEF TypeOK, CallInv, Inserting, Removing
  <2>4. num_connections' \in Int
    BY DEF TypeOK
  <2> QED
    BY <2>1, <2>2, <2>3, <2>4 DEF TypeOK
<1>2. CallInv'
  BY DEF CallInv, TypeOK, Slots, Inserting, Removing
<1>3. NoGhosts'
  BY DEF NoGhosts, Occupied, CallInv, PlaceInv, TypeOK, Inserting, Removing
<1>4. OneSlotEach'
  BY DEF OneSlotEach, Occupied, PlaceInv, CallInv, TypeOK, Inserting, Removing
<1>5. PlaceInv'
  BY DEF PlaceInv, CallInv, NoGhosts, Occupied, OneSlotEach, TypeOK, Inserting, Removing
<1> QED
  BY <1>1, <1>2, <1>3, <1>4, <1>5

LEMMA RemoveCallTable ==
  ASSUME TableInv, NEW t \in Threads, RemoveCall(t)
  PROVE  TableInv'
<1> USE TableAssumption DEF TableInv, RemoveCall, Call, Goto, Return, NextSlot, shared, locals
<1>1. TypeOK'
  <2>1. pc' \in [Threads -> {"idle"} \cup Inserting \cup Removing]
    BY DEF TypeOK, Inserting, Removing
  <2>2. id' \in [Threads -> Players \cup {NULL}] /\ at' \in [Threads -> 0..TableSize]
    BY DEF TypeOK
  <2>3. alone' \in [Threads -> BOOLEAN] /\ overlapped' \in BOOLEAN
    BY DEF TypeOK, OthersIdle
  <2> QED
    BY <2>1, <2>2, <2>3 DEF TypeOK
<1>2. CallInv'
  BY DEF CallInv, TypeOK, Slots, Inserting, Removing
<1>3. NoGhosts'
  BY DEF NoGhosts, Occupied, CallInv, PlaceInv, TypeOK, Inserting, Removing
<1>4. OneSlotEach'
  BY DEF OneSlotEach, Occupied, PlaceInv, CallInv, TypeOK, Inserting, Removing
<1>5. PlaceInv'
  BY DEF Slots, PlaceInv, CallInv, NoGhosts, Occupied, OneSlotEach, TypeOK, Inserting, Removing
<1> QED
  BY <1>1, <1>2, <1>3, <1>4, <1>5

LEMMA FindSlotTable ==
  ASSUME TableInv, NEW t \in Threads, FindSlot(t)
  PROVE  TableInv'
<1> USE TableAssumption DEF TableInv, FindSlot, Call, Goto, Return, NextSlot, shared, locals
<1>1. TypeOK'
  <2>1. pc' \in [Threads -> {"idle"} \cup Inserting \cup Removing]
    BY DEF TypeOK, Inserting, Removing
  <2>2. at' \in [Threads -> 0..TableSize]
    BY DEF TypeOK, OthersIdle
  <2> QED
    BY <2>1, <2>2 DEF TypeOK
<1>2. CallInv'
  BY DEF CallInv, TypeOK, Slots, Inserting, Removing
<1>3. NoGhosts'
  BY DEF NoGhosts, Occupied, CallInv, PlaceInv, TypeOK, Inserting, Removing
<1>4. OneSlotEach'
  BY DEF OneSlotEach, Occupied, PlaceInv, CallInv, TypeOK, Inserting, Removing
<1>5. PlaceInv'
  <2>1. pc[t] = "find" /\ at[t] \in Slots
    BY DEF Slots, TypeOK
  <2>2. CASE connection_ids[at[t]] = id[t] /\ Goto(t, "erase") /\ UNCHANGED at
    <3>1. \A s \in Slots : connection_ids[s] = id[t] => s = at[t]
      BY <2>1, <2>2 DEF OneSlotEach, Occupied, CallInv
    <3> QED
      BY <2>2, <3>1 DEF PlaceInv, TypeOK
  <2>3. CASE connection_ids[at[t]] # id[t] /\ NextSlot(t) /\ UNCHANGED pc
    <3>1. \A s \in Slots : connection_ids[s] = id[t] => s >= at[t] + 1
      <4>1. \A s \in Slots : connection_ids[s] = id[t] => s >= at[t] /\ s # at[t]
        BY <2>1, <2>3 DEF PlaceInv
      <4> QED
        BY <4>1, <2>1 DEF Slots
    <3> QED
      BY <2>1, <2>3, <3>1 DEF PlaceInv, TypeOK
  <2> QED
    BY <2>2, <2>3
<1> QED
  BY <1>1, <1>2, <1>3, <1>4, <1>5

LEMMA FindNothingTable ==
  ASSUME TableInv, NEW t \in Threads, FindNothing(t)
  PROVE  TableInv'
<1> USE TableAssumption DEF TableInv, FindNothing, Call, Goto, Return, NextSlot, shared, locals
<1>1. TypeOK'
  <2>1. pc' \in [Threads -> {"idle"} \cup Inserting \cup Removing]
    BY DEF TypeOK, Inserting, Removing
  <2>2. id' \in [Threads -> Players \cup {NULL}] /\ at' \in [Threads -> 0..TableSize]
        /\ index' \in [Threads -> Slots \cup {-1}] /\ local' \in [Threads -> Int]
        /\ alone' \in [Threads -> BOOLEAN]
    BY DEF TypeOK, OthersIdle
  <2>3. connected' \subseteq Players /\ idOf' \in [Players -> Slots \cup {-1}]
    BY DEF TypeOK, CallInv, Inserting, Removing
  <2>4. num_connections' \in Int
    BY DEF TypeOK
  <2> QED
    BY <2>1, <2>2, <2>3, <2>4 DEF TypeOK
<1>2. CallInv'
  BY DEF CallInv, TypeOK, Slots, Inserting, Removing
<1>3. NoGhosts'
  BY DEF Slots, NoGhosts, Occupied, CallInv, PlaceInv, TypeOK, Inserting, Removing
<1>4. OneSlotEach'
  BY DEF OneSlotEach, Occupied, PlaceInv, CallInv, TypeOK, Inserting, Removing
<1>5. PlaceInv'
  BY DEF PlaceInv, CallInv, NoGhosts, Occupied, OneSlotEach, TypeOK, Inserting, Removing
<1> QED
  BY <1>1, <1>2, <1>3, <1>4, <1>5

LEMMA EraseSlotTable ==
  ASSUME TableInv, NEW t \in Threads, EraseSlot(t)
  PROVE  TableInv'
<1> USE TableAssumption DEF TableInv, EraseSlot, Call, Goto, Return, NextSlot, shared, locals
<1>1. TypeOK'
  BY DEF TypeOK, Slots, Inserting, Removing
<1>2. CallInv'
  BY DEF CallInv, TypeOK, Slots, Inserting, Removing
<1>3. NoGhosts'
  BY DEF NoGhosts, Occupied, CallInv, PlaceInv, TypeOK, Inserting, Removing
<1>4. OneSlotEach'
  BY DEF OneSlotEach, Occupied, PlaceInv, CallInv, TypeOK, Inserting, Removing
<1>5. PlaceInv'
  BY DEF PlaceInv, CallInv, NoGhosts, Occupied, OneSlotEach, TypeOK, Inserting, Removing
<1> QED
  BY <1>1, <1>2, <1>3, <1>4, <1>5

LEMMA LoadCountTable ==
  ASSUME TableInv, NEW t \in Threads, LoadCount(t)
  PROVE  TableInv'
<1> USE TableAssumption DEF TableInv, LoadCount, Call, Goto, Return, NextSlot, shared, locals
<1>1. TypeOK'
  BY DEF TypeOK, Slots, Inserting, Removing
<1>2. CallInv'
  BY DEF CallInv, TypeOK, Slots, Inserting, Removing
<1>3. NoGhosts'
  BY DEF NoGhosts, Occupied, CallInv, PlaceInv, TypeOK, Inserting, Removing
<1>4. OneSlotEach'
  BY DEF OneSlotEach, Occupied, PlaceInv, CallInv, TypeOK, Inserting, Removing
<1>5. PlaceInv'
  BY DEF PlaceInv, CallInv, NoGhosts, Occupied, OneSlotEach, TypeOK, Inserting, Removing
<1> QED
  BY <1>1, <1>2, <1>3, <1>4, <1>5

LEMMA RemoveReturnTable ==
  ASSUME TableInv, NEW t \in Threads, RemoveReturn(t)
  PROVE  TableInv'
<1> USE TableAssumption DEF TableInv, RemoveReturn, Call, Goto, Return, NextSlot, shared, locals
<1>1. TypeOK'
  <2>1. pc' \in [Threads -> {"idle"} \cup Inserting \cup Removing]
    BY DEF TypeOK, Inserting, Removing
  <2>2. id' \in [Threads -> Players \cup {NULL}] /\ at' \in [Threads -> 0..TableSize]
        /\ index' \in [Threads -> Slots \cup {-1}] /\ local' \in [Threads -> Int]
        /\ alone' \in [Threads -> BOOLEAN]
    BY DEF TypeOK, OthersIdle
  <2>3. connected' \subseteq Players /\ idOf' \in [Players -> Slots \cup {-1}]
    BY DEF TypeOK, CallInv, Inserting, Removing
  <2>4. num_connections' \in Int
    BY DEF TypeOK
  <2> QED
    BY <2>1, <2>2, <2>3, <2>4 DEF TypeOK
<1>2. CallInv'
  BY DEF CallInv, TypeOK, Slots, Inserting, Removing
<1>3. NoGhosts'
  BY DEF NoGhosts, Occupied, CallInv, PlaceInv, TypeOK, Inserting, Removing
<1>4. OneSlotEach'
  BY DEF OneSlotEach, Occupied, PlaceInv, CallInv, TypeOK, Inserting, Removing
<1>5. PlaceInv'
  BY DEF PlaceInv, CallInv, NoGhosts, Occupied, OneSlotEach, TypeOK, Inserting, Removing
<1> QED
  BY <1>1, <1>2, <1>3, <1>4, <1>5

LEMMA TableStep == TableInv /\ [Next]_vars => TableInv'
<1> SUFFICES ASSUME TableInv, [Next]_vars PROVE TableInv'
  OBVIOUS
<1>1. ASSUME NEW t \in Threads, insert_id(t) PROVE TableInv'
  BY <1>1, InsertCallTable, TestFirstTable, ResetFirstTable, ClearSlotTable, ScanSlotTable,
     ClaimSlotTable, CountSlotTable, InsertReturnTable DEF insert_id
<1>2. ASSUME NEW t \in Threads, remove_id(t) PROVE TableInv'
  BY <1>2, RemoveCallTable, FindSlotTable, FindNothingTable, EraseSlotTable, LoadCountTable,
     RemoveReturnTable DEF remove_id
<1>3. CASE UNCHANGED vars
  <2> USE <1>3 DEF TableInv, vars, shared, locals
  <2>1. TypeOK' /\ CallInv'
    BY DEF TypeOK, CallInv
  <2>2. NoGhosts' /\ OneSlotEach' /\ PlaceInv'
    BY DEF NoGhosts, OneSlotEach, Occupied, PlaceInv
  <2> QED
    BY <2>1, <2>2
<1> QED
  BY <1>1, <1>2, <1>3 DEF Next

(* In every reachable state, races included, only a player's own thread    *)
(* has put it into the table or can take it out, and its slot is where     *)
(* that thread's position says it can be.                                  *)
THEOREM TableInvariant == Spec => []TableInv
<1> QED
  BY TableInit, TableStep, PTL DEF Spec

(* Whatever the threads do, every variable of the table keeps its type:    *)
(* ids are slots or -1, and no access is outside the table.                *)
THEOREM TableTyped == Spec => []TypeOK
BY TableInvariant, PTL DEF TableInv

(* However the unlocked calls interleave, a player whose remove_id has     *)
(* returned is in no slot, so the table never fills up with the departed.  *)
THEOREM NoGhostsEver == Spec => []NoGhosts
BY TableInvariant, PTL DEF TableInv

(* However the unlocked calls interleave, no player is in two slots.       *)
THEOREM NoPlayerTwice == Spec => []OneSlotEach
BY TableInvariant, PTL DEF TableInv

-------------------------------------------------------------------------------
(* What holds for a call that no other call has overlapped.                *)

\* A thread that is alone in its call is the only one that is in a call.
AloneInv ==
  /\ \A t \in Threads : pc[t] # "idle" /\ alone[t] => OthersIdle(t)
  /\ ~overlapped => \A t \in Threads : alone[t]

LEMMA AloneStep == TypeOK /\ AloneInv /\ [Next]_vars => AloneInv'
<1> SUFFICES ASSUME TypeOK, AloneInv, [Next]_vars PROVE AloneInv'
  OBVIOUS
<1>1. ASSUME NEW t \in Threads, InsertCall(t) \/ RemoveCall(t) PROVE AloneInv'
  <2>1. /\ pc[t] = "idle" /\ overlapped' = (overlapped \/ ~OthersIdle(t))
        /\ \A u \in Threads \ {t} : pc'[u] = pc[u] /\ (alone'[u] <=> pc[u] = "idle")
        /\ alone'[t] <=> OthersIdle(t)
    BY <1>1 DEF InsertCall, RemoveCall, Call, TypeOK
  <2>2. OthersIdle(t) => OthersIdle(t)'
    BY <2>1 DEF OthersIdle
  <2>3. \A u \in Threads : pc'[u] # "idle" /\ alone'[u] => OthersIdle(u)'
    BY <2>1, <2>2
  <2>4. ~overlapped' => \A u \in Threads : alone'[u]
    BY <2>1 DEF OthersIdle
  <2> QED
    BY <2>3, <2>4 DEF AloneInv
<1>2. ASSUME NEW t \in Threads, InsertReturn(t) \/ FindNothing(t) \/ RemoveReturn(t)
      PROVE  AloneInv'
  BY <1>2 DEF InsertReturn, FindNothing, RemoveReturn, Return, Goto, AloneInv, OthersIdle, TypeOK
<1>3. ASSUME NEW t \in Threads, pc[t] # "idle", UNCHANGED <<alone, overlapped>>,
             \A u \in Threads \ {t} : pc'[u] = pc[u]
      PROVE  AloneInv'
  BY <1>3 DEF AloneInv, OthersIdle
<1>4. ASSUME NEW t \in Threads,
             TestFirst(t) \/ ResetFirst(t) \/ ClearSlot(t) \/ ScanSlot(t) \/ ClaimSlot(t)
               \/ CountSlot(t) \/ FindSlot(t) \/ EraseSlot(t) \/ LoadCount(t)
      PROVE  AloneInv'
  <2>1. /\ pc[t] # "idle" /\ UNCHANGED <<alone, overlapped>>
        /\ \A u \in Threads \ {t} : pc'[u] = pc[u]
    BY <1>4 DEF TestFirst, ResetFirst, ClearSlot, ScanSlot, ClaimSlot, CountSlot, FindSlot,
                EraseSlot, LoadCount, Goto, TypeOK
  <2> QED
    BY <1>3, <2>1
<1>5. CASE UNCHANGED vars
  BY <1>5 DEF vars, AloneInv, OthersIdle
<1> QED
  BY <1>1, <1>2, <1>4, <1>5 DEF Next, insert_id, remove_id

\* The occupied slots below k.
Below(k) == {s \in Slots : s < k /\ connection_ids[s] # NULL}

LocalsInv == \A t \in Threads :
  /\ pc[t] \notin {"count", "store"} => index[t] = -1
  /\ pc[t] \notin {"count", "store", "decrement"} => local[t] = 0
  /\ pc[t] \in {"test", "reset"} => at[t] = 0
  /\ pc[t] \in {"clear", "scan", "claim", "count", "store"} => ~firstTime

\* What insert_id has found out so far is still true.
AloneCall == \A t \in Threads : alone[t] =>
  /\ pc[t] = "scan" => \A s \in Slots : s < at[t] => connection_ids[s] # NULL
  /\ pc[t] = "claim" => connection_ids[at[t]] = NULL
  /\ pc[t] \in {"count", "store"} =>
       IF index[t] = -1 THEN \A s \in Slots : connection_ids[s] # NULL
                        ELSE connection_ids[index[t]] = id[t]
  /\ pc[t] = "count" => local[t] = Cardinality(Below(at[t]))
  /\ pc[t] = "store" => local[t] = Cardinality(Occupied)

\* Until calls first overlap: the table is cleared before it is used, and the
\* counter is right but for the call in progress.
QuietInv == ~overlapped =>
  /\ firstTime => \A s \in Slots : connection_ids[s] = NULL
  /\ \A t \in Threads :
       /\ pc[t] \in {"reset", "clear"} => \A s \in Slots : connection_ids[s] = NULL
       /\ pc[t] = "erase" => connection_ids[at[t]] = id[t]
       /\ pc[t] = "load" => num_connections = Cardinality(Occupied) + 1
       /\ pc[t] = "decrement" => local[t] = Cardinality(Occupied) + 1
  /\ (\A t \in Threads : pc[t] \notin {"count", "store", "load", "decrement"}) =>
       num_connections = Cardinality(Occupied)

ExactInv == AloneInv /\ LocalsInv /\ AloneCall /\ QuietInv /\ IdsAreKept

\* Counting.
LEMMA SlotsFinite == IsFiniteSet(Slots) /\ \A S \in SUBSET Slots : IsFiniteSet(S) /\ Cardinality(S) \in Nat
<1>1. IsFiniteSet(Slots)
  BY TableAssumption, FS_Interval DEF Slots
<1> QED
  BY <1>1, FS_Subset, FS_CardinalityType

LEMMA CountNext ==
  ASSUME TypeOK, NEW k \in Slots
  PROVE  Cardinality(Below(k + 1)) =
           (IF connection_ids[k] = NULL THEN Cardinality(Below(k)) ELSE Cardinality(Below(k)) + 1)
<1>1. Below(k) \subseteq Slots /\ k \notin Below(k) /\ k \in Int
  BY TableAssumption DEF Below, Slots
<1>2. Below(k + 1) = IF connection_ids[k] = NULL THEN Below(k) ELSE Below(k) \cup {k}
  BY TableAssumption DEF Below, Slots
<1> QED
  BY <1>1, <1>2, SlotsFinite, FS_AddElement

LEMMA CountEnds == Cardinality(Below(0)) = 0 /\ Below(TableSize) = Occupied
<1>1. Below(0) = {} /\ Below(TableSize) = Occupied
  BY TableAssumption DEF Below, Slots, Occupied
<1> QED
  BY <1>1, FS_EmptySet

\* Nobody else is in a call that is alone while t is in a call.
LEMMA NobodyElse ==
  ASSUME AloneInv, NEW t \in Threads, pc[t] # "idle", NEW u \in Threads \ {t}
  PROVE  (pc[u] = "idle" \/ ~alone[u]) /\ (~overlapped => pc[u] = "idle")
BY DEF AloneInv, OthersIdle

LEMMA ExactInit == Init => ExactInv
<1> SUFFICES ASSUME Init PROVE ExactInv
  OBVIOUS
<1> USE TableAssumption DEF Init
<1>1. AloneInv /\ LocalsInv /\ AloneCall /\ IdsAreKept
  BY DEF AloneInv, OthersIdle, LocalsInv, AloneCall, IdsAreKept
<1>2. Occupied = {}
  BY DEF Occupied
<1>3. QuietInv
  BY <1>2, FS_EmptySet DEF QuietInv
<1> QED
  BY <1>1, <1>3 DEF ExactInv

LEMMA InsertCallExact ==
  ASSUME TableInv, ExactInv, AloneInv', NEW t \in Threads, InsertCall(t)
  PROVE  ExactInv'
<1> USE TableAssumption DEF TableInv, ExactInv, InsertCall, Call, Goto, Return, NextSlot, shared, locals
<1>o. pc[t] # "idle" => \A u \in Threads \ {t} :
        (pc[u] = "idle" \/ ~alone[u]) /\ (~overlapped => pc[u] = "idle")
  BY NobodyElse
<1>1. LocalsInv'
  BY DEF LocalsInv, CallInv, TypeOK
<1>2. AloneCall'
  <2>1. \A u \in Threads \ {t} : pc'[u] = "idle" \/ ~alone'[u]
    BY DEF TypeOK
  <2>2. pc'[t] = "test"
    BY DEF TypeOK
  <2> QED
    BY <2>1, <2>2 DEF AloneCall
<1>3. QuietInv'
  BY <1>o DEF QuietInv, Occupied, OthersIdle, CallInv, TypeOK
<1>4. IdsAreKept'
  BY <1>o DEF IdsAreKept, Leaving, Inserting, Removing, AloneCall, AloneInv, QuietInv, CallInv, TypeOK
<1> QED
  BY <1>1, <1>2, <1>3, <1>4

LEMMA TestFirstExact ==
  ASSUME TableInv, ExactInv, AloneInv', NEW t \in Threads, TestFirst(t)
  PROVE  ExactInv'
<1> USE TableAssumption DEF TableInv, ExactInv, TestFirst, Call, Goto, Return, NextSlot, shared, locals
<1>o. pc[t] # "idle" => \A u \in Threads \ {t} :
        (pc[u] = "idle" \/ ~alone[u]) /\ (~overlapped => pc[u] = "idle")
  BY NobodyElse
<1>1. LocalsInv'
  BY DEF LocalsInv, CallInv, TypeOK
<1>2. AloneCall'
  <2>1. \A u \in Threads \ {t} : pc'[u] = "idle" \/ ~alone'[u]
    BY <1>o DEF TypeOK
  <2>2. pc'[t] \in {"reset", "scan"} /\ at'[t] = 0 /\ \A s \in Slots : ~(s < 0)
    BY DEF TypeOK, LocalsInv, Slots
  <2> QED
    BY <2>1, <2>2 DEF AloneCall
<1>3. QuietInv'
  BY <1>o DEF QuietInv, Occupied, OthersIdle, CallInv, TypeOK
<1>4. IdsAreKept'
  BY <1>o DEF IdsAreKept, Leaving, Inserting, Removing, AloneCall, AloneInv, QuietInv, CallInv, TypeOK
<1> QED
  BY <1>1, <1>2, <1>3, <1>4

LEMMA ResetFirstExact ==
  ASSUME TableInv, ExactInv, AloneInv', NEW t \in Threads, ResetFirst(t)
  PROVE  ExactInv'
<1> USE TableAssumption DEF TableInv, ExactInv, ResetFirst, Call, Goto, Return, NextSlot, shared, locals
<1>o. pc[t] # "idle" => \A u \in Threads \ {t} :
        (pc[u] = "idle" \/ ~alone[u]) /\ (~overlapped => pc[u] = "idle")
  BY NobodyElse
<1>1. LocalsInv'
  BY DEF LocalsInv, CallInv, TypeOK
<1>2. AloneCall'
  BY <1>o DEF AloneCall, Below, Occupied, LocalsInv, CallInv, TypeOK
<1>3. QuietInv'
  BY <1>o DEF QuietInv, Occupied, OthersIdle, CallInv, TypeOK
<1>4. IdsAreKept'
  BY <1>o DEF IdsAreKept, Leaving, Inserting, Removing, AloneCall, AloneInv, QuietInv, CallInv, TypeOK
<1> QED
  BY <1>1, <1>2, <1>3, <1>4

LEMMA ClearSlotExact ==
  ASSUME TableInv, ExactInv, AloneInv', NEW t \in Threads, ClearSlot(t)
  PROVE  ExactInv'
<1> USE TableAssumption DEF TableInv, ExactInv, ClearSlot, Call, Goto, Return, NextSlot, shared, locals
<1>o. pc[t] # "idle" => \A u \in Threads \ {t} :
        (pc[u] = "idle" \/ ~alone[u]) /\ (~overlapped => pc[u] = "idle")
  BY NobodyElse
<1>1. LocalsInv'
  BY DEF LocalsInv, CallInv, TypeOK
<1>2. AloneCall'
  <2>1. \A u \in Threads \ {t} : pc'[u] = "idle" \/ ~alone'[u]
    BY <1>o DEF TypeOK
  <2>2. pc'[t] = "clear" \/ (pc'[t] = "scan" /\ at'[t] = 0 /\ \A s \in Slots : ~(s < 0))
    BY DEF TypeOK, Slots
  <2> QED
    BY <2>1, <2>2 DEF AloneCall
<1>3. QuietInv'
  BY <1>o DEF QuietInv, Occupied, OthersIdle, CallInv, TypeOK
<1>4. IdsAreKept'
  BY <1>o DEF IdsAreKept, Leaving, Inserting, Removing, AloneCall, AloneInv, QuietInv, CallInv, TypeOK
<1> QED
  BY <1>1, <1>2, <1>3, <1>4

LEMMA ScanSlotExact ==
  ASSUME TableInv, ExactInv, AloneInv', NEW t \in Threads, ScanSlot(t)
  PROVE  ExactInv'
<1> USE TableAssumption DEF TableInv, ExactInv, ScanSlot, Call, Goto, Return, NextSlot, shared, locals
<1>o. pc[t] # "idle" => \A u \in Threads \ {t} :
        (pc[u] = "idle" \/ ~alone[u]) /\ (~overlapped => pc[u] = "idle")
  BY NobodyElse
<1>1. LocalsInv'
  BY DEF LocalsInv, CallInv, TypeOK
<1>2. AloneCall'
  <2>1. \A u \in Threads \ {t} : pc'[u] = "idle" \/ ~alone'[u]
    BY <1>o DEF TypeOK
  <2>2. /\ pc'[t] \in {"scan", "claim", "count"} /\ index'[t] = -1
        /\ alone'[t] =>
             /\ pc'[t] = "scan" => \A s \in Slots : s < at'[t] => connection_ids'[s] # NULL
             /\ pc'[t] = "claim" => connection_ids'[at'[t]] = NULL
             /\ pc'[t] = "count" => /\ \A s \in Slots : connection_ids'[s] # NULL
                                   /\ at'[t] = 0 /\ local'[t] = 0
    <3>0. /\ pc[t] = "scan" /\ index[t] = -1 /\ local[t] = 0 /\ at[t] \in Int
          /\ alone[t] => \A s \in Slots : s < at[t] => connection_ids[s] # NULL
      BY DEF AloneCall, LocalsInv, TypeOK
    <3>4. \A s \in Slots : s \in Int /\ s < TableSize
      BY DEF Slots
    <3>1. CASE at[t] < TableSize /\ connection_ids[at[t]] = NULL
      BY <3>0, <3>1, <3>4 DEF TypeOK
    <3>2. CASE at[t] < TableSize /\ connection_ids[at[t]] # NULL
      BY <3>0, <3>2, <3>4 DEF TypeOK
    <3>3. CASE at[t] = TableSize
      BY <3>0, <3>3, <3>4 DEF TypeOK
    <3> QED
      BY <3>1, <3>2, <3>3
  <2>3. at'[t] = 0 => {s \in Slots : s < at'[t] /\ connection_ids'[s] # NULL} = {}
    BY DEF Slots
  <2> QED
    BY <2>1, <2>2, <2>3, FS_EmptySet DEF AloneCall, Below
<1>3. QuietInv'
  BY <1>o DEF QuietInv, Occupied, OthersIdle, CallInv, TypeOK
<1>4. IdsAreKept'
  BY <1>o DEF IdsAreKept, Leaving, Inserting, Removing, AloneCall, AloneInv, QuietInv, CallInv, TypeOK
<1> QED
  BY <1>1, <1>2, <1>3, <1>4

LEMMA ClaimSlotExact ==
  ASSUME TableInv, ExactInv, AloneInv', NEW t \in Threads, ClaimSlot(t)
  PROVE  ExactInv'
<1> USE TableAssumption DEF TableInv, ExactInv, ClaimSlot, Call, Goto, Return, NextSlot, shared, locals
<1>o. pc[t] # "idle" => \A u \in Threads \ {t} :
        (pc[u] = "idle" \/ ~alone[u]) /\ (~overlapped => pc[u] = "idle")
  BY NobodyElse
<1>1. LocalsInv'
  BY DEF LocalsInv, CallInv, TypeOK
<1>2. AloneCall'
  <2>1. \A u \in Threads \ {t} : pc'[u] = "idle" \/ ~alone'[u]
    BY <1>o DEF TypeOK
  <2>2. /\ pc'[t] = "count" /\ index'[t] = at[t] /\ at[t] # -1 /\ at'[t] = 0 /\ local'[t] = 0
        /\ connection_ids'[at[t]] = id'[t]
    <3>1. at[t] \in Slots /\ local[t] = 0
      BY DEF CallInv, LocalsInv
    <3>2. at[t] # -1
      BY <3>1 DEF Slots
    <3> QED
      BY <3>1, <3>2 DEF TypeOK
  <2>3. {s \in Slots : s < at'[t] /\ connection_ids'[s] # NULL} = {}
    BY <2>2 DEF Slots
  <2> QED
    BY <2>1, <2>2, <2>3, FS_EmptySet DEF AloneCall, Below
<1>3. QuietInv'
  <2>1. pc[t] = "claim" /\ pc'[t] = "count" /\ ~firstTime' /\ overlapped' = overlapped
    BY DEF TypeOK, LocalsInv
  <2>2. ~overlapped => \A u \in Threads \ {t} : pc'[u] = "idle"
    BY <1>o, <2>1 DEF TypeOK
  <2> QED
    BY <2>1, <2>2 DEF QuietInv
<1>4. IdsAreKept'
  BY <1>o DEF IdsAreKept, Leaving, Inserting, Removing, AloneCall, AloneInv, QuietInv, CallInv, TypeOK
<1> QED
  BY <1>1, <1>2, <1>3, <1>4

LEMMA CountSlotExact ==
  ASSUME TableInv, ExactInv, AloneInv', NEW t \in Threads, CountSlot(t)
  PROVE  ExactInv'
<1> USE TableAssumption DEF TableInv, ExactInv, CountSlot, Call, Goto, Return, NextSlot, shared, locals
<1>o. pc[t] # "idle" => \A u \in Threads \ {t} :
        (pc[u] = "idle" \/ ~alone[u]) /\ (~overlapped => pc[u] = "idle")
  BY NobodyElse
<1>1. LocalsInv'
  BY DEF LocalsInv, CallInv, TypeOK
<1>2. AloneCall'
  <2>1. \A u \in Threads \ {t} : pc'[u] = "idle" \/ ~alone'[u]
    BY <1>o DEF TypeOK
  <2>2. CASE at[t] < TableSize
    <3>1. /\ pc[t] = "count" /\ pc' = pc /\ at'[t] = at[t] + 1 /\ at[t] \in Slots
          /\ UNCHANGED <<connection_ids, id, index, alone>>
          /\ local'[t] = IF connection_ids[at[t]] = NULL THEN local[t] ELSE local[t] + 1
      BY <2>2 DEF TypeOK, Slots
    <3>2. {s \in Slots : s < at'[t] /\ connection_ids'[s] # NULL} = Below(at[t] + 1)
      BY <3>1 DEF Below
    <3>3. alone[t] => local'[t] = Cardinality(Below(at[t] + 1))
      BY <3>1, CountNext DEF AloneCall
    <3>4. alone'[t] => IF index'[t] = -1 THEN \A s \in Slots : connection_ids'[s] # NULL
                                        ELSE connection_ids'[index'[t]] = id'[t]
      BY <3>1 DEF AloneCall
    <3>5. alone'[t] =>
            local'[t] = Cardinality({s \in Slots : s < at'[t] /\ connection_ids'[s] # NULL})
      BY <3>1, <3>2, <3>3
    <3>6. pc'[t] = "count"
      BY <3>1
    <3> QED
      BY <2>1, <3>4, <3>5, <3>6 DEF AloneCall, Below
  <2>3. CASE at[t] = TableSize
    <3>1. /\ pc[t] = "count" /\ pc'[t] = "store"
          /\ UNCHANGED <<connection_ids, id, index, alone, local>>
      BY <2>3 DEF TypeOK
    <3>2. alone[t] => local[t] = Cardinality(Occupied)
      BY <2>3, <3>1, CountEnds DEF AloneCall
    <3> QED
      BY <2>1, <3>1, <3>2 DEF AloneCall, Occupied
  <2> QED
    BY <2>2, <2>3
<1>3. QuietInv'
  BY <1>o DEF QuietInv, Occupied, OthersIdle, CallInv, TypeOK
<1>4. IdsAreKept'
  BY <1>o DEF IdsAreKept, Leaving, Inserting, Removing, AloneCall, AloneInv, QuietInv, CallInv, TypeOK
<1> QED
  BY <1>1, <1>2, <1>3, <1>4

LEMMA InsertReturnExact ==
  ASSUME TableInv, ExactInv, AloneInv', NEW t \in Threads, InsertReturn(t)
  PROVE  ExactInv'
<1> USE TableAssumption DEF TableInv, ExactInv, InsertReturn, Call, Goto, Return, NextSlot, shared, locals
<1>o. pc[t] # "idle" => \A u \in Threads \ {t} :
        (pc[u] = "idle" \/ ~alone[u]) /\ (~overlapped => pc[u] = "idle")
  BY NobodyElse
<1>1. LocalsInv'
  BY DEF LocalsInv, CallInv, TypeOK
<1>2. AloneCall'
  BY <1>o DEF AloneCall, Below, Occupied, LocalsInv, CallInv, TypeOK
<1>3. QuietInv'
  <2>1. pc[t] = "store" /\ pc'[t] = "idle" /\ ~firstTime' /\ overlapped' = overlapped
        /\ UNCHANGED connection_ids /\ num_connections' = local[t]
    BY DEF TypeOK, LocalsInv
  <2>2. ~overlapped => \A u \in Threads : pc'[u] = "idle"
    BY <1>o, <2>1 DEF TypeOK
  <2>3. ~overlapped => local[t] = Cardinality(Occupied)
    BY <2>1 DEF AloneInv, AloneCall
  <2> QED
    BY <2>1, <2>2, <2>3 DEF QuietInv, Occupied
<1>4. IdsAreKept'
  BY <1>o DEF IdsAreKept, Leaving, Inserting, Removing, AloneCall, AloneInv, QuietInv, CallInv, TypeOK
<1> QED
  BY <1>1, <1>2, <1>3, <1>4

LEMMA RemoveCallExact ==
  ASSUME TableInv, ExactInv, AloneInv', NEW t \in Threads, RemoveCall(t)
  PROVE  ExactInv'
<1> USE TableAssumption DEF TableInv, ExactInv, RemoveCall, Call, Goto, Return, NextSlot, shared, locals
<1>o. pc[t] # "idle" => \A u \in Threads \ {t} :
        (pc[u] = "idle" \/ ~alone[u]) /\ (~overlapped => pc[u] = "idle")
  BY NobodyElse
<1>1. LocalsInv'
  BY DEF LocalsInv, CallInv, TypeOK
<1>2. AloneCall'
  <2>1. \A u \in Threads \ {t} : pc'[u] = "idle" \/ ~alone'[u]
    BY DEF TypeOK
  <2>2. pc'[t] = "find"
    BY DEF TypeOK
  <2> QED
    BY <2>1, <2>2 DEF AloneCall
<1>3. QuietInv'
  <2>1. /\ pc[t] = "idle" /\ pc'[t] = "find" /\ UNCHANGED <<connection_ids, num_connections, firstTime>>
        /\ overlapped' = (overlapped \/ ~OthersIdle(t)) /\ \A u \in Threads \ {t} : pc'[u] = pc[u]
    BY DEF TypeOK
  <2>2. ~overlapped' => ~overlapped /\ \A u \in Threads : pc[u] = "idle"
    BY <2>1 DEF OthersIdle
  <2> QED
    BY <2>1, <2>2 DEF QuietInv, Occupied
<1>4. IdsAreKept'
  BY <1>o DEF IdsAreKept, Leaving, Inserting, Removing, AloneCall, AloneInv, QuietInv, CallInv, TypeOK
<1> QED
  BY <1>1, <1>2, <1>3, <1>4

LEMMA FindSlotExact ==
  ASSUME TableInv, ExactInv, AloneInv', NEW t \in Threads, FindSlot(t)
  PROVE  ExactInv'
<1> USE TableAssumption DEF TableInv, ExactInv, FindSlot, Call, Goto, Return, NextSlot, shared, locals
<1>o. pc[t] # "idle" => \A u \in Threads \ {t} :
        (pc[u] = "idle" \/ ~alone[u]) /\ (~overlapped => pc[u] = "idle")
  BY NobodyElse
<1>1. LocalsInv'
  BY DEF LocalsInv, CallInv, TypeOK
<1>2. AloneCall'
  BY <1>o DEF AloneCall, Below, Occupied, LocalsInv, CallInv, TypeOK
<1>3. QuietInv'
  BY <1>o DEF QuietInv, Occupied, OthersIdle, CallInv, TypeOK
<1>4. IdsAreKept'
  BY <1>o DEF IdsAreKept, Leaving, Inserting, Removing, AloneCall, AloneInv, QuietInv, CallInv, TypeOK
<1> QED
  BY <1>1, <1>2, <1>3, <1>4

LEMMA FindNothingExact ==
  ASSUME TableInv, ExactInv, AloneInv', NEW t \in Threads, FindNothing(t)
  PROVE  ExactInv'
<1> USE TableAssumption DEF TableInv, ExactInv, FindNothing, Call, Goto, Return, NextSlot, shared, locals
<1>o. pc[t] # "idle" => \A u \in Threads \ {t} :
        (pc[u] = "idle" \/ ~alone[u]) /\ (~overlapped => pc[u] = "idle")
  BY NobodyElse
<1>1. LocalsInv'
  BY DEF LocalsInv, CallInv, TypeOK
<1>2. AloneCall'
  BY <1>o DEF AloneCall, Below, Occupied, LocalsInv, CallInv, TypeOK
<1>3. QuietInv'
  BY <1>o DEF QuietInv, Occupied, OthersIdle, CallInv, TypeOK
<1>4. IdsAreKept'
  BY <1>o DEF IdsAreKept, Leaving, Inserting, Removing, AloneCall, AloneInv, QuietInv, CallInv, TypeOK
<1> QED
  BY <1>1, <1>2, <1>3, <1>4

LEMMA EraseSlotExact ==
  ASSUME TableInv, ExactInv, AloneInv', NEW t \in Threads, EraseSlot(t)
  PROVE  ExactInv'
<1> USE TableAssumption DEF TableInv, ExactInv, EraseSlot, Call, Goto, Return, NextSlot, shared, locals
<1>o. pc[t] # "idle" => \A u \in Threads \ {t} :
        (pc[u] = "idle" \/ ~alone[u]) /\ (~overlapped => pc[u] = "idle")
  BY NobodyElse
<1>1. LocalsInv'
  BY DEF LocalsInv, CallInv, TypeOK
<1>2. AloneCall'
  BY <1>o DEF AloneCall, Below, Occupied, LocalsInv, CallInv, TypeOK
<1>3. QuietInv'
  <2>1. /\ pc[t] = "erase" /\ pc'[t] = "load" /\ at[t] \in Slots /\ overlapped' = overlapped
        /\ connection_ids' = [connection_ids EXCEPT ![at[t]] = NULL]
        /\ UNCHANGED <<num_connections, firstTime>>
    BY DEF TypeOK, CallInv
  <2>2. ~overlapped => \A u \in Threads \ {t} : pc[u] = "idle" /\ pc'[u] = "idle"
    BY <1>o, <2>1 DEF TypeOK
  <2>3. ~overlapped => at[t] \in Occupied /\ num_connections = Cardinality(Occupied)
    <3>1. ~overlapped => connection_ids[at[t]] = id[t]
      BY <2>1 DEF QuietInv
    <3>2. id[t] # NULL
      BY <2>1 DEF CallInv
    <3>3. ~overlapped => num_connections = Cardinality(Occupied)
      BY <2>1, <2>2 DEF QuietInv
    <3> QED
      BY <2>1, <3>1, <3>2, <3>3 DEF Occupied
  <2>4. Occupied' = Occupied \ {at[t]}
    BY <2>1 DEF Occupied, TypeOK
  <2>5. ~overlapped => num_connections = Cardinality(Occupied') + 1
    <3>1. IsFiniteSet(Occupied) /\ Cardinality(Occupied) \in Nat
      BY SlotsFinite DEF Occupied
    <3>2. ~overlapped => Cardinality(Occupied \ {at[t]}) = Cardinality(Occupied) - 1
      BY <2>3, <3>1, FS_RemoveElement
    <3> QED
      BY <2>3, <2>4, <3>1, <3>2
  <2>6. firstTime /\ ~overlapped => \A s \in Slots : connection_ids'[s] = NULL
    BY <2>1 DEF QuietInv, TypeOK
  <2> QED
    BY <2>1, <2>2, <2>5, <2>6 DEF QuietInv
<1>4. IdsAreKept'
  BY <1>o DEF IdsAreKept, Leaving, Inserting, Removing, AloneCall, AloneInv, QuietInv, CallInv, TypeOK
<1> QED
  BY <1>1, <1>2, <1>3, <1>4

LEMMA LoadCountExact ==
  ASSUME TableInv, ExactInv, AloneInv', NEW t \in Threads, LoadCount(t)
  PROVE  ExactInv'
<1> USE TableAssumption DEF TableInv, ExactInv, LoadCount, Call, Goto, Return, NextSlot, shared, locals
<1>o. pc[t] # "idle" => \A u \in Threads \ {t} :
        (pc[u] = "idle" \/ ~alone[u]) /\ (~overlapped => pc[u] = "idle")
  BY NobodyElse
<1>1. LocalsInv'
  BY DEF LocalsInv, CallInv, TypeOK
<1>2. AloneCall'
  BY <1>o DEF AloneCall, Below, Occupied, LocalsInv, CallInv, TypeOK
<1>3. QuietInv'
  BY <1>o DEF QuietInv, Occupied, OthersIdle, CallInv, TypeOK
<1>4. IdsAreKept'
  BY <1>o DEF IdsAreKept, Leaving, Inserting, Removing, AloneCall, AloneInv, QuietInv, CallInv, TypeOK
<1> QED
  BY <1>1, <1>2, <1>3, <1>4

LEMMA RemoveReturnExact ==
  ASSUME TableInv, ExactInv, AloneInv', NEW t \in Threads, RemoveReturn(t)
  PROVE  ExactInv'
<1> USE TableAssumption DEF TableInv, ExactInv, RemoveReturn, Call, Goto, Return, NextSlot, shared, locals
<1>o. pc[t] # "idle" => \A u \in Threads \ {t} :
        (pc[u] = "idle" \/ ~alone[u]) /\ (~overlapped => pc[u] = "idle")
  BY NobodyElse
<1>1. LocalsInv'
  BY DEF LocalsInv, CallInv, TypeOK
<1>2. AloneCall'
  BY <1>o DEF AloneCall, Below, Occupied, LocalsInv, CallInv, TypeOK
<1>3. QuietInv'
  <2>1. /\ pc[t] = "decrement" /\ pc'[t] = "idle" /\ overlapped' = overlapped
        /\ num_connections' = local[t] - 1 /\ UNCHANGED <<connection_ids, firstTime>>
    BY DEF TypeOK
  <2>2. ~overlapped => \A u \in Threads : pc'[u] = "idle"
    BY <1>o, <2>1 DEF TypeOK
  <2>3. ~overlapped => local[t] = Cardinality(Occupied) + 1
    BY <2>1 DEF QuietInv
  <2>4. Cardinality(Occupied) \in Nat
    BY SlotsFinite DEF Occupied
  <2>5. ~overlapped => num_connections' = Cardinality(Occupied)
    BY <2>1, <2>3, <2>4
  <2> QED
    BY <2>1, <2>2, <2>5 DEF QuietInv, Occupied
<1>4. IdsAreKept'
  BY <1>o DEF IdsAreKept, Leaving, Inserting, Removing, AloneCall, AloneInv, QuietInv, CallInv, TypeOK
<1> QED
  BY <1>1, <1>2, <1>3, <1>4

LEMMA ExactStep == TableInv /\ ExactInv /\ [Next]_vars => ExactInv'
<1> SUFFICES ASSUME TableInv, ExactInv, [Next]_vars PROVE ExactInv'
  OBVIOUS
<1>1. AloneInv'
  BY AloneStep DEF TableInv, ExactInv
<1>2. ASSUME NEW t \in Threads, insert_id(t) PROVE ExactInv'
  BY <1>1, <1>2, InsertCallExact, TestFirstExact, ResetFirstExact, ClearSlotExact,
     ScanSlotExact, ClaimSlotExact, CountSlotExact, InsertReturnExact DEF insert_id
<1>3. ASSUME NEW t \in Threads, remove_id(t) PROVE ExactInv'
  BY <1>1, <1>3, RemoveCallExact, FindSlotExact, FindNothingExact, EraseSlotExact,
     LoadCountExact, RemoveReturnExact DEF remove_id
<1>4. CASE UNCHANGED vars
  <2> USE <1>4 DEF ExactInv, vars, shared, locals
  <2>0. /\ Occupied' = Occupied
        /\ \A t \in Threads : {s \in Slots : s < at'[t] /\ connection_ids'[s] # NULL} = Below(at[t])
    BY DEF Occupied, Below
  <2>1. LocalsInv' /\ AloneCall'
    <3>1. LocalsInv'
      BY DEF LocalsInv
    <3>2. AloneCall'
      BY <2>0 DEF AloneCall, Below
    <3> QED
      BY <3>1, <3>2
  <2>2. QuietInv' /\ IdsAreKept'
    BY DEF QuietInv, IdsAreKept, Leaving, Occupied
  <2> QED
    BY <1>1, <2>1, <2>2
<1> QED
  BY <1>2, <1>3, <1>4 DEF Next

(* What a call of insert_id or remove_id has found out stays true as long  *)
(* as no other call overlaps it, and the table and its counter agree until *)
(* the first overlap.                                                      *)
THEOREM ExactInvariant == Spec => []ExactInv
<1> QED
  BY ExactInit, ExactStep, TableInvariant, PTL DEF Spec

(* Until two calls first overlap, a player's id is its own slot from the   *)
(* return of insert_id to the call of remove_id.                           *)
THEOREM IdsKeptUntilOverlap == Spec => []IdsAreKept
BY ExactInvariant, PTL DEF ExactInv

(* Until two calls first overlap, get_connections() is the number of       *)
(* occupied slots whenever no call is in progress.                         *)
THEOREM CountRightUntilOverlap == Spec => []CountIsOccupied
<1>1. ExactInv => CountIsOccupied
  BY DEF ExactInv, QuietInv, CountIsOccupied, Idle
<1> QED
  BY <1>1, ExactInvariant, PTL

(* A call of insert_id that nothing overlaps repairs the counter, whatever *)
(* races came before it, and fails only if the table is full.              *)
THEOREM LoneInsertRepairs == Spec => LoneInsertIsExact
<1>1. TableInv /\ ExactInv /\ [Next]_vars =>
        [\A t \in Threads :
           pc[t] = "store" /\ alone[t] /\ pc'[t] = "idle" =>
             /\ num_connections' = Cardinality(Occupied)
             /\ IF index[t] = -1 THEN Occupied = Slots ELSE connection_ids[index[t]] = id[t]]_vars
  <2> SUFFICES ASSUME TableInv, ExactInv, [Next]_vars, NEW t \in Threads,
                      pc[t] = "store", alone[t], pc'[t] = "idle"
               PROVE  /\ num_connections' = Cardinality(Occupied)
                      /\ IF index[t] = -1 THEN Occupied = Slots
                                          ELSE connection_ids[index[t]] = id[t]
    OBVIOUS
  <2>1. \A u \in Threads \ {t} : pc[u] = "idle"
    BY DEF ExactInv, AloneInv, OthersIdle
  <2>2. InsertReturn(t)
    BY <2>1 DEF Next, vars, insert_id, remove_id, InsertCall, TestFirst, ResetFirst, ClearSlot,
       ScanSlot, ClaimSlot, CountSlot, InsertReturn, RemoveCall, FindSlot, FindNothing,
       EraseSlot, LoadCount, RemoveReturn, Call, Goto, Return, TableInv, TypeOK
  <2>3. local[t] = Cardinality(Occupied) /\ (index[t] # -1 => connection_ids[index[t]] = id[t])
        /\ (index[t] = -1 => \A s \in Slots : connection_ids[s] # NULL)
    BY DEF ExactInv, AloneCall
  <2> QED
    BY <2>2, <2>3 DEF InsertReturn, Occupied
<1> QED
  BY <1>1, TableInvariant, ExactInvariant, PTL DEF Spec, LoneInsertIsExact

-------------------------------------------------------------------------------
(* The threads.                                                            *)

\* The server's positions once it has signalled main.
Running == {"unlock", "check", "service", "enq", "teardown", "closing", "exited"}

\* The two threads of the handshake, the frame with the options, and the lock.
StartInv ==
  /\ startLock = Main <=> main \in {"wait", "started", "interrupting"}
  /\ startLock = Server <=> server \in {"options", "context", "signal", "unlock"}
  /\ server = "none" <=> main \in {"init", "pads", "create"}
  /\ main \in {"lock", "wait", "waiting", "woken", "started"} <=> options = "valid"
  /\ options = "none" <=> main \in {"init", "pads", "create"}
  /\ server \in {"signal"} \cup Running => context # "none"
  /\ main \in {"woken", "started"} /\ ~spurious => server \in Running
  /\ options = "gone" /\ ~spurious => server \in Running

\* Who is using the queue, and how far main has got with the cleanup.
CleanupInv ==
  /\ queue = "none" <=> main = "init"
  /\ queue = "freed" <=> main \in {"close", "exit"}
  /\ main \in {"destroy", "close", "exit"} => server = "exited"
  /\ main \in {"interrupt", "interrupting", "join", "destroy", "close", "exit"} =>
       cancelled = Pads
  /\ main = "init" => \A p \in Pads : pad[p] = "none"
  /\ main # "exit" => \A p \in Pads : queueLock = p => pad[p] = "enq"

LifecycleInv == ServerTypeOK /\ StartInv /\ CleanupInv

\* Nothing has been started.
LEMMA LifecycleStart == ServerInit => LifecycleInv
<1> SUFFICES ASSUME ServerInit PROVE LifecycleInv
  OBVIOUS
<1>1. clients \in 0..MaxClients
  BY LifecycleAssumption DEF ServerInit
<1>2. ServerTypeOK
  BY <1>1 DEF ServerInit, ServerTypeOK
<1>3. StartInv /\ CleanupInv
  BY LifecycleAssumption DEF ServerInit, StartInv, CleanupInv, Running
<1> QED
  BY <1>2, <1>3 DEF LifecycleInv

\* Main's start.
LEMMA MainStartKeeps ==
  ASSUME LifecycleInv, MainStart
  PROVE  LifecycleInv'
<1> USE LifecycleAssumption DEF LifecycleInv
<1>1. CASE InitQueue
  <2>1. ServerTypeOK'
    BY <1>1 DEF InitQueue, ServerTypeOK
  <2>2. StartInv'
    BY <1>1 DEF InitQueue, ServerTypeOK, StartInv, Running
  <2>3. CleanupInv'
    BY <1>1 DEF InitQueue, ServerTypeOK, CleanupInv
  <2> QED
    BY <2>1, <2>2, <2>3
<1>2. ASSUME NEW p \in Pads, CreatePad(p) PROVE LifecycleInv'
  <2>1. ServerTypeOK'
    BY <1>2 DEF CreatePad, ServerTypeOK
  <2>2. StartInv'
    BY <1>2 DEF CreatePad, ServerTypeOK, StartInv, Running
  <2>3. CleanupInv'
    BY <1>2 DEF CreatePad, ServerTypeOK, CleanupInv
  <2> QED
    BY <2>1, <2>2, <2>3
<1>3. CASE CreateServer
  <2>1. ServerTypeOK'
    BY <1>3 DEF CreateServer, ServerTypeOK
  <2>2. StartInv'
    BY <1>3 DEF CreateServer, ServerTypeOK, StartInv, Running
  <2>3. CleanupInv'
    BY <1>3 DEF CreateServer, ServerTypeOK, CleanupInv
  <2> QED
    BY <2>1, <2>2, <2>3
<1>4. CASE StartLock
  <2>1. ServerTypeOK'
    BY <1>4 DEF StartLock, ServerTypeOK
  <2>2. StartInv'
    BY <1>4 DEF StartLock, ServerTypeOK, StartInv, Running
  <2>3. CleanupInv'
    BY <1>4 DEF StartLock, ServerTypeOK, CleanupInv
  <2> QED
    BY <2>1, <2>2, <2>3
<1>5. CASE CondWait
  <2>1. ServerTypeOK'
    BY <1>5 DEF CondWait, ServerTypeOK
  <2>2. StartInv'
    BY <1>5 DEF CondWait, ServerTypeOK, StartInv, Running
  <2>3. CleanupInv'
    BY <1>5 DEF CondWait, ServerTypeOK, CleanupInv
  <2> QED
    BY <2>1, <2>2, <2>3
<1>6. CASE Rewait
  <2>1. ServerTypeOK'
    BY <1>6 DEF Rewait, ServerTypeOK
  <2>2. StartInv'
    BY <1>6 DEF Rewait, ServerTypeOK, StartInv, Running
  <2>3. CleanupInv'
    BY <1>6 DEF Rewait, ServerTypeOK, CleanupInv
  <2> QED
    BY <2>1, <2>2, <2>3
<1>7. CASE CreateReturn
  <2>1. ServerTypeOK'
    BY <1>7 DEF CreateReturn, ServerTypeOK
  <2>2. StartInv'
    BY <1>7 DEF CreateReturn, ServerTypeOK, StartInv, Running
  <2>3. CleanupInv'
    BY <1>7 DEF CreateReturn, ServerTypeOK, CleanupInv
  <2> QED
    BY <2>1, <2>2, <2>3
<1> QED
  BY <1>1, <1>2, <1>3, <1>4, <1>5, <1>6, <1>7 DEF MainStart

\* The game, and what may happen at any time.
LEMMA GameKeeps ==
  ASSUME LifecycleInv, 
         SpuriousWake \/ Pop \/ PopDone \/ Quit \/ Sigint
  PROVE  LifecycleInv'
<1> USE LifecycleAssumption DEF LifecycleInv
<1>1. CASE SpuriousWake
  <2>1. ServerTypeOK'
    BY <1>1 DEF SpuriousWake, ServerTypeOK
  <2>2. StartInv'
    BY <1>1 DEF SpuriousWake, ServerTypeOK, StartInv, Running
  <2>3. CleanupInv'
    BY <1>1 DEF SpuriousWake, ServerTypeOK, CleanupInv
  <2> QED
    BY <2>1, <2>2, <2>3
<1>2. CASE Pop
  <2>1. ServerTypeOK'
    BY <1>2 DEF Pop, ServerTypeOK
  <2>2. StartInv'
    BY <1>2 DEF Pop, ServerTypeOK, StartInv, Running
  <2>3. CleanupInv'
    BY <1>2 DEF Pop, ServerTypeOK, CleanupInv
  <2> QED
    BY <2>1, <2>2, <2>3
<1>3. CASE PopDone
  <2>1. ServerTypeOK'
    BY <1>3 DEF PopDone, ServerTypeOK
  <2>2. StartInv'
    BY <1>3 DEF PopDone, ServerTypeOK, StartInv, Running
  <2>3. CleanupInv'
    BY <1>3 DEF PopDone, ServerTypeOK, CleanupInv
  <2> QED
    BY <2>1, <2>2, <2>3
<1>4. CASE Quit
  <2>1. ServerTypeOK'
    BY <1>4 DEF Quit, ServerTypeOK
  <2>2. StartInv'
    BY <1>4 DEF Quit, ServerTypeOK, StartInv, Running
  <2>3. CleanupInv'
    BY <1>4 DEF Quit, ServerTypeOK, CleanupInv
  <2> QED
    BY <2>1, <2>2, <2>3
<1>5. CASE Sigint
  <2>1. ServerTypeOK'
    BY <1>5 DEF Sigint, ServerTypeOK
  <2>2. StartInv'
    BY <1>5 DEF Sigint, ServerTypeOK, StartInv, Running
  <2>3. CleanupInv'
    BY <1>5 DEF Sigint, ServerTypeOK, CleanupInv
  <2> QED
    BY <2>1, <2>2, <2>3
<1> QED
  BY <1>1, <1>2, <1>3, <1>4, <1>5

\* Main's cleanup.
LEMMA MainStopKeeps ==
  ASSUME LifecycleInv, MainStop
  PROVE  LifecycleInv'
<1> USE LifecycleAssumption DEF LifecycleInv
<1>1. ASSUME NEW p \in Pads, CancelPad(p) PROVE LifecycleInv'
  <2>1. ServerTypeOK'
    BY <1>1 DEF CancelPad, ServerTypeOK
  <2>2. StartInv'
    BY <1>1 DEF CancelPad, ServerTypeOK, StartInv, Running
  <2>3. CleanupInv'
    BY <1>1 DEF CancelPad, ServerTypeOK, CleanupInv
  <2> QED
    BY <2>1, <2>2, <2>3
<1>2. CASE SetInterruptLock
  <2>1. ServerTypeOK'
    BY <1>2 DEF SetInterruptLock, ServerTypeOK
  <2>2. StartInv'
    BY <1>2 DEF SetInterruptLock, ServerTypeOK, StartInv, Running
  <2>3. CleanupInv'
    BY <1>2 DEF SetInterruptLock, ServerTypeOK, CleanupInv
  <2> QED
    BY <2>1, <2>2, <2>3
<1>3. CASE SetInterrupt
  <2>1. ServerTypeOK'
    BY <1>3 DEF SetInterrupt, ServerTypeOK
  <2>2. StartInv'
    BY <1>3 DEF SetInterrupt, ServerTypeOK, StartInv, Running
  <2>3. CleanupInv'
    BY <1>3 DEF SetInterrupt, ServerTypeOK, CleanupInv
  <2> QED
    BY <2>1, <2>2, <2>3
<1>4. CASE JoinServer
  <2>1. ServerTypeOK'
    BY <1>4 DEF JoinServer, ServerTypeOK
  <2>2. StartInv'
    BY <1>4 DEF JoinServer, ServerTypeOK, StartInv, Running
  <2>3. CleanupInv'
    BY <1>4 DEF JoinServer, ServerTypeOK, CleanupInv
  <2> QED
    BY <2>1, <2>2, <2>3
<1>5. CASE DestroyQueue
  <2>1. ServerTypeOK'
    BY <1>5 DEF DestroyQueue, ServerTypeOK
  <2>2. StartInv'
    BY <1>5 DEF DestroyQueue, ServerTypeOK, StartInv, Running
  <2>3. CleanupInv'
    BY <1>5 DEF DestroyQueue, ServerTypeOK, CleanupInv
  <2> QED
    BY <2>1, <2>2, <2>3
<1>6. CASE Exit
  <2>1. ServerTypeOK'
    BY <1>6 DEF Exit, ServerTypeOK
  <2>2. StartInv'
    BY <1>6 DEF Exit, ServerTypeOK, StartInv, Running
  <2>3. CleanupInv'
    BY <1>6 DEF Exit, ServerTypeOK, CleanupInv
  <2> QED
    BY <2>1, <2>2, <2>3
<1> QED
  BY <1>1, <1>2, <1>3, <1>4, <1>5, <1>6 DEF MainStop

\* The server.
LEMMA ServerKeeps ==
  ASSUME LifecycleInv, ServerStep
  PROVE  LifecycleInv'
<1> USE LifecycleAssumption DEF LifecycleInv
<1>1. CASE ServerLock
  <2>1. ServerTypeOK'
    BY <1>1 DEF ServerLock, ServerTypeOK
  <2>2. StartInv'
    BY <1>1 DEF ServerLock, ServerTypeOK, StartInv, Running
  <2>3. CleanupInv'
    BY <1>1 DEF ServerLock, ServerTypeOK, CleanupInv
  <2> QED
    BY <2>1, <2>2, <2>3
<1>2. CASE ReadOptions
  <2>1. ServerTypeOK'
    BY <1>2 DEF ReadOptions, ServerTypeOK
  <2>2. StartInv'
    BY <1>2 DEF ReadOptions, ServerTypeOK, StartInv, Running
  <2>3. CleanupInv'
    BY <1>2 DEF ReadOptions, ServerTypeOK, CleanupInv
  <2> QED
    BY <2>1, <2>2, <2>3
<1>3. CASE CreateContext
  <2>1. ServerTypeOK'
    BY <1>3 DEF CreateContext, ServerTypeOK
  <2>2. StartInv'
    BY <1>3 DEF CreateContext, ServerTypeOK, StartInv, Running
  <2>3. CleanupInv'
    BY <1>3 DEF CreateContext, ServerTypeOK, CleanupInv
  <2> QED
    BY <2>1, <2>2, <2>3
<1>4. CASE Signal
  <2>1. ServerTypeOK'
    BY <1>4 DEF Signal, ServerTypeOK
  <2>2. StartInv'
    BY <1>4 DEF Signal, ServerTypeOK, StartInv, Running
  <2>3. CleanupInv'
    BY <1>4 DEF Signal, ServerTypeOK, CleanupInv
  <2> QED
    BY <2>1, <2>2, <2>3
<1>5. CASE ServerUnlock
  <2>1. ServerTypeOK'
    BY <1>5 DEF ServerUnlock, ServerTypeOK
  <2>2. StartInv'
    BY <1>5 DEF ServerUnlock, ServerTypeOK, StartInv, Running
  <2>3. CleanupInv'
    BY <1>5 DEF ServerUnlock, ServerTypeOK, CleanupInv
  <2> QED
    BY <2>1, <2>2, <2>3
<1>6. CASE CheckInterrupt
  <2>1. ServerTypeOK'
    BY <1>6 DEF CheckInterrupt, ServerTypeOK
  <2>2. StartInv'
    BY <1>6 DEF CheckInterrupt, ServerTypeOK, StartInv, Running
  <2>3. CleanupInv'
    BY <1>6 DEF CheckInterrupt, ServerTypeOK, CleanupInv
  <2> QED
    BY <2>1, <2>2, <2>3
<1>7. CASE ServiceReturn
  <2>1. ServerTypeOK'
    BY <1>7 DEF ServiceReturn, ServerTypeOK
  <2>2. StartInv'
    BY <1>7 DEF ServiceReturn, ServerTypeOK, StartInv, Running
  <2>3. CleanupInv'
    BY <1>7 DEF ServiceReturn, ServerTypeOK, CleanupInv
  <2> QED
    BY <2>1, <2>2, <2>3
<1>8. CASE ServiceEnqueue
  <2>1. ServerTypeOK'
    BY <1>8 DEF ServiceEnqueue, ServerTypeOK
  <2>2. StartInv'
    BY <1>8 DEF ServiceEnqueue, ServerTypeOK, StartInv, Running
  <2>3. CleanupInv'
    BY <1>8 DEF ServiceEnqueue, ServerTypeOK, CleanupInv
  <2> QED
    BY <2>1, <2>2, <2>3
<1>9. CASE ServiceEnqueued
  <2>1. ServerTypeOK'
    BY <1>9 DEF ServiceEnqueued, ServerTypeOK
  <2>2. StartInv'
    BY <1>9 DEF ServiceEnqueued, ServerTypeOK, StartInv, Running
  <2>3. CleanupInv'
    BY <1>9 DEF ServiceEnqueued, ServerTypeOK, CleanupInv
  <2> QED
    BY <2>1, <2>2, <2>3
<1>10. CASE DestroyContext
  <2>1. ServerTypeOK'
    BY <1>10 DEF DestroyContext, ServerTypeOK
  <2>2. StartInv'
    BY <1>10 DEF DestroyContext, ServerTypeOK, StartInv, Running
  <2>3. CleanupInv'
    BY <1>10 DEF DestroyContext, ServerTypeOK, CleanupInv
  <2> QED
    BY <2>1, <2>2, <2>3
<1>11. CASE ServiceAccept
  <2>1. ServerTypeOK'
    BY <1>11 DEF ServiceAccept, ServerTypeOK
  <2>2. StartInv'
    BY <1>11 DEF ServiceAccept, ServerTypeOK, StartInv, Running
  <2>3. CleanupInv'
    BY <1>11 DEF ServiceAccept, ServerTypeOK, CleanupInv
  <2> QED
    BY <2>1, <2>2, <2>3
<1>12. CASE CloseClient
  <2>1. ServerTypeOK'
    BY <1>12 DEF CloseClient, ServerTypeOK
  <2>2. StartInv'
    BY <1>12 DEF CloseClient, ServerTypeOK, StartInv, Running
  <2>3. CleanupInv'
    BY <1>12 DEF CloseClient, ServerTypeOK, CleanupInv
  <2> QED
    BY <2>1, <2>2, <2>3
<1>13. CASE ClientClosed
  <2>1. ServerTypeOK'
    BY <1>13 DEF ClientClosed, ServerTypeOK
  <2>2. StartInv'
    BY <1>13 DEF ClientClosed, ServerTypeOK, StartInv, Running
  <2>3. CleanupInv'
    BY <1>13 DEF ClientClosed, ServerTypeOK, CleanupInv
  <2> QED
    BY <2>1, <2>2, <2>3
<1> QED
  BY <1>1, <1>2, <1>3, <1>4, <1>5, <1>6, <1>7, <1>8, <1>9, <1>10, <1>11, <1>12, <1>13
  DEF ServerStep

\* A gamepad thread.
LEMMA PadKeeps ==
  ASSUME LifecycleInv, NEW p \in Pads, PadStep(p)
  PROVE  LifecycleInv'
<1> USE LifecycleAssumption DEF LifecycleInv
<1>1. CASE PadOpened(p)
  <2>1. ServerTypeOK'
    BY <1>1 DEF PadOpened, ServerTypeOK
  <2>2. StartInv'
    BY <1>1 DEF PadOpened, ServerTypeOK, StartInv, Running
  <2>3. CleanupInv'
    BY <1>1 DEF PadOpened, ServerTypeOK, CleanupInv
  <2> QED
    BY <2>1, <2>2, <2>3
<1>2. CASE PadRead(p)
  <2>1. ServerTypeOK'
    BY <1>2 DEF PadRead, ServerTypeOK
  <2>2. StartInv'
    BY <1>2 DEF PadRead, ServerTypeOK, StartInv, Running
  <2>3. CleanupInv'
    BY <1>2 DEF PadRead, ServerTypeOK, CleanupInv
  <2> QED
    BY <2>1, <2>2, <2>3
<1>3. CASE PadEnqueue(p)
  <2>1. ServerTypeOK'
    BY <1>3 DEF PadEnqueue, ServerTypeOK
  <2>2. StartInv'
    BY <1>3 DEF PadEnqueue, ServerTypeOK, StartInv, Running
  <2>3. CleanupInv'
    BY <1>3 DEF PadEnqueue, ServerTypeOK, CleanupInv
  <2> QED
    BY <2>1, <2>2, <2>3
<1>4. CASE PadEnqueued(p)
  <2>1. ServerTypeOK'
    BY <1>4 DEF PadEnqueued, ServerTypeOK
  <2>2. StartInv'
    BY <1>4 DEF PadEnqueued, ServerTypeOK, StartInv, Running
  <2>3. CleanupInv'
    BY <1>4 DEF PadEnqueued, ServerTypeOK, CleanupInv
  <2> QED
    BY <2>1, <2>2, <2>3
<1>5. CASE PadCancel(p)
  <2>1. ServerTypeOK'
    BY <1>5 DEF PadCancel, ServerTypeOK
  <2>2. StartInv'
    BY <1>5 DEF PadCancel, ServerTypeOK, StartInv, Running
  <2>3. CleanupInv'
    BY <1>5 DEF PadCancel, AtCancellationPoint, ServerTypeOK, CleanupInv
  <2> QED
    BY <2>1, <2>2, <2>3
<1> QED
  BY <1>1, <1>2, <1>3, <1>4, <1>5 DEF PadStep

\* Every step of every thread keeps the invariant.
LEMMA LifecycleStep == LifecycleInv /\ [ServerNext]_serverVars => LifecycleInv'
<1> SUFFICES ASSUME LifecycleInv, [ServerNext]_serverVars PROVE LifecycleInv'
  OBVIOUS
<1>1. CASE UNCHANGED serverVars
  BY <1>1 DEF serverVars, LifecycleInv, ServerTypeOK, StartInv, CleanupInv
<1> QED
  BY <1>1, MainStartKeeps, GameKeeps, MainStopKeeps, ServerKeeps, PadKeeps DEF ServerNext, MainGame

(* In every reachable state main's position, the server's and those of the *)
(* gamepad threads agree on who holds which lock, whether the options are  *)
(* still on main's stack, and whether the queue exists.                    *)
THEOREM LifecycleInvariant == ServerSpec => []LifecycleInv
<1> QED
  BY LifecycleStart, LifecycleStep, PTL DEF ServerSpec

(* The new thread dereferences the options while the frame of              *)
(* ws_create_thread still holds them, unless a wakeup was spurious.        *)
THEOREM OptionsSafe == ServerSpec => []OptionsReadInTime
<1>1. LifecycleInv => OptionsReadInTime
  BY DEF LifecycleInv, ServerTypeOK, StartInv, Running, OptionsReadInTime
<1> QED
  BY <1>1, LifecycleInvariant, PTL

(* When ws_create_thread has returned, the server has its context or has   *)
(* failed to get one, unless a wakeup was spurious.                        *)
THEOREM StartedSafe == ServerSpec => []StartedOnReturn
<1>1. LifecycleInv => StartedOnReturn
  BY DEF LifecycleInv, StartInv, StartedOnReturn
<1> QED
  BY <1>1, LifecycleInvariant, PTL

(* Joining the server before destroy_msg_q is enough for main and server:  *)
(* only a gamepad thread that was cancelled and not joined can be in       *)
(* enq_msg when the queue is freed.                                        *)
THEOREM CleanupOrder == ServerSpec => []OnlyCancelledPadsTouchFreedQueue
<1>1. LifecycleInv => OnlyCancelledPadsTouchFreedQueue
  BY DEF LifecycleInv, ServerTypeOK, StartInv, CleanupInv, OnlyCancelledPadsTouchFreedQueue
<1> QED
  BY <1>1, LifecycleInvariant, PTL

(* A cancelled gamepad thread never leaves the queue locked: enq_msg has   *)
(* no cancellation point.                                                  *)
THEOREM LockNotAbandoned == ServerSpec => []NoAbandonedLock
<1>1. LifecycleInv => NoAbandonedLock
  BY DEF LifecycleInv, CleanupInv, NoAbandonedLock
<1> QED
  BY <1>1, LifecycleInvariant, PTL
===============================================================================
