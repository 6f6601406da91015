---------------------------- MODULE ConnectionTable ----------------------------
(***************************************************************************)
(* The table of connected players of src/src/servers/message_queue.c.  A   *)
(* player's id is the slot that insert_id gives it; remove_id empties the  *)
(* slot; get_connections reports a counter kept beside the table.  The     *)
(* websocket thread (protocol_lws_minimal.c:186, :195) and each gamepad    *)
(* thread (gamepad_server.c:191, :204) call these functions, and none of   *)
(* them takes a lock, so one action here is one access to shared memory.   *)
(***************************************************************************)
EXTENDS Integers, FiniteSets

CONSTANTS
  Threads,      \* the threads that accept players
  Players,      \* the addresses passed as id: a wsi, or a gamepad's &fd
  Owner,        \* Owner[x]: the thread that connects and disconnects player x
  NULL,
  TableSize,    \* MAX_CONNECTIONS + 4, 20 in the code
  MaxDrift      \* bound: calls overlap only while the counter is above -MaxDrift

ASSUME TableAssumption ==
  /\ Owner \in [Players -> Threads]
  /\ NULL \notin Players
  /\ TableSize \in Nat \ {0}
  /\ MaxDrift \in Nat

Slots == 0..(TableSize - 1)

VARIABLES
  connection_ids,   \* the table
  num_connections,
  firstTime,        \* the static of insert_id
  pc,               \* where each thread is
  id,               \* the argument of its call
  at,               \* its loop variable
  index,            \* insert_id's index
  local,            \* insert_id's new_connection_count, or the value that
                    \* num_connections-- has read
  connected,        \* the players whose insert_id has returned
  idOf,             \* the id that each of them was given
  alone,            \* history: no other call has overlapped this one
  overlapped        \* history: two calls have overlapped, now or earlier

shared == <<connection_ids, num_connections, firstTime>>
locals == <<id, at, index, local>>
vars == <<shared, pc, locals, connected, idOf, alone, overlapped>>

Init ==
  /\ connection_ids = [s \in Slots |-> NULL]
  /\ num_connections = 0
  /\ firstTime = TRUE
  /\ pc = [t \in Threads |-> "idle"]
  /\ id = [t \in Threads |-> NULL]
  /\ at = [t \in Threads |-> 0]
  /\ index = [t \in Threads |-> -1]
  /\ local = [t \in Threads |-> 0]
  /\ connected = {}
  /\ idOf = [x \in Players |-> -1]
  /\ alone = [t \in Threads |-> TRUE] /\ overlapped = FALSE

OthersIdle(t) == \A u \in Threads \ {t} : pc[u] = "idle"

(***************************************************************************)
(* Thread t begins a call; overlapping calls stop being alone.  The races  *)
(* below can drive the counter down without limit (a stale value is        *)
(* decremented and stored again and again), hence the bound MaxDrift.      *)
(***************************************************************************)
Call(t, x, label) ==
  /\ pc[t] = "idle"
  /\ num_connections >= -MaxDrift \/ OthersIdle(t)
  /\ pc' = [pc EXCEPT ![t] = label]
  /\ id' = [id EXCEPT ![t] = x]
  /\ at' = [at EXCEPT ![t] = 0]
  /\ alone' = [u \in Threads |-> IF u = t THEN OthersIdle(t) ELSE pc[u] = "idle"]
  /\ overlapped' = (overlapped \/ ~OthersIdle(t))

Goto(t, label) == pc' = [pc EXCEPT ![t] = label]

\* Thread t returns: its locals are gone.
Return(t) ==
  /\ Goto(t, "idle")
  /\ id' = [id EXCEPT ![t] = NULL]
  /\ at' = [at EXCEPT ![t] = 0]
  /\ index' = [index EXCEPT ![t] = -1]
  /\ local' = [local EXCEPT ![t] = 0]
  /\ alone' = [alone EXCEPT ![t] = TRUE]
  /\ UNCHANGED overlapped

NextSlot(t) == at' = [at EXCEPT ![t] = @ + 1]

-------------------------------------------------------------------------------
(* Faulty variants of definitions below, in no specification: each is a     *)
(* mistake that one of the properties at the end would catch.              *)

\* The first slot is taken without a look at what is in it.
ScanSlotBlindly(t) ==
  /\ pc[t] = "scan"
  /\ Goto(t, "claim")
  /\ UNCHANGED <<shared, locals, connected, idOf, alone, overlapped>>

\* The scan is not left once a slot is found.
ClaimSlotGoesOn(t) ==
  /\ pc[t] = "claim"
  /\ connection_ids' = [connection_ids EXCEPT ![at[t]] = id[t]]
  /\ index' = [index EXCEPT ![t] = at[t]]
  /\ NextSlot(t)
  /\ Goto(t, "scan")
  /\ UNCHANGED <<num_connections, firstTime, id, local, connected, idOf, alone, overlapped>>

\* Ids from 1, and a counter that is incremented instead of recounted.
InsertReturnWith(t, count, given) ==
  /\ pc[t] = "store"
  /\ num_connections' = count
  /\ connected' = connected \cup {id[t]}
  /\ idOf' = [idOf EXCEPT ![id[t]] = given]
  /\ Return(t)
  /\ UNCHANGED <<connection_ids, firstTime>>
InsertReturnFromOne(t) == InsertReturnWith(t, local[t], index[t] + 1)
InsertReturnIncrements(t) == InsertReturnWith(t, num_connections + 1, index[t])

\* The slot keeps the player that has left.
EraseSlotKeeps(t) ==
  /\ pc[t] = "erase"
  /\ Goto(t, "load")
  /\ UNCHANGED <<shared, locals, connected, idOf, alone, overlapped>>

\* num_connections-- is missing.
RemoveReturnUncounted(t) ==
  /\ pc[t] = "decrement"
  /\ num_connections' = local[t]
  /\ connected' = connected \ {id[t]}
  /\ idOf' = [idOf EXCEPT ![id[t]] = -1]
  /\ Return(t)
  /\ UNCHANGED <<connection_ids, firstTime>>

-------------------------------------------------------------------------------
(* insert_id                                                               *)

\* A player connects.
InsertCall(t) ==
  \E x \in Players \ connected :
    /\ Owner[x] = t
    /\ Call(t, x, "test")
    /\ UNCHANGED <<shared, index, local, connected, idOf>>

\* if ( firstTime ): the first caller, or callers, will clear the table.
TestFirst(t) ==
  /\ pc[t] = "test"
  /\ Goto(t, IF firstTime THEN "reset" ELSE "scan")
  /\ UNCHANGED <<shared, locals, connected, idOf, alone, overlapped>>

ResetFirst(t) ==
  /\ pc[t] = "reset"
  /\ firstTime' = FALSE
  /\ Goto(t, "clear")
  /\ UNCHANGED <<connection_ids, num_connections, locals, connected, idOf, alone, overlapped>>

ClearSlot(t) ==
  /\ pc[t] = "clear"
  /\ \/ /\ at[t] < TableSize
        /\ connection_ids' = [connection_ids EXCEPT ![at[t]] = NULL]
        /\ NextSlot(t)
        /\ UNCHANGED pc
     \/ /\ at[t] = TableSize
        /\ at' = [at EXCEPT ![t] = 0]
        /\ Goto(t, "scan")
        /\ UNCHANGED connection_ids
  /\ UNCHANGED <<num_connections, firstTime, id, index, local, connected, idOf, alone, overlapped>>

\* Look for a free slot; the test and the assignment are two accesses.
ScanSlot(t) ==
  /\ pc[t] = "scan"
  /\ \/ /\ at[t] < TableSize /\ connection_ids[at[t]] = NULL
        /\ Goto(t, "claim")
        /\ UNCHANGED at
     \/ /\ at[t] < TableSize /\ connection_ids[at[t]] # NULL
        /\ NextSlot(t)
        /\ UNCHANGED pc
     \/ /\ at[t] = TableSize        \* no slot is free: index stays -1
        /\ Goto(t, "count")
        /\ at' = [at EXCEPT ![t] = 0]
  /\ UNCHANGED <<shared, id, index, local, connected, idOf, alone, overlapped>>

ClaimSlot(t) ==
  /\ pc[t] = "claim"
  /\ connection_ids' = [connection_ids EXCEPT ![at[t]] = id[t]]
  /\ index' = [index EXCEPT ![t] = at[t]]
  /\ at' = [at EXCEPT ![t] = 0]
  /\ Goto(t, "count")
  /\ UNCHANGED <<num_connections, firstTime, id, local, connected, idOf, alone, overlapped>>

CountSlot(t) ==
  /\ pc[t] = "count"
  /\ \/ /\ at[t] < TableSize
        /\ local' = [local EXCEPT ![t] = IF connection_ids[at[t]] = NULL THEN @ ELSE @ + 1]
        /\ NextSlot(t)
        /\ UNCHANGED pc
     \/ /\ at[t] = TableSize
        /\ Goto(t, "store")
        /\ UNCHANGED <<at, local>>
  /\ UNCHANGED <<shared, id, index, connected, idOf, alone, overlapped>>

\* num_connections = new_connection_count, and return the index to the caller.
InsertReturn(t) ==
  /\ pc[t] = "store"
  /\ num_connections' = local[t]
  /\ connected' = connected \cup {id[t]}
  /\ idOf' = [idOf EXCEPT ![id[t]] = index[t]]
  /\ Return(t)
  /\ UNCHANGED <<connection_ids, firstTime>>

insert_id(t) ==
  \/ InsertCall(t) \/ TestFirst(t) \/ ResetFirst(t) \/ ClearSlot(t)
  \/ ScanSlot(t) \/ ClaimSlot(t) \/ CountSlot(t) \/ InsertReturn(t)

-------------------------------------------------------------------------------
(* remove_id                                                               *)

RemoveCall(t) ==
  \E x \in connected :
    /\ Owner[x] = t
    /\ Call(t, x, "find")
    /\ UNCHANGED <<shared, index, local, connected, idOf>>

\* A player that insert_id found no slot for, or whose slot another thread has
\* overwritten, is found nowhere.
FindSlot(t) ==
  /\ pc[t] = "find" /\ at[t] < TableSize
  /\ \/ connection_ids[at[t]] = id[t] /\ Goto(t, "erase") /\ UNCHANGED at
     \/ connection_ids[at[t]] # id[t] /\ NextSlot(t) /\ UNCHANGED pc
  /\ UNCHANGED <<shared, id, index, local, connected, idOf, alone, overlapped>>

FindNothing(t) ==
  /\ pc[t] = "find" /\ at[t] = TableSize
  /\ connected' = connected \ {id[t]}
  /\ idOf' = [idOf EXCEPT ![id[t]] = -1]
  /\ Return(t)
  /\ UNCHANGED shared

EraseSlot(t) ==
  /\ pc[t] = "erase"
  /\ connection_ids' = [connection_ids EXCEPT ![at[t]] = NULL]
  /\ Goto(t, "load")
  /\ UNCHANGED <<num_connections, firstTime, locals, connected, idOf, alone, overlapped>>

\* num_connections-- is a read and a write.
LoadCount(t) ==
  /\ pc[t] = "load"
  /\ local' = [local EXCEPT ![t] = num_connections]
  /\ Goto(t, "decrement")
  /\ UNCHANGED <<shared, id, at, index, connected, idOf, alone, overlapped>>

RemoveReturn(t) ==
  /\ pc[t] = "decrement"
  /\ num_connections' = local[t] - 1
  /\ connected' = connected \ {id[t]}
  /\ idOf' = [idOf EXCEPT ![id[t]] = -1]
  /\ Return(t)
  /\ UNCHANGED <<connection_ids, firstTime>>

remove_id(t) ==
  RemoveCall(t) \/ FindSlot(t) \/ FindNothing(t) \/ EraseSlot(t) \/ LoadCount(t) \/ RemoveReturn(t)

Next == \E t \in Threads : insert_id(t) \/ remove_id(t)

Spec == Init /\ [][Next]_vars

-------------------------------------------------------------------------------
(* Properties.                                                             *)

Inserting == {"test", "reset", "clear", "scan", "claim", "count", "store"}
Removing == {"find", "erase", "load", "decrement"}

TypeOK ==
  /\ connection_ids \in [Slots -> Players \cup {NULL}]
  /\ num_connections \in Int
  /\ firstTime \in BOOLEAN
  /\ pc \in [Threads -> {"idle"} \cup Inserting \cup Removing]
  /\ id \in [Threads -> Players \cup {NULL}]
  /\ at \in [Threads -> 0..TableSize]
  /\ index \in [Threads -> Slots \cup {-1}]
  /\ local \in [Threads -> Int]
  /\ connected \subseteq Players
  /\ idOf \in [Players -> Slots \cup {-1}]
  /\ alone \in [Threads -> BOOLEAN] /\ overlapped \in BOOLEAN

Idle == \A t \in Threads : pc[t] = "idle"
Occupied == {s \in Slots : connection_ids[s] # NULL}
Leaving(x) == pc[Owner[x]] \in Removing /\ id[Owner[x]] = x

\* However the calls interleave, a player that has left is in no slot: the
\* table holds connected players and arguments of calls in progress only.
NoGhosts ==
  \A s \in Occupied :
    LET x == connection_ids[s]
    IN  x \in connected \/ (pc[Owner[x]] \in Inserting /\ id[Owner[x]] = x)

\* However the calls interleave, no player has two ids.
OneSlotEach ==
  \A s, u \in Occupied : connection_ids[s] = connection_ids[u] => s = u

\* A call of insert_id that no other call overlaps leaves an exact counter,
\* even if earlier races had made it drift, and fails only on a full table.
LoneInsertIsExact ==
  [][\A t \in Threads :
       pc[t] = "store" /\ alone[t] /\ pc'[t] = "idle" =>
         /\ num_connections' = Cardinality(Occupied)
         /\ IF index[t] = -1 THEN Occupied = Slots ELSE connection_ids[index[t]] = id[t]]_vars

\* As long as no calls have overlapped, the id a player was given is its own
\* slot until it leaves (get_connected and the id in its messages rely on it).
IdsAreKept ==
  ~overlapped => \A x \in connected : idOf[x] # -1 /\ ~Leaving(x) => connection_ids[idOf[x]] = x

\* As long as no calls have overlapped, the counter is the number of occupied
\* slots between calls, also while more players are connected than have a slot.
CountIsOccupied == Idle /\ ~overlapped => num_connections = Cardinality(Occupied)
===============================================================================
