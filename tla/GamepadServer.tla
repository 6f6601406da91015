----------------------------- MODULE GamepadServer -----------------------------
(***************************************************************************)
(* joystick_event_thread of src/src/servers/bt/gamepad_server.c: main      *)
(* starts a few of these threads with argv NULL; each takes a device       *)
(* number from the static num_threads, waits for /dev/input/js<number>,    *)
(* registers a player, and turns the device's events into messages until a *)
(* read fails.  Then it calls itself with its number as argv "to wait for  *)
(* a new connection" -- and number 0, cast to a pointer, is NULL again.    *)
(*                                                                         *)
(* num_threads is shared without a lock, so its accesses are separate      *)
(* steps.  The kernel's joystick devices are external: they come and go,   *)
(* and tell their state on open with events that have JS_EVENT_INIT set.   *)
(* enq_msg and the table of players are modelled in MessageQueue and       *)
(* ConnectionTable; here a message is seen as soon as it is enqueued, and  *)
(* the table has room and gives no id twice.                               *)
(***************************************************************************)
EXTENDS Integers, FiniteSets

CONSTANTS
  Threads,      \* the gamepad threads, 2 in main.c
  Devices,      \* the device numbers that may appear, 0 among them
  AxisValues,   \* js.value of an axis event, in units of SHRT_MAX
  Events,       \* the events that the devices send
  Players,      \* the ids that insert_id may give to gamepads
  MaxFiles,     \* the devices that the process may have open
  NULL

(***************************************************************************)
(* A js_event: an axis (type 2) or a button (type 1) with its number and   *)
(* value.  init is the bit JS_EVENT_INIT of the type: such an event tells  *)
(* the state that a control has, and comes before those of its changes.    *)
(* Axes 2 and up, and buttons 1 and up, are all alike.                     *)
(***************************************************************************)
JsEvent ==
  [type : {"axis"}, number : {0, 1, 2}, value : AxisValues, init : BOOLEAN]
    \cup [type : {"button"}, number : {0, 1}, value : {0, 1}, init : BOOLEAN]

ASSUME GamepadAssumption ==
  /\ IsFiniteSet(Threads)
  /\ Devices \subseteq Nat /\ 0 \in Devices
  /\ AxisValues \subseteq Int /\ 0 \in AxisValues
  /\ Events \subseteq JsEvent
  /\ IsFiniteSet(Players) /\ Cardinality(Players) >= Cardinality(Threads)
  /\ MaxFiles \in Nat
  /\ NULL \notin Nat \cup Players

VARIABLES
  num_threads,
  pc, argv, jid,   \* each thread's position, argument and device number
  load,            \* the value num_threads++ has read
  files,           \* how many descriptors of devices are open
  id,              \* each thread's player id, NULL while it is in no table
  msg_to_q,        \* each thread's message, reused from event to event
  present,         \* the devices that exist now
  device,          \* external: axes and first button of the device that is read
  told,            \* history: which of these it has reported to have changed
  seen             \* what a script that follows the messages believes of a player

vars == <<num_threads, pc, argv, jid, load, files, id, msg_to_q, present, device, told, seen>>
enumeration == <<num_threads, argv, jid, load>>
connection == <<files, id>>
stream == <<msg_to_q, device, told, seen>>

FirstMessage == [type |-> "MSG_MOTION_VECTOR", x |-> 0, y |-> 0]
AtRest == [x |-> 0, y |-> 0, button |-> 0]

Init ==
  /\ num_threads = 0
  /\ pc = [t \in Threads |-> "enter"]
  /\ argv = [t \in Threads |-> NULL]
  /\ jid = [t \in Threads |-> 0]
  /\ load = [t \in Threads |-> 0]
  /\ files = 0
  /\ id = [t \in Threads |-> NULL]
  /\ msg_to_q = [t \in Threads |-> FirstMessage]
  /\ present \in SUBSET Devices
  /\ device = [t \in Threads |-> AtRest]
  /\ told = [t \in Threads |-> {}]
  /\ seen = [p \in Players |-> AtRest]

Goto(t, from, to) == pc[t] = from /\ pc' = [pc EXCEPT ![t] = to]

-------------------------------------------------------------------------------
(* Faulty variants of definitions below, in no specification: each is a     *)
(* mistake that one of the properties at the end would catch.              *)

\* Button A's release is not told.
HandleNoRelease(m, e) ==
  CASE e.type = "axis" /\ ~e.init ->
         [m EXCEPT !.type = "MSG_MOTION_VECTOR",
                   !.x = IF e.number = 0 THEN 10 * e.value ELSE @,
                   !.y = IF e.number = 1 THEN 10 * e.value ELSE @]
    [] e.type = "button" /\ e.number = 0 /\ e.value = 1 /\ ~e.init ->
         [m EXCEPT !.type = "MSG_BTN_A"]
    [] OTHER -> m

\* The thread starts anew with argument a, and num_threads is num.
DisconnectWith(t, a, num) ==
  /\ jid[t] \notin present
  /\ Goto(t, "read", "enter")
  /\ id' = [id EXCEPT ![t] = NULL]
  /\ argv' = [argv EXCEPT ![t] = a]
  /\ num_threads' = num
  /\ msg_to_q' = [msg_to_q EXCEPT ![t] = FirstMessage]
  /\ device' = [device EXCEPT ![t] = AtRest]
  /\ told' = [told EXCEPT ![t] = {}]
  /\ UNCHANGED <<jid, load, files, present, seen>>

\* The thread never asks for its old number.
DisconnectForgets(t) == DisconnectWith(t, NULL, num_threads)

-------------------------------------------------------------------------------
(* Which device: jid = num_threads, unless argv says which.                *)

TakeArgument(t) ==
  /\ argv[t] # NULL
  /\ Goto(t, "enter", "open")
  /\ jid' = [jid EXCEPT ![t] = argv[t]]
  /\ UNCHANGED <<num_threads, argv, load, connection, stream, present>>

TakeNumber(t) ==
  /\ argv[t] = NULL
  /\ Goto(t, "enter", "load")
  /\ jid' = [jid EXCEPT ![t] = num_threads]
  /\ UNCHANGED <<num_threads, argv, load, connection, stream, present>>

LoadNumber(t) ==
  /\ Goto(t, "load", "store")
  /\ load' = [load EXCEPT ![t] = num_threads]
  /\ UNCHANGED <<num_threads, argv, jid, connection, stream, present>>

StoreNumber(t) ==
  /\ Goto(t, "store", "open")
  /\ num_threads' = load[t] + 1
  /\ load' = [load EXCEPT ![t] = 0]
  /\ UNCHANGED <<argv, jid, connection, stream, present>>

-------------------------------------------------------------------------------
(* open in a loop, then insert_id and the event loop.                      *)

\* The descriptor is never closed; when there are no more, open fails for good.
Open(t) ==
  /\ jid[t] \in present
  /\ Goto(t, "open", "read")
  /\ files < MaxFiles /\ files' = files + 1
  /\ \E p \in Players \ {id[u] : u \in Threads} : id' = [id EXCEPT ![t] = p]
  /\ UNCHANGED <<enumeration, stream, present>>

\* nval = 10 * value / SHRT_MAX
nval(v) == 10 * v

\* The switch of the event loop, which knows no type with JS_EVENT_INIT set:
\* what is not set keeps its value of the previous event, the type included.
Handle(m, e) ==
  CASE e.type = "axis" /\ ~e.init ->
         [m EXCEPT !.type = "MSG_MOTION_VECTOR",
                   !.x = IF e.number = 0 THEN nval(e.value) ELSE @,
                   !.y = IF e.number = 1 THEN nval(e.value) ELSE @]
    [] e.type = "button" /\ e.number = 0 /\ ~e.init ->
         [m EXCEPT !.type = IF e.value = 1 THEN "MSG_BTN_A" ELSE "MSG_BTN_A_UP"]
    [] OTHER -> m

\* The controls of interest that an event is about, none or one.
Controls(e) ==
  CASE e.type = "axis" /\ e.number = 0 -> {"x"}
    [] e.type = "axis" /\ e.number = 1 -> {"y"}
    [] e.type = "button" /\ e.number = 0 -> {"button"}
    [] OTHER -> {}

\* The device as its events describe it.
DeviceAfter(d, e) ==
  [x |-> IF "x" \in Controls(e) THEN nval(e.value) ELSE d.x,
   y |-> IF "y" \in Controls(e) THEN nval(e.value) ELSE d.y,
   button |-> IF "button" \in Controls(e) THEN e.value ELSE d.button]

\* The player's device as a message describes it (settings.lua, MSG_* types).
SeenAfter(s, m) ==
  [x |-> IF m.type = "MSG_MOTION_VECTOR" THEN m.x ELSE s.x,
   y |-> IF m.type = "MSG_MOTION_VECTOR" THEN m.y ELSE s.y,
   button |-> IF m.type = "MSG_BTN_A" THEN 1 ELSE IF m.type = "MSG_BTN_A_UP" THEN 0
              ELSE s.button]

\* A successful read, and enq_msg whatever the event was.
Read(t) ==
  /\ pc[t] = "read" /\ jid[t] \in present
  /\ \E e \in Events :
       /\ e.init => told[t] = {}
       /\ msg_to_q' = [msg_to_q EXCEPT ![t] = Handle(@, e)]
       /\ device' = [device EXCEPT ![t] = DeviceAfter(@, e)]
       /\ told' = [told EXCEPT ![t] = IF e.init THEN @ ELSE @ \cup Controls(e)]
       /\ seen' = [seen EXCEPT ![id[t]] = SeenAfter(@, msg_to_q'[t])]
  /\ UNCHANGED <<pc, enumeration, connection, present>>

\* A failed read: remove_id, and the call to itself with (void*)jid; the new
\* call begins with a message of its own.  The script is told nothing.
Disconnect(t) ==
  /\ jid[t] \notin present
  /\ Goto(t, "read", "enter")
  /\ id' = [id EXCEPT ![t] = NULL]
  /\ argv' = [argv EXCEPT ![t] = IF jid[t] = 0 THEN NULL ELSE jid[t]]
  /\ msg_to_q' = [msg_to_q EXCEPT ![t] = FirstMessage]
  /\ device' = [device EXCEPT ![t] = AtRest]
  /\ told' = [told EXCEPT ![t] = {}]
  /\ UNCHANGED <<num_threads, jid, load, files, present, seen>>

joystick_event_thread(t) ==
  \/ TakeArgument(t) \/ TakeNumber(t) \/ LoadNumber(t) \/ StoreNumber(t)
  \/ Open(t) \/ Read(t) \/ Disconnect(t)

-------------------------------------------------------------------------------
(* External: gamepads connect and disconnect.                              *)

\* A number is given out again once nobody reads from the device that had it.
Plug(d) ==
  /\ d \notin present /\ (\A t \in Threads : pc[t] = "read" => jid[t] # d)
  /\ present' = present \cup {d}
  /\ UNCHANGED <<pc, enumeration, connection, stream>>

Unplug(d) ==
  /\ d \in present /\ present' = present \ {d}
  /\ UNCHANGED <<pc, enumeration, connection, stream>>

Next ==
  \/ \E t \in Threads : joystick_event_thread(t)
  \/ \E d \in Devices : Plug(d) \/ Unplug(d)

Spec == Init /\ [][Next]_vars

(***************************************************************************)
(* The scheduler runs each thread: the enumeration ends, the loop around   *)
(* open tries again every second, and a failed read is noticed.            *)
(***************************************************************************)
Fairness ==
  \A t \in Threads :
    /\ WF_vars(TakeArgument(t) \/ TakeNumber(t) \/ LoadNumber(t) \/ StoreNumber(t))
    /\ WF_vars(Open(t)) /\ WF_vars(Disconnect(t))

FairSpec == Spec /\ Fairness

-------------------------------------------------------------------------------
(* Properties.                                                             *)

TypeOK ==
  /\ num_threads \in Nat
  /\ pc \in [Threads -> {"enter", "load", "store", "open", "read"}]
  /\ argv \in [Threads -> Nat \cup {NULL}]
  /\ jid \in [Threads -> Nat] /\ load \in [Threads -> Nat]
  /\ files \in 0..MaxFiles
  /\ id \in [Threads -> Players \cup {NULL}]
  /\ \A t \in Threads : id[t] # NULL <=> pc[t] = "read"
  /\ msg_to_q \in [Threads -> [type : {"MSG_MOTION_VECTOR", "MSG_BTN_A", "MSG_BTN_A_UP"},
                               x : Int, y : Int]]
  /\ present \subseteq Devices
  /\ device \in [Threads -> [x : Int, y : Int, button : {0, 1}]]
  /\ told \in [Threads -> SUBSET {"x", "y", "button"}]
  /\ seen \in [Players -> [x : Int, y : Int, button : {0, 1}]]

\* A thread takes a new number at most twice, once at its start and once when
\* it loses device 0, however often devices come and go and however the
\* accesses to num_threads interleave: the number has one digit, which is all
\* that the two characters of str_num have room for.
NumbersAreBounded == \A t \in Threads : jid[t] < 2 * Cardinality(Threads)

\* Each event enqueues a message, the one of an earlier event if it sets nothing
\* in it (gamepad_server.c:209-231), and a player id has a past: a disconnect is
\* not told to the script, and the device's state on open is not either.  All
\* the same, once an axis or button A of the device has changed, the script is
\* right about it, and stays so until the device is lost: neither repeated
\* messages, nor the fields left over from other events, nor what it believed
\* of the player before take that back.
ScriptSeesWhatMoves ==
  \A t \in Threads : \A c \in told[t] : seen[id[t]][c] = device[t][c]

\* "wait for a new connection" (gamepad_server.c:205): a device that a thread
\* has lost is read again once it is back for good, unless the descriptors that
\* nobody closes have been used up.  Device 0 is excepted: its number is taken
\* for a NULL argument, and the thread takes another one.
NonzeroDevicesReconnect ==
  \A d \in Devices \ {0} :
    <>[](d \in present) =>
      \A t \in Threads :
        (pc[t] = "read" /\ jid[t] = d /\ d \notin present)
          ~> \/ d \in present /\ \E u \in Threads : pc[u] = "read" /\ jid[u] = d
             \/ files = MaxFiles
===============================================================================
