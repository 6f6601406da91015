--------------------------- MODULE BluetoothProofs ----------------------------
(***************************************************************************)
(* Proofs about the two kinds of threads that gamepad_server.c has: those  *)
(* of GamepadServer, which read the gamepads, for every number of threads  *)
(* and devices and every sequence of events, and those of PairLoop, which  *)
(* look for new ones, for every number of threads, process ids and files.  *)
(* The two share no variable, and each has its own specification.          *)
(***************************************************************************)
EXTENDS GamepadServer, PairLoop, FiniteSetTheorems, TLAPS

-------------------------------------------------------------------------------
(* Types.                                                                  *)

LEMMA TypeInit == Init => TypeOK
BY GamepadAssumption DEF Init, TypeOK, FirstMessage, AtRest

Message == [type : {"MSG_MOTION_VECTOR", "MSG_BTN_A", "MSG_BTN_A_UP"}, x : Int, y : Int]
State == [x : Int, y : Int, button : {0, 1}]

LEMMA HandleTyped ==
  ASSUME NEW m \in Message, NEW e \in JsEvent, e.value \in Int
  PROVE  Handle(m, e) \in Message
<1>1. CASE e.type = "axis" /\ ~e.init
  <2>1. /\ Handle(m, e).type = "MSG_MOTION_VECTOR"
        /\ Handle(m, e).x \in Int /\ Handle(m, e).y \in Int
    <3>1. nval(e.value) \in Int
      BY DEF nval
    <3>2. Handle(m, e) = [m EXCEPT !.type = "MSG_MOTION_VECTOR",
                            !.x = IF e.number = 0 THEN nval(e.value) ELSE @,
                            !.y = IF e.number = 1 THEN nval(e.value) ELSE @]
      BY <1>1 DEF Handle
    <3> QED
      BY <3>1, <3>2 DEF Message
  <2>2. /\ DOMAIN Handle(m, e) = {"type", "x", "y"}
        /\ Handle(m, e) = [type |-> Handle(m, e).type, x |-> Handle(m, e).x,
                           y |-> Handle(m, e).y]
    BY <1>1 DEF Handle, Message
  <2> QED
    BY <2>1, <2>2 DEF Message
<1>2. CASE e.type = "button" /\ e.number = 0 /\ ~e.init
  BY <1>2 DEF Handle, Message
<1>3. CASE ~(e.type = "axis" /\ ~e.init) /\ ~(e.type = "button" /\ e.number = 0 /\ ~e.init)
  BY <1>3 DEF Handle
<1> QED
  BY <1>1, <1>2, <1>3

\* The values of the events that the devices send.
LEMMA EventTyped ==
  ASSUME NEW e \in Events
  PROVE  /\ e \in JsEvent /\ e.value \in Int
         /\ e.type = "button" => e.value \in {0, 1}
<1>1. e \in JsEvent
  BY GamepadAssumption
<1>2. CASE e \in [type : {"axis"}, number : {0, 1, 2}, value : AxisValues, init : BOOLEAN]
  BY <1>1, <1>2, GamepadAssumption
<1>3. CASE e \in [type : {"button"}, number : {0, 1}, value : {0, 1}, init : BOOLEAN]
  BY <1>1, <1>3
<1> QED
  BY <1>1, <1>2, <1>3 DEF JsEvent

\* What a read does, in terms of the event, the player and the values before.
LEMMA ReadIs ==
  ASSUME TypeOK, NEW t \in Threads, Read(t)
  PROVE  \E e \in Events :
           /\ id[t] \in Players
           /\ e.init => told[t] = {}
           /\ msg_to_q' = [msg_to_q EXCEPT ![t] = Handle(msg_to_q[t], e)]
           /\ device' = [device EXCEPT ![t] = DeviceAfter(device[t], e)]
           /\ told' = [told EXCEPT ![t] = IF e.init THEN told[t] ELSE told[t] \cup Controls(e)]
           /\ seen' = [seen EXCEPT ![id[t]] = SeenAfter(seen[id[t]], Handle(msg_to_q[t], e))]
           /\ Handle(msg_to_q[t], e) \in Message
           /\ DeviceAfter(device[t], e) \in State
           /\ SeenAfter(seen[id[t]], Handle(msg_to_q[t], e)) \in State
<1>1. PICK e \in Events :
        /\ e.init => told[t] = {}
        /\ msg_to_q' = [msg_to_q EXCEPT ![t] = Handle(@, e)]
        /\ device' = [device EXCEPT ![t] = DeviceAfter(@, e)]
        /\ told' = [told EXCEPT ![t] = IF e.init THEN @ ELSE @ \cup Controls(e)]
        /\ seen' = [seen EXCEPT ![id[t]] = SeenAfter(@, msg_to_q'[t])]
  BY DEF Read
<1>2. id[t] \in Players
  BY DEF Read, TypeOK
<1>3. e \in JsEvent /\ e.value \in Int /\ (e.type = "button" => e.value \in {0, 1})
  BY EventTyped
<1>4. msg_to_q[t] \in Message /\ device[t] \in State /\ seen[id[t]] \in State
  BY <1>2 DEF TypeOK, Message, State
<1>5. Handle(msg_to_q[t], e) \in Message
  BY <1>3, <1>4, HandleTyped
<1>6. DeviceAfter(device[t], e) \in State
  BY <1>3, <1>4 DEF DeviceAfter, Controls, nval, State
<1>7. SeenAfter(seen[id[t]], Handle(msg_to_q[t], e)) \in State
  BY <1>4, <1>5 DEF SeenAfter, Message, State
<1>8. msg_to_q'[t] = Handle(msg_to_q[t], e)
  BY <1>1 DEF TypeOK
<1> QED
  BY <1>1, <1>2, <1>5, <1>6, <1>7, <1>8

LEMMA ReadTyped ==
  ASSUME TypeOK, NEW t \in Threads, Read(t)
  PROVE  TypeOK'
<1>1. PICK e \in Events :
        /\ id[t] \in Players
        /\ msg_to_q' = [msg_to_q EXCEPT ![t] = Handle(msg_to_q[t], e)]
        /\ device' = [device EXCEPT ![t] = DeviceAfter(device[t], e)]
        /\ told' = [told EXCEPT ![t] = IF e.init THEN told[t] ELSE told[t] \cup Controls(e)]
        /\ seen' = [seen EXCEPT ![id[t]] = SeenAfter(seen[id[t]], Handle(msg_to_q[t], e))]
        /\ Handle(msg_to_q[t], e) \in Message
        /\ DeviceAfter(device[t], e) \in State
        /\ SeenAfter(seen[id[t]], Handle(msg_to_q[t], e)) \in State
  BY ReadIs
<1>2. UNCHANGED <<pc, num_threads, argv, jid, load, files, id, present>>
  BY DEF Read, enumeration, connection
<1>3. msg_to_q' \in [Threads -> Message] /\ device' \in [Threads -> State]
  BY <1>1 DEF TypeOK, Message, State
<1>4. seen' \in [Players -> State]
  BY <1>1 DEF TypeOK, State
<1>5. told' \in [Threads -> SUBSET {"x", "y", "button"}]
  <2>1. Controls(e) \subseteq {"x", "y", "button"}
    BY DEF Controls
  <2> QED
    BY <1>1, <2>1 DEF TypeOK
<1> QED
  BY <1>2, <1>3, <1>4, <1>5 DEF TypeOK, Message, State

LEMMA TypeStep == TypeOK /\ [Next]_vars => TypeOK'
<1> SUFFICES ASSUME TypeOK, [Next]_vars PROVE TypeOK'
  OBVIOUS
<1> USE GamepadAssumption DEF TypeOK, enumeration, connection, stream, Goto
<1>1. ASSUME NEW t \in Threads, TakeArgument(t) PROVE TypeOK'
  BY <1>1 DEF TakeArgument
<1>2. ASSUME NEW t \in Threads, TakeNumber(t) PROVE TypeOK'
  BY <1>2 DEF TakeNumber
<1>3. ASSUME NEW t \in Threads, LoadNumber(t) PROVE TypeOK'
  BY <1>3 DEF LoadNumber
<1>4. ASSUME NEW t \in Threads, StoreNumber(t) PROVE TypeOK'
  BY <1>4 DEF StoreNumber
<1>5. ASSUME NEW t \in Threads, Open(t) PROVE TypeOK'
  <2>1. PICK p \in Players : id' = [id EXCEPT ![t] = p]
    BY <1>5 DEF Open
  <2>2. files' \in 0..MaxFiles
    BY <1>5 DEF Open
  <2> QED
    BY <1>5, <2>1, <2>2 DEF Open
<1>6. ASSUME NEW t \in Threads, Disconnect(t) PROVE TypeOK'
  BY <1>6 DEF Disconnect, FirstMessage, AtRest
<1>7. ASSUME NEW d \in Devices, Plug(d) \/ Unplug(d) PROVE TypeOK'
  <2>1. present' = present \cup {d} \/ present' = present \ {d}
    BY <1>7 DEF Plug, Unplug
  <2>2. present' \subseteq Devices
    <3>1. present \subseteq Devices
      OBVIOUS
    <3> QED
      BY ONLY <2>1, <3>1
  <2>3. UNCHANGED <<pc, num_threads, argv, jid, load, files, id, msg_to_q, device, told, seen>>
    BY <1>7 DEF Plug, Unplug
  <2> QED
    BY <2>3, <2>2
<1>8. CASE UNCHANGED vars
  BY <1>8 DEF vars
<1> QED
  BY <1>1, <1>2, <1>3, <1>4, <1>5, <1>6, <1>7, <1>8, ReadTyped DEF Next, joystick_event_thread

(* Every variable of the gamepad threads keeps its type.                   *)
THEOREM GamepadTyped == Spec => []TypeOK
<1> QED
  BY TypeInit, TypeStep, PTL DEF Spec

-------------------------------------------------------------------------------
(* Messages.                                                               *)

\* The message that is reused from event to event says nothing else about a
\* control than the device, once that control has changed; and if it says that
\* button A was pressed or released, the button has changed.
Truthful(m, d, c) ==
  /\ "x" \in c => m.x = d.x
  /\ "y" \in c => m.y = d.y
  /\ m.type = "MSG_BTN_A" => "button" \in c /\ d.button = 1
  /\ m.type = "MSG_BTN_A_UP" => "button" \in c /\ d.button = 0

Right(s, d, c) ==
  /\ "x" \in c => s.x = d.x
  /\ "y" \in c => s.y = d.y
  /\ "button" \in c => s.button = d.button

MessageInv ==
  /\ \A t \in Threads :
       /\ Truthful(msg_to_q[t], device[t], told[t])
       /\ told[t] # {} => id[t] # NULL
       /\ Right(seen[id[t]], device[t], told[t])
  /\ \A t, u \in Threads : id[t] = id[u] => t = u \/ id[t] = NULL

LEMMA MessageInit == Init => MessageInv
BY DEF Init, MessageInv, Truthful, Right, FirstMessage, AtRest

\* One event: the message stays truthful, and makes the script right about
\* the control that has changed, wherever it was right before.
LEMMA EventTellsTheTruth ==
  ASSUME NEW m \in Message, NEW d \in State, NEW s \in State, NEW c, NEW e \in Events,
         c \subseteq {"x", "y", "button"}, e.init => c = {},
         Truthful(m, d, c), Right(s, d, c)
  PROVE  LET n == Handle(m, e)
             f == DeviceAfter(d, e)
             b == IF e.init THEN c ELSE c \cup Controls(e)
         IN  Truthful(n, f, b) /\ Right(SeenAfter(s, n), f, b)
<1> DEFINE n == Handle(m, e)
           f == DeviceAfter(d, e)
           b == IF e.init THEN c ELSE c \cup Controls(e)
<1>1. e \in JsEvent /\ (e.type = "button" => e.value \in {0, 1})
  BY EventTyped
<1>2. CASE e.init
  <2>1. n = m /\ b = {} /\ c = {}
    BY <1>2 DEF Handle
  <2> QED
    BY <2>1 DEF Truthful, Right
<1>3. CASE e.type = "axis" /\ ~e.init
  <2>1. /\ n.type = "MSG_MOTION_VECTOR"
        /\ n.x = IF e.number = 0 THEN nval(e.value) ELSE m.x
        /\ n.y = IF e.number = 1 THEN nval(e.value) ELSE m.y
    <3>1. n = [m EXCEPT !.type = "MSG_MOTION_VECTOR",
                 !.x = IF e.number = 0 THEN nval(e.value) ELSE @,
                 !.y = IF e.number = 1 THEN nval(e.value) ELSE @]
      BY <1>3 DEF Handle
    <3> QED
      BY <3>1 DEF Message
  <2>2. /\ "x" \in Controls(e) <=> e.number = 0
        /\ "y" \in Controls(e) <=> e.number = 1
        /\ "button" \notin Controls(e)
    BY <1>3 DEF Controls
  <2>3. /\ f.x = IF e.number = 0 THEN nval(e.value) ELSE d.x
        /\ f.y = IF e.number = 1 THEN nval(e.value) ELSE d.y
        /\ f.button = d.button
    BY <2>2 DEF DeviceAfter
  <2>4. SeenAfter(s, n).x = n.x /\ SeenAfter(s, n).y = n.y /\ SeenAfter(s, n).button = s.button
    BY <2>1 DEF SeenAfter
  <2>5. b = c \cup Controls(e)
    BY <1>3
  <2> HIDE DEF n, f, b
  <2>6. Truthful(n, f, b)
    BY <2>1, <2>2, <2>3, <2>5 DEF Truthful
  <2>7. Right(SeenAfter(s, n), f, b)
    BY <2>1, <2>2, <2>3, <2>4, <2>5 DEF Truthful, Right
  <2> QED
    BY <2>6, <2>7 DEF n, f, b
<1>4. CASE e.type = "button" /\ e.number = 0 /\ ~e.init
  BY <1>1, <1>4 DEF Handle, DeviceAfter, Controls, SeenAfter, Truthful, Right, Message, State
<1>5. CASE e.type # "axis" /\ ~(e.type = "button" /\ e.number = 0) /\ ~e.init
  BY <1>5 DEF Handle, DeviceAfter, Controls, SeenAfter, Truthful, Right, Message, State
<1> QED
  BY <1>2, <1>3, <1>4, <1>5

LEMMA ReadTellsTheTruth ==
  ASSUME TypeOK, MessageInv, NEW t \in Threads, Read(t)
  PROVE  MessageInv'
<1>1. PICK e \in Events :
        /\ id[t] \in Players
        /\ e.init => told[t] = {}
        /\ msg_to_q' = [msg_to_q EXCEPT ![t] = Handle(msg_to_q[t], e)]
        /\ device' = [device EXCEPT ![t] = DeviceAfter(device[t], e)]
        /\ told' = [told EXCEPT ![t] = IF e.init THEN told[t] ELSE told[t] \cup Controls(e)]
        /\ seen' = [seen EXCEPT ![id[t]] = SeenAfter(seen[id[t]], Handle(msg_to_q[t], e))]
  BY ReadIs
<1> DEFINE n == Handle(msg_to_q[t], e)
           f == DeviceAfter(device[t], e)
           b == IF e.init THEN told[t] ELSE told[t] \cup Controls(e)
           s == SeenAfter(seen[id[t]], n)
<1>2. id' = id
  BY DEF Read, connection
<1>3. Truthful(n, f, b) /\ Right(s, f, b)
  <2>1. /\ msg_to_q[t] \in Message /\ device[t] \in State /\ seen[id[t]] \in State
        /\ told[t] \subseteq {"x", "y", "button"}
    BY <1>1 DEF TypeOK, Message, State
  <2>2. Truthful(msg_to_q[t], device[t], told[t]) /\ Right(seen[id[t]], device[t], told[t])
    BY DEF MessageInv
  <2> QED
    BY <1>1, <2>1, <2>2, EventTellsTheTruth
<1>4. msg_to_q'[t] = n /\ device'[t] = f /\ told'[t] = b /\ seen'[id[t]] = s
  BY <1>1 DEF TypeOK
<1>5. \A u \in Threads \ {t} :
        /\ msg_to_q'[u] = msg_to_q[u] /\ device'[u] = device[u] /\ told'[u] = told[u]
        /\ told[u] # {} => seen'[id[u]] = seen[id[u]]
  <2> SUFFICES ASSUME NEW u \in Threads \ {t}
               PROVE  /\ msg_to_q'[u] = msg_to_q[u] /\ device'[u] = device[u]
                      /\ told'[u] = told[u]
                      /\ told[u] # {} => seen'[id[u]] = seen[id[u]]
    OBVIOUS
  <2>1. msg_to_q'[u] = msg_to_q[u] /\ device'[u] = device[u] /\ told'[u] = told[u]
    BY <1>1 DEF TypeOK
  <2>2. ASSUME told[u] # {} PROVE seen'[id[u]] = seen[id[u]]
    <3>1. id[u] # NULL /\ id[u] # id[t]
      BY <2>2 DEF MessageInv
    <3>2. id[u] \in Players
      BY <3>1 DEF TypeOK
    <3> QED
      BY <1>1, <3>1, <3>2 DEF TypeOK
  <2> QED
    BY <2>1, <2>2
<1> HIDE DEF n, f, b, s
<1>6. ASSUME NEW u \in Threads
      PROVE  /\ Truthful(msg_to_q'[u], device'[u], told'[u])
             /\ told'[u] # {} => id'[u] # NULL
             /\ Right(seen'[id'[u]], device'[u], told'[u])
  <2>1. CASE u = t
    <3>1. id[t] # NULL
      BY <1>1, GamepadAssumption
    <3> QED
      BY <1>2, <1>3, <1>4, <2>1, <3>1
  <2>2. CASE u # t /\ told[u] # {}
    BY <1>2, <1>5, <2>2 DEF MessageInv
  <2>3. CASE u # t /\ told[u] = {}
    BY <1>2, <1>5, <2>3 DEF MessageInv, Right
  <2> QED
    BY <2>1, <2>2, <2>3
<1>7. \A u, v \in Threads : id'[u] = id'[v] => u = v \/ id'[u] = NULL
  BY <1>2 DEF MessageInv
<1> QED
  BY <1>6, <1>7 DEF MessageInv

LEMMA MessageStep == TypeOK /\ MessageInv /\ [Next]_vars => MessageInv'
<1> SUFFICES ASSUME TypeOK, MessageInv, [Next]_vars PROVE MessageInv'
  OBVIOUS
<1>1. ASSUME NEW t \in Threads, Disconnect(t) PROVE MessageInv'
  <2>1. /\ msg_to_q'[t] = FirstMessage /\ told'[t] = {} /\ id'[t] = NULL
        /\ UNCHANGED seen
    BY <1>1 DEF Disconnect, TypeOK
  <2>2. \A u \in Threads \ {t} :
          /\ msg_to_q'[u] = msg_to_q[u] /\ device'[u] = device[u] /\ told'[u] = told[u]
          /\ id'[u] = id[u]
    BY <1>1 DEF Disconnect, TypeOK
  <2>3. Truthful(msg_to_q'[t], device'[t], told'[t]) /\ Right(seen'[id'[t]], device'[t], told'[t])
    BY <2>1 DEF Truthful, Right, FirstMessage
  <2> QED
    BY <2>1, <2>2, <2>3 DEF MessageInv
<1>2. ASSUME NEW t \in Threads, Open(t) PROVE MessageInv'
  <2>1. PICK p \in Players \ {id[u] : u \in Threads} : id' = [id EXCEPT ![t] = p]
    BY <1>2 DEF Open
  <2>2. pc[t] = "open" /\ UNCHANGED stream
    BY <1>2 DEF Open, Goto
  <2>3. told[t] = {}
    BY <2>2 DEF TypeOK, MessageInv
  <2>4. id'[t] = p /\ \A u \in Threads \ {t} : id'[u] = id[u] /\ id[u] # p
    BY <2>1 DEF TypeOK
  <2>5. p # NULL
    BY GamepadAssumption
  <2> QED
    BY <2>2, <2>3, <2>4, <2>5 DEF MessageInv, stream, Right, Truthful
<1>3. ASSUME UNCHANGED <<stream, id>> PROVE MessageInv'
  BY <1>3 DEF MessageInv, stream
<1>4. ASSUME NEW t \in Threads, joystick_event_thread(t) PROVE MessageInv'
  <2>1. Read(t) \/ Disconnect(t) \/ Open(t) \/ UNCHANGED <<stream, id>>
    BY <1>4 DEF joystick_event_thread, TakeArgument, TakeNumber, LoadNumber, StoreNumber,
                connection
  <2> QED
    BY <2>1, <1>1, <1>2, <1>3, ReadTellsTheTruth
<1>5. CASE (\E d \in Devices : Plug(d) \/ Unplug(d)) \/ UNCHANGED vars
  <2>1. UNCHANGED <<stream, id>>
    BY <1>5 DEF Plug, Unplug, vars, stream, connection
  <2> QED
    BY <2>1, <1>3
<1> QED
  BY <1>4, <1>5 DEF Next

(* Whatever a device sends, whatever its state was when it was opened, and *)
(* whatever the script believed of the player before, it is right about    *)
(* each axis and about button A from their first change on, stale fields   *)
(* and repeated messages included, until the device is lost                *)
(* (gamepad_server.c:192-231).                                             *)
THEOREM ScriptIsRightOnceTold == Spec => []ScriptSeesWhatMoves
<1>1. TypeOK /\ MessageInv => ScriptSeesWhatMoves
  <2> SUFFICES ASSUME TypeOK, MessageInv, NEW t \in Threads, NEW c \in told[t]
               PROVE  seen[id[t]][c] = device[t][c]
    BY DEF ScriptSeesWhatMoves
  <2>1. c \in {"x", "y", "button"}
    BY DEF TypeOK
  <2>2. Right(seen[id[t]], device[t], told[t])
    BY DEF MessageInv
  <2> QED
    BY <2>1, <2>2 DEF Right
<1> QED
  BY <1>1, MessageInit, MessageStep, GamepadTyped, PTL DEF Spec

-------------------------------------------------------------------------------
(* Device numbers.                                                         *)

\* The threads inside num_threads++, and those whose number is 0.
Counting == {t \in Threads : pc[t] \in {"load", "store"}}
AtZero == {t \in Threads : jid[t] = 0}

\* Whoever takes a new number has number 0, and leaves it for good once
\* num_threads has left 0, so each thread still owes at most two increments.
\* The bound is on every value that a pending increment may still write.
NumberInv ==
  /\ \A t \in Threads : pc[t] = "enter" =>
       IF argv[t] = NULL THEN jid[t] = 0 ELSE argv[t] = jid[t]
  /\ num_threads = 0 => \A t \in Threads : jid[t] = 0 /\ load[t] = 0
  /\ num_threads + Cardinality(Counting) + Cardinality(AtZero) <= 2 * Cardinality(Threads)
  /\ \A t \in Threads :
       load[t] + Cardinality(Counting) + Cardinality(AtZero) <= 2 * Cardinality(Threads)
  /\ NumbersAreBounded

LEMMA SetsAreFinite ==
  /\ IsFiniteSet(Threads) /\ Cardinality(Threads) \in Nat
  /\ IsFiniteSet(Counting) /\ Cardinality(Counting) \in Nat
  /\ Cardinality(Counting) <= Cardinality(Threads)
  /\ IsFiniteSet(AtZero) /\ Cardinality(AtZero) \in Nat
  /\ Cardinality(AtZero) <= Cardinality(Threads)
<1>1. Counting \subseteq Threads /\ AtZero \subseteq Threads
  BY DEF Counting, AtZero
<1> QED
  BY <1>1, GamepadAssumption, FS_Subset, FS_CardinalityType

LEMMA NumberInit == Init /\ Threads # {} => NumberInv
<1> SUFFICES ASSUME Init, Threads # {} PROVE NumberInv
  OBVIOUS
<1>1. Counting = {} /\ AtZero = Threads
  BY DEF Init, Counting, AtZero
<1>2. Cardinality(Counting) = 0
  BY <1>1, FS_EmptySet
<1>3. Cardinality(Threads) # 0
  BY SetsAreFinite, FS_EmptySet
<1> QED
  BY <1>1, <1>2, <1>3, SetsAreFinite DEF Init, NumberInv, NumbersAreBounded

\* A step that leaves the thread's part in the numbering alone.
LEMMA NumbersUntouched ==
  ASSUME NumberInv, UNCHANGED <<num_threads, load, jid>>,
         Counting' = Counting,
         \A t \in Threads : pc'[t] = "enter" =>
           IF argv'[t] = NULL THEN jid[t] = 0 ELSE argv'[t] = jid[t]
  PROVE  NumberInv'
BY DEF NumberInv, NumbersAreBounded, AtZero

LEMMA TakeNumberInv ==
  ASSUME TypeOK, NumberInv, NEW t \in Threads, TakeNumber(t)
  PROVE  NumberInv'
<1>1. /\ argv[t] = NULL /\ pc[t] = "enter" /\ jid[t] = 0
      /\ pc' = [pc EXCEPT ![t] = "load"] /\ jid' = [jid EXCEPT ![t] = num_threads]
      /\ UNCHANGED <<num_threads, argv, load>>
  BY DEF TakeNumber, Goto, NumberInv
<1>2. t \notin Counting /\ Counting' = Counting \cup {t}
  BY <1>1 DEF Counting, TypeOK
<1>3. Cardinality(Counting') = Cardinality(Counting) + 1
  BY <1>2, SetsAreFinite, FS_AddElement
<1>4. t \in AtZero
  BY <1>1 DEF AtZero
<1>5. Cardinality(AtZero) >= 1
  BY <1>4, SetsAreFinite, FS_EmptySet
<1>6. CASE num_threads = 0
  <2>1. jid' = jid
    BY <1>1, <1>6 DEF TypeOK
  <2>2. AtZero' = AtZero
    BY <2>1 DEF AtZero
  <2>3. IsFiniteSet(Counting \cup {t}) /\ Counting \cup {t} \subseteq Threads
    BY SetsAreFinite, FS_AddElement DEF Counting
  <2>4. Cardinality(Counting') <= Cardinality(Threads)
    BY <1>2, <2>3, SetsAreFinite, FS_Subset
  <2>5. num_threads' = 0 /\ \A u \in Threads : load'[u] = 0 /\ jid'[u] = 0
    BY <1>1, <1>6, <2>1 DEF NumberInv
  <2>6. \A u \in Threads : pc'[u] = "enter" => pc[u] = "enter"
    BY <1>1 DEF TypeOK
  <2> QED
    BY <1>1, <1>3, <2>1, <2>2, <2>4, <2>5, <2>6, SetsAreFinite DEF NumberInv, NumbersAreBounded
<1>7. CASE num_threads # 0
  <2>1. AtZero' = AtZero \ {t}
    BY <1>1, <1>7 DEF AtZero, TypeOK
  <2>2. Cardinality(AtZero') = Cardinality(AtZero) - 1
    BY <1>4, <2>1, SetsAreFinite, FS_RemoveElement
  <2>3. num_threads < 2 * Cardinality(Threads)
    BY <1>5, SetsAreFinite DEF NumberInv, TypeOK
  <2>4. \A u \in Threads : jid'[u] < 2 * Cardinality(Threads)
    BY <1>1, <2>3 DEF NumberInv, NumbersAreBounded, TypeOK
  <2>5. /\ num_threads' + Cardinality(Counting') + Cardinality(AtZero')
             <= 2 * Cardinality(Threads)
        /\ \A u \in Threads : load'[u] + Cardinality(Counting') + Cardinality(AtZero')
             <= 2 * Cardinality(Threads)
    BY <1>1, <1>3, <2>2, SetsAreFinite DEF NumberInv, TypeOK
  <2>6. \A u \in Threads : pc'[u] = "enter" => pc[u] = "enter" /\ u # t /\ jid'[u] = jid[u]
    BY <1>1 DEF TypeOK
  <2> QED
    BY <1>1, <1>7, <2>4, <2>5, <2>6 DEF NumberInv, NumbersAreBounded
<1> QED
  BY <1>6, <1>7

LEMMA StoreNumberInv ==
  ASSUME TypeOK, NumberInv, NEW t \in Threads, StoreNumber(t)
  PROVE  NumberInv'
<1>1. /\ pc[t] = "store" /\ pc' = [pc EXCEPT ![t] = "open"]
      /\ num_threads' = load[t] + 1 /\ load' = [load EXCEPT ![t] = 0]
      /\ UNCHANGED <<argv, jid>>
  BY DEF StoreNumber, Goto
<1>2. t \in Counting /\ Counting' = Counting \ {t}
  BY <1>1 DEF Counting, TypeOK
<1>3. Cardinality(Counting') = Cardinality(Counting) - 1
  BY <1>2, SetsAreFinite, FS_RemoveElement
<1>4. AtZero' = AtZero
  BY <1>1 DEF AtZero
<1>5. /\ num_threads' + Cardinality(Counting') + Cardinality(AtZero')
           <= 2 * Cardinality(Threads)
      /\ num_threads' # 0
  BY <1>1, <1>3, <1>4, SetsAreFinite DEF NumberInv, TypeOK
<1>6. \A u \in Threads : load'[u] <= load[u] /\ load'[u] \in Nat /\ load[u] \in Nat
  BY <1>1 DEF TypeOK
<1>7. \A u \in Threads : load'[u] + Cardinality(Counting') + Cardinality(AtZero')
           <= 2 * Cardinality(Threads)
  BY <1>3, <1>4, <1>6, SetsAreFinite DEF NumberInv
<1>8. \A u \in Threads : pc'[u] = "enter" => pc[u] = "enter"
  BY <1>1 DEF TypeOK
<1> QED
  BY <1>1, <1>5, <1>7, <1>8 DEF NumberInv, NumbersAreBounded

LEMMA NumberStep == TypeOK /\ NumberInv /\ [Next]_vars => NumberInv'
<1> SUFFICES ASSUME TypeOK, NumberInv, [Next]_vars PROVE NumberInv'
  OBVIOUS
<1>1. ASSUME NEW t \in Threads, TakeArgument(t) PROVE NumberInv'
  <2>1. jid' = jid /\ Counting' = Counting
    BY <1>1 DEF TakeArgument, Goto, NumberInv, TypeOK, Counting
  <2>2. \A u \in Threads : pc'[u] = "enter" => pc[u] = "enter" /\ argv'[u] = argv[u]
    BY <1>1 DEF TakeArgument, Goto, TypeOK
  <2> QED
    BY <1>1, <2>1, <2>2, NumbersUntouched DEF TakeArgument, NumberInv
<1>2. ASSUME NEW t \in Threads, LoadNumber(t) PROVE NumberInv'
  <2>1. Counting' = Counting /\ AtZero' = AtZero
    BY <1>2 DEF LoadNumber, Goto, TypeOK, Counting, AtZero
  <2>2. \A u \in Threads : load'[u] = num_threads \/ load'[u] = load[u]
    BY <1>2 DEF LoadNumber, TypeOK
  <2>3. \A u \in Threads : pc'[u] = "enter" => pc[u] = "enter"
    BY <1>2 DEF LoadNumber, Goto, TypeOK
  <2> QED
    BY <1>2, <2>1, <2>2, <2>3 DEF LoadNumber, NumberInv, NumbersAreBounded
<1>3. ASSUME NEW t \in Threads, Open(t) \/ Read(t) PROVE NumberInv'
  <2>1. UNCHANGED enumeration /\ Counting' = Counting
    BY <1>3 DEF Open, Read, Goto, TypeOK, Counting
  <2>2. \A u \in Threads : pc'[u] = "enter" => pc[u] = "enter"
    BY <1>3 DEF Open, Read, Goto, TypeOK
  <2> QED
    BY <2>1, <2>2, NumbersUntouched DEF enumeration, NumberInv
<1>4. ASSUME NEW t \in Threads, Disconnect(t) PROVE NumberInv'
  <2>1. /\ UNCHANGED <<num_threads, load, jid>> /\ Counting' = Counting
    BY <1>4 DEF Disconnect, Goto, TypeOK, Counting
  <2>2. /\ argv'[t] = IF jid[t] = 0 THEN NULL ELSE jid[t]
        /\ jid[t] # NULL
        /\ \A u \in Threads \ {t} : pc'[u] = pc[u] /\ argv'[u] = argv[u]
    BY <1>4, GamepadAssumption DEF Disconnect, Goto, TypeOK
  <2> QED
    BY <2>1, <2>2, NumbersUntouched DEF NumberInv
<1>5. ASSUME NEW d \in Devices, Plug(d) \/ Unplug(d) PROVE NumberInv'
  <2>1. UNCHANGED enumeration /\ pc' = pc
    BY <1>5 DEF Plug, Unplug
  <2> QED
    BY <2>1, NumbersUntouched DEF enumeration, NumberInv, Counting
<1>6. CASE UNCHANGED vars
  <2>1. UNCHANGED enumeration /\ pc' = pc
    BY <1>6 DEF vars, enumeration
  <2> QED
    BY <2>1, NumbersUntouched DEF enumeration, NumberInv, Counting
<1> QED
  BY <1>1, <1>2, <1>3, <1>4, <1>5, <1>6, TakeNumberInv, StoreNumberInv
     DEF Next, joystick_event_thread

(* However the accesses to num_threads interleave and however often        *)
(* devices come and go, no device number reaches twice the number of       *)
(* threads.                                                                *)
THEOREM NumbersStayBounded == Spec => []NumbersAreBounded
<1>1. NumberInv => NumbersAreBounded
  BY DEF NumberInv
<1>2. CASE Threads # {}
  BY <1>1, <1>2, NumberInit, NumberStep, GamepadTyped, PTL DEF Spec
<1>3. CASE Threads = {}
  <2>1. Threads = {} => NumbersAreBounded
    BY DEF NumbersAreBounded
  <2> QED
    BY <1>3, <2>1, PTL
<1> QED
  BY <1>2, <1>3

-------------------------------------------------------------------------------
(***************************************************************************)
(* Pairing.  The invariant is the conjunction of what is to be shown; each *)
(* action changes one thread and at most one child, so the counts of both  *)
(* change by at most one.                                                  *)
(***************************************************************************)
Busy == {l \in Loops : ~Idle(l)}
Reading == {l \in Loops : loop[l] \in {"fork", "close", "read"}}
Children == {k \in Pids : process[k] # "free"}

LoopInv ==
  /\ PairTypeOK
  /\ ChildrenMatchLoops
  /\ ScriptsAreReadOrKilled
  /\ OnlyCutPipesLeak

(***************************************************************************)
(* The sets whose sizes are compared are finite.                           *)
(***************************************************************************)
LEMMA LoopSetsFinite ==
  /\ IsFiniteSet(Busy) /\ Cardinality(Busy) \in Nat
  /\ IsFiniteSet(Reading) /\ Cardinality(Reading) \in Nat
  /\ IsFiniteSet(Children) /\ Cardinality(Children) \in Nat
<1>1. Busy \in SUBSET Loops /\ Reading \in SUBSET Loops /\ Children \in SUBSET Pids
  BY DEF Busy, Reading, Children
<1> QED
  BY <1>1, PairAssumption, FS_Subset, FS_CardinalityType

\* The counts of LoopInv, as sizes of the sets above.
LEMMA LoopCounts ==
  /\ ChildrenMatchLoops <=> Cardinality(Children) = Cardinality(Busy)
  /\ OnlyCutPipesLeak <=> openEnds = cut + Cardinality(Reading)
BY DEF ChildrenMatchLoops, OnlyCutPipesLeak, Children, Busy, Reading

LEMMA NextCounts ==
  /\ ChildrenMatchLoops' <=> Cardinality(Children') = Cardinality(Busy')
  /\ OnlyCutPipesLeak' <=> openEnds' = cut' + Cardinality(Reading')
BY DEF ChildrenMatchLoops, OnlyCutPipesLeak, Children, Busy, Reading

LEMMA LoopInit == PairInit => LoopInv
<1> SUFFICES ASSUME PairInit PROVE LoopInv
  OBVIOUS
<1>1. PairTypeOK
  <2>1. openEnds \in 0 .. MaxPipes /\ cut \in Nat
    BY PairAssumption DEF PairInit
  <2>2. \A l \in Loops : Idle(l)
    BY DEF PairInit, Idle
  <2> QED
    BY <2>1, <2>2 DEF PairInit, PairTypeOK
<1>2. Children = {} /\ Busy = {} /\ Reading = {}
  BY DEF PairInit, Children, Busy, Reading, Idle
<1>3. ChildrenMatchLoops /\ OnlyCutPipesLeak
  BY <1>2, LoopCounts, FS_EmptySet DEF PairInit
<1>4. ScriptsAreReadOrKilled
  BY DEF PairInit, ScriptsAreReadOrKilled
<1> QED
  BY <1>1, <1>3, <1>4 DEF LoopInv

(***************************************************************************)
(* A step of a thread between two places that are both idle, or both busy  *)
(* and not reading, leaves the sets alone.                                 *)
(***************************************************************************)
LEMMA StaysIdle ==
  ASSUME LoopInv, NEW l \in Loops, NEW from, NEW to,
         GoOn(l, from, to),
         from \in {"none", "begin", "test", "pipe", "ended"},
         to \in {"none", "begin", "test", "pipe", "ended"},
         sync_interrupt' \in BOOLEAN, UNCHANGED <<pid, process, pipes>>
  PROVE  LoopInv'
<1>1. PairTypeOK'
  BY DEF LoopInv, PairTypeOK, GoOn, Idle, pipes
<1>2. Children' = Children /\ Busy' = Busy /\ Reading' = Reading
  BY DEF LoopInv, PairTypeOK, GoOn, Children, Busy, Reading, Idle
<1>3. ChildrenMatchLoops' /\ OnlyCutPipesLeak'
  BY <1>2, LoopCounts, NextCounts DEF LoopInv, pipes
<1>4. ScriptsAreReadOrKilled'
  BY DEF LoopInv, PairTypeOK, GoOn, ScriptsAreReadOrKilled
<1> QED
  BY <1>1, <1>3, <1>4 DEF LoopInv

\* A new pipe: one more in use, and one more read end open.
LEMMA PipeStep ==
  ASSUME LoopInv, NEW l \in Loops, Pipe(l)
  PROVE  LoopInv'
<1>1. /\ loop[l] = "pipe" /\ loop' = [loop EXCEPT ![l] = "fork"]
      /\ writers' = [writers EXCEPT ![l] = {}] /\ openEnds' = openEnds + 1
      /\ UNCHANGED <<sync_interrupt, pid, process, cut, alive>>
  BY DEF Pipe, GoOn
<1>2. PairTypeOK'
  <2>1. openEnds' \in 0 .. MaxPipes
    BY PairAssumption DEF LoopInv, PairTypeOK, Pipe
  <2> QED
    BY <1>1, <2>1 DEF LoopInv, PairTypeOK, Idle
<1>3. /\ Children' = Children /\ Busy' = Busy
      /\ Reading' = Reading \cup {l} /\ l \notin Reading
  BY <1>1 DEF LoopInv, PairTypeOK, Children, Busy, Reading, Idle
<1>4. Cardinality(Reading') = Cardinality(Reading) + 1
  BY <1>3, LoopSetsFinite, FS_AddElement
<1>5. ChildrenMatchLoops'
  BY <1>3, LoopCounts, NextCounts DEF LoopInv
<1>6. OnlyCutPipesLeak'
  BY <1>1, <1>4, LoopCounts, NextCounts, LoopSetsFinite DEF LoopInv, PairTypeOK
<1>7. ScriptsAreReadOrKilled'
  BY <1>1 DEF LoopInv, PairTypeOK, ScriptsAreReadOrKilled
<1> QED
  BY <1>2, <1>5, <1>6, <1>7 DEF LoopInv

LEMMA ForkStep ==
  ASSUME LoopInv, NEW l \in Loops, Fork(l)
  PROVE  LoopInv'
<1>1. PICK k \in Pids :
        /\ process[k] = "free"
        /\ process' = [process EXCEPT ![k] = "running"]
        /\ pid' = [pid EXCEPT ![l] = k]
        /\ writers' = [m \in Loops |->
             writers[m] \cup (IF loop[m] \in {"fork", "close"} THEN {k} ELSE {})]
  BY DEF Fork
<1>2. /\ loop[l] = "fork" /\ loop' = [loop EXCEPT ![l] = "close"]
      /\ UNCHANGED <<sync_interrupt, openEnds, cut, alive>>
  BY DEF Fork, GoOn
<1>3. PairTypeOK'
  <2>1. writers' \in [Loops -> SUBSET Pids]
    BY <1>1 DEF LoopInv, PairTypeOK
  <2>2. process' \in [Pids -> {"free", "running", "zombie"}]
    BY <1>1 DEF LoopInv, PairTypeOK
  <2> QED
    BY <1>1, <1>2, <2>1, <2>2 DEF LoopInv, PairTypeOK, Idle
<1>4. /\ Children' = Children \cup {k} /\ k \notin Children
      /\ Busy' = Busy \cup {l} /\ l \notin Busy
      /\ Reading' = Reading
  BY <1>1, <1>2 DEF LoopInv, PairTypeOK, Children, Busy, Reading, Idle
<1>5. /\ Cardinality(Children') = Cardinality(Children) + 1
      /\ Cardinality(Busy') = Cardinality(Busy) + 1
  BY <1>4, LoopSetsFinite, FS_AddElement
<1>6. ChildrenMatchLoops'
  BY <1>5, LoopCounts, NextCounts DEF LoopInv
<1>7. OnlyCutPipesLeak'
  BY <1>2, <1>4, LoopCounts, NextCounts DEF LoopInv
<1>8. ScriptsAreReadOrKilled'
  BY <1>1, <1>2 DEF LoopInv, PairTypeOK, ScriptsAreReadOrKilled
<1> QED
  BY <1>3, <1>6, <1>7, <1>8 DEF LoopInv

LEMMA CloseStep ==
  ASSUME LoopInv, NEW l \in Loops, Close(l)
  PROVE  LoopInv'
<1>1. /\ loop[l] = "close" /\ loop' = [loop EXCEPT ![l] = "read"]
      /\ UNCHANGED <<sync_interrupt, pid, process, writers, openEnds, cut, alive>>
  BY DEF Close, GoOn, pipes
<1>2. Children' = Children /\ Busy' = Busy /\ Reading' = Reading
  BY <1>1 DEF LoopInv, PairTypeOK, Children, Busy, Reading, Idle
<1>3. ChildrenMatchLoops' /\ OnlyCutPipesLeak'
  BY <1>1, <1>2, LoopCounts, NextCounts DEF LoopInv
<1>4. PairTypeOK'
  BY <1>1 DEF LoopInv, PairTypeOK, Idle
<1>5. ScriptsAreReadOrKilled'
  BY <1>1 DEF LoopInv, PairTypeOK, ScriptsAreReadOrKilled
<1> QED
  BY <1>3, <1>4, <1>5 DEF LoopInv

\* The two ways in which a thread stops reading.
LEMMA ReadStep ==
  ASSUME LoopInv, NEW l \in Loops, ReadEof(l) \/ ReadInterrupted(l)
  PROVE  LoopInv'
<1>1. /\ loop[l] = "read" /\ loop' = [loop EXCEPT ![l] = "kill"]
      /\ UNCHANGED <<sync_interrupt, pid, process, writers, alive>>
  BY DEF ReadEof, ReadInterrupted, GoOn
<1>2. /\ Children' = Children /\ Busy' = Busy
      /\ Reading' = Reading \ {l} /\ l \in Reading
  BY <1>1 DEF LoopInv, PairTypeOK, Children, Busy, Reading, Idle
<1>3. Cardinality(Reading') = Cardinality(Reading) - 1
  BY <1>2, LoopSetsFinite, FS_RemoveElement
<1>4. openEnds' = cut' + Cardinality(Reading')
  BY <1>3, LoopCounts, LoopSetsFinite DEF LoopInv, PairTypeOK, ReadEof, ReadInterrupted
<1>5. Cardinality(Reading') \in Nat /\ cut' \in Nat
  <2>1. Reading' \in SUBSET Loops
    BY DEF Reading
  <2>2. Cardinality(Reading') \in Nat
    BY <2>1, PairAssumption, FS_Subset, FS_CardinalityType
  <2> QED
    BY <2>2 DEF LoopInv, PairTypeOK, ReadEof, ReadInterrupted
<1>6. openEnds' \in 0 .. MaxPipes
  <2>1. openEnds' = openEnds \/ openEnds' = openEnds - 1
    BY DEF ReadEof, ReadInterrupted
  <2>2. openEnds' \in Nat
    BY <1>4, <1>5
  <2>3. openEnds \in 0 .. MaxPipes
    BY DEF LoopInv, PairTypeOK
  <2> QED
    BY <2>1, <2>2, <2>3, PairAssumption
<1>7. PairTypeOK'
  BY <1>1, <1>5, <1>6 DEF LoopInv, PairTypeOK, Idle
<1>8. ChildrenMatchLoops' /\ OnlyCutPipesLeak'
  BY <1>2, <1>4, LoopCounts, NextCounts DEF LoopInv
<1>9. ScriptsAreReadOrKilled'
  BY <1>1 DEF LoopInv, PairTypeOK, ScriptsAreReadOrKilled
<1> QED
  BY <1>7, <1>8, <1>9 DEF LoopInv

LEMMA KillStep ==
  ASSUME LoopInv, NEW l \in Loops, Kill(l)
  PROVE  LoopInv'
<1>1. /\ loop[l] = "kill" /\ loop' = [loop EXCEPT ![l] = "wait"]
      /\ UNCHANGED <<sync_interrupt, pid, openEnds, cut, alive>>
  BY DEF Kill, GoOn
<1>2. pid[l] \in Pids
  BY <1>1 DEF LoopInv, PairTypeOK, Idle
<1>3. process' = IF process[pid[l]] = "running"
                   THEN [process EXCEPT ![pid[l]] = "zombie"] ELSE process
  BY DEF Kill, Ends
<1>4. PairTypeOK'
  <2>1. process' \in [Pids -> {"free", "running", "zombie"}]
    BY <1>2, <1>3 DEF LoopInv, PairTypeOK
  <2>2. writers' \in [Loops -> SUBSET Pids]
    BY DEF Kill, Ends, LoopInv, PairTypeOK
  <2> QED
    BY <1>1, <2>1, <2>2 DEF LoopInv, PairTypeOK, Idle
<1>5. Children' = Children /\ Busy' = Busy /\ Reading' = Reading
  BY <1>1, <1>2, <1>3 DEF LoopInv, PairTypeOK, Children, Busy, Reading, Idle
<1>6. ChildrenMatchLoops' /\ OnlyCutPipesLeak'
  BY <1>1, <1>5, LoopCounts, NextCounts DEF LoopInv
<1>7. ScriptsAreReadOrKilled'
  <2> SUFFICES ASSUME NEW k \in Pids, process'[k] = "running"
               PROVE  \E m \in Loops : pid'[m] = k /\ loop'[m] \in {"close", "read", "kill"}
    BY DEF ScriptsAreReadOrKilled
  <2>1. process[k] = "running" /\ k # pid[l]
    BY <1>2, <1>3 DEF LoopInv, PairTypeOK
  <2>2. PICK m \in Loops : pid[m] = k /\ loop[m] \in {"close", "read", "kill"}
    BY <2>1 DEF LoopInv, ScriptsAreReadOrKilled
  <2> QED
    BY <1>1, <2>1, <2>2 DEF LoopInv, PairTypeOK
<1> QED
  BY <1>4, <1>6, <1>7 DEF LoopInv

LEMMA WaitStep ==
  ASSUME LoopInv, NEW l \in Loops, Wait(l)
  PROVE  LoopInv'
<1>1. /\ loop[l] = "wait" /\ loop' = [loop EXCEPT ![l] = "test"]
      /\ UNCHANGED <<sync_interrupt, pid, pipes>>
  BY DEF Wait, GoOn
<1>2. l \in Busy /\ Busy' = Busy \ {l} /\ Reading' = Reading
  BY <1>1 DEF LoopInv, PairTypeOK, Busy, Reading, Idle
<1>3. Cardinality(Busy') = Cardinality(Busy) - 1
  BY <1>2, LoopSetsFinite, FS_RemoveElement
<1>4. Children # {}
  <2>1. Cardinality(Busy) # 0
    BY <1>2, LoopSetsFinite, FS_EmptySet
  <2> QED
    BY <2>1, LoopCounts, FS_EmptySet DEF LoopInv
<1>5. PICK k \in Pids : process[k] = "zombie" /\ process' = [process EXCEPT ![k] = "free"]
  BY <1>4 DEF Wait, Children
<1>6. k \in Children /\ Children' = Children \ {k}
  BY <1>5 DEF LoopInv, PairTypeOK, Children
<1>7. Cardinality(Children') = Cardinality(Children) - 1
  BY <1>6, LoopSetsFinite, FS_RemoveElement
<1>8. ChildrenMatchLoops'
  BY <1>3, <1>7, LoopCounts, NextCounts DEF LoopInv
<1>9. OnlyCutPipesLeak'
  BY <1>1, <1>2, LoopCounts, NextCounts DEF LoopInv, pipes
<1>10. PairTypeOK'
  <2>1. process' \in [Pids -> {"free", "running", "zombie"}]
    BY <1>5 DEF LoopInv, PairTypeOK
  <2> QED
    BY <1>1, <2>1 DEF LoopInv, PairTypeOK, Idle, pipes
<1>11. ScriptsAreReadOrKilled'
  BY <1>1, <1>5 DEF LoopInv, PairTypeOK, ScriptsAreReadOrKilled
<1> QED
  BY <1>8, <1>9, <1>10, <1>11 DEF LoopInv

LEMMA ScriptEndStep ==
  ASSUME LoopInv, NEW k \in Pids, ScriptEnds(k)
  PROVE  LoopInv'
<1>1. process' = [process EXCEPT ![k] = "zombie"] /\ process[k] = "running"
  BY DEF ScriptEnds, Ends
<1>2. UNCHANGED <<sync_interrupt, loop, pid, openEnds, cut, alive>>
  BY DEF ScriptEnds
<1>3. Children' = Children /\ Busy' = Busy /\ Reading' = Reading
  BY <1>1, <1>2 DEF LoopInv, PairTypeOK, Children, Busy, Reading, Idle
<1>4. ChildrenMatchLoops' /\ OnlyCutPipesLeak'
  BY <1>2, <1>3, LoopCounts, NextCounts DEF LoopInv
<1>5. PairTypeOK'
  <2>1. writers' \in [Loops -> SUBSET Pids]
    BY DEF ScriptEnds, Ends, LoopInv, PairTypeOK
  <2> QED
    BY <1>1, <1>2, <2>1 DEF LoopInv, PairTypeOK, Idle
<1>6. ScriptsAreReadOrKilled'
  BY <1>1, <1>2 DEF LoopInv, PairTypeOK, ScriptsAreReadOrKilled
<1> QED
  BY <1>4, <1>5, <1>6 DEF LoopInv

\* Steps that change neither a thread nor a child.
LEMMA FlagStep ==
  ASSUME LoopInv, sync_interrupt' \in BOOLEAN, alive' \in BOOLEAN,
         UNCHANGED <<loop, pid, process, writers, openEnds, cut>>
  PROVE  LoopInv'
<1>1. Children' = Children /\ Busy' = Busy /\ Reading' = Reading
  BY DEF Children, Busy, Reading, Idle
<1>2. ChildrenMatchLoops' /\ OnlyCutPipesLeak'
  BY <1>1, LoopCounts, NextCounts DEF LoopInv
<1>3. PairTypeOK' /\ ScriptsAreReadOrKilled'
  BY DEF LoopInv, PairTypeOK, ScriptsAreReadOrKilled, Idle
<1> QED
  BY <1>2, <1>3 DEF LoopInv

LEMMA LoopStepKeeps == LoopInv /\ [PairNext]_pairVars => LoopInv'
<1> SUFFICES ASSUME LoopInv, [PairNext]_pairVars PROVE LoopInv'
  OBVIOUS
<1>0. sync_interrupt \in BOOLEAN /\ alive \in BOOLEAN
  BY DEF LoopInv, PairTypeOK
<1>1. ASSUME NEW l \in Loops, StartPairing(l) PROVE LoopInv'
  BY <1>0, <1>1, StaysIdle DEF StartPairing
<1>2. ASSUME StopPairing PROVE LoopInv'
  BY <1>0, <1>2, FlagStep DEF StopPairing, pipes
<1>3. ASSUME NEW l \in Loops, ResetInterrupt(l) PROVE LoopInv'
  BY <1>3, StaysIdle DEF ResetInterrupt
<1>4. ASSUME NEW l \in Loops, TestInterrupt(l) PROVE LoopInv'
  <2>1. /\ GoOn(l, "test", IF sync_interrupt THEN "ended" ELSE "pipe")
        /\ UNCHANGED <<sync_interrupt, pid, process, pipes>>
    BY <1>4 DEF TestInterrupt
  <2>2. (IF sync_interrupt THEN "ended" ELSE "pipe") \in {"none", "begin", "test", "pipe", "ended"}
    OBVIOUS
  <2>3. sync_interrupt' \in BOOLEAN
    BY <1>0, <2>1
  <2> QED
    BY <2>1, <2>2, <2>3, StaysIdle
<1>5. ASSUME NEW l \in Loops, PipeFails(l) \/ ForkFails(l) \/ ReadFails(l)
      PROVE  LoopInv'
  BY <1>0, <1>5, FlagStep DEF PipeFails, ForkFails, ReadFails
<1>6. ASSUME NEW l \in Loops,
             \/ Pipe(l) \/ Fork(l) \/ Close(l)
             \/ ReadEof(l) \/ ReadInterrupted(l) \/ Kill(l) \/ Wait(l)
      PROVE  LoopInv'
  BY <1>6, PipeStep, ForkStep, CloseStep, ReadStep, KillStep, WaitStep
<1>7. ASSUME NEW k \in Pids, ScriptEnds(k) PROVE LoopInv'
  BY <1>7, ScriptEndStep
<1>8. CASE UNCHANGED pairVars
  BY <1>0, <1>8, FlagStep DEF pairVars
<1> QED
  BY <1>1, <1>2, <1>3, <1>4, <1>5, <1>6, <1>7, <1>8 DEF PairNext, LoopStep, PromptStep

(***************************************************************************)
(* The invariant of the pairing threads, for any number of threads,        *)
(* process ids and files (sync_loop of gamepad_server.c).                  *)
(***************************************************************************)
THEOREM PairInvariant == PairSpec => []LoopInv
<1> QED
  BY LoopInit, LoopStepKeeps, PTL DEF PairSpec

\* As many children as threads that have one to wait for: none is left behind.
THEOREM NoChildIsLeft == PairSpec => []ChildrenMatchLoops
<1>1. LoopInv => ChildrenMatchLoops
  BY DEF LoopInv
<1> QED
  BY <1>1, PairInvariant, PTL

\* A script that runs is read, or about to be killed.
THEOREM NoScriptIsForgotten == PairSpec => []ScriptsAreReadOrKilled
<1>1. LoopInv => ScriptsAreReadOrKilled
  BY DEF LoopInv
<1> QED
  BY <1>1, PairInvariant, PTL

\* The open read ends are those being read and those whose reading was stopped.
THEOREM LeaksAreCounted == PairSpec => []OnlyCutPipesLeak
<1>1. LoopInv => OnlyCutPipesLeak
  BY DEF LoopInv
<1> QED
  BY <1>1, PairInvariant, PTL
===============================================================================
