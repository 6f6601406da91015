-------------------------------- MODULE WsRing --------------------------------
(***************************************************************************)
(* The websocket protocol of src/src/servers/ws: callback_minimal of       *)
(* protocol_lws_minimal.c and the ring of outgoing messages it shares with *)
(* lws_gibberish.c.  When a client connects, insert_id gives it a number   *)
(* and ws_broadcast_int puts the number into ONE ring that every client    *)
(* reads from, each at its own tail; the ring can move on when the client  *)
(* that is furthest behind does.  The web page (src/client/main.js) takes  *)
(* the first nonzero number it receives for its own.                       *)
(*                                                                         *)
(* libwebsockets calls back from one thread, so a callback is one action.  *)
(* The library is external: its ring (lws-ring.h), the writable callbacks  *)
(* it makes on request, lws_write, which may fail, and the connections it  *)
(* opens and closes.  A number that was written is with the client at      *)
(* once.  The table of players is the one of ConnectionTable with the      *)
(* websocket clients alone.  due is history.                               *)
(***************************************************************************)
EXTENDS Integers, Sequences, FiniteSets, FiniteSetsExt

CONSTANTS
  Clients,        \* the connections: wsi and pss
  NULL,
  RingSize,       \* RING_BUFFER_LENGTH, 8 in the code; one element stays free
  TableSize       \* MAX_CONNECTIONS + 4, 20 in the code

ASSUME RingAssumption ==
  /\ RingSize \in Nat /\ RingSize > 1
  /\ TableSize \in Nat \ {0}
  /\ NULL \notin Clients /\ NULL \notin 0..TableSize

Slots == 0..(TableSize - 1)
Positions == 0..(RingSize - 1)
Numbers == 0..TableSize      \* what is broadcast: an id plus 1, 0 if there was none

VARIABLES
  open,           \* the clients that are connected
  connection_ids, \* the table of players
  pss_list,       \* the clients that read from the ring
  culled,         \* the clients that are to be killed
  asked,          \* the clients a writable callback is requested for
  tail,           \* pss->tail of each client
  head, oldest,   \* of the ring
  element,        \* the ring's elements; NULL once the payload is freed
  player,         \* the number each page believes to be its own
  event,          \* the last message enqueued, or dropped, by a callback
  due             \* history: the numbers each reader is still to be sent

ring == <<head, oldest, element>>
vars == <<open, connection_ids, pss_list, culled, asked, tail, ring, player, event, due>>

NoMessage == [type |-> "none", user_id |-> 0, queued |-> FALSE]

Init ==
  /\ open = {} /\ pss_list = {} /\ culled = {} /\ asked = {}
  /\ connection_ids = [s \in Slots |-> NULL]
  /\ tail = [c \in Clients |-> 0]
  /\ head = 0 /\ oldest = 0 /\ element = [p \in Positions |-> NULL]
  /\ player = [c \in Clients |-> 0]
  /\ event = NoMessage
  /\ due = [c \in Clients |-> <<>>]

-------------------------------------------------------------------------------
(* Faulty variants of definitions below, in no specification: each is a     *)
(* mistake that one of the properties at the end would catch.              *)

\* The ring does not wrap.
AdvanceStraight(p, k) == p + k

\* All elements of the ring are used: full looks like empty.
FreeToTheLast == RingSize - ((head - oldest + RingSize) % RingSize)

\* The oldest tail follows the fastest reader.
Fastest(readers, tails) ==
  CHOOSE p \in {tails[c] : c \in readers} :
    \A c \in readers : (head - tails[c] + RingSize) % RingSize >= (head - p + RingSize) % RingSize

-------------------------------------------------------------------------------
(* The ring.                                                               *)

Advance(p, k) == (p + k) % RingSize

\* lws_ring_get_count_waiting_elements and lws_ring_get_count_free_elements
Waiting(p) == (head - p + RingSize) % RingSize
Free == RingSize - 1 - Waiting(oldest)

\* lws_ring_get_element: is there one for this tail?
HasElement(p) == p # head

\* The tail of a reader, given the tails, that has the most to read.
Slowest(readers, tails) ==
  CHOOSE p \in {tails[c] : c \in readers} :
    \A c \in readers : Waiting(tails[c]) <= Waiting(p)

(***************************************************************************)
(* lws_ring_consume_and_update_oldest_tail: client c consumes k elements;  *)
(* if it was at the oldest tail, the slowest reader's tail becomes the     *)
(* oldest, and the elements before it are destroyed.                       *)
(***************************************************************************)
ConsumeAndUpdate(c, k, readers) ==
  LET tails == [tail EXCEPT ![c] = Advance(@, k)]
      to == IF readers = {} THEN tails[c] ELSE Slowest(readers, tails)
      passed == {Advance(oldest, j) : j \in 0..(Waiting(oldest) - Waiting(to) - 1)}
  IN  /\ tail' = tails
      /\ \/ /\ tail[c] = oldest
            /\ oldest' = to
            /\ element' = [p \in Positions |-> IF p \in passed THEN NULL ELSE element[p]]
         \/ tail[c] # oldest /\ UNCHANGED <<oldest, element>>
      /\ UNCHANGED head

\* What a reader from position p on has before it.
FromHere(p) == [k \in 1..Waiting(p) |-> element[Advance(p, k - 1)]]

\* Faulty: the result of lws_ring_insert is not looked at, and it overwrites.
BroadcastAlways(number, readers, base) ==
  /\ element' = [element EXCEPT ![head] = number]
  /\ head' = Advance(head, 1)
  /\ asked' = asked \cup readers
  /\ due' = [c \in Clients |-> IF c \in readers THEN Append(base[c], number) ELSE base[c]]
  /\ UNCHANGED oldest

\* ws_broadcast: into the ring, and a callback for every reader; or dropped.
\* base tells what the readers had to be sent before.
Broadcast(number, readers, base) ==
  \/ /\ Free > 0
     /\ element' = [element EXCEPT ![head] = number]
     /\ head' = Advance(head, 1)
     /\ asked' = asked \cup readers
     /\ due' = [c \in Clients |-> IF c \in readers THEN Append(base[c], number) ELSE base[c]]
     /\ UNCHANGED oldest
  \/ /\ Free = 0
     /\ due' = base
     /\ UNCHANGED <<ring, asked>>

-------------------------------------------------------------------------------
(* callback_minimal                                                        *)

\* LWS_CALLBACK_ESTABLISHED: a reader from the oldest tail on; insert_id; and
\* its result plus 1 to everyone.
Established(c) ==
  LET free == {s \in Slots : connection_ids[s] = NULL}
      id == IF free = {} THEN -1 ELSE Min(free)
  IN  /\ c \notin open
      /\ open' = open \cup {c}
      /\ pss_list' = pss_list \cup {c}
      /\ tail' = [tail EXCEPT ![c] = oldest]
      /\ connection_ids' = [s \in Slots |-> IF s = id THEN c ELSE connection_ids[s]]
      /\ Broadcast(id + 1, pss_list', [due EXCEPT ![c] = FromHere(oldest)])
      /\ UNCHANGED <<culled, player, event>>

\* LWS_CALLBACK_CLOSED: no longer a reader; remove_id; a MSG_DISCONNECT of user 0.
Closed(c) ==
  /\ c \in open
  /\ open' = open \ {c} /\ pss_list' = pss_list \ {c}
  /\ culled' = culled \ {c} /\ asked' = asked \ {c}
  /\ connection_ids' = [s \in Slots |-> IF connection_ids[s] = c THEN NULL ELSE connection_ids[s]]
  /\ event' = [type |-> "MSG_DISCONNECT", user_id |-> 0, queued |-> TRUE]
  /\ tail' = [tail EXCEPT ![c] = 0] /\ due' = [due EXCEPT ![c] = <<>>]
  /\ player' = [player EXCEPT ![c] = 0]
  /\ UNCHANGED ring

\* onmessage of main.js: the first nonzero number is the player's.
Believes(c, number) == IF player[c] = 0 THEN number ELSE player[c]

\* Faulty: no further callback is requested.
WriteElementOnce(c) ==
  /\ c \in asked /\ c \notin culled /\ HasElement(tail[c])
  /\ player' = [player EXCEPT ![c] = Believes(c, element[tail[c]])]
  /\ due' = [due EXCEPT ![c] = Tail(@)]
  /\ ConsumeAndUpdate(c, 1, pss_list)
  /\ asked' = asked \ {c}
  /\ UNCHANGED <<open, connection_ids, pss_list, culled, event>>

\* LWS_CALLBACK_SERVER_WRITEABLE: one element is written and consumed, and
\* another callback requested if there is more.
WriteElement(c) ==
  /\ c \in asked /\ c \notin culled /\ HasElement(tail[c])
  /\ player' = [player EXCEPT ![c] = Believes(c, element[tail[c]])]
  /\ due' = [due EXCEPT ![c] = Tail(@)]
  /\ ConsumeAndUpdate(c, 1, pss_list)
  /\ asked' = IF HasElement(tail'[c]) THEN asked ELSE asked \ {c}
  /\ UNCHANGED <<open, connection_ids, pss_list, culled, event>>

\* ws_write fails: nothing is consumed, and the request is made again.
WriteFails(c) ==
  /\ c \in asked /\ c \notin culled /\ HasElement(tail[c])
  /\ UNCHANGED vars

\* The client is culled, or there is nothing to write.
WriteNothing(c) ==
  /\ c \in asked /\ (c \in culled \/ ~HasElement(tail[c]))
  /\ asked' = asked \ {c}
  /\ UNCHANGED <<open, connection_ids, pss_list, culled, tail, ring, player, event, due>>

Writeable(c) == WriteElement(c) \/ WriteFails(c) \/ WriteNothing(c)

\* The types that ws_recv_msg knows; the other buttons and MSG_QUIT are treated
\* as MSG_BTN_A is.
Received == {"MSG_MOTION_VECTOR", "MSG_BTN_A"}

\* ws_recv_msg: the message is enqueued with the number the page has put in it,
\* or forgotten if its type is unknown or there is no memory for a copy of it.
Enqueue(c) ==
  \/ \E type \in Received :
       event' = [type |-> type, user_id |-> player[c] - 1, queued |-> TRUE]
  \/ UNCHANGED event

\* The ring has no room: the message is not looked at.
Drop(c) == event' = [type |-> "dropped", user_id |-> player[c] - 1, queued |-> FALSE]

\* LWS_CALLBACK_RECEIVE with room in the ring.
Receive(c) ==
  /\ c \in open /\ Free > 0
  /\ Enqueue(c)
  /\ UNCHANGED <<open, connection_ids, pss_list, culled, asked, tail, ring, player, due>>

(***************************************************************************)
(* LWS_CALLBACK_RECEIVE with a full ring: cull_lagging_clients.  The       *)
(* readers at the oldest tail are to be killed and read no more, and the   *)
(* ring moves on to the slowest of the others; if there is no reader at    *)
(* the oldest tail nothing happens.  The message is dropped unless that    *)
(* has made room.                                                          *)
(***************************************************************************)
Lagging == {c \in pss_list : tail[c] = oldest}
\* Faulty: most starts from the number of elements waiting before the cull.
MostOfAll(readers) == Max({Waiting(oldest)} \cup {Waiting(tail[c]) : c \in readers})
Most(readers) == IF readers = {} THEN 0 ELSE Max({Waiting(tail[c]) : c \in readers})

CullAndReceive(c) ==
  LET survivors == pss_list \ Lagging
  IN  /\ c \in open /\ Free = 0 /\ Lagging # {}
      /\ culled' = culled \cup Lagging
      /\ pss_list' = survivors
      /\ \E old_pss \in Lagging :
           ConsumeAndUpdate(old_pss, Waiting(oldest) - Most(survivors), survivors)
      /\ IF oldest' = oldest THEN Drop(c) ELSE Enqueue(c)
      /\ UNCHANGED <<open, connection_ids, asked, player, due>>

ReceiveDropped(c) ==
  /\ c \in open /\ Free = 0 /\ Lagging = {}
  /\ Drop(c)
  /\ UNCHANGED <<open, connection_ids, pss_list, culled, asked, tail, ring, player, due>>

callback_minimal(c) ==
  \/ Established(c) \/ Closed(c) \/ Writeable(c)
  \/ Receive(c) \/ CullAndReceive(c) \/ ReceiveDropped(c)

Next == \E c \in Clients : callback_minimal(c)

Spec == Init /\ [][Next]_vars

-------------------------------------------------------------------------------
(* Properties.                                                             *)

Messages == [type : {"none", "MSG_DISCONNECT", "dropped"} \cup Received,
             user_id : -1..TableSize, queued : BOOLEAN]

TypeOK ==
  /\ open \subseteq Clients /\ pss_list \subseteq open
  /\ culled \subseteq open /\ asked \subseteq open
  /\ connection_ids \in [Slots -> Clients \cup {NULL}]
  /\ tail \in [Clients -> Positions]
  /\ head \in Positions /\ oldest \in Positions
  /\ element \in [Positions -> Numbers \cup {NULL}]
  /\ player \in [Clients -> Numbers]
  /\ event \in Messages
  /\ due \in [Clients -> Seq(Numbers)]

\* No client is behind the oldest tail, where payloads have been freed: a
\* client that left or was culled is the only one to be forgotten.
TailsInRing == \A c \in pss_list : Waiting(tail[c]) <= Waiting(oldest)

\* A payload is freed when, and not before, the last reader has passed it.
FreedOnce ==
  \A p \in Positions : element[p] # NULL <=> \E k \in 1..Waiting(oldest) : p = Advance(oldest, k - 1)

\* A client's tail reads on where it left off: it gets every number that was
\* put into the ring since it joined, in that order, whatever clients at other
\* tails, culls and the wrap of the ring do in between.
ReadsEveryNumber == \A c \in pss_list : FromHere(tail[c]) = due[c]

\* A client that has something to read is waiting for a callback, or for one of
\* the messages that make a full ring cull it.
WaitingIsAsked ==
  \A c \in pss_list : HasElement(tail[c]) /\ c \notin asked => Free = 0 /\ c \in Lagging

\* When some reader is to blame for the full ring, culling makes room for the
\* message that came in.
CullMakesRoom ==
  [][Lagging # {} /\ event' # event => event'.queued]_vars
===============================================================================
