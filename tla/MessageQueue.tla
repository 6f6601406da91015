----------------------------- MODULE MessageQueue -----------------------------
(***************************************************************************)
(* The global event queue of src/src/servers/message_queue.c: a linked     *)
(* list behind one mutex.  The websocket thread and the gamepad threads    *)
(* append to it with enq_msg; the main thread empties it on behalf of the  *)
(* Lua script with lua_popNewMessages (src/src/lua-bindings/lua_server.c), *)
(* which first reads the length WITHOUT the lock and then copies the       *)
(* messages into a static array that every returned MessageList points to. *)
(*                                                                         *)
(* One action is one access of a thread to shared memory, so the unlocked  *)
(* read and the steps of enq and deq interleave as they do in the code.    *)
(* chain, taken, received and batch.taken are history: the code does not   *)
(* store them and no guard reads them.                                     *)
(***************************************************************************)
EXTENDS Integers, Sequences

CONSTANTS
  Producers,   \* the websocket thread and the gamepad threads
  Main,        \* the main thread, which runs the script
  Cells,       \* the memory malloc takes list elements from
  NULL,
  MaxSent,     \* bound: events sent by one producer
  Capacity     \* MAX_MSG_BUFFER_SIZE, 512 in the code

ASSUME QueueAssumption ==
  /\ Main \notin Producers
  /\ NULL \notin Producers \cup {Main} \cup Cells
  /\ MaxSent \in Nat
  /\ Capacity \in Nat \ {0}

Threads == Producers \cup {Main}

\* A Message is known by its sender and its place among that sender's messages.
Event == Producers \X (1..MaxSent)
NoEvent == <<NULL, 0>>

VARIABLES
  mutex,       \* the thread that holds binary_sem, or NULL
  pc,          \* where each thread is
  head, tail, length,     \* struct queue
  next, msg,              \* struct elt, for each cell
  allocated,              \* the cells that are malloc'ed and not freed
  elt,         \* the local e of enq, one per producer
  sent,        \* events each producer has sent
  n,           \* lua_popNewMessages: the length read without the lock
  buffer, newLength,      \* pop_new_messages: the two statics
  i, ret, victim,         \* the loop index; deq's ret and e
  batch,       \* the last MessageList returned
  chain,       \* history: the cells in the list, oldest first
  taken,       \* history: events dequeued by the call in progress
  received     \* history: the last event of each producer to be dequeued

queueVars == <<head, tail, length, next, msg, allocated, chain>>
producerVars == <<elt, sent>>
popVars == <<n, buffer, newLength, i, ret, victim, batch, taken, received>>
vars == <<mutex, pc, queueVars, producerVars, popVars>>

NoList == [length |-> 0, taken |-> <<>>]

\* init_msg_q and queueCreate; main calls them before it starts a thread.
Init ==
  /\ mutex = NULL
  /\ pc = [t \in Threads |-> IF t = Main THEN "script" ELSE "idle"]
  /\ head = NULL /\ tail = NULL /\ length = 0
  /\ next = [c \in Cells |-> NULL]
  /\ msg = [c \in Cells |-> NoEvent]
  /\ allocated = {}
  /\ elt = [p \in Producers |-> NULL]
  /\ sent = [p \in Producers |-> 0]
  /\ n = 0
  /\ buffer = [k \in 1..Capacity |-> NoEvent]
  /\ newLength = 0 /\ i = 0
  /\ ret = NoEvent /\ victim = NULL
  /\ batch = NoList
  /\ chain = <<>> /\ taken = <<>>
  /\ received = [p \in Producers |-> 0]

Goto(t, from, to) == pc[t] = from /\ pc' = [pc EXCEPT ![t] = to]

Lock(t) == mutex = NULL /\ mutex' = t
Unlock == mutex' = NULL

-------------------------------------------------------------------------------
(* Faulty variants of definitions below, in no specification: each is a     *)
(* mistake that one of the properties at the end would catch.              *)

\* The message is copied before the sender has filled it in.
EnqAllocStale(p) ==
  /\ Goto(p, "alloc", "link")
  /\ \E c \in Cells \ allocated :
       /\ elt' = [elt EXCEPT ![p] = c]
       /\ allocated' = allocated \cup {c}
       /\ msg' = [msg EXCEPT ![c] = <<p, sent[p]>>]
       /\ next' = [next EXCEPT ![c] = NULL]
  /\ UNCHANGED <<mutex, head, tail, length, chain, sent, popVars>>

\* The empty list is recognised by its tail.
EnqLinkTestsTail(p) ==
  /\ Goto(p, "link", "tail")
  /\ \/ tail = NULL /\ head' = elt[p] /\ UNCHANGED next
     \/ tail # NULL /\ next' = [next EXCEPT ![tail] = elt[p]] /\ UNCHANGED head
  /\ chain' = Append(chain, elt[p])
  /\ sent' = [sent EXCEPT ![p] = @ + 1]
  /\ UNCHANGED <<mutex, tail, length, msg, allocated, elt, popVars>>

\* The element is put in front of the list.
EnqLinkInFront(p) ==
  /\ Goto(p, "link", "tail")
  /\ head' = elt[p] /\ next' = [next EXCEPT ![elt[p]] = head]
  /\ chain' = <<elt[p]>> \o chain
  /\ sent' = [sent EXCEPT ![p] = @ + 1]
  /\ UNCHANGED <<mutex, tail, length, msg, allocated, elt, popVars>>

\* The test of the length lets an empty queue, or only a longer one, through.
ReadSizeFrom(least) ==
  /\ pc[Main] = "script"
  /\ n' = length
  /\ pc' = [pc EXCEPT ![Main] = IF length < least THEN "script" ELSE "lock"]
  /\ UNCHANGED <<mutex, queueVars, producerVars, buffer, newLength, i, ret, victim,
                 batch, taken, received>>
ReadSizeNoTest == ReadSizeFrom(0)
ReadSizeAboveOne == ReadSizeFrom(2)

\* i <= newLength
CopyOneMore == IF newLength < Capacity THEN newLength + 1 ELSE Capacity

\* deq without q->length--, without free, and a loop that counts from 1.
DeqDropWith(len, alloc, slot) ==
  /\ Goto(Main, "drop", "copy")
  /\ length' = len
  /\ allocated' = alloc
  /\ buffer' = [k \in 1..Capacity |-> IF k = slot THEN ret ELSE buffer[k]]
  /\ i' = i + 1
  /\ UNCHANGED <<mutex, head, tail, next, msg, chain, producerVars, n, newLength, ret,
                 victim, batch, taken, received>>
DeqDropUncounted == DeqDropWith(length, allocated \ {victim}, i + 1)
DeqDropUnfreed == DeqDropWith(length - 1, allocated, i + 1)
DeqDropFromOne == DeqDropWith(length - 1, allocated \ {victim}, i + 2)

\* What did not fit into the buffer is forgotten.
PopReturnForgets ==
  /\ i >= newLength \/ i >= Capacity
  /\ Goto(Main, "copy", "script")
  /\ Unlock
  /\ batch' = [length |-> newLength, taken |-> taken]
  /\ taken' = <<>>
  /\ head' = NULL /\ length' = 0 /\ chain' = <<>>
  /\ UNCHANGED <<tail, next, msg, allocated, producerVars, n, buffer, newLength, i, ret,
                 victim, received>>

-------------------------------------------------------------------------------
(* enq_msg: lock, enq, unlock.                                             *)

EnqLock(p) ==
  /\ sent[p] < MaxSent
  /\ Goto(p, "idle", "alloc")
  /\ Lock(p)
  /\ UNCHANGED <<queueVars, producerVars, popVars>>

\* e = malloc(..), which may return any cell that is free; e->msg; e->next.
EnqAlloc(p) ==
  /\ Goto(p, "alloc", "link")
  /\ \E c \in Cells \ allocated :
       /\ elt' = [elt EXCEPT ![p] = c]
       /\ allocated' = allocated \cup {c}
       /\ msg' = [msg EXCEPT ![c] = <<p, sent[p] + 1>>]
       /\ next' = [next EXCEPT ![c] = NULL]
  /\ UNCHANGED <<mutex, head, tail, length, chain, sent, popVars>>

\* assert(e): without memory for the element the whole program is aborted, and
\* the thread keeps the lock.
EnqAllocFails(p) ==
  /\ Goto(p, "alloc", "aborted")
  /\ UNCHANGED <<mutex, queueVars, producerVars, popVars>>

\* The empty list is recognised by its head alone: deq leaves tail dangling.
EnqLink(p) ==
  /\ Goto(p, "link", "tail")
  /\ \/ head = NULL /\ head' = elt[p] /\ UNCHANGED next
     \/ head # NULL /\ next' = [next EXCEPT ![tail] = elt[p]] /\ UNCHANGED head
  /\ chain' = Append(chain, elt[p])
  /\ sent' = [sent EXCEPT ![p] = @ + 1]
  /\ UNCHANGED <<mutex, tail, length, msg, allocated, elt, popVars>>

EnqTail(p) ==
  /\ Goto(p, "tail", "count")
  /\ tail' = elt[p]
  /\ UNCHANGED <<mutex, head, length, next, msg, allocated, chain, producerVars, popVars>>

EnqCount(p) ==
  /\ Goto(p, "count", "unlock")
  /\ length' = length + 1
  /\ UNCHANGED <<mutex, head, tail, next, msg, allocated, chain, producerVars, popVars>>

EnqUnlock(p) ==
  /\ Goto(p, "unlock", "idle")
  /\ Unlock
  /\ UNCHANGED <<queueVars, producerVars, popVars>>

enq_msg(p) ==
  \/ EnqLock(p) \/ EnqAlloc(p) \/ EnqAllocFails(p) \/ EnqLink(p)
  \/ EnqTail(p) \/ EnqCount(p) \/ EnqUnlock(p)

-------------------------------------------------------------------------------
(* lua_popNewMessages and pop_new_messages, on the main thread.            *)

\* get_message_queue_size(); with n < 1 the call returns nothing.
ReadSize ==
  /\ pc[Main] = "script"
  /\ n' = length
  /\ pc' = [pc EXCEPT ![Main] = IF length < 1 THEN "script" ELSE "lock"]
  /\ UNCHANGED <<mutex, queueVars, producerVars, buffer, newLength, i, ret, victim,
                 batch, taken, received>>

PopLock ==
  /\ Goto(Main, "lock", "copy")
  /\ Lock(Main)
  /\ newLength' = length
  /\ i' = 0
  /\ taken' = <<>>
  /\ UNCHANGED <<queueVars, producerVars, n, buffer, ret, victim, batch, received>>

\* The bound of the copying loop.
CopyCount == IF newLength < Capacity THEN newLength ELSE Capacity

\* deq up to q->head = e->next.
DeqHead ==
  /\ i < CopyCount
  /\ Goto(Main, "copy", "drop")
  /\ ret' = msg[head]
  /\ victim' = head
  /\ head' = next[head]
  /\ chain' = Tail(chain)
  /\ taken' = Append(taken, msg[head])
  /\ received' = [received EXCEPT ![msg[head][1]] = msg[head][2]]
  /\ UNCHANGED <<mutex, tail, length, next, msg, allocated, producerVars, n, buffer,
                 newLength, i, batch>>

\* q->length--, free(e), and the assignment to buffer[i].
DeqDrop ==
  /\ Goto(Main, "drop", "copy")
  /\ length' = length - 1
  /\ allocated' = allocated \ {victim}
  /\ buffer' = [buffer EXCEPT ![i + 1] = ret]
  /\ i' = i + 1
  /\ UNCHANGED <<mutex, head, tail, next, msg, chain, producerVars, n, newLength, ret,
                 victim, batch, taken, received>>

\* Unlock and return: the userdata gets the static buffer and this length.
PopReturn ==
  /\ i >= CopyCount
  /\ Goto(Main, "copy", "script")
  /\ Unlock
  /\ batch' = [length |-> newLength, taken |-> taken]
  /\ taken' = <<>>
  /\ UNCHANGED <<queueVars, producerVars, n, buffer, newLength, i, ret, victim, received>>

lua_popNewMessages == ReadSize \/ PopLock \/ DeqHead \/ DeqDrop \/ PopReturn

Alive == \A p \in Producers : pc[p] # "aborted"

Next == Alive /\ (lua_popNewMessages \/ \E p \in Producers : enq_msg(p))

Spec == Init /\ [][Next]_vars

(***************************************************************************)
(* A thread that has begun a call is scheduled until it ends it, and the   *)
(* script calls server.pop() every frame, as src/lua/tests/README.md:92-110 *)
(* does.  Nothing obliges a producer to send another event.                *)
(***************************************************************************)
Fairness ==
  /\ WF_vars(Alive /\ lua_popNewMessages)
  /\ \A p \in Producers : WF_vars(Alive /\ pc[p] # "idle" /\ enq_msg(p))

FairSpec == Spec /\ Fairness

-------------------------------------------------------------------------------
(* Properties.                                                             *)

Labels == {"idle", "alloc", "link", "tail", "count", "unlock", "aborted",
           "script", "lock", "copy", "drop"}

TypeOK ==
  /\ mutex \in Threads \cup {NULL}
  /\ pc \in [Threads -> Labels]
  /\ \A p \in Producers :
       pc[p] \in {"idle", "alloc", "link", "tail", "count", "unlock", "aborted"}
  /\ pc[Main] \in {"script", "lock", "copy", "drop"}
  /\ head \in Cells \cup {NULL} /\ tail \in Cells \cup {NULL}
  /\ length \in Int
  /\ next \in [Cells -> Cells \cup {NULL}]
  /\ msg \in [Cells -> Event \cup {NoEvent}]
  /\ allocated \subseteq Cells
  /\ elt \in [Producers -> Cells \cup {NULL}]
  /\ sent \in [Producers -> 0..MaxSent]
  /\ n \in Int /\ newLength \in Int /\ i \in Nat
  /\ buffer \in [1..Capacity -> Event \cup {NoEvent}]
  /\ ret \in Event \cup {NoEvent}
  /\ victim \in Cells \cup {NULL}
  /\ batch \in [length : Int, taken : Seq(Event)]
  /\ chain \in Seq(Cells) /\ taken \in Seq(Event)
  /\ received \in [Producers -> 0..MaxSent]

InEnq(p) == pc[p] \in {"alloc", "link", "tail", "count", "unlock", "aborted"}
InPop == pc[Main] \in {"copy", "drop"}

\* What the linked list should hold: the events of the cells in chain.
Contents == [k \in 1..Len(chain) |-> msg[chain[k]]]

\* The producer that has linked its element and not yet counted it, if any,
\* and the element that deq has unlinked and not yet counted out.
Uncounted == \E p \in Producers : pc[p] \in {"tail", "count"}
NotCountedOut == pc[Main] = "drop"

(***************************************************************************)
(* The pointers of enq and deq always describe one list: from head along   *)
(* next to a NULL, through distinct cells that malloc handed out, ending   *)
(* at tail whenever tail is going to be used (deq leaves it dangling when  *)
(* it empties the list and enq must not follow it then).                   *)
(***************************************************************************)
ListWellFormed ==
  /\ head = (IF chain = <<>> THEN NULL ELSE chain[1])
  /\ \A k \in 1..Len(chain) :
       /\ chain[k] \in allocated
       /\ next[chain[k]] = (IF k < Len(chain) THEN chain[k + 1] ELSE NULL)
       /\ \A m \in 1..Len(chain) : chain[k] = chain[m] => k = m
  /\ chain # <<>> /\ (\A p \in Producers : pc[p] # "tail") => tail = chain[Len(chain)]

\* queue->length counts the elements, but for the one being added or removed:
\* this is what lets pop_new_messages call deq length times without a check.
LengthCounts ==
  length = Len(chain) - (IF Uncounted THEN 1 ELSE 0) + (IF NotCountedOut THEN 1 ELSE 0)

\* Every element is freed exactly once: what malloc handed out is in the list,
\* or in the hands of the one thread that is adding or removing it.
NothingLeaks ==
  \A c \in Cells : c \in allocated <=>
    \/ \E k \in 1..Len(chain) : chain[k] = c
    \/ \E p \in Producers : pc[p] = "link" /\ elt[p] = c
    \/ pc[Main] = "drop" /\ victim = c

\* The assertion of deq, assert(!queueEmpty(q)): the loop of pop_new_messages
\* trusts a length that it read once, before its first deq.
DequeueNeverEmpty == pc[Main] = "copy" /\ i < CopyCount => head # NULL

\* lua_popNewMessages decides without the lock that there is something to pop;
\* by the time it has the lock there is still at least as much, so a list that
\* is returned is never empty.
UnlockedSizeIsALowerBound ==
  /\ pc[Main] = "lock" => 1 <= n /\ n <= length
  /\ InPop => 1 <= n /\ n <= newLength

\* The last MessageList still reads, element by element, what that call took
\* from the queue, whatever the producers do meanwhile.
LatestListIntact ==
  pc[Main] = "script" => \A k \in 1..Len(batch.taken) : buffer[k] = batch.taken[k]

\* Events leave the queue once each and in the order their sender put them in.
DeliveredInOrder ==
  [][\A p \in Producers : received'[p] # received[p] => received'[p] = received[p] + 1]_vars

\* An event that is in the queue ends up in a list returned to the script,
\* unless the program is aborted.
EventuallyTaken ==
  \A p \in Producers : \A k \in 1..MaxSent :
    (\E j \in 1..Len(chain) : msg[chain[j]] = <<p, k>>)
      ~> ~Alive \/ \E j \in 1..Len(batch.taken) : batch.taken[j] = <<p, k>>

\* Seen from outside, pop_new_messages takes everything that was there when it
\* got the lock, up to the size of its buffer, in one step: the events it has
\* dequeued so far count as pending until it returns.
Channel == INSTANCE MessageChannel WITH
  pending <- taken \o Contents,
  batch <- batch.taken

ImplementsChannel == Channel!Spec
===============================================================================
