---------------------------- MODULE ServerLifecycle ----------------------------
(***************************************************************************)
(* How the threads of XNgine start and stop: main (src/src/main.c), the    *)
(* websocket thread (ws_create_thread and start_server_loop of             *)
(* src/src/servers/ws/ws_ring_server.c) and the gamepad threads            *)
(* (joystick_event_thread of src/src/servers/bt/gamepad_server.c), as far  *)
(* as they synchronise with each other and touch the event queue.          *)
(*                                                                         *)
(* message_queue.h declares binary_sem static, so each file that includes  *)
(* it has a mutex of its own: startLock is the one of main.c, which        *)
(* includes ws_ring_server.c; queueLock is the one of message_queue.c.     *)
(*                                                                         *)
(* libwebsockets, POSIX conditions and thread cancellation are external:   *)
(* lws_create_context may fail, lws_service runs callbacks and may return  *)
(* an error, pthread_cond_wait may wake without a signal, and a cancelled  *)
(* thread ends when it is in open, sleep or read.                          *)
(***************************************************************************)
EXTENDS Naturals

CONSTANTS
  Pads,             \* the gamepad threads
  Main, Server,     \* the other two threads
  MaxClients,       \* bound: websocket clients connected at a time
  Nobody            \* holds a lock that is free

ASSUME LifecycleAssumption ==
  /\ Main # Server /\ Nobody \notin Pads \cup {Main, Server}
  /\ Main \notin Pads /\ Server \notin Pads
  /\ MaxClients \in Nat

VARIABLES
  main, server, pad,     \* where each thread is
  startLock, queueLock,  \* who holds each binary_sem, or Nobody
  options,               \* the ServerOptions on the stack of ws_create_thread
  context,               \* the lws_context of the server thread
  clients,               \* how many websocket clients are connected to it
  interrupted,
  cancelled,             \* the gamepad threads that pthread_cancel was called on
  queue,                 \* message_queue: "none", "live" or "freed"
  spurious               \* history: main was woken without a signal

serverVars == <<main, server, pad, startLock, queueLock, options, context, clients,
                interrupted, cancelled, queue, spurious>>

ServerInit ==
  /\ main = "init" /\ server = "none" /\ pad = [p \in Pads |-> "none"]
  /\ startLock = Nobody /\ queueLock = Nobody
  /\ options = "none" /\ context = "none" /\ clients = 0
  /\ interrupted = FALSE /\ cancelled = {}
  /\ queue = "none" /\ spurious = FALSE

-------------------------------------------------------------------------------
(* Faulty variants of definitions below, in no specification: each is a     *)
(* mistake that one of the properties at the end would catch.              *)

\* ws_create_thread goes on without waiting.
CondWaitSkipped ==
  /\ main = "wait" /\ main' = "started"
  /\ UNCHANGED <<server, pad, startLock, queueLock, options, context, clients,
                 interrupted, cancelled, queue, spurious>>

\* set_interrupt sets a flag of another file.
SetInterruptElsewhere ==
  /\ main = "interrupting" /\ main' = "join"
  /\ startLock' = Nobody
  /\ UNCHANGED <<server, pad, queueLock, options, context, clients, interrupted,
                 cancelled, queue, spurious>>

\* main does not wait for the server to exit.
JoinServerAtOnce ==
  /\ main = "join" /\ main' = "destroy"
  /\ UNCHANGED <<server, pad, startLock, queueLock, options, context, clients,
                 interrupted, cancelled, queue, spurious>>

\* The server signals before it has a context.
ReadOptionsSignals ==
  /\ server = "options" /\ server' = "signal"
  /\ UNCHANGED <<main, pad, startLock, queueLock, options, context, clients,
                 interrupted, cancelled, queue, spurious>>

\* while (server_sock.n >= 0)
CheckInterruptForgotten ==
  /\ server = "check" /\ server' = "service"
  /\ UNCHANGED <<main, pad, startLock, queueLock, options, context, clients,
                 interrupted, cancelled, queue, spurious>>

\* enq_msg takes the binary_sem of another file.
PadEnqueueElsewhere(p) ==
  /\ pad[p] = "event" /\ startLock = Nobody
  /\ pad' = [pad EXCEPT ![p] = "enq"] /\ startLock' = p
  /\ UNCHANGED <<main, server, queueLock, options, context, clients, interrupted,
                 cancelled, queue, spurious>>

\* A gamepad thread may be cancelled while it holds the lock.
CancelledAnywhere(p) == pad[p] \in {"open", "read", "event", "enq"}

-------------------------------------------------------------------------------
(* main: start                                                             *)

InitQueue ==
  /\ main = "init" /\ main' = "pads"
  /\ queue' = "live"
  /\ UNCHANGED <<server, pad, startLock, queueLock, options, context, clients,
                 interrupted, cancelled, spurious>>

CreatePad(p) ==
  /\ main = "pads" /\ pad[p] = "none"
  /\ pad' = [pad EXCEPT ![p] = "open"]
  /\ main' = IF \A q \in Pads \ {p} : pad[q] # "none" THEN "create" ELSE "pads"
  /\ UNCHANGED <<server, startLock, queueLock, options, context, clients, interrupted,
                 cancelled, queue, spurious>>

\* ws_create_thread: the options live in this frame until it returns.
CreateServer ==
  /\ main = "create" /\ main' = "lock"
  /\ options' = "valid"
  /\ server' = "lock"
  /\ UNCHANGED <<pad, startLock, queueLock, context, clients, interrupted, cancelled,
                 queue, spurious>>

\* pthread_mutex_lock, then pthread_cond_wait, which releases the mutex while
\* it waits and takes it again when it is woken; no predicate is tested.
StartLock ==
  /\ main = "lock" /\ startLock = Nobody
  /\ main' = "wait" /\ startLock' = Main
  /\ UNCHANGED <<server, pad, queueLock, options, context, clients, interrupted,
                 cancelled, queue, spurious>>

CondWait ==
  /\ main = "wait"
  /\ main' = "waiting" /\ startLock' = Nobody
  /\ UNCHANGED <<server, pad, queueLock, options, context, clients, interrupted,
                 cancelled, queue, spurious>>

SpuriousWake ==
  /\ main = "waiting" /\ main' = "woken"
  /\ spurious' = TRUE
  /\ UNCHANGED <<server, pad, startLock, queueLock, options, context, clients,
                 interrupted, cancelled, queue>>

Rewait ==
  /\ main = "woken" /\ startLock = Nobody
  /\ main' = "started" /\ startLock' = Main
  /\ UNCHANGED <<server, pad, queueLock, options, context, clients, interrupted,
                 cancelled, queue, spurious>>

\* Unlock and return: the frame that holds the options is gone.
CreateReturn ==
  /\ main = "started" /\ main' = "game"
  /\ startLock' = Nobody
  /\ options' = "gone"
  /\ UNCHANGED <<server, pad, queueLock, context, clients, interrupted, cancelled,
                 queue, spurious>>

-------------------------------------------------------------------------------
(* main: the game loop and the shutdown                                    *)

\* The script pops the queue in the game loop.
Pop ==
  /\ main = "game" /\ queueLock = Nobody
  /\ main' = "pop" /\ queueLock' = Main
  /\ UNCHANGED <<server, pad, startLock, options, context, clients, interrupted,
                 cancelled, queue, spurious>>

PopDone ==
  /\ main = "pop" /\ main' = "game"
  /\ queueLock' = Nobody
  /\ UNCHANGED <<server, pad, startLock, options, context, clients, interrupted,
                 cancelled, queue, spurious>>

\* terminal.quit ends the loop; pthread_cancel on each gamepad thread, no join.
Quit ==
  /\ main = "game" /\ main' = "cancel"
  /\ UNCHANGED <<server, pad, startLock, queueLock, options, context, clients,
                 interrupted, cancelled, queue, spurious>>

CancelPad(p) ==
  /\ main = "cancel" /\ p \notin cancelled
  /\ cancelled' = cancelled \cup {p}
  /\ main' = IF cancelled' = Pads THEN "interrupt" ELSE "cancel"
  /\ UNCHANGED <<server, pad, startLock, queueLock, options, context, clients,
                 interrupted, queue, spurious>>

\* set_interrupt, under main.c's own binary_sem.
SetInterruptLock ==
  /\ main = "interrupt" /\ startLock = Nobody
  /\ main' = "interrupting" /\ startLock' = Main
  /\ UNCHANGED <<server, pad, queueLock, options, context, clients, interrupted,
                 cancelled, queue, spurious>>

SetInterrupt ==
  /\ main = "interrupting" /\ main' = "join"
  /\ interrupted' = TRUE /\ startLock' = Nobody
  /\ UNCHANGED <<server, pad, queueLock, options, context, clients, cancelled, queue,
                 spurious>>

JoinServer ==
  /\ main = "join" /\ server = "exited"
  /\ main' = "destroy"
  /\ UNCHANGED <<server, pad, startLock, queueLock, options, context, clients,
                 interrupted, cancelled, queue, spurious>>

\* destroy_msg_q does not take the lock it destroys.
DestroyQueue ==
  /\ main = "destroy" /\ main' = "close"
  /\ queue' = "freed"
  /\ UNCHANGED <<server, pad, startLock, queueLock, options, context, clients,
                 interrupted, cancelled, spurious>>

\* lua_close, reset_terminal_mode, CloseWindow, and the end of the process, which
\* ends the threads that are left.
Exit ==
  /\ main = "close" /\ main' = "exit"
  /\ pad' = [p \in Pads |-> "ended"]
  /\ UNCHANGED <<server, startLock, queueLock, options, context, clients, interrupted,
                 cancelled, queue, spurious>>

MainStart ==
  \/ InitQueue \/ (\E p \in Pads : CreatePad(p)) \/ CreateServer \/ StartLock \/ CondWait
  \/ Rewait \/ CreateReturn
MainGame == Pop \/ PopDone
MainStop ==
  \/ (\E p \in Pads : CancelPad(p)) \/ SetInterruptLock \/ SetInterrupt
  \/ JoinServer \/ DestroyQueue \/ Exit

-------------------------------------------------------------------------------
(* start_server_loop                                                       *)

ServerLock ==
  /\ server = "lock" /\ startLock = Nobody
  /\ server' = "options" /\ startLock' = Server
  /\ UNCHANGED <<main, pad, queueLock, options, context, clients, interrupted,
                 cancelled, queue, spurious>>

\* s = *(ServerOptions*) argv, and from here on SIGINT sets interrupted.
ReadOptions ==
  /\ server = "options" /\ server' = "context"
  /\ UNCHANGED <<main, pad, startLock, queueLock, options, context, clients,
                 interrupted, cancelled, queue, spurious>>

\* lws_create_context succeeds or fails; either way the condition is signalled.
CreateContext ==
  /\ server = "context" /\ server' = "signal"
  /\ context' \in {"open", "failed"}
  /\ UNCHANGED <<main, pad, startLock, queueLock, options, clients, interrupted,
                 cancelled, queue, spurious>>

\* A signal wakes main if it is waiting and is lost if it is not.
Signal ==
  /\ server = "signal" /\ server' = "unlock"
  /\ main' = IF main = "waiting" THEN "woken" ELSE main
  /\ UNCHANGED <<pad, startLock, queueLock, options, context, clients, interrupted,
                 cancelled, queue, spurious>>

ServerUnlock ==
  /\ server = "unlock"
  /\ startLock' = Nobody
  /\ server' = IF context = "failed" THEN "exited" ELSE "check"
  /\ UNCHANGED <<main, pad, queueLock, options, context, clients, interrupted,
                 cancelled, queue, spurious>>

\* while (server_sock.n >= 0 && !interrupted): the flag is read without a lock.
CheckInterrupt ==
  /\ server = "check"
  /\ server' = IF interrupted THEN "teardown" ELSE "service"
  /\ UNCHANGED <<main, pad, startLock, queueLock, options, context, clients,
                 interrupted, cancelled, queue, spurious>>

\* lws_service runs callbacks and returns, with or without an error.
ServiceReturn ==
  /\ server = "service"
  /\ server' \in {"check", "teardown"}
  /\ UNCHANGED <<main, pad, startLock, queueLock, options, context, clients, interrupted,
                 cancelled, queue, spurious>>

\* LWS_CALLBACK_ESTABLISHED puts nothing into the queue.
ServiceAccept ==
  /\ server = "service" /\ clients < MaxClients
  /\ server' = "check" /\ clients' = clients + 1
  /\ UNCHANGED <<main, pad, startLock, queueLock, options, context, interrupted, cancelled,
                 queue, spurious>>

\* LWS_CALLBACK_RECEIVE, or LWS_CALLBACK_CLOSED, which also ends in enq_msg.
ServiceEnqueue ==
  /\ server = "service" /\ clients > 0 /\ queueLock = Nobody
  /\ server' = "enq" /\ queueLock' = Server
  /\ clients' \in {clients, clients - 1}
  /\ UNCHANGED <<main, pad, startLock, options, context, interrupted, cancelled, queue,
                 spurious>>

ServiceEnqueued ==
  /\ server = "enq" /\ server' = "check"
  /\ queueLock' = Nobody
  /\ UNCHANGED <<main, pad, startLock, options, context, clients, interrupted, cancelled,
                 queue, spurious>>

\* lws_context_destroy closes the clients that are left, and calls back with
\* LWS_CALLBACK_CLOSED for each of them.
CloseClient ==
  /\ server = "teardown" /\ clients > 0 /\ queueLock = Nobody
  /\ server' = "closing" /\ queueLock' = Server
  /\ clients' = clients - 1
  /\ UNCHANGED <<main, pad, startLock, options, context, interrupted, cancelled, queue,
                 spurious>>

ClientClosed ==
  /\ server = "closing" /\ server' = "teardown"
  /\ queueLock' = Nobody
  /\ UNCHANGED <<main, pad, startLock, options, context, clients, interrupted, cancelled,
                 queue, spurious>>

DestroyContext ==
  /\ server = "teardown" /\ clients = 0
  /\ server' = "exited" /\ context' = "closed"
  /\ UNCHANGED <<main, pad, startLock, queueLock, options, clients, interrupted, cancelled,
                 queue, spurious>>

ServerStep ==
  \/ ServerLock \/ ReadOptions \/ CreateContext \/ Signal \/ ServerUnlock \/ CheckInterrupt
  \/ ServiceReturn \/ ServiceAccept \/ ServiceEnqueue \/ ServiceEnqueued
  \/ CloseClient \/ ClientClosed \/ DestroyContext

\* sigint_handler
Sigint ==
  /\ server \notin {"none", "lock", "options"} /\ main # "exit" /\ ~interrupted
  /\ interrupted' = TRUE
  /\ UNCHANGED <<main, server, pad, startLock, queueLock, options, context, clients,
                 cancelled, queue, spurious>>

-------------------------------------------------------------------------------
(* joystick_event_thread: open, read and enqueue in a loop; a failed read  *)
(* goes back to open.  Only open, sleep and read are cancellation points:  *)
(* a cancelled thread gets no further than the next of them.               *)

PadOpened(p) ==
  /\ pad[p] = "open" /\ p \notin cancelled
  /\ pad' = [pad EXCEPT ![p] = "read"]
  /\ UNCHANGED <<main, server, startLock, queueLock, options, context, clients,
                 interrupted, cancelled, queue, spurious>>

PadRead(p) ==
  /\ pad[p] = "read" /\ p \notin cancelled
  /\ \E to \in {"event", "open"} : pad' = [pad EXCEPT ![p] = to]
  /\ UNCHANGED <<main, server, startLock, queueLock, options, context, clients,
                 interrupted, cancelled, queue, spurious>>

PadEnqueue(p) ==
  /\ pad[p] = "event" /\ queueLock = Nobody
  /\ pad' = [pad EXCEPT ![p] = "enq"] /\ queueLock' = p
  /\ UNCHANGED <<main, server, startLock, options, context, clients, interrupted,
                 cancelled, queue, spurious>>

PadEnqueued(p) ==
  /\ pad[p] = "enq"
  /\ pad' = [pad EXCEPT ![p] = "read"] /\ queueLock' = Nobody
  /\ UNCHANGED <<main, server, startLock, options, context, clients, interrupted,
                 cancelled, queue, spurious>>

\* The positions at which a pending cancellation takes effect.
AtCancellationPoint(p) == pad[p] \in {"open", "read"}

PadCancel(p) ==
  /\ p \in cancelled /\ AtCancellationPoint(p)
  /\ pad' = [pad EXCEPT ![p] = "ended"]
  /\ UNCHANGED <<main, server, startLock, queueLock, options, context, clients,
                 interrupted, cancelled, queue, spurious>>

PadStep(p) == PadOpened(p) \/ PadRead(p) \/ PadEnqueue(p) \/ PadEnqueued(p) \/ PadCancel(p)

-------------------------------------------------------------------------------

ServerNext ==
  \/ MainStart \/ SpuriousWake \/ MainGame \/ Quit \/ MainStop
  \/ ServerStep \/ Sigint
  \/ \E p \in Pads : PadStep(p)

ServerSpec == ServerInit /\ [][ServerNext]_serverVars

(***************************************************************************)
(* The scheduler runs every thread that can run, and lws_service returns   *)
(* to the loop (a client's traffic or the library's timers end its wait).  *)
(* The other threads lock the queue for a moment at a time, so the server  *)
(* gets the lock to close a client, though it may be taken many times      *)
(* before.                                                                 *)
(* Nothing obliges the player to quit, press Ctrl-C or touch a gamepad.    *)
(***************************************************************************)
Fairness ==
  /\ WF_serverVars(MainStart) /\ WF_serverVars(PopDone) /\ WF_serverVars(MainStop)
  /\ WF_serverVars(ServerStep) /\ SF_serverVars(CloseClient)
  /\ \A p \in Pads : WF_serverVars(PadEnqueued(p)) /\ WF_serverVars(PadCancel(p))

ServerFairSpec == ServerSpec /\ Fairness

-------------------------------------------------------------------------------
(* Properties.                                                             *)

ServerTypeOK ==
  /\ main \in {"init", "pads", "create", "lock", "wait", "waiting", "woken", "started",
               "game", "pop", "cancel", "interrupt", "interrupting", "join", "destroy",
               "close", "exit"}
  /\ server \in {"none", "lock", "options", "context", "signal", "unlock", "check", "service",
                 "enq", "teardown", "closing", "exited"}
  /\ pad \in [Pads -> {"none", "open", "read", "event", "enq", "ended"}]
  /\ startLock \in {Nobody, Main, Server}
  /\ queueLock \in Pads \cup {Nobody, Main, Server}
  /\ options \in {"none", "valid", "gone"}
  /\ context \in {"none", "open", "failed", "closed"} /\ clients \in 0..MaxClients
  /\ interrupted \in BOOLEAN
  /\ cancelled \subseteq Pads
  /\ queue \in {"none", "live", "freed"} /\ spurious \in BOOLEAN

\* ws_create_thread passes a pointer into its own frame to the new thread: the
\* thread dereferences it while the frame exists, unless main was woken for
\* no reason (there is no predicate that would make it wait again).
OptionsReadInTime == server = "options" /\ ~spurious => options = "valid"

\* "wait for the server to start" (ws_ring_server.c:137): when ws_create_thread
\* has returned after a signal, the server has its context or failed to get one.
StartedOnReturn == options = "gone" /\ ~spurious => context # "none"

\* "wait for the server to start" is a wait that ends.
StartIsSeen == (main = "lock") ~> (main = "game")

\* The order of main's cleanup keeps everyone but a gamepad thread that was
\* cancelled and not joined away from the queue that destroy_msg_q freed.
OnlyCancelledPadsTouchFreedQueue ==
  queue # "live" =>
    /\ main # "pop" /\ server \notin {"enq", "closing"}
    /\ \A p \in Pads : pad[p] = "enq" => queue = "freed" /\ p \in cancelled

\* Cancelling a gamepad thread never leaves the queue locked for the others.
NoAbandonedLock == main # "exit" => \A p \in Pads : queueLock = p => pad[p] = "enq"

\* Setting interrupted, by main or by Ctrl-C, ends the server thread.
InterruptStopsServer == interrupted ~> (server = "exited" \/ main = "exit")

\* Once the player has quit, the cleanup runs to its end.
ShutdownCompletes == (main = "cancel") ~> (main = "exit")
===============================================================================
