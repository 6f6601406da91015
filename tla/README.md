# TLA+ models of XNgine

XNgine runs Lua games on a Raspberry Pi: a C program opens a window, hands a
drawing and physics API to a Lua script, and collects the players' input from
phones (a web page over a websocket) and from Bluetooth gamepads. This
directory models the parts that have a state of their own -- the input servers,
where several threads meet, and the loop, console, particles, collision tests
and servos on the main thread -- checks the models with TLC, and proves the
central ones with TLAPS.

Paths are written with the repository at `src/`; its C sources are therefore in
`src/src/`.

## 1. The system

### 1.1 Components

| component | state | operations | who calls it |
|---|---|---|---|
| Event queue (`servers/message_queue.c`) | linked list `head`, `tail`, `length`; mutex `binary_sem`; static buffer of 512 messages | `enq_msg`, `pop_new_messages`, `enq`, `deq`, `queueCreate`, `queueDestroy` | websocket and gamepad threads enqueue; the main thread pops |
| Lua server bindings (`lua-bindings/lua_server.c`) | userdata `MessageList` = pointer to the static buffer and a length | `server.pop`, `MessageList:size/get`, `get_connections`, `get_motion`, `set_pair_mode` | the script, on the main thread |
| Table of players (`servers/message_queue.c`) | `connection_ids_new[20]`, `num_connections`, the static `firstTime` | `insert_id`, `remove_id` | websocket and gamepad threads, without a lock |
| Threads and lifecycle (`main.c`, `servers/ws/ws_ring_server.c`) | thread handles, `interrupted`, condition variable and mutex of the start handshake | `ws_create_thread`, `start_server_loop`, `set_interrupt`, SIGINT handler, cleanup of `main` | main and all threads |
| Websocket protocol (`servers/ws/protocol_lws_minimal.c`, `lws_gibberish.c`) | one ring of 8 outgoing messages, a tail per client, the list of clients | `callback_minimal` (ESTABLISHED, CLOSED, SERVER_WRITEABLE, RECEIVE), `ws_broadcast`, `cull_lagging_clients` | libwebsockets, on the websocket thread |
| Gamepad threads (`servers/bt/gamepad_server.c`) | `num_threads`, per thread a device number and a message | `joystick_event_thread` | one thread per gamepad |
| Bluetooth pairing (`gamepad_server.c`, `bluetoothctlctl.py`) | `sync_interrupt`, `pair_thread_id`, a pipe to a Python process | `set_pair_mode`, `sync_loop` | the script; an optional thread |
| Game loop (`main.c`) | `lag`, frame times | fixed updates of 1/60 s, drawing | main |
| Dev console (`util/input.c`, `util/file_io.c`) | input buffer, history file and position | key handling, command execution, `get_line` | main |
| Particles (`graphics/particles.c`) | emitters, a fixed array of particles each | emit, update, remove | the script |
| Lists and collision tests (`util/linked_list.c`, `collisions.c`, `bob_math.c`) | none of their own | list operations, GJK and ray tests on floats | the bindings |
| Models and physics bindings (`lua-bindings/lua_raylib.c`, `lua_physics.c`) | arrays of models, plane sets, positions and bounding spheres | load, unload, turn, place, `separating_axis_sphere` | the script |
| Renderer (`graphics/renderer.c`) | GPU handles | drawing | main |
| Servos and inverse kinematics (`XNlib/`) | a target and a width per servo, a thread each, the global `run` | chain solving, smooth moves | `yamsim.cpp` |
| SPI camera demo (`SPI_Camera/`) | frame buffer, mode flags, three threads | capture, stream, move | its own main |
| Lua games and libraries (`lua/`) | game state, a spatial hash for the broad phase | `Hash:add_meshset`, `ball_collisions` | the game loop |
| Older server (`src/src/ws/`), vendored libraries, generators | -- | not part of the program | -- |

### 1.2 How they interact

```
 browser page ──► libwebsockets ──► callback_minimal ──┐ enq_msg          server.pop()
                  (websocket thread)                   ├────► event queue ────► Lua script
 /dev/input/jsN ──► joystick_event_thread (×2) ────────┘                   (main thread)
                          │         │
                          └─insert_id / remove_id─► table of players ─► get_connections()
 callback_minimal ──insert_id()+1──► ring of outgoing messages ──► every page

 main: one key to the console ─► time since the last frame into lag ─► _fixedUpdate (×n) ─► draw
                                                                        │
             set_pair_mode ─► sync_loop thread ─► bluetoothctlctl.py ◄──┤
             update_particles, ball_collisions ─► hash, models ◄────────┘
```

* The event queue and the lock around it are the only synchronised path. The
  script decides with an UNLOCKED read of the length whether to pop.
* The table of players and `num_connections` are written by the websocket
  thread and both gamepad threads and read by main with no lock at all.
* `message_queue.h` declares its variables `static`, so every file that includes
  it has its own copy: the `binary_sem` and `interrupted` that `main.c` and the
  websocket files share (they are included into one translation unit) are not
  the `binary_sem` that protects the queue.
* libwebsockets calls back from one thread; what happens inside one callback is
  sequential, except for the queue and the table.

### 1.3 What is hard, and what would make it correct

Each hazard is listed, at its line, in `PROJECT.json`. The main ones:

* **Queue**: producers append between any two accesses of the popping thread;
  the length read without the lock is stale when used; `deq` leaves `tail`
  dangling; the queue can hold more than the buffer. Correct means: the list
  stays a list, nothing leaks, `deq` is never called on an empty list, events
  come out once, in order, and eventually.
* **Table**: test-and-set of a slot and the counter updates race. Correct means
  that a player has one id of its own until it leaves and that the counter
  counts. The code guarantees this only for calls that do not overlap; the
  models say exactly what survives.
* **Lifecycle**: a handshake through a condition variable without a predicate, a
  pointer to a stack frame handed to a new thread, threads that are cancelled
  and not joined before the queue is freed.
* **Ring**: one ring, a tail per client, culling of slow clients, wrap-around,
  failing writes. Correct means that no client reads a freed element or misses
  one, and that a full ring can be emptied again.
* **Gamepads**: numbering of devices through a racing counter, a thread that
  restarts itself with a number cast to a pointer, messages with stale fields.
* **Pairing**: any number of threads share one flag, and each waits for any child
  of the process. Correct means that no child is forgotten and that a stop stops.
* **Main thread**: a console line shifted in place, a backlog of updates that may
  feed on itself, an array of particles shifted in place by varying amounts, and
  a collision test that rests on a hash, a bounding sphere and plane sets, each
  of which may lose a ball.
* **Servos**: main changes a target at any moment of a move.

## 2. Modules

| module | models | granularity |
|---|---|---|
| `MessageChannel` | what the queue promises: an atomic FIFO with a bounded `Take` | one action per operation |
| `MessageQueue` | `enq_msg`/`enq`, `server.pop`/`pop_new_messages`/`deq` | one action per access to shared memory that matters to another thread |
| `MessageQueueProofs` | theorems about `MessageQueue`: its list and lock, its memory, what is delivered, and that it implements `MessageChannel` | -- |
| `ConnectionTable` | `insert_id`, `remove_id` | one action per access to the table, the counter or `firstTime` |
| `ServerLifecycle` | `main`, `ws_create_thread`, `start_server_loop`, `set_interrupt`, SIGINT, the gamepad threads as far as they block, enqueue and are cancelled | one action per synchronisation step |
| `ServerProofs` | theorems about `ConnectionTable` and `ServerLifecycle` | -- |
| `GamepadServer` | `joystick_event_thread` | one action per access to `num_threads`, per `open`, per event |
| `WsRing` | `callback_minimal`, `ws_write`, `ws_broadcast`, `cull_lagging_clients`, the page's `onmessage` | one action per callback |
| `WsRingProofs` | theorems about `WsRing` | -- |
| `PairLoop` | `set_pair_mode`, `sync_loop`, the children of the process | one action per system call or access to the flag |
| `BluetoothProofs` | theorems about `GamepadServer` and `PairLoop` | -- |
| `LineEditor` | what the console promises: a line, a cursor, a list of lines | one action per kind of key |
| `Terminal` | `handle_keyboard_input`, `get_line`, `lines_in_file` | one action per byte read |
| `TerminalProofs` | theorems about `Terminal`, and that it implements `LineEditor` | -- |
| `GameLoop`, `Particles` | the loop of `main`; `update_particles`, `reset_emitter` | one action per stage of a frame; per call |
| `Frame` | `GameLoop` and `Particles` composed: a fixed update calls the script, which updates its emitter | -- |
| `FrameProofs` | theorems about `Frame` | -- |
| `SpatialHash`, `ModelSet` | `Hash` of `physics.lua`; models, plane sets, bounding spheres and `separating_axis_sphere` | one action per call |
| `CollisionWorld` | `SpatialHash` and `ModelSet` composed by `MeshSet:new`, `Hash:add_meshset` and `ball_collisions` | -- |
| `CollisionWorldProofs` | theorems about `CollisionWorld` | -- |
| `SmoothServo` | `SmoothServo::update`, `move_servo_thread`, and `reset`, `resolve` and the destructor of `ServoChain` as far as a servo sees them | one action per access to the shared angle or width |
| `SmoothServoProofs` | theorems about `SmoothServo` | -- |
| `MC*` | constants for TLC | -- |

A proof module that is about two components extends both, so their names differ:
the definitions that every component has are `ServerInit`, `ServerNext`, ... in
`ServerLifecycle` and `PairInit`, `PairNext`, ... in `PairLoop`.

Every component module ends with its properties, after a type invariant that
tells what its variables hold. It also holds a section of *faulty variants*: alternatives to single definitions, used by no specification,
each of which makes the code wrong in a way that one property detects.

### 2.1 Correspondence of state and actions

**MessageQueue.** `head`, `tail`, `length`, `next`, `msg` are the fields of
`struct queue` and `struct elt`; a cell is an address that `malloc` can return,
so the reuse of freed memory, and with it the dangling `tail`, is in the model.
`n` is the unlocked length of `lua_popNewMessages`, `newLength` and `buffer` the
statics of `pop_new_messages`, `ret` and `victim` the locals of `deq`. A
message is an abstract pair (sender, sequence number). `enq_msg` is six steps
(`EnqLock` to `EnqUnlock`), a pop is `ReadSize`, `PopLock`, then `DeqHead` and
`DeqDrop` for each message, and `PopReturn`. `malloc` may fail at any call: `enq`
asserts that it has not (`message_queue.c:107`), and the game aborts, after which
nothing happens (`EnqAllocFails`, `Alive`). The cells are a bound of the model: when
all are in use, a producer whose `malloc` does not fail waits for one. `chain`,
`taken`, `received` and `batch.taken` are history variables.

**ConnectionTable.** A thread inside `insert_id` goes through `TestFirst`,
`ResetFirst`, `ClearSlot` (the one-time reset of the table), `ScanSlot` and
`ClaimSlot` (test and assignment of a slot), `CountSlot` and `InsertReturn`
(the recount); inside `remove_id` through `FindSlot`, `EraseSlot`, and
`LoadCount`/`RemoveReturn`, the read and the write of `num_connections--`. Which
player may connect or leave is up to the thread that owns it. `alone` and
`overlapped` record whether calls have overlapped.

**ServerLifecycle.** `main`, `server` and `pad[p]` are positions in the three
kinds of threads. `startLock` is main.c's `binary_sem`, `queueLock` that of
message_queue.c. `options` tells whether the frame of `ws_create_thread`, in
which the new thread's options live, still exists; `queue` whether
`destroy_msg_q` has run. A cancelled thread ends at the next cancellation
point, which is never inside `enq_msg`. `clients` counts the websocket's connections:
`lws_context_destroy` closes those that are left, and the callback for each takes
the lock of the queue (`CloseClient`, `ClientClosed`) before the server thread can
end and be joined.

**GamepadServer.** `jid`, `argv` and `load` are the device number, the argument
and the value read by `num_threads++`; `msg_to_q` is the message the thread
reuses. A NULL `argv` and the number 0 cast to a pointer are the same value, as
in the code. `files` are the descriptors of devices, which nobody closes: once
`MaxFiles` are open, `open` fails for good. `id` is the player id, taken from those
that are free. `device` is what the device's events say of it, those with
`JS_EVENT_INIT` included, which come first; `seen`, kept for each player id, is what
a script makes of the messages, and nothing resets it when a device is lost, since
no message says so. `told` is history: the controls that have changed since the
device was opened.

**WsRing.** `head`, `oldest`, `element` are the ring of lws-ring.h, whose
consume-and-update macro is translated in `ConsumeAndUpdate`; `tail[c]`,
`pss_list`, `culled` and `asked` are a client's tail, the list of readers, the
clients that `lws_set_timeout` will kill, and the outstanding requests for a
writable callback. `player[c]` is the page's `playerId`. `CullAndReceive` and
`Broadcast` are whole functions including their early returns. Of the types that
`ws_recv_msg` knows, motion and one button stand for all; a message of another type,
or one that cannot be copied, enqueues nothing. `due` is history: the numbers that a
reader is still owed.

**PairLoop.** `loop[l]` is the position of a thread in `sync_loop`, `pid[l]` its
local. `process` is the kernel's view of the children: a process id is free,
running, or a zombie until somebody waits for it, and a free one may be given
out again. `writers[l]` are the children that hold the writing end of a thread's
pipe, also those that another thread has forked between its `pipe` and its `close`;
the pipe ends when there are none. `openEnds` counts the read ends that are open;
`cut` is history, the pipes given up because of a stop. `alive` becomes FALSE when
`pipe`, `fork` or `read` fails and the thread calls `exit`. A read that finds
nothing, and the sleep after it, change nothing and are no action.

**Terminal.** `input` is the whole buffer, with what lies behind the terminating
zero; `cursorPos`, `hist_pos` and `isOpen` are fields of `TerminalInfo`,
`special_keymode` the static of the handler. `history` is the file, one text a
line. `get_line(0)` copies the row behind the last one: an arbitrary text.
`running` becomes FALSE where `get_line` passes a NULL file on. The command itself
is run by Lua and left out, and `Return` takes for granted that the history file can
be opened: where it cannot, `fprintf` is handed NULL. The abstract editor of `LineEditor` sees what is left
and right of the cursor and the lines submitted.

**GameLoop, Particles, Frame.** `elapsed` is the time since
`previous_frame_time`, the only use the program makes of `GetTime()`. A particle
is its age in updates, on which its scale depends; positions follow. The loop
that shifts the array runs downwards and so reads old values only, which
`Shifted` states at once.

**SpatialHash, ModelSet, CollisionWorld.** Space has two axes and integer
coordinates; the faces of a mesh look along the axes, and models turn by quarters.
A mesh is its vertices in the order of the file and, for each normal, the plane
furthest in. `is_convex` is the test of the code, which looks at the first third of
the vertices only (`j` counts vertices, goes up by three and is used as an index of
floats); `Convex` is what it should find out. `convexMeshBounds[id].meshes` has
GARBAGE where `malloc`ed plane sets were not written, `mesh_count` counts those that
were, as in the code.
`dist_sqr_point_aabb` assigns where an addition is meant, and which assignment is
the last depends on the order of `pairs`: `VisitOrders` are all of them. Balls
belong to the script, so `CollisionResponse` is a function of a ball's position;
`wild` is set when it reads GARBAGE.

**SmoothServo.** Angles are known by the pulse width they stand for; `t` counts
updates of the thread. `targetw`, `targetw_prev`, `prev_reached_targetw` are the
fields of the code. The Bezier curve is `3 t^2 - 2 t^3`, computed exactly;
rounding is the code's (`0.5 +`, truncated).

## 3. Runs

All runs finish in well under five minutes with two workers.

| run | instance | shows |
|---|---|---|
| `queue` | 2 producers × 2 events, 4 cells, buffer of 2 | `ListWellFormed`, `DequeueNeverEmpty` (deq's assertion), `NothingLeaks`, `UnlockedSizeIsALowerBound`, `LatestListIntact`, `DeliveredInOrder`, the refinement `ImplementsChannel`, and `EventuallyTaken` |
| `table` | websocket thread with 2 clients, gamepad thread with 1 player, 2 slots | `NoGhosts` and `OneSlotEach` under every interleaving, `IdsAreKept` and `CountIsOccupied` up to the first overlap, `LoneInsertIsExact` after any history |
| `lifecycle` | 2 gamepad threads, up to 2 clients | options are read while they exist, start and shutdown come to an end, no lock is abandoned, who may touch the freed queue |
| `lifecycle_wakeup` | same | **violated**: signal before wait, main waits for ever |
| `gamepad` | 2 threads, devices 0 to 2, 2 players, 3 descriptors | device numbers stay below 2 × threads (`NumbersAreBounded`), the script is right about what has moved (`ScriptSeesWhatMoves`), devices other than 0 are found again (`NonzeroDevicesReconnect`) |
| `ring` | 3 clients, ring of 3, 1 slot | no reader behind the oldest tail, payloads freed exactly once, every reader gets every number in order, a waiting reader has a callback coming, culling makes room |
| `pair` | 2 threads, 3 process ids, 3 pipes | `ChildrenMatchLoops`, `ScriptsAreReadOrKilled`, `OnlyCutPipesLeak`, and `StopIsHeeded` |
| `console` | buffer of 5 bytes, 2 characters, 2 lines of history | the buffer implements the editor (`EditsAsShown`) |
| `frame` | step of 3 units, updates of up to 2, 4 particles, bursts of 0, 1, 3 | `LagIsBounded`, `UpdatesLikeAList`, `QuitIsHeeded` |
| `world` | 3 files and the cube, 2 models, 2 meshsets, cells of 3 units | `AddedAreListed`, `NoBallInsideUnnoticed`, `OnlyTheseReadGarbage` |
| `world_reject` | same | **violated**: a ball that overlaps a mesh is dropped because its own radius is ignored |
| `servo` | widths 2 to 8, up to 9 updates a move | `NeverBackwards`, `TargetIsReached` |

### 3.1 Bounds, and why they are enough

* `queue`: two producers give contention for the lock and order between
  senders; four events against a buffer of two make the buffer too small (a
  call copies part of the queue and the rest must survive), reach the buffer's
  exact size, and empty the queue in the middle (dangling tail). As many cells
  as events let a cell be reused while another is in use. `MaxSent` is a guard
  of `EnqLock`, `Capacity` stands for 512. Deadlock is not checked because a failed
  `malloc` ends the program.
* `table`: two slots for three players reach the full table and the result -1;
  two threads suffice for each race, which all involve a pair of calls. The
  counter can drift down without limit (the model shows it), so calls overlap
  only while it is at least `-MaxDrift`.
* `lifecycle`: `MaxClients` bounds the connections, of which two let one leave while
  the other is there and leave more than one to close in the end. Deadlock is not
  checked because the program is meant to end (and, in the lost wakeup, stops).
* `gamepad`: three device numbers cover 0, the numbers taken at the start and
  one taken after losing device 0; axis values 0 and 1, in units of full
  deflection, and events on axis 0, button 0 and others are all that the switch
  tells apart but for axis 1, which is symmetric to axis 0. Of the events with
  `JS_EVENT_INIT`, the run has the one that a device sends whose button A is pressed
  when it is opened. Two players are as many as can play at a time, so every id is
  given again and again; three descriptors are used up by three connections.
  Such events are sent on open; the model has them only before the first change (the
  kernel also sends them when a reader has fallen 64 events behind, and drops what
  it has not read: this is left out).
* `ring`: a ring of three holds two elements: the ring wraps, fills and empties,
  and three clients give the oldest, a survivor and a newcomer. One slot makes
  `insert_id` fail too.
* `pair`: the hazards are about one thread acting on another one's child, which
  two show; a third process id lets an id be free and be reused while both have
  children. Three pipes are used up by three stops (`PipeFails`).
* `console`: texts of up to three characters have a beginning, a middle and an
  end, and old bytes behind a shorter one. `LINE_WIDTH` stands for 512,
  `MaxHistory` and `MaxBack` bound the file and the position in it; the latter
  exceeds the former. Texts are kept two bytes shorter than the buffer, see 3.3.
* `frame`: updates that take almost their step, and a frame that takes longer
  than one, let lag build up over several frames; `lag` has no other bound than
  the one to be shown. The bursts make 4 particles overflow, fit exactly, and
  replace less than all; `MaxAge` only has to tell new from old.
* `world`: models reach into one to four cells, and lie across the origin, where
  rounding matters. Each file has a box and an L, which comes after it, before it, or
  before it with its vertices in an order that lets it pass for convex; positions are at and off a corner of cells. `Coordinates`
  and `GridRange` bound the balls and the cells looked at.
* `servo`: odd and even distances and a `T_MAX` above them make steps that round to
  nothing; the default target is off the middle, as in the program.

Symmetry is used for the interchangeable clients of `table` and `ring`, which have
no liveness properties.

### 3.2 Fairness, and why the code justifies it

* `MessageQueue`: weak fairness of a producer that has begun `enq_msg` and of
  the popping script. A mutex holder is never blocked, and the script calls
  `server.pop()` in each fixed update, as the documented example does
  (`src/lua/tests/README.md:92-110`). `PopLock` needs only weak fairness here,
  since producers send finitely many events. No producer is obliged to send.
* `ServerLifecycle`: each thread that can run does; `lws_service` returns (a
  client's traffic or the library's timers end its wait); and the server thread gets
  the lock of the queue when it needs it again and again to close its clients
  (strong fairness of `CloseClient`: gamepad threads hold it for a few instructions
  in each event). Nobody is obliged to
  quit, press Ctrl-C or touch a gamepad.
* `GamepadServer`: each thread's enumeration, its `open` loop and its handling
  of a failed read make progress. Devices owe nothing; the reconnection
  property assumes that the device stays, and that there is a descriptor left.
* `PairLoop`: each thread's next step happens once it can (`PromptStep`), while the
  program lives. Nothing is assumed of the script, of the end of its output
  (another child may hold the pipe), or of who starts and stops pairing:
  `StopIsHeeded` speaks of a stop that stays.
* `Frame`: `main` is never blocked, and the functions of the script return. Nobody
  is obliged to quit, and how long things take is open.
* `SmoothServo`: the servo's thread runs; main owes nothing, and `TargetIsReached`
  speaks of a target that is left alone.
* `ConnectionTable`, `WsRing`, `Terminal` and `CollisionWorld` are checked for safety
  only.

### 3.3 What the models found

`PROJECT.json` lists the two disagreements between code and comments that have a
run, `lifecycle_wakeup` and `world_reject`. The models show more; where a property
above says "except" or "until", this is why.

Queue and table:

* `MessageList:size()` is the length the queue had, also when more was waiting than
  the 512 messages copied (`message_queue.c:77`, `PopReturn`).
* After two calls of `insert_id`/`remove_id` have overlapped, `num_connections` may be
  wrong while nothing is in progress, until the next lone `insert_id`
  (`message_queue.c:57`); `CountIsOccupied` therefore stops at the first overlap.
* A gamepad thread that was cancelled and not joined may enqueue into the freed
  queue (`main.c:166`): the one case that `OnlyCancelledPadsTouchFreedQueue` leaves.
* All `MessageList`s share one buffer, so an older list changes when a new one is
  popped (`message_queue.c:71`); the latest stays intact.

Websocket and gamepads:

* A client that closes while it is furthest behind does not move the oldest tail;
  a full ring then has no reader to cull and drops every message
  (`protocol_lws_minimal.c:192`); `CullMakesRoom` speaks of rings with such a reader.
* A page takes the first number it receives, and numbers are broadcast, so it can
  take another client's (`protocol_lws_minimal.c:186`, `main.js:240`).
* A client that joins a full ring is not sent its number and no writable callback is
  requested for it (`lws_gibberish.c:60`) until the next broadcast that finds room.
* `MSG_DISCONNECT` from the websocket always names user 0
  (`protocol_lws_minimal.c:201`).
* Device 0, once lost, is not read again: its number cast to a pointer is a NULL
  argument, and the thread takes the next number (`gamepad_server.c:205`).
* A gamepad event that sets no field enqueues the previous message again
  (`gamepad_server.c:231`), so the script sees presses twice.
* A disconnect tells the script nothing (`gamepad_server.c:202-206`): it goes on
  believing that button A is pressed, or that an axis is deflected, and takes this
  over to the next device with the same player id. The state that a device reports
  when it is opened has `JS_EVENT_INIT` in its type and is ignored
  (`gamepad_server.c:209-230`), so this lasts until the control in question changes.
  From then on the script is right about it (`ScriptSeesWhatMoves`).
* The descriptor of a lost device is not closed; when all are used up no device is
  opened any more, the exception in `NonzeroDevicesReconnect`.

Pairing:

* A stop that comes before the new thread has run is lost, and a second start takes
  back a stop that the first thread has not seen (`gamepad_server.c:244`).
* `wait(0)` may reap another thread's child, and `kill` then reach whoever has its
  id; the counts come out right all the same (`ChildrenMatchLoops`).
* Each interrupted reading leaks a descriptor; `pipe`, `fork` or `read` failing in a
  pairing thread ends the game (`gamepad_server.c:248-256`, `285-288`, `292`).
* The cleanup of `main` ends neither the thread nor its child, and SIGKILL to the
  script does not reach a `bluetoothctl scan on` that it has started in a session of
  its own (`bluetoothctlctl.py:11-15`).

Console:

* VK_DOWN at the first line recalled calls `get_line(0)`, which copies from behind the
  array of lines; without a history file, any recall passes NULL to `getc`
  (`file_io.c:9`, `54`); VK_UP has no upper bound.
* Characters are accepted beyond the 512 bytes of the buffer, and a line of 511
  characters is split by `fgets` into two rows, one more than the array has
  (`input.c:185`, `file_io.c:37`). The model stops before both.
* After ESC, every byte but the letter of an arrow is swallowed.

Loop, particles, models:

* With updates that take as long as their step, lag grows from frame to frame;
  below that, `LagIsBounded` says by how much one slow frame can delay the rest.
* A burst that does not fit pushes out as many of the oldest particles and leaves the
  number as it is, also when there was room for some (`particles.c:44`).
* The early reject ignores the ball's radius (`world_reject`). Balls whose centre is in
  a mesh are found, provided that the model is centred: the bounding sphere is that
  of two corners of the box (`lua_physics.c:301-304`), although the documentation
  promises "all possible rotations of model" (`src/lua/tests/README.md:119`).
* The convexity test looks at the first third of the vertices (`lua_physics.c:75-76`),
  so a concave mesh may be stored as if it were convex. Its planes then bound less
  than the mesh, and a ball inside of the rest of it is not noticed;
  `NoBallInsideUnnoticed` is about convex meshes, which do pass the test
  (`ConvexPasses` in the proofs).
* Plane sets are stored by mesh and counted by mesh taken for convex, so such a mesh
  behind one that is not is tested with unwritten memory, and so is every model of
  `load_cube_model`, the default of `MeshSet:new`.
* `dist_sqr_point_aabb` measures along one axis. It never measures too much, so cells
  are listed too often and never too rarely (`AddedAreListed`).
* `get_cell` adds an empty list for each cell asked for, and searches them all.

Servos:

* If main sets a target of width 1500 before a thread's first update, the servo jumps:
  1500 counts as the last target and as the start of the move, whose length is then
  0 (`xn_gpio.hpp:211-213`, `256`).
* A target that changes in every update restarts `t` each time; steps that round to
  nothing then keep the servo where it is. `TargetIsReached` needs the target left
  alone.
* Closing the window of `yamsim` destroys the `ServoChain`, whose destructor joins
  threads that only SIGINT ends (`xn_ik.hpp:256-262`): it hangs.

## 4. Proofs

TLC checks the instances of section 3; the theorems below hold for every number
of producers, cells, players, slots, gamepads, devices, pairing threads and
process ids, every buffer, ring and array size, step, cell size, model and range of
a servo. The type
invariants are proved here where a module has proofs and are not repeated in the
runs.

| module | theorems (property) |
|---|---|
| `MessageQueueProofs` | `QueueInvariant`; `TypeCorrect` (`TypeOK`), `ListCorrect` (`ListWellFormed`, `LengthCounts`), `DeqAssertionHolds` (`DequeueNeverEmpty`), `UnlockedSizeSafe` (`UnlockedSizeIsALowerBound`), `NothingIsLeaked` (`NothingLeaks`), `LatestListReadsTrue` (`LatestListIntact`), `OrderIsKept` (`DeliveredInOrder`), `Implementation` (`ImplementsChannel`) |
| `ServerProofs` | `TableInvariant`; `TableTyped` (`TypeOK`), `NoGhostsEver` (`NoGhosts`), `NoPlayerTwice` (`OneSlotEach`); `ExactInvariant`; `IdsKeptUntilOverlap` (`IdsAreKept`), `CountRightUntilOverlap` (`CountIsOccupied`), `LoneInsertRepairs` (`LoneInsertIsExact`) |
| | `LifecycleInvariant`; `OptionsSafe` (`OptionsReadInTime`), `StartedSafe` (`StartedOnReturn`), `CleanupOrder` (`OnlyCancelledPadsTouchFreedQueue`), `LockNotAbandoned` (`NoAbandonedLock`) |
| `BluetoothProofs` | `GamepadTyped` (`TypeOK`), `ScriptIsRightOnceTold` (`ScriptSeesWhatMoves`), `NumbersStayBounded` (`NumbersAreBounded`) |
| | `PairInvariant`; `NoChildIsLeft` (`ChildrenMatchLoops`), `NoScriptIsForgotten` (`ScriptsAreReadOrKilled`), `LeaksAreCounted` (`OnlyCutPipesLeak`) |
| `WsRingProofs` | `RingTypes` (`TypeOK`), `TailsStayInRing` (`TailsInRing`), `PayloadsFreedOnce` (`FreedOnce`), `NumbersReachReaders` (`ReadsEveryNumber`), `ReadersAreAsked` (`WaitingIsAsked`), `CullingMakesRoom` (`CullMakesRoom`) |
| `TerminalProofs` | `CursorStaysInText` (`ConsoleInv`), `ConsoleIsALineEditor` (`EditsAsShown`) |
| `FrameProofs` | `LagStaysBounded` (`LagIsBounded`), `EmitterIsAList` (`UpdatesLikeAList`) |
| `CollisionWorldProofs` | `HashReachesEveryBall` (`AddedAreListed`), `NoBallSlipsInside` (`NoBallInsideUnnoticed`), `GarbageIsReadForThese` (`OnlyTheseReadGarbage`) |
| `SmoothServoProofs` | `ServoInvariant` (`ServoInv`), `ServoNeverTurnsBack` (`NeverBackwards`) |

Every invariant and every action property of the passing runs is proved, and both
refinements are.

### 4.1 Assumptions

Only the named assumptions on the constants, which TLC evaluates in every run:
`QueueAssumption` (the main thread is not a producer, NULL is neither thread nor
cell, the buffer has room for a message), `TableAssumption` (the table has a
slot, each player belongs to one thread, NULL is no player),
`RingAssumption` (the ring has room for an element beside the position that stays
free; the table has a slot; NULL is neither client nor number),
`LifecycleAssumption` (the threads are different, and nobody is none of them), `GamepadAssumption`
(finitely many threads, a player id for each, a device 0, events as in joystick.h,
NULL is neither number nor player), `PairAssumption` (finitely many threads and
process ids, a number of pipes), `GameLoopAssumption` and
`ParticlesAssumption` (times and sizes are natural numbers, a burst is not larger
than the array), `TerminalAssumption` (the buffer has at least two bytes; the zero is
no character), `ServoAssumption` (a range that is not empty, with the default width in
it, and a positive `T_MAX`), `SpatialHashAssumption`, `WorldAssumption` and
`ModelAssumption` (cells have a size, coordinates are integers on two axes, balls are
in cells looked at and have a radius; a model has at least one mesh, what is stored
for it is not what unwritten memory holds).

### 4.2 Arguments

**Queue.** `IInv` is the conjunction of the type invariant, `LockInv` (who holds
the lock and where it is), `ListWellFormed`, `LengthCounts`, `EnqInv` and
`PopInv` (the locals of `enq` and of the loop around `deq`), `ContentsInv` (what
each listed cell holds) and `UnlockedSizeIsALowerBound`. The types alone are not
inductive: `deq` follows `head` without a test, so that `head` is a cell there
depends on the list not being empty, hence on the length read inside the lock,
hence on the unlocked length, which was at least 1 and cannot have shrunk
because nobody else dequeues. That last fact makes the unlocked read harmless.
It rests on there being one thread that pops, which is how the model and the
program are built.

**Delivery.** `BufferInv`: outside a pop the static buffer holds what the last
pop took. `OrderInv`: what the list holds of a sender is newer than what was
received from it, in increasing order and without gaps. `NothingLeaks` is
inductive given `IInv`: the proof says for each place an element can be in who
moves it there.

**Refinement.** `EnqLink` implements the channel's `Send`, `PopReturn` its
`Take`, and every other step stutters. The mapping counts the messages that a
pop has already dequeued as pending until the pop returns, so the batch is
taken at once although producers append before and after it.

**Table.** `TableInv` needs no exclusion: a player is put in and taken out only
by its own thread (`CallInv`), so where it may be follows from that thread's
position (`PlaceInv`); other threads may overwrite it, but not duplicate it or
bring it back. `ExactInv` is about calls that nobody overlaps: `AloneInv` says
that all other threads are idle, `AloneCall` that what such a call has found
out is still true, `QuietInv` that table and counter agree while no two calls
have ever overlapped.

**Lifecycle.** `StartInv` ties the positions of main and server to the lock of
the handshake and to the life of the options: without a spurious wakeup, main is
past its wait only if the server has signalled, which it does after its last use
of the options. `CleanupInv` orders cancellation, join and `destroy_msg_q`.

**Gamepads.** `MessageInv`: in what has been told since the device was opened, the
reused message has the axes of the device and, if its type is a press or a release of
A, its button; the script is right about the same controls, and no two threads have
one player id, so that no other thread's message disturbs what is believed of it.
`NumberInv`: the number that
`num_threads` has or that a pending store may still write, plus the threads
inside `num_threads++`, plus the threads at device 0, stays within twice the
number of threads -- a thread pays for a new number by leaving 0 for good.

**Pairing.** `LoopInv` is the type invariant with the three properties; which children
can write to which pipe plays no part in them. `Fork` adds a child and a thread that has to wait, `Wait` takes one of each, whoever's child it
is; `Wait` without a child cannot happen because the counts agree. A kill hits a
running child, and `ScriptsAreReadOrKilled` says that its own thread is reading it,
or about to kill it.

**Frame.** `LagIsBounded` is not inductive: an update takes `S` off `lag` and may add
`u` to `elapsed`. `LagInv` bounds `(S - u) * (S * elapsed + u * lag)`, which an update
does not increase, and which drawing and input increase by what they may take; at
the next measurement `lag` is below `S` and the bound on `elapsed` gives the one on
`lag`. For the emitter, the array after the shift, the spawning and the ageing is
compared with the list, slot by slot.

**Collision world.** `ListInv` says that what was added is listed in every cell that
`CellsReached` for some order of the axes contains, and stays. The rest of the first
theorem is arithmetic: the cell of a point within the sphere is, along each axis,
within the span and no further from the centre than the point is, so whichever axis
counts, its gap is less than the radius. For the collision test, `WorldInv` adds
`ModelsInv` (plane sets are those of the files, or unwritten), `SpheresInv` (what is in
the hash has the radius of its model: the sphere is computed before the meshset is
added, and does not depend on how the model is turned) and `OnlyAddedInv` (nothing else is in the
hash). `NoBallSlipsInside` then goes along the list of the cell: as long as no meshset
has noticed the ball it is where it was, and the one it is inside of is on the list.
That a convex mesh is inside of its box, and the box of its model inside of the sphere
used, needs the least and the greatest of finitely many coordinates (`BoundsOfMany`).
The code's loop is a recursive function in the model; it is followed by induction over
the numbers of the passes, stated as the least element of a set of naturals, since an
induction principle over formulas is out of the provers' reach.

**Ring.** The five invariants are proved together (`RingInv`): a tail is in the ring only
as long as the oldest tail follows the slowest reader, what is unread is unfreed only
because tails are in the ring, and culling the readers at the oldest tail is enough
only because nobody else is there. Positions are remainders; the lemmas of the first
section replace them by `Behind`, the number of elements between a position and the
head, which a step changes by one, and after them the wrap does not appear any more.
`ReadersInv` is the strengthening that the properties alone lack: who is in the list
is who is connected and was not culled.

**Console.** `ConsoleInv` says that a zero follows the text before the last byte but one
and that the cursor is in the text; that every branch stays inside of the buffer
depends on it. Each branch is then a lemma about buffers alone (`Typed`, `Erased`,
`CursorLeft`, `CursorRight`, `Copied`, `ClearedIs`): whatever bytes are behind the zero,
the text left and right of the cursor changes as the editor says. Escape bytes, an
arrow at an end of the text and VK_DOWN at the newest line are stuttering steps.

**Servo.** The curve of a move grows (`CurveGrows`: the difference of two heights has the
factor `3 * d * (m + n) - 2 * (m*m + m*n + n*n)`, which is not negative up to the end of
the move) and rounding keeps the order (`RoundedGrows`), so two widths of one move are
in order. `OnTheMove` is what makes this a fact about the program: the width is where the
remembered move is at time `t`, through every order in which main sets a target and
the thread reads it. Before main's `reset`, which writes the width without a lock, the
thread cannot be in a move (`NotMovedYet`); otherwise `reset` could throw it back.

### 4.3 What is only model-checked

Liveness: `EventuallyTaken`, `ShutdownCompletes`, `InterruptStopsServer`,
`NonzeroDevicesReconnect`, `StopIsHeeded`, `QuitIsHeeded`, `TargetIsReached`. Fairness and
ENABLED are out of the prover's reach.

## 5. Not modelled

* Most of the C lines in the repository are vendored: pigpio with its installed
  headers, the register tables of the camera, build outputs. They are not XNgine,
  and the models cover none of them; the share of all lines that is modelled is
  therefore small, and that of the engine's own state large.
* `motion_msg` and `get_motion`: what they do beyond storing and reading three floats
  (torn reads, ids past the array's end) is undefined in C, and no promise of the
  code is about it.
* `unload_model`: it leaves the slot counted, so whatever the script does with the
  index afterwards is undefined.
* Rendering, raylib and Lua bindings that pass arguments on: no state of their
  own. Float arithmetic -- GJK, rays, the IK solver, particle positions -- is outside
  the reach of the tools; where only comparisons matter, it is modelled over
  integers.
* The SPI camera demo is a program of its own, mostly bus transfers.
* Curved meshsets, velocities and bounces of `ball_collisions`.
* Failure of `pthread_create`, of `pthread_mutex_init` and of the `malloc` of
  `queueCreate`: they happen before there is anything to model, or are not tested
  for. That of `enq` is modelled (`EnqAllocFails`), and that of `ws_recv_msg`
  (`Enqueue` in `WsRing`); that of `ws_broadcast_int` leaves a new client without its
  number, as a full ring does, and is left out.
* Running the command typed into the console, and a history file that cannot be
  opened when it is to be written.
* The resynchronisation of a gamepad whose events the kernel had to drop.
* The text of messages (numbers are sent in decimal, motion as CSV): the models
  pass the values; the field that is filled from the page, `user_id`, is kept.
* The depth of the Lua stack, which grows with each call of a function the script
  does not define (`lua_util.c:39-44`).
* `ws_send`, `add_connection` and the older server are called nowhere.
* A websocket message is with the page at once: TCP keeps order and the page
  reads in order, so a delay changes only when a number is believed.

## 6. Plan

Done: the modules of section 2, with the proofs of section 4.

Next, in order:

1. Abstract specifications of the table of players (for calls that do not overlap) and
   of the ring (one queue per reader), and proofs that `ConnectionTable` and `WsRing`
   implement them.
2. A composition of queue, table and websocket clients: what a script that follows
   the events may conclude about `get_connections()`.
