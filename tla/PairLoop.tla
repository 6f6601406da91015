------------------------------- MODULE PairLoop --------------------------------
(***************************************************************************)
(* Bluetooth pairing: server.set_pair_mode of                              *)
(* src/src/lua-bindings/lua_server.c and sync_loop of                      *)
(* src/src/servers/bt/gamepad_server.c.  set_pair_mode(true) always starts *)
(* another thread; all of them share the flag sync_interrupt, without a    *)
(* lock.  A thread forks a Python script that looks for gamepads, reads    *)
(* its output until it ends or the flag is set, kills it, and waits -- for *)
(* any child of the process, as wait(0) does.                              *)
(*                                                                         *)
(* The kernel gives a new child any process id that is free, including the *)
(* one of a child that has been waited for.  The script (bluetoothctlctl.py) *)
(* is external: it ends at some time.  A call of read that finds no output *)
(* or some output, and the sleep between them, change nothing.             *)
(***************************************************************************)
EXTENDS Integers, FiniteSets

CONSTANTS
  Loops,     \* the threads that set_pair_mode may start
  Pids,      \* process ids
  MaxPipes,  \* the pipes that the process may have open
  NoPid      \* what pid holds before the first fork

ASSUME PairAssumption ==
  /\ IsFiniteSet(Loops) /\ IsFiniteSet(Pids)
  /\ MaxPipes \in Nat
  /\ NoPid \notin Pids

VARIABLES
  sync_interrupt,
  loop,       \* where each thread is
  pid,        \* its local variable
  process,    \* the children: each process id is free, running or a zombie
  writers,    \* the children that hold the writing end of a thread's last pipe
  openEnds,   \* how many read ends of pipes are open
  cut,        \* history: how many pipes were abandoned because of a stop
  alive       \* FALSE once a failing call has ended the whole program

pairVars == <<sync_interrupt, loop, pid, process, writers, openEnds, cut, alive>>
pipes == <<writers, openEnds, cut, alive>>

PairInit ==
  /\ sync_interrupt = FALSE
  /\ loop = [l \in Loops |-> "none"]
  /\ pid = [l \in Loops |-> NoPid]
  /\ process = [k \in Pids |-> "free"]
  /\ writers = [l \in Loops |-> {}]
  /\ openEnds = 0 /\ cut = 0 /\ alive = TRUE

GoOn(l, from, to) == loop[l] = from /\ loop' = [loop EXCEPT ![l] = to]

(***************************************************************************)
(* Faulty variants of definitions below, in no specification.              *)
(***************************************************************************)
TestInterruptInverted(l) ==
  /\ GoOn(l, "test", IF sync_interrupt THEN "pipe" ELSE "ended")
  /\ UNCHANGED <<sync_interrupt, pid, process, pipes>>

ReadEofLeavesOpen(l) ==
  /\ GoOn(l, "read", "kill")
  /\ writers[l] = {}
  /\ UNCHANGED <<sync_interrupt, pid, process, pipes>>

KillNothing(l) ==
  /\ GoOn(l, "kill", "wait")
  /\ UNCHANGED <<sync_interrupt, pid, process, pipes>>

WaitForNobody(l) ==
  /\ GoOn(l, "wait", "test")
  /\ UNCHANGED <<sync_interrupt, pid, process, pipes>>

(***************************************************************************)
(* lua_setPairMode                                                         *)
(***************************************************************************)
StartPairing(l) ==
  /\ GoOn(l, "none", "begin") \/ GoOn(l, "ended", "begin")
  /\ UNCHANGED <<sync_interrupt, pid, process, pipes>>

StopPairing ==
  /\ sync_interrupt' = TRUE
  /\ UNCHANGED <<loop, pid, process, pipes>>

(***************************************************************************)
(* sync_loop                                                               *)
(***************************************************************************)
ResetInterrupt(l) ==
  /\ GoOn(l, "begin", "test")
  /\ sync_interrupt' = FALSE
  /\ UNCHANGED <<pid, process, pipes>>

TestInterrupt(l) ==
  /\ GoOn(l, "test", IF sync_interrupt THEN "ended" ELSE "pipe")
  /\ UNCHANGED <<sync_interrupt, pid, process, pipes>>

\* A new pipe, that no child knows yet.
Pipe(l) ==
  /\ GoOn(l, "pipe", "fork")
  /\ openEnds < MaxPipes /\ openEnds' = openEnds + 1
  /\ writers' = [writers EXCEPT ![l] = {}]
  /\ UNCHANGED <<sync_interrupt, pid, process, cut, alive>>

\* The child gets every writing end that the process has open now: its own
\* thread's, and those of threads between pipe and close.
Fork(l) ==
  /\ GoOn(l, "fork", "close")
  /\ \E k \in Pids :
       /\ process[k] = "free"
       /\ process' = [process EXCEPT ![k] = "running"]
       /\ pid' = [pid EXCEPT ![l] = k]
       /\ writers' = [m \in Loops |->
            writers[m] \cup (IF loop[m] \in {"fork", "close"} THEN {k} ELSE {})]
  /\ UNCHANGED <<sync_interrupt, openEnds, cut, alive>>

\* perror and exit, in a thread of the game: pipe finds no descriptors left,
\* fork no resources, or read meets an error.
PipeFails(l) ==
  /\ loop[l] = "pipe" /\ openEnds = MaxPipes
  /\ alive' = FALSE
  /\ UNCHANGED <<sync_interrupt, loop, pid, process, writers, openEnds, cut>>

ForkFails(l) ==
  /\ loop[l] = "fork"
  /\ alive' = FALSE
  /\ UNCHANGED <<sync_interrupt, loop, pid, process, writers, openEnds, cut>>

ReadFails(l) ==
  /\ loop[l] = "read"
  /\ alive' = FALSE
  /\ UNCHANGED <<sync_interrupt, loop, pid, process, writers, openEnds, cut>>

\* close(filedes[1]), the process's own writing end.
Close(l) ==
  /\ GoOn(l, "close", "read")
  /\ UNCHANGED <<sync_interrupt, pid, process, pipes>>

\* The pipe ends when nobody can write to it any more.
ReadEof(l) ==
  /\ GoOn(l, "read", "kill")
  /\ writers[l] = {}
  /\ openEnds' = openEnds - 1
  /\ UNCHANGED <<sync_interrupt, pid, process, writers, cut, alive>>

\* The read end is not closed here, nor anywhere else.
ReadInterrupted(l) ==
  /\ GoOn(l, "read", "kill")
  /\ sync_interrupt
  /\ cut' = cut + 1
  /\ UNCHANGED <<sync_interrupt, pid, process, writers, openEnds, alive>>

\* A child that ends closes its writing ends, and waits to be waited for.
Ends(k) ==
  /\ process' = [process EXCEPT ![k] = "zombie"]
  /\ writers' = [l \in Loops |-> writers[l] \ {k}]

\* kill(pid, SIGKILL) reaches whoever has the process id now.
Kill(l) ==
  /\ GoOn(l, "kill", "wait")
  /\ IF process[pid[l]] = "running" THEN Ends(pid[l]) ELSE UNCHANGED <<process, writers>>
  /\ UNCHANGED <<sync_interrupt, pid, openEnds, cut, alive>>

\* wait(0) takes any zombie, waits while there are only running children, and
\* fails when there are none.
Wait(l) ==
  /\ GoOn(l, "wait", "test")
  /\ \/ \E k \in Pids : process[k] = "zombie" /\ process' = [process EXCEPT ![k] = "free"]
     \/ (\A k \in Pids : process[k] = "free") /\ process' = process
  /\ UNCHANGED <<sync_interrupt, pid, pipes>>

PromptStep(l) ==
  \/ ResetInterrupt(l) \/ TestInterrupt(l)
  \/ Pipe(l) \/ PipeFails(l) \/ Fork(l) \/ ForkFails(l) \/ Close(l)
  \/ ReadEof(l) \/ ReadInterrupted(l)
  \/ Kill(l) \/ Wait(l)

LoopStep(l) == PromptStep(l) \/ ReadFails(l)

ScriptEnds(k) ==
  /\ process[k] = "running" /\ Ends(k)
  /\ UNCHANGED <<sync_interrupt, loop, pid, openEnds, cut, alive>>

PairNext ==
  /\ alive
  /\ \/ \E l \in Loops : StartPairing(l) \/ LoopStep(l)
     \/ StopPairing
     \/ \E k \in Pids : ScriptEnds(k)

PairSpec == PairInit /\ [][PairNext]_pairVars

(***************************************************************************)
(* Each thread runs; nobody is obliged to start or stop pairing, the       *)
(* script may take for ever, and read need not fail.                       *)
(***************************************************************************)
PairFairSpec == PairSpec /\ \A l \in Loops : WF_pairVars(alive /\ PromptStep(l))

(***************************************************************************)
(* Properties                                                              *)
(***************************************************************************)
Idle(l) == loop[l] \in {"none", "begin", "test", "pipe", "fork", "ended"}

PairTypeOK ==
  /\ sync_interrupt \in BOOLEAN
  /\ loop \in [Loops -> {"none", "begin", "test", "pipe", "fork", "close", "read",
                          "kill", "wait", "ended"}]
  /\ pid \in [Loops -> Pids \cup {NoPid}]
  /\ process \in [Pids -> {"free", "running", "zombie"}]
  /\ writers \in [Loops -> SUBSET Pids]
  /\ openEnds \in 0 .. MaxPipes /\ cut \in Nat /\ alive \in BOOLEAN
  /\ \A l \in Loops : ~Idle(l) => pid[l] \in Pids

(***************************************************************************)
(* Although wait(0) may take another thread's child, and kill may hit one, *)
(* there are as many children as threads that still have to wait: no       *)
(* process is left behind when all threads have ended, no zombie stays for *)
(* ever, and wait never finds itself without a child.                      *)
(***************************************************************************)
ChildrenMatchLoops ==
  Cardinality({k \in Pids : process[k] # "free"}) = Cardinality({l \in Loops : ~Idle(l)})

(***************************************************************************)
(* A script that keeps running has a thread that reads it, or is about to  *)
(* kill it: no thread ends, or forks another, and forgets it.              *)
(***************************************************************************)
ScriptsAreReadOrKilled ==
  \A k \in Pids : process[k] = "running" =>
    \E l \in Loops : pid[l] = k /\ loop[l] \in {"close", "read", "kill"}

(***************************************************************************)
(* A stop that no later start takes back ends every thread, also the ones  *)
(* whose child another thread has waited for.                              *)
(***************************************************************************)
StopIsHeeded ==
  <>[]sync_interrupt =>
    <>[](~alive \/ \A l \in Loops : loop[l] \in {"none", "ended"})

(***************************************************************************)
(* Apart from the pipes in use, only one whose reading was cut short by a  *)
(* stop stays open, one for each: a script that never stops pairing can go *)
(* on pairing for ever, and it takes MaxPipes stops for a thread to run    *)
(* out of pipes, which ends the game (gamepad_server.c:246-248, 289-295).  *)
(***************************************************************************)
OnlyCutPipesLeak ==
  openEnds = cut + Cardinality({l \in Loops : loop[l] \in {"fork", "close", "read"}})
===============================================================================
