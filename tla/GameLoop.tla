------------------------------- MODULE GameLoop --------------------------------
(***************************************************************************)
(* The main loop of src/src/main.c (main.cpp and yamsim.cpp repeat it): a  *)
(* frame handles one key, measures the time since the last frame, runs as  *)
(* many fixed updates of the script as that time holds, and draws.  Time   *)
(* that is less than an update is kept in lag for the next frame.          *)
(*                                                                         *)
(* Time is counted in some unit of which SECS_PER_UPDATE is a multiple.    *)
(* How long the script's functions and the drawing take is up to them,     *)
(* within the bounds given as constants; drawing includes the wait that    *)
(* SetTargetFPS asks for.  GetTime() - previous_frame_time is kept rather  *)
(* than either: the program uses nothing else.                             *)
(***************************************************************************)
EXTENDS Integers

CONSTANTS
  SECS_PER_UPDATE,
  MaxInputTime,    \* bounds on the time that handling a key,
  MaxUpdateTime,   \* one call of _fixedUpdate,
  MaxDrawTime      \* and drawing a frame take

ASSUME GameLoopAssumption ==
  /\ SECS_PER_UPDATE \in Nat \ {0}
  /\ {MaxInputTime, MaxUpdateTime, MaxDrawTime} \subseteq Nat

VARIABLES
  at,       \* where main is in its loop
  quit,     \* terminal.quit
  lag,
  elapsed   \* the time since previous_frame_time was set

LoopInit ==
  /\ at = "input" /\ quit = FALSE
  /\ lag = 0 /\ elapsed = 0

(***************************************************************************)
(* Faulty variants of definitions below, in no specification.              *)
(***************************************************************************)
MeasureWithoutReset ==
  /\ at = "measure" /\ at' = "update"
  /\ lag' = lag + elapsed
  /\ UNCHANGED <<elapsed, quit>>

DrawForEver(time) ==
  /\ at = "update" /\ lag < SECS_PER_UPDATE
  /\ at' = "input"
  /\ elapsed' = elapsed + time
  /\ UNCHANGED <<quit, lag>>

\* One key; it may be the one that quits.
HandleInput(time) ==
  /\ at = "input" /\ at' = "measure"
  /\ quit' \in {quit, TRUE}
  /\ elapsed' = elapsed + time
  /\ lag' = lag

Measure ==
  /\ at = "measure" /\ at' = "update"
  /\ lag' = lag + elapsed
  /\ elapsed' = 0
  /\ quit' = quit

FixedUpdate(time) ==
  /\ at = "update" /\ lag >= SECS_PER_UPDATE
  /\ lag' = lag - SECS_PER_UPDATE
  /\ elapsed' = elapsed + time
  /\ UNCHANGED <<at, quit>>

\* The condition of the outer loop is read again after drawing.
Draw(time) ==
  /\ at = "update" /\ lag < SECS_PER_UPDATE
  /\ at' = IF quit THEN "cleanup" ELSE "input"
  /\ elapsed' = elapsed + time
  /\ UNCHANGED <<quit, lag>>

(***************************************************************************)
(* Properties                                                              *)
(***************************************************************************)
LoopTypeOK ==
  /\ at \in {"input", "measure", "update", "cleanup"}
  /\ quit \in BOOLEAN
  /\ lag \in Nat /\ elapsed \in Nat

(***************************************************************************)
(* While an update takes less time than it accounts for, the backlog that  *)
(* one slow frame leaves does not feed on itself: lag stays below          *)
(*   S * (S - 1 + d) / (S - u)                                             *)
(* for a step of S, updates of at most u and a rest of the frame of at     *)
(* most d (main.c:138-145).  With u >= S the formula says nothing, and     *)
(* rightly so: then each frame owes more updates than the one before.      *)
(***************************************************************************)
FrameTime == MaxInputTime + MaxDrawTime

LagIsBounded ==
  (SECS_PER_UPDATE - MaxUpdateTime) * lag
    <= SECS_PER_UPDATE * (SECS_PER_UPDATE - 1 + FrameTime)

\* The key that quits is heeded, however much lag there is to work off (main.c:130).
QuitIsHeeded == quit ~> at = "cleanup"
===============================================================================
