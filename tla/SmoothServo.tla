------------------------------ MODULE SmoothServo ------------------------------
(***************************************************************************)
(* One servo of the robot arm of src/src/yamsim.cpp: SmoothServo of        *)
(* src/src/XNlib/xn_gpio.hpp, the thread that moves it                     *)
(* (move_servo_thread of xn_ik.hpp), and what main does to it.  The servos *)
(* of an arm share nothing with each other, so one stands for all.         *)
(*                                                                         *)
(* An angle is known by the pulse width that ang_to_width_corrected turns  *)
(* it into.  Time is counted in updates of the thread, and T_MAX is how    *)
(* many a move over the whole range takes.  The angle and the width are    *)
(* shared by main and the thread, without a lock.                          *)
(***************************************************************************)
EXTENDS Integers

CONSTANTS min_width, max_width, default_width, T_MAX

ASSUME ServoAssumption ==
  /\ min_width \in Nat /\ max_width \in Nat /\ min_width < max_width
  /\ default_width \in min_width .. max_width
  /\ T_MAX \in Nat \ {0}

VARIABLES
  main,            \* where main is
  run,             \* the global flag, cleared by SIGINT
  target_angle,
  cur_width,
  at,              \* where the thread is
  targetw, targetw_prev, prev_reached_targetw, t

vars == <<main, run, target_angle, cur_width, at,
          targetw, targetw_prev, prev_reached_targetw, t>>
moveVars == <<targetw, targetw_prev, prev_reached_targetw, t>>

Widths == min_width .. max_width
MidWidth == (min_width + max_width) \div 2

\* ServoChain has started the threads.  Targets start out at 1500, wherever
\* the middle of the servo's own range is.
Init ==
  /\ main = "reset" /\ run = TRUE
  /\ target_angle = MidWidth /\ cur_width = MidWidth
  /\ at = "loop"
  /\ targetw = default_width /\ targetw_prev = default_width
  /\ prev_reached_targetw = default_width
  /\ t = 0

(***************************************************************************)
(* Faulty variants of definitions below, in no specification.              *)
(***************************************************************************)
CompareWithoutStart ==
  /\ at = "compare" /\ cur_width # targetw
  /\ at' = "move"
  /\ t' = IF targetw # targetw_prev THEN 1 ELSE t + 1
  /\ UNCHANGED <<main, run, target_angle, cur_width, targetw, targetw_prev, prev_reached_targetw>>

CompareAlwaysRestarts ==
  /\ at = "compare" /\ cur_width # targetw
  /\ at' = "move"
  /\ prev_reached_targetw' = cur_width /\ t' = 1
  /\ UNCHANGED <<main, run, target_angle, cur_width, targetw, targetw_prev>>

(***************************************************************************)
(* main: reset, then resolve once in every fixed update, then the end of   *)
(* the scope, where the destructor of ServoChain joins the threads.        *)
(***************************************************************************)
Reset ==
  /\ main = "reset" /\ main' = "updating"
  /\ cur_width' = MidWidth
  /\ UNCHANGED <<run, target_angle, at, moveVars>>

SetTarget(w) ==
  /\ main = "updating"
  /\ target_angle' = w
  /\ UNCHANGED <<main, run, cur_width, at, moveVars>>

CloseWindow ==
  /\ main = "updating" /\ main' = "join"
  /\ UNCHANGED <<run, target_angle, cur_width, at, moveVars>>

Join ==
  /\ main = "join" /\ at = "ended" /\ main' = "done"
  /\ UNCHANGED <<run, target_angle, cur_width, at, moveVars>>

\* SIGINT
stop ==
  /\ run' = FALSE
  /\ UNCHANGED <<main, target_angle, cur_width, at, moveVars>>

(***************************************************************************)
(* The thread.                                                             *)
(***************************************************************************)
TestRun ==
  /\ at = "loop" /\ at' = IF run THEN "read" ELSE "ended"
  /\ UNCHANGED <<main, run, target_angle, cur_width, moveVars>>

ReadTarget ==
  /\ at = "read" /\ at' = "compare"
  /\ targetw' = target_angle
  /\ UNCHANGED <<main, run, target_angle, cur_width, targetw_prev, prev_reached_targetw, t>>

Idle ==
  /\ at = "compare" /\ cur_width = targetw
  /\ at' = "loop"
  /\ targetw_prev' = targetw /\ prev_reached_targetw' = targetw
  /\ t' = 0
  /\ UNCHANGED <<main, run, target_angle, cur_width, targetw>>

\* A target other than the last one begins a new move, from where the servo is.
\* The code reads the width in both tests; only this thread's Move changes it
\* while the thread runs: Reset finds it where it puts it.
Compare ==
  /\ at = "compare" /\ cur_width # targetw
  /\ at' = "move"
  /\ IF targetw # targetw_prev
       THEN prev_reached_targetw' = cur_width /\ t' = 1
       ELSE prev_reached_targetw' = prev_reached_targetw /\ t' = t + 1
  /\ UNCHANGED <<main, run, target_angle, cur_width, targetw, targetw_prev>>

Abs(x) == IF x < 0 THEN -x ELSE x

\* p / q to the nearest integer.
Rounded(p, q) == (2 * p + q) \div (2 * q)

\* nt is n / d; the curve's height there is 3 * nt^2 - 2 * nt^3.  Once nt is 1
\* or more, which includes a division by zero, the move is over.
Interpolate(from, to, time) ==
  LET d == T_MAX * Abs(to - from)
      n == time * (max_width - min_width)
      y == 3 * n * n * d - 2 * n * n * n
  IN  IF n >= d THEN to ELSE Rounded(from * d * d * d + (to - from) * y, d * d * d)

Clamp(w) == IF w < min_width THEN min_width ELSE IF w > max_width THEN max_width ELSE w

Move ==
  /\ at = "move" /\ at' = "loop"
  /\ cur_width' = Clamp(Interpolate(prev_reached_targetw, targetw, t))
  /\ targetw_prev' = targetw
  /\ UNCHANGED <<main, run, target_angle, targetw, prev_reached_targetw, t>>

update == ReadTarget \/ Idle \/ Compare \/ Move

Servo == TestRun \/ update

Next ==
  \/ Reset \/ (\E w \in Widths : SetTarget(w)) \/ CloseWindow \/ Join
  \/ stop
  \/ Servo

Spec == Init /\ [][Next]_vars

(***************************************************************************)
(* The thread keeps running; nothing is assumed of main.                   *)
(***************************************************************************)
FairSpec == Spec /\ WF_vars(Servo)

(***************************************************************************)
(* Properties                                                              *)
(***************************************************************************)
TypeOK ==
  /\ main \in {"reset", "updating", "join", "done"}
  /\ at \in {"loop", "read", "compare", "move", "ended"}
  /\ run \in BOOLEAN
  /\ {target_angle, cur_width, targetw, targetw_prev, prev_reached_targetw} \subseteq Widths
  /\ t \in Nat

(***************************************************************************)
(* Whenever the target changes, and wherever the servo was in its move, it *)
(* then only ever gets closer to the target the thread has read, and does  *)
(* not pass it: no jerk back, no overshoot (xn_gpio.hpp:226-269).          *)
(***************************************************************************)
NeverBackwards ==
  [][at = "move" => \/ cur_width <= cur_width' /\ cur_width' <= targetw
                    \/ targetw <= cur_width' /\ cur_width' <= cur_width]_vars

(***************************************************************************)
(* A target that is left alone is reached, while the program runs, and     *)
(* kept: rounding never makes the servo stop short of it.                  *)
(***************************************************************************)
TargetIsReached ==
  \A w \in Widths : <>[](target_angle = w /\ run) => <>[](cur_width = w)
===============================================================================
