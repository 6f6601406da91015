--------------------------------- MODULE Frame ---------------------------------
(***************************************************************************)
(* GameLoop and Particles together, as a script like                       *)
(* src/lua/tests/particles.lua combines them: each fixed update lets the   *)
(* script spawn particles, or clear its emitter, once.  A frame that runs  *)
(* several updates to work off its lag updates the particles as often, and *)
(* a frame that runs none draws them as they were.                         *)
(***************************************************************************)
EXTENDS GameLoop, Particles

vars == <<at, quit, lag, elapsed, particles, num_particles>>

Init == LoopInit /\ ParticlesInit

ScriptUpdate ==
  /\ \E time \in 0 .. MaxUpdateTime : FixedUpdate(time)
  /\ ParticlesNext

EngineStep ==
  /\ \/ \E time \in 0 .. MaxInputTime : HandleInput(time)
     \/ Measure
     \/ \E time \in 0 .. MaxDrawTime : Draw(time)
  /\ UNCHANGED emitter

Next == ScriptUpdate \/ EngineStep

\* main is never blocked, and each call of the script returns.
Spec == Init /\ [][Next]_vars /\ WF_vars(Next)
===============================================================================
