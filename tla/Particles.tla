------------------------------- MODULE Particles -------------------------------
(***************************************************************************)
(* One particle emitter: create_emitter, update_particles, reset_emitter   *)
(* of src/src/graphics/particles.c, called through lua_particles.c.        *)
(*                                                                         *)
(* The particles live in an array of MAX_PARTICLES, of which the first     *)
(* num_particles are moved and drawn; update_particles shifts the array    *)
(* back to make room for the n new ones at its front.  A particle is known *)
(* by its age in updates, on which its scale and speed depend; from MaxAge *)
(* on it is too small to be seen.                                          *)
(***************************************************************************)
EXTENDS Integers, Sequences

CONSTANTS
  MAX_PARTICLES,
  Bursts,          \* how many particles the script asks for at a time
  MaxAge

ASSUME ParticlesAssumption ==
  /\ MAX_PARTICLES \in Nat \ {0} /\ MaxAge \in Nat \ {0}
  /\ Bursts \subseteq 0 .. MAX_PARTICLES

VARIABLES particles, num_particles

emitter == <<particles, num_particles>>

Slots == 0 .. MAX_PARTICLES - 1

\* calloc: what lies beyond num_particles is as good as anything.
ParticlesInit ==
  /\ particles = [i \in Slots |-> MaxAge]
  /\ num_particles = 0

(***************************************************************************)
(* Faulty variants of definitions below, in no specification.              *)
(***************************************************************************)
\* The loop running up, over values that it has itself written.
ShiftedUpwards(n) ==
  [i \in Slots |-> IF 0 < n /\ n <= i /\ i < num_particles + n
                     THEN particles[i % n] ELSE particles[i]]

NumAfter(n) ==
  IF num_particles + n <= MAX_PARTICLES THEN num_particles + n ELSE num_particles

\* The loop runs down from num_particles - 1 - n, so it reads old values only.
Shifted(n) ==
  [i \in Slots |-> IF n <= i /\ i < NumAfter(n) THEN particles[i - n] ELSE particles[i]]

Spawned(n) == [i \in Slots |-> IF i < n THEN 0 ELSE Shifted(n)[i]]

Older(age) == IF age < MaxAge THEN age + 1 ELSE age

update_particles(n) ==
  /\ num_particles' = NumAfter(n)
  /\ particles' =
       [i \in Slots |-> IF i < NumAfter(n) THEN Older(Spawned(n)[i]) ELSE Spawned(n)[i]]

reset_emitter ==
  /\ num_particles' = 0
  /\ particles' = particles

ParticlesNext == (\E n \in Bursts : update_particles(n)) \/ reset_emitter

(***************************************************************************)
(* Properties                                                              *)
(***************************************************************************)
ParticlesTypeOK ==
  /\ particles \in [Slots -> 0 .. MaxAge]
  /\ num_particles \in 0 .. MAX_PARTICLES

\* What draw_particles draws.
Drawn == [i \in 1 .. num_particles |-> particles[i - 1]]

(***************************************************************************)
(* What is drawn after an update are the new particles followed by the old *)
(* ones, cut to the length that is drawn: shifting in place loses nothing  *)
(* else and brings nothing back from behind num_particles.                 *)
(***************************************************************************)
Fresh(n) == [i \in 1 .. n |-> 0]

DrawsNewestOf(n) ==
  LET all == Fresh(n) \o Drawn
  IN  Drawn' = [i \in 1 .. NumAfter(n) |-> Older(all[i])]

UpdatesLikeAList ==
  [][num_particles' = 0 \/ \E n \in Bursts : DrawsNewestOf(n)]_emitter
===============================================================================
