------------------------------ MODULE FrameProofs ------------------------------
(***************************************************************************)
(* Proofs about Frame.  The backlog of fixed updates is bounded: an update *)
(* takes a step S off lag and adds at most u to elapsed, so                *)
(* S * elapsed + u * lag does not grow while lag is worked off; with a     *)
(* bound on that sum, the lag that the next measurement yields is bounded  *)
(* by what it was bounded by before.  And the array of an emitter, shifted *)
(* in place, is a list cut at its end.                                     *)
(***************************************************************************)
EXTENDS Frame, TLAPS

S == SECS_PER_UPDATE
u == MaxUpdateTime
Spare == S - u
Bound == S * (S - 1 + FrameTime)
Debt == Spare * (S * elapsed + u * lag)

LagInv ==
  /\ LoopTypeOK
  /\ LagIsBounded
  /\ at # "update" => lag < S
  /\ u < S =>
       /\ at = "update"  => Debt <= u * Bound
       /\ at = "input"   => Debt <= u * Bound + Spare * (S * MaxDrawTime)
       /\ at = "measure" => Debt <= u * Bound + Spare * (S * FrameTime)

\* The constants as numbers, to be cited where their meaning does not matter.
LEMMA LoopConstants ==
  /\ S \in Nat \ {0} /\ u \in Nat /\ MaxInputTime \in Nat /\ MaxDrawTime \in Nat
  /\ FrameTime \in Nat /\ FrameTime = MaxInputTime + MaxDrawTime
  /\ Bound \in Nat /\ Spare \in Int /\ Spare = S - u
  /\ Bound = S * (S - 1 + FrameTime)
<1>1. /\ S \in Nat \ {0} /\ u \in Nat /\ MaxInputTime \in Nat /\ MaxDrawTime \in Nat
  BY GameLoopAssumption DEF S, u
<1>2. FrameTime \in Nat /\ FrameTime = MaxInputTime + MaxDrawTime
  BY <1>1 DEF FrameTime
<1>3. S - 1 + FrameTime \in Nat
  BY <1>1, <1>2
<1>4. \A x, y \in Nat : x * y \in Nat
  OBVIOUS
<1> QED
  BY <1>1, <1>2, <1>3, <1>4 DEF Bound, Spare

\* Products of naturals grow with their factors.
LEMMA ProductGrows ==
  ASSUME NEW a \in Int, NEW b \in Int, NEW c \in Nat, a <= b
  PROVE  c * a <= c * b
OBVIOUS

(***************************************************************************)
(* Less lag than an update is within the bound, and when there is no time  *)
(* to spare every lag is.                                                  *)
(***************************************************************************)
LEMMA SmallLag ==
  ASSUME NEW x \in Nat, x < S \/ u >= S
  PROVE  Spare * x <= Bound
<1> USE LoopConstants
<1>1. CASE u >= S
  <2>1. (u - S) * x \in Nat
    <3>1. u - S \in Nat
      BY <1>1
    <3> QED
      BY <3>1
  <2>2. Spare * x = -((u - S) * x)
    OBVIOUS
  <2> QED
    BY <2>1, <2>2
<1>2. CASE u < S /\ x < S
  <2>1. Spare \in Nat /\ Spare <= S
    BY <1>2
  <2>2. Spare * x <= Spare * (S - 1)
    BY <1>2, <2>1, ProductGrows
  <2>3. (S - 1) * Spare <= (S - 1) * S
    BY <2>1, ProductGrows
  <2>4. S * (S - 1) <= S * (S - 1 + FrameTime)
    BY ProductGrows
  <2> QED
    BY <2>2, <2>3, <2>4
<1> QED
  BY <1>1, <1>2

\* Measuring: what the debt allows lag to become.
LEMMA MeasuredLag ==
  ASSUME NEW x \in Nat, NEW e \in Nat, u < S, x < S,
         Spare * (S * e + u * x) <= u * Bound + Spare * (S * FrameTime)
  PROVE  Spare * (x + e) <= Bound
<1> USE LoopConstants
<1> DEFINE D == FrameTime
<1>1. Spare \in Nat /\ Spare <= S
  OBVIOUS
<1>2. S * (Spare * (x + e)) = Spare * (S * e + u * x) + Spare * (Spare * x)
  <2>1. S * (x + e) = (S * e + u * x) + Spare * x
    OBVIOUS
  <2>2. S * (Spare * (x + e)) = Spare * (S * (x + e))
    OBVIOUS
  <2> QED
    BY <2>1, <2>2
<1>3. Spare * (Spare * x) <= Spare * (S * (S - 1))
  <2>1. Spare * x <= Spare * (S - 1)
    BY <1>1, ProductGrows
  <2>2. (S - 1) * Spare <= (S - 1) * S
    BY <1>1, ProductGrows
  <2>3. Spare * x <= S * (S - 1)
    BY <2>1, <2>2
  <2>4. Spare * x \in Int /\ S * (S - 1) \in Int
    OBVIOUS
  <2> QED
    BY <1>1, <2>3, <2>4, ProductGrows
<1>4. Spare * (S * D) + Spare * (S * (S - 1)) = Spare * Bound
  <2>1. S * D + S * (S - 1) = Bound
    OBVIOUS
  <2>2. S * D \in Int /\ S * (S - 1) \in Int
    OBVIOUS
  <2> QED
    BY <2>1, <2>2
<1>5. S * (Spare * (x + e)) <= u * Bound + Spare * Bound
  BY <1>2, <1>3, <1>4
<1>6. u * Bound + Spare * Bound = S * Bound
  OBVIOUS
<1>7. S * (Spare * (x + e)) <= S * Bound
  BY <1>5, <1>6
<1>8. \A p, q \in Int : S * p <= S * q => p <= q
  OBVIOUS
<1>9. Spare * (x + e) \in Int /\ Bound \in Int
  OBVIOUS
<1> QED
  BY <1>7, <1>8, <1>9

LEMMA LagInit == Init => LagInv
<1> SUFFICES ASSUME Init PROVE LagInv
  OBVIOUS
<1> USE LoopConstants
<1>1. at = "input" /\ lag = 0 /\ elapsed = 0 /\ quit = FALSE
  BY DEF Init, LoopInit
<1>2. LagIsBounded
  <2>1. Spare * lag <= Bound
    BY <1>1, SmallLag
  <2> QED
    BY <2>1 DEF LagIsBounded, Spare, Bound, S, u
<1>3. u < S => Debt <= u * Bound + Spare * (S * MaxDrawTime)
  <2> SUFFICES ASSUME u < S PROVE Debt <= u * Bound + Spare * (S * MaxDrawTime)
    OBVIOUS
  <2>1. Debt = 0
    BY <1>1 DEF Debt
  <2>2. Spare \in Nat
    OBVIOUS
  <2>3. \A x, y \in Nat : x * y \in Nat
    OBVIOUS
  <2> QED
    BY <2>1, <2>2, <2>3
<1>4. LoopTypeOK
  BY <1>1 DEF LoopTypeOK
<1> QED
  BY <1>1, <1>2, <1>3, <1>4 DEF LagInv

LEMMA LagStep == LagInv /\ [Next]_vars => LagInv'
<1> SUFFICES ASSUME LagInv, [Next]_vars PROVE LagInv'
  OBVIOUS
<1> USE LoopConstants
<1>0. lag \in Nat /\ elapsed \in Nat /\ quit \in BOOLEAN /\ LoopTypeOK
  BY DEF LagInv, LoopTypeOK
<1>1. ASSUME NEW time \in 0 .. MaxInputTime, HandleInput(time) PROVE LagInv'
  <2>1. /\ at = "input" /\ at' = "measure" /\ quit' \in BOOLEAN
        /\ elapsed' = elapsed + time /\ lag' = lag /\ lag < S
    BY <1>0, <1>1 DEF HandleInput, LagInv
  <2>2. time \in Nat /\ time <= MaxInputTime
    OBVIOUS
  <2>3. LagIsBounded'
    BY <2>1 DEF LagInv, LagIsBounded
  <2>4. ASSUME u < S PROVE Debt' <= u * Bound + Spare * (S * FrameTime)
    <3>1. Debt <= u * Bound + Spare * (S * MaxDrawTime)
      BY <2>1, <2>4 DEF LagInv
    <3>2. Debt' = Debt + Spare * (S * time)
      BY <1>0, <2>1, <2>2 DEF Debt
    <3>3. Spare * (S * time) <= Spare * (S * MaxInputTime)
      <4>1. S * time <= S * MaxInputTime
        BY <2>2, ProductGrows
      <4>2. Spare \in Nat /\ S * time \in Int /\ S * MaxInputTime \in Int
        BY <2>2, <2>4
      <4> QED
        BY <4>1, <4>2, ProductGrows
    <3>4. Spare * (S * MaxDrawTime) + Spare * (S * MaxInputTime) = Spare * (S * FrameTime)
      OBVIOUS
    <3> HIDE DEF Debt
    <3>5. Debt \in Int
      BY <1>0 DEF Debt
    <3> QED
      BY <2>2, <3>1, <3>2, <3>3, <3>4, <3>5
  <2> QED
    BY <1>0, <2>1, <2>2, <2>3, <2>4 DEF LagInv, LoopTypeOK
<1>2. ASSUME Measure PROVE LagInv'
  <2>1. /\ at = "measure" /\ at' = "update" /\ quit' = quit
        /\ elapsed' = 0 /\ lag' = lag + elapsed /\ lag < S
    BY <1>2 DEF Measure, LagInv
  <2>2. Spare * lag' <= Bound
    <3>1. CASE u >= S
      BY <1>0, <2>1, <3>1, SmallLag
    <3>2. CASE u < S
      <4>1. Spare * (S * elapsed + u * lag) <= u * Bound + Spare * (S * FrameTime)
        BY <2>1, <3>2 DEF LagInv, Debt
      <4>2. Spare * (lag + elapsed) <= Bound
        BY <1>0, <2>1, <3>2, <4>1, MeasuredLag
      <4> QED
        BY <2>1, <4>2
    <3> QED
      BY <3>1, <3>2
  <2>3. LagIsBounded'
    BY <2>2 DEF LagIsBounded, Spare, Bound, S, u
  <2>4. Debt' <= u * Bound
    <3>1. u * (Spare * lag') <= u * Bound
      BY <1>0, <2>1, <2>2, ProductGrows
    <3>2. Debt' = u * (Spare * lag')
      BY <1>0, <2>1 DEF Debt
    <3> QED
      BY <3>1, <3>2
  <2> QED
    BY <1>0, <2>1, <2>3, <2>4 DEF LagInv, LoopTypeOK
<1>3. ASSUME NEW time \in 0 .. MaxUpdateTime, FixedUpdate(time) PROVE LagInv'
  <2>1. /\ at = "update" /\ at' = "update" /\ quit' = quit
        /\ elapsed' = elapsed + time /\ lag' = lag - S /\ lag >= S
    BY <1>3 DEF FixedUpdate, S
  <2>2. time \in Nat /\ time <= u
    BY DEF u
  <2>3. lag' \in Nat /\ lag' <= lag
    BY <1>0, <2>1
  <2>4. Spare * lag' <= Bound
    <3>1. CASE u >= S
      BY <2>3, <3>1, SmallLag
    <3>2. CASE u < S
      <4>0. Spare \in Nat /\ lag \in Int /\ lag' \in Int
        BY <1>0, <2>3, <3>2
      <4>1. Spare * lag' <= Spare * lag
        BY <2>3, <4>0, ProductGrows
      <4>2. Spare * lag <= Bound
        BY DEF LagInv, LagIsBounded, Spare, Bound, S, u
      <4>3. Spare * lag \in Int /\ Spare * lag' \in Int /\ Bound \in Int
        BY <4>0
      <4> QED
        BY <4>1, <4>2, <4>3
    <3> QED
      BY <3>1, <3>2
  <2>5. LagIsBounded'
    BY <2>4 DEF LagIsBounded, Spare, Bound, S, u
  <2>6. ASSUME u < S PROVE Debt' <= u * Bound
    <3>1. S * elapsed' + u * lag' <= S * elapsed + u * lag
      <4>1. S * elapsed' = S * elapsed + S * time
        BY <1>0, <2>1, <2>2
      <4>2. u * lag' = u * lag - S * u
        BY <1>0, <2>1
      <4>3. S * time <= S * u
        BY <2>2, ProductGrows
      <4>4. S * elapsed \in Int /\ S * time \in Int /\ u * lag \in Int /\ S * u \in Int
        BY <1>0, <2>2
      <4> QED
        BY <4>1, <4>2, <4>3, <4>4
    <3>2. S * elapsed' + u * lag' \in Int /\ S * elapsed + u * lag \in Int
      BY <1>0, <2>1, <2>2
    <3>3. Debt' <= Debt
      BY <2>6, <3>1, <3>2, ProductGrows DEF Debt
    <3>4. Debt <= u * Bound
      BY <2>1, <2>6 DEF LagInv
    <3>5. Debt \in Int /\ Debt' \in Int /\ u * Bound \in Int
      BY <1>0, <3>2 DEF Debt
    <3> QED
      BY <3>3, <3>4, <3>5
  <2>7. elapsed' \in Nat
    BY <1>0, <2>1, <2>2
  <2> QED
    BY <1>0, <2>1, <2>3, <2>5, <2>6, <2>7 DEF LagInv, LoopTypeOK
<1>4. ASSUME NEW time \in 0 .. MaxDrawTime, Draw(time) PROVE LagInv'
  <2>1. /\ at = "update" /\ at' \in {"cleanup", "input"} /\ quit' = quit
        /\ elapsed' = elapsed + time /\ lag' = lag /\ lag < S
    BY <1>4 DEF Draw, S
  <2>2. time \in Nat /\ time <= MaxDrawTime
    OBVIOUS
  <2>3. LagIsBounded'
    BY <2>1 DEF LagInv, LagIsBounded
  <2>4. ASSUME u < S PROVE Debt' <= u * Bound + Spare * (S * MaxDrawTime)
    <3>1. Debt <= u * Bound
      BY <2>1, <2>4 DEF LagInv
    <3>2. Debt' = Debt + Spare * (S * time)
      BY <1>0, <2>1, <2>2 DEF Debt
    <3>3. Spare * (S * time) <= Spare * (S * MaxDrawTime)
      <4>1. S * time <= S * MaxDrawTime
        BY <2>2, ProductGrows
      <4>2. Spare \in Nat /\ S * time \in Int /\ S * MaxDrawTime \in Int
        BY <2>2, <2>4
      <4> QED
        BY <4>1, <4>2, ProductGrows
    <3>5. Debt \in Int
      BY <1>0 DEF Debt
    <3> QED
      BY <2>2, <3>1, <3>2, <3>3, <3>5
  <2> QED
    BY <1>0, <2>1, <2>2, <2>3, <2>4 DEF LagInv, LoopTypeOK
<1>5. CASE UNCHANGED vars
  BY <1>5 DEF vars, LagInv, LoopTypeOK, LagIsBounded, Debt
<1> QED
  BY <1>1, <1>2, <1>3, <1>4, <1>5 DEF Next, ScriptUpdate, EngineStep

(***************************************************************************)
(* The backlog of updates is bounded, for every length of a step and       *)
(* whatever time handling keys, updating and drawing take                  *)
(* (main.c:138-145).                                                       *)
(***************************************************************************)
THEOREM LagStaysBounded == Spec => []LagIsBounded
<1>1. LagInv => LagIsBounded
  BY DEF LagInv
<1> QED
  BY <1>1, LagInit, LagStep, PTL DEF Spec

(***************************************************************************)
(* The emitter.                                                            *)
(***************************************************************************)
LEMMA ParticlesTyped ==
  /\ Init => ParticlesTypeOK
  /\ ParticlesTypeOK /\ [Next]_vars => ParticlesTypeOK'
<1>1. Init => ParticlesTypeOK
  BY ParticlesAssumption DEF Init, ParticlesInit, ParticlesTypeOK
<1>2. ASSUME ParticlesTypeOK, NEW n \in Bursts, update_particles(n) PROVE ParticlesTypeOK'
  <2>1. n \in 0 .. MAX_PARTICLES /\ MAX_PARTICLES \in Nat \ {0} /\ MaxAge \in Nat \ {0}
    BY ParticlesAssumption
  <2>2. num_particles' \in 0 .. MAX_PARTICLES
    BY <1>2, <2>1 DEF ParticlesTypeOK, update_particles, NumAfter
  <2>3. \A i \in Slots : Shifted(n)[i] \in 0 .. MaxAge
    <3>1. \A i \in Slots : n <= i => i - n \in Slots
      BY <2>1 DEF Slots
    <3> QED
      BY <1>2, <3>1 DEF Shifted, ParticlesTypeOK
  <2>4. \A i \in Slots : Spawned(n)[i] \in 0 .. MaxAge
    BY <2>1, <2>3 DEF Spawned
  <2>5. \A age \in 0 .. MaxAge : Older(age) \in 0 .. MaxAge
    BY <2>1 DEF Older
  <2>6. particles' \in [Slots -> 0 .. MaxAge]
    BY <1>2, <2>4, <2>5 DEF update_particles
  <2> QED
    BY <2>2, <2>6 DEF ParticlesTypeOK
<1>3. ASSUME ParticlesTypeOK, reset_emitter PROVE ParticlesTypeOK'
  BY <1>3, ParticlesAssumption DEF ParticlesTypeOK, reset_emitter
<1>4. ASSUME ParticlesTypeOK, UNCHANGED emitter PROVE ParticlesTypeOK'
  BY <1>4 DEF ParticlesTypeOK, emitter
<1> QED
  BY <1>1, <1>2, <1>3, <1>4 DEF Next, ScriptUpdate, EngineStep, ParticlesNext, vars, emitter

\* What an update draws, one particle at a time.
LEMMA UpdateDraws ==
  ASSUME ParticlesTypeOK, NEW n \in Bursts, update_particles(n)
  PROVE  DrawsNewestOf(n)
<1> DEFINE all == Fresh(n) \o Drawn
           N == NumAfter(n)
<1>1. /\ n \in Nat /\ n <= MAX_PARTICLES /\ MAX_PARTICLES \in Nat
      /\ num_particles \in Nat /\ num_particles <= MAX_PARTICLES
  BY ParticlesAssumption DEF ParticlesTypeOK
<1>2. N \in Nat /\ N <= MAX_PARTICLES /\ N <= num_particles + n
  BY <1>1 DEF NumAfter
<1>3. num_particles' = N
  BY DEF update_particles
<1>4. ASSUME NEW i \in 1 .. N PROVE particles'[i - 1] = Older(all[i])
  <2>1. i - 1 \in Slots /\ i - 1 < N
    BY <1>1, <1>2 DEF Slots
  <2>2. particles'[i - 1] = Older(Spawned(n)[i - 1])
    BY <2>1 DEF update_particles
  <2>3. /\ Fresh(n) \in Seq(Int) /\ Len(Fresh(n)) = n
        /\ \A j \in 1 .. n : Fresh(n)[j] = 0
    BY <1>1 DEF Fresh
  <2>4. /\ Drawn \in Seq(Int) /\ Len(Drawn) = num_particles
        /\ \A j \in 1 .. num_particles : Drawn[j] = particles[j - 1]
    <3>1. \A j \in 1 .. num_particles : j - 1 \in Slots
      BY <1>1 DEF Slots
    <3>2. \A j \in 1 .. num_particles : particles[j - 1] \in Int
      BY <3>1, ParticlesAssumption DEF ParticlesTypeOK
    <3> QED
      BY <1>1, <3>2 DEF Drawn
  <2>5. Spawned(n)[i - 1] = all[i]
    <3>1. CASE i <= n
      <4>1. Spawned(n)[i - 1] = 0
        BY <1>1, <2>1, <3>1 DEF Spawned
      <4>2. all[i] = 0
        BY <1>1, <2>3, <2>4, <3>1
      <4> QED
        BY <4>1, <4>2
    <3>2. CASE i > n
      <4>1. Spawned(n)[i - 1] = Shifted(n)[i - 1]
        BY <1>1, <2>1, <3>2 DEF Spawned
      <4>2. Shifted(n)[i - 1] = particles[i - 1 - n]
        BY <1>1, <2>1, <3>2 DEF Shifted
      <4>3. i - n \in 1 .. num_particles
        BY <1>1, <1>2, <3>2
      <4>4. all[i] = Drawn[i - n]
        BY <1>1, <2>3, <2>4, <3>2, <4>3
      <4>5. i - n - 1 = i - 1 - n
        BY <1>1
      <4> QED
        BY <2>4, <4>1, <4>2, <4>3, <4>4, <4>5
    <3>3. i \in Int /\ n \in Int
      BY <1>1, <1>2
    <3>4. i <= n \/ i > n
      BY <3>3
    <3> QED
      BY <3>1, <3>2, <3>4
  <2> QED
    BY <2>2, <2>5
<1>5. Drawn' = [i \in 1 .. N |-> particles'[i - 1]]
  BY <1>3 DEF Drawn
<1>6. Drawn' = [i \in 1 .. N |-> Older(all[i])]
  BY <1>4, <1>5
<1> QED
  BY <1>6 DEF DrawsNewestOf

(***************************************************************************)
(* An emitter of any size draws the newest particles, newest first, after  *)
(* bursts of any sizes (update_particles of particles.c).                  *)
(***************************************************************************)
THEOREM EmitterIsAList == Spec => UpdatesLikeAList
<1>1. ParticlesTypeOK /\ [Next]_vars
        => [num_particles' = 0 \/ \E n \in Bursts : DrawsNewestOf(n)]_emitter
  BY UpdateDraws
     DEF Next, ScriptUpdate, EngineStep, ParticlesNext, reset_emitter, vars, emitter
<1> QED
  BY <1>1, ParticlesTyped, PTL DEF Spec, UpdatesLikeAList
===============================================================================
