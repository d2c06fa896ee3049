-------------------------- MODULE LocomotionProofs --------------------------
(***************************************************************************)
(* What module Locomotion guarantees for every radius, speed, distance and *)
(* timing: types, the position that others see between two ticks, fresh    *)
(* targets after a pause, and walks that stay tethered to the spawn point. *)
(***************************************************************************)
EXTENDS Locomotion, TLAPS

\* A step of a tick has a length that is a natural number.
LEMMA StepLength ==
    ASSUME NEW speed \in Nat, NEW t \in Elapsed
    PROVE  speed * t \in Nat
<1>1. t \in Nat
  BY TimesAssumption DEF TimesAssumption
<1> QED
  BY <1>1

\* MoveToward ends between where it begins and where it goes.
LEMMA MoveTowardBetween ==
    ASSUME NEW p \in Int, NEW q \in Int, NEW step \in Nat
    PROVE  /\ MoveToward(p, q, step) \in Int
           /\ p <= q => p <= MoveToward(p, q, step) /\ MoveToward(p, q, step) <= q
           /\ q <= p => q <= MoveToward(p, q, step) /\ MoveToward(p, q, step) <= p
BY DEF MoveToward, Distance

\* A walk between a place and a target inside the circle ends inside the
\* circle or no farther from its centre.
LEMMA BetweenTethered ==
    ASSUME NEW p \in Int, NEW goal \in (Spawn - Radius)..(Spawn + Radius), NEW r \in Int,
           p <= goal => p <= r /\ r <= goal,
           goal <= p => goal <= r /\ r <= p
    PROVE  Distance(r, Spawn) <= Radius \/ Distance(r, Spawn) <= Distance(p, Spawn)
BY LengthsAssumption DEF LengthsAssumption, Distance, Spawn

\* The targets that Wander can have.
Goals == IF hasTarget THEN {target} ELSE (Spawn - Radius)..(Spawn + Radius)

\* What tickWander may choose lies in the circle.
LEMMA GoalsInCircle ==
    ASSUME LocomotionTypeOK
    PROVE  Goals \subseteq (Spawn - Radius)..(Spawn + Radius)
BY DEF Goals, LocomotionTypeOK

\* The walking case and the arriving case of Wander, for the proofs below.
LEMMA WanderCases ==
    ASSUME LocomotionTypeOK, Wander
    PROVE  \E goal \in (Spawn - Radius)..(Spawn + Radius) :
             /\ target' = goal
             /\ \/ hasTarget' = FALSE /\ waitTimer' \in Waits /\ moveState' = "arrived" /\ pos' = pos
                \/ /\ hasTarget' = TRUE /\ waitTimer' = waitTimer /\ moveState' = "moving"
                   /\ pos' = MoveToward(pos, goal, Speed * dt)
<1>1. PICK goal \in Goals :
         /\ target' = goal
         /\ IF Distance(pos, goal) < Near
              THEN /\ hasTarget' = FALSE /\ waitTimer' \in Waits
                   /\ moveState' = "arrived" /\ pos' = pos
              ELSE /\ hasTarget' = TRUE /\ waitTimer' = waitTimer
                   /\ moveState' = "moving" /\ pos' = MoveToward(pos, goal, Speed * dt)
  BY Zenon DEF Wander, Goals
<1>2. goal \in (Spawn - Radius)..(Spawn + Radius)
  BY <1>1, GoalsInCircle
<1> QED
  BY <1>1, <1>2, Zenon

\* The invariant that the theorems rest on.
LocomotionInv == LocomotionTypeOK /\ PauseHasNoTarget /\ Synced

\* The program starts in the invariant.
LEMMA InitInv == Init => LocomotionInv
<1> SUFFICES ASSUME Init PROVE LocomotionInv
  OBVIOUS
<1>1. Spawn \in (Spawn - Radius)..(Spawn + Radius)
  BY LengthsAssumption DEF LengthsAssumption, Spawn
<1>2. Spawn \in Int
  BY DEF Spawn
<1>3. LocomotionTypeOK
  <2>1. 0 \in Int
    OBVIOUS
  <2> QED
    BY <1>1, <1>2, <2>1, Zenon DEF Init, LocomotionTypeOK, Modes
<1>4. PauseHasNoTarget /\ Synced
  BY DEF Init, PauseHasNoTarget, Synced
<1> QED
  BY <1>3, <1>4 DEF LocomotionInv

\* Every step keeps the types.
LEMMA StepTypeOK == LocomotionTypeOK /\ [Next]_vars => LocomotionTypeOK'
<1> SUFFICES ASSUME LocomotionTypeOK, [Next]_vars PROVE LocomotionTypeOK'
  OBVIOUS
<1> USE DEF LocomotionTypeOK, walking, inst
<1>1. CASE BeginTick
  BY <1>1 DEF BeginTick
<1>2. CASE TickStub
  BY <1>2 DEF TickStub
<1>3. CASE TickNoPlace
  BY <1>3 DEF TickNoPlace
<1>4. CASE TickFlee
  <2>1. NodeSpeed * dt \in Nat
    BY StepLength, LengthsAssumption DEF LengthsAssumption
  <2>2. FleeFrom(pos, NodeSpeed * dt) \in Int
    BY <2>1 DEF FleeFrom
  <2> QED
    BY <1>4, <2>2 DEF TickFlee, TickNode
<1>5. CASE TickMoveTo
  <2>1. NodeSpeed * dt \in Nat
    BY StepLength, LengthsAssumption DEF LengthsAssumption
  <2>2. MoveToward(pos, Post, NodeSpeed * dt) \in Int
    BY <2>1, MoveTowardBetween, LengthsAssumption DEF LengthsAssumption
  <2> QED
    BY <1>5, <2>2 DEF TickMoveTo, TickNode
<1>6. CASE Pause
  <2>1. dt \in Int
    BY TimesAssumption DEF TimesAssumption
  <2> QED
    BY <1>6, <2>1 DEF Pause
<1>7. CASE Wander
  <2>1. Speed * dt \in Nat
    BY StepLength, LengthsAssumption DEF LengthsAssumption
  <2>2. Waits \subseteq Int
    BY TimesAssumption DEF TimesAssumption
  <2>3. PICK goal \in (Spawn - Radius)..(Spawn + Radius) :
             /\ target' = goal
             /\ \/ hasTarget' = FALSE /\ waitTimer' \in Waits /\ moveState' = "arrived" /\ pos' = pos
                \/ /\ hasTarget' = TRUE /\ waitTimer' = waitTimer /\ moveState' = "moving"
                   /\ pos' = MoveToward(pos, goal, Speed * dt)
    BY <1>7, WanderCases
  <2>4. goal \in Int
    BY <2>3, LengthsAssumption DEF LengthsAssumption, Spawn
  <2>5. MoveToward(pos, goal, Speed * dt) \in Int
    BY <2>1, <2>4, MoveTowardBetween
  <2>6. pos' \in Int /\ waitTimer' \in Int /\ hasTarget' \in BOOLEAN /\ moveState' \in {"moving", "arrived"}
    BY <2>2, <2>3, <2>5
  <2>7. phase' = "syncX" /\ UNCHANGED <<dt, mode, known, instX, instZ>>
    BY <1>7 DEF Wander
  <2> QED
    BY <2>3, <2>6, <2>7
<1>8. CASE SyncX
  BY <1>8 DEF SyncX
<1>9. CASE SyncZ
  BY <1>9 DEF SyncZ
<1>10. CASE UNCHANGED vars
  BY <1>10 DEF vars
<1> QED
  BY <1>1, <1>2, <1>3, <1>4, <1>5, <1>6, <1>7, <1>8, <1>9, <1>10 DEF Next

\* Only Wander starts a pause, and it drops the target when it does.
LEMMA StepPause ==
    LocomotionTypeOK /\ PauseHasNoTarget /\ [Next]_vars => PauseHasNoTarget'
<1> SUFFICES ASSUME LocomotionTypeOK, PauseHasNoTarget, [Next]_vars PROVE PauseHasNoTarget'
  OBVIOUS
<1> USE DEF PauseHasNoTarget, walking
<1>1. CASE Wander
  <2>1. waitTimer <= 0 /\ waitTimer \in Int
    BY <1>1 DEF Wander, LocomotionTypeOK
  <2>2. hasTarget' = FALSE \/ waitTimer' = waitTimer
    BY <1>1, WanderCases, Zenon
  <2> QED
    BY <2>1, <2>2
<1>2. CASE Pause
  <2>1. waitTimer > 0 /\ hasTarget' = hasTarget
    BY <1>2 DEF Pause
  <2> QED
    BY <2>1
<1>3. CASE UNCHANGED walking
  BY <1>3
<1> QED
  BY <1>1, <1>2, <1>3
     DEF Next, BeginTick, TickStub, TickNoPlace, TickFlee, TickMoveTo, TickNode, SyncX, SyncZ, vars

\* The two halves of SyncPosition, and the rest of the tick, which leaves it alone.
LEMMA StepSynced == Synced /\ [Next]_vars => Synced'
BY DEF Synced, Next, BeginTick, TickStub, TickNoPlace, TickFlee, TickMoveTo, TickNode, Pause,
       Wander, SyncX, SyncZ, vars, inst

\* Types, PauseHasNoTarget and Synced are inductive together.
THEOREM LocomotionInvariant == Spec => []LocomotionInv
<1>1. LocomotionInv /\ [Next]_vars => LocomotionInv'
  BY StepTypeOK, StepPause, StepSynced DEF LocomotionInv
<1> QED
  BY InitInv, <1>1, PTL DEF Spec

\* Every variable keeps its type.
THEOREM LocomotionTypeCorrect == Spec => []LocomotionTypeOK
BY LocomotionInvariant, PTL DEF LocomotionInv

\* After a pause the walk has a new target (tickWander).
THEOREM FreshTargetAfterPause == Spec => []PauseHasNoTarget
BY LocomotionInvariant, PTL DEF LocomotionInv

\* Instance.Position and the blackboard agree between two ticks (SyncPosition).
THEOREM PositionSynced == Spec => []Synced
BY LocomotionInvariant, PTL DEF LocomotionInv

\* The movement component leaves the wander circle under no speed and no delay of a
\* tick, and leads an NPC outside it home.
THEOREM WanderTethered == Spec => WalkTethered
<1> DEFINE Tethered ==
      phase = "component" =>
        \/ Distance(pos', Spawn) <= Radius
        \/ Distance(pos', Spawn) <= Distance(pos, Spawn)
<1>1. ASSUME LocomotionInv, [Next]_vars PROVE [Tethered]_vars
  <2> SUFFICES ASSUME phase = "component" PROVE Tethered
    BY DEF Tethered
  <2>1. LocomotionTypeOK
    BY <1>1 DEF LocomotionInv
  <2>2. CASE Wander
    <3>1. PICK goal \in (Spawn - Radius)..(Spawn + Radius) :
             pos' = pos \/ pos' = MoveToward(pos, goal, Speed * dt)
      BY <2>1, <2>2, WanderCases
    <3>2. pos \in Int /\ goal \in Int /\ Speed * dt \in Nat
      BY <2>1, <3>1, StepLength, LengthsAssumption DEF LengthsAssumption, LocomotionTypeOK, Spawn
    <3>3. CASE pos' = pos
      BY <3>2, <3>3 DEF Distance, Spawn
    <3>4. CASE pos' = MoveToward(pos, goal, Speed * dt)
      BY <3>1, <3>2, <3>4, MoveTowardBetween, BetweenTethered
    <3> QED
      BY <3>1, <3>3, <3>4
  <2>3. CASE pos' = pos
    BY <2>1, <2>3 DEF LocomotionTypeOK, Distance, Spawn
  <2> QED
    BY <1>1, <2>2, <2>3
       DEF Next, BeginTick, TickStub, TickNoPlace, TickFlee, TickMoveTo, TickNode, Pause, SyncX, SyncZ, vars
<1> QED
  BY <1>1, LocomotionInvariant, PTL DEF Spec, WalkTethered
=============================================================================
