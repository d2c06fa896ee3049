----------------------------- MODULE Locomotion -----------------------------
(***************************************************************************)
(* How an NPC gets where it is.  Two parts of a tick move it: the behaviour *)
(* tree of its FSM state (flee_from, move_to) and, right after, the        *)
(* movement component, which wanders around the spawn point whatever the   *)
(* tree has done.  Both write the blackboard; then SyncPosition copies the *)
(* blackboard into Instance.Position, one coordinate after the other and   *)
(* without a lock: module Snapshot adds the goroutine that reads it.       *)
(*                                                                         *)
(* The NPC walks on a slanted line, so that one number stands for both of  *)
(* its coordinates: a pair of different numbers is a place off the line,   *)
(* where it never was.  Lengths are thirds of a metre, rounded down.       *)
(***************************************************************************)
EXTENDS Integers

CONSTANTS
    Radius,     \* wander_radius
    Speed,      \* move_speed of the movement component, a tick's worth
    NodeSpeed,  \* speed of flee_from and move_to, a tick's worth
    Safe,       \* distance of flee_from
    Near,       \* closer than this is arrived, one metre
    Post,       \* the place that flee_from and move_to find in the blackboard
    Elapsed,    \* how many ticks' worth of time a tick may have to make up for
    Waits       \* the pauses between two walks

ASSUME LengthsAssumption ==
    /\ Radius \in Nat /\ Speed \in Nat /\ NodeSpeed \in Nat
    /\ Safe \in Nat /\ Near \in Nat \ {0} /\ Post \in Int
ASSUME TimesAssumption ==
    /\ Elapsed \subseteq Nat \ {0}
    /\ Waits \subseteq Nat \ {0}

VARIABLES
    phase,      \* what the scheduler does next with the NPC
    dt,         \* DeltaTime of the tick
    mode,       \* which movement node the tree of the FSM state holds
    known,      \* whether the keys of Post are in the blackboard
    pos,        \* npc_pos_x and npc_pos_z
    moveState,  \* move_state
    hasTarget, target, waitTimer,   \* fields of MovementComponent
    instX, instZ                    \* Instance.Position

walking == <<hasTarget, target, waitTimer>>
inst == <<instX, instZ>>
vars == <<phase, dt, mode, known, pos, moveState, walking, inst>>

Modes == {"stub", "flee", "moveTo"}
Spawn == 0

Distance(p, q) == IF p < q THEN q - p ELSE p - q

\* Mistake: the step is taken in full although the target is nearer.
MoveTowardOvershoots(p, q, step) == IF p < q THEN p + step ELSE p - step

\* MoveToward and btMoveToward: never past the target.
MoveToward(p, q, step) ==
    IF Distance(p, q) <= step THEN q ELSE IF p < q THEN p + step ELSE p - step

\* Mistake: the direction is the one towards the place.
FleeFromTowards(p, step) == MoveToward(p, Post, step)

\* Away from Post, by the whole step.  An NPC that stands on Post flees to greater X in
\* the code, here along the line.
FleeFrom(p, step) == IF p < Post THEN p - step ELSE p + step

Init ==
    /\ phase = "rest" /\ dt \in Elapsed
    /\ mode = "stub" /\ known \in BOOLEAN
    /\ pos = Spawn /\ moveState = "unset"
    /\ hasTarget = FALSE /\ target = Spawn /\ waitTimer = 0
    /\ instX = Spawn /\ instZ = Spawn

-----------------------------------------------------------------------------
(* The scheduler's second pass over the NPC.                               *)

\* The FSM settles which tree is ticked; the state may have changed in any way.
BeginTick ==
    /\ phase = "rest"
    /\ phase' = "tree"
    /\ dt' \in Elapsed
    /\ mode' \in Modes
    /\ UNCHANGED <<known, pos, moveState, walking, inst>>

\* A tree without a movement node ends at once and leaves the NPC where it is.
TickStub ==
    /\ phase = "tree" /\ mode = "stub"
    /\ phase' = "component"
    /\ UNCHANGED <<dt, mode, known, pos, moveState, walking, inst>>

\* flee_from and move_to fail if the keys of their place are not in the blackboard.
TickNoPlace ==
    /\ phase = "tree" /\ mode # "stub" /\ ~known
    /\ phase' = "component"
    /\ UNCHANGED <<dt, mode, known, pos, moveState, walking, inst>>

\* The end of a movement node: there already, or one step on.
TickNode(there, next) ==
    /\ phase = "tree" /\ known
    /\ phase' = "component"
    /\ IF there
         THEN moveState' = "arrived" /\ pos' = pos
         ELSE moveState' = "moving" /\ pos' = next
    /\ UNCHANGED <<dt, mode, known, walking, inst>>

TickFlee ==
    /\ mode = "flee"
    /\ TickNode(Distance(pos, Post) >= Safe, FleeFrom(pos, NodeSpeed * dt))

\* Mistake: move_to is done only when it stands exactly on the place, and overshoots it.
TickMoveToExact ==
    /\ mode = "moveTo"
    /\ TickNode(pos = Post, IF pos < Post THEN pos + NodeSpeed * dt ELSE pos - NodeSpeed * dt)

TickMoveTo ==
    /\ mode = "moveTo"
    /\ TickNode(Distance(pos, Post) < Near, MoveToward(pos, Post, NodeSpeed * dt))

\* Mistake: the pause is never counted down.
PauseForEver ==
    /\ phase = "component" /\ waitTimer > 0
    /\ phase' = "syncX"
    /\ moveState' = "arrived"
    /\ UNCHANGED <<dt, mode, known, pos, walking, inst>>

\* tickWander during the pause after an arrival.
Pause ==
    /\ phase = "component" /\ waitTimer > 0
    /\ phase' = "syncX"
    /\ waitTimer' = waitTimer - dt
    /\ moveState' = "arrived"
    /\ UNCHANGED <<dt, mode, known, pos, hasTarget, target, inst>>

\* Mistake: the target is chosen around where the NPC is, not around the spawn point.
WanderFromHere ==
    /\ phase = "component" /\ waitTimer <= 0
    /\ phase' = "syncX"
    /\ \E goal \in IF hasTarget THEN {target} ELSE (pos - Radius)..(pos + Radius) :
         /\ target' = goal
         /\ IF Distance(pos, goal) < Near
              THEN /\ hasTarget' = FALSE /\ waitTimer' \in Waits
                   /\ moveState' = "arrived" /\ pos' = pos
              ELSE /\ hasTarget' = TRUE /\ waitTimer' = waitTimer
                   /\ moveState' = "moving" /\ pos' = MoveToward(pos, goal, Speed * dt)
    /\ UNCHANGED <<dt, mode, known, inst>>

\* tickWander otherwise: keep the target or choose one, then arrive or walk.  The
\* target that writePosition also puts on the blackboard is only ever dumped.
Wander ==
    /\ phase = "component" /\ waitTimer <= 0
    /\ phase' = "syncX"
    /\ \E goal \in IF hasTarget THEN {target} ELSE (Spawn - Radius)..(Spawn + Radius) :
         /\ target' = goal
         /\ IF Distance(pos, goal) < Near
              THEN /\ hasTarget' = FALSE /\ waitTimer' \in Waits
                   /\ moveState' = "arrived" /\ pos' = pos
              ELSE /\ hasTarget' = TRUE /\ waitTimer' = waitTimer
                   /\ moveState' = "moving" /\ pos' = MoveToward(pos, goal, Speed * dt)
    /\ UNCHANGED <<dt, mode, known, inst>>

\* SyncPosition: X, then Z.  PositionComponent gets the same copy; nothing reads it.
SyncX ==
    /\ phase = "syncX"
    /\ phase' = "syncZ"
    /\ instX' = pos
    /\ UNCHANGED <<dt, mode, known, pos, moveState, walking, instZ>>

\* Mistake: SyncPosition copies only one of the coordinates.
SyncZForgotten ==
    /\ phase = "syncZ"
    /\ phase' = "rest"
    /\ UNCHANGED <<dt, mode, known, pos, moveState, walking, inst>>

SyncZ ==
    /\ phase = "syncZ"
    /\ phase' = "rest"
    /\ instZ' = pos
    /\ UNCHANGED <<dt, mode, known, pos, moveState, walking, instX>>

Next ==
    \/ BeginTick
    \/ TickStub \/ TickNoPlace \/ TickFlee \/ TickMoveTo
    \/ Pause \/ Wander
    \/ SyncX \/ SyncZ

Spec == Init /\ [][Next]_vars

\* The scheduler's loop goes on for ever.
FairSpec == Spec /\ WF_vars(Next)

-----------------------------------------------------------------------------
(* Properties                                                              *)

\* Every variable has its type.
LocomotionTypeOK ==
    /\ phase \in {"rest", "tree", "component", "syncX", "syncZ"}
    /\ dt \in Elapsed
    /\ mode \in Modes /\ known \in BOOLEAN
    /\ pos \in Int /\ moveState \in {"unset", "moving", "arrived"}
    /\ hasTarget \in BOOLEAN
    /\ target \in (Spawn - Radius)..(Spawn + Radius)
    /\ waitTimer \in Int
    /\ instX \in Int /\ instZ \in Int

\* A pause that is under way has no target left over from before it: the walk
\* after a pause goes to a new place (tickWander clears hasTarget when it arrives),
\* wherever the tree has carried the NPC in the meantime.
PauseHasNoTarget == waitTimer > 0 => ~hasTarget

\* Whoever looks at Instance.Position between two ticks sees the position of the
\* blackboard, whichever part of the tick moved the NPC last; in the middle of a
\* tick it is still the position of the tick before, in both coordinates.
Synced ==
    /\ phase = "rest" => instX = pos /\ instZ = pos
    /\ phase # "syncZ" => instX = instZ
    /\ phase = "syncZ" => instX = pos

\* The movement component's own steps stay within wander_radius of the spawn
\* point, and lead an NPC that a tree has carried out of it towards it.
WalkTethered ==
    [][phase = "component" =>
        \/ Distance(pos', Spawn) <= Radius
        \/ Distance(pos', Spawn) <= Distance(pos, Spawn)]_vars

\* When no tree carries the NPC away any longer it comes home, to within a metre
\* of the circle that it wanders in, from wherever the trees have left it.
Homecoming ==
    <>[](mode = "stub" \/ ~known) => <>[](Distance(pos, Spawn) < Radius + Near)

\* An NPC left to itself never stops wandering: every walk ends in a pause and every
\* pause ends.
KeepsWandering ==
    <>[](mode = "stub" \/ ~known) => []<>(waitTimer > 0) /\ []<>(waitTimer <= 0)

\* The node that has just been ticked has returned Success: the NPC stood where it
\* should be when the tick began.
NodeArrived == phase = "component" /\ moveState = "arrived"

\* The component's step is shorter than what counts as arrived.
OnTime == dt \in {t \in Elapsed : Speed * t < Near}

\* flee_from reports its safe distance if the state lasts, although the movement
\* component goes on wandering in the same ticks, and however late they are.
FleeGetsThere ==
    (known /\ mode = "flee") ~> (mode # "flee" \/ NodeArrived)

\* move_to reports its arrival again and again if the state lasts, although the component
\* may lead away from the place in the same tick, as long as its ticks are on time: a
\* step of the component that is longer than what counts as arrived can undo in each
\* tick what the node has done.
MoveToGetsThere ==
    <>[](known /\ mode = "moveTo" /\ OnTime) => []<>NodeArrived
=============================================================================
