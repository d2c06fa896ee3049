# Formal model of the NPC AI behaviour server

TLA+ modules, TLC configurations and TLAPS proofs for the Go server in `src/`: a WebSocket
gateway in front of a world of NPCs that a scheduler ticks ten times a second. The documents
under `src/docs` were read for what the program is meant to do; every definition is translated
from the code.

## The system

| Part | State | Operations | Concurrency |
|---|---|---|---|
| Gateway hub (`gateway/hub.go`) | `conns`, `count`, channels `register`, `unregister`, `broadcast`, `zoneBroadcast` | register, unregister, fan-out of a snapshot, kick of a slow client, stop | one goroutine; `count` is read by others |
| Connection (`gateway/conn.go`, `server.go`) | socket, bounded `send` channel | upgrade, ReadPump, WritePump, `sendMsg` | two goroutines per client plus the HTTP handler |
| Broadcast loop (`cmd/server/main.go`) | tick counter | skip when nobody is connected, build a snapshot, offer it to the hub | one goroutine |
| Handlers (`gateway/handler.go`) | none | `spawn_npc`, `remove_npc`, `publish_event`, `query_npc`, `debug_npc`, zones | run in the ReadPump of the client |
| Registry, GroupManager (`npc/registry.go`, `social/group_manager.go`) | id → instance; group → members | add, remove, get, iterate; register, unregister, leader loss | one lock each; handlers take one after the other, the scheduler's `updateFollowerTargets` takes the second inside the first |
| Event bus (`event/event.go`) | active events with a TTL | publish, tick, active | handlers publish, the scheduler ticks |
| Scheduler (`runtime/scheduler.go`) | tick state | perceive, share in groups, decide, remember, FSM, behaviour tree, components, group alert | one goroutine |
| Per-NPC state (`blackboard`, `fsm`, `component`) | threat, FSM state, memory, emotion, needs, position | see scheduler | written by the scheduler, read by handlers and snapshots |
| Conditions, trees (`core/rule`, `core/bt`) | none; they read and write a blackboard | validate, build, evaluate, tick | within a tick |
| Zones, start-up (`cmd/server/main.go`, `zone`, `npc/admin_template.go`) | regions, members, registered keys | load, spawn, check, serve | before the goroutines start; `spawn_npc` goes on creating |
| Configuration (`internal/config`, `cmd/sync`) | documents of six categories | fetch, keep, answer; copy to disk | ADMIN is edited and `cmd/sync` writes while servers read |
| Experiments, metrics | synthetic scenarios; counters | | none that matters |

What each part must guarantee, and where it is stated:

- hub and connections: a channel is closed once and by the one who removed the member; no dead
  member; no gap in a client's snapshots; everything that ends, ends completely; shutdown;
- registry and groups: they agree about every NPC; nobody is replaced unnoticed; a group learns
  that its leader has gone, and its alert goes away;
- FSM, trees, blackboard: the state, its action and the blackboard agree; only a value of a wrong type can
  make a tick panic, and then the others still get their turn;
- start-up and configuration: the server serves or exits; nothing that serves breaks the rule that emotion needs
  memory; one bad template costs itself only; what was fetched stays usable; the copy on disk never dangles;
- needs and emotion: who is threatened is afraid, and fear ends;
- bus, perception, decision, memory, FSM: a severe event is answered within two ticks (but for its last millisecond), a group
  answers as one, a threat is cleared as a whole, is remembered while it is felt, and in the end
  everybody calms down.

Hard behaviours: channels closed by one goroutine and used by others, check-then-act across two
locks, a tick that works on a copy of the population, time that is measured twice, blocking
sends to a goroutine that may have stopped, typed reads of untyped data, a global registry of keys filled in the order of
a map, and a copier that may die between two files. `PROJECT.json` lists them with their lines
under `hazards`.

## Modules

`SnapshotFeed` (abstract): what a client is promised, a consecutive sequence of snapshots
that begins when it joins and ends when its connection does.

`Gateway`: hub goroutine, broadcast loop and, for every connection, handler, ReadPump and
WritePump. Program counters: `hub` (a case of `runOnce`'s select, or inside the fan-out's loop),
`loop`, `server`, `reader`, `writer`. An action ends where another goroutine may look: at a
channel or socket operation or a section under the mutex. Where the hub changes `conns` (`HubRegister`, `HubUnregister`, `FanoutKick`) it does so before it
takes the mutex, and other goroutines may read the old `count` in between: `hub` is then "counting" until `HubCount`. The fan-out is one action per visited
connection (`FanoutSend`, `FanoutKick`), since readers and writers run in between. A snapshot is
its number, a response the number of its request. `HubRegister` and `HubUnregister` are the
rendezvous on unbuffered channels, so sender and hub move together. `AnswerPanics` is the send
on the closed channel, which `ReadPump` recovers from. The hub implements `SnapshotFeed` under the mapping
`feedStatus` (out until registered, ended when WritePump has returned).

`Population`: registry, groups and the two handlers that change them. Every locked section is an
action; a handler carries what it read in `job`. An instance is a number into `made`.
`contested` is a history of the ids on which two requests were in progress at once; it separates
what the code guarantees (ids that one client at a time works on) from what it does not.

`GroupAlert` extends `Population` by the scheduler: `batch` is the first pass's snapshot of the
registry, `view` the copy of the groups that `propagateGroupState` iterates over. A decision may
bring any NPC of the batch into Flee or out of it.

`ThreatResponse`: bus, perception, decision, memory and FSM of the civilian in
`configs/fsm/civilian.json`. A tick is two actions, `TickBus` and `TickThink`, because clients
publish between the bus's two locked sections; everything after `Active()` touches only
what the scheduler owns and is one action. Perception strengths are chosen anew in each tick up to the event's
severity (global events: exactly the severity), which stands for every position and movement.
`Kept` is the trimming to the attention capacity with arbitrary ties, `Pool` and `Strength` the
merge over a group, `Worst` the event that is evaluated. `left` is `threat_expire_at` minus
`current_time`; the clock (`wall`) and the tick's `dt` advance independently, since
one is read when the tick runs and the other when it was due. The decision notes the expiry in whole milliseconds, rounded down, so an event with less than one
to live leaves an expiry that has passed: `fading` is any set of events in their last unit of time, and theirs is `left = 0`. `memory` is ordered by time stamp,
so that the entry to evict is the first; two entries never have the same time stamp as long as
ticks are a millisecond apart. The table `Transitions` is the configuration, `FsmTick` the engine.

`Locomotion`: how one NPC moves. A tick is cut where the code hands over: the FSM settles the tree
(`BeginTick`), the tree moves the NPC (`TickFlee`, `TickMoveTo`, or not: `TickStub`, `TickNoPlace`), the movement
component wanders (`Pause`, `Wander`), and `SyncPosition` copies the two coordinates (`SyncX`, `SyncZ`). Positions
lie on a slanted line, so that one number stands for both coordinates; what the FSM decides is
left open, so the state, and with it the tree, may change in every tick. Random choices are arbitrary ones:
a liveness property holds for every sequence of targets and pauses. Templates give every NPC the
wander mode (`inferMoveType`), so only that mode is modelled.

`Snapshot` extends `Locomotion` by the broadcast loop's reads of the two coordinates.

`Mind` extends `ThreatResponse` by the other components of an NPC: `MindThink` is `TickThink` with the needs (energy),
the emotion (fear) and the weighing of the decision (`Arbitrate`), `MindRespawn` a new NPC with its personality. The
decision uses the needs and fear of the tick before, then memory, needs and emotion tick in the order of
`tickablePriority`, so that fear sees what was remembered a moment ago. Fear has no bound in the code; `MaxFear` is one of
the model.

`Conditions` and `Trees` are pure: values with their Go types, blackboards, conditions, trees, and the operators that validate,
build, evaluate and tick them. What is nested in JSON is laid out as a table here: each part of a condition stands after those it is
made of, each node of a tree after its children, and the whole comes last. Evaluation and ticks are then recursive functions over the places of a
table, about which one can prove; `And`, `Or`, `Sequence` and the others build the tables, so that configurations read as they
do in JSON. A blackboard gives every name of `Keys` a value, `Absent` for a key it does not have.

`Brain` puts them together. `Spawn` is `NewInstanceFromADMIN` down to `wireBehavior`; the fields of a template stay
registered when the wiring fails. `TickBegin` is the first pass (in the order of a Go map), `TickNpc` the second pass for one NPC:
decision, FSM, tree of the FSM's state, and the read of the position; `TickEnd` is the alert of the group. A typed read of a value
of another type, or a write of an unregistered key, panics; `Abort` is what `safeTick` makes of it: the NPCs not yet visited
and the alert are left out. `Look` is a snapshot or a query. `order` is what the second pass has still to visit, `turn` and `outcome`
are history. `Tables` chooses an order of the transitions with equal priorities, since `sort.Slice` leaves it open. `KeyType` has nine of the
keys of the program with the types it reads them with; others (`memory_threat_value`, `need_lowest`, `npc_pos_z`) are read in the same way and left out, so `TypingIsSound` does not speak of templates that mistype only those. `ActionOfState` does not speak of templates with a field `current_action`: theirs stays until a tree names another.

`ConfigSync`: what ADMIN exports (`Exports`, one configuration after the other, with edits in between), and `cmd/sync` writing
it to the directory: a request for a category, then each file truncated (`SyncOpen`) and written (`SyncWrite`), with an end at any
point (`SyncStop`). Of a document there is what the server looks at. `steady` is history: ADMIN was never edited
between the requests of one reader.

`Startup` extends it by `cmd/server`: the fetch into memory (HTTP, MongoDB) or the reading of the
directory at every call (JSON; a directory is read in one step where the code reads it file by file, which does not matter to `IndependentSpawned`: it speaks of configurations that stayed `stable` during the start), event types, regions with `Zone.Spawn`, templates, the cascade check, and `spawn_npc`
afterwards. `keys` is the registry of blackboard keys, which outlives every NPC. An id is the words of a name and a number, so that the id of
the second template's NPC can be the one a zone gave. `tasks` are the rows of the spawn table times their counts, taken row by row. Nothing checks that two regions
have different ids; the later one then takes the place of the earlier in `members`, so `IndependentSpawned` asks for a zone's members only where it is the `SoleOfItsId`. `Exit` leaves a server that can be started again.

`MCGateway`, `MCPopulation`, `MCGroupAlert`, `MCThreatResponse`, `MCMind`, `MCBrain`, `MCLocomotion`, `MCSnapshot`, `MCStartup`
give constants and symmetry for TLC. `GatewayProofs`, `PopulationProofs`, `ThreatProofs`, `MindProofs`, `BrainProofs`, `LocomotionProofs`
and `StartupProofs` hold the proofs, `DataLemmas` the facts about naturals and sequences that they share.
Definitions marked "Mistake" in the modules are plausible bugs; each breaks the property it is listed with in `PROJECT.json`.

## Runs

| Run | Bounds | Shows |
|---|---|---|
| `GatewayTwo` | 2 connections, buffers of 1, 3 ticks, 1 request each | `TypeOK`, `ClosedIffLeft`, `NoZombie`, `TickPassesNobody`, `GaplessFeed` |
| `GatewayOne` | 1 connection, send buffer 2, queue 1, 3 ticks, 2 requests | `ResponsesAccounted`; `FeedSpec` (refinement); `CleanUp`, `FeedProgress`, `ShutdownCompletes` |
| `PopulationTwoClients` | 2 clients, 2 ids, 1 group, 4 instances | `Coherent`, `NeverReplacedUncontested`, `LeaderLossToldUncontested` |
| `GroupAlert` | 2 clients, 2 ids, 2 instances | `AlertClearsUncontested` |
| `GroupAlertGhost` | 2 clients, 1 id | the alert that a ghost member keeps up |
| `ThreatPack` | pack of 2, attention 1, 2 events, 2 severities | `TypeOK`, `ClearedTogether`, `SharedFate`, `PromptFlight`, `NoStaleFlight`, `CalmsDown` |
| `Mind` | 1 NPC, 2 actors, memory of 1, 2 events, the three personalities | `RemembersThreat`, `AfraidOfThreat`, `MindSettles` |
| `Brain` | 2 NPCs of 7 templates, 2 strengths of a threat | `StateKnown`, `WritesRegistered`, `TypingIsSound`, `MissingNeverEnables`, `ActionOfState`, `EveryoneVisited` |
| `LocomotionTick` | circle of 4, safe distance 6, nodes twice as fast as the component, ticks on time or twice or four times late | `Synced`, `WalkTethered`; `Homecoming`, `KeepsWandering`, `FleeGetsThere`, `MoveToGetsThere` |
| `SnapshotTorn` | as `LocomotionTick`, with the broadcast loop | a snapshot mixes two ticks |
| `Startup` | 3 sources, 3 configurations of ADMIN, `cmd/sync` | `BootCascade`, `IndependentSpawned`, `NoDangling`; `StaysCreatable`, `BootEnds` |
| `StartupUngrouped` | JSON source | NPCs of templates are in no group |

Why the bounds are enough. Buffers of one or two are full and empty within a few steps; three
snapshots fill queue, channel and the writer's hand and leave one to drop or kick over, and two
connections are enough for one to be visited before and one after a kick. Four instances allow an
id to be spawned, removed and spawned again while the other client does the same to a second member.
Two events are enough for trimming, pooling and replacement of a weaker threat by a stronger
and back; two actors are enough to evict from a memory of one (`Mind`). The threat runs use a unit of two seconds and
of ten points, in which the configured decay of 5 points a second is one per unit. In `LocomotionTick` a tick that is twice late makes a step of the component that is still on time (`OnTime`), one that is four times late makes a step of the component (4) longer than
what counts as arrived (3), so that steps are cut at the target; the place lies inside the circle, so that
flights lead out of it. Positions need no bound of their own: flights end at the safe distance. The templates of `Brain` are the shipped civilian and fighter and five more that bring in every node, every kind of condition
and value, ties of priorities, a template that registers a key another one writes, two that are badly typed (a field, a node)
and one that cannot be wired; a unit of threat is ten points, and NPCs are never removed, so that two of them show every pair of templates. The three
configurations of `Startup` hold ids that clash, a region with a template that is not there and one that does not parse, a template that depends
on another's field, an NPC that violates the cascade, and a reference that ADMIN refuses to export; `MaxEnergy`, `FearRise` and
`FearDecay` of `Mind` are scaled down so that energy is used up and fear rises and falls within one threat. The gateway bounds `MaxTicks` and
`MaxReqs` end executions in states where nothing is left to do, so deadlock is not checked;
`MaxInst` and `MaxEvents` do the same elsewhere.

## Fairness

- Go runs every goroutine that can run: weak fairness of each goroutine's next step.
- `select` chooses at random among the ready cases, so a hub case that is ready again and again
  is taken: strong fairness of `HubRegister`, `HubUnregister`, `HubTakeBroadcast`, `HubStop`, and
  of `LoopStop`, which competes with a ticker.
- A write ends: it succeeds or its deadline of ten seconds passes. A read from a peer that has gone ends by
  the pong deadline.
- The scheduler's loop goes on for ever (`Recover` keeps it alive): weak fairness of its tick. Clients and signals owe nothing.
- `Brain`: Go begins the iteration over a map at a random place, so every NPC is the first of a tick again and again: strong
  fairness of a tick that begins with it. Without that an NPC behind one that panics may never get its turn.
- `Startup`: weak fairness of the steps of `main`. A request to ADMIN has a timeout; the calls to MongoDB have no deadline in `cmd/server/main.go:69`, so there
  the fairness rests on the driver, which has to notice a server that no longer answers. Nothing is owed by `cmd/sync`, ADMIN and clients.
- `Mind`: weak fairness of its tick, as in `ThreatResponse`.

## Disagreements between documents and code

Paths are under `src/docs`. With a run each; `PROJECT.json` quotes the document:

- `GroupAlertGhost`: a ghost member keeps `group_alert` for ever.
- `SnapshotTorn`: X and Z of one snapshot can come from two ticks.
- `StartupUngrouped`: the NPCs that `main` creates from templates never join their groups, unlike those of zones and clients.

Without a run of their own:

- A full send channel drops a response and leaves the connection open (`AnswerDropped`); `specs/gateway-layer/design.md:404` says it is closed.
- Two overlapping spawns of one id both succeed, and the second replaces the first, which stays in its group;
  `protocol.md:84` answers `npc_already_exists`. This is why `NeverReplacedUncontested` speaks of ids that one client at a time works on.
  Overlapping requests can also lose `leader_lost`.
- With equal speeds of component and `flee_from` node an NPC flees on the spot, because the component wanders in the same tick;
  `specs/movement-system/requirements.md:114` promises the safe distance. `FleeGetsThere` is checked with a faster node.
- With ticks late for ever, so that one step of the component is longer than the metre that counts as arrived, `move_to` never arrives: with the constants of `LocomotionTick`
  and every tick four times late, the NPC at -2 on its walk to -4 is put on 2 by the node and taken back to -2 by the component. `specs/movement-system/requirements.md:113` (R7) knows only
  moving and arriving; `MoveToGetsThere` speaks of ticks on time. Within the shipped speeds (up to 6 metres a second) a tick has to be later than 0.16 seconds for that. The same goes for a node that is slower than the component.
- In the last tick of a severe event's TTL the NPC may be sent back to `Idle` although the event is active, when less than a millisecond of it is left (`decision.go:100`).
  The 30 seconds of `earthquake` are a multiple of the tick, so the remainder is the jitter of the ticker. `PromptFlight` excepts that tick: `exposure` counts ticks that answer an event that is not fading.
- After shutdown a `ReadPump` may block in its deregistration until the process exits (`ShutdownCompletes` allows it).
- `spawn_npc` is never checked for the cascade (`specs/external-contract-server-adaptation/requirements.md:152`, R18): `BootCascade` speaks of NPCs the program created.
- A configuration that cannot be fetched ends the program where R16 and design §1.4 describe a degraded start. An optional MongoDB collection
  that fails half-way keeps the half it has decoded.
- The shipped `fsm_combat_basic` has states `Idle`, `Patrol`, `Chase`, `Attack`, while the `bt_refs` of its templates have
  lower-case keys: the trees of those NPCs never run, and nothing checks it.
- Trees without `set_bb_value` (the civilian's `Idle`; `Alarmed` has none) leave the `current_action` of the state before in snapshots and
  queries; `ActionOfState` speaks of states whose tree names an action. `protocol.md:187` calls the field the current action.
- Energy is never restored, so an NPC with weighted needs goes by them in the end (`MindSettles`), even though the threat
  part of the blackboard does not depend on who wins.
- One template whose field or node has a value of a wrong type (nothing checks types) makes every snapshot panic, or every tick,
  which then ends before the NPCs after it and the group alert.
- Whether a template that reads another's field can be created depends on the order of a map (`IndependentSpawned` is about the others);
  ids `<zone>_<template>_<i>` and `<template>_<idx>` may be equal, and the later NPC replaces the earlier, which stays in its group and its zone.
- A file being written by `cmd/sync` makes `LoadAllNPCTemplates` fail, so that no template is created; if it is an event type, the server exits.

## Proofs

Every safety invariant of the passing runs is proved for all values of the constants, and so are the action
properties and the refinement of `SnapshotFeed`. What follows is the argument of each module.

`GatewayProofs` (for every finite set of connections, all capacities of at least one and all bounds):
`IInv` is inductive. `ClosedIffLeft` alone is not: that `FanoutKick` closes an open channel needs
`HubOrder` (only members are visited), that `HubRegister` does not make a member of a closed or
departed connection needs `PumpOrder` (the pumps start after registration), and `TickPassesNobody` needs `CountLag`: the count
is exact but in the middle of a change, when it is off by the one connection concerned (`MembersChange`), so that a zero read from it means no member,
or one that is not counted yet (`ZeroCount`). `InitIInv` and `StepIInv` give `Inductive`; `TypeCorrect`,
`SendClosedExactlyOnce`, `NoZombieConnection` and `TickPassesNobodyHolds` follow. `StepIInv` is cut by who
acts (connection or hub) and by what is preserved (types, order of the pumps, membership).

Its second half adds what is on its way to a connection. `Stream(c)` is the message the writer holds and the channel behind it.
`SnapInv` says that the snapshots in it are exactly those between what the client has seen and what the hub has
handed out, and in order; that the hub's queue holds the latest ones published; and that nothing waits for a connection before it is registered.
In the middle of a fan-out, the connections visited are one ahead of those still to visit, which is why `Waiting` looks at `todo`. `GaplessFeedHolds` follows. `GatewayImplementsFeed` is the refinement: registration is the feed's join,
a written snapshot its delivery, the end of WritePump its end, and every other step a stutter. `RespInv` does the same
for responses: those in the stream increase, and each request is answered in the stream or on the socket, or was dropped, or its handler panicked.

`PopulationProofs` (for any clients, ids and templates): `ClaimInv` says that two handlers at work on one id have
contested it and that the id of an uncontested pending spawn is free. It is needed
because the check and the addition are separate steps: what makes the stale check still true is that
nobody else worked on the id since. `ClaimsHold` is the invariant, `NeverReplacedHolds` the action
property that follows from it. `GroupInv` extends it to the groups: where an uncontested NPC is when no
request works on it (in both registry and its group, once) and in the middle of one (in the registry only, since a spawn
adds before it registers and a removal unregisters before it deletes). `Coherent` speaks of the first half only and is not inductive. `LossInv`, on top of
`GroupInv`, says in addition that an instance not yet registered was never led, so that a removal finds every member it has to tell.

`ThreatProofs` (for any NPCs, groups, events, thresholds in order, attention and capacity): `ThreatInv` is the types with
`ClearedTogether`, `SharedFate`, the shape of a memory (`Distinct` entries, within `Capacity`) and `Flight`. `SharedFate` needs
`ClearedTogether`, because a level that decays to zero in one member clears its source at the same time as in the others. `PromptFlight` alone
is not inductive: `Flight` knows that after one tick that answers a severe event with time left nobody is in `Idle`, and `NoStaleFlight` that only `Cower`
outlasts a threat. The lemmas it needs are `FsmTable` (what the engine does with the shipped table, priorities included), `PerceivedIs` (trimming, pooling and the choice of the
worst never lose the strongest event, by a counting argument in `AttendsTo`), and `RememberProperties` and `ForgetProperties`, which rest on
`OnlyProperties`: filtering keeps the order, by the least-element principle in `DataLemmas`.
`BlameInv` is behind `RemembersThreatHolds`: the newest memory is of the one who caused the threat, and its time outlasts the decay of the level. The theorem
has a hypothesis, `LongMemory`: a memory lasts at least as long as the greatest level takes to decay. The code does not see to that.
The shipped values do for every severity up to 150 (30 seconds at 5 a second, less a tick); the event types go up to 100, but a client may
set any severity, and beyond that an NPC feels a threat whose cause it has forgotten. Both runs satisfy the hypothesis.

`MindProofs`: `MindImplementsThreatResponse` maps every step of `Mind` to one of `ThreatResponse` or a stutter, so that all of the above holds of
`Mind`; `AfraidOfThreatHolds` (under `LongMemory`, for any weights and rates) uses `BlameInv` of the next state: memory ticks before
emotion, so a threat that is felt is remembered when fear looks.

`LocomotionProofs` (for every radius, speed, distance, delay of a tick and choice of pauses): `LocomotionInv`, the types with
`PauseHasNoTarget` and `Synced`, is inductive. `WanderTethered` needs from it that a target lies in the
circle, and two lemmas: `MoveTowardBetween` (a step ends between its start and its target) and
`BetweenTethered` (so it is in the circle or no farther from its centre).

`StartupProofs` (for every sequence of exports, every directory at the start, every set of base keys): `NoDanglingHolds` rests on
`SyncInv`, which knows how far `cmd/sync` has come: as long as ADMIN has not been edited, every FSM and tree that ADMIN holds has a file or is
still to be written, the templates still to be written are ADMIN's, and ADMIN's are closed (it handed them out). `NoDangling` alone is not inductive, since it says nothing of the items in hand. `CascadeHolds` follows from the check in `Serve` and from
the stages: what is created afterwards is a client's. `StaysCreatableHolds` needs that memory is changed in the stage `fetch` only and
that `keys` only grow. `IndependentSpawnedHolds` rests on `SpawnedInv`: of every region opened so far each NPC is there or still to be created, the latter only in the
region being opened (`ZonesInv`); every template taken that needs no other has its NPC (`TemplatesInv`); and the numbers in the ids of templates increase (`ProgressInv`), so
that no template's NPC replaces another's. That a region's template never makes `Zone.Spawn` give up follows from `WiresMonotone`: registered keys never
make a template fail.

`BrainProofs` (for any templates, NPCs and strengths of a threat) goes from the bottom up. `EvaluateIs`, `TickChildrenIs` and `TickTreeIs` show that
the recursion of `Evaluate`, `TickChildren` and `TickTree` has a solution, and that this is what they arrive at; the solution is put together place by place, and
`LeastElement` takes the place of induction: the first place at which there is none would come right after one at which there is. `EvaluateMonotone` then says that a key taken from a
blackboard turns no condition true (the first part that it did would be a leaf, or made of earlier ones: there is no negation). `TreeIsSound`: a tree that was built does not panic and
writes nothing but what its `set_bb_value` nodes say, whatever its shape. `AnnouncedIsNamed`: if its first node names an action, one of
those it names is shown afterwards, since the children after the first write what the tree names or leave the key alone.

`BrainInv` is the inductive invariant. `StateKnown` and `WritesRegistered` alone are not inductive: the target of a transition is a state only because wiring looked it
up (`Wired`), and the tree of a state can be ticked only because it was built when the keys were registered, of which none is ever removed (`WiredMore`). `ActionOfState` holds
between ticks, but in the middle of the second pass the FSM has moved and the tree has not been ticked; hence `Sane` (with `ShowsAction`) between
steps and `Moved` (without) inside `TickNpc`. `TypingIsSound` needs `Typed`: in a well typed template no key of the program has a value of another type on the blackboard, since fields, trees
and Go code write only what fits. `order` holds live NPCs, since nobody is removed. That the decision, the clock and the group alert keep all this are
`DecideBoard`, `TickedBoard` and `TickEndInv`. `TypingIsSound` is proved in the form in which it is checked: a panic means that some live NPC is badly typed.

Assumptions used: `BrainAssumption` (templates are what JSON decodes to, that is finite tables; NPCs are finitely many; `Keys` holds the keys of the program and of the templates), `FirstDisksClosed`, `LengthsAssumption`, `TimesAssumption`, `ConnsAssumption`, `BoundsAssumption`, `TemplatesAssumption`,
`ConfigAssumption`, `MindAssumption`, each evaluated by TLC in the runs that extend its module, and `LongMemory` where it is named.

Only model-checked: all liveness properties, since the prover has no rule for liveness under fairness or for `ENABLED`
(`CleanUp`, `FeedProgress`, `ShutdownCompletes`, `AlertClearsUncontested`, `CalmsDown`, `MindSettles`, `EveryoneVisited`, `Homecoming`, `KeepsWandering`,
`FleeGetsThere`, `MoveToGetsThere`, `BootEnds`). What the three runs that expect a violation show are traces, and TLC's as well. That the tables of `Conditions` and `Trees`
are those that the builders (`And`, `Sequence` and the others) should make of a configuration is not proved: the proofs hold of every table that is one, and `BrainAssumption`, which TLC evaluates on the
shipped configuration and the others of `MCBrain`, says that theirs are.

## Not modelled

The zone broadcast (`Hub.BroadcastByZone`), `ZoneManager.Sleep` and `Wake`, and regions by id: they have no caller. The patrol and follow modes and the older path
for NPCs without components: no configuration leads to them. The position of a follower's leader on the blackboard, which no shipped tree reads.
What `debug_npc` copies from the components, and state, action and threat in a snapshot, each read under a lock of its own: the outcome is
an answer that mixes two ticks, as `SnapshotTorn` shows for positions. Zones and distances in perception: the strength of an event is any value up to its severity. The
offline experiments and metrics, on which nothing in the server depends; JSON parsing, the check of names against path traversal, logging, the server's own options.

## Plan

What would add most next, in this order:

1. `Population` composed with `Startup`, so that clashing ids meet the removals of clients.
2. Positions and zones in perception.
3. `Population` under `Brain`, so that an NPC may be removed while the second pass still holds it.
