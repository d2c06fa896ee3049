--------------------------- MODULE ThreatResponse ---------------------------
(***************************************************************************)
(* How NPCs answer events: the event bus, which client goroutines publish  *)
(* to, and the scheduler's tick, which ages the bus, lets every NPC        *)
(* perceive, pools what a group perceived, evaluates the threat, records   *)
(* it in memory and ticks the FSM (the civilian of configs/fsm).           *)
(*                                                                         *)
(* Time is counted in units of a few ticks.  Where an NPC stands, and so   *)
(* how strongly it perceives an event that is not global, is any choice up *)
(* to the event's severity, made anew in every tick.  Event e is the e-th  *)
(* published; sent[e] says what it is and ttl[e] what is left of it, a     *)
(* part of a unit counting as a whole one.                                 *)
(***************************************************************************)
EXTENDS Naturals, Sequences, FiniteSets

CONSTANTS Npcs,
          GroupOf,     \* group id of each NPC, "" for none
          EventTypes,  \* records [name, global, ttl]
          Actors,      \* what caused an event; "" when the client names nobody
          Severities, Strengths,
          Attention,   \* attention_capacity, at least 1
          DecayRate,   \* of the threat level, per unit of time
          Capacity, DecayTime,                 \* of the memory component
          CalmLevel, FleeLevel, CowerLevel,    \* thresholds of configs/fsm/civilian.json
          MaxLag,      \* bound: units of time between two ticks
          MaxEvents    \* bound: events ever published

\* No group, no actor, no type of event.
None == ""

ASSUME ConfigAssumption ==
  /\ Severities \subseteq Nat \ {0} /\ Strengths \subseteq Nat /\ 0 \in Strengths
  /\ \A t \in EventTypes : t.ttl \in Nat \ {0} /\ t.global \in BOOLEAN /\ t.name # None
  /\ Attention \in Nat \ {0} /\ Capacity \in Nat \ {0}
  /\ DecayRate \in Nat \ {0} /\ DecayTime \in Nat \ {0}
  /\ CalmLevel \in Nat /\ FleeLevel \in Nat /\ CowerLevel \in Nat
  /\ CalmLevel <= FleeLevel /\ FleeLevel <= CowerLevel
  /\ MaxLag \in Nat \ {0} /\ MaxEvents \in Nat
  /\ GroupOf \in [Npcs -> STRING]

VARIABLES
  sent,      \* the events published so far: [type, severity, actor]
  ttl,       \* what is left of each; 0 when it has left the bus
  phase,     \* Scheduler.Tick: "wait" or "think" (the bus has been aged)
  lag,       \* dt of the tick in progress
  level,     \* threat_level on each blackboard
  source,    \* threat_source: an event, 0 for none
  lastType,  \* last_event_type
  left,      \* threat_expire_at minus current_time, 0 once it has passed
  fsm,       \* state of each FSM
  memory,    \* threat memories, least recently reinforced first
  exposure,  \* consecutive ticks with a severe global event in which the worst event was
             \* not fading, up to 2 (history)
  overdue    \* consecutive ticks in flight after the threat expired, up to 2 (history)

busVars == <<sent, ttl>>
npcVars == <<level, source, lastType, left, fsm, memory>>
historyVars == <<exposure, overdue>>
vars == <<busVars, phase, lag, npcVars, historyVars>>

\* a - b, but not below zero.
Minus(a, b) == IF a > b THEN a - b ELSE 0

Active == {e \in DOMAIN sent : ttl[e] > 0}

Init ==
  /\ sent = <<>> /\ ttl = <<>>
  /\ phase = "wait" /\ lag = 0
  /\ level = [n \in Npcs |-> 0]
  /\ source = [n \in Npcs |-> 0]
  /\ lastType = [n \in Npcs |-> None]
  /\ left = [n \in Npcs |-> 0]
  /\ fsm = [n \in Npcs |-> "Idle"]
  /\ memory = [n \in Npcs |-> <<>>]
  /\ exposure = [n \in Npcs |-> 0]
  /\ overdue = [n \in Npcs |-> 0]

-----------------------------------------------------------------------------
(* Clients *)

\* publish_event: a fresh event with the TTL of its type; the client may set the severity.
Publish(type, severity, actor) ==
  /\ Len(sent) < MaxEvents
  /\ sent' = Append(sent, [type |-> type, severity |-> severity, actor |-> actor])
  /\ ttl' = Append(ttl, type.ttl)
  /\ UNCHANGED <<phase, lag, npcVars, historyVars>>

\* remove_npc, then spawn_npc with the same id: a fresh instance stands for n.
Respawn(n) ==
  /\ level' = [level EXCEPT ![n] = 0]
  /\ source' = [source EXCEPT ![n] = 0]
  /\ lastType' = [lastType EXCEPT ![n] = None]
  /\ left' = [left EXCEPT ![n] = 0]
  /\ fsm' = [fsm EXCEPT ![n] = "Idle"]
  /\ memory' = [memory EXCEPT ![n] = <<>>]
  /\ exposure' = [exposure EXCEPT ![n] = 0]
  /\ overdue' = [overdue EXCEPT ![n] = 0]
  /\ UNCHANGED <<busVars, phase, lag>>

-----------------------------------------------------------------------------
(* Perception *)

\* A global event is perceived at its severity everywhere; any other at a strength that
\* depends on the place, 0 when it is out of range or in another zone.
Perceptions ==
  {h \in [Npcs -> [Active -> Strengths \cup Severities]] :
     \A n \in Npcs, e \in Active :
       IF sent[e].type.global THEN h[n][e] = sent[e].severity
       ELSE h[n][e] \in Strengths /\ h[n][e] <= sent[e].severity}

\* Mistake: the sort is ascending, the weakest events are kept.
KeptWeakest(heard) ==
  LET audible == {e \in Active : heard[e] > 0}
  IN  {k \in SUBSET audible :
         /\ Cardinality(k) = IF Cardinality(audible) < Attention THEN Cardinality(audible) ELSE Attention
         /\ \A e \in k, d \in audible \ k : heard[d] >= heard[e]}

\* filterPerception: if more events are perceived than the NPC can attend to, the strongest
\* are kept; among equals any may be (sort.Slice is not stable).
Kept(heard) ==
  LET audible == {e \in Active : heard[e] > 0}
  IN  {k \in SUBSET audible :
         /\ Cardinality(k) = IF Cardinality(audible) < Attention THEN Cardinality(audible) ELSE Attention
         /\ \A e \in k, d \in audible \ k : heard[d] <= heard[e]}

\* The NPCs whose perceptions n shares.
Companions(n) == IF GroupOf[n] = None THEN {n} ELSE {m \in Npcs : GroupOf[m] = GroupOf[n]}

\* Mistake: a pooled event keeps the strength at which each member heard it.
StrengthOwn(heard, kept, n, e) == heard[n][e]

\* shareGroupPerception: all that n's group attends to, each event at its greatest strength.
Pool(heard, kept, n) == UNION {kept[m] : m \in Companions(n)}
Strength(heard, kept, n, e) ==
  CHOOSE s \in {heard[m][e] : m \in {o \in Companions(n) : e \in kept[o]}} :
    \A m \in Companions(n) : e \in kept[m] => heard[m][e] <= s

\* calcThreatScore: an event of the greatest strength; 0 if nothing was perceived.  The
\* members of a group are given one shared slice, so ties fall alike for all of them.
Worst(heard, kept) ==
  {b \in [Npcs -> Active \cup {0}] : \A n \in Npcs :
     /\ IF Pool(heard, kept, n) = {} THEN b[n] = 0
        ELSE /\ b[n] \in Pool(heard, kept, n)
             /\ \A e \in Pool(heard, kept, n) :
                  Strength(heard, kept, n, e) <= Strength(heard, kept, n, b[n])
     /\ \A m \in Companions(n) : b[m] = b[n]}

-----------------------------------------------------------------------------
(* Memory *)

\* Two mistakes: a known target is added again; a reinforced memory keeps its age.
RememberAgain(mem, target, value) ==
  LET rest == IF Len(mem) < Capacity THEN mem ELSE Tail(mem)
  IN  Append(rest, [target |-> target, ttl |-> DecayTime, value |-> value])

RememberAged(mem, target, value) ==
  IF \E k \in DOMAIN mem : mem[k].target = target
  THEN [k \in DOMAIN mem |-> IF mem[k].target = target /\ mem[k].value < value
                             THEN [mem[k] EXCEPT !.value = value] ELSE mem[k]]
  ELSE RememberAgain(mem, target, value)

\* The entries at some of the positions, in order.
Only(mem, positions) ==
  LET upTo[k \in 0 .. Len(mem)] ==
        IF k = 0 THEN <<>>
        ELSE IF k \in positions THEN Append(upTo[k-1], mem[k]) ELSE upTo[k-1]
  IN  upTo[Len(mem)]

\* AddMemory: reinforce the memory of the same target, else put the new one in place of
\* the least recent when the memory is full, else add it.
Remember(mem, target, value) ==
  LET known == {k \in DOMAIN mem : mem[k].target = target}
      rest == IF known # {} \/ Len(mem) < Capacity THEN Only(mem, DOMAIN mem \ known) ELSE Tail(mem)
      values == {value} \cup {mem[k].value : k \in known}
  IN  Append(rest, [target |-> target, ttl |-> DecayTime,
                    value |-> CHOOSE v \in values : \A w \in values : w <= v])

Aged(mem, dt) == [k \in DOMAIN mem |-> [mem[k] EXCEPT !.ttl = Minus(@, dt)]]

\* Mistake: a memory whose time is up stays.
ForgetLate(mem, dt) == Aged(mem, dt)

\* MemoryComponent.Tick
Forget(mem, dt) == Only(Aged(mem, dt), {k \in DOMAIN mem : mem[k].ttl > dt})

-----------------------------------------------------------------------------
(* FSM *)

\* Mistake: Cower does not look at the time.
TransitionsNoExpiry(lv, type, time) ==
  {[from |-> "Idle",    to |-> "Alarmed", priority |-> 10, holds |-> type # None],
   [from |-> "Alarmed", to |-> "Flee",    priority |-> 10, holds |-> lv >= FleeLevel /\ time > 0],
   [from |-> "Alarmed", to |-> "Idle",    priority |-> 5,  holds |-> type = None],
   [from |-> "Flee",    to |-> "Cower",   priority |-> 8,  holds |-> lv >= CowerLevel],
   [from |-> "Flee",    to |-> "Idle",    priority |-> 5,  holds |-> lv < CalmLevel \/ time = 0],
   [from |-> "Cower",   to |-> "Idle",    priority |-> 5,  holds |-> lv < CalmLevel]}

\* configs/fsm/civilian.json over threat_level, last_event_type and the time left.
Transitions(lv, type, time) ==
  {[from |-> "Idle",    to |-> "Alarmed", priority |-> 10, holds |-> type # None],
   [from |-> "Alarmed", to |-> "Flee",    priority |-> 10, holds |-> lv >= FleeLevel /\ time > 0],
   [from |-> "Alarmed", to |-> "Idle",    priority |-> 5,  holds |-> type = None],
   [from |-> "Flee",    to |-> "Cower",   priority |-> 8,  holds |-> lv >= CowerLevel],
   [from |-> "Flee",    to |-> "Idle",    priority |-> 5,  holds |-> lv < CalmLevel \/ time = 0],
   [from |-> "Cower",   to |-> "Idle",    priority |-> 5,  holds |-> lv < CalmLevel \/ time = 0]}

\* FSM.Tick: at most one transition, the first that holds in order of priority.
FsmTick(state, lv, type, time) ==
  LET ready == {t \in Transitions(lv, type, time) : t.from = state /\ t.holds}
  IN  IF ready = {} THEN state
      ELSE (CHOOSE t \in ready : \A u \in ready : u.priority <= t.priority).to

-----------------------------------------------------------------------------
(* Scheduler.Tick *)

\* Bus.Tick: every event ages by the time since the last tick.
TickBus ==
  /\ phase = "wait"
  /\ \E dt \in 1 .. MaxLag :
       /\ lag' = dt
       /\ ttl' = [e \in DOMAIN ttl |-> Minus(ttl[e], dt)]
  /\ phase' = "think"
  /\ UNCHANGED <<sent, npcVars, historyVars>>

\* Mistake: the decay clears the source but not the type.
EvaluateKeepsType(best, s, wall, fading) ==
  /\ level' = [n \in Npcs |-> IF best[n] # 0 THEN s[n] ELSE Minus(level[n], DecayRate * lag)]
  /\ source' = [n \in Npcs |-> IF best[n] # 0 THEN best[n]
                               ELSE IF level'[n] = 0 THEN 0 ELSE source[n]]
  /\ lastType' = [n \in Npcs |-> IF best[n] # 0 THEN sent[best[n]].type.name ELSE lastType[n]]
  /\ left' = [n \in Npcs |-> IF best[n] = 0 THEN Minus(left[n], wall)
                             ELSE IF best[n] \in fading THEN 0 ELSE ttl[best[n]]]

\* Center.Evaluate: the best perceived event, of strength s, replaces the threat.  Its end is
\* noted in whole milliseconds, rounded down: of a fading event, which has less than one to
\* go, nothing is left.  When nothing was perceived the level decays, and at zero the threat
\* is cleared.
Evaluate(best, s, wall, fading) ==
  /\ level' = [n \in Npcs |-> IF best[n] # 0 THEN s[n] ELSE Minus(level[n], DecayRate * lag)]
  /\ source' = [n \in Npcs |-> IF best[n] # 0 THEN best[n]
                               ELSE IF level'[n] = 0 THEN 0 ELSE source[n]]
  /\ lastType' = [n \in Npcs |-> IF best[n] # 0 THEN sent[best[n]].type.name
                                 ELSE IF level'[n] = 0 THEN None ELSE lastType[n]]
  /\ left' = [n \in Npcs |-> IF best[n] = 0 THEN Minus(left[n], wall)
                             ELSE IF best[n] \in fading THEN 0 ELSE ttl[best[n]]]

\* writeThreatMemory, and later in the tick MemoryComponent.Tick.
Memorize(best, s) ==
  memory' = [n \in Npcs |->
    IF best[n] # 0 /\ sent[best[n]].actor # None
    THEN Forget(Remember(memory[n], sent[best[n]].actor, s[n]), lag)
    ELSE Forget(memory[n], lag)]

Severe(e) == sent[e].type.global /\ sent[e].severity >= FleeLevel
Min2(k) == IF k < 2 THEN k ELSE 2

\* The second pass, best being the event each NPC finds worst and s its strength.  The clock
\* advances apart from the tick's dt, and any event in its last unit of time may be fading.
Think(best, s) ==
  \E wall \in 1 .. MaxLag, fading \in SUBSET {e \in Active : ttl[e] = 1} :
    /\ Evaluate(best, s, wall, fading)
    /\ Memorize(best, s)
    /\ fsm' = [n \in Npcs |-> FsmTick(fsm[n], level'[n], lastType'[n], left'[n])]
    /\ exposure' = [n \in Npcs |-> IF (\E e \in Active : Severe(e)) /\ best[n] \notin fading
                                   THEN Min2(exposure[n] + 1) ELSE 0]
    /\ overdue' = [n \in Npcs |-> IF left'[n] = 0 /\ fsm'[n] \in {"Flee", "Cower"}
                                  THEN Min2(overdue[n] + 1) ELSE 0]
    /\ phase' = "wait" /\ lag' = 0
    /\ UNCHANGED busVars

\* Active() and the two passes.
TickThink ==
  /\ phase = "think"
  /\ \E heard \in Perceptions :
       \E kept \in {k \in [Npcs -> SUBSET Active] : \A n \in Npcs : k[n] \in Kept(heard[n])} :
         \E best \in Worst(heard, kept) :
           Think(best, [n \in Npcs |-> IF best[n] = 0 THEN 0 ELSE Strength(heard, kept, n, best[n])])

-----------------------------------------------------------------------------
Next ==
  \/ \E t \in EventTypes, v \in Severities, a \in Actors \cup {None} : Publish(t, v, a)
  \/ \E n \in Npcs : Respawn(n)
  \/ TickBus
  \/ TickThink

Spec == Init /\ [][Next]_vars

\* The scheduler's loop runs for ever; clients owe nothing.
FairSpec == Spec /\ WF_vars(TickBus) /\ WF_vars(TickThink)

-----------------------------------------------------------------------------
(* Properties *)

\* Every variable keeps its type; a memory holds at most Capacity targets, each once.
TypeOK ==
  /\ Len(sent) <= MaxEvents /\ DOMAIN ttl = DOMAIN sent
  /\ \A e \in DOMAIN ttl : ttl[e] \in Nat
  /\ phase \in {"wait", "think"} /\ lag \in 0 .. MaxLag
  /\ level \in [Npcs -> Nat] /\ left \in [Npcs -> Nat]
  /\ source \in [Npcs -> {0} \cup DOMAIN sent]
  /\ fsm \in [Npcs -> {"Idle", "Alarmed", "Flee", "Cower"}]
  /\ \A n \in Npcs :
       /\ Len(memory[n]) <= Capacity
       /\ \A j, k \in DOMAIN memory[n] : memory[n][j].target = memory[n][k].target => j = k

\* An NPC under threat knows what it fears and an NPC without threat has forgotten: level,
\* source and type are set together and cleared together.  A type left behind by the decay
\* would keep the FSM in Alarmed for good, a source left behind would blame a dead event.
ClearedTogether ==
  \A n \in Npcs :
    /\ level[n] = 0 <=> source[n] = 0
    /\ lastType[n] = IF source[n] = 0 THEN None ELSE sent[source[n]].type.name

\* The members of a group that feel a threat feel the same one, equally strongly and for
\* equally long, wherever they stand and whatever each of them can attend to: perceptions
\* are pooled before they are evaluated.  (A member that joined later may feel none yet.)
SharedFate ==
  \A n \in Npcs : \A m \in Companions(n) :
    source[n] # 0 /\ source[m] # 0 =>
      source[m] = source[n] /\ level[m] = level[n] /\ left[m] = left[n]

\* Two ticks of a severe global event put every NPC to flight, whatever it was doing and
\* whatever else it perceives: no weaker event, full attention or ageing threat hides it.
\* What does hide it, for a tick, is a worst event with less than a millisecond to go: the
\* FSM takes the threat for expired although it is perceived, and the count starts again.
PromptFlight == \A n \in Npcs : exposure[n] = 2 => fsm[n] \in {"Flee", "Cower"}

\* Nobody stays in flight from a threat that has expired for more than the one tick that
\* the higher priority of Cower over Idle may cost.
NoStaleFlight == \A n \in Npcs : overdue[n] < 2

\* A memory outlasts the decay of any level; the code leaves that to the configuration.
LongMemory == \A v \in Severities : v <= DecayRate * (DecayTime - MaxLag)

\* While an NPC feels a threat that somebody caused, it remembers that actor, at least as
\* strongly as it feels it: the memory decays later than the level and a full memory gives
\* up its least recent entry.  Holds where LongMemory does.
RemembersThreat ==
  \A n \in Npcs :
    LET a == sent[source[n]].actor
    IN  source[n] # 0 /\ a # None => \E k \in DOMAIN memory[n] :
                                     memory[n][k].target = a /\ memory[n][k].value >= level[n]

\* When no more events come, every NPC calms down for good: idle, without threat or memory.
CalmsDown == <>[](\A n \in Npcs : fsm[n] = "Idle" /\ level[n] = 0 /\ memory[n] = <<>>)
=============================================================================
