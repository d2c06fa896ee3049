-------------------------------- MODULE Brain --------------------------------
(***************************************************************************)
(* What drives an NPC through the second pass of a tick: the decision      *)
(* writes its blackboard, the FSM looks at it, the tree of the FSM's state *)
(* acts on it.  Together with how such a brain is wired from configuration *)
(* and with what a panic in it does to the tick and to the snapshots.      *)
(*                                                                         *)
(* Times on a blackboard are relative to now.  All NPCs are in one group;  *)
(* nobody is removed (Population has that).                                *)
(***************************************************************************)
EXTENDS Trees

CONSTANTS Npcs,
          Templates,  \* name -> [fields, initial, states, transitions, trees]
          Threats,    \* strengths at which an event may be perceived
          ThreatTtl,  \* how long an event lasts, in ticks
          Decay       \* of the threat level in a tick

VARIABLES
  keys,     \* the registered keys
  npc,      \* the instances: [template, state, table, bb]
  phase,    \* Scheduler.Tick: "wait" or "decide"
  order,    \* the NPCs the second pass has still to visit
  turn,     \* the NPC visited last in this tick, Blank for none (history)
  outcome   \* how the last tick, snapshot or query went: "fine" or "panic" (history)

vars == <<keys, npc, phase, order, turn, outcome>>

\* Of the keys that Go code reads or writes with a type, those that matter here.
KeyType ==
  [threat_level |-> "float64", last_event_type |-> "string", threat_expire_at |-> "int64",
   current_time |-> "int64", fsm_state |-> "string", current_action |-> "string",
   group_alert |-> "bool", emotion_dominant_val |-> "float64", npc_pos_x |-> "float64"]

\* What the JSON of a template decodes to.
IsTemplate(t) ==
  /\ DOMAIN t.fields \subseteq Keys /\ \A k \in DOMAIN t.fields : t.fields[k] \in Values
  /\ t.states \in Seq(Strings)
  /\ IsFiniteSet(DOMAIN t.transitions) /\ \A r \in Range(t.transitions) : IsCondition(r.condition)
  /\ \A s \in DOMAIN t.trees : IsTree(t.trees[s])

ASSUME BrainAssumption ==
  /\ IsFiniteSet(Npcs) /\ DOMAIN KeyType \subseteq Keys /\ {Blank, "alarm"} \subseteq Strings
  /\ \A name \in DOMAIN Templates : IsTemplate(Templates[name])
  /\ Threats \subseteq Nat \ {0} /\ ThreatTtl \in Nat /\ Decay \in Nat

NoNpc == [template |-> Blank, state |-> Blank, table |-> <<>>, bb |-> <<>>]
Live == {n \in Npcs : npc[n] # NoNpc}
Of(n) == Templates[npc[n].template]

Init ==
  /\ keys = DOMAIN KeyType
  /\ npc = [n \in Npcs |-> NoNpc]
  /\ phase = "wait" /\ order = <<>> /\ turn = Blank /\ outcome = "fine"

\* Get panics on a value of another type; a missing key reads as the zero value.
Mistyped(bb, key) == Has(bb, key) /\ bb[key].type # KeyType[key]

-----------------------------------------------------------------------------
(* Wiring an NPC *)

\* Mistake: the targets of transitions are not looked up.
FsmValidSources(t, known) ==
  /\ t.states # <<>> /\ Blank \notin Range(t.states) /\ IsInjective(t.states)
  /\ t.initial \in Range(t.states)
  /\ \A k \in DOMAIN t.transitions :
       LET r == t.transitions[k] IN r.from \in Range(t.states) /\ Valid(r.condition, known)

\* NewFSM's checks.
FsmValid(t, known) ==
  /\ t.states # <<>> /\ Blank \notin Range(t.states) /\ IsInjective(t.states)
  /\ t.initial \in Range(t.states)
  /\ \A k \in DOMAIN t.transitions :
       LET r == t.transitions[k]
       IN  {r.from, r.to} \subseteq Range(t.states) /\ Valid(r.condition, known)

\* The orders in which the transitions of a state may end up: sort.Slice leaves ties open.
Orders(t, s) ==
  {o \in SetToSeqs({k \in DOMAIN t.transitions : t.transitions[k].from = s}) :
     \A j, k \in DOMAIN o : j < k => t.transitions[o[j]].priority >= t.transitions[o[k]].priority}

Tables ==
  [name \in DOMAIN Templates |->
     LET t == Templates[name]
         orders == [s \in Range(t.states) |-> Orders(t, s)]
     IN  {table \in [Range(t.states) -> UNION Range(orders)] :
            \A s \in Range(t.states) : table[s] \in orders[s]}]

\* wireBehavior builds the tree of every state named in bt_refs, known to the FSM or not.
Wires(t, known) == FsmValid(t, known) /\ \A s \in DOMAIN t.trees : Builds(t.trees[s], known)

\* The base keys, then the template's fields, which may overwrite them.
Fresh(t) ==
  [k \in Keys |-> IF k \in DOMAIN t.fields THEN t.fields[k]
                  ELSE IF k = "npc_pos_x" THEN Float64(0)
                  ELSE IF k = "current_time" THEN Int64(0)
                  ELSE Absent]

\* NewInstanceFromADMIN.  The fields stay registered when the wiring then fails.
Spawn(n, name) ==
  LET t == Templates[name]
  IN  /\ npc[n] = NoNpc
      /\ keys' = keys \cup DOMAIN t.fields
      /\ IF Wires(t, keys')
         THEN \E table \in Tables[name] :
                npc' = [npc EXCEPT ![n] = [template |-> name, state |-> t.initial, table |-> table,
                                           bb |-> Put(Fresh(t), "fsm_state", Text(t.initial))]]
         ELSE UNCHANGED npc
      /\ UNCHANGED <<phase, order, turn, outcome>>

-----------------------------------------------------------------------------
(* The second pass, for one NPC *)

Minus(a, b) == IF a > b THEN a - b ELSE 0

\* Mistake: the level is written as an integer.
DecideInt(bb, heard) ==
  IF heard # 0
  THEN Put(Put(Put(bb, "threat_level", Int64(heard)), "last_event_type", Text("alarm")),
           "threat_expire_at", Int64(ThreatTtl))
  ELSE bb

\* Center.Evaluate: the threat heard, or the decay of the old one.
Decide(bb, heard) ==
  IF heard # 0
  THEN Put(Put(Put(bb, "threat_level", Float64(heard)), "last_event_type", Text("alarm")),
           "threat_expire_at", Int64(ThreatTtl))
  ELSE IF ~Has(bb, "threat_level") \/ bb["threat_level"].num = 0 THEN bb
  ELSE LET level == Minus(bb["threat_level"].num, Decay)
           decayed == Put(bb, "threat_level", Float64(level))
       IN  IF level = 0 THEN Put(decayed, "last_event_type", Text(Blank)) ELSE decayed

\* What the decision reads with a type: emotion_dominant_val always, threat_level to decay it.
DecisionPanics(bb, heard) ==
  Mistyped(bb, "emotion_dominant_val") \/ (heard = 0 /\ Mistyped(bb, "threat_level"))

\* FSM.Tick: the first transition whose condition holds; there need not be one.
FsmTick(i, bb) ==
  LET rules == Templates[i.template].transitions
      mine == i.table[i.state]
      ready == {k \in DOMAIN mine : Evaluate(rules[mine[k]].condition, bb)}
  IN  IF ready = {} THEN [i EXCEPT !.bb = bb]
      ELSE LET to == rules[mine[Min(ready)]].to
           IN  [i EXCEPT !.state = to, !.bb = Put(bb, "fsm_state", Text(to))]

\* Mistake: the tree is that of the state the NPC was in before.
ActBefore(before, i) ==
  IF before.state \in DOMAIN Templates[i.template].trees
  THEN TickTree(Templates[i.template].trees[before.state], i.bb, keys)
  ELSE Result("success", i.bb)

\* The tree of the FSM's state, if it has one.
Act(before, i) ==
  IF i.state \in DOMAIN Templates[i.template].trees
  THEN TickTree(Templates[i.template].trees[i.state], i.bb, keys)
  ELSE Result("success", i.bb)

-----------------------------------------------------------------------------
(* Scheduler *)

\* Now is current_time; what expires does so a tick sooner.
Ticked(bb) ==
  [k \in Keys |-> IF k = "current_time" THEN Int64(0)
                  ELSE IF k = "threat_expire_at" /\ Has(bb, k) THEN [bb[k] EXCEPT !.num = Minus(@, 1)]
                  ELSE bb[k]]

\* First pass: who takes part, in the arbitrary order of a Go map.
TickBegin ==
  /\ phase = "wait"
  /\ order' \in SetToSeqs(Live)
  /\ npc' = [n \in Npcs |-> IF n \in Live THEN [npc[n] EXCEPT !.bb = Ticked(@)] ELSE NoNpc]
  /\ phase' = "decide" /\ turn' = Blank
  /\ UNCHANGED <<keys, outcome>>

\* Mistake: the panic ends the scheduler's goroutine.
AbortForGood == phase' = "stopped" /\ order' = <<>> /\ turn' = Blank /\ outcome' = "panic"

\* safeTick recovers: the NPCs not yet visited and the group state are left out.
Abort == phase' = "wait" /\ order' = <<>> /\ turn' = Blank /\ outcome' = "panic"
Proceed(n) == order' = Tail(order) /\ turn' = n /\ outcome' = "fine" /\ UNCHANGED phase

\* Decision, FSM, tree, and the position read by movement and SyncPosition.
TickNpc ==
  /\ phase = "decide" /\ order # <<>>
  /\ \E heard \in {0} \cup Threats :
       LET n == Head(order)
           i == FsmTick(npc[n], Decide(npc[n].bb, heard))
           r == Act(npc[n], i)
       IN  IF DecisionPanics(npc[n].bb, heard)
           THEN Abort /\ UNCHANGED npc
           ELSE /\ npc' = [npc EXCEPT ![n] = [i EXCEPT !.bb = r.bb]]
                /\ IF r.status = "panic" \/ Mistyped(r.bb, "npc_pos_x") THEN Abort ELSE Proceed(n)
  /\ UNCHANGED keys

\* propagateGroupState
TickEnd ==
  /\ phase = "decide" /\ order = <<>>
  /\ LET alert == Flag(\E n \in Live : npc[n].state = "Flee")
     IN  npc' = [n \in Npcs |-> IF n \in Live THEN [npc[n] EXCEPT !.bb = Put(@, "group_alert", alert)]
                                ELSE NoNpc]
  /\ phase' = "wait" /\ turn' = Blank
  /\ outcome' = "fine"
  /\ UNCHANGED <<keys, order>>

\* buildSnapshot reads every NPC, query_npc one of them; both recover.
Look(ns) ==
  /\ outcome' = IF \E n \in ns : Mistyped(npc[n].bb, "current_action") \/ Mistyped(npc[n].bb, "threat_level")
                THEN "panic" ELSE "fine"
  /\ UNCHANGED <<keys, npc, phase, order, turn>>

-----------------------------------------------------------------------------
Next ==
  \/ \E n \in Npcs, name \in DOMAIN Templates : Spawn(n, name)
  \/ TickBegin \/ TickNpc \/ TickEnd
  \/ Look(Live) \/ \E n \in Live : Look({n})

\* What the scheduler's actions do to phase and order; no other action changes either.
Begins(o) == phase = "wait" /\ phase' = "decide" /\ order' = o
Goes ==
  \/ \E o \in SetToSeqs(Live) : Begins(o)
  \/ phase = "decide" /\ order # <<>> /\ order' \in {Tail(order), <<>>} /\ phase' \in {"decide", "wait"}
  \/ phase = "decide" /\ order = <<>> /\ phase' = "wait" /\ order' = order
BeginsWith(n) == \E o \in SetToSeqs(Live) : o # <<>> /\ Head(o) = n /\ Begins(o)

\* The scheduler goes on for ever, and iterating over a map in random order puts every NPC
\* first again and again.
Spec ==
  /\ Init /\ [][Next]_vars
  /\ WF_<<phase, order>>(Goes)
  /\ \A n \in Npcs : SF_<<phase, order>>(BeginsWith(n))

-----------------------------------------------------------------------------
(* Properties *)

\* Every NPC is in a state of its FSM, and an NPC whose trees leave fsm_state alone shows
\* that state to the conditions and to debug_npc.
StateKnown ==
  \A n \in Live :
    /\ npc[n].state \in Range(Of(n).states)
    /\ "fsm_state" \notin {w.key : w \in UNION {Setters(Of(n).trees[s]) : s \in DOMAIN Of(n).trees}}
         => npc[n].bb["fsm_state"] = Text(npc[n].state)

\* SetRaw, which panics on an unknown key, is never called with one: whatever was spawned
\* in whatever order, the keys a wired tree writes are registered and stay so.
WritesRegistered ==
  \A n \in Live : \A s \in DOMAIN Of(n).trees : \A w \in Setters(Of(n).trees[s]) : w.key \in keys

\* A template is well typed if no field and no set_bb_value gives a key of the program a
\* value of another type.  Nothing in the code asks for that.
FitsKey(key, value) == key \in DOMAIN KeyType => value.type = KeyType[key]
WellTyped(t) ==
  /\ \A k \in DOMAIN t.fields : FitsKey(k, t.fields[k])
  /\ \A s \in DOMAIN t.trees : \A w \in Setters(t.trees[s]) : FitsKey(w.key, w.value)

\* Among well typed NPCs no tick, snapshot or query panics, whatever their FSMs and trees do.
TypingIsSound == outcome = "panic" => \E n \in Live : ~WellTyped(Of(n))

\* A key that is not there never enables a transition: taking a key away from a blackboard
\* turns no condition from false to true, != and "or" included.
MissingNeverEnables ==
  \A n \in Live : \A r \in Range(Of(n).transitions), gone \in Keys :
    Evaluate(r.condition, Put(npc[n].bb, gone, Absent)) => Evaluate(r.condition, npc[n].bb)

\* The trees that begin by naming an action, as those of the shipped configuration do.
Announces(tree) ==
  /\ Root(tree).type = "sequence" /\ Root(tree).children # <<>>
  /\ LET first == tree[Head(Root(tree).children)]
     IN  first.type = "set_bb_value" /\ first.key = "current_action"

\* The action an NPC shows is one of the tree of the state it shows, if that tree names any:
\* the FSM moves before the tree is chosen and the tree is ticked in the same pass.  A template
\* may bring an action of its own, which stays until a tree names another.
ActionOfState ==
  \A n \in Live :
    npc[n].state \in DOMAIN Of(n).trees /\ "current_action" \notin DOMAIN Of(n).fields =>
      LET tree == Of(n).trees[npc[n].state]
      IN  Announces(tree) /\ Has(npc[n].bb, "current_action") =>
            npc[n].bb["current_action"] \in
              {w.value : w \in {v \in Setters(tree) : v.key = "current_action"}}

\* Every well typed NPC is visited again and again, though an NPC that panics cuts short
\* every tick it takes part in.
EveryoneVisited ==
  \A n \in Npcs : []<>(n \notin Live \/ ~WellTyped(Of(n)) \/ turn = n)
=============================================================================
