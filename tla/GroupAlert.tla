----------------------------- MODULE GroupAlert -----------------------------
(***************************************************************************)
(* Population together with the scheduler's goroutine: how group_alert     *)
(* follows the flight of a group's members, while clients spawn and remove *)
(* NPCs in the middle of a tick.                                           *)
(*                                                                         *)
(* Of an NPC's behaviour only one thing is kept: whether its FSM is in     *)
(* state Flee.  A tick may bring each NPC it decides for into Flee or out  *)
(* of it.                                                                  *)
(***************************************************************************)
EXTENDS Population

VARIABLES
  alert,      \* group_alert on the blackboard of each instance
  fleeing,    \* instances whose FSM is in Flee
  tick,       \* Scheduler.Tick: "idle", "decide", "groups", "propagate"
  batch,      \* the instances of this tick's first pass
  view        \* AllGroups as copied by propagateGroupState

tickVars == <<alert, fleeing, tick, batch, view>>
allVars == <<vars, tickVars>>

AlertInit ==
  /\ Init
  /\ alert = [i \in Inst |-> FALSE]
  /\ fleeing = {}
  /\ tick = "idle" /\ batch = {}
  /\ view = [g \in Groups |-> <<>>]

-----------------------------------------------------------------------------
(* Scheduler.Tick *)

\* First pass: ForEach holds the registry's lock over the whole iteration.
TickPerceive ==
  /\ tick = "idle"
  /\ batch' = {registry[id] : id \in Ids} \ {0}
  /\ tick' = "decide"
  /\ UNCHANGED <<vars, view, alert, fleeing>>

\* Second pass: the FSM of every NPC of the batch is ticked, those removed meanwhile included.
TickDecide ==
  /\ tick = "decide"
  /\ \E flee \in SUBSET batch : fleeing' = (fleeing \ batch) \cup flee
  /\ tick' = "groups" /\ batch' = {}
  /\ UNCHANGED <<vars, view, alert>>

\* propagateGroupState first copies the groups ...
TickGroups ==
  /\ tick = "groups"
  /\ view' = groups
  /\ tick' = "propagate"
  /\ UNCHANGED <<vars, batch, alert, fleeing>>

\* Mistake: group_alert is only ever raised.
TickPropagateRaises ==
  /\ tick = "propagate"
  /\ alert' = [i \in Inst |-> alert[i] \/
                 \E g \in Groups : i \in ToSet(view[g]) /\ ToSet(view[g]) \cap fleeing # {}]
  /\ tick' = "idle" /\ view' = [g \in Groups |-> <<>>]
  /\ UNCHANGED <<vars, batch, fleeing>>

\* ... then writes group_alert to every member of the copy, the fleeing one included.
TickPropagate ==
  /\ tick = "propagate"
  /\ alert' = [i \in Inst |->
       IF \E g \in Groups : i \in ToSet(view[g])
       THEN \E g \in Groups : i \in ToSet(view[g]) /\ ToSet(view[g]) \cap fleeing # {}
       ELSE alert[i]]
  /\ tick' = "idle" /\ view' = [g \in Groups |-> <<>>]
  /\ UNCHANGED <<vars, batch, fleeing>>

-----------------------------------------------------------------------------
TickStep == TickPerceive \/ TickDecide \/ TickGroups \/ TickPropagate

Requests == \E c \in Clients, id \in Ids : Request(c, id) /\ UNCHANGED tickVars
Handlers(c) == HandlerStep(c) /\ UNCHANGED tickVars

AlertNext == TickStep \/ Requests \/ \E c \in Clients : Handlers(c)

\* The scheduler's loop runs for ever and a handler that began comes to its end (nothing
\* in it blocks); no client has to send anything.
AlertSpec ==
  /\ AlertInit /\ [][AlertNext]_allVars
  /\ WF_allVars(TickStep)
  /\ \A c \in Clients : WF_allVars(Handlers(c))

-----------------------------------------------------------------------------
(* Properties *)

\* Once no registered NPC flees any more, group_alert goes away on every registered member.
NobodyFlees == \A id \in Ids : registry[id] \notin fleeing
NoAlert == \A id \in Ids : registry[id] # 0 => ~alert[registry[id]]
AlertClears == <>[]NobodyFlees => <>[]NoAlert

\* The same where no two requests about one NPC overlapped.
AlertClearsUncontested == [](contested = {}) /\ <>[]NobodyFlees => <>[]NoAlert
=============================================================================
