----------------------------- MODULE Population -----------------------------
(***************************************************************************)
(* The NPC population: the Registry, the GroupManager and the spawn_npc    *)
(* and remove_npc handlers, which run in the goroutine of the client that  *)
(* sent the request.                                                       *)
(*                                                                         *)
(* Registry and GroupManager each have a lock; a handler takes one at a    *)
(* time and never both, so every locked section is an action and requests  *)
(* of several clients interleave between them.                             *)
(*                                                                         *)
(* An instance is a number; made[i] says what it is.  Of its components    *)
(* only the social one matters here.                                       *)
(***************************************************************************)
EXTENDS Naturals, Sequences, SequencesExt

CONSTANTS Clients,    \* connections, each with one request at a time
          Ids,        \* NPC ids
          Groups,     \* non-empty group ids
          Templates,  \* NPC types: records [group, role]; group "" means none
          MaxInst     \* bound: instances ever created

ASSUME TemplatesAssumption ==
  /\ MaxInst \in Nat /\ "" \notin Groups
  /\ \A t \in Templates : t.group \in Groups \cup {""} /\ t.role \in {"leader", "follower"}

VARIABLES
  made,       \* made[i]: id, group and role of instance i (its social component)
  registry,   \* Registry.npcs: the instance of each id, 0 if there is none
  groups,     \* GroupManager.groups: members of each group in order of registration
  lost,       \* leader_lost on the blackboard of each instance
  job,        \* what each client's handler still has to do
  contested,  \* ids on which two requests were in progress at once (history)
  led         \* instances that have been in a group together with a leader (history)

worldVars == <<made, registry, groups, lost>>
historyVars == <<contested, led>>
vars == <<worldVars, job, historyVars>>

Inst == 1 .. MaxInst
Idle == [step |-> "idle"]

Init ==
  /\ made = <<>>
  /\ registry = [id \in Ids |-> 0]
  /\ groups = [g \in Groups |-> <<>>]
  /\ lost = [i \in Inst |-> FALSE]
  /\ job = [c \in Clients |-> Idle]
  /\ contested = {} /\ led = {}

-----------------------------------------------------------------------------
(* GroupManager *)

\* GetLeader: the group has a member whose role is leader.
HasLeader(members) == \E k \in DOMAIN members : made[members[k]].role = "leader"

\* Register: a member whose group id is empty joins nothing.
GroupsWith(i) ==
  IF made[i].group = "" THEN groups ELSE [groups EXCEPT ![made[i].group] = Append(@, i)]

\* Unregister looks for the id, not for the instance, and stops at the first match.
GroupsWithout(i) ==
  IF made[i].group = "" THEN groups
  ELSE [groups EXCEPT ![made[i].group] = RemoveFirstMatch(@, LAMBDA m : made[m].id = made[i].id)]

\* Mistake: only the newest member is told.
LostWithoutLastOnly(i) ==
  IF made[i].group # "" /\ made[i].role = "leader" /\ groups[made[i].group] # <<>>
  THEN [lost EXCEPT ![Last(groups[made[i].group])] = TRUE]
  ELSE lost

\* When the departing NPC is a leader, every remaining member is told, whatever its role.
LostWithout(i) ==
  IF made[i].group # "" /\ made[i].role = "leader"
  THEN LET rest == GroupsWithout(i)[made[i].group]
       IN  [j \in Inst |-> lost[j] \/ j \in ToSet(rest)]
  ELSE lost

-----------------------------------------------------------------------------
(* The handlers *)

\* Two requests about the same id are in progress.
Contest(c, id) ==
  contested' = IF \E d \in Clients \ {c} : job[d].step # "idle" /\ job[d].id = id
               THEN contested \cup {id} ELSE contested

\* Mistake: the id is not looked up.
SpawnCheckNothing(c, id, t) ==
  /\ job[c] = Idle
  /\ job' = [job EXCEPT ![c] = [step |-> "add", id |-> id, type |-> t]]
  /\ Contest(c, id)
  /\ UNCHANGED <<worldVars, led>>

\* spawn_npc: Registry.Get finds nobody, the template loads and the instance is built.
\* The instance is still private to the handler.
SpawnCheck(c, id, t) ==
  /\ job[c] = Idle
  /\ registry[id] = 0
  /\ job' = [job EXCEPT ![c] = [step |-> "add", id |-> id, type |-> t]]
  /\ Contest(c, id)
  /\ UNCHANGED <<worldVars, led>>

\* Registry.Add replaces whatever the id stood for.
SpawnAdd(c) ==
  /\ job[c].step = "add"
  /\ Len(made) < MaxInst
  /\ LET i == Len(made) + 1
         id == job[c].id
     IN  /\ made' = Append(made, [id |-> id, group |-> job[c].type.group, role |-> job[c].type.role])
         /\ registry' = [registry EXCEPT ![id] = i]
         /\ job' = [job EXCEPT ![c] = [step |-> "register", id |-> id, inst |-> i]]
  /\ UNCHANGED <<groups, lost, historyVars>>

\* GroupManager.Register, then the response.
SpawnRegister(c) ==
  /\ job[c].step = "register"
  /\ groups' = GroupsWith(job[c].inst)
  /\ led' = led \cup UNION {ToSet(groups'[g]) : g \in {h \in Groups : HasLeader(groups'[h])}}
  /\ job' = [job EXCEPT ![c] = Idle]
  /\ UNCHANGED <<made, registry, lost, contested>>

\* remove_npc: Registry.Get finds the instance.
RemoveGet(c, id) ==
  /\ job[c] = Idle
  /\ registry[id] # 0
  /\ job' = [job EXCEPT ![c] = [step |-> "unregister", id |-> id, inst |-> registry[id]]]
  /\ Contest(c, id)
  /\ UNCHANGED <<worldVars, led>>

\* Mistake: the registry entry is deleted without telling the GroupManager.
RemoveUnregisterNot(c) ==
  /\ job[c].step = "unregister"
  /\ job' = [job EXCEPT ![c] = [step |-> "delete", id |-> @.id]]
  /\ UNCHANGED <<worldVars, historyVars>>

RemoveUnregister(c) ==
  /\ job[c].step = "unregister"
  /\ groups' = GroupsWithout(job[c].inst)
  /\ lost' = LostWithout(job[c].inst)
  /\ job' = [job EXCEPT ![c] = [step |-> "delete", id |-> @.id]]
  /\ UNCHANGED <<made, registry, historyVars>>

\* Registry.Remove deletes the id's present entry, then the response.
RemoveDelete(c) ==
  /\ job[c].step = "delete"
  /\ registry' = [registry EXCEPT ![job[c].id] = 0]
  /\ job' = [job EXCEPT ![c] = Idle]
  /\ UNCHANGED <<made, groups, lost, historyVars>>

-----------------------------------------------------------------------------
\* What a handler does after it has accepted its request.
HandlerStep(c) == SpawnAdd(c) \/ SpawnRegister(c) \/ RemoveUnregister(c) \/ RemoveDelete(c)

Request(c, id) == RemoveGet(c, id) \/ \E t \in Templates : SpawnCheck(c, id, t)

Next ==
  \E c \in Clients : HandlerStep(c) \/ \E id \in Ids : Request(c, id)

Spec == Init /\ [][Next]_vars

-----------------------------------------------------------------------------
(* Properties *)

\* No handler is working on this NPC.
Settled(id) == \A c \in Clients : job[c].step = "idle" \/ job[c].id # id

\* Members of g that carry this id.
Members(g, id) == {k \in DOMAIN groups[g] : made[groups[g][k]].id = id}

\* Registry and GroupManager agree about every NPC on which requests never overlapped,
\* whatever other clients do to other NPCs of the same group: the registered instance is
\* in its group exactly once and nothing else answers to its id; a removed NPC leaves
\* no ghost behind.  The two structures have separate locks and are updated one after the
\* other, so nothing but the order of the handlers' calls keeps them together.
Coherent ==
  \A id \in Ids \ contested, g \in Groups : Settled(id) =>
    LET i == registry[id]
    IN  IF i # 0 /\ made[i].group = g
        THEN \E k \in DOMAIN groups[g] : groups[g][k] = i /\ Members(g, id) = {k}
        ELSE Members(g, id) = {}

\* A member that has had a leader and has none now, has leader_lost on its blackboard.
LeaderLossTold ==
  \A g \in Groups : \A i \in ToSet(groups[g]) :
    i \in led /\ ~HasLeader(groups[g]) => lost[i]

\* The same where no two requests about one NPC overlapped.
LeaderLossToldUncontested == contested = {} => LeaderLossTold

\* An NPC on which requests never overlapped is never replaced by another one of the same
\* id: it is removed first, although spawn_npc looks the id up under one lock and adds it
\* under another.
NeverReplacedUncontested ==
  [][\A id \in Ids \ contested : registry[id] # 0 => registry'[id] \in {0, registry[id]}]_vars
=============================================================================
