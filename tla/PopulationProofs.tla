--------------------------- MODULE PopulationProofs --------------------------
(***************************************************************************)
(* Proofs about Population, for any clients, ids and templates.  What      *)
(* makes a spawn safe although it checks first and adds later is that an   *)
(* id on which no two requests overlapped belongs to one handler at a      *)
(* time: SoleHandler and the pending spawn's claim are inductive together. *)
(***************************************************************************)
EXTENDS Population, DataLemmas

\* What a handler may have left to do.
Jobs ==
  {Idle}
  \cup [step : {"add"}, id : Ids, type : Templates]
  \cup [step : {"register", "unregister"}, id : Ids, inst : Nat]
  \cup [step : {"delete"}, id : Ids]

\* What made records of an instance.
Persons == [id : Ids, group : Groups \cup {""}, role : {"leader", "follower"}]

JobTypes ==
  /\ job \in [Clients -> Jobs]
  /\ registry \in [Ids -> Nat]
  /\ made \in Seq(Persons)

Busy(c) == job[c].step # "idle"

\* Two handlers at work on the same id: the id has been contested.
SoleHandler ==
  \A c, d \in Clients : c # d /\ Busy(c) /\ Busy(d) /\ job[c].id = job[d].id => job[c].id \in contested

\* A spawn that was let through finds its id still free, unless it was contested.
SpawnClaim ==
  \A c \in Clients : job[c].step = "add" /\ job[c].id \notin contested => registry[job[c].id] = 0

ClaimInv == JobTypes /\ SoleHandler /\ SpawnClaim

\* What a job carries follows from its step.
LEMMA JobShape ==
  ASSUME NEW j \in Jobs
  PROVE  /\ j.step # "idle" => j.id \in Ids
         /\ j.step = "add" => j.type \in Templates
         /\ j.step \in {"register", "unregister"} => j.inst \in Nat
<1>1. CASE j = Idle
  BY <1>1 DEF Idle
<1>2. CASE j \in [step : {"add"}, id : Ids, type : Templates]
  BY <1>2
<1>3. CASE j \in [step : {"register", "unregister"}, id : Ids, inst : Nat]
  BY <1>3
<1>4. CASE j \in [step : {"delete"}, id : Ids]
  BY <1>4
<1> QED BY <1>1, <1>2, <1>3, <1>4 DEF Jobs

\* The program starts with no request in progress.
LEMMA InitClaim == Init => ClaimInv
BY DEF Init, ClaimInv, JobTypes, SoleHandler, SpawnClaim, Busy, Jobs, Idle

\* A client's request keeps the claims of the others: if it meets one of them on the same
\* id, the id becomes contested.
LEMMA RequestClaim ==
  ASSUME ClaimInv, NEW c \in Clients, NEW id \in Ids, Request(c, id)
  PROVE  ClaimInv'
<1> USE DEF ClaimInv, Jobs, Idle
<1>1. job[c] = Idle /\ Contest(c, id) /\ registry' = registry /\ made' = made
  BY DEF Request, RemoveGet, SpawnCheck, worldVars
<1>2. PICK j \in Jobs : job' = [job EXCEPT ![c] = j] /\ j.step # "idle" /\ j.id = id
                         /\ (j.step = "add" => registry[id] = 0)
  <2>1. CASE RemoveGet(c, id)
    <3>1. [step |-> "unregister", id |-> id, inst |-> registry[id]] \in Jobs
      BY DEF JobTypes
    <3> QED BY <2>1, <3>1 DEF RemoveGet
  <2>2. CASE \E t \in Templates : SpawnCheck(c, id, t)
    <3>1. PICK t \in Templates : SpawnCheck(c, id, t)
      BY <2>2
    <3>2. [step |-> "add", id |-> id, type |-> t] \in Jobs
      OBVIOUS
    <3> QED BY <3>1, <3>2 DEF SpawnCheck
  <2> QED BY <2>1, <2>2 DEF Request
<1>3. contested \subseteq contested'
  BY <1>1 DEF Contest
<1>4. JobTypes'
  BY <1>1, <1>2 DEF JobTypes
<1>5. SoleHandler'
  <2> SUFFICES ASSUME NEW a \in Clients, NEW b \in Clients, a # b, Busy(a)', Busy(b)',
                      job'[a].id = job'[b].id
               PROVE  job'[a].id \in contested'
    BY DEF SoleHandler
  <2>1. CASE a # c /\ b # c
    BY <2>1, <1>2, <1>3 DEF SoleHandler, Busy, JobTypes
  <2>2. CASE a = c
    BY <2>2, <1>1, <1>2 DEF Contest, Busy, JobTypes
  <2>3. CASE b = c
    BY <2>3, <1>1, <1>2 DEF Contest, Busy, JobTypes
  <2> QED BY <2>1, <2>2, <2>3
<1>6. SpawnClaim'
  BY <1>1, <1>2, <1>3 DEF SpawnClaim, JobTypes
<1> QED BY <1>4, <1>5, <1>6

\* A handler's next step keeps the claims of the others.
LEMMA HandlerClaim ==
  ASSUME ClaimInv, NEW c \in Clients, HandlerStep(c)
  PROVE  ClaimInv'
<1> USE DEF ClaimInv, Idle
<1>1. Busy(c) /\ contested' = contested
  BY DEF HandlerStep, SpawnAdd, SpawnRegister, RemoveUnregister, RemoveDelete, Busy, historyVars, worldVars
<1>2. job[c].id \in Ids /\ (job[c].step = "add" => job[c].type \in Templates)
  <2>1. job[c] \in Jobs
    BY DEF JobTypes
  <2> QED BY <1>1, <2>1, JobShape DEF Busy
<1>3. PICK j \in Jobs : job' = [job EXCEPT ![c] = j] /\ j.step # "add" /\ (j.step # "idle" => j.id = job[c].id)
  <2>1. CASE SpawnAdd(c)
    <3>1. Len(made) + 1 \in Nat
      BY LenProperties DEF JobTypes
    <3>2. [step |-> "register", id |-> job[c].id, inst |-> Len(made) + 1] \in Jobs
      BY <1>2, <3>1 DEF Jobs
    <3> QED BY <2>1, <3>2 DEF SpawnAdd
  <2>2. CASE SpawnRegister(c) \/ RemoveDelete(c)
    <3>1. Idle \in Jobs
      BY DEF Jobs
    <3> QED BY <2>2, <3>1 DEF SpawnRegister, RemoveDelete
  <2>3. CASE RemoveUnregister(c)
    <3>1. [step |-> "delete", id |-> job[c].id] \in Jobs
      BY <1>2 DEF Jobs
    <3>2. job' = [job EXCEPT ![c] = [step |-> "delete", id |-> job[c].id]]
      BY <2>3 DEF RemoveUnregister, JobTypes
    <3> QED BY <3>1, <3>2
  <2> QED BY <2>1, <2>2, <2>3 DEF HandlerStep
<1>4. /\ registry' \in [Ids -> Nat]
      /\ \A id \in Ids \ {job[c].id} : registry'[id] = registry[id]
  <2>1. CASE SpawnAdd(c)
    <3>1. Len(made) + 1 \in Nat
      BY LenProperties DEF JobTypes
    <3> QED BY <1>2, <2>1, <3>1 DEF SpawnAdd, JobTypes
  <2>2. CASE RemoveDelete(c)
    BY <1>2, <2>2 DEF RemoveDelete, JobTypes
  <2>3. CASE SpawnRegister(c) \/ RemoveUnregister(c)
    BY <1>2, <2>3 DEF SpawnRegister, RemoveUnregister, JobTypes
  <2> QED BY <2>1, <2>2, <2>3 DEF HandlerStep
<1>5. made' \in Seq(Persons)
  <2>1. CASE SpawnAdd(c)
    <3>1. job[c].type \in Templates
      BY <1>2, <2>1 DEF SpawnAdd
    <3>2. [id |-> job[c].id, group |-> job[c].type.group, role |-> job[c].type.role]
            \in Persons
      BY <1>2, <3>1, TemplatesAssumption DEF TemplatesAssumption, Persons
    <3>3. made' = Append(made, [id |-> job[c].id, group |-> job[c].type.group, role |-> job[c].type.role])
      BY <2>1 DEF SpawnAdd
    <3> QED BY <3>2, <3>3, AppendProperties DEF JobTypes
  <2>2. CASE SpawnRegister(c) \/ RemoveDelete(c) \/ RemoveUnregister(c)
    BY <2>2 DEF SpawnRegister, RemoveDelete, RemoveUnregister, JobTypes
  <2> QED BY <2>1, <2>2 DEF HandlerStep
<1>6. JobTypes'
  BY <1>3, <1>4, <1>5 DEF JobTypes
<1>7. SoleHandler'
  BY <1>1, <1>3 DEF SoleHandler, Busy, JobTypes
<1>8. SpawnClaim'
  <2> SUFFICES ASSUME NEW d \in Clients, job'[d].step = "add", job'[d].id \notin contested'
               PROVE  registry'[job'[d].id] = 0
    BY DEF SpawnClaim
  <2>1. d # c /\ job'[d] = job[d]
    BY <1>3 DEF JobTypes
  <2>2. job[d].id \in Ids /\ registry[job[d].id] = 0 /\ Busy(d)
    <3>1. job[d] \in Jobs
      BY DEF JobTypes
    <3> QED BY <1>1, <2>1, <3>1, JobShape DEF SpawnClaim, Busy
  <2>3. job[d].id # job[c].id
    BY <1>1, <2>1, <2>2 DEF SoleHandler
  <2> QED BY <1>4, <2>1, <2>2, <2>3
<1> QED BY <1>6, <1>7, <1>8

\* Every step preserves the claims.
LEMMA StepClaim == ClaimInv /\ [Next]_vars => ClaimInv'
<1> SUFFICES ASSUME ClaimInv, [Next]_vars PROVE ClaimInv'
  OBVIOUS
<1>1. CASE UNCHANGED vars
  BY <1>1 DEF vars, worldVars, historyVars, ClaimInv, JobTypes, SoleHandler, SpawnClaim, Busy
<1>2. CASE Next
  BY <1>2, RequestClaim, HandlerClaim DEF Next
<1> QED BY <1>1, <1>2

\* In no execution do two handlers work on an uncontested id, and in none has a pending
\* spawn lost its claim.
THEOREM ClaimsHold == Spec => []ClaimInv
BY InitClaim, StepClaim, PTL DEF Spec

\* A step replaces no NPC on whose id requests never overlapped: spawn_npc adds only where
\* its check, made earlier and under a lock it has released since, still holds.
LEMMA StepReplacesNone ==
  ASSUME ClaimInv, Next, NEW id \in Ids \ contested, registry[id] # 0
  PROVE  registry'[id] \in {0, registry[id]}
<1>1. PICK c \in Clients : HandlerStep(c) \/ \E k \in Ids : Request(c, k)
  BY DEF Next
<1>2. CASE \E k \in Ids : Request(c, k)
  BY <1>2 DEF Request, RemoveGet, SpawnCheck, worldVars
<1>3. CASE SpawnAdd(c)
  <2>1. job[c].id # id
    BY <1>3 DEF SpawnAdd, ClaimInv, SpawnClaim
  <2> QED BY <1>3, <2>1 DEF SpawnAdd, ClaimInv, JobTypes
<1>4. CASE RemoveDelete(c)
  BY <1>4 DEF RemoveDelete, ClaimInv, JobTypes
<1>5. CASE SpawnRegister(c) \/ RemoveUnregister(c)
  BY <1>5 DEF SpawnRegister, RemoveUnregister
<1> QED BY <1>1, <1>2, <1>3, <1>4, <1>5 DEF HandlerStep

\* spawn_npc and remove_npc of any number of clients: an NPC on which requests never
\* overlapped is never replaced, it is removed first.
THEOREM NeverReplacedHolds == Spec => NeverReplacedUncontested
<1>1. ClaimInv /\ [Next]_vars
      => [\A id \in Ids \ contested : registry[id] # 0 => registry'[id] \in {0, registry[id]}]_vars
  BY StepReplacesNone
<1> QED BY <1>1, ClaimsHold, PTL DEF Spec, NeverReplacedUncontested

-----------------------------------------------------------------------------
(* Registry and GroupManager *)

\* No member of the group s carries this id; m tells what the instances are.
NoneIn(m, s, id) == \A k \in 1 .. Len(s) : m[s[k]].id # id

\* Instance i is in the group s once, and nothing else there carries this id.
OnlyIn(m, s, id, i) ==
  \E k \in 1 .. Len(s) : s[k] = i /\ \A l \in 1 .. Len(s) : m[s[l]].id = id <=> l = k

\* The members of a group exist and belong to it.
GroupShape ==
  /\ groups \in [Groups -> Seq(Nat)]
  /\ \A g \in Groups : \A k \in 1 .. Len(groups[g]) :
       groups[g][k] \in 1 .. Len(made) /\ made[groups[g][k]].group = g

\* The instances that the registry and the handlers hold exist and carry the id they are
\* held for.
InstShape ==
  /\ \A id \in Ids : registry[id] # 0 => registry[id] \in 1 .. Len(made) /\ made[registry[id]].id = id
  /\ \A c \in Clients : job[c].step \in {"register", "unregister"} =>
       job[c].inst \in 1 .. Len(made) /\ made[job[c].inst].id = job[c].id

\* A handler's instance is still the registered one, unless its id was contested.
HandlerHolds ==
  \A c \in Clients : job[c].step \in {"register", "unregister"} /\ job[c].id \notin contested =>
    registry[job[c].id] = job[c].inst

\* In the middle of a request: added and not yet in its group, or out of it and not yet deleted.
Between(id) == \E c \in Clients : job[c].step \in {"register", "delete"} /\ job[c].id = id

\* What Coherent says of a settled id, and what is true of one in the middle of a request.
Agreement ==
  \A id \in Ids \ contested, g \in Groups :
    IF ~Between(id) /\ registry[id] # 0 /\ made[registry[id]].group = g
    THEN OnlyIn(made, groups[g], id, registry[id])
    ELSE NoneIn(made, groups[g], id)

GroupInv == ClaimInv /\ GroupShape /\ InstShape /\ HandlerHolds /\ Agreement

\* What makes LeaderLossToldUncontested inductive.
LossInv ==
  /\ Len(made) <= MaxInst
  /\ lost \in [Inst -> BOOLEAN]
  /\ led \subseteq 1 .. Len(made)
  /\ contested = {} =>
       LeaderLossTold /\ \A c \in Clients : job[c].step = "register" => job[c].inst \notin led

\* A new instance changes nothing for the groups of the others.
LEMMA NewInstance ==
  ASSUME NEW m \in Seq(Persons), NEW p \in Persons, NEW s \in Seq(Nat), NEW id, NEW i,
         \A k \in 1 .. Len(s) : s[k] \in 1 .. Len(m)
  PROVE  /\ Len(Append(m, p)) = Len(m) + 1
         /\ \A k \in 1 .. Len(m) : Append(m, p)[k] = m[k]
         /\ Append(m, p)[Len(m) + 1] = p
         /\ NoneIn(m, s, id) => NoneIn(Append(m, p), s, id)
         /\ OnlyIn(m, s, id, i) => OnlyIn(Append(m, p), s, id, i)
<1>1. Len(Append(m, p)) = Len(m) + 1 /\ Append(m, p)[Len(m) + 1] = p
  BY AppendProperties
<1>2. \A k \in 1 .. Len(m) : Append(m, p)[k] = m[k]
  BY AppendProperties, LenProperties
<1>3. \A k \in 1 .. Len(s) : Append(m, p)[s[k]] = m[s[k]]
  BY <1>2
<1> QED BY <1>1, <1>2, <1>3 DEF NoneIn, OnlyIn

\* GroupManager.Register, seen from any id: a new member answers to its own id only.
LEMMA Joined ==
  ASSUME NEW m, NEW s \in Seq(Nat), NEW i \in Nat, NEW id, NEW x
  PROVE  /\ m[i].id = id /\ NoneIn(m, s, id) => OnlyIn(m, Append(s, i), id, i)
         /\ m[i].id # id /\ NoneIn(m, s, id) => NoneIn(m, Append(s, i), id)
         /\ m[i].id # id /\ OnlyIn(m, s, id, x) => OnlyIn(m, Append(s, i), id, x)
<1> DEFINE t == Append(s, i)
           n == Len(s)
<1>1. n \in Nat /\ Len(t) = n + 1 /\ t[n+1] = i /\ \A k \in 1 .. n : t[k] = s[k]
  BY AppendProperties, LenProperties
<1> HIDE DEF t, n
<1>2. ASSUME m[i].id = id, \A k \in 1 .. n : m[s[k]].id # id
      PROVE  OnlyIn(m, t, id, i)
  <2>1. n + 1 \in 1 .. Len(t) /\ \A l \in 1 .. Len(t) : m[t[l]].id = id <=> l = n + 1
    <3> SUFFICES ASSUME NEW l \in 1 .. n + 1 PROVE m[t[l]].id = id <=> l = n + 1
      BY <1>1
    <3>1. CASE l = n + 1
      BY <1>1, <1>2, <3>1
    <3>2. CASE l \in 1 .. n
      BY <1>1, <1>2, <3>2
    <3> QED BY <1>1, <3>1, <3>2
  <2> QED BY <1>1, <2>1 DEF OnlyIn
<1>3. ASSUME m[i].id # id, \A k \in 1 .. n : m[s[k]].id # id
      PROVE  NoneIn(m, t, id)
  <2> SUFFICES ASSUME NEW l \in 1 .. n + 1 PROVE m[t[l]].id # id
    BY <1>1 DEF NoneIn
  <2> QED BY <1>1, <1>3
<1>4. ASSUME m[i].id # id, NEW k \in 1 .. n, s[k] = x, \A l \in 1 .. n : m[s[l]].id = id <=> l = k
      PROVE  OnlyIn(m, t, id, x)
  <2>1. k \in 1 .. Len(t) /\ t[k] = x
    BY <1>1, <1>4
  <2>2. ASSUME NEW l \in 1 .. Len(t) PROVE m[t[l]].id = id <=> l = k
    <3>1. l \in 1 .. n \/ l = n + 1
      BY <1>1
    <3> QED BY <1>1, <1>4, <3>1
  <2> QED BY <2>1, <2>2 DEF OnlyIn
<1> QED BY <1>2, <1>3, <1>4 DEF NoneIn, OnlyIn, t, n

\* Taking out one member, seen from any id: its own id is gone, the others keep their place
\* or move up.
LEMMA Left ==
  ASSUME NEW m, NEW s \in Seq(Nat), NEW j \in 1 .. Len(s), NEW id, NEW x
  PROVE  /\ m[s[j]].id = id /\ OnlyIn(m, s, id, x) => NoneIn(m, RemoveAt(s, j), id)
         /\ NoneIn(m, s, id) => NoneIn(m, RemoveAt(s, j), id)
         /\ m[s[j]].id # id /\ OnlyIn(m, s, id, x) => OnlyIn(m, RemoveAt(s, j), id, x)
<1> DEFINE t == RemoveAt(s, j)
           n == Len(s)
<1>1. n \in Nat /\ j \in 1 .. n /\ Len(t) = n - 1
      /\ \A k \in 1 .. n - 1 : t[k] = IF k < j THEN s[k] ELSE s[k+1]
  BY RemoveAtProperties, LenProperties
<1> HIDE DEF t, n
<1>2. ASSUME \A k \in 1 .. n : m[s[k]].id = id => k = j
      PROVE  NoneIn(m, t, id)
  <2> SUFFICES ASSUME NEW k \in 1 .. n - 1 PROVE m[t[k]].id # id
    BY <1>1 DEF NoneIn
  <2>1. CASE k < j
    BY <1>1, <1>2, <2>1
  <2>2. CASE ~ (k < j)
    <3>1. k + 1 \in 1 .. n /\ k + 1 # j
      BY <1>1, <2>2
    <3> QED BY <1>1, <1>2, <2>2, <3>1
  <2> QED BY <2>1, <2>2
<1>3. ASSUME m[s[j]].id # id, NEW k \in 1 .. n, s[k] = x, \A l \in 1 .. n : m[s[l]].id = id <=> l = k
      PROVE  OnlyIn(m, t, id, x)
  <2> DEFINE p == IF k < j THEN k ELSE k - 1
  <2>1. k # j
    BY <1>1, <1>3
  <2>2. p \in 1 .. n - 1
    BY <1>1, <2>1
  <2>3. t[p] = x
    <3>1. CASE k < j
      BY <1>1, <1>3, <2>2, <3>1
    <3>2. CASE ~ (k < j)
      <4>1. p = k - 1 /\ ~ (p < j) /\ p + 1 = k
        BY <1>1, <2>1, <3>2
      <4> QED BY <1>1, <1>3, <2>2, <4>1
    <3> QED BY <3>1, <3>2
  <2>4. ASSUME NEW l \in 1 .. n - 1 PROVE m[t[l]].id = id <=> l = p
    <3>1. CASE l < j
      <4>1. t[l] = s[l] /\ l \in 1 .. n
        BY <1>1, <3>1
      <4> QED BY <1>1, <1>3, <2>1, <3>1, <4>1
    <3>2. CASE ~ (l < j)
      <4>1. t[l] = s[l+1] /\ l + 1 \in 1 .. n
        BY <1>1, <3>2
      <4> QED BY <1>1, <1>3, <2>1, <3>2, <4>1
    <3> QED BY <3>1, <3>2
  <2> HIDE DEF p
  <2> QED BY <1>1, <2>2, <2>3, <2>4 DEF OnlyIn
<1> QED BY <1>1, <1>2, <1>3 DEF NoneIn, OnlyIn, t, n

\* GroupManager.Unregister takes out the first member that carries the id, if there is one.
LEMMA Unregister ==
  ASSUME ClaimInv, GroupShape, NEW i \in 1 .. Len(made), made[i].group \in Groups,
         NEW s \in Seq(Nat), s = groups[made[i].group]
  PROVE  \/ /\ GroupsWithout(i) = groups
            /\ NoneIn(made, s, made[i].id)
         \/ \E j \in 1 .. Len(s) :
              /\ made[s[j]].id = made[i].id
              /\ GroupsWithout(i) = [groups EXCEPT ![made[i].group] = RemoveAt(s, j)]
<1> DEFINE g == made[i].group
           I == {k \in 1 .. Len(s) : made[s[k]].id = made[i].id}
<1>1. GroupsWithout(i) =
        [groups EXCEPT ![g] = IF I # {} THEN RemoveAt(s, Min(I)) ELSE s]
  BY TemplatesAssumption DEF TemplatesAssumption, GroupsWithout, RemoveFirstMatch, SelectInSeq
<1>2. I \subseteq Nat
  <2>1. Len(s) \in Nat
    BY LenProperties
  <2> QED BY <2>1
<1>3. CASE I = {}
  BY <1>1, <1>3 DEF NoneIn, GroupShape
<1>4. CASE I # {}
  <2>1. Min(I) \in I
    <3> HIDE DEF I
    <3> QED BY <1>2, <1>4, MinMember
  <2>2. Min(I) \in 1 .. Len(s) /\ made[s[Min(I)]].id = made[i].id
    BY <2>1
  <2> QED BY <1>1, <1>4, <2>2
<1> QED BY <1>3, <1>4

\* Groups, registry and handlers start empty.
LEMMA InitGroup == Init => GroupInv
<1> SUFFICES ASSUME Init PROVE GroupInv
  OBVIOUS
<1>1. ClaimInv
  BY InitClaim
<1>2. groups \in [Groups -> Seq(Nat)] /\ \A g \in Groups : Len(groups[g]) = 0
  BY EmptySeq DEF Init
<1>3. \A c \in Clients : job[c].step = "idle"
  BY DEF Init, Idle
<1>4. \A id \in Ids : registry[id] = 0
  BY DEF Init
<1> QED BY <1>1, <1>2, <1>3, <1>4 DEF GroupInv, GroupShape, InstShape, HandlerHolds, Agreement, NoneIn

\* Accepting a request changes neither registry nor groups; remove_npc takes the registered
\* instance with it.
LEMMA RequestGroup ==
  ASSUME GroupInv, NEW c \in Clients, NEW id \in Ids, Request(c, id)
  PROVE  GroupInv'
<1> USE DEF GroupInv
<1>1. ClaimInv'
  BY RequestClaim
<1>2. job[c] = Idle /\ Contest(c, id) /\ registry' = registry /\ made' = made /\ groups' = groups
  BY DEF Request, RemoveGet, SpawnCheck, worldVars
<1>3. contested \subseteq contested'
  BY <1>2 DEF Contest
<1>4. job \in [Clients -> Jobs] /\ \A d \in Clients \ {c} : job'[d] = job[d]
  BY DEF Request, RemoveGet, SpawnCheck, ClaimInv, JobTypes
<1>5. /\ job'[c].step \in {"add", "unregister"}
      /\ job'[c].step = "unregister" =>
           job'[c].id = id /\ job'[c].inst = registry[id] /\ registry[id] # 0
  <2>1. CASE RemoveGet(c, id)
    BY <1>4, <2>1 DEF RemoveGet
  <2>2. CASE \E t \in Templates : SpawnCheck(c, id, t)
    <3>1. PICK t \in Templates : SpawnCheck(c, id, t)
      BY <2>2
    <3> QED BY <1>4, <3>1 DEF SpawnCheck
  <2> QED BY <2>1, <2>2 DEF Request
<1>6. GroupShape' /\ InstShape'
  BY <1>2, <1>4, <1>5 DEF GroupShape, InstShape
<1>7. HandlerHolds'
  BY <1>2, <1>3, <1>4, <1>5 DEF HandlerHolds
<1>8. \A k \in Ids : Between(k)' <=> Between(k)
  BY <1>2, <1>4, <1>5 DEF Between, Idle
<1>9. Agreement'
  BY <1>2, <1>3, <1>8 DEF Agreement
<1> QED BY <1>1, <1>6, <1>7, <1>9

\* A handler's step touches the id of its request and no other uncontested id.
LEMMA HandlerScope ==
  ASSUME ClaimInv, NEW c \in Clients, HandlerStep(c)
  PROVE  /\ Busy(c) /\ job[c].id \in Ids
         /\ contested' = contested
         /\ \A d \in Clients \ {c} : job'[d] = job[d]
         /\ job[c].id \notin contested => \A d \in Clients \ {c} : Busy(d) => job[d].id # job[c].id
<1>1. Busy(c) /\ contested' = contested
  BY DEF HandlerStep, SpawnAdd, SpawnRegister, RemoveUnregister, RemoveDelete, Busy, historyVars, worldVars
<1>2. job[c].id \in Ids
  <2>1. job[c] \in Jobs
    BY DEF ClaimInv, JobTypes
  <2> QED BY <1>1, <2>1, JobShape DEF Busy
<1>3. \A d \in Clients \ {c} : job'[d] = job[d]
  BY DEF HandlerStep, SpawnAdd, SpawnRegister, RemoveUnregister, RemoveDelete, ClaimInv, JobTypes
<1> QED BY <1>1, <1>2, <1>3 DEF ClaimInv, SoleHandler

\* Registry.Add: the id stood for nothing, and so nothing in the groups carries it.
LEMMA AddGroup ==
  ASSUME GroupInv, NEW c \in Clients, SpawnAdd(c)
  PROVE  GroupInv'
<1> USE DEF GroupInv
<1> DEFINE jid == job[c].id
           i == Len(made) + 1
           p == [id |-> jid, group |-> job[c].type.group, role |-> job[c].type.role]
<1>1. /\ jid \in Ids /\ contested' = contested /\ \A d \in Clients \ {c} : job'[d] = job[d]
      /\ jid \notin contested => \A d \in Clients \ {c} : Busy(d) => job[d].id # jid
  BY HandlerScope DEF HandlerStep
<1>2. ClaimInv'
  BY HandlerClaim DEF HandlerStep
<1>3. p \in Persons
  <2>1. job[c] \in Jobs /\ job[c].step = "add"
    BY DEF SpawnAdd, ClaimInv, JobTypes
  <2>2. job[c].type \in Templates
    BY <2>1, JobShape
  <2> QED BY <1>1, <2>2, TemplatesAssumption DEF TemplatesAssumption, Persons
<1>4. /\ made \in Seq(Persons) /\ Len(made) \in Nat /\ made' = Append(made, p)
      /\ groups' = groups
      /\ registry' = [registry EXCEPT ![jid] = i]
      /\ job'[c] = [step |-> "register", id |-> jid, inst |-> i]
  BY LenProperties DEF SpawnAdd, ClaimInv, JobTypes
<1>5. /\ Len(made') = i /\ made'[i] = p /\ \A k \in 1 .. Len(made) : made'[k] = made[k]
      /\ \A g \in Groups, id \in Ids, x \in Nat :
           /\ NoneIn(made, groups[g], id) => NoneIn(made', groups'[g], id)
           /\ OnlyIn(made, groups[g], id, x) => OnlyIn(made', groups'[g], id, x)
  <2>1. Len(made') = i /\ made'[i] = p /\ \A k \in 1 .. Len(made) : made'[k] = made[k]
    BY <1>3, <1>4, NewInstance, EmptySeq
  <2>2. ASSUME NEW g \in Groups, NEW id \in Ids, NEW x \in Nat
        PROVE  /\ NoneIn(made, groups[g], id) => NoneIn(made', groups'[g], id)
               /\ OnlyIn(made, groups[g], id, x) => OnlyIn(made', groups'[g], id, x)
    <3>1. groups[g] \in Seq(Nat) /\ \A k \in 1 .. Len(groups[g]) : groups[g][k] \in 1 .. Len(made)
      BY DEF GroupShape
    <3> QED BY <1>3, <1>4, <3>1, NewInstance
  <2> QED BY <2>1, <2>2
<1> HIDE DEF jid, i, p
<1>6. GroupShape'
  BY <1>4, <1>5 DEF GroupShape, i
<1>7. InstShape'
  <2>1. i \in 1 .. Len(made') /\ made'[i].id = jid /\ 1 .. Len(made) \subseteq 1 .. Len(made')
    BY <1>4, <1>5 DEF i, p
  <2>2. \A id \in Ids : registry'[id] # 0 => registry'[id] \in 1 .. Len(made') /\ made'[registry'[id]].id = id
    BY <1>1, <1>4, <1>5, <2>1 DEF InstShape, ClaimInv, JobTypes
  <2>3. \A d \in Clients : job'[d].step \in {"register", "unregister"} =>
          job'[d].inst \in 1 .. Len(made') /\ made'[job'[d].inst].id = job'[d].id
    BY <1>1, <1>4, <1>5, <2>1 DEF InstShape
  <2> QED BY <2>2, <2>3 DEF InstShape
<1>8. HandlerHolds'
  <2> SUFFICES ASSUME NEW d \in Clients, job'[d].step \in {"register", "unregister"}, job'[d].id \notin contested
               PROVE  registry'[job'[d].id] = job'[d].inst
    BY <1>1 DEF HandlerHolds
  <2>1. CASE d = c
    BY <1>1, <1>4, <2>1 DEF ClaimInv, JobTypes
  <2>2. CASE d # c
    <3>1. job'[d] = job[d] /\ job[d].id # jid
      BY <1>1, <2>2 DEF Busy
    <3> QED BY <1>4, <3>1 DEF HandlerHolds, ClaimInv, JobTypes
  <2> QED BY <2>1, <2>2
<1>9. Agreement'
  <2> SUFFICES ASSUME NEW id \in Ids \ contested, NEW g \in Groups
               PROVE  IF ~Between(id)' /\ registry'[id] # 0 /\ made'[registry'[id]].group = g
                      THEN OnlyIn(made', groups'[g], id, registry'[id])
                      ELSE NoneIn(made', groups'[g], id)
    BY <1>1 DEF Agreement
  <2>1. CASE id = jid
    <3>1. Between(id)'
      BY <1>4, <2>1 DEF Between
    <3>2. registry[id] = 0
      BY <2>1 DEF ClaimInv, SpawnClaim, SpawnAdd, jid
    <3>3. NoneIn(made, groups[g], id)
      BY <3>2 DEF Agreement
    <3> QED BY <1>5, <3>1, <3>3
  <2>2. CASE id # jid
    <3>1. Between(id)' <=> Between(id)
      BY <1>1, <1>4, <2>2 DEF Between, SpawnAdd, jid
    <3>2. registry'[id] = registry[id] /\ registry[id] \in Nat
      BY <1>4, <2>2 DEF ClaimInv, JobTypes
    <3>3. registry[id] # 0 => made'[registry[id]] = made[registry[id]]
      BY <1>5 DEF InstShape
    <3> QED BY <1>5, <3>1, <3>2, <3>3 DEF Agreement
  <2> QED BY <2>1, <2>2
<1> QED BY <1>2, <1>6, <1>7, <1>8, <1>9

\* GroupManager.Register: an uncontested id was in no group, and its instance joins one.
LEMMA RegisterGroup ==
  ASSUME GroupInv, NEW c \in Clients, SpawnRegister(c)
  PROVE  GroupInv'
<1> USE DEF GroupInv
<1> DEFINE jid == job[c].id
           i == job[c].inst
<1>1. /\ jid \in Ids /\ contested' = contested /\ \A d \in Clients \ {c} : job'[d] = job[d]
      /\ jid \notin contested => \A d \in Clients \ {c} : Busy(d) => job[d].id # jid
  BY HandlerScope DEF HandlerStep
<1>2. ClaimInv'
  BY HandlerClaim DEF HandlerStep
<1>3. /\ job[c].step = "register" /\ job'[c] = Idle
      /\ made' = made /\ registry' = registry /\ groups' = GroupsWith(i)
  BY DEF SpawnRegister, ClaimInv, JobTypes
<1>4. i \in 1 .. Len(made) /\ made[i].id = jid /\ i \in Nat
  BY <1>3, LenProperties DEF InstShape, ClaimInv, JobTypes
<1> HIDE DEF jid, i
<1>5. \A g \in Groups : groups'[g] = IF made[i].group = g THEN Append(groups[g], i) ELSE groups[g]
  BY <1>3, TemplatesAssumption DEF TemplatesAssumption, GroupsWith, GroupShape
<1>6. GroupShape'
  <2>1. ASSUME NEW g \in Groups PROVE groups'[g] \in Seq(Nat)
    <3>1. groups[g] \in Seq(Nat)
      BY DEF GroupShape
    <3>2. Append(groups[g], i) \in Seq(Nat)
      BY <1>4, <3>1, AppendProperties
    <3> QED BY <1>5, <3>1, <3>2
  <2>2. DOMAIN groups' = Groups /\ groups' = [g \in Groups |-> groups'[g]]
    BY <1>3 DEF GroupsWith, GroupShape
  <2>3. ASSUME NEW g \in Groups, NEW k \in 1 .. Len(groups'[g])
        PROVE  groups'[g][k] \in 1 .. Len(made) /\ made[groups'[g][k]].group = g
    <3>1. CASE made[i].group = g
      <4>1. groups[g] \in Seq(Nat) /\ groups'[g] = Append(groups[g], i) /\ Len(groups[g]) \in Nat
        BY <1>5, <3>1, LenProperties DEF GroupShape
      <4>2. Len(groups'[g]) = Len(groups[g]) + 1
        BY <1>4, <4>1, AppendProperties
      <4>3. CASE k = Len(groups[g]) + 1
        BY <1>4, <3>1, <4>1, <4>3, AppendProperties
      <4>4. CASE k \in 1 .. Len(groups[g])
        <5>1. groups'[g][k] = groups[g][k]
          BY <1>4, <4>1, <4>4, AppendProperties
        <5> QED BY <4>4, <5>1 DEF GroupShape
      <4> QED BY <4>1, <4>2, <4>3, <4>4
    <3>2. CASE made[i].group # g
      BY <1>5, <3>2 DEF GroupShape
    <3> QED BY <3>1, <3>2
  <2> QED BY <1>3, <2>1, <2>2, <2>3 DEF GroupShape
<1>7. InstShape'
  BY <1>1, <1>3 DEF InstShape, Idle
<1>8. HandlerHolds'
  BY <1>1, <1>3 DEF HandlerHolds, Idle
<1>9. Agreement'
  <2> SUFFICES ASSUME NEW id \in Ids \ contested, NEW g \in Groups
               PROVE  IF ~Between(id)' /\ registry[id] # 0 /\ made[registry[id]].group = g
                      THEN OnlyIn(made, groups'[g], id, registry[id])
                      ELSE NoneIn(made, groups'[g], id)
    BY <1>1, <1>3 DEF Agreement
  <2>0. groups[g] \in Seq(Nat)
    BY DEF GroupShape
  <2>1. CASE id = jid
    <3>1. Between(id) /\ ~Between(id)'
      BY <1>1, <1>3, <2>1 DEF Between, Busy, Idle, jid
    <3>2. NoneIn(made, groups[g], id)
      BY <3>1 DEF Agreement
    <3>3. registry[id] = i /\ i # 0
      BY <1>3, <1>4, <2>1 DEF HandlerHolds, jid, i
    <3> QED BY <1>4, <1>5, <2>0, <2>1, <3>1, <3>2, <3>3, Joined
  <2>2. CASE id # jid
    <3>1. Between(id)' <=> Between(id)
      BY <1>1, <1>3, <2>2 DEF Between, Idle, jid
    <3>2. IF ~Between(id) /\ registry[id] # 0 /\ made[registry[id]].group = g
          THEN OnlyIn(made, groups[g], id, registry[id])
          ELSE NoneIn(made, groups[g], id)
      BY DEF Agreement
    <3>3. made[i].id # id
      BY <1>4, <2>2
    <3> QED BY <1>4, <1>5, <2>0, <3>1, <3>2, <3>3, Joined
  <2> QED BY <2>1, <2>2
<1> QED BY <1>2, <1>6, <1>7, <1>8, <1>9

\* What Unregister leaves of the groups: at most one member is gone, and it carried the id.
LEMMA UnregisterShape ==
  ASSUME ClaimInv, GroupShape, NEW i \in 1 .. Len(made)
  PROVE  /\ GroupsWithout(i) \in [Groups -> Seq(Nat)]
         /\ \A g \in Groups : g # made[i].group => GroupsWithout(i)[g] = groups[g]
         /\ \A g \in Groups : g = made[i].group =>
              \/ GroupsWithout(i)[g] = groups[g] /\ NoneIn(made, groups[g], made[i].id)
              \/ \E j \in 1 .. Len(groups[g]) :
                   /\ made[groups[g][j]].id = made[i].id
                   /\ GroupsWithout(i)[g] = RemoveAt(groups[g], j)
<1>1. CASE made[i].group \notin Groups
  <2>1. i \in 1 .. Len(made) => made[i] \in Persons
    BY ElementOfSeq DEF ClaimInv, JobTypes
  <2>2. made[i].group = ""
    BY <1>1, <2>1 DEF Persons
  <2> QED BY <1>1, <2>2 DEF GroupsWithout, GroupShape
<1>2. CASE made[i].group \in Groups
  <2> DEFINE h == made[i].group
             s == groups[h]
  <2>1. s \in Seq(Nat)
    BY <1>2 DEF GroupShape
  <2>2. \/ GroupsWithout(i) = groups /\ NoneIn(made, s, made[i].id)
        \/ \E j \in 1 .. Len(s) : /\ made[s[j]].id = made[i].id
                                  /\ GroupsWithout(i) = [groups EXCEPT ![h] = RemoveAt(s, j)]
    BY <1>2, <2>1, Unregister
  <2>3. CASE GroupsWithout(i) = groups /\ NoneIn(made, s, made[i].id)
    BY <2>3 DEF GroupShape
  <2>4. ASSUME NEW j \in 1 .. Len(s), made[s[j]].id = made[i].id,
               GroupsWithout(i) = [groups EXCEPT ![h] = RemoveAt(s, j)]
        PROVE  /\ GroupsWithout(i) \in [Groups -> Seq(Nat)]
               /\ \A g \in Groups : g # h => GroupsWithout(i)[g] = groups[g]
               /\ GroupsWithout(i)[h] = RemoveAt(s, j)
    <3>1. RemoveAt(s, j) \in Seq(Nat)
      BY <2>1, RemoveAtProperties
    <3> QED BY <1>2, <2>4, <3>1 DEF GroupShape
  <2> QED BY <2>2, <2>3, <2>4
<1> QED BY <1>1, <1>2

\* GroupManager.Unregister: the registered instance leaves its group, whatever else is in it.
LEMMA UnregisterGroup ==
  ASSUME GroupInv, NEW c \in Clients, RemoveUnregister(c)
  PROVE  GroupInv'
<1> USE DEF GroupInv
<1> DEFINE jid == job[c].id
           i == job[c].inst
<1>1. /\ jid \in Ids /\ contested' = contested /\ \A d \in Clients \ {c} : job'[d] = job[d]
      /\ jid \notin contested => \A d \in Clients \ {c} : Busy(d) => job[d].id # jid
  BY HandlerScope DEF HandlerStep
<1>2. ClaimInv'
  BY HandlerClaim DEF HandlerStep
<1>3. /\ job[c].step = "unregister" /\ job'[c] = [step |-> "delete", id |-> jid]
      /\ made' = made /\ registry' = registry /\ groups' = GroupsWithout(i)
  BY DEF RemoveUnregister, ClaimInv, JobTypes
<1>4. i \in 1 .. Len(made) /\ made[i].id = jid
  BY <1>3 DEF InstShape
<1> HIDE DEF jid, i
<1>5. /\ groups' \in [Groups -> Seq(Nat)]
      /\ \A g \in Groups :
           \/ groups'[g] = groups[g] /\ (made[i].group = g => NoneIn(made, groups[g], jid))
           \/ \E j \in 1 .. Len(groups[g]) :
                made[groups[g][j]].id = jid /\ groups'[g] = RemoveAt(groups[g], j)
  BY <1>3, <1>4, UnregisterShape
<1>6. GroupShape'
  <2> SUFFICES ASSUME NEW g \in Groups, NEW k \in 1 .. Len(groups'[g])
               PROVE  groups'[g][k] \in 1 .. Len(made) /\ made[groups'[g][k]].group = g
    BY <1>3, <1>5 DEF GroupShape
  <2>1. CASE groups'[g] = groups[g]
    BY <2>1 DEF GroupShape
  <2>2. ASSUME NEW j \in 1 .. Len(groups[g]), groups'[g] = RemoveAt(groups[g], j)
        PROVE  groups'[g][k] \in 1 .. Len(made) /\ made[groups'[g][k]].group = g
    <3>1. groups[g] \in Seq(Nat) /\ Len(groups[g]) \in Nat
      BY LenProperties DEF GroupShape
    <3>2. k \in 1 .. Len(groups[g]) - 1 /\ groups'[g][k] = IF k < j THEN groups[g][k] ELSE groups[g][k+1]
      BY <2>2, <3>1, RemoveAtProperties
    <3>3. k \in 1 .. Len(groups[g]) /\ k + 1 \in 1 .. Len(groups[g])
      BY <3>1, <3>2
    <3> QED BY <3>2, <3>3 DEF GroupShape
  <2> QED BY <1>5, <2>1, <2>2
<1>7. InstShape'
  BY <1>1, <1>3 DEF InstShape
<1>8. HandlerHolds'
  BY <1>1, <1>3 DEF HandlerHolds
<1>9. Agreement'
  <2> SUFFICES ASSUME NEW id \in Ids \ contested, NEW g \in Groups
               PROVE  IF ~Between(id)' /\ registry[id] # 0 /\ made[registry[id]].group = g
                      THEN OnlyIn(made, groups'[g], id, registry[id])
                      ELSE NoneIn(made, groups'[g], id)
    BY <1>1, <1>3 DEF Agreement
  <2>0. groups[g] \in Seq(Nat)
    BY DEF GroupShape
  <2>1. IF ~Between(id) /\ registry[id] # 0 /\ made[registry[id]].group = g
        THEN OnlyIn(made, groups[g], id, registry[id])
        ELSE NoneIn(made, groups[g], id)
    BY DEF Agreement
  <2>2. CASE id = jid
    <3>1. ~Between(id) /\ Between(id)'
      BY <1>1, <1>3, <2>2 DEF Between, Busy, jid
    <3>2. registry[id] = i
      BY <1>3, <2>2 DEF HandlerHolds, jid, i
    <3>3. NoneIn(made, groups'[g], id)
      <4>1. CASE groups'[g] = groups[g] /\ (made[i].group = g => NoneIn(made, groups[g], jid))
        BY <2>1, <2>2, <3>1, <3>2, <4>1
      <4>2. ASSUME NEW j \in 1 .. Len(groups[g]), made[groups[g][j]].id = jid,
                   groups'[g] = RemoveAt(groups[g], j)
            PROVE  NoneIn(made, groups'[g], id)
        <5>1. NoneIn(made, groups[g], id) \/ OnlyIn(made, groups[g], id, registry[id])
          BY <2>1
        <5> QED BY <2>0, <2>2, <4>2, <5>1, Left
      <4> QED BY <1>5, <4>1, <4>2
    <3> QED BY <3>1, <3>3
  <2>3. CASE id # jid
    <3>1. Between(id)' <=> Between(id)
      BY <1>1, <1>3, <2>3 DEF Between, jid
    <3>2. CASE groups'[g] = groups[g]
      BY <2>1, <3>1, <3>2
    <3>3. ASSUME NEW j \in 1 .. Len(groups[g]), made[groups[g][j]].id = jid,
                 groups'[g] = RemoveAt(groups[g], j)
          PROVE  /\ NoneIn(made, groups[g], id) => NoneIn(made, groups'[g], id)
                 /\ OnlyIn(made, groups[g], id, registry[id]) => OnlyIn(made, groups'[g], id, registry[id])
      BY <2>0, <2>3, <3>3, Left
    <3> QED BY <1>5, <2>1, <3>1, <3>2, <3>3
  <2> QED BY <2>2, <2>3
<1> QED BY <1>2, <1>6, <1>7, <1>8, <1>9

\* Registry.Remove: the id was in no group any more.
LEMMA DeleteGroup ==
  ASSUME GroupInv, NEW c \in Clients, RemoveDelete(c)
  PROVE  GroupInv'
<1> USE DEF GroupInv
<1> DEFINE jid == job[c].id
<1>1. /\ jid \in Ids /\ contested' = contested /\ \A d \in Clients \ {c} : job'[d] = job[d]
      /\ jid \notin contested => \A d \in Clients \ {c} : Busy(d) => job[d].id # jid
  BY HandlerScope DEF HandlerStep
<1>2. ClaimInv'
  BY HandlerClaim DEF HandlerStep
<1>3. /\ job[c].step = "delete" /\ job'[c] = Idle /\ made' = made /\ groups' = groups
      /\ registry' = [registry EXCEPT ![jid] = 0] /\ registry \in [Ids -> Nat]
  BY DEF RemoveDelete, ClaimInv, JobTypes
<1> HIDE DEF jid
<1>4. GroupShape' /\ InstShape'
  BY <1>1, <1>3 DEF GroupShape, InstShape, Idle
<1>5. HandlerHolds'
  BY <1>1, <1>3 DEF HandlerHolds, Busy, Idle
<1>6. Agreement'
  <2> SUFFICES ASSUME NEW id \in Ids \ contested, NEW g \in Groups
               PROVE  IF ~Between(id)' /\ registry'[id] # 0 /\ made[registry'[id]].group = g
                      THEN OnlyIn(made, groups[g], id, registry'[id])
                      ELSE NoneIn(made, groups[g], id)
    BY <1>1, <1>3 DEF Agreement
  <2>1. CASE id = jid
    <3>1. Between(id) /\ registry'[id] = 0
      BY <1>3, <2>1 DEF Between, jid
    <3> QED BY <3>1 DEF Agreement
  <2>2. CASE id # jid
    <3>1. (Between(id)' <=> Between(id)) /\ registry'[id] = registry[id]
      BY <1>1, <1>3, <2>2 DEF Between, Idle, jid
    <3> QED BY <3>1 DEF Agreement
  <2> QED BY <2>1, <2>2
<1> QED BY <1>2, <1>4, <1>5, <1>6

\* Every step preserves the agreement.
LEMMA StepGroup == GroupInv /\ [Next]_vars => GroupInv'
<1> SUFFICES ASSUME GroupInv, [Next]_vars PROVE GroupInv'
  OBVIOUS
<1>1. CASE UNCHANGED vars
  <2>1. ClaimInv'
    BY StepClaim DEF GroupInv
  <2> QED BY <1>1, <2>1 DEF vars, worldVars, historyVars, GroupInv, GroupShape, InstShape, HandlerHolds,
                            Agreement, Between
<1>2. CASE Next
  BY <1>2, RequestGroup, AddGroup, RegisterGroup, UnregisterGroup, DeleteGroup DEF Next, HandlerStep
<1> QED BY <1>1, <1>2

\* In no execution do the registry and the groups disagree about an uncontested NPC.
THEOREM GroupsHold == Spec => []GroupInv
BY InitGroup, StepGroup, PTL DEF Spec

\* Between requests that is what Coherent says.
LEMMA GroupImpliesCoherent == GroupInv => Coherent
<1> SUFFICES ASSUME GroupInv, NEW id \in Ids \ contested, NEW g \in Groups, Settled(id)
             PROVE  IF registry[id] # 0 /\ made[registry[id]].group = g
                    THEN \E k \in DOMAIN groups[g] : groups[g][k] = registry[id] /\ Members(g, id) = {k}
                    ELSE Members(g, id) = {}
  BY DEF Coherent
<1>1. ~Between(id)
  BY DEF Settled, Between
<1>2. DOMAIN groups[g] = 1 .. Len(groups[g])
  BY LenProperties DEF GroupInv, GroupShape
<1>3. IF registry[id] # 0 /\ made[registry[id]].group = g
      THEN OnlyIn(made, groups[g], id, registry[id])
      ELSE NoneIn(made, groups[g], id)
  BY <1>1 DEF GroupInv, Agreement
<1> QED BY <1>2, <1>3 DEF OnlyIn, NoneIn, Members

\* Registry and GroupManager, any number of clients, ids and groups: an NPC on which requests
\* never overlapped is in its group exactly once while it is registered, and leaves no
\* ghost behind when it is removed.
THEOREM CoherentHolds == Spec => []Coherent
BY GroupsHold, GroupImpliesCoherent, PTL

-----------------------------------------------------------------------------
(* leader_lost *)

\* Taking out one member takes out no other one.
LEMMA OthersStay ==
  ASSUME NEW s \in Seq(Nat), NEW j \in 1 .. Len(s)
  PROVE  /\ \A l \in DOMAIN RemoveAt(s, j) : \E k \in DOMAIN s : k # j /\ RemoveAt(s, j)[l] = s[k]
         /\ \A k \in DOMAIN s : k # j => \E l \in DOMAIN RemoveAt(s, j) : RemoveAt(s, j)[l] = s[k]
<1> DEFINE t == RemoveAt(s, j)
           n == Len(s)
<1>1. /\ n \in Nat /\ j \in 1 .. n /\ DOMAIN s = 1 .. n /\ DOMAIN t = 1 .. n - 1
      /\ \A k \in 1 .. n - 1 : t[k] = IF k < j THEN s[k] ELSE s[k+1]
  <2>1. n \in Nat /\ DOMAIN s = 1 .. n
    BY LenProperties
  <2>2. t \in Seq(Nat) /\ Len(t) = n - 1 /\ \A k \in 1 .. n - 1 : t[k] = IF k < j THEN s[k] ELSE s[k+1]
    BY RemoveAtProperties
  <2>3. DOMAIN t = 1 .. Len(t)
    BY <2>2, LenProperties
  <2> QED BY <2>1, <2>2, <2>3
<1> HIDE DEF t, n
<1>2. ASSUME NEW l \in 1 .. n - 1 PROVE \E k \in 1 .. n : k # j /\ t[l] = s[k]
  <2>1. CASE l < j
    <3>1. l \in 1 .. n /\ l # j /\ t[l] = s[l]
      BY <1>1, <2>1
    <3> QED BY <3>1
  <2>2. CASE ~ (l < j)
    <3>1. l + 1 \in 1 .. n /\ l + 1 # j /\ t[l] = s[l+1]
      BY <1>1, <2>2
    <3> QED BY <3>1
  <2> QED BY <2>1, <2>2
<1>3. ASSUME NEW k \in 1 .. n, k # j PROVE \E l \in 1 .. n - 1 : t[l] = s[k]
  <2>1. CASE k < j
    <3>1. k \in 1 .. n - 1 /\ t[k] = s[k]
      BY <1>1, <2>1
    <3> QED BY <3>1
  <2>2. CASE ~ (k < j)
    <3>1. k - 1 \in 1 .. n - 1 /\ ~ (k - 1 < j) /\ k - 1 + 1 = k
      BY <1>1, <1>3, <2>2
    <3>2. t[k-1] = s[k]
      BY <1>1, <3>1
    <3> QED BY <3>1, <3>2
  <2> QED BY <2>1, <2>2
<1> QED BY <1>1, <1>2, <1>3 DEF t, n

\* Members as a set.
LEMMA MemberIndex ==
  ASSUME GroupShape, NEW g \in Groups, NEW x
  PROVE  /\ x \in ToSet(groups[g]) <=> \E k \in 1 .. Len(groups[g]) : groups[g][k] = x
         /\ x \in ToSet(groups[g]) => x \in 1 .. Len(made) /\ made[x].group = g
<1>1. DOMAIN groups[g] = 1 .. Len(groups[g])
  BY LenProperties DEF GroupShape
<1>2. x \in ToSet(groups[g]) <=> \E k \in 1 .. Len(groups[g]) : groups[g][k] = x
  BY <1>1 DEF ToSet
<1> QED BY <1>2 DEF GroupShape

\* At the start there is no instance.
LEMMA InitLoss == Init => LossInv
<1> SUFFICES ASSUME Init PROVE LossInv
  OBVIOUS
<1>1. Len(made) = 0 /\ led = {} /\ lost \in [Inst -> BOOLEAN] /\ \A c \in Clients : job[c].step = "idle"
  BY EmptySeq DEF Init, Idle
<1>2. LeaderLossTold
  BY <1>1 DEF LeaderLossTold
<1>3. Len(made) <= MaxInst
  <2>1. MaxInst \in Nat
    BY TemplatesAssumption DEF TemplatesAssumption
  <2> QED BY <1>1, <2>1
<1> QED BY <1>1, <1>2, <1>3 DEF LossInv

\* Accepting a request, Registry.Add and Registry.Remove tell nobody anything, and make
\* nobody a member.
LEMMA QuietLoss ==
  ASSUME GroupInv, LossInv, NEW c \in Clients,
         SpawnAdd(c) \/ RemoveDelete(c) \/ \E id \in Ids : Request(c, id)
  PROVE  LossInv'
<1>0. made \in Seq(Persons) /\ Len(made) \in Nat /\ MaxInst \in Nat /\ job \in [Clients -> Jobs]
  BY LenProperties, TemplatesAssumption DEF TemplatesAssumption, GroupInv, ClaimInv, JobTypes
<1>1. groups' = groups /\ lost' = lost /\ led' = led /\ contested \subseteq contested'
  BY DEF SpawnAdd, RemoveDelete, Request, RemoveGet, SpawnCheck, Contest, worldVars, historyVars
<1>2. /\ Len(made) <= Len(made') /\ Len(made') \in Nat /\ Len(made') <= MaxInst
      /\ \A k \in 1 .. Len(made) : made'[k] = made[k]
      /\ \A d \in Clients : job'[d].step = "register" =>
           job'[d] = job[d] \/ job'[d].inst \notin 1 .. Len(made)
  <2>1. CASE SpawnAdd(c)
    <3>1. job[c] \in Jobs /\ job[c].step = "add" /\ Len(made) < MaxInst
      BY <1>0, <2>1 DEF SpawnAdd
    <3>2. [id |-> job[c].id, group |-> job[c].type.group, role |-> job[c].type.role] \in Persons
      BY <3>1, JobShape, TemplatesAssumption DEF TemplatesAssumption, Persons
    <3>3. Len(made') = Len(made) + 1 /\ \A k \in 1 .. Len(made) : made'[k] = made[k]
      BY <1>0, <2>1, <3>2, NewInstance, EmptySeq DEF SpawnAdd
    <3>4. job'[c].inst = Len(made) + 1 /\ \A d \in Clients \ {c} : job'[d] = job[d]
      BY <1>0, <2>1 DEF SpawnAdd
    <3> QED BY <1>0, <3>1, <3>3, <3>4
  <2>2. CASE RemoveDelete(c)
    BY <1>0, <2>2 DEF RemoveDelete, LossInv, Idle
  <2>3. CASE \E id \in Ids : Request(c, id)
    <3>1. PICK id \in Ids : Request(c, id)
      BY <2>3
    <3>2. made' = made
      BY <3>1 DEF Request, RemoveGet, SpawnCheck, worldVars
    <3>3. \A d \in Clients : job'[d] = job[d] \/ job'[d].step # "register"
      BY <1>0, <3>1 DEF Request, RemoveGet, SpawnCheck
    <3> QED BY <1>0, <3>2, <3>3 DEF LossInv
  <2> QED BY <2>1, <2>2, <2>3
<1>3. \A g \in Groups, x \in Nat : x \in ToSet(groups[g]) => made'[x] = made[x]
  BY <1>2, MemberIndex DEF GroupInv
<1>4. \A g \in Groups : HasLeader(groups[g])' <=> HasLeader(groups[g])
  <2> SUFFICES ASSUME NEW g \in Groups
               PROVE  (\E k \in DOMAIN groups[g] : made'[groups[g][k]].role = "leader")
                        <=> \E k \in DOMAIN groups[g] : made[groups[g][k]].role = "leader"
    BY <1>1 DEF HasLeader
  <2>1. DOMAIN groups[g] = 1 .. Len(groups[g])
    BY LenProperties DEF GroupInv, GroupShape
  <2> QED BY <1>2, <2>1 DEF GroupInv, GroupShape
<1>5. LeaderLossTold => LeaderLossTold'
  BY <1>1, <1>4 DEF LeaderLossTold
<1>6. led \subseteq 1 .. Len(made')
  BY <1>0, <1>2 DEF LossInv
<1> QED BY <1>0, <1>1, <1>2, <1>5, <1>6 DEF LossInv

\* A new member has not been led before; if its group has a leader now, nobody in it need
\* have been told.
LEMMA RegisterLoss ==
  ASSUME GroupInv, GroupInv', LossInv, NEW c \in Clients, SpawnRegister(c)
  PROVE  LossInv'
<1> DEFINE i == job[c].inst
<1>1. /\ job[c].step = "register" /\ job'[c] = Idle /\ \A d \in Clients \ {c} : job'[d] = job[d]
      /\ made' = made /\ lost' = lost /\ contested' = contested /\ groups' = GroupsWith(i)
      /\ led' = led \cup UNION {ToSet(groups'[g]) : g \in {h \in Groups : HasLeader(groups'[h])}}
  BY HandlerScope DEF HandlerStep, SpawnRegister, GroupInv, ClaimInv, JobTypes
<1>2. i \in 1 .. Len(made) /\ i \in Nat
  BY <1>1, LenProperties DEF GroupInv, InstShape, ClaimInv, JobTypes
<1> HIDE DEF i
<1>3. \A g \in Groups : groups'[g] = IF made[i].group = g THEN Append(groups[g], i) ELSE groups[g]
  <2>1. groups \in [Groups -> Seq(Nat)] /\ groups' = GroupsWith(i)
    BY <1>1 DEF GroupInv, GroupShape
  <2> QED BY <2>1, TemplatesAssumption DEF TemplatesAssumption, GroupsWith
<1>4. \A g \in Groups : \A x \in ToSet(groups'[g]) : x \in 1 .. Len(made) /\ made[x].group = g
  <2>1. GroupShape'
    BY DEF GroupInv
  <2> SUFFICES ASSUME NEW g \in Groups, NEW x \in ToSet(groups'[g])
               PROVE  x \in 1 .. Len(made) /\ made[x].group = g
    OBVIOUS
  <2>2. DOMAIN groups'[g] = 1 .. Len(groups'[g])
    BY <2>1, LenProperties DEF GroupShape
  <2> QED BY <1>1, <2>1, <2>2 DEF ToSet, GroupShape
<1>5. ASSUME NEW x \in led' PROVE x \in 1 .. Len(made)
  <2>1. x \in led \/ \E g \in Groups : x \in ToSet(groups'[g])
    BY <1>1
  <2> QED BY <1>4, <2>1 DEF LossInv
<1>6. ASSUME contested = {}, NEW g \in Groups, NEW x \in ToSet(groups'[g]), x \in led', ~HasLeader(groups'[g])
      PROVE  lost[x]
  <2>1. x \in led
    BY <1>1, <1>4, <1>6
  <2>2. x # i
    BY <1>1, <1>6, <2>1 DEF LossInv, i
  <2>3. groups[g] \in Seq(Nat)
    BY DEF GroupInv, GroupShape
  <2>4. x \in ToSet(groups[g]) /\ ~HasLeader(groups[g])
    <3>1. CASE made[i].group = g
      <4>1. /\ groups'[g] = Append(groups[g], i) /\ DOMAIN groups[g] = 1 .. Len(groups[g])
            /\ DOMAIN groups'[g] = 1 .. Len(groups[g]) + 1 /\ Len(groups[g]) \in Nat
            /\ groups'[g][Len(groups[g]) + 1] = i
            /\ \A k \in 1 .. Len(groups[g]) : groups'[g][k] = groups[g][k]
        <5>1. groups'[g] = Append(groups[g], i)
          BY <1>3, <3>1
        <5>2. groups'[g] \in Seq(Nat) /\ Len(groups'[g]) = Len(groups[g]) + 1
          BY <1>2, <2>3, <5>1, AppendProperties
        <5>3. DOMAIN groups[g] = 1 .. Len(groups[g]) /\ Len(groups[g]) \in Nat
          BY <2>3, LenProperties
        <5>4. DOMAIN groups'[g] = 1 .. Len(groups[g]) + 1
          BY <5>2, LenProperties
        <5>5. /\ groups'[g][Len(groups[g]) + 1] = i
              /\ \A k \in 1 .. Len(groups[g]) : groups'[g][k] = groups[g][k]
          BY <1>2, <2>3, <5>1, <5>3, AppendProperties
        <5> QED BY <5>1, <5>3, <5>4, <5>5
      <4>2. PICK k \in 1 .. Len(groups[g]) + 1 : groups'[g][k] = x
        BY <4>1 DEF ToSet
      <4>3. k \in 1 .. Len(groups[g])
        BY <2>2, <4>1, <4>2
      <4> QED BY <1>1, <1>6, <4>1, <4>2, <4>3 DEF ToSet, HasLeader
    <3>2. CASE made[i].group # g
      BY <1>1, <1>3, <1>6, <3>2
    <3> QED BY <3>1, <3>2
  <2> QED BY <1>6, <2>1, <2>4 DEF LossInv, LeaderLossTold
<1>7. contested = {} => LeaderLossTold'
  BY <1>1, <1>6 DEF LeaderLossTold, HasLeader
<1>8. ASSUME contested = {}, NEW d \in Clients, job'[d].step = "register"
      PROVE  job'[d].inst \notin led'
  <2>1. d # c /\ job'[d] = job[d]
    BY <1>1, <1>8 DEF Idle
  <2>2. job[d].inst \notin led
    BY <1>8, <2>1 DEF LossInv
  <2>3. job'[d].id \in Ids /\ job'[d].inst \in 1 .. Len(made) /\ made[job'[d].inst].id = job'[d].id
    <3>1. job[d] \in Jobs
      BY DEF GroupInv, ClaimInv, JobTypes
    <3> QED BY <1>8, <2>1, <3>1, JobShape DEF GroupInv, InstShape
  <2>4. ASSUME NEW g \in Groups PROVE job'[d].inst \notin ToSet(groups'[g])
    <3>1. PICK id \in Ids : id = job'[d].id
      BY <2>3
    <3>2. NoneIn(made, groups'[g], id)
      <4>1. Between(id)'
        BY <1>8, <3>1 DEF Between
      <4>2. id \in Ids \ contested'
        BY <1>1, <1>8
      <4> QED BY <1>1, <4>1, <4>2 DEF GroupInv, Agreement
    <3>3. DOMAIN groups'[g] = 1 .. Len(groups'[g])
      BY LenProperties DEF GroupInv, GroupShape
    <3> QED BY <2>3, <3>1, <3>2, <3>3 DEF NoneIn, ToSet
  <2> QED BY <1>1, <2>1, <2>2, <2>4
<1> QED BY <1>1, <1>5, <1>7, <1>8 DEF LossInv

\* When a leader leaves, whoever remains is told; when somebody else leaves, a leader that
\* was there still is.
LEMMA UnregisterLoss ==
  ASSUME GroupInv, GroupInv', LossInv, NEW c \in Clients, RemoveUnregister(c)
  PROVE  LossInv'
<1> DEFINE jid == job[c].id
           i == job[c].inst
<1>1. /\ job[c].step = "unregister" /\ job'[c] = [step |-> "delete", id |-> jid]
      /\ jid \in Ids
      /\ \A d \in Clients \ {c} : job'[d] = job[d]
      /\ jid \notin contested => \A d \in Clients \ {c} : Busy(d) => job[d].id # jid
      /\ made' = made /\ contested' = contested /\ led' = led
      /\ groups' = GroupsWithout(i) /\ lost' = LostWithout(i)
  BY HandlerScope DEF HandlerStep, RemoveUnregister, GroupInv, ClaimInv, JobTypes, historyVars
<1>2. i \in 1 .. Len(made) /\ made[i].id = jid /\ Len(made) \in Nat /\ MaxInst \in Nat
  BY <1>1, LenProperties, TemplatesAssumption
  DEF TemplatesAssumption, GroupInv, InstShape, ClaimInv, JobTypes
<1>3. contested = {} => ~Between(jid) /\ registry[jid] = i
  BY <1>1 DEF Between, Busy, GroupInv, HandlerHolds
<1> HIDE DEF jid, i
<1>4. /\ lost' \in [Inst -> BOOLEAN]
      /\ \A x \in Inst : lost[x] => lost'[x]
      /\ made[i].group # "" /\ made[i].role = "leader" =>
           \A x \in ToSet(groups'[made[i].group]) : x \in Inst => lost'[x]
  BY <1>1 DEF LossInv, LostWithout
<1>5. ASSUME contested = {}, NEW g \in Groups, NEW x \in ToSet(groups'[g]), x \in led, ~HasLeader(groups'[g])
      PROVE  lost'[x]
  <2>1. groups[g] \in Seq(Nat) /\ DOMAIN groups[g] = 1 .. Len(groups[g])
    BY LenProperties DEF GroupInv, GroupShape
  <2>2. x \in Inst
    BY <1>2, <1>5 DEF LossInv, Inst
  <2>3. CASE groups'[g] = groups[g]
    BY <1>1, <1>4, <1>5, <2>2, <2>3 DEF LossInv, LeaderLossTold
  <2>4. CASE groups'[g] # groups[g]
    <3>1. g = made[i].group /\ made[i].group # "" /\ registry[jid] \in Nat
      <4>1. registry[jid] \in Nat
        BY <1>1 DEF GroupInv, ClaimInv, JobTypes
      <4>2. g = made[i].group /\ made[i].group # ""
        BY <1>1, <1>2, <2>4, UnregisterShape, TemplatesAssumption DEF TemplatesAssumption, GroupInv
      <4> QED BY <4>1, <4>2
    <3>2. PICK j \in 1 .. Len(groups[g]) : made[groups[g][j]].id = jid /\ groups'[g] = RemoveAt(groups[g], j)
      BY <1>1, <1>2, <2>4, <3>1, UnregisterShape DEF GroupInv
    <3>3. OnlyIn(made, groups[g], jid, i)
      <4>1. jid \in Ids \ contested /\ ~Between(jid) /\ registry[jid] = i /\ i # 0
        BY <1>1, <1>2, <1>3, <1>5
      <4> QED BY <3>1, <4>1 DEF GroupInv, Agreement
    <3>4. groups[g][j] = i
      BY <3>2, <3>3 DEF OnlyIn
    <3>5. CASE made[i].role = "leader"
      BY <1>4, <1>5, <2>2, <3>1, <3>5
    <3>6. CASE made[i].role # "leader"
      <4>1. x \in ToSet(groups[g])
        BY <2>1, <3>2, OthersStay DEF ToSet
      <4>2. ~HasLeader(groups[g])
        <5> SUFFICES ASSUME NEW k \in DOMAIN groups[g], made[groups[g][k]].role = "leader" PROVE FALSE
          BY DEF HasLeader
        <5>1. k # j
          BY <3>4, <3>6
        <5>2. \E l \in DOMAIN groups'[g] : groups'[g][l] = groups[g][k]
          <6>1. groups[g] \in Seq(Nat) /\ k \in DOMAIN groups[g] /\ j \in 1 .. Len(groups[g])
            BY <2>1, <3>2
          <6>2. \E l \in DOMAIN RemoveAt(groups[g], j) : RemoveAt(groups[g], j)[l] = groups[g][k]
            BY <5>1, <6>1, OthersStay
          <6> QED BY <3>2, <6>2
        <5> QED BY <1>1, <1>5, <5>2 DEF HasLeader
      <4> QED BY <1>4, <1>5, <2>2, <4>1, <4>2 DEF LossInv, LeaderLossTold
    <3> QED BY <3>5, <3>6
  <2> QED BY <2>3, <2>4
<1>6. contested = {} => LeaderLossTold'
  BY <1>1, <1>5 DEF LeaderLossTold, HasLeader
<1>7. \A d \in Clients : job'[d].step = "register" => job'[d] = job[d]
  BY <1>1
<1> QED BY <1>1, <1>4, <1>6, <1>7 DEF LossInv

\* Every step preserves what has been said of leader_lost.
LEMMA StepLoss == GroupInv /\ GroupInv' /\ LossInv /\ [Next]_vars => LossInv'
<1> SUFFICES ASSUME GroupInv, GroupInv', LossInv, [Next]_vars PROVE LossInv'
  OBVIOUS
<1>1. CASE UNCHANGED vars
  BY <1>1 DEF vars, worldVars, historyVars, LossInv, LeaderLossTold, HasLeader
<1>2. CASE Next
  BY <1>2, QuietLoss, RegisterLoss, UnregisterLoss DEF Next, HandlerStep
<1> QED BY <1>1, <1>2

\* remove_npc of a leader, any number of clients, groups and members: while no two requests
\* were ever in progress on one NPC, every member that has had a leader and has none now
\* finds leader_lost on its blackboard.
THEOREM LeaderLossToldHolds == Spec => []LeaderLossToldUncontested
<1>1. LossInv => LeaderLossToldUncontested
  BY DEF LossInv, LeaderLossToldUncontested
<1> QED BY <1>1, GroupsHold, InitLoss, StepLoss, PTL DEF Spec
=============================================================================
