------------------------------- MODULE Startup -------------------------------
(***************************************************************************)
(* cmd/server from its start until it serves, and the NPCs that clients    *)
(* spawn from then on, beside a cmd/sync that may be writing the           *)
(* directory the server reads.                                             *)
(*                                                                         *)
(* Of an FSM or a tree there is whether it is sound in itself and which    *)
(* keys it needs registered (Brain has the rest); of a template what       *)
(* NewInstanceFromADMIN looks at; of a region its spawn table.             *)
(***************************************************************************)
EXTENDS ConfigSync

CONSTANTS Sources,   \* the kinds of configuration source: "http", "mongo", "json"
          BaseKeys   \* the keys registered by the program

VARIABLES
  kind,      \* the source in use
  stage,     \* where main is: "off", "fetch", "events", "regions", "zones", "templates", "serving"
  left,      \* the categories still to fetch into memory
  memory,    \* what HTTPSource or MongoSource keep
  zones,     \* the region documents still to open, by name
  tasks,     \* what Zone.Spawn of the open zone has still to create: [zone, template, row, i]
  todo,      \* the template documents spawnFromADMINTemplates has still to take, by name
  count,     \* its idx
  keys,      \* the registered blackboard keys
  registry,  \* npc.Registry: id -> instance
  groups,    \* the members of the GroupManager
  members,   \* region id -> the ids its Zone has recorded
  stable     \* no file was written since main began to read the directory (history)

server == <<stage, left, memory, zones, tasks, todo, count, keys, registry, groups, members>>
vars == <<syncVars, kind, stable, server>>

-----------------------------------------------------------------------------
(* Sources *)

EmptyStore == [c \in Categories |-> <<>>]

\* The endpoints of HTTPSource and the collections of MongoSource, in the order of loading.
Endpoints ==
  IF kind = "http" THEN <<"event_types", "fsm_configs", "bt_trees", "npc_templates", "regions">>
  ELSE IF kind = "mongo" THEN <<"event_types", "npc_types", "fsm_configs", "bt_trees", "npc_templates">>
  ELSE <<>>

MayBeEmpty(category) == kind = "http" /\ category = "regions"
Optional(category) == kind = "mongo" /\ category = "npc_templates"

\* Mistake: ADMIN is asked anew at every call.
StoreRemote == IF kind = "json" THEN disk ELSE admin

\* JSONSource reads the files anew at every call, the others answer from memory.
Store == IF kind = "json" THEN disk ELSE memory

\* Load*: there is such a document and it is JSON.
Loads(category, name) == name \in DOMAIN Store[category] /\ Store[category][name] # Torn

\* LoadAll*: of the files of a directory all must be JSON.
LoadsAll(category) == kind = "json" => Torn \notin {Store[category][n] : n \in DOMAIN Store[category]}

-----------------------------------------------------------------------------
(* Creating an NPC *)

\* ParseADMINTemplate
Parses(t) == t.fsm # <<>>

\* What NewFSM and BuildFromJSON ask of a document.
Accepts(d, known) == d.sound /\ d.uses \subseteq known

\* The component factories, then wireBehavior.
Wires(t, known) ==
  /\ t.sound /\ t.trees # {}
  /\ Loads("fsm_configs", t.fsm) /\ Accepts(Store["fsm_configs"][t.fsm], known)
  /\ \A b \in t.trees : Loads("bt_trees", b) /\ Accepts(Store["bt_trees"][b], known)

Creates(t) == Parses(t) /\ Wires(t, keys \cup t.fields)

\* SetDynamic registers the fields before anything of the NPC is built.
KeysAfter(t) == IF Parses(t) THEN keys \cup t.fields ELSE keys

Instance(template, t, by) ==
  [template |-> template, memory |-> t.memory, emotion |-> t.emotion, group |-> t.group, by |-> by]

\* Registry.Add: an instance of the same id is replaced.
Added(id, i) == [x \in DOMAIN registry \cup {id} |-> IF x = id THEN i ELSE registry[x]]

\* GroupManager.Register
Grouped(id, i) == IF i.group = "" THEN groups ELSE groups \cup {[id |-> id, group |-> i.group]}

\* The id fmt.Sprintf makes: the words of the name, then a number.  The name of a zone's NPCs is
\* the zone's id and the template's name, so it may be the name of another template.
Id(name, n) == [name |-> name, index |-> n]
ClientId == Id(<<"client">>, 0)

-----------------------------------------------------------------------------
(* main *)

Cleared(s) ==
  /\ stage' = s
  /\ left' = <<>> /\ memory' = EmptyStore /\ zones' = <<>> /\ tasks' = {} /\ todo' = <<>>
  /\ count' = 0 /\ registry' = <<>> /\ groups' = {} /\ members' = <<>>
  /\ keys' = BaseKeys

Init ==
  /\ SyncInit
  /\ kind \in Sources /\ stable = TRUE
  /\ stage = "off"
  /\ left = <<>> /\ memory = EmptyStore /\ zones = <<>> /\ tasks = {} /\ todo = <<>>
  /\ count = 0 /\ registry = <<>> /\ groups = {} /\ members = <<>>
  /\ keys = BaseKeys

Exit == Cleared("off")

\* The server is started, or started again after it exited.
Start ==
  /\ stage = "off"
  /\ stage' = IF kind = "json" THEN "events" ELSE "fetch"
  /\ left' = Endpoints /\ stable' = TRUE
  /\ UNCHANGED <<syncVars, kind, memory, zones, tasks, todo, count, keys, registry, groups, members>>

\* One request: all of a category, or an error; an empty answer is an error too.  A collection
\* that fails keeps what was decoded before.
Fetch ==
  /\ stage = "fetch" /\ left # <<>>
  /\ LET category == Head(left)
         proceed == left' = Tail(left) /\ stage' = IF Len(left) = 1 THEN "events" ELSE "fetch"
         rest == UNCHANGED <<zones, tasks, todo, count, keys, registry, groups, members>>
     IN  \/ /\ kind = "http" => Answers(category)
            /\ MayBeEmpty(category) \/ admin[category] # <<>>
            /\ memory' = [memory EXCEPT ![category] = admin[category]]
            /\ proceed /\ rest
         \/ /\ Optional(category)
            /\ \E part \in SUBSET DOMAIN admin[category] :
                 memory' = [memory EXCEPT ![category] = [n \in part |-> admin[category][n]]]
            /\ proceed /\ rest
         \/ ~Optional(category) /\ Exit
  /\ UNCHANGED <<syncVars, kind, stable>>

\* loadAllEventTypes: a missing directory, a file that is no JSON or one that does not parse ends
\* the program.
LoadEvents ==
  /\ stage = "events"
  /\ LET events == Store["event_types"]
     IN  IF /\ kind = "json" => events # <<>>
            /\ LoadsAll("event_types")
            /\ \A n \in DOMAIN events : events[n].parses
         THEN stage' = "regions" /\ UNCHANGED <<left, memory, zones, tasks, todo, count, keys, registry, groups, members>>
         ELSE Exit
  /\ UNCHANGED <<syncVars, kind, stable>>

\* An error is only a warning.  MongoSource has no regions.
LoadRegions ==
  /\ stage = "regions" /\ stage' = "zones"
  /\ zones' = IF LoadsAll("regions") THEN Store["regions"] ELSE <<>>
  /\ UNCHANGED <<syncVars, kind, stable, left, memory, tasks, todo, count, keys, registry, groups, members>>

Without(f, x) == [n \in DOMAIN f \ {x} |-> f[n]]

\* Row by row, count times each; an entry without spawn points is skipped.
Tasks(region) ==
  UNION {{[zone |-> region.id, template |-> region.table[r].template, row |-> r, i |-> i] :
            i \in {j \in 0 .. region.table[r].count - 1 : region.table[r].points # 0}} :
         r \in DOMAIN region.table}

Earlier(t, u) == t.row < u.row \/ (t.row = u.row /\ t.i < u.i)
TaskId(task) == Id(task.zone \o task.template, task.i)

\* The next region, in the arbitrary order of a map: AddZone, then Zone.Spawn begins.
OpenZone ==
  /\ stage = "zones" /\ tasks = {}
  /\ \E name \in DOMAIN zones :
       LET region == zones[name]
       IN  /\ zones' = Without(zones, name)
           /\ IF region.parses
              THEN /\ tasks' = Tasks(region)
                   /\ members' = [z \in DOMAIN members \cup {region.id} |->
                                    IF z = region.id THEN {} ELSE members[z]]
              ELSE UNCHANGED <<tasks, members>>
  /\ UNCHANGED <<syncVars, kind, stable, stage, left, memory, todo, count, keys, registry, groups>>

\* Mistake: the bad entry is tried again.
GiveUpNever == UNCHANGED tasks

\* Zone.Spawn returns at the first template that cannot be loaded, parsed or built.
GiveUp == tasks' = {}

SpawnInZone ==
  /\ stage = "zones"
  /\ \E task \in tasks :
       LET t == Store["npc_templates"][task.template]
           i == Instance(task.template, t, "zone")
           loaded == Loads("npc_templates", task.template)
       IN  /\ \A other \in tasks \ {task} : Earlier(task, other)
           /\ keys' = IF loaded THEN KeysAfter(t) ELSE keys
           /\ IF loaded /\ Creates(t)
              THEN /\ registry' = Added(TaskId(task), i)
                   /\ groups' = Grouped(TaskId(task), i)
                   /\ members' = [members EXCEPT ![task.zone] = @ \cup {TaskId(task)}]
                   /\ tasks' = tasks \ {task}
              ELSE GiveUp /\ UNCHANGED <<registry, groups, members>>
  /\ UNCHANGED <<syncVars, kind, stable, stage, left, memory, zones, todo, count>>

\* spawnFromADMINTemplates takes all templates at once; an error is only a warning.
LoadTemplates ==
  /\ stage = "zones" /\ tasks = {} /\ DOMAIN zones = {} /\ stage' = "templates"
  /\ todo' = IF LoadsAll("npc_templates") THEN Store["npc_templates"] ELSE <<>>
  /\ UNCHANGED <<syncVars, kind, stable, left, memory, zones, tasks, count, keys, registry, groups, members>>

\* Mistake: the first template that fails ends the loop.
SkipAll(name) == todo' = <<>>

\* A template that fails is skipped.
Skip(name) == todo' = Without(todo, name)

\* One NPC of every template, in the arbitrary order of a map, in no group.
SpawnTemplate ==
  /\ stage = "templates"
  /\ \E name \in DOMAIN todo :
       LET t == todo[name]
       IN  /\ keys' = KeysAfter(t)
           /\ IF Creates(t)
              THEN /\ registry' = Added(Id(name, count), Instance(name, t, "template"))
                   /\ count' = count + 1 /\ todo' = Without(todo, name)
              ELSE Skip(name) /\ UNCHANGED <<registry, count>>
  /\ UNCHANGED <<syncVars, kind, stable, stage, left, memory, zones, tasks, groups, members>>

Violates(i) == i.emotion /\ ~i.memory

\* Mistake: only the NPCs of the templates are looked at.
OffendersInTemplates == {id \in DOMAIN registry : registry[id].by = "template" /\ Violates(registry[id])}

\* validateCascadeDependencies goes over the registry.
Offenders == {id \in DOMAIN registry : Violates(registry[id])}

Serve ==
  /\ stage = "templates" /\ DOMAIN todo = {}
  /\ IF Offenders = {}
     THEN stage' = "serving" /\ UNCHANGED <<left, memory, zones, tasks, todo, count, keys, registry, groups, members>>
     ELSE Exit
  /\ UNCHANGED <<syncVars, kind, stable>>

\* spawn_npc, for one id of a client's.
ClientSpawn(name) ==
  /\ stage = "serving" /\ ClientId \notin DOMAIN registry
  /\ Loads("npc_templates", name)
  /\ LET t == Store["npc_templates"][name]
         i == Instance(name, t, "client")
     IN  /\ keys' = KeysAfter(t)
         /\ IF Creates(t)
            THEN registry' = Added(ClientId, i) /\ groups' = Grouped(ClientId, i)
            ELSE UNCHANGED <<registry, groups>>
  /\ UNCHANGED <<syncVars, kind, stable, stage, left, memory, zones, tasks, todo, count, members>>

-----------------------------------------------------------------------------
Boot == \/ Fetch \/ LoadEvents \/ LoadRegions \/ OpenZone \/ SpawnInZone
        \/ LoadTemplates \/ SpawnTemplate \/ Serve

\* cmd/sync matters to a server that reads the directory only.
Copy ==
  /\ kind = "json" /\ SyncNext
  /\ stable' = (stable /\ disk' = disk)
  /\ UNCHANGED <<kind, server>>

Edit == AdminEdit(sync.at # 0 \/ stage = "fetch") /\ UNCHANGED <<kind, stable, server>>

Next ==
  \/ Start \/ Boot \/ Copy \/ Edit
  \/ \E name \in DOMAIN Store["npc_templates"] : ClientSpawn(name)

\* main goes on until it serves or exits: every request has a timeout.
Spec == Init /\ [][Next]_vars /\ WF_vars(Boot)

-----------------------------------------------------------------------------
(* Properties *)

\* Once the server serves, no NPC that the program created by itself feels without remembering,
\* whichever way it was created and whatever it replaced.
BootCascade ==
  stage = "serving" => \A id \in DOMAIN registry : registry[id].by # "client" => ~Violates(registry[id])

\* A template that needs no other template's fields.
Independent(t) == t # Torn /\ Parses(t) /\ Wires(t, BaseKeys \cup t.fields)

\* A region that parses and all of whose templates need no other's fields.
SoundRegion(region) ==
  /\ region.parses
  /\ \A task \in Tasks(region) :
       /\ task.template \in DOMAIN Store["npc_templates"]
       /\ Independent(Store["npc_templates"][task.template])

\* No other region says it is this one; nothing checks that.
SoleOfItsId(name) ==
  LET regions == Store["regions"]
  IN  \A other \in DOMAIN regions \ {name} : regions[other].parses => regions[other].id # regions[name].id

\* Whatever the order, and whatever becomes of the others: a template that needs no other has
\* its NPC, and of a region all of whose templates are like that every NPC is there and known to
\* its zone.
IndependentSpawned ==
  stage = "serving" /\ stable =>
    /\ LoadsAll("npc_templates") =>
         \A name \in DOMAIN Store["npc_templates"] :
           Independent(Store["npc_templates"][name]) =>
             \E id \in DOMAIN registry : registry[id].template = name /\ registry[id].by = "template"
    /\ LoadsAll("regions") =>
         \A name \in DOMAIN Store["regions"] :
           LET region == Store["regions"][name]
           IN  SoundRegion(region) =>
                 \A task \in Tasks(region) :
                   /\ TaskId(task) \in DOMAIN registry
                   /\ SoleOfItsId(name) => TaskId(task) \in members[region.id]

\* A server that got its configuration over the network is out of reach of later edits: what it
\* can create once it can create until it exits.
StaysCreatable ==
  [][kind # "json" /\ stage # "fetch" /\ stage' # "off" =>
       \A name \in DOMAIN memory["npc_templates"] :
         Creates(memory["npc_templates"][name]) => Creates(memory["npc_templates"][name])']_vars

\* Once started, the server serves or exits, whatever the configuration.
BootEnds == stage # "off" ~> stage \in {"serving", "off"}

\* GroupManager, social-system R2: an NPC with a group is registered with it when it is created.
AllGrouped ==
  \A id \in DOMAIN registry :
    registry[id].group # "" => [id |-> id, group |-> registry[id].group] \in groups
=============================================================================
