---------------------------- MODULE StartupProofs ----------------------------
(***************************************************************************)
(* What holds of the start of the server and of cmd/sync whatever ADMIN    *)
(* exports, whatever the directory holds and whichever source is used.     *)
(***************************************************************************)
EXTENDS Startup, TLAPS

-----------------------------------------------------------------------------
(* The cascade check *)

\* BootCascade is inductive: only Serve reaches "serving", and afterwards only clients add NPCs.
LEMMA CascadeStep == BootCascade /\ [Next]_vars => BootCascade'
<1> SUFFICES ASSUME BootCascade, [Next]_vars, stage' = "serving"
             PROVE  \A id \in DOMAIN registry' : registry'[id].by # "client" => ~Violates(registry'[id])
    BY DEF BootCascade, Violates
<1>1. CASE Serve
      BY <1>1 DEF Serve, Exit, Cleared, Offenders, Violates
<1>2. ASSUME NEW name \in DOMAIN Store["npc_templates"], ClientSpawn(name)
      PROVE  \A id \in DOMAIN registry' : registry'[id].by # "client" => ~Violates(registry'[id])
      <2>1. stage = "serving" BY <1>2 DEF ClientSpawn
      <2>2. CASE UNCHANGED registry
            BY <2>1, <2>2 DEF BootCascade, Violates
      <2>3. ASSUME NEW i, i.by = "client", registry' = Added(ClientId, i)
            PROVE  \A id \in DOMAIN registry' : registry'[id].by # "client" => ~Violates(registry'[id])
            BY <2>1, <2>3 DEF BootCascade, Added
      <2> DEFINE t == Store["npc_templates"][name]
                 i == Instance(name, t, "client")
      <2>4. UNCHANGED registry \/ registry' = Added(ClientId, i)
            BY <1>2 DEF ClientSpawn
      <2>5. i.by = "client"
            BY DEF Instance
      <2> QED BY <2>2, <2>3, <2>4, <2>5
<1>3. CASE UNCHANGED <<stage, registry>>
      BY <1>3 DEF BootCascade, Violates
<1>4. ~(Start \/ Fetch \/ LoadEvents \/ LoadRegions \/ OpenZone \/ SpawnInZone \/ LoadTemplates \/ SpawnTemplate)
      BY DEF Start, Fetch, LoadEvents, LoadRegions, OpenZone, SpawnInZone, LoadTemplates, SpawnTemplate,
             Exit, Cleared
<1>5. Copy \/ Edit \/ UNCHANGED vars => UNCHANGED <<stage, registry>>
      BY DEF Copy, Edit, vars, server
<1> QED BY <1>1, <1>2, <1>3, <1>4, <1>5 DEF Next, Boot

\* When the server begins to serve, and ever after, none of the NPCs created by the program feels
\* without remembering: for every configuration.
THEOREM CascadeHolds == Spec => []BootCascade
<1>1. Init => BootCascade
      BY DEF Init, BootCascade
<1> QED BY <1>1, CascadeStep, PTL DEF Spec

-----------------------------------------------------------------------------
(* Sources in memory *)

\* The key registry only grows, but for a restart.
LEMMA KeysGrow == ASSUME [Next]_vars, stage' # "off" PROVE keys \subseteq keys'
<1>1. ASSUME NEW t PROVE keys \subseteq KeysAfter(t)
      BY DEF KeysAfter
<1>2. SpawnInZone => keys \subseteq keys'
      BY <1>1 DEF SpawnInZone
<1>3. SpawnTemplate => keys \subseteq keys'
      BY <1>1 DEF SpawnTemplate
<1>4. \A name : ClientSpawn(name) => keys \subseteq keys'
      BY <1>1 DEF ClientSpawn
<1>5. Start \/ LoadRegions \/ OpenZone \/ LoadTemplates \/ Copy \/ Edit \/ UNCHANGED vars => UNCHANGED keys
      BY DEF Start, LoadRegions, OpenZone, LoadTemplates, Copy, Edit, vars, server
<1>6. Fetch \/ LoadEvents \/ Serve => UNCHANGED keys
      BY DEF Fetch, LoadEvents, Serve, Exit, Cleared
<1> QED BY <1>2, <1>3, <1>4, <1>5, <1>6 DEF Next, Boot

\* What was fetched stays, but for a restart.
LEMMA MemoryStays == ASSUME [Next]_vars, stage # "fetch", stage' # "off" PROVE UNCHANGED <<kind, memory>>
<1>1. Start \/ LoadRegions \/ OpenZone \/ LoadTemplates \/ SpawnInZone \/ SpawnTemplate
        \/ Copy \/ Edit \/ UNCHANGED vars => UNCHANGED <<kind, memory>>
      BY DEF Start, LoadRegions, OpenZone, LoadTemplates, SpawnInZone, SpawnTemplate, Copy, Edit, vars, server
<1>2. LoadEvents \/ Serve => UNCHANGED <<kind, memory>>
      BY DEF LoadEvents, Serve, Exit, Cleared
<1>3. ~Fetch
      BY DEF Fetch
<1>4. \A name : ClientSpawn(name) => UNCHANGED <<kind, memory>>
      BY DEF ClientSpawn
<1> QED BY <1>1, <1>2, <1>3, <1>4 DEF Next, Boot

\* More registered keys never make a template fail.
LEMMA WiresMonotone ==
  ASSUME NEW t, NEW few, NEW many, few \subseteq many, Wires(t, few) PROVE Wires(t, many)
BY DEF Wires, Accepts

\* A server fed over the network can create for ever what it can create once, whatever ADMIN
\* does: its memory stays and its keys only grow.
THEOREM StaysCreatableHolds == Spec => StaysCreatable
<1>1. ASSUME [Next]_vars, kind # "json", stage # "fetch", stage' # "off",
             NEW name \in DOMAIN memory["npc_templates"], Creates(memory["npc_templates"][name])
      PROVE  Creates(memory["npc_templates"][name])'
      <2> DEFINE t == memory["npc_templates"][name]
      <2>1. memory' = memory /\ kind' = kind
            BY <1>1, MemoryStays
      <2>2. Store = memory /\ Store' = memory
            BY <1>1, <2>1 DEF Store
      <2>3. keys \cup t.fields \subseteq keys' \cup t.fields
            BY <1>1, KeysGrow
      <2>4. Parses(t) /\ Wires(t, keys \cup t.fields)
            BY <1>1 DEF Creates
      <2>5. Wires(t, keys' \cup t.fields)
            BY <2>3, <2>4, WiresMonotone
      <2>6. (Creates(t))' <=> Parses(t) /\ Wires(t, keys' \cup t.fields)
            BY <2>1, <2>2 DEF Creates, Parses, Wires, Loads, Accepts
      <2> QED BY <2>4, <2>5, <2>6
<1>2. [Next]_vars =>
        [kind # "json" /\ stage # "fetch" /\ stage' # "off" =>
           \A name \in DOMAIN memory["npc_templates"] :
             Creates(memory["npc_templates"][name]) => Creates(memory["npc_templates"][name])']_vars
      BY <1>1
<1> QED BY <1>2, PTL DEF Spec, StaysCreatable

-----------------------------------------------------------------------------
(* cmd/sync *)

\* As long as ADMIN has not been edited in between: of the category in work the documents not
\* yet written are ADMIN's, and of the categories before it all have a file.
Copied(category, at) ==
  sync.at >= at =>
    DOMAIN admin[category] \subseteq
      DOMAIN disk[category] \cup (IF sync.at = at THEN DOMAIN sync.items ELSE {})

InStep ==
  /\ Copied("fsm_configs", 2)
  /\ Copied("bt_trees", 3)
  /\ sync.at = 4 =>
       /\ Closed(admin)
       /\ \A n \in DOMAIN sync.items :
            n \in DOMAIN admin["npc_templates"] /\ sync.items[n] = admin["npc_templates"][n]

SyncInv ==
  /\ sync.at \in 0..4
  /\ sync.at = 0 => DOMAIN sync.items = {}
  /\ steady => InStep /\ Closed(disk)

\* The order in which cmd/sync writes the categories.
LEMMA SyncedOrder ==
  /\ Len(Synced) = 4
  /\ Synced[1] = "event_types" /\ Synced[2] = "fsm_configs"
  /\ Synced[3] = "bt_trees" /\ Synced[4] = "npc_templates"
BY DEF Synced

\* What is on disk after a document is put there, the other categories included.
LEMMA WrittenIs ==
  ASSUME NEW category \in Categories, NEW name, NEW document, NEW c \in Categories
  PROVE  /\ DOMAIN Written(category, name, document)[c] =
              DOMAIN disk[c] \cup (IF c = category THEN {name} ELSE {})
         /\ \A n \in DOMAIN disk[c] : c # category \/ n # name =>
              Written(category, name, document)[c][n] = disk[c][n]
         /\ Written(category, name, document)[category][name] = document
BY DEF Written

\* A write that puts down a torn file, or a template whose references are there, leaves the
\* directory closed.
LEMMA WrittenClosed ==
  ASSUME NEW category \in Categories, NEW name, NEW document, Closed(disk),
         category = "npc_templates" => document = Torn \/ RefersWithin(document, disk)
  PROVE  Closed(Written(category, name, document))
<1> DEFINE new == Written(category, name, document)
<1> HIDE DEF new
<1>1. /\ DOMAIN disk["fsm_configs"] \subseteq DOMAIN new["fsm_configs"]
      /\ DOMAIN disk["bt_trees"] \subseteq DOMAIN new["bt_trees"]
      BY WrittenIs DEF Categories, new
<1>2. \A t : RefersWithin(t, disk) => RefersWithin(t, new)
      BY <1>1 DEF RefersWithin
<1>3. ASSUME NEW n \in DOMAIN new["npc_templates"], new["npc_templates"][n] # Torn
      PROVE  RefersWithin(new["npc_templates"][n], new)
      <2>1. CASE category = "npc_templates" /\ n = name
            BY <1>2, <1>3, <2>1, WrittenIs DEF new
      <2>2. CASE ~(category = "npc_templates" /\ n = name)
            <3>1. n \in DOMAIN disk["npc_templates"] /\ new["npc_templates"][n] = disk["npc_templates"][n]
                  BY <1>3, <2>2, WrittenIs DEF Categories, new
            <3> QED BY <1>2, <1>3, <3>1 DEF Closed
      <2> QED BY <2>1, <2>2
<1> QED BY <1>3 DEF Closed, new

\* A write grows a category by a name and touches nothing else of what Copied compares.
LEMMA WriteCopied ==
  ASSUME NEW name, NEW document, sync.at \in 1..4,
         disk' = Written(Synced[sync.at], name, document), version' = version, sync'.at = sync.at,
         DOMAIN sync.items \subseteq DOMAIN sync'.items \cup {name},
         NEW category \in {"fsm_configs", "bt_trees"}, NEW at \in {2, 3},
         Synced[at] = category, Copied(category, at)
  PROVE  Copied(category, at)'
<1>1. category \in Categories /\ Synced[sync.at] \in Categories /\ (sync.at = at => Synced[sync.at] = category)
      BY SyncedOrder DEF Categories
<1>2. DOMAIN disk'[category] = DOMAIN disk[category] \cup (IF sync.at = at THEN {name} ELSE {})
      <2>1. sync.at # at => Synced[sync.at] # category
            BY SyncedOrder
      <2>2. DOMAIN Written(Synced[sync.at], name, document)[category] =
              DOMAIN disk[category] \cup (IF category = Synced[sync.at] THEN {name} ELSE {})
            BY <1>1 DEF Written
      <2> QED BY <1>1, <2>1, <2>2
<1>3. admin' = admin
      BY DEF admin
<1> QED BY <1>2, <1>3 DEF Copied

\* Every step of cmd/sync keeps its invariant.
LEMMA SyncStep == SyncInv /\ SyncNext => SyncInv'
<1> SUFFICES ASSUME SyncInv, SyncNext PROVE SyncInv'
    OBVIOUS
<1> USE DEF SyncInv
<1>1. CASE SyncFetch
      <2>1. sync.at \in 0..3 /\ sync'.at = sync.at + 1 /\ sync'.items = admin[Synced[sync.at + 1]]
            /\ UNCHANGED <<version, disk, steady>> /\ DOMAIN sync.items = {}
            BY <1>1, SyncedOrder DEF SyncFetch
      <2>2. admin' = admin
            BY <2>1 DEF admin
      <2>3. ASSUME steady PROVE InStep' /\ Closed(disk')
            <3>1. Copied("fsm_configs", 2)'
                  BY <2>1, <2>2, <2>3, SyncedOrder DEF InStep, Copied
            <3>2. Copied("bt_trees", 3)'
                  BY <2>1, <2>2, <2>3, SyncedOrder DEF InStep, Copied
            <3>3. sync'.at = 4 => Closed(admin) /\ sync'.items = admin["npc_templates"]
                  BY <1>1, <2>1, SyncedOrder DEF SyncFetch, Answers
            <3> QED BY <2>1, <2>2, <2>3, <3>1, <3>2, <3>3 DEF InStep, Closed, RefersWithin
      <2> QED BY <2>1, <2>3
<1>2. ASSUME NEW name \in DOMAIN sync.items, SyncOpen(name) PROVE SyncInv'
      <2>1. sync.at \in 1..4 /\ sync'.at = sync.at /\ sync'.items = sync.items
            /\ UNCHANGED <<version, steady>> /\ disk' = Written(Synced[sync.at], name, Torn)
            BY <1>2 DEF SyncOpen
      <2>2. admin' = admin
            BY <2>1 DEF admin
      <2>3. Synced[sync.at] \in Categories
            BY <2>1, SyncedOrder DEF Categories
      <2>4. ASSUME steady PROVE InStep' /\ Closed(disk')
            <3>1. Copied("fsm_configs", 2)' /\ Copied("bt_trees", 3)'
                  BY <2>1, <2>4, WriteCopied, SyncedOrder DEF InStep
            <3>2. Closed(disk')
                  BY <2>1, <2>3, <2>4, WrittenClosed
            <3> QED BY <2>1, <2>2, <2>4, <3>1, <3>2 DEF InStep, Closed, RefersWithin
      <2> QED BY <2>1, <2>4
<1>3. CASE SyncWrite
      <2> DEFINE name == sync.open
                 document == sync.items[name]
      <2>1. name \in DOMAIN sync.items /\ UNCHANGED <<version, steady>>
            /\ disk' = Written(Synced[sync.at], name, document)
            /\ sync'.at = sync.at
            /\ sync'.items = [n \in DOMAIN sync.items \ {name} |-> sync.items[n]]
            BY <1>3 DEF SyncWrite
      <2>2. admin' = admin
            BY <2>1 DEF admin
      <2>4. sync.at \in 1..4
            BY <2>1
      <2>5. SyncInv'
            <3>1. Synced[sync.at] \in Categories
                  BY <2>4, SyncedOrder DEF Categories
            <3>2. ASSUME steady PROVE InStep' /\ Closed(disk')
                  <4>1. Copied("fsm_configs", 2)' /\ Copied("bt_trees", 3)'
                        BY <2>1, <2>4, <3>2, WriteCopied, SyncedOrder DEF InStep
                  <4>2. Synced[sync.at] = "npc_templates" => document = Torn \/ RefersWithin(document, disk)
                        <5>1. Synced[sync.at] = "npc_templates" => sync.at = 4
                              BY <2>4, SyncedOrder
                        <5> QED BY <2>1, <3>2, <5>1 DEF InStep, Copied, Closed, RefersWithin
                  <4>3. Closed(disk')
                        BY <2>1, <3>1, <3>2, <4>2, WrittenClosed
                  <4> QED BY <2>1, <2>2, <3>2, <4>1, <4>3 DEF InStep, Closed, RefersWithin
            <3> QED BY <2>1, <2>4, <3>2
      <2> QED BY <2>5
<1>4. CASE SyncStop
      BY <1>4 DEF SyncStop, Idle, InStep, Copied, Closed, RefersWithin
<1> QED BY <1>1, <1>2, <1>3, <1>4 DEF SyncNext

\* So does every step beside it.
LEMMA SyncInvStep == SyncInv /\ [Next]_vars => SyncInv'
<1>1. CASE Copy
      BY <1>1, SyncStep DEF Copy
<1>2. SyncInv /\ Edit => SyncInv'
      <2> SUFFICES ASSUME SyncInv, Edit PROVE SyncInv'
          OBVIOUS
      <2>1. UNCHANGED <<disk, sync>> /\ (steady' => steady /\ sync.at = 0)
            BY DEF Edit, AdminEdit
      <2>2. sync'.at = 0 => InStep'
            BY DEF InStep, Copied
      <2> QED BY <2>1, <2>2 DEF SyncInv, Closed, RefersWithin
<1>3. SyncInv /\ UNCHANGED syncVars => SyncInv'
      BY DEF syncVars, SyncInv, InStep, Copied, Closed, RefersWithin, admin
<1>4. Start \/ Boot \/ (\E name \in DOMAIN Store["npc_templates"] : ClientSpawn(name)) \/ UNCHANGED vars
        => UNCHANGED syncVars
      BY DEF Start, Boot, Fetch, LoadEvents, LoadRegions, OpenZone, SpawnInZone, LoadTemplates,
             SpawnTemplate, Serve, ClientSpawn, vars
<1> QED BY <1>1, <1>2, <1>3, <1>4 DEF Next

\* Whatever ADMIN exports and whenever cmd/sync is killed, as long as nobody edits ADMIN while it
\* runs no template on disk refers to an FSM or a tree without a file.
THEOREM NoDanglingHolds == Spec => []NoDangling
<1>1. Init => SyncInv
      BY FirstDisksClosed DEF Init, SyncInit, FirstDisksClosed, SyncInv, InStep, Copied, Idle
<1>2. SyncInv => NoDangling
      BY DEF SyncInv, NoDangling
<1> QED BY <1>1, <1>2, SyncInvStep, PTL DEF Spec

-----------------------------------------------------------------------------
(* Templates and regions *)

Templates == Store["npc_templates"]
Regions == Store["regions"]

Beyond == stage \in {"zones", "templates", "serving"}

\* An NPC made from the template of this name.
HasNpc(name) == \E id \in DOMAIN registry : registry[id].template = name /\ registry[id].by = "template"

\* The NPC of a task of the region of this name.
Done(name, task) ==
  /\ TaskId(task) \in DOMAIN registry
  /\ SoleOfItsId(name) => TaskId(task) \in members[Regions[name].id]

\* Every region that was opened has its NPCs, but for what is pending of the current one.
OpenedBut(current, pending) ==
  \A name \in DOMAIN Regions \ DOMAIN zones :
    SoundRegion(Regions[name]) =>
      \A task \in Tasks(Regions[name]) : Done(name, task) \/ (name = current /\ task \in pending)

ZonesInv ==
  Beyond /\ stable /\ LoadsAll("regions") =>
    /\ \A name \in DOMAIN zones : name \in DOMAIN Regions /\ zones[name] = Regions[name]
    /\ \E current : /\ OpenedBut(current, tasks)
                    /\ tasks # {} => /\ current \in DOMAIN Regions \ DOMAIN zones
                                     /\ tasks \subseteq Tasks(Regions[current])
    /\ \A name \in DOMAIN Regions \ DOMAIN zones : Regions[name].parses => Regions[name].id \in DOMAIN members

\* The templates not yet taken are as they were loaded; the others have their NPC if they need no other.
TemplatesInv ==
  stage \in {"templates", "serving"} /\ stable /\ LoadsAll("npc_templates") =>
    /\ \A name \in DOMAIN todo : name \in DOMAIN Templates /\ todo[name] = Templates[name]
    /\ \A name \in DOMAIN Templates \ DOMAIN todo : Independent(Templates[name]) => HasNpc(name)

\* How far main has come, and that the ids of templates were given out in order.
ProgressInv ==
  /\ stage \in {"off", "fetch", "events", "regions", "zones", "templates", "serving"}
  /\ stage # "zones" => tasks = {}
  /\ stage \in {"templates", "serving"} => DOMAIN zones = {}
  /\ stage = "serving" => DOMAIN todo = {}
  /\ BaseKeys \subseteq keys
  /\ count \in Nat
  /\ \A id \in DOMAIN registry : registry[id].by = "template" => id.index \in Nat /\ id.index < count

SpawnedInv == ProgressInv /\ ZonesInv /\ TemplatesInv

\* At the start nothing was created.
LEMMA InitSpawned == Init => SpawnedInv
BY DEF Init, SpawnedInv, ProgressInv, ZonesInv, TemplatesInv, Beyond

\* What a step of main, of a client or of cmd/sync leaves of how far main has come.
LEMMA StepProgress == ProgressInv /\ [Next]_vars => ProgressInv'
<1> SUFFICES ASSUME ProgressInv, [Next]_vars PROVE ProgressInv'
  OBVIOUS
<1> USE DEF ProgressInv
<1>1. ASSUME Exit PROVE ProgressInv'
  BY <1>1 DEF Exit, Cleared
<1>2. CASE Start
  BY <1>2 DEF Start
<1>3. CASE Fetch
  BY <1>1, <1>3 DEF Fetch
<1>4. CASE LoadEvents
  BY <1>1, <1>4 DEF LoadEvents
<1>5. CASE LoadRegions
  BY <1>5 DEF LoadRegions
<1>6. CASE OpenZone
  BY <1>6 DEF OpenZone
<1>7. CASE SpawnInZone
  <2>1. BaseKeys \subseteq keys'
    BY <1>7 DEF SpawnInZone, KeysAfter
  <2>2. /\ stage = "zones" /\ UNCHANGED <<stage, zones, todo, count>>
        /\ \/ UNCHANGED registry
           \/ \E id, i : i.by = "zone" /\ registry' = Added(id, i)
    <3>1. \A template, t : Instance(template, t, "zone").by = "zone"
      BY DEF Instance
    <3> QED BY <1>7, <3>1 DEF SpawnInZone
  <2>3. \A id \in DOMAIN registry' : registry'[id].by = "template" => id \in DOMAIN registry /\ registry'[id] = registry[id]
    BY <2>2 DEF Added
  <2> QED BY <2>1, <2>2, <2>3
<1>8. CASE LoadTemplates
  BY <1>8 DEF LoadTemplates
<1>9. CASE SpawnTemplate
  <2>1. BaseKeys \subseteq keys'
    BY <1>9 DEF SpawnTemplate, KeysAfter
  <2>2. /\ stage = "templates" /\ UNCHANGED <<stage, zones, tasks>>
        /\ \/ UNCHANGED <<registry, count>>
           \/ /\ count' = count + 1
              /\ \E name, t : registry' = Added(Id(name, count), Instance(name, t, "template"))
    BY <1>9 DEF SpawnTemplate
  <2>3. CASE UNCHANGED <<registry, count>>
    BY <2>1, <2>2, <2>3
  <2>4. ASSUME count' = count + 1, NEW name, NEW t,
               registry' = Added(Id(name, count), Instance(name, t, "template"))
        PROVE  ProgressInv'
    <3>1. \A id \in DOMAIN registry' : registry'[id].by = "template" => id.index \in Nat /\ id.index < count'
      BY <2>4 DEF Added, Id
    <3> QED BY <2>1, <2>2, <2>4, <3>1
  <2> QED BY <2>2, <2>3, <2>4
<1>10. CASE Serve
  BY <1>1, <1>10 DEF Serve
<1>11. CASE \E name \in DOMAIN Store["npc_templates"] : ClientSpawn(name)
  <2>1. BaseKeys \subseteq keys'
    BY <1>11 DEF ClientSpawn, KeysAfter
  <2>2. /\ stage = "serving" /\ UNCHANGED <<stage, zones, tasks, todo, count>>
        /\ \/ UNCHANGED registry
           \/ \E name, t : registry' = Added(ClientId, Instance(name, t, "client"))
    BY <1>11 DEF ClientSpawn
  <2> QED BY <2>1, <2>2 DEF Added, Instance
<1>12. CASE Copy \/ Edit \/ UNCHANGED vars
  BY <1>12 DEF Copy, Edit, vars, server
<1> QED BY <1>2, <1>3, <1>4, <1>5, <1>6, <1>7, <1>8, <1>9, <1>10, <1>11, <1>12 DEF Next, Boot

\* Nothing that main reads from its source changes while no file is written.
LEMMA StoreStays ==
  ASSUME [Next]_vars, stable', Beyond', Beyond
  PROVE  stable /\ kind' = kind /\ Store' = Store
<1>1. UNCHANGED <<kind, memory>>
  BY MemoryStays DEF Beyond
<1>2. CASE Copy
  BY <1>1, <1>2 DEF Copy, Store
<1>3. CASE Edit
  BY <1>1, <1>3 DEF Edit, AdminEdit, Store
<1>4. ASSUME ~Copy, ~Edit PROVE stable /\ disk' = disk
  <2>1. ~Start
    BY DEF Start, Beyond
  <2>2. Boot \/ (\E name \in DOMAIN Store["npc_templates"] : ClientSpawn(name)) \/ UNCHANGED vars
          => UNCHANGED <<syncVars, stable>>
    BY DEF Boot, Fetch, LoadEvents, LoadRegions, OpenZone, SpawnInZone, LoadTemplates, SpawnTemplate, Serve,
           ClientSpawn, vars
  <2> QED BY <1>4, <2>1, <2>2 DEF Next, syncVars
<1> QED BY <1>1, <1>2, <1>3, <1>4 DEF Store

\* What the invariants say of the source, in the next state.
LEMMA SameStore ==
  ASSUME kind' = kind, Store' = Store
  PROVE  /\ Templates' = Templates /\ Regions' = Regions
         /\ \A category : LoadsAll(category)' <=> LoadsAll(category)
         /\ \A name : Independent(Templates[name])' <=> Independent(Templates[name])
         /\ \A name : SoundRegion(Regions[name])' <=> SoundRegion(Regions[name])
         /\ \A name : SoleOfItsId(name)' <=> SoleOfItsId(name)
<1>1. Templates' = Templates /\ Regions' = Regions /\ \A category : LoadsAll(category)' <=> LoadsAll(category)
  BY DEF Templates, Regions, LoadsAll
<1>2. \A t : Independent(t)' <=> Independent(t)
  BY DEF Independent, Parses, Wires, Loads, Accepts
<1>3. \A name : Independent(Templates[name])' <=> Independent(Templates[name])
  BY <1>1 DEF Independent, Parses, Wires, Loads, Accepts
<1>4. \A name : SoundRegion(Regions[name])' <=> SoundRegion(Regions[name])
  BY <1>1, <1>2 DEF SoundRegion, Independent, Parses, Wires, Loads, Accepts, Tasks
<1>5. \A name : SoleOfItsId(name)' <=> SoleOfItsId(name)
  BY DEF SoleOfItsId
<1> QED BY <1>1, <1>3, <1>4, <1>5

\* A template that needs no other's fields can be created whatever was registered before.
LEMMA IndependentCreates ==
  ASSUME ProgressInv, NEW t, Independent(t)
  PROVE  t # Torn /\ Creates(t)
<1>1. BaseKeys \cup t.fields \subseteq keys \cup t.fields
  BY DEF ProgressInv
<1>2. t # Torn /\ Parses(t) /\ Wires(t, BaseKeys \cup t.fields)
  BY DEF Independent
<1>3. Wires(t, keys \cup t.fields)
  BY <1>1, <1>2, WiresMonotone
<1> QED BY <1>2, <1>3 DEF Creates

\* Loading the regions, opening one and creating an NPC in it are the only steps of ZonesInv.
LEMMA QuietZones ==
  ASSUME [Next]_vars, Beyond', stable', ~LoadRegions, ~OpenZone, ~SpawnInZone
  PROVE  Beyond /\ UNCHANGED <<zones, tasks, members>> /\ DOMAIN registry \subseteq DOMAIN registry'
<1> USE DEF Beyond
<1>1. ~Start /\ ~Fetch /\ ~LoadEvents
  BY DEF Start, Fetch, LoadEvents, Exit, Cleared
<1>2. CASE LoadTemplates
  BY <1>2 DEF LoadTemplates
<1>3. CASE SpawnTemplate
  BY <1>3 DEF SpawnTemplate, Added
<1>4. CASE Serve
  BY <1>4 DEF Serve, Exit, Cleared
<1>5. CASE \E name \in DOMAIN Store["npc_templates"] : ClientSpawn(name)
  BY <1>5 DEF ClientSpawn, Added
<1>6. CASE Copy \/ Edit \/ UNCHANGED vars
  BY <1>6 DEF Copy, Edit, vars, server
<1> QED BY <1>1, <1>2, <1>3, <1>4, <1>5, <1>6 DEF Next, Boot

\* What is done stays done while the registry and the zone's members only grow.
LEMMA DoneStays ==
  ASSUME Store' = Store, kind' = kind, NEW name, NEW task, Done(name, task),
         DOMAIN registry \subseteq DOMAIN registry',
         SoleOfItsId(name) => members[Regions[name].id] \subseteq members'[Regions[name].id]
  PROVE  Done(name, task)'
BY SameStore DEF Done, TaskId, Id

\* AddZone and the begin of Zone.Spawn.
LEMMA OpenZones ==
  ASSUME ProgressInv, ZonesInv, Beyond, stable, LoadsAll("regions"), Store' = Store, kind' = kind, OpenZone
  PROVE  ZonesInv'
<1>1. PICK opened \in DOMAIN zones :
        /\ tasks = {} /\ UNCHANGED registry
        /\ zones' = Without(zones, opened)
        /\ IF zones[opened].parses
           THEN /\ tasks' = Tasks(zones[opened])
                /\ members' = [z \in DOMAIN members \cup {zones[opened].id} |->
                                 IF z = zones[opened].id THEN {} ELSE members[z]]
           ELSE UNCHANGED <<tasks, members>>
  BY DEF OpenZone
<1>2. /\ \A name \in DOMAIN zones : name \in DOMAIN Regions /\ zones[name] = Regions[name]
      /\ \A name \in DOMAIN Regions \ DOMAIN zones : Regions[name].parses => Regions[name].id \in DOMAIN members
  BY DEF ZonesInv
<1>3. Regions' = Regions
  BY SameStore
<1>4. DOMAIN zones' = DOMAIN zones \ {opened} /\ \A name \in DOMAIN zones' : zones'[name] = zones[name]
  BY <1>1 DEF Without
<1>5. ASSUME NEW name \in DOMAIN Regions \ DOMAIN zones, SoundRegion(Regions[name]),
             NEW task \in Tasks(Regions[name])
      PROVE  Done(name, task)'
  <2>1. Done(name, task)
    BY <1>1, <1>5 DEF ZonesInv, OpenedBut
  <2>2. ASSUME SoleOfItsId(name) PROVE members[Regions[name].id] \subseteq members'[Regions[name].id]
    <3>1. Regions[name].id \in DOMAIN members
      BY <1>2, <1>5 DEF SoundRegion
    <3>2. opened \in DOMAIN Regions \ {name} /\ zones[opened] = Regions[opened]
      BY <1>2, <1>5
    <3>3. zones[opened].parses => zones[opened].id # Regions[name].id
      BY <2>2, <3>2 DEF SoleOfItsId, Regions
    <3> QED BY <1>1, <3>1, <3>3
  <2> QED BY <1>1, <2>1, <2>2, DoneStays
<1>6. OpenedBut(opened, tasks)'
  <2> SUFFICES ASSUME NEW name \in DOMAIN Regions \ DOMAIN zones', SoundRegion(Regions[name]),
                      NEW task \in Tasks(Regions[name])
               PROVE  Done(name, task)' \/ (name = opened /\ task \in tasks')
    BY <1>3, SameStore DEF OpenedBut, Tasks
  <2>1. CASE name = opened
    BY <1>1, <1>2, <2>1 DEF SoundRegion
  <2>2. CASE name # opened
    BY <1>4, <1>5, <2>2
  <2> QED BY <2>1, <2>2
<1>7. tasks' # {} => opened \in DOMAIN Regions \ DOMAIN zones' /\ tasks' \subseteq Tasks(Regions[opened])
  BY <1>1, <1>2, <1>4
<1>8. \A name \in DOMAIN Regions \ DOMAIN zones' : Regions[name].parses => Regions[name].id \in DOMAIN members'
  <2> SUFFICES ASSUME NEW name \in DOMAIN Regions \ DOMAIN zones', Regions[name].parses
               PROVE  Regions[name].id \in DOMAIN members'
    OBVIOUS
  <2>1. CASE name = opened
    BY <1>1, <1>2, <2>1
  <2>2. CASE name # opened
    BY <1>1, <1>2, <1>4, <2>2
  <2> QED BY <2>1, <2>2
<1> QED BY <1>2, <1>3, <1>4, <1>6, <1>7, <1>8 DEF ZonesInv, Tasks

\* Every NPC of a region is created for its zone.
LEMMA TaskZone == \A region : \A task \in Tasks(region) : task.zone = region.id
BY DEF Tasks

\* One round of Zone.Spawn, or its end at a template that cannot be created.
LEMMA SpawnZones ==
  ASSUME ProgressInv, ZonesInv, Beyond, stable, LoadsAll("regions"), Store' = Store, kind' = kind, SpawnInZone
  PROVE  ZonesInv'
<1>1. PICK made \in tasks :
        /\ UNCHANGED zones
        /\ IF Loads("npc_templates", made.template) /\ Creates(Templates[made.template])
           THEN /\ \E i : registry' = Added(TaskId(made), i)
                /\ members' = [members EXCEPT ![made.zone] = @ \cup {TaskId(made)}]
                /\ tasks' = tasks \ {made}
           ELSE tasks' = {} /\ UNCHANGED <<registry, members>>
  BY DEF SpawnInZone, GiveUp, Templates
<1>2. PICK current : /\ OpenedBut(current, tasks)
                     /\ current \in DOMAIN Regions \ DOMAIN zones /\ tasks \subseteq Tasks(Regions[current])
  BY <1>1 DEF ZonesInv
<1>3. Regions' = Regions /\ DOMAIN registry \subseteq DOMAIN registry' /\ DOMAIN members' = DOMAIN members
      /\ \A z \in DOMAIN members : members[z] \subseteq members'[z]
  BY <1>1, SameStore DEF Added
<1>4. \A name \in DOMAIN Regions \ DOMAIN zones : Regions[name].parses => Regions[name].id \in DOMAIN members
  BY DEF ZonesInv
<1>5. ASSUME NEW name \in DOMAIN Regions \ DOMAIN zones, SoundRegion(Regions[name]), NEW task, Done(name, task)
      PROVE  Done(name, task)'
  BY <1>3, <1>4, <1>5, DoneStays DEF SoundRegion
<1>6. CASE Loads("npc_templates", made.template) /\ Creates(Templates[made.template])
  <2>1. ASSUME SoundRegion(Regions[current]) PROVE Done(current, made)'
    <3>1. made.zone = Regions[current].id /\ made.zone \in DOMAIN members
      BY <1>1, <1>2, <1>4, <2>1, TaskZone DEF SoundRegion
    <3>2. TaskId(made) \in DOMAIN registry' /\ TaskId(made) \in members'[Regions[current].id]
      BY <1>1, <1>6, <3>1 DEF Added
    <3> QED BY <1>3, <3>2 DEF Done, TaskId, Id
  <2>2. OpenedBut(current, tasks)'
    <3> SUFFICES ASSUME NEW name \in DOMAIN Regions \ DOMAIN zones, SoundRegion(Regions[name]),
                        NEW task \in Tasks(Regions[name])
                 PROVE  Done(name, task)' \/ (name = current /\ task \in tasks')
      BY <1>1, <1>3, SameStore DEF OpenedBut, Tasks
    <3>1. Done(name, task) \/ (name = current /\ task \in tasks)
      BY <1>2 DEF OpenedBut
    <3> QED BY <1>1, <1>5, <1>6, <2>1, <3>1
  <2> QED BY <1>1, <1>2, <1>3, <1>4, <1>6, <2>2 DEF ZonesInv, Tasks
<1>7. CASE ~(Loads("npc_templates", made.template) /\ Creates(Templates[made.template]))
  <2>1. ~SoundRegion(Regions[current])
    <3> SUFFICES ASSUME SoundRegion(Regions[current]) PROVE FALSE
      OBVIOUS
    <3>1. made.template \in DOMAIN Templates /\ Independent(Templates[made.template])
      BY <1>2 DEF SoundRegion, Templates
    <3>2. Templates[made.template] # Torn /\ Creates(Templates[made.template])
      BY <3>1, IndependentCreates
    <3> QED BY <1>7, <3>1, <3>2 DEF Loads, Templates
  <2>2. OpenedBut(current, tasks)'
    <3> SUFFICES ASSUME NEW name \in DOMAIN Regions \ DOMAIN zones, SoundRegion(Regions[name]),
                        NEW task \in Tasks(Regions[name])
                 PROVE  Done(name, task)'
      BY <1>1, <1>3, SameStore DEF OpenedBut, Tasks
    <3>1. Done(name, task)
      BY <1>2, <2>1 DEF OpenedBut
    <3> QED BY <1>5, <3>1
  <2> QED BY <1>1, <1>3, <1>4, <1>7, <2>2 DEF ZonesInv, Tasks
<1> QED BY <1>6, <1>7

\* Every step keeps what is known of the zones.
LEMMA StepZones == ProgressInv /\ ZonesInv /\ [Next]_vars => ZonesInv'
<1> SUFFICES ASSUME ProgressInv, ZonesInv, [Next]_vars, Beyond', stable', LoadsAll("regions")'
             PROVE  ZonesInv'
  BY DEF ZonesInv
<1>1. CASE LoadRegions
  <2>1. kind' = kind /\ Store' = Store /\ tasks' = {} /\ zones' = Regions
    <3>1. UNCHANGED <<kind, memory, disk, tasks>> /\ tasks = {}
      BY <1>1 DEF LoadRegions, syncVars, ProgressInv
    <3>2. kind' = kind /\ Store' = Store
      BY <3>1 DEF Store
    <3>3. LoadsAll("regions")
      BY <3>2, SameStore
    <3> QED BY <1>1, <3>1, <3>2, <3>3 DEF LoadRegions, Regions
  <2>2. Regions' = Regions
    BY <2>1, SameStore
  <2> QED BY <2>1, <2>2 DEF ZonesInv, OpenedBut
<1>2. CASE ~LoadRegions
  <2>1. Beyond
    BY <1>2, QuietZones DEF Beyond, OpenZone, SpawnInZone
  <2>2. stable /\ kind' = kind /\ Store' = Store
    BY <2>1, StoreStays
  <2>3. LoadsAll("regions")
    BY <2>2, SameStore
  <2>4. CASE OpenZone
    BY <2>1, <2>2, <2>3, <2>4, OpenZones
  <2>5. CASE SpawnInZone
    BY <2>1, <2>2, <2>3, <2>5, SpawnZones
  <2>6. CASE ~OpenZone /\ ~SpawnInZone
    <3>1. UNCHANGED <<zones, tasks, members>> /\ DOMAIN registry \subseteq DOMAIN registry'
      BY <1>2, <2>6, QuietZones
    <3>2. Regions' = Regions
      BY <2>2, SameStore
    <3>3. ASSUME NEW name, NEW task, Done(name, task) PROVE Done(name, task)'
      BY <2>2, <3>1, <3>3, DoneStays
    <3>4. ASSUME NEW current, OpenedBut(current, tasks) PROVE OpenedBut(current, tasks)'
      BY <2>2, <3>1, <3>2, <3>3, <3>4, SameStore DEF OpenedBut, Tasks
    <3> QED BY <2>1, <2>2, <2>3, <3>1, <3>2, <3>4 DEF ZonesInv, Tasks
  <2> QED BY <2>4, <2>5, <2>6
<1> QED BY <1>1, <1>2

\* NPCs of templates stay, whoever else is created.
LEMMA QuietTemplates ==
  ASSUME [Next]_vars, stage' \in {"templates", "serving"}, ~LoadTemplates, ~SpawnTemplate, NEW name, HasNpc(name)
  PROVE  HasNpc(name)'
<1>1. ~Start /\ ~Fetch /\ ~LoadEvents /\ ~LoadRegions /\ ~OpenZone /\ ~SpawnInZone
  BY DEF Start, Fetch, LoadEvents, LoadRegions, OpenZone, SpawnInZone, Exit, Cleared
<1>2. CASE UNCHANGED registry
  BY <1>2 DEF HasNpc
<1>3. CASE Serve
  BY <1>2, <1>3 DEF Serve, Exit, Cleared
<1>4. CASE \E other \in DOMAIN Store["npc_templates"] : ClientSpawn(other)
  <2>1. UNCHANGED registry \/ (ClientId \notin DOMAIN registry /\ \E i : registry' = Added(ClientId, i))
    BY <1>4 DEF ClientSpawn
  <2> QED BY <2>1 DEF Added, HasNpc
<1>5. CASE Copy \/ Edit \/ UNCHANGED vars
  BY <1>2, <1>5 DEF Copy, Edit, vars, server
<1> QED BY <1>1, <1>3, <1>4, <1>5 DEF Next, Boot

\* The templates still to be taken stay the same in other steps.
LEMMA QuietTodo ==
  ASSUME [Next]_vars, stage' \in {"templates", "serving"}, ~LoadTemplates, ~SpawnTemplate
  PROVE  stage \in {"templates", "serving"} /\ todo' = todo
<1>1. ~Start /\ ~Fetch /\ ~LoadEvents /\ ~LoadRegions /\ ~OpenZone /\ ~SpawnInZone
  BY DEF Start, Fetch, LoadEvents, LoadRegions, OpenZone, SpawnInZone, Exit, Cleared
<1>2. CASE Serve
  BY <1>2 DEF Serve, Exit, Cleared
<1>3. CASE \E other \in DOMAIN Store["npc_templates"] : ClientSpawn(other)
  BY <1>3 DEF ClientSpawn
<1>4. CASE Copy \/ Edit \/ UNCHANGED vars
  BY <1>4 DEF Copy, Edit, vars, server
<1> QED BY <1>1, <1>2, <1>3, <1>4 DEF Next, Boot

\* One template is taken, and its NPC is there if it can be created.
LEMMA SpawnTemplates ==
  ASSUME ProgressInv, TemplatesInv, stage = "templates", stable, LoadsAll("npc_templates"),
         Store' = Store, kind' = kind, SpawnTemplate
  PROVE  TemplatesInv'
<1>1. PICK taken \in DOMAIN todo :
        /\ todo' = Without(todo, taken)
        /\ IF Creates(todo[taken])
           THEN registry' = Added(Id(taken, count), Instance(taken, todo[taken], "template"))
           ELSE UNCHANGED registry
  BY DEF SpawnTemplate, Skip
<1>2. /\ \A name \in DOMAIN todo : name \in DOMAIN Templates /\ todo[name] = Templates[name]
      /\ \A name \in DOMAIN Templates \ DOMAIN todo : Independent(Templates[name]) => HasNpc(name)
  BY DEF TemplatesInv
<1>3. Templates' = Templates
      /\ DOMAIN todo' = DOMAIN todo \ {taken} /\ \A name \in DOMAIN todo' : todo'[name] = todo[name]
  BY <1>1, SameStore DEF Without
<1>4. ASSUME NEW name, HasNpc(name) PROVE HasNpc(name)'
  <2>1. PICK id \in DOMAIN registry : registry[id].template = name /\ registry[id].by = "template"
    BY <1>4 DEF HasNpc
  <2>2. id # Id(taken, count)
    <3>1. id.index \in Nat /\ id.index < count /\ count \in Nat
      BY <2>1 DEF ProgressInv
    <3> QED BY <3>1 DEF Id
  <2>3. id \in DOMAIN registry' /\ registry'[id] = registry[id]
    BY <1>1, <2>2 DEF Added
  <2> QED BY <2>1, <2>3 DEF HasNpc
<1>5. ASSUME Independent(Templates[taken]) PROVE HasNpc(taken)'
  <2>1. Creates(todo[taken])
    BY <1>2, <1>5, IndependentCreates
  <2> DEFINE i == Instance(taken, todo[taken], "template")
  <2>2. i.template = taken /\ i.by = "template"
    BY DEF Instance
  <2> HIDE DEF i
  <2>3. registry' = Added(Id(taken, count), i)
    BY <1>1, <2>1 DEF i
  <2>4. Id(taken, count) \in DOMAIN registry' /\ registry'[Id(taken, count)] = i
    BY <2>3 DEF Added
  <2> QED BY <2>2, <2>4 DEF HasNpc
<1>6. ASSUME NEW name \in DOMAIN Templates \ DOMAIN todo', Independent(Templates[name]) PROVE HasNpc(name)'
  BY <1>2, <1>3, <1>4, <1>5, <1>6
<1> QED BY <1>2, <1>3, <1>6, SameStore DEF TemplatesInv

\* Every step keeps what is known of the templates.
LEMMA StepTemplates == ProgressInv /\ TemplatesInv /\ [Next]_vars => TemplatesInv'
<1> SUFFICES ASSUME ProgressInv, TemplatesInv, [Next]_vars, stage' \in {"templates", "serving"}, stable',
                    LoadsAll("npc_templates")'
             PROVE  TemplatesInv'
  BY DEF TemplatesInv
<1>1. Beyond /\ stable /\ kind' = kind /\ Store' = Store
  <2>1. Beyond
    BY QuietTodo DEF Beyond, LoadTemplates, SpawnTemplate
  <2> QED BY <2>1, StoreStays DEF Beyond
<1>2. LoadsAll("npc_templates") /\ Templates' = Templates
  BY <1>1, SameStore
<1>3. CASE LoadTemplates
  BY <1>2, <1>3 DEF LoadTemplates, TemplatesInv, Templates
<1>4. CASE SpawnTemplate
  BY <1>1, <1>2, <1>4, SpawnTemplates DEF SpawnTemplate
<1>5. CASE ~LoadTemplates /\ ~SpawnTemplate
  <2>1. stage \in {"templates", "serving"} /\ todo' = todo
    BY <1>5, QuietTodo
  <2>2. \A name : HasNpc(name) => HasNpc(name)'
    BY <1>5, QuietTemplates
  <2> QED BY <1>1, <1>2, <2>1, <2>2, SameStore DEF TemplatesInv
<1> QED BY <1>3, <1>4, <1>5

\* For any configuration and whatever is edited, copied or spawned meanwhile: how far main has come,
\* and what it has created of the templates that need no other.
THEOREM SpawnedInvHolds == Spec => []SpawnedInv
<1>1. SpawnedInv /\ [Next]_vars => SpawnedInv'
  BY StepProgress, StepZones, StepTemplates DEF SpawnedInv
<1> QED BY <1>1, InitSpawned, PTL DEF Spec

\* For any configuration, once the server serves a template that needs no other has its NPC, and a region
\* of such templates all of its NPCs, whatever order the maps were walked in.
THEOREM IndependentSpawnedHolds == Spec => []IndependentSpawned
<1>1. SpawnedInv => IndependentSpawned
  <2> SUFFICES ASSUME SpawnedInv, stage = "serving", stable PROVE IndependentSpawned
    BY DEF IndependentSpawned
  <2>1. DOMAIN todo = {} /\ DOMAIN zones = {} /\ tasks = {}
    BY DEF SpawnedInv, ProgressInv
  <2>2. ASSUME LoadsAll("npc_templates"), NEW name \in DOMAIN Templates, Independent(Templates[name])
        PROVE  HasNpc(name)
    BY <2>1, <2>2 DEF SpawnedInv, TemplatesInv
  <2>3. ASSUME LoadsAll("regions"), NEW name \in DOMAIN Regions, SoundRegion(Regions[name]),
               NEW task \in Tasks(Regions[name])
        PROVE  Done(name, task)
    BY <2>1, <2>3 DEF SpawnedInv, ZonesInv, OpenedBut, Beyond
  <2> QED BY <2>2, <2>3 DEF IndependentSpawned, HasNpc, Done, Templates, Regions
<1> QED BY <1>1, SpawnedInvHolds, PTL
=============================================================================
