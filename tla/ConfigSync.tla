------------------------------ MODULE ConfigSync ------------------------------
(***************************************************************************)
(* What ADMIN exports and how cmd/sync copies it into the configs          *)
(* directory: one category after the other, one file after the other, with *)
(* no lock, no temporary file and no removal of what is no longer there.   *)
(*                                                                         *)
(* A store maps a category to its documents by name.  A name is the        *)
(* sequence of the words that "_" joins.  Of a document there is only what *)
(* the server looks at: see Startup.                                       *)
(***************************************************************************)
EXTENDS Naturals, Sequences, FiniteSets

CONSTANTS Exports,    \* the stores ADMIN holds one after the other, a sequence
          FirstDisks  \* the stores the directory may hold at first

Categories ==
  {"event_types", "npc_types", "fsm_configs", "bt_trees", "npc_templates", "regions"}

VARIABLES
  version, \* which of the Exports ADMIN holds
  disk,    \* the configs directory
  sync,    \* cmd/sync: [at, items, open]: the category it is at (0 when it does not run), the
           \* documents of it still to write, the file being written
  steady   \* ADMIN was never edited between the first and the last request of one reader (history)

syncVars == <<version, disk, sync, steady>>

\* What a file holds between its truncation and the end of the write; no JSON.
Torn == [torn |-> TRUE]

\* All that a template refers to is there.
RefersWithin(t, store) ==
  t.fsm \in DOMAIN store["fsm_configs"] /\ t.trees \subseteq DOMAIN store["bt_trees"]

Closed(store) ==
  \A n \in DOMAIN store["npc_templates"] :
    LET t == store["npc_templates"][n] IN t # Torn => RefersWithin(t, store)

ASSUME FirstDisksClosed == \A d \in FirstDisks : Closed(d)

-----------------------------------------------------------------------------
admin == Exports[version]

Idle == [at |-> 0, items |-> <<>>, open |-> <<>>]

SyncInit ==
  version \in DOMAIN Exports /\ disk \in FirstDisks /\ sync = Idle /\ steady = TRUE

\* ADMIN refuses to export templates with dangling references.
Answers(category) == category = "npc_templates" => Closed(admin)

\* Mistake: what refers comes before what is referred to.
SyncedBackwards == <<"npc_templates", "bt_trees", "fsm_configs", "event_types">>

Synced == <<"event_types", "fsm_configs", "bt_trees", "npc_templates">>

\* A category is fetched as a whole before its first file is written.
SyncFetch ==
  /\ sync.at < Len(Synced) /\ DOMAIN sync.items = {}
  /\ Answers(Synced[sync.at + 1])
  /\ sync' = [at |-> sync.at + 1, items |-> admin[Synced[sync.at + 1]], open |-> <<>>]
  /\ UNCHANGED <<version, disk, steady>>

\* Puts a document under a name of a category.
Written(category, name, document) ==
  [c \in Categories |->
     IF c = category
     THEN [n \in DOMAIN disk[c] \cup {name} |-> IF n = name THEN document ELSE disk[c][n]]
     ELSE disk[c]]

\* os.WriteFile truncates the file ...
SyncOpen(name) ==
  /\ sync.at # 0 /\ sync.open = <<>> /\ name \in DOMAIN sync.items
  /\ disk' = Written(Synced[sync.at], name, Torn)
  /\ sync' = [at |-> sync.at, items |-> sync.items, open |-> name]
  /\ UNCHANGED <<version, steady>>

\* ... and writes it.
SyncWrite ==
  /\ sync.open \in DOMAIN sync.items
  /\ disk' = Written(Synced[sync.at], sync.open, sync.items[sync.open])
  /\ sync' = [at |-> sync.at, open |-> <<>>,
              items |-> [n \in DOMAIN sync.items \ {sync.open} |-> sync.items[n]]]
  /\ UNCHANGED <<version, steady>>

\* The end; log.Fatalf on a failed request or write; or the process is killed.
SyncStop ==
  /\ sync.at # 0
  /\ sync' = Idle
  /\ UNCHANGED <<version, disk, steady>>

SyncNext == SyncFetch \/ (\E name \in DOMAIN sync.items : SyncOpen(name)) \/ SyncWrite \/ SyncStop

\* ADMIN goes on to its next configuration; reading: somebody is between two requests.
AdminEdit(reading) ==
  /\ version < Len(Exports) /\ version' = version + 1
  /\ steady' = (steady /\ ~reading)
  /\ UNCHANGED <<disk, sync>>

-----------------------------------------------------------------------------
\* Whenever cmd/sync is killed and however often it runs, no template on disk refers to an FSM
\* or a tree that has no file, provided ADMIN is not edited while it runs: what is referred to
\* is written first and nothing is ever removed.
NoDangling == steady => Closed(disk)
=============================================================================
