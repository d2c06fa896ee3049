------------------------------ MODULE MCStartup ------------------------------
(* Startup with three configurations of ADMIN, the last of which it refuses to export. *)
EXTENDS Startup, TLC

Event(parses) == [parses |-> parses]
Doc(sound, uses) == [sound |-> sound, uses |-> uses]
Template(fsm, trees, fields, remembers, feels, group) ==
  [fsm |-> fsm, trees |-> trees, fields |-> fields, sound |-> TRUE,
   memory |-> remembers, emotion |-> feels, group |-> group]
Entry(template, n) == [template |-> template, count |-> n, points |-> 1]
Region(id, table) == [parses |-> TRUE, id |-> id, table |-> table]

Boom == <<"boom">>
Calm == <<"calm">>
Hunt == <<"hunt">>
Mood == <<"mood">>
Wolf == <<"wolf">>
Crow == <<"crow">>
Hen == <<"hen">>
Ox == <<"ox">>
Owl == <<"owl">>
Farm == <<"farm">>
Barn == <<"barn">>
FarmHen == <<"farm", "hen">>

Store0(fsms, trees, templates, regions) ==
  [c \in Categories |->
     CASE c \in {"event_types", "npc_types"} -> Boom :> Event(TRUE)
       [] c = "fsm_configs" -> fsms
       [] c = "bt_trees" -> trees
       [] c = "npc_templates" -> templates
       [] c = "regions" -> regions]

\* The id of the only farm_hen may be that of the first hen on the farm;
\* there is no ox.
Tame == Store0(Calm :> Doc(TRUE, {}), Calm :> Doc(TRUE, {}),
               Hen :> Template(Calm, {Calm}, {}, TRUE, TRUE, "brood")
               @@ FarmHen :> Template(Calm, {Calm}, {}, FALSE, FALSE, ""),
               Farm :> Region(Farm, <<Entry(Hen, 2)>>)
               @@ Barn :> Region(Barn, <<Entry(Ox, 1), Entry(Hen, 1)>>))

\* A hen with a new FSM that feels and does not remember, and a region that does not parse.
Moody == [Tame EXCEPT !["npc_templates"] = Hen :> Template(Mood, {Calm}, {}, FALSE, TRUE, ""),
                      !["fsm_configs"] = Mood :> Doc(TRUE, {}),
                      !["regions"] = Farm :> [parses |-> FALSE, id |-> <<>>, table |-> <<>>]]

\* The crow needs a field that only the wolf brings; it feels and does not remember.  The owl
\* refers to an FSM that is not there, so ADMIN hands out no template of these.
Wild == Store0(Hunt :> Doc(TRUE, {"hunger"}), Calm :> Doc(TRUE, {}),
               Wolf :> Template(Hunt, {Calm}, {"hunger"}, TRUE, TRUE, "pack")
               @@ Crow :> Template(Hunt, {Calm}, {}, FALSE, TRUE, "")
               @@ Owl :> Template(Calm, {Calm}, {}, TRUE, FALSE, ""),
               <<>>)

MCExports == <<Tame, Moody, Wild>>
MCFirstDisks == {Tame}
=============================================================================
