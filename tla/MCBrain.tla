------------------------------- MODULE MCBrain -------------------------------
(* Brain with the shipped civilian and fighter and with templates that ADMIN *)
(* may export: a unit of threat is ten points, a tick takes two of them off. *)
EXTENDS Brain

MCAlphabet == <<"", "Alarmed", "Alert", "Attack", "Calm", "Chase", "Cower", "Flee", "Idle", "Lost",
                "Patrol", "alarm", "bold", "cover", "crouch", "draw", "engage", "hide", "loud",
                "plan", "quiet", "run", "shy", "stand", "watch">>

Rule(from, to, priority, condition) ==
  [from |-> from, to |-> to, priority |-> priority, condition |-> condition]
NoFields == <<>>
Does(action) == SetValue("current_action", Text(action))
OverOrCalm(level) ==
  Or(<<Leaf("threat_level", "<", Float64(level)), LeafRef("threat_expire_at", "<=", "current_time")>>)
Threatened(level) ==
  And(<<Leaf("threat_level", ">=", Float64(level)), LeafRef("threat_expire_at", ">", "current_time")>>)

\* configs/fsm/civilian.json with configs/bt_trees/civilian
Civilian ==
  [fields |-> NoFields, initial |-> "Idle", states |-> <<"Idle", "Alarmed", "Flee", "Cower">>,
   transitions |->
     <<Rule("Idle", "Alarmed", 10, Leaf("last_event_type", "!=", Text(""))),
       Rule("Alarmed", "Flee", 10, Threatened(5)),
       Rule("Alarmed", "Idle", 5, Leaf("last_event_type", "==", Text(""))),
       Rule("Flee", "Idle", 5, OverOrCalm(2)),
       Rule("Flee", "Cower", 8, Leaf("threat_level", ">=", Float64(8))),
       Rule("Cower", "Idle", 5, OverOrCalm(2))>>,
   trees |->
     [s \in {"Idle", "Flee", "Cower"} |->
        CASE s = "Idle" -> Stub("wander", "success")
          [] s = "Flee" -> Sequence(<<Does("watch"), CheckFloat("threat_level", ">=", 3), Does("plan"),
                                      Stub("route", "success"), Does("run"), Stub("run", "success")>>)
          [] s = "Cower" -> Sequence(<<Does("crouch"), Stub("crouch", ""), Does("cover"),
                                       Stub("cover", "running")>>)]]

\* configs/fsm/fsm_combat_basic.json: no condition leads from Idle to Patrol.
Fighter ==
  [fields |-> [aggression |-> Text("bold")], initial |-> "Idle",
   states |-> <<"Idle", "Patrol", "Chase", "Attack">>,
   transitions |->
     <<Rule("Idle", "Patrol", 1, Always),
       Rule("Patrol", "Chase", 10, Threatened(3)),
       Rule("Chase", "Attack", 10, Threatened(6)),
       Rule("Attack", "Chase", 5, Leaf("threat_level", "<", Float64(4))),
       Rule("Chase", "Patrol", 5, OverOrCalm(1)),
       Rule("Attack", "Patrol", 3, OverOrCalm(1))>>,
   trees |-> [s \in {"Attack", "Chase"} |->
                IF s = "Attack" THEN Sequence(<<Does("draw"), Stub("equip", ""), Does("engage")>>)
                ELSE Sequence(<<Does("watch"), Stub("approach", "success")>>)]]

\* Arrays, booleans, ties and the other nodes; reads a key that only the fighter brings.
Sentry ==
  [fields |-> NoFields, initial |-> "Calm", states |-> <<"Calm", "Alert", "Flee">>,
   transitions |->
     <<Rule("Calm", "Alert", 5, Leaf("last_event_type", "in", List({Text("alarm"), Text("loud")}))),
       Rule("Calm", "Flee", 5, Leaf("group_alert", "==", Flag(TRUE))),
       Rule("Alert", "Calm", 1, Leaf("aggression", "!=", Text("bold"))),
       Rule("Alert", "Calm", 2, Leaf("threat_level", "==", Float64(0))),
       Rule("Flee", "Calm", 1, Leaf("group_alert", "!=", Flag(TRUE))),
       Rule("Flee", "Alert", 1, Leaf("last_event_type", ">", Text("")))>>,
   trees |->
     [s \in {"Alert", "Flee"} |->
        IF s = "Alert"
        THEN Selector(<<Sequence(<<CheckFloat("threat_level", ">=", 8), Does("hide")>>),
                        Inverter(Parallel("", <<CheckString("current_action", "!=", "hide"),
                                                Stub("stare", "success")>>)),
                        Parallel("require_one", <<Does("watch"), Stub("shout", "running")>>)>>)
        ELSE Sequence(<<Does("run"), Inverter(CheckString("last_event_type", "==", "")),
                        Stub("run", "running")>>)]]

\* Writes a key of its own, which must have been registered by then.
Bard ==
  [Sentry EXCEPT !.initial = "Calm", !.transitions = <<Rule("Calm", "Alert", 5, Leaf("last_event_type", "!=", Text("")))>>,
     !.trees = [s \in {"Alert"} |-> Sequence(<<SetValue("aggression", Text("shy")), Does("hide")>>)]]

\* Its only transition leads to a state it does not have: never wired.
Broken ==
  [Sentry EXCEPT !.transitions = <<Rule("Calm", "Lost", 5, Leaf("last_event_type", "!=", Text("")))>>]

\* A field named like a key of the program, and a tree that writes the level as a text.
Muse == [Bard EXCEPT !.fields = [emotion_dominant_val |-> Text("bold")], !.trees = <<>>]
Poet ==
  [Bard EXCEPT !.trees = [s \in {"Alert"} |-> SetValue("threat_level", Text("loud"))]]

MCTemplates ==
  [name \in {"civilian", "fighter", "sentry", "bard", "broken", "muse", "poet"} |->
     CASE name = "civilian" -> Civilian
       [] name = "fighter" -> Fighter
       [] name = "sentry" -> Sentry
       [] name = "bard" -> Bard
       [] name = "broken" -> Broken
       [] name = "muse" -> Muse
       [] name = "poet" -> Poet]

\* The fields of the templates included.
MCKeys == DOMAIN KeyType \cup {"aggression"}
=============================================================================
