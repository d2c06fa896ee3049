-------------------------------- MODULE Trees --------------------------------
(***************************************************************************)
(* Behaviour trees: how a tree is built and what a tick of it does to the  *)
(* blackboard.  No node remembers anything from one tick to the next.      *)
(*                                                                         *)
(* A tree is the table of its nodes, each after its children and the root  *)
(* last.  A node is a record whatever its type; children are places, that  *)
(* of a decorator's child too.  The nodes that move an NPC are in          *)
(* Locomotion.                                                             *)
(***************************************************************************)
EXTENDS Conditions

Node(type, key, op, value, children) ==
  [type |-> type, key |-> key, op |-> op, value |-> value, children |-> children]

IsTree(tree) ==
  /\ tree \in Seq([type : STRING, key : STRING, op : STRING, value : Values, children : Seq(Nat)])
  /\ tree # <<>>
  /\ \A k \in DOMAIN tree : Range(tree[k].children) \subseteq 1 .. k-1

Root(tree) == tree[Len(tree)]

MovedNodes(tree, by) ==
  [k \in DOMAIN tree |-> [tree[k] EXCEPT !.children = [j \in DOMAIN @ |-> @[j] + by]]]
Over(type, policy, trees) ==
  Append(Joined(trees, MovedNodes), Node(type, Blank, policy, Nothing, Ends(trees)))

Sequence(trees) == Over("sequence", Blank, trees)
Selector(trees) == Over("selector", Blank, trees)
Parallel(policy, trees) == Over("parallel", policy, trees)
Inverter(tree) == Over("inverter", Blank, <<tree>>)
CheckFloat(key, op, n) == <<Node("check_bb_float", key, op, Float64(n), <<>>)>>
CheckString(key, op, s) == <<Node("check_bb_string", key, op, Text(s), <<>>)>>
SetValue(key, value) == <<Node("set_bb_value", key, Blank, value, <<>>)>>
\* The name of the action is its key, the result its op.
Stub(name, result) == <<Node("stub_action", name, result, Nothing, <<>>)>>

\* The set_bb_value nodes of a tree.
Setters(tree) == {n \in Range(tree) : n.type = "set_bb_value"}

-----------------------------------------------------------------------------
(* Building *)

Composites == {"sequence", "selector", "parallel"}

\* Mistake: the factory of set_bb_value does not ask for the key.
LeafBuildsBlind(n, keys) ==
  CASE n.type \in {"check_bb_float", "check_bb_string"} -> n.key # Blank /\ n.op # Blank
    [] n.type = "set_bb_value" -> n.key # Blank
    [] n.type = "stub_action"  -> n.key # Blank /\ n.op \in {Blank, "success", "failure", "running"}
    [] OTHER -> FALSE

\* What the factory of a leaf insists on; the checks do not ask whether their key exists.
LeafBuilds(n, keys) ==
  CASE n.type \in {"check_bb_float", "check_bb_string"} -> n.key # Blank /\ n.op # Blank
    [] n.type = "set_bb_value" -> n.key # Blank /\ n.key \in keys
    [] n.type = "stub_action"  -> n.key # Blank /\ n.op \in {Blank, "success", "failure", "running"}
    [] OTHER -> FALSE

NodeBuilds(n, keys) ==
  CASE n.type \in Composites -> TRUE
    [] n.type = "inverter" -> n.children # <<>>
    [] OTHER -> LeafBuilds(n, keys)

\* Every node is built, whatever its place.
Builds(tree, keys) == \A n \in Range(tree) : NodeBuilds(n, keys)

-----------------------------------------------------------------------------
(* Ticking: the status and the blackboard it leaves; "panic" is SetRaw's *)

Statuses == {"success", "failure", "running", "panic"}
Result(status, bb) == [status |-> status, bb |-> bb]
Verdict(holds) == IF holds THEN "success" ELSE "failure"

\* A key that is missing or of another type fails the check.
TickLeaf(n, bb, keys) ==
  CASE n.type = "check_bb_float" ->
         Result(Verdict(/\ Has(bb, n.key) /\ IsNumber(bb[n.key])
                        /\ Ordered(bb[n.key].num, n.op, n.value.num)), bb)
    [] n.type = "check_bb_string" ->
         Result(Verdict(/\ Has(bb, n.key) /\ bb[n.key].type = "string"
                        /\ n.op \in {"==", "!="}
                        /\ CompareValues(bb[n.key], n.op, n.value)), bb)
    [] n.type = "set_bb_value" ->
         IF n.key \in keys THEN Result("success", Put(bb, n.key, n.value)) ELSE Result("panic", bb)
    [] n.type = "stub_action" -> Result(IF n.op = Blank THEN "success" ELSE n.op, bb)

Inverted(status) ==
  CASE status = "success" -> "failure"
    [] status = "failure" -> "success"
    [] OTHER -> status

\* The statuses after which a composite goes on to its next child.
GoesOn(type) ==
  CASE type = "sequence" -> {"success"}
    [] type = "selector" -> {"failure"}
    [] type = "parallel" -> Statuses \ {"panic"}

\* The next child is ticked if the ones before it returned nothing but what is in on.
TickChild(on, tick, before) ==
  IF before.seen \subseteq on
  THEN LET r == tick[before.bb] IN [seen |-> before.seen \cup {r.status}, bb |-> r.bb]
  ELSE before

\* From left to right; run[j].seen are the statuses the first j children returned.
TickChildren(on, ticks, bb) ==
  LET run[j \in 0 .. Len(ticks)] ==
        IF j = 0 THEN [seen |-> {}, bb |-> bb] ELSE TickChild(on, ticks[j], run[j-1])
  IN  run[Len(ticks)]

\* One success is enough for a selector and for parallel's RequireOne; the others want all.
EnoughIsOne(n) == n.type = "selector" \/ (n.type = "parallel" /\ n.op = "require_one")

\* What a composite makes of the statuses of its children.
Judged(one, seen) ==
  LET decisive == IF one THEN "success" ELSE "failure"
      otherwise == Inverted(decisive)
  IN  IF "panic" \in seen THEN "panic"
      ELSE IF decisive \in seen THEN decisive
      ELSE IF seen \subseteq {otherwise} THEN otherwise
      ELSE "running"

\* What the tick of a node does, given what those of its children do.
TickNode(n, ticks, bb, keys) ==
  CASE n.type \in Composites -> LET r == TickChildren(GoesOn(n.type), ticks, bb)
                                IN  Result(Judged(EnoughIsOne(n), r.seen), r.bb)
    [] n.type = "inverter" -> LET r == ticks[1][bb] IN Result(Inverted(r.status), r.bb)
    [] OTHER -> TickLeaf(n, bb, keys)

OfChildren(n, tick) == [j \in DOMAIN n.children |-> tick[n.children[j]]]

\* tick[k]: that of node k, for every blackboard.
TickTree(tree, bb, keys) ==
  LET tick[k \in DOMAIN tree] ==
        [b \in Boards |-> TickNode(tree[k], OfChildren(tree[k], tick), b, keys)]
  IN  tick[Len(tree)][bb]
=============================================================================
