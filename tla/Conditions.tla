----------------------------- MODULE Conditions -----------------------------
(***************************************************************************)
(* Blackboards and the rule conditions over them.                          *)
(*                                                                         *)
(* A blackboard gives every name a value, Absent for the keys it does not  *)
(* have; a value carries its Go type.                                      *)
(*                                                                         *)
(* A condition is the table of its parts, each after the parts it is made  *)
(* of and the whole last.  A part is a record whatever its kind: a leaf    *)
(* has a key, a composite the places of its parts under "and" or "or".     *)
(***************************************************************************)
EXTENDS Integers, Sequences, SequencesExt

CONSTANTS Alphabet,    \* the strings of the configuration, in lexicographic order
          Keys         \* the names of the keys a blackboard may come to have

Blank == ""
Strings == Range(Alphabet)

-----------------------------------------------------------------------------
(* Values *)

Value(type, num, str, items) == [type |-> type, num |-> num, str |-> str, items |-> items]

Float64(n) == Value("float64", n, Blank, {})
Int64(n) == Value("int64", n, Blank, {})
Text(s) == Value("string", 0, s, {})
Flag(b) == Value("bool", IF b THEN 1 ELSE 0, Blank, {})
Nothing == Value("nil", 0, Blank, {})
Absent == Value("absent", 0, Blank, {})

\* An array, of numbers, strings and booleans; nothing asks in which order.
Item(v) == [type |-> v.type, num |-> v.num, str |-> v.str]
List(items) == Value("list", 0, Blank, {Item(v) : v \in items})

Scalars == {"float64", "int64", "string", "bool", "nil"}
Values == [type : Scalars \cup {"list"}, num : Int, str : Strings,
           items : SUBSET [type : Scalars, num : Int, str : Strings]]

\* toFloat64
IsNumber(a) == a.type \in {"float64", "int64"}

Rank(s) == CHOOSE k \in DOMAIN Alphabet : Alphabet[k] = s

-----------------------------------------------------------------------------
(* Blackboards *)

Boards == [Keys -> Values \cup {Absent}]

Has(bb, key) == key \in Keys /\ bb[key] # Absent

\* Set and SetRaw
Put(bb, key, value) == [bb EXCEPT ![key] = value]

-----------------------------------------------------------------------------
(* Comparison *)

\* compareFloat64 and compareString: an operator they do not know never holds.
Ordered(a, op, b) ==
  \/ op = "==" /\ a = b
  \/ op = "!=" /\ a # b
  \/ op = ">"  /\ a > b
  \/ op = ">=" /\ a >= b
  \/ op = "<"  /\ a < b
  \/ op = "<=" /\ a <= b

\* compareValues: numbers with numbers, strings with strings, booleans for equality only.
\* Values of different types satisfy no operator, != included.
CompareValues(a, op, b) ==
  \/ IsNumber(a) /\ IsNumber(b) /\ Ordered(a.num, op, b.num)
  \/ a.type = "string" /\ b.type = "string" /\ Ordered(Rank(a.str), op, Rank(b.str))
  \/ a.type = "bool" /\ b.type = "bool" /\ op \in {"==", "!="} /\ Ordered(a.num, op, b.num)

\* compareIn: only numbers and strings are looked for, and only in an array.
CompareIn(a, target) ==
  /\ target.type = "list"
  /\ IsNumber(a) \/ a.type = "string"
  /\ \E item \in target.items : CompareValues(a, "==", item)

Compare(a, op, target) ==
  IF op = "in" THEN CompareIn(a, target) ELSE CompareValues(a, op, target)

-----------------------------------------------------------------------------
(* Conditions *)

Part(key, op, value, ref, and, or) ==
  [key |-> key, op |-> op, value |-> value, ref |-> ref, and |-> and, or |-> or]

IsCondition(c) ==
  /\ c \in Seq([key : STRING, op : STRING, value : Values, ref : STRING,
                and : SUBSET Nat, or : SUBSET Nat])
  /\ c # <<>>
  /\ \A k \in DOMAIN c : c[k].and \cup c[k].or \subseteq 1 .. k-1

\* Tables one after the other, and where each of them ends.
Joined(tables, Moved(_, _)) == FoldLeft(LAMBDA all, t : all \o Moved(t, Len(all)), <<>>, tables)
Ends(tables) == [k \in DOMAIN tables |-> FoldLeft(LAMBDA n, t : n + Len(t), 0, SubSeq(tables, 1, k))]

MovedParts(c, by) ==
  [k \in DOMAIN c |-> [c[k] EXCEPT !.and = {j + by : j \in @}, !.or = {j + by : j \in @}]]

Always == <<Part(Blank, Blank, Nothing, Blank, {}, {})>>
Leaf(key, op, value) == <<Part(key, op, value, Blank, {}, {})>>
LeafRef(key, op, ref) == <<Part(key, op, Nothing, ref, {}, {})>>
And(cs) == Append(Joined(cs, MovedParts), Part(Blank, Blank, Nothing, Blank, Range(Ends(cs)), {}))
Or(cs) == Append(Joined(cs, MovedParts), Part(Blank, Blank, Nothing, Blank, {}, Range(Ends(cs))))

IsEmpty(p) == p.key = Blank /\ p.and = {} /\ p.or = {}

\* Mistake: a key that is not there counts as zero.
EvaluateLeafDefault(p, bb) ==
  LET a == IF Has(bb, p.key) THEN bb[p.key] ELSE [p.value EXCEPT !.num = 0, !.str = Blank]
  IN  IF p.ref = Blank THEN Compare(a, p.op, p.value)
      ELSE Has(bb, p.ref) /\ Compare(a, p.op, bb[p.ref])

\* evaluateLeaf: false when the key, or the key it is compared with, is not there.
EvaluateLeaf(p, bb) ==
  /\ Has(bb, p.key)
  /\ IF p.ref = Blank THEN Compare(bb[p.key], p.op, p.value)
     ELSE Has(bb, p.ref) /\ Compare(bb[p.key], p.op, bb[p.ref])

\* What a part comes to, given what the parts before it come to.  An "and" hides an "or" beside it.
EvaluatePart(p, holds, bb) ==
  CASE IsEmpty(p) -> TRUE
    [] p.and # {} -> \A j \in p.and : holds[j]
    [] p.and = {} /\ p.or # {} -> \E j \in p.or : holds[j]
    [] OTHER -> EvaluateLeaf(p, bb)

Evaluate(c, bb) ==
  LET holds[k \in DOMAIN c] == EvaluatePart(c[k], holds, bb)
  IN  holds[Len(c)]

ValidOps == {"==", "!=", ">", ">=", "<", "<=", "in"}

\* Keys must be registered; neither the type of the value nor its fit to the operator is looked at.
ValidLeaf(p, keys) ==
  p.key \in keys /\ (p.ref = Blank \/ p.ref \in keys) /\ p.op \in ValidOps

\* An "or" beside an "and" is not looked at.
ValidPart(p, valid, keys) ==
  CASE IsEmpty(p) -> TRUE
    [] p.key # Blank -> p.and = {} /\ p.or = {} /\ ValidLeaf(p, keys)
    [] p.key = Blank /\ p.and # {} -> \A j \in p.and : valid[j]
    [] OTHER -> \A j \in p.or : valid[j]

Valid(c, keys) ==
  LET valid[k \in DOMAIN c] == ValidPart(c[k], valid, keys)
  IN  valid[Len(c)]
=============================================================================
