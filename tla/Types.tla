-------------------------------- MODULE Types --------------------------------
(***************************************************************************)
(* The types of the static checker (src/typing): of values, of records, of *)
(* descriptors, of variables and of paths.                                 *)
(*                                                                         *)
(* A type of a value, a variable or a path is the set of its alternatives: *)
(* the bottom type has none and the join of two types is their union.  The *)
(* source nests binary unions and drops a bottom or an equal operand.      *)
(* Subtyping is consistent, not entailment: one alternative that fits is   *)
(* enough, on either side.                                                 *)
(***************************************************************************)
EXTENDS PatternGraph

Zero == {}

(***************************************************************************)
(* Types of values (SimpleType): base types, among them the kinds of value *)
(* a property holds, the unknown type, null, and the composite types.  A   *)
(* list type gives its elements a type, a group type what a repetition     *)
(* makes of a property, and a record type its fields, which are known.     *)
(***************************************************************************)
Base(name) == [is |-> name]
Unknown == Base("star")
NullType == Base("null")
BoolType == Base("bool")
Composite(is, fields) == [is |-> is, of |-> fields]
TypeOfList(t) == Composite("list", [i \in {1} |-> t])
TypeOfGroup(t) == Composite("group", [i \in {1} |-> t])
TypeOfRecord(fields) == Composite("record", fields)

IsComposite(a) == a.is \in {"list", "group", "record"}
\* Both lists, both groups, or both records of the same fields.
Alike(a, b) ==
  IsComposite(a) /\ IsComposite(b) /\ a.is = b.is /\ DOMAIN a.of = DOMAIN b.of

RECURSIVE MeetValues(_, _)
MeetValues(s, t) ==
  UNION {CASE a = Unknown -> {b}
           [] a # Unknown /\ b = Unknown -> {a}
           [] Unknown \notin {a, b} /\ Alike(a, b) ->
                {Composite(a.is, [k \in DOMAIN a.of |-> MeetValues(a.of[k], b.of[k])])}
           [] OTHER -> {a} \cap {b} : a \in s, b \in t}

RECURSIVE BelowValues(_, _)
BelowValues(s, t) ==
  \/ s = Zero \/ Unknown \in s \cup t
  \/ \E a \in s, b \in t :
       IF Alike(a, b) THEN \A k \in DOMAIN a.of : BelowValues(a.of[k], b.of[k]) ELSE a = b

RECURSIVE HasNull(_)
HasNull(t) ==
  \E a \in t : a \in {NullType, Unknown} \/ (IsComposite(a) /\ \E k \in DOMAIN a.of : HasNull(a.of[k]))

\* One field that nothing inhabits empties a record, and a list has but one.
RECURSIVE IsEmptyValue(_)
IsEmptyValue(t) == \A a \in t : IsComposite(a) /\ \E k \in DOMAIN a.of : IsEmptyValue(a.of[k])

\* value_to_simple_type: what is stored has the type of what it is, and no null is stored.
RECURSIVE TypeOfValue(_)
TypeOfValue(v) ==
  CASE v = Nothing -> Zero
    [] v.kind \in {"int", "bool", "text"} -> {Base(v.kind)}
    [] v.kind = "group" ->
         {TypeOfList(IF v.of = <<>> THEN {Unknown} ELSE UNION {TypeOfValue(x) : x \in Range(v.of)})}
    [] v.kind = "record" -> {TypeOfRecord([k \in DOMAIN v.of |-> TypeOfValue(v.of[k])])}
    [] v.kind \in {"one", "path"} -> {Unknown}

\* simple_type_of_value: a constant of a query, whose lists and records are not looked into.
TypeOfConst(v) ==
  CASE v = Nothing -> {NullType}
    [] v.kind \in {"int", "bool", "text", "path"} -> {Base(v.kind)}
    [] v.kind = "group" -> {TypeOfList({Unknown})}
    [] v.kind = "record" -> {Unknown}
    [] v.kind = "one" -> {Base(IF IsEdge(v.id) THEN "edge" ELSE "node")}

(***************************************************************************)
(* Types of records: an open record may have more keys than it lists, a    *)
(* closed one has no others (PropertyType).                                *)
(***************************************************************************)
OpenRecord(of) == [kind |-> "open", of |-> of]
ClosedRecord(of) == [kind |-> "closed", of |-> of]
NoRecord == [kind |-> "zero", of |-> <<>>]

GetType(r, attr) ==
  IF attr \in DOMAIN r.of THEN r.of[attr]
  ELSE CASE r.kind = "open" -> {Unknown}
         [] r.kind = "closed" -> {NullType}
         [] r.kind = "zero" -> Zero

\* No key of the one is foreign to the other.
KeysFit(r, s) ==
  /\ "zero" \notin {r.kind, s.kind}
  /\ r.kind = "closed" => DOMAIN s.of \subseteq DOMAIN r.of
  /\ s.kind = "closed" => DOMAIN r.of \subseteq DOMAIN s.of
Shared(f, g) == DOMAIN f \cap DOMAIN g

MeetRecords(r, s) ==
  IF ~KeysFit(r, s) THEN NoRecord
  ELSE [kind |-> IF "closed" \in {r.kind, s.kind} THEN "closed" ELSE "open",
        of |-> [k \in DOMAIN r.of \cup DOMAIN s.of |->
                  IF k \in Shared(r.of, s.of) THEN MeetValues(r.of[k], s.of[k])
                  ELSE IF k \in DOMAIN r.of THEN r.of[k] ELSE s.of[k]]]
BelowRecords(r, s) ==
  \/ r.kind = "zero"
  \/ KeysFit(r, s) /\ \A k \in Shared(r.of, s.of) : BelowValues(r.of[k], s.of[k])
IsEmptyRecord(r) == r.kind = "zero" \/ \E k \in DOMAIN r.of : IsEmptyValue(r.of[k])

(***************************************************************************)
(* Labels meet in a conjunction without repetitions; an unknown label is   *)
(* kept as one of the conjuncts, and the top is not.                       *)
(***************************************************************************)
RECURSIVE Parts(_)
Parts(l) == IF l.op = "and" THEN Parts(l.left) \o Parts(l.right) ELSE <<l>>
RECURSIVE AndOf(_)
AndOf(parts) ==
  LET rest == SelectSeq(Tail(parts), LAMBDA l : l # parts[1])
  IN  IF rest = <<>> THEN parts[1] ELSE Both(parts[1], AndOf(rest))
MeetLabels(a, b) ==
  CASE a = Top -> b
    [] a # Top /\ b = Top -> a
    [] Top \notin {a, b} -> AndOf(Parts(a) \o Parts(b))

DescriptorType(label, props) == [label |-> label, props |-> props]
StarType == DescriptorType(Star, OpenRecord(<<>>))
MeetDescriptors(d, e) == DescriptorType(MeetLabels(d.label, e.label), MeetRecords(d.props, e.props))
BelowDescriptors(d, e) == IsSubtype(d.label, e.label) /\ BelowRecords(d.props, e.props)
IsEmptyDescriptor(d) == IsEmptyRecord(d.props)

(***************************************************************************)
(* Types of variables: a node, an edge between two nodes, the list that a  *)
(* repetition of at least min laps binds, null, a path, or a plain value   *)
(* that a clause binds.                                                    *)
(***************************************************************************)
NodeType(d) == [is |-> "node", d |-> d]
EdgeType(kind, d, left, right) == [is |-> "edge", kind |-> kind, d |-> d, left |-> left, right |-> right]
GroupType(t, min) == [is |-> "group", of |-> t, min |-> min]
PathVariable == Base("path")
ScalarType(t) == [is |-> "scalar", of |-> t]

EdgeParts == {"d", "left", "right"}
MeetEdges(e, f) ==
  [part \in DOMAIN e |-> IF part \in EdgeParts THEN MeetDescriptors(e[part], f[part]) ELSE e[part]]
TurnedAround(e) == EdgeType(e.kind, e.d, e.right, e.left)
\* An undirected edge may be read from either end.
Readings(e) == IF e.kind = "undirected" THEN {e, TurnedAround(e)} ELSE {e}

RECURSIVE Meet(_, _)
Meet(s, t) ==
  UNION {CASE a.is # b.is -> Zero
           [] a.is = "node" /\ b.is = "node" -> {NodeType(MeetDescriptors(a.d, b.d))}
           [] a.is = "edge" /\ b.is = "edge" ->
                IF a.kind = b.kind THEN {MeetEdges(a, f) : f \in Readings(b)} ELSE Zero
           [] a.is = "group" /\ b.is = "group" ->
                {GroupType(Meet(a.of, b.of), IF a.min < b.min THEN b.min ELSE a.min)}
           [] a.is = "scalar" /\ b.is = "scalar" -> {ScalarType(MeetValues(a.of, b.of))}
           [] a.is = b.is /\ a.is \in {"null", "path"} -> {a} : a \in s, b \in t}

BelowEdges(e, f) == \A part \in EdgeParts : BelowDescriptors(e[part], f[part])
RECURSIVE Below(_, _)
Below(s, t) ==
  s = Zero \/ \E a \in s, b \in t :
    /\ a.is = b.is
    /\ CASE a.is = "node" -> BelowDescriptors(a.d, b.d)
         [] a.is = "edge" -> a.kind = b.kind /\ \E f \in Readings(b) : BelowEdges(a, f)
         [] a.is = "group" -> b.min <= a.min /\ Below(a.of, b.of)
         [] a.is = "scalar" -> BelowValues(a.of, b.of)
         [] a.is \in {"null", "path"} -> TRUE

\* A list of no elements is a list whatever its elements would be.
RECURSIVE IsEmptyType(_)
IsEmptyType(t) ==
  \A a \in t :
    CASE a.is = "node" -> IsEmptyDescriptor(a.d)
      [] a.is = "edge" -> \E part \in EdgeParts : IsEmptyDescriptor(a[part])
      [] a.is = "group" -> a.min > 0 /\ IsEmptyType(a.of)
      [] a.is = "scalar" -> IsEmptyValue(a.of)
      [] a.is \in {"null", "path"} -> FALSE

RECURSIVE GetAttribute(_, _)
GetAttribute(t, attr) ==
  UNION {CASE a.is \in {"node", "edge"} -> GetType(a.d.props, attr)
           [] a.is = "group" -> {TypeOfGroup(GetAttribute(a.of, attr))}
           [] a = NullType -> {NullType}
           [] a.is \in {"path", "scalar"} -> Zero : a \in t}

(***************************************************************************)
(* A schema is the types its nodes and its edges have.  A type is refined  *)
(* to what is left of the types of the schema it does not contradict.      *)
(***************************************************************************)
StarSchema ==
  {NodeType(StarType)}
    \cup {EdgeType(kind, StarType, StarType, StarType) : kind \in {"directed", "undirected"}}

Met(schema, a) ==
  UNION {met \in {Meet({entry}, {a}) : entry \in {t \in schema : Below({t}, {a})}} : ~IsEmptyType(met)}
RECURSIVE Refine(_, _)
Refine(schema, t) ==
  UNION {CASE a.is \in {"node", "edge"} -> Met(schema, a)
           [] a.is = "group" -> {GroupType(Refine(schema, a.of), a.min)}
           [] OTHER -> {a} : a \in t}

(***************************************************************************)
(* Types of paths: an alternative is the sequence of the descriptors of    *)
(* its nodes.  The source keeps a union below an edge, which is the union  *)
(* of the edges below it.                                                  *)
(***************************************************************************)
AnyPath == {<<StarType>>}
Live(paths) == {s \in paths : \A i \in DOMAIN s : ~IsEmptyDescriptor(s[i])}
IsUnsatisfiable(paths) == Live(paths) = {}

Observed(e, dir) ==
  (IF dir # "left" \/ e.kind = "undirected" THEN {<<e.left, e.right>>} ELSE {})
    \cup (IF dir # "right" \/ e.kind = "undirected" THEN {<<e.right, e.left>>} ELSE {})
FromVariable(t, dir) ==
  UNION {CASE a.is = "node" -> {<<a.d>>}
           [] a.is = "edge" -> Observed(a, dir)
           [] OTHER -> {} : a \in t}

FirstNodes(paths) == {NodeType(s[1]) : s \in paths}
LastNodes(paths) == {NodeType(s[Len(s)]) : s \in paths}
RECURSIVE ConsPath(_, _)
ConsPath(paths, t) ==
  UNION {CASE a.is = "node" -> Live({Append(s, a.d) : s \in paths})
           [] a.is = "group" -> ConsPath(paths, a.of)
           [] OTHER -> {} : a \in t}

\* The paths of p and q that share a node of the schema where they join.
MeetPaths(schema, p, q) ==
  LET joints(s, u) == Refine(schema, {NodeType(MeetDescriptors(s[Len(s)], u[1]))})
      over(s, u) == {SubSeq(s, 1, Len(s) - 1) \o <<n.d>> \o Tail(u) : n \in joints(s, u)}
  IN  Live(UNION {over(s, u) : s \in p, u \in q})

(***************************************************************************)
(* Environments give variables their types (TypeEnvironment).              *)
(***************************************************************************)
NoTypes == [x \in {} |-> Zero]

JoinEnvs(a, b) ==
  [x \in DOMAIN a \cup DOMAIN b |->
     (IF x \in DOMAIN a THEN a[x] ELSE {NullType}) \cup (IF x \in DOMAIN b THEN b[x] ELSE {NullType})]

\* Types that contradict each other while neither is empty are an error.
Irreconcilable(a, b) ==
  \E x \in Shared(a, b) : Meet(a[x], b[x]) = Zero /\ ~IsEmptyType(a[x]) /\ ~IsEmptyType(b[x])
MeetEnvs(schema, a, b) ==
  IF Irreconcilable(a, b) THEN a
  ELSE [x \in DOMAIN a \cup DOMAIN b |->
          IF x \in Shared(a, b) THEN Refine(schema, Meet(a[x], b[x]))
          ELSE IF x \in DOMAIN a THEN a[x] ELSE b[x]]

\* Mutant: what only the optional side binds is always there.
OuterJoinBound(schema, a, b) ==
  [x \in DOMAIN a \cup DOMAIN b |->
     CASE x \in Shared(a, b) -> a[x] \cup Refine(schema, Meet(a[x], b[x]))
       [] x \notin DOMAIN b -> a[x]
       [] x \notin DOMAIN a -> b[x]]
OuterJoin(schema, a, b) ==
  [x \in DOMAIN a \cup DOMAIN b |->
     CASE x \in Shared(a, b) -> a[x] \cup Refine(schema, Meet(a[x], b[x]))
       [] x \notin DOMAIN b -> a[x]
       [] x \notin DOMAIN a -> b[x] \cup {NullType}]

ToGroups(env, min) == [x \in DOMAIN env |-> {GroupType(env[x], min)}]
IsEmptyEnv(env) == \E x \in DOMAIN env : IsEmptyType(env[x])
==============================================================================
