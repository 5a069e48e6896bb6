--------------------------- MODULE EliminationOrder ---------------------------
(***************************************************************************)
(* The order the leapfrog join binds its variables in                      *)
(* (runtime/ltj/veo.rs): chosen one variable at a time from the sizes the  *)
(* index reports under what is already bound, or fixed beforehand.         *)
(*                                                                         *)
(* plan says which variables are free to be chosen, which come last in a   *)
(* given order, and which must wait for another.  An order fixed           *)
(* beforehand is a plan with nothing free.                                 *)
(*                                                                         *)
(* The search calls the order in brackets: next and done around a level,   *)
(* down and up around each of its values.  The memo arm of a vector search *)
(* comes back later to a prefix it filed, and forces it variable by        *)
(* variable.                                                               *)
(***************************************************************************)
EXTENDS Integers, Sequences, FiniteSets

VARIABLES
  plan,       \* [free, lonely, weight, syntactic, related, prereq]
  order,      \* [weight, pool, bound, versions, path]
  phase,      \* where the search is between its calls
  prefixes,   \* the paths filed for later
  todo,       \* what is left to force of one of them
  replayed    \* how many levels were forced

orderVars == <<plan, order, phase, prefixes, todo, replayed>>

FreeCount == Cardinality(plan.free)
Level(o) == Len(o.path)
BoundVars(o) == {o.bound[i] : i \in DOMAIN o.bound}
WithoutLast(s) == SubSeq(s, 1, Len(s) - 1)

(***************************************************************************)
(* AdaptiveVeo::next, down, up, done and force.                            *)
(***************************************************************************)
\* A variable waits for the one it depends on.
Eligible(o, x) == \A arc \in plan.prereq : arc[1] = x => arc[2] \notin plan.free \/ arc[2] \in BoundVars(o)

Lighter(o, x, y) == \/ o.weight[x] < o.weight[y]
                    \/ o.weight[x] = o.weight[y] /\ plan.syntactic[x] < plan.syntactic[y]
Lightest(o, S) == {x \in S : \A y \in S : ~Lighter(o, y, x)}

\* Among the free variables the lightest that may go; the tie the code breaks by place is left open.
Candidates(o) ==
  LET able == {x \in o.pool : Eligible(o, x)}
  IN  IF able = {} THEN o.pool ELSE Lightest(o, able)

NextVars(o) == IF Level(o) < FreeCount THEN Candidates(o) ELSE {plan.lonely[Level(o) - FreeCount + 1]}

Bind(o, x) == [o EXCEPT !.path = Append(@, x), !.pool = @ \ {x}, !.bound = Append(@, x)]
Pass(o, x) == [o EXCEPT !.path = Append(@, x)]
Taken(o, x) == IF Level(o) < FreeCount THEN Bind(o, x) ELSE Pass(o, x)
Forced(o, x) == IF x \in o.pool THEN Bind(o, x) ELSE Pass(o, x)

\* What is related to the variable just bound, and smaller now; the old weights are kept.
Narrowed(o, sizes) ==
  LET last == o.bound[Len(o.bound)]
      lower == {x \in (plan.related[last] \cap plan.free) \ BoundVars(o) : sizes[x] < o.weight[x]}
  IN  IF Level(o) > FreeCount THEN o
      ELSE [o EXCEPT !.weight = [x \in plan.free |-> IF x \in lower THEN sizes[x] ELSE @[x]],
                     !.versions = Append(@, [x \in lower |-> o.weight[x]])]

\* Mutant: the narrowed weights stay.
WidenedNot(o) == IF Level(o) > FreeCount THEN o ELSE [o EXCEPT !.versions = WithoutLast(@)]
Widened(o) ==
  LET version == o.versions[Len(o.versions)]
  IN  IF Level(o) > FreeCount THEN o
      ELSE [o EXCEPT !.weight = [x \in plan.free |-> IF x \in DOMAIN version THEN version[x] ELSE @[x]],
                     !.versions = WithoutLast(@)]

Finished(o) ==
  LET left == [o EXCEPT !.path = WithoutLast(@)]
  IN  IF Level(o) > FreeCount THEN left
      ELSE [left EXCEPT !.pool = @ \cup {o.bound[Len(o.bound)]}, !.bound = WithoutLast(@)]

(***************************************************************************)
(* The calls of a search.                                                  *)
(***************************************************************************)
Size == FreeCount + Len(plan.lonely)

Fresh(p) == [weight |-> p.weight, pool |-> p.free, bound |-> <<>>, versions |-> <<>>, path |-> <<>>]

InitOrder(p) ==
  /\ plan = p
  /\ order = Fresh(p)
  /\ phase = "below"
  /\ prefixes = {}
  /\ todo = <<>>
  /\ replayed = 0

\* On entry to a level.
NextVar(x) ==
  /\ phase = "below" /\ Level(order) < Size
  /\ x \in NextVars(order)
  /\ order' = Taken(order, x)
  /\ phase' = "open"
  /\ UNCHANGED <<plan, prefixes, todo, replayed>>

\* A search that has every variable, or is not to go on, returns.
TurnBack ==
  /\ phase = "below"
  /\ phase' = "back"
  /\ UNCHANGED <<plan, order, prefixes, todo, replayed>>

\* Around a value of the level.
Down(sizes) ==
  /\ phase = "open"
  /\ order' = Narrowed(order, sizes)
  /\ phase' = "below"
  /\ UNCHANGED <<plan, prefixes, todo, replayed>>

Up ==
  /\ phase = "back" /\ Level(order) > replayed
  /\ order' = Widened(order)
  /\ phase' = "open"
  /\ UNCHANGED <<plan, prefixes, todo, replayed>>

\* The level has no more values.
Done ==
  /\ phase = "open"
  /\ order' = Finished(order)
  /\ phase' = "back"
  /\ UNCHANGED <<plan, prefixes, todo, replayed>>

\* What is bound above the level, and at it, is filed to be taken up again.
File ==
  /\ phase = "open" /\ replayed = 0
  /\ prefixes' = prefixes \cup {order.path}
  /\ UNCHANGED <<plan, order, phase, todo, replayed>>

Resume(prefix) ==
  /\ phase = "back" /\ Level(order) = 0
  /\ prefix \in prefixes
  /\ todo' = prefix
  /\ phase' = "replay"
  /\ UNCHANGED <<plan, order, prefixes, replayed>>

ForceVar ==
  /\ phase = "replay"
  /\ order' = Forced(order, todo[1])
  /\ todo' = Tail(todo)
  /\ replayed' = replayed + 1
  /\ phase' = IF Len(todo) = 1 THEN "below" ELSE "replay"
  /\ UNCHANGED <<plan, prefixes>>

\* One done for every force.
Undo ==
  /\ phase = "back" /\ replayed > 0 /\ Level(order) = replayed
  /\ order' = Finished(order)
  /\ replayed' = replayed - 1
  /\ UNCHANGED <<plan, phase, prefixes, todo>>

(***************************************************************************)
(* Properties.                                                             *)
(***************************************************************************)
\* The weight of a free variable before any descent still in force.
Original(o, x) ==
  LET at == {i \in DOMAIN o.versions : x \in DOMAIN o.versions[i]}
      first == CHOOSE i \in at : \A j \in at : i <= j
  IN  IF at = {} THEN o.weight[x] ELSE o.versions[first][x]

\* Whatever branches have been searched, abandoned at a limit, filed or resumed: the pool is
\* what is not bound, the bound variables are those of the levels entered, no variable is
\* bound twice, and undoing the descents still in force gives the weights the order began
\* with ("up restores them so backtracking is exact").
OrderIsRestored ==
  /\ order.pool = plan.free \ BoundVars(order)
  /\ BoundVars(order) \subseteq plan.free
  /\ \A i, j \in DOMAIN order.bound : order.bound[i] = order.bound[j] => i = j
  /\ \A i \in DOMAIN order.bound : i \in DOMAIN order.path /\ order.path[i] = order.bound[i]
  /\ \A x \in plan.free : Original(order, x) = plan.weight[x]

\* A correlated vector search has no vector to rank against until its anchor is bound: the
\* variable is never taken before it.
AnchorComesFirst ==
  \A arc \in plan.prereq : \A i \in DOMAIN order.path :
     order.path[i] = arc[1] => \E j \in 1..(i - 1) : order.path[j] = arc[2]
==============================================================================
