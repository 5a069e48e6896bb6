--------------------------- MODULE JoinSearch_proofs ---------------------------
(***************************************************************************)
(* The order a join binds its variables in is what the search says of it,  *)
(* for every pattern, index and limit; and where navigation is exact the   *)
(* rows a search finds are the join.                                       *)
(*                                                                         *)
(* The first invariant counts: between two calls there is a version of     *)
(* weights for each level entered since the last force, as many variables  *)
(* bound as levels entered until the free ones run out, and every path     *)
(* filed is one the order may be forced along again.                       *)
(*                                                                         *)
(* The second is an account.  The values bound name a point of the search, *)
(* and each choice of edges that fits the pattern has been come past there *)
(* or has not; the rows are those of the choices come past, but for those  *)
(* a filed prefix leads to.  That holds because a cursor stands at what    *)
(* the values give its triple, level by level, so that a leap finds the    *)
(* least value any such choice has, and what is listed at the last level   *)
(* is every choice with those values.                                      *)
(***************************************************************************)
EXTENDS JoinSearch, FunctionTheorems, FiniteSetTheorems, SequenceTheorems, WellFoundedInduction, TLAPS

(***************************************************************************)
(* Lists.                                                                  *)
(***************************************************************************)
\* A sequence, of whatever it holds.
IsList(s) == s \in Seq({s[i] : i \in DOMAIN s})

\* A list is its places.
LEMMA ListPlaces ==
  ASSUME NEW s, IsList(s)
  PROVE  Len(s) \in Nat /\ DOMAIN s = 1..Len(s)
BY DEF IsList

\* What Append does to a list.
LEMMA ListAppend ==
  ASSUME NEW s, IsList(s), NEW v
  PROVE  /\ IsList(Append(s, v)) /\ Len(Append(s, v)) = Len(s) + 1
         /\ Append(s, v)[Len(s) + 1] = v /\ \A i \in 1..Len(s) : Append(s, v)[i] = s[i]
<1> DEFINE X == {s[i] : i \in DOMAIN s} \cup {v}
           t == Append(s, v)
<1>1. s \in Seq(X) /\ v \in X
  BY DEF IsList
<1>2. /\ t \in Seq(X) /\ Len(t) = Len(s) + 1 /\ t[Len(s) + 1] = v /\ \A i \in 1..Len(s) : t[i] = s[i]
  BY <1>1
<1>3. t \in Seq({t[i] : i \in DOMAIN t})
  <2> HIDE DEF t, X
  <2> QED
    BY <1>2
<1> QED
  BY <1>2, <1>3 DEF IsList

\* What is left of a list without its last element.
LEMMA ListWithoutLast ==
  ASSUME NEW s, IsList(s), Len(s) > 0
  PROVE  /\ IsList(WithoutLast(s)) /\ Len(WithoutLast(s)) = Len(s) - 1
         /\ \A i \in 1..(Len(s) - 1) : WithoutLast(s)[i] = s[i]
<1> DEFINE X == {s[i] : i \in DOMAIN s}
           t == WithoutLast(s)
<1>1. s \in Seq(X)
  BY DEF IsList
<1>2. t \in Seq(X) /\ Len(t) = Len(s) - 1 /\ \A i \in 1..(Len(s) - 1) : t[i] = s[i]
  <2> DEFINE n == Len(s) - 1
  <2>1. n \in Int /\ n >= 0 /\ 1 \in Int /\ \A i \in 1..n : s[i] \in X
    BY <1>1
  <2> HIDE DEF n, X
  <2>2. /\ SubSeq(s, 1, n) \in Seq(X) /\ Len(SubSeq(s, 1, n)) = IF 1 <= n THEN n - 1 + 1 ELSE 0
        /\ \A i \in 1..(n - 1 + 1) : SubSeq(s, 1, n)[i] = s[1 + i - 1]
    BY <2>1, SubSeqProperties
  <2>3. t = SubSeq(s, 1, n)
    BY DEF WithoutLast, n
  <2>4. /\ t \in Seq(X) /\ Len(t) = n /\ \A i \in 1..n : t[i] = s[i]
    BY <2>1, <2>2, <2>3
  <2> QED
    BY <2>4 DEF n
<1>3. t \in Seq({t[i] : i \in DOMAIN t})
  <2> HIDE DEF t, X
  <2> QED
    BY <1>2
<1> QED
  BY <1>2, <1>3 DEF IsList

\* What is left of a list without its first element.
LEMMA ListTail ==
  ASSUME NEW s, IsList(s), Len(s) > 0
  PROVE  /\ IsList(Tail(s)) /\ Len(Tail(s)) = Len(s) - 1
         /\ \A i \in 1..(Len(s) - 1) : Tail(s)[i] = s[i + 1]
<1> DEFINE X == {s[i] : i \in DOMAIN s}
           t == Tail(s)
<1>1. s \in Seq(X) /\ s # <<>>
  BY DEF IsList
<1>2. t \in Seq(X) /\ Len(t) = Len(s) - 1 /\ \A i \in 1..(Len(s) - 1) : t[i] = s[i + 1]
  BY <1>1
<1>3. t \in Seq({t[i] : i \in DOMAIN t})
  <2> HIDE DEF t, X
  <2> QED
    BY <1>2
<1> QED
  BY <1>2, <1>3 DEF IsList

\* The empty list.
LEMMA ListEmpty == IsList(<<>>) /\ Len(<<>>) = 0
BY DEF IsList

\* A set of numbers that is not empty has a least one.
LEMMA LeastNumber ==
  ASSUME NEW S, S \subseteq Nat, S # {}
  PROVE  \E i \in S : \A j \in S : i <= j
<1>1. PICK i \in S : \A j \in S : ~(<<j, i>> \in OpToRel(<, Nat))
  BY WFMin, NatLessThanWellFounded
<1>2. \A j \in S : ~(j < i)
  BY <1>1 DEF OpToRel
<1> QED
  BY <1>2

\* Where the weight a variable began with is kept: in its first version, or in the weights.
LEMMA OriginalIs ==
  ASSUME NEW o, IsList(o.versions), NEW x
  PROVE  /\ (\A i \in 1..Len(o.versions) : x \notin DOMAIN o.versions[i]) => Original(o, x) = o.weight[x]
         /\ \A k \in 1..Len(o.versions) :
              x \in DOMAIN o.versions[k] /\ (\A i \in 1..(k - 1) : x \notin DOMAIN o.versions[i])
                => Original(o, x) = o.versions[k][x]
         /\ \/ \A i \in 1..Len(o.versions) : x \notin DOMAIN o.versions[i]
            \/ \E k \in 1..Len(o.versions) :
                 x \in DOMAIN o.versions[k] /\ \A i \in 1..(k - 1) : x \notin DOMAIN o.versions[i]
<1> DEFINE at == {i \in DOMAIN o.versions : x \in DOMAIN o.versions[i]}
           first == CHOOSE i \in at : \A j \in at : i <= j
<1>1. Len(o.versions) \in Nat /\ DOMAIN o.versions = 1..Len(o.versions)
  BY ListPlaces
<1>2. Original(o, x) = IF at = {} THEN o.weight[x] ELSE o.versions[first][x]
  BY DEF Original
<1>3. ASSUME NEW k \in 1..Len(o.versions), x \in DOMAIN o.versions[k],
             \A i \in 1..(k - 1) : x \notin DOMAIN o.versions[i]
      PROVE  Original(o, x) = o.versions[k][x]
  <2>1. k \in at /\ \A j \in at : k <= j
    BY <1>1, <1>3
  <2>2. first \in at /\ \A j \in at : first <= j
    BY <2>1
  <2>3. first = k
    BY <1>1, <2>1, <2>2
  <2> QED
    BY <1>2, <2>1, <2>3
<1>4. CASE at = {}
  BY <1>1, <1>2, <1>3, <1>4
<1>5. CASE at # {}
  <2>0. at \subseteq Nat
    BY <1>1
  <2>1. PICK k \in at : \A j \in at : k <= j
    <3> HIDE DEF at
    <3> QED
      BY <2>0, <1>5, LeastNumber
  <2>2. \A i \in 1..(k - 1) : x \notin DOMAIN o.versions[i]
    BY <1>1, <2>1
  <2> QED
    BY <1>1, <1>3, <2>1, <2>2
<1> QED
  BY <1>4, <1>5

(***************************************************************************)
(* What the calls make of an order.                                        *)
(***************************************************************************)
\* One variable at most waits for another, and that one is free.
PlanIsSound ==
  /\ IsFiniteSet(plan.free)
  /\ \A a, b \in plan.prereq : a = b
  /\ \A arc \in plan.prereq : arc[1] # arc[2] /\ arc[2] \in plan.free

\* An order is a record of its five fields.
IsOrder(o) ==
  /\ \E w, p, b, v, h : o = [weight |-> w, pool |-> p, bound |-> b, versions |-> v, path |-> h]
  /\ IsList(o.path) /\ IsList(o.bound) /\ IsList(o.versions)

\* What the calls make of an order, field by field.
LEMMA Fields ==
  ASSUME NEW o, IsOrder(o), NEW x
  PROVE  /\ Bind(o, x) = [weight |-> o.weight, pool |-> o.pool \ {x}, bound |-> Append(o.bound, x),
                          versions |-> o.versions, path |-> Append(o.path, x)]
         /\ Pass(o, x) = [weight |-> o.weight, pool |-> o.pool, bound |-> o.bound,
                          versions |-> o.versions, path |-> Append(o.path, x)]
<1>1. PICK w, p, b, v, h : o = [weight |-> w, pool |-> p, bound |-> b, versions |-> v, path |-> h]
  BY DEF IsOrder
<1>2. w = o.weight /\ p = o.pool /\ b = o.bound /\ v = o.versions /\ h = o.path
  BY <1>1
<1> DEFINE path == Append(h, x)
           pool == p \ {x}
           bound == Append(b, x)
           first == [o EXCEPT !.path = path]
           second == [first EXCEPT !.pool = pool]
           third == [second EXCEPT !.bound = bound]
<1>3. Bind(o, x) = third /\ Pass(o, x) = first
  BY <1>1, <1>2 DEF Bind, Pass
<1> HIDE DEF path, pool, bound
<1>4. first = [weight |-> w, pool |-> p, bound |-> b, versions |-> v, path |-> path]
  BY <1>1
<1> HIDE DEF first
<1>5. second = [weight |-> w, pool |-> pool, bound |-> b, versions |-> v, path |-> path]
  BY <1>4
<1> HIDE DEF second
<1>6. third = [weight |-> w, pool |-> pool, bound |-> bound, versions |-> v, path |-> path]
  BY <1>5
<1> HIDE DEF third
<1> QED
  BY <1>2, <1>3, <1>4, <1>6 DEF path, pool, bound

\* What leaving a level makes of it.
LEMMA FinishedFields ==
  ASSUME NEW o, IsOrder(o)
  PROVE  Finished(o) = IF Level(o) > FreeCount
                       THEN [weight |-> o.weight, pool |-> o.pool, bound |-> o.bound,
                             versions |-> o.versions, path |-> WithoutLast(o.path)]
                       ELSE [weight |-> o.weight, pool |-> o.pool \cup {o.bound[Len(o.bound)]},
                             bound |-> WithoutLast(o.bound), versions |-> o.versions, path |-> WithoutLast(o.path)]
<1>1. PICK w, p, b, v, h : o = [weight |-> w, pool |-> p, bound |-> b, versions |-> v, path |-> h]
  BY DEF IsOrder
<1>2. w = o.weight /\ p = o.pool /\ b = o.bound /\ v = o.versions /\ h = o.path
  BY <1>1
<1> DEFINE path == WithoutLast(h)
           pool == p \cup {b[Len(b)]}
           bound == WithoutLast(b)
           first == [o EXCEPT !.path = path]
           second == [first EXCEPT !.pool = pool]
           third == [second EXCEPT !.bound = bound]
<1>3. first = [weight |-> w, pool |-> p, bound |-> b, versions |-> v, path |-> path]
  <2> HIDE DEF path
  <2> QED
    BY <1>1
<1>4. Finished(o) = IF Level(o) > FreeCount THEN first ELSE third
  <2>1. first = [o EXCEPT !.path = WithoutLast(o.path)] /\ first.pool = p /\ first.bound = b
    BY <1>1, <1>2, <1>3
  <2>2. third = [first EXCEPT !.pool = pool, !.bound = bound]
    OBVIOUS
  <2>3. Finished(o) = LET left == first
                      IN  IF Level(o) > FreeCount THEN left
                          ELSE [left EXCEPT !.pool = @ \cup {o.bound[Len(o.bound)]}, !.bound = WithoutLast(@)]
    BY <1>2 DEF Finished
  <2> HIDE DEF first, third
  <2> QED
    BY <1>2, <2>1, <2>2, <2>3
<1> HIDE DEF path, pool, bound, first
<1>5. second = [weight |-> w, pool |-> pool, bound |-> b, versions |-> v, path |-> path]
  BY <1>3
<1> HIDE DEF second
<1>6. third = [weight |-> w, pool |-> pool, bound |-> bound, versions |-> v, path |-> path]
  BY <1>5
<1> HIDE DEF third
<1> QED
  BY <1>2, <1>3, <1>4, <1>6 DEF path, pool, bound

\* The variables bound are the free ones of the levels entered.
Bounded(o) ==
  /\ IsOrder(o)
  /\ Len(o.bound) = IF Len(o.path) < FreeCount THEN Len(o.path) ELSE FreeCount
  /\ o.pool = plan.free \ BoundVars(o)
  /\ BoundVars(o) \subseteq plan.free
  /\ \A i, j \in 1..Len(o.bound) : o.bound[i] = o.bound[j] => i = j
  /\ \A i \in 1..Len(o.bound) : o.path[i] = o.bound[i]

\* Undoing the descents still in force gives the weights the order began with.
WeightsKept(o) == \A x \in plan.free : Original(o, x) = plan.weight[x]

\* The numbers an order is counted by.
LEMMA Counts ==
  ASSUME PlanIsSound, NEW o, IsOrder(o)
  PROVE  /\ FreeCount \in Nat /\ Level(o) = Len(o.path)
         /\ Len(o.path) \in Nat /\ DOMAIN o.path = 1..Len(o.path)
         /\ Len(o.bound) \in Nat /\ DOMAIN o.bound = 1..Len(o.bound)
         /\ Len(o.versions) \in Nat /\ DOMAIN o.versions = 1..Len(o.versions)
         /\ BoundVars(o) = {o.bound[i] : i \in 1..Len(o.bound)}
<1>1. FreeCount \in Nat
  BY FS_CardinalityType DEF PlanIsSound, FreeCount
<1> QED
  BY <1>1, ListPlaces DEF IsOrder, BoundVars, Level

\* With as many levels entered as there are free variables, all of them are bound.
LEMMA AllBound ==
  ASSUME PlanIsSound, NEW o, Bounded(o), Len(o.path) >= FreeCount
  PROVE  BoundVars(o) = plan.free /\ o.pool = {}
<1> DEFINE f == [i \in 1..FreeCount |-> o.bound[i]]
<1>1. FreeCount \in Nat /\ Len(o.bound) = FreeCount /\ BoundVars(o) = {o.bound[i] : i \in 1..FreeCount}
  BY Counts DEF Bounded
<1>2. f \in Injection(1..FreeCount, plan.free)
  BY <1>1 DEF Injection, IsInjective, Bounded
<1>3. Cardinality(1..FreeCount) = Cardinality(plan.free)
  BY <1>1, FS_Interval DEF FreeCount
<1>4. f \in Surjection(1..FreeCount, plan.free)
  BY <1>2, <1>3, FS_Injection DEF PlanIsSound
<1>5. plan.free \subseteq BoundVars(o)
  <2>1. SUFFICES ASSUME NEW x \in plan.free
                 PROVE  x \in BoundVars(o)
    OBVIOUS
  <2>2. PICK i \in 1..FreeCount : f[i] = x
    <3> HIDE DEF f
    <3> QED
      BY <1>4 DEF Surjection
  <2> QED
    BY <1>1, <2>2
<1> QED
  BY <1>5 DEF Bounded

\* A level that binds a free variable.
LEMMA BindKeeps ==
  ASSUME PlanIsSound, NEW o, Bounded(o), Len(o.path) < FreeCount, NEW x \in o.pool
  PROVE  /\ Bounded(Bind(o, x)) /\ Bind(o, x).path = Append(o.path, x)
         /\ Bind(o, x).versions = o.versions /\ Bind(o, x).weight = o.weight
<1> DEFINE b == Bind(o, x)
           path == Append(o.path, x)
           bound == Append(o.bound, x)
           n == Len(o.bound)
<1>1. /\ b = [weight |-> o.weight, pool |-> o.pool \ {x}, bound |-> bound, versions |-> o.versions, path |-> path]
  BY Fields DEF Bounded, Bind
<1>2. /\ FreeCount \in Nat /\ n \in Nat /\ Len(o.path) = n
      /\ BoundVars(o) = {o.bound[i] : i \in 1..n}
  BY Counts DEF Bounded
<1>3. /\ IsList(path) /\ Len(path) = n + 1 /\ path[n + 1] = x /\ \A i \in 1..n : path[i] = o.path[i]
      /\ IsList(bound) /\ Len(bound) = n + 1 /\ bound[n + 1] = x /\ \A i \in 1..n : bound[i] = o.bound[i]
  BY <1>2, ListAppend DEF Bounded, IsOrder
<1> HIDE DEF b, path, bound
<1>4. IsOrder(b) /\ b.path = path /\ b.bound = bound /\ b.pool = o.pool \ {x} /\ b.versions = o.versions /\ b.weight = o.weight
  BY <1>1, <1>3 DEF IsOrder, Bounded
<1>5. BoundVars(b) = BoundVars(o) \cup {x}
  <2>1. BoundVars(b) = {bound[i] : i \in 1..(n + 1)}
    BY <1>3, <1>4, ListPlaces DEF BoundVars
  <2>2. \A i \in 1..(n + 1) : i \in 1..n \/ i = n + 1
    BY <1>2
  <2>3. n + 1 \in 1..(n + 1) /\ \A i \in 1..n : i \in 1..(n + 1)
    BY <1>2
  <2>4. BoundVars(b) \subseteq BoundVars(o) \cup {x}
    BY <1>2, <1>3, <2>1, <2>2
  <2>5. BoundVars(o) \subseteq BoundVars(b)
    BY <1>2, <1>3, <2>1, <2>3
  <2>6. x \in BoundVars(b)
    BY <1>3, <2>1, <2>3
  <2> QED
    BY <2>4, <2>5, <2>6
<1>6. \A i, j \in 1..(n + 1) : bound[i] = bound[j] => i = j
  <2>1. \A i \in 1..n : o.bound[i] # x
    BY <1>2 DEF Bounded
  <2>2. \A i \in 1..(n + 1) : i \in 1..n \/ i = n + 1
    BY <1>2
  <2> QED
    BY <1>3, <2>1, <2>2 DEF Bounded
<1>7. \A i \in 1..(n + 1) : path[i] = bound[i]
  BY <1>2, <1>3 DEF Bounded
<1>8. Bounded(b)
  BY <1>2, <1>3, <1>4, <1>5, <1>6, <1>7 DEF Bounded
<1> QED
  BY <1>4, <1>8 DEF b, path

\* A level that comes after the free variables.
LEMMA PassKeeps ==
  ASSUME PlanIsSound, NEW o, Bounded(o), Len(o.path) >= FreeCount, NEW x
  PROVE  /\ Bounded(Pass(o, x)) /\ Pass(o, x).path = Append(o.path, x)
         /\ Pass(o, x).versions = o.versions /\ Pass(o, x).weight = o.weight
<1> DEFINE b == Pass(o, x)
           path == Append(o.path, x)
<1>1. b = [weight |-> o.weight, pool |-> o.pool, bound |-> o.bound, versions |-> o.versions, path |-> path]
  BY Fields DEF Bounded, Pass
<1>2. FreeCount \in Nat /\ Len(o.path) \in Nat /\ Len(o.bound) = FreeCount
  BY Counts DEF Bounded
<1>3. IsList(path) /\ Len(path) = Len(o.path) + 1 /\ \A i \in 1..Len(o.path) : path[i] = o.path[i]
  BY ListAppend DEF Bounded, IsOrder
<1> HIDE DEF b, path
<1>4. IsOrder(b) /\ b.path = path /\ b.bound = o.bound /\ b.pool = o.pool /\ b.versions = o.versions /\ b.weight = o.weight
  BY <1>1, <1>3 DEF IsOrder, Bounded
<1>5. BoundVars(b) = BoundVars(o)
  BY <1>4 DEF BoundVars
<1>6. Bounded(b)
  BY <1>2, <1>3, <1>4, <1>5 DEF Bounded
<1> QED
  BY <1>4, <1>6 DEF b, path

\* Leaving a level gives its variable back.
LEMMA FinishKeeps ==
  ASSUME PlanIsSound, NEW o, Bounded(o), Len(o.path) > 0
  PROVE  /\ Bounded(Finished(o)) /\ Finished(o).path = WithoutLast(o.path)
         /\ Finished(o).versions = o.versions /\ Finished(o).weight = o.weight
<1> DEFINE b == Finished(o)
           path == WithoutLast(o.path)
           bound == WithoutLast(o.bound)
           n == Len(o.bound)
<1>1. /\ FreeCount \in Nat /\ n \in Nat /\ Len(o.path) \in Nat /\ Level(o) = Len(o.path)
      /\ BoundVars(o) = {o.bound[i] : i \in 1..n}
  BY Counts DEF Bounded
<1>2. IsList(path) /\ Len(path) = Len(o.path) - 1 /\ \A i \in 1..(Len(o.path) - 1) : path[i] = o.path[i]
  BY ListWithoutLast DEF Bounded, IsOrder
<1>3. CASE Len(o.path) > FreeCount
  <2>1. b = [weight |-> o.weight, pool |-> o.pool, bound |-> o.bound, versions |-> o.versions, path |-> path]
    BY <1>1, <1>3, FinishedFields DEF Bounded
  <2> HIDE DEF b, path
  <2>2. IsOrder(b) /\ b.path = path /\ b.bound = o.bound /\ b.pool = o.pool /\ b.versions = o.versions /\ b.weight = o.weight
    BY <2>1, <1>2 DEF IsOrder, Bounded
  <2>3. BoundVars(b) = BoundVars(o)
    BY <2>2 DEF BoundVars
  <2>4. n = FreeCount
    BY <1>1, <1>3 DEF Bounded
  <2>5. Bounded(b)
    <3>1. \A i \in 1..n : path[i] = o.bound[i]
      <4>1. \A i \in 1..n : i \in 1..(Len(o.path) - 1) /\ o.path[i] = o.bound[i]
        BY <1>1, <1>3, <2>4 DEF Bounded
      <4> QED
        BY <1>2, <4>1
    <3>2. n = IF Len(path) < FreeCount THEN Len(path) ELSE FreeCount
      BY <1>1, <1>2, <1>3, <2>4
    <3> QED
      BY <2>2, <2>3, <3>1, <3>2 DEF Bounded
  <2> QED
    BY <2>2, <2>5 DEF b, path
<1>4. CASE ~(Len(o.path) > FreeCount)
  <2>1. n = Len(o.path) /\ n > 0
    BY <1>1, <1>4 DEF Bounded
  <2>2. b = [weight |-> o.weight, pool |-> o.pool \cup {o.bound[n]}, bound |-> bound, versions |-> o.versions, path |-> path]
    BY <1>1, <1>4, FinishedFields DEF Bounded
  <2>3. IsList(bound) /\ Len(bound) = n - 1 /\ \A i \in 1..(n - 1) : bound[i] = o.bound[i]
    BY <2>1, ListWithoutLast DEF Bounded, IsOrder
  <2> HIDE DEF b, path, bound
  <2>4. IsOrder(b) /\ b.path = path /\ b.bound = bound /\ b.pool = o.pool \cup {o.bound[n]}
        /\ b.versions = o.versions /\ b.weight = o.weight
    BY <2>2, <2>3, <1>2 DEF IsOrder, Bounded
  <2>5. BoundVars(b) = {o.bound[i] : i \in 1..(n - 1)}
    <3>1. BoundVars(b) = {bound[i] : i \in 1..(n - 1)}
      BY <2>3, <2>4, ListPlaces DEF BoundVars
    <3> QED
      BY <2>3, <3>1
  <2>6. BoundVars(b) = BoundVars(o) \ {o.bound[n]}
    <3>1. \A i \in 1..(n - 1) : i \in 1..n /\ o.bound[i] # o.bound[n]
      BY <1>1, <2>1 DEF Bounded
    <3>2. \A i \in 1..n : i \in 1..(n - 1) \/ i = n
      BY <1>1
    <3> QED
      BY <1>1, <2>5, <3>1, <3>2
  <2>7. b.pool = plan.free \ BoundVars(b) /\ BoundVars(b) \subseteq plan.free
    <3>1. o.bound[n] \in BoundVars(o)
      BY <1>1, <2>1
    <3> QED
      BY <2>4, <2>6, <3>1 DEF Bounded
  <2>8. /\ \A i, j \in 1..(n - 1) : bound[i] = bound[j] => i = j
        /\ \A i \in 1..(n - 1) : path[i] = bound[i]
    <3>1. \A i \in 1..(n - 1) : i \in 1..n
      BY <1>1
    <3> QED
      BY <1>2, <2>1, <2>3, <3>1 DEF Bounded
  <2>9. Bounded(b)
    BY <1>1, <1>2, <1>4, <2>1, <2>3, <2>4, <2>7, <2>8 DEF Bounded
  <2> QED
    BY <2>4, <2>9 DEF b, path
<1> QED
  BY <1>3, <1>4

(***************************************************************************)
(* Weights narrowed and given back.                                        *)
(***************************************************************************)
\* The weights and versions of an order changed, and nothing else.
Weighed(o, weight, versions) == [o EXCEPT !.weight = weight, !.versions = versions]

\* Its fields.
LEMMA WeightFields ==
  ASSUME NEW o, IsOrder(o), NEW weight, NEW versions, IsList(versions)
  PROVE  /\ Weighed(o, weight, versions)
               = [weight |-> weight, pool |-> o.pool, bound |-> o.bound, versions |-> versions, path |-> o.path]
         /\ IsOrder([weight |-> weight, pool |-> o.pool, bound |-> o.bound, versions |-> versions, path |-> o.path])
<1>1. PICK w, p, b, v, h : o = [weight |-> w, pool |-> p, bound |-> b, versions |-> v, path |-> h]
  BY DEF IsOrder
<1>2. w = o.weight /\ p = o.pool /\ b = o.bound /\ v = o.versions /\ h = o.path
  BY <1>1
<1> DEFINE first == [o EXCEPT !.weight = weight]
           second == [first EXCEPT !.versions = versions]
<1>3. Weighed(o, weight, versions) = second
  BY DEF Weighed
<1>4. first = [weight |-> weight, pool |-> p, bound |-> b, versions |-> v, path |-> h]
  BY <1>1
<1> HIDE DEF first
<1>5. second = [weight |-> weight, pool |-> p, bound |-> b, versions |-> versions, path |-> h]
  BY <1>4
<1> HIDE DEF second
<1>6. IsOrder([weight |-> weight, pool |-> p, bound |-> b, versions |-> versions, path |-> h])
  BY <1>2 DEF IsOrder
<1> QED
  BY <1>2, <1>3, <1>5, <1>6

\* Changing weights and versions leaves what is bound.
LEMMA WeightsBound ==
  ASSUME NEW o, Bounded(o), NEW weight, NEW versions, IsList(versions)
  PROVE  Bounded([weight |-> weight, pool |-> o.pool, bound |-> o.bound, versions |-> versions, path |-> o.path])
<1> DEFINE n == [weight |-> weight, pool |-> o.pool, bound |-> o.bound, versions |-> versions, path |-> o.path]
<1>1. IsOrder(n)
  BY WeightFields DEF Bounded
<1>2. n.pool = o.pool /\ n.bound = o.bound /\ n.path = o.path
  OBVIOUS
<1> HIDE DEF n
<1>3. BoundVars(n) = BoundVars(o)
  BY <1>2 DEF BoundVars
<1>4. Bounded(n)
  BY <1>1, <1>2, <1>3 DEF Bounded
<1> QED
  BY <1>4 DEF n

\* A descent narrows weights and remembers what they were.
LEMMA NarrowKeeps ==
  ASSUME PlanIsSound, NEW o, Bounded(o), WeightsKept(o), NEW sizes
  PROVE  LET n == Narrowed(o, sizes)
         IN  /\ Bounded(n) /\ WeightsKept(n) /\ n.path = o.path
             /\ Len(n.versions) = Len(o.versions) + IF Len(o.path) > FreeCount THEN 0 ELSE 1
<1> DEFINE n == Narrowed(o, sizes)
<1>1. /\ FreeCount \in Nat /\ Level(o) = Len(o.path) /\ Len(o.path) \in Nat /\ Len(o.versions) \in Nat
  BY Counts DEF Bounded
<1>2. CASE Len(o.path) > FreeCount
  <2>1. n = o
    BY <1>1, <1>2 DEF Narrowed
  <2> HIDE DEF n
  <2>2. Bounded(n) /\ WeightsKept(n) /\ n.path = o.path /\ Len(n.versions) = Len(o.versions) + 0
    BY <1>1, <2>1
  <2> QED
    BY <1>2, <2>2 DEF n
<1>3. CASE ~(Len(o.path) > FreeCount)
  <2>1. PICK lower : /\ lower \subseteq plan.free
                     /\ n = [o EXCEPT !.weight = [x \in plan.free |-> IF x \in lower THEN sizes[x] ELSE o.weight[x]],
                                      !.versions = Append(o.versions, [x \in lower |-> o.weight[x]])]
    <3> DEFINE last == o.bound[Len(o.bound)]
               lower == {x \in (plan.related[last] \cap plan.free) \ BoundVars(o) : sizes[x] < o.weight[x]}
    <3>1. n = [o EXCEPT !.weight = [x \in plan.free |-> IF x \in lower THEN sizes[x] ELSE o.weight[x]],
                        !.versions = Append(o.versions, [x \in lower |-> o.weight[x]])]
      BY <1>1, <1>3 DEF Narrowed
    <3>2. lower \subseteq plan.free
      OBVIOUS
    <3> HIDE DEF lower
    <3> QED
      BY <3>1, <3>2
  <2> DEFINE weight == [x \in plan.free |-> IF x \in lower THEN sizes[x] ELSE o.weight[x]]
             version == [x \in lower |-> o.weight[x]]
             versions == Append(o.versions, version)
             m == Len(o.versions)
  <2>2. DOMAIN version = lower /\ (\A x \in lower : version[x] = o.weight[x]) /\ \A x \in plan.free \ lower : weight[x] = o.weight[x]
    BY <2>1
  <2>3. n = Weighed(o, weight, versions)
    BY <2>1 DEF Weighed
  <2> HIDE DEF n, weight, version
  <2>4. IsList(versions) /\ Len(versions) = m + 1 /\ versions[m + 1] = version /\ \A i \in 1..m : versions[i] = o.versions[i]
    BY ListAppend DEF Bounded, IsOrder
  <2> HIDE DEF versions
  <2>5. n = [weight |-> weight, pool |-> o.pool, bound |-> o.bound, versions |-> versions, path |-> o.path]
    BY <2>3, <2>4, WeightFields DEF Bounded
  <2>6. Bounded(n) /\ n.weight = weight /\ n.versions = versions /\ n.path = o.path
    BY <2>4, <2>5, WeightsBound
  <2>7. ASSUME NEW x \in plan.free
        PROVE  Original(n, x) = Original(o, x)
    <3>1. CASE \A i \in 1..m : x \notin DOMAIN o.versions[i]
      <4>1. Original(o, x) = o.weight[x]
        BY <3>1, OriginalIs DEF Bounded, IsOrder
      <4>2. CASE x \in lower
        <5>1. m + 1 \in 1..Len(n.versions) /\ x \in DOMAIN n.versions[m + 1] /\ \A i \in 1..((m + 1) - 1) : x \notin DOMAIN n.versions[i]
          BY <1>1, <2>2, <2>4, <2>6, <3>1, <4>2
        <5>2. Original(n, x) = n.versions[m + 1][x]
          BY <2>6, <5>1, OriginalIs DEF Bounded, IsOrder
        <5> QED
          BY <2>2, <2>4, <2>6, <4>1, <4>2, <5>2
      <4>3. CASE x \notin lower
        <5>1. \A i \in 1..Len(n.versions) : x \notin DOMAIN n.versions[i]
          <6>1. \A i \in 1..(m + 1) : i \in 1..m \/ i = m + 1
            BY <1>1
          <6> QED
            BY <2>2, <2>4, <2>6, <3>1, <4>3, <6>1
        <5>2. Original(n, x) = n.weight[x]
          BY <2>6, <5>1, OriginalIs DEF Bounded, IsOrder
        <5> QED
          BY <2>2, <2>6, <4>1, <4>3, <5>2
      <4> QED
        BY <4>2, <4>3
    <3>2. CASE \E k \in 1..m : x \in DOMAIN o.versions[k] /\ \A i \in 1..(k - 1) : x \notin DOMAIN o.versions[i]
      <4>1. PICK k \in 1..m : x \in DOMAIN o.versions[k] /\ \A i \in 1..(k - 1) : x \notin DOMAIN o.versions[i]
        BY <3>2
      <4>2. Original(o, x) = o.versions[k][x]
        BY <4>1, OriginalIs DEF Bounded, IsOrder
      <4>3. k \in 1..Len(n.versions) /\ x \in DOMAIN n.versions[k] /\ \A i \in 1..(k - 1) : x \notin DOMAIN n.versions[i]
        BY <1>1, <2>4, <2>6, <4>1
      <4>4. Original(n, x) = n.versions[k][x]
        BY <2>6, <4>3, OriginalIs DEF Bounded, IsOrder
      <4> QED
        BY <2>4, <2>6, <4>2, <4>4
    <3> QED
      BY <3>1, <3>2, OriginalIs DEF Bounded, IsOrder
  <2>8. WeightsKept(n)
    BY <2>7 DEF WeightsKept
  <2> QED
    BY <1>1, <1>3, <2>4, <2>6, <2>8 DEF n
<1> QED
  BY <1>2, <1>3

\* Coming up from the descent gives the weights back.
LEMMA WidenKeeps ==
  ASSUME PlanIsSound, NEW o, Bounded(o), WeightsKept(o), Len(o.path) <= FreeCount => Len(o.versions) > 0
  PROVE  LET n == Widened(o)
         IN  /\ Bounded(n) /\ WeightsKept(n) /\ n.path = o.path
             /\ Len(n.versions) = Len(o.versions) - IF Len(o.path) > FreeCount THEN 0 ELSE 1
<1> DEFINE n == Widened(o)
           m == Len(o.versions)
<1>1. /\ FreeCount \in Nat /\ Level(o) = Len(o.path) /\ Len(o.path) \in Nat /\ m \in Nat
  BY Counts DEF Bounded
<1>2. CASE Len(o.path) > FreeCount
  <2>1. n = o
    BY <1>1, <1>2 DEF Widened
  <2> HIDE DEF n
  <2>2. Bounded(n) /\ WeightsKept(n) /\ n.path = o.path /\ Len(n.versions) = Len(o.versions) - 0
    BY <1>1, <2>1
  <2> QED
    BY <1>2, <2>2 DEF n
<1>3. CASE ~(Len(o.path) > FreeCount)
  <2> DEFINE version == o.versions[m]
             weight == [x \in plan.free |-> IF x \in DOMAIN version THEN version[x] ELSE o.weight[x]]
             versions == WithoutLast(o.versions)
  <2>1. m > 0
    BY <1>1, <1>3
  <2>2. n = Weighed(o, weight, versions)
    BY <1>1, <1>3 DEF Widened, Weighed
  <2>3. \A x \in plan.free : weight[x] = IF x \in DOMAIN version THEN version[x] ELSE o.weight[x]
    OBVIOUS
  <2> HIDE DEF n, weight, version
  <2>4. IsList(versions) /\ Len(versions) = m - 1 /\ \A i \in 1..(m - 1) : versions[i] = o.versions[i]
    BY <2>1, ListWithoutLast DEF Bounded, IsOrder
  <2> HIDE DEF versions
  <2>5. n = [weight |-> weight, pool |-> o.pool, bound |-> o.bound, versions |-> versions, path |-> o.path]
    BY <2>2, <2>4, WeightFields DEF Bounded
  <2>6. Bounded(n) /\ n.weight = weight /\ n.versions = versions /\ n.path = o.path
    BY <2>4, <2>5, WeightsBound
  <2>7. ASSUME NEW x \in plan.free
        PROVE  Original(n, x) = Original(o, x)
    <3>1. CASE \A i \in 1..(m - 1) : x \notin DOMAIN o.versions[i]
      <4>1. Original(o, x) = weight[x]
        <5>1. CASE x \in DOMAIN version
          BY <1>1, <2>1, <2>3, <3>1, <5>1, OriginalIs DEF Bounded, IsOrder, version
        <5>2. CASE x \notin DOMAIN version
          <6>1. \A i \in 1..m : x \notin DOMAIN o.versions[i]
            <7>1. \A i \in 1..m : i \in 1..(m - 1) \/ i = m
              BY <1>1
            <7> QED
              BY <3>1, <5>2, <7>1 DEF version
          <6> QED
            BY <2>3, <5>2, <6>1, OriginalIs DEF Bounded, IsOrder
        <5> QED
          BY <5>1, <5>2
      <4>2. \A i \in 1..Len(n.versions) : x \notin DOMAIN n.versions[i]
        BY <2>4, <2>6, <3>1
      <4> QED
        BY <2>6, <4>1, <4>2, OriginalIs DEF Bounded, IsOrder
    <3>2. CASE \E k \in 1..(m - 1) : x \in DOMAIN o.versions[k]
      <4> DEFINE at == {k \in 1..(m - 1) : x \in DOMAIN o.versions[k]}
      <4>1. PICK k \in at : \A j \in at : k <= j
        <5>1. at \subseteq Nat /\ at # {}
          BY <1>1, <3>2
        <5> HIDE DEF at
        <5> QED
          BY <5>1, LeastNumber
      <4>2. k \in 1..(m - 1) /\ k \in 1..m /\ x \in DOMAIN o.versions[k] /\ \A i \in 1..(k - 1) : x \notin DOMAIN o.versions[i]
        BY <1>1, <4>1
      <4>3. Original(o, x) = o.versions[k][x]
        BY <4>2, OriginalIs DEF Bounded, IsOrder
      <4>4. k \in 1..Len(n.versions) /\ x \in DOMAIN n.versions[k] /\ \A i \in 1..(k - 1) : x \notin DOMAIN n.versions[i]
        <5>1. \A i \in 1..(k - 1) : i \in 1..(m - 1)
          BY <1>1, <4>2
        <5> QED
          BY <2>4, <2>6, <4>2, <5>1
      <4>5. Original(n, x) = n.versions[k][x]
        BY <2>6, <4>4, OriginalIs DEF Bounded, IsOrder
      <4> QED
        BY <2>4, <2>6, <4>2, <4>3, <4>5
    <3> QED
      BY <3>1, <3>2
  <2>8. WeightsKept(n)
    BY <2>7 DEF WeightsKept
  <2> QED
    BY <1>1, <1>3, <2>4, <2>6, <2>8 DEF n
<1> QED
  BY <1>2, <1>3

(***************************************************************************)
(* The invariant.                                                          *)
(***************************************************************************)
\* How many of the first levels bind a free variable.
Upto(n) == IF n < FreeCount THEN n ELSE FreeCount

\* On a path no variable comes before the one it waits for.
Anchored(path) ==
  \A arc \in plan.prereq : \A i \in 1..Len(path) : path[i] = arc[1] => \E j \in 1..(i - 1) : path[j] = arc[2]

\* A path that may be forced again.
GoodPrefix(g) ==
  /\ IsList(g) /\ Len(g) > 0
  /\ \A i \in 1..Len(g) : i <= FreeCount => g[i] \in plan.free
  /\ \A i, j \in 1..Len(g) : i <= FreeCount /\ j <= FreeCount /\ g[i] = g[j] => i = j
  /\ Anchored(g)

\* A filed path is as far forced as the order has levels.
Replaying ==
  /\ Level(order) = replayed /\ Len(order.versions) = 0 /\ IsList(todo) /\ Len(todo) > 0
  /\ \E g \in prefixes : /\ Len(g) = replayed + Len(todo)
                         /\ \A i \in 1..replayed : order.path[i] = g[i]
                         /\ \A i \in 1..Len(todo) : todo[i] = g[replayed + i]

\* Between two calls there is a version for each level entered since the last force.
Counted ==
  /\ phase \in {"below", "back"} => /\ Level(order) >= replayed
                                    /\ Len(order.versions) = Upto(Level(order)) - Upto(replayed)
  /\ phase = "open" => /\ Level(order) >= replayed + 1
                       /\ Len(order.versions) = Upto(Level(order) - 1) - Upto(replayed)
  /\ phase = "replay" => Replaying

\* The inductive invariant.
OrderInv ==
  /\ PlanIsSound
  /\ Bounded(order) /\ WeightsKept(order) /\ Anchored(order.path)
  /\ \A g \in prefixes : GoodPrefix(g)
  /\ replayed \in Nat /\ phase \in {"below", "back", "open", "replay"}
  /\ Counted

\* The invariant says what the search promises of its order.
LEMMA InvSays ==
  ASSUME OrderInv
  PROVE  OrderIsRestored /\ AnchorComesFirst
<1>1. /\ DOMAIN order.path = 1..Len(order.path) /\ DOMAIN order.bound = 1..Len(order.bound)
      /\ Len(order.path) \in Nat /\ Len(order.bound) \in Nat /\ FreeCount \in Nat
  BY Counts DEF OrderInv, Bounded
<1>2. OrderIsRestored
  <2>1. \A i \in 1..Len(order.bound) : i \in 1..Len(order.path)
    BY <1>1 DEF OrderInv, Bounded
  <2> QED
    BY <1>1, <2>1 DEF OrderIsRestored, OrderInv, Bounded, WeightsKept
<1>3. AnchorComesFirst
  BY <1>1 DEF AnchorComesFirst, OrderInv, Anchored
<1> QED
  BY <1>2, <1>3

\* An order with nothing bound.
LEMMA FreshKeeps ==
  ASSUME NEW p, InitOrder(p), PlanIsSound
  PROVE  OrderInv
<1>1. plan = p /\ order = Fresh(p) /\ phase = "below" /\ prefixes = {} /\ replayed = 0
  BY DEF InitOrder
<1>2. order.weight = p.weight /\ order.pool = p.free /\ order.bound = <<>> /\ order.versions = <<>> /\ order.path = <<>>
  BY <1>1 DEF Fresh
<1>3. IsOrder(order)
  BY <1>1, <1>2, ListEmpty DEF IsOrder, Fresh
<1>4. FreeCount \in Nat
  BY FS_CardinalityType DEF PlanIsSound, FreeCount
<1>5. BoundVars(order) = {}
  BY <1>2 DEF BoundVars
<1>6. Bounded(order)
  BY <1>1, <1>2, <1>3, <1>4, <1>5, ListEmpty DEF Bounded
<1>7. WeightsKept(order)
  <2>1. \A i \in 1..Len(order.versions) : FALSE
    BY <1>2
  <2>2. \A x : Original(order, x) = order.weight[x]
    BY <2>1, <1>3, OriginalIs DEF IsOrder
  <2> QED
    BY <1>1, <1>2, <2>2 DEF WeightsKept
<1>8. Anchored(order.path)
  BY <1>2 DEF Anchored
<1>9. Counted
  BY <1>1, <1>2, <1>4, ListEmpty DEF Counted, Level, Upto
<1> QED
  BY <1>1, <1>6, <1>7, <1>8, <1>9 DEF OrderInv

\* The weights an order began with depend on its weights and versions only.
LEMMA SameWeights ==
  ASSUME NEW o, NEW n, n.weight = o.weight, n.versions = o.versions, WeightsKept(o)
  PROVE  WeightsKept(n)
<1>1. \A x : Original(n, x) = Original(o, x)
  BY DEF Original
<1> QED
  BY <1>1 DEF WeightsKept

\* The variable chosen next does not come before the one it waits for.
LEMMA NextWaits ==
  ASSUME PlanIsSound, NEW o, Bounded(o), NEW x \in NextVars(o), NEW arc \in plan.prereq, x = arc[1]
  PROVE  /\ Len(o.path) < FreeCount => x \in o.pool
         /\ \E j \in 1..Len(o.path) : o.path[j] = arc[2]
<1>1. /\ FreeCount \in Nat /\ Level(o) = Len(o.path) /\ Len(o.path) \in Nat /\ Len(o.bound) \in Nat
      /\ BoundVars(o) = {o.bound[i] : i \in 1..Len(o.bound)}
  BY Counts DEF Bounded
<1>2. ASSUME arc[2] \in BoundVars(o)
      PROVE  \E j \in 1..Len(o.path) : o.path[j] = arc[2]
  BY <1>1, <1>2 DEF Bounded
<1>3. arc[2] \in plan.free /\ arc[1] # arc[2] /\ \A a \in plan.prereq : a = arc
  BY DEF PlanIsSound
<1>4. CASE Len(o.path) >= FreeCount
  <2>1. arc[2] \in BoundVars(o)
    BY <1>3, <1>4, AllBound
  <2> QED
    BY <1>1, <1>2, <1>4, <2>1
<1>5. CASE Len(o.path) < FreeCount
  <2> DEFINE able == {y \in o.pool : Eligible(o, y)}
  <2>1. x \in Candidates(o)
    BY <1>1, <1>5 DEF NextVars
  <2>2. x \in o.pool /\ (able # {} => Eligible(o, x))
    BY <2>1 DEF Candidates, Lightest
  <2>3. arc[2] \in BoundVars(o)
    <3>1. SUFFICES ASSUME arc[2] \notin BoundVars(o)
                   PROVE  FALSE
      OBVIOUS
    <3>2. arc[2] \in o.pool
      BY <1>3, <3>1 DEF Bounded
    <3>3. Eligible(o, arc[2])
      BY <1>3 DEF Eligible
    <3>4. Eligible(o, x)
      BY <2>2, <3>2, <3>3
    <3> QED
      BY <1>3, <3>1, <3>4 DEF Eligible
  <2> QED
    BY <1>2, <2>2, <2>3
<1> QED
  BY <1>1, <1>4, <1>5

(***************************************************************************)
(* Levels entered, left and forced.                                        *)
(***************************************************************************)
\* A longer path keeps an anchor before what waits for it, if the new variable waits for none below.
LEMMA AnchoredAppend ==
  ASSUME NEW path, IsList(path), Anchored(path), NEW x,
         \A arc \in plan.prereq : x = arc[1] => \E j \in 1..Len(path) : path[j] = arc[2]
  PROVE  Anchored(Append(path, x))
<1> DEFINE n == Len(path)
           longer == Append(path, x)
<1>1. n \in Nat /\ Len(longer) = n + 1 /\ longer[n + 1] = x /\ \A i \in 1..n : longer[i] = path[i]
  BY ListPlaces, ListAppend
<1> HIDE DEF longer
<1>2. ASSUME NEW arc \in plan.prereq, NEW i \in 1..(n + 1), longer[i] = arc[1]
      PROVE  \E j \in 1..(i - 1) : longer[j] = arc[2]
  <2>1. PICK j \in 1..(i - 1) : j \in 1..n /\ path[j] = arc[2]
    <3>1. CASE i = n + 1
      BY <1>1, <1>2, <3>1
    <3>2. CASE i \in 1..n
      BY <1>1, <1>2, <3>2 DEF Anchored
    <3> QED
      BY <1>1, <3>1, <3>2
  <2> QED
    BY <1>1, <2>1
<1>3. Anchored(longer)
  BY <1>1, <1>2 DEF Anchored
<1> QED
  BY <1>3 DEF longer

\* So does a shorter one.
LEMMA AnchoredShort ==
  ASSUME NEW path, IsList(path), Len(path) > 0, Anchored(path)
  PROVE  Anchored(WithoutLast(path))
<1> DEFINE n == Len(path)
           shorter == WithoutLast(path)
<1>1. n \in Nat /\ Len(shorter) = n - 1 /\ \A i \in 1..(n - 1) : shorter[i] = path[i]
  BY ListPlaces, ListWithoutLast
<1> HIDE DEF shorter
<1>2. ASSUME NEW arc \in plan.prereq, NEW i \in 1..(n - 1), shorter[i] = arc[1]
      PROVE  \E j \in 1..(i - 1) : shorter[j] = arc[2]
  <2>1. i \in 1..n /\ path[i] = arc[1]
    BY <1>1, <1>2
  <2>2. PICK j \in 1..(i - 1) : path[j] = arc[2]
    BY <1>2, <2>1 DEF Anchored
  <2> QED
    BY <1>1, <2>1, <2>2
<1>3. Anchored(shorter)
  BY <1>1, <1>2 DEF Anchored
<1> QED
  BY <1>3 DEF shorter

\* A level entered.
LEMMA TakenKeeps ==
  ASSUME OrderInv, NEW x \in NextVars(order)
  PROVE  LET o == Taken(order, x)
         IN  /\ Bounded(o) /\ WeightsKept(o) /\ Anchored(o.path)
             /\ Len(o.path) = Len(order.path) + 1 /\ o.versions = order.versions
<1> DEFINE o == Taken(order, x)
<1>1. /\ FreeCount \in Nat /\ Level(order) = Len(order.path) /\ Len(order.path) \in Nat /\ IsList(order.path)
      /\ PlanIsSound /\ Bounded(order) /\ WeightsKept(order) /\ Anchored(order.path)
  BY Counts DEF OrderInv, Bounded, IsOrder
<1>2. Bounded(o) /\ o.path = Append(order.path, x) /\ o.versions = order.versions /\ o.weight = order.weight
  <2>1. CASE Len(order.path) < FreeCount
    <3>1. x \in order.pool
      BY <1>1, <2>1 DEF NextVars, Candidates, Lightest
    <3> QED
      BY <1>1, <2>1, <3>1, BindKeeps DEF Taken
  <2>2. CASE Len(order.path) >= FreeCount
    BY <1>1, <2>2, PassKeeps DEF Taken
  <2> QED
    BY <1>1, <2>1, <2>2
<1> HIDE DEF o
<1>3. WeightsKept(o)
  BY <1>1, <1>2, SameWeights
<1>4. \A arc \in plan.prereq : x = arc[1] => \E j \in 1..Len(order.path) : order.path[j] = arc[2]
  BY <1>1, NextWaits
<1>5. Anchored(o.path) /\ Len(o.path) = Len(order.path) + 1
  BY <1>1, <1>2, <1>4, AnchoredAppend, ListAppend
<1> QED
  BY <1>2, <1>3, <1>5 DEF o

\* A level left.
LEMMA LeftKeeps ==
  ASSUME OrderInv, Len(order.path) > 0
  PROVE  LET o == Finished(order)
         IN  /\ Bounded(o) /\ WeightsKept(o) /\ Anchored(o.path)
             /\ Len(o.path) = Len(order.path) - 1 /\ o.versions = order.versions
<1> DEFINE o == Finished(order)
<1>1. /\ PlanIsSound /\ Bounded(order) /\ WeightsKept(order) /\ Anchored(order.path) /\ IsList(order.path)
  BY DEF OrderInv, Bounded, IsOrder
<1>2. Bounded(o) /\ o.path = WithoutLast(order.path) /\ o.versions = order.versions /\ o.weight = order.weight
  BY <1>1, FinishKeeps
<1> HIDE DEF o
<1>3. WeightsKept(o)
  BY <1>1, <1>2, SameWeights
<1>4. Anchored(o.path) /\ Len(o.path) = Len(order.path) - 1
  BY <1>1, <1>2, AnchoredShort, ListWithoutLast
<1> QED
  BY <1>2, <1>3, <1>4 DEF o

\* The next variable of a filed path is bound as it was when the path was filed.
LEMMA ForcedKeeps ==
  ASSUME OrderInv, Replaying
  PROVE  LET o == Forced(order, todo[1])
         IN  /\ Bounded(o) /\ WeightsKept(o) /\ Anchored(o.path)
             /\ Len(o.path) = Len(order.path) + 1 /\ o.versions = order.versions
             /\ IsList(o.path) /\ o.path[Len(order.path) + 1] = todo[1]
             /\ \A i \in 1..Len(order.path) : o.path[i] = order.path[i]
<1> DEFINE x == todo[1]
           o == Forced(order, x)
           n == Len(order.path)
<1>1. /\ FreeCount \in Nat /\ n \in Nat /\ replayed = n /\ IsList(order.path)
      /\ Len(order.bound) \in Nat /\ BoundVars(order) = {order.bound[i] : i \in 1..Len(order.bound)}
      /\ PlanIsSound /\ Bounded(order) /\ WeightsKept(order) /\ Anchored(order.path)
  BY Counts DEF OrderInv, Bounded, IsOrder, Replaying, Level
<1>2. PICK g \in prefixes : /\ Len(g) = n + Len(todo)
                            /\ \A i \in 1..n : order.path[i] = g[i]
                            /\ \A i \in 1..Len(todo) : todo[i] = g[n + i]
  BY <1>1 DEF Replaying
<1>3. GoodPrefix(g) /\ Len(todo) \in Nat /\ Len(todo) > 0
  BY <1>2, ListPlaces DEF OrderInv, Replaying
<1>4. n + 1 \in 1..Len(g) /\ x = g[n + 1] /\ \A i \in 1..n : i \in 1..Len(g)
  BY <1>1, <1>2, <1>3
<1>5. Bounded(o) /\ o.path = Append(order.path, x) /\ o.versions = order.versions /\ o.weight = order.weight
  <2>1. CASE n < FreeCount
    <3>1. x \in plan.free
      BY <1>1, <1>3, <1>4, <2>1 DEF GoodPrefix
    <3>2. Len(order.bound) = n /\ \A i \in 1..n : order.bound[i] = g[i]
      BY <1>1, <1>2, <2>1 DEF Bounded
    <3>3. \A i \in 1..n : g[i] # x
      BY <1>1, <1>3, <1>4, <2>1 DEF GoodPrefix
    <3>4. x \in order.pool
      BY <1>1, <3>1, <3>2, <3>3 DEF Bounded
    <3> HIDE DEF x
    <3>5. o = Bind(order, x)
      BY <3>4 DEF Forced
    <3> QED
      BY <1>1, <2>1, <3>4, <3>5, BindKeeps
  <2>2. CASE n >= FreeCount
    <3>1. order.pool = {}
      BY <1>1, <2>2, AllBound
    <3> HIDE DEF x
    <3>2. o = Pass(order, x)
      BY <3>1 DEF Forced
    <3> QED
      BY <1>1, <2>2, <3>2, PassKeeps
  <2> QED
    BY <1>1, <2>1, <2>2
<1> HIDE DEF o, x
<1>6. WeightsKept(o)
  BY <1>1, <1>5, SameWeights
<1>7. \A arc \in plan.prereq : x = arc[1] => \E j \in 1..n : order.path[j] = arc[2]
  <2>1. SUFFICES ASSUME NEW arc \in plan.prereq, x = arc[1]
                 PROVE  \E j \in 1..n : order.path[j] = arc[2]
    OBVIOUS
  <2>2. PICK j \in 1..((n + 1) - 1) : g[j] = arc[2]
    BY <1>3, <1>4, <2>1 DEF GoodPrefix, Anchored
  <2> QED
    BY <1>1, <1>2, <2>2
<1>8. /\ Anchored(o.path) /\ Len(o.path) = n + 1 /\ IsList(o.path) /\ o.path[n + 1] = x
      /\ \A i \in 1..n : o.path[i] = order.path[i]
  BY <1>1, <1>5, <1>7, AnchoredAppend, ListAppend
<1> QED
  BY <1>5, <1>6, <1>8 DEF o, x

(***************************************************************************)
(* The steps of the order.                                                 *)
(***************************************************************************)
\* What is said of an order under a plan that stays is said of it afterwards.
LEMMA PlanStays ==
  ASSUME plan' = plan, PlanIsSound, Bounded(order'), WeightsKept(order'), Anchored(order'.path)
  PROVE  PlanIsSound' /\ Bounded(order)' /\ WeightsKept(order)' /\ Anchored(order.path)'
<1>1. PlanIsSound'
  BY DEF PlanIsSound
<1>2. Bounded(order)'
  BY DEF Bounded, IsOrder, IsList, FreeCount, BoundVars
<1>3. WeightsKept(order)'
  BY DEF WeightsKept, Original
<1>4. Anchored(order.path)'
  BY DEF Anchored
<1> QED
  BY <1>1, <1>2, <1>3, <1>4

\* The paths filed stay good.
LEMMA PrefixesStay ==
  ASSUME plan' = plan, OrderInv, \A g \in prefixes' : g \in prefixes \/ GoodPrefix(g)
  PROVE  (\A g \in prefixes : GoodPrefix(g))'
<1>1. \A g \in prefixes' : GoodPrefix(g)
  BY DEF OrderInv
<1> QED
  BY <1>1 DEF GoodPrefix, IsList, Anchored, FreeCount

\* The levels counted before and after.
LEMMA Levels ==
  ASSUME OrderInv
  PROVE  /\ FreeCount \in Nat /\ Level(order) = Len(order.path) /\ Len(order.path) \in Nat
         /\ Len(order.versions) \in Nat /\ replayed \in Nat
BY Counts DEF OrderInv, Bounded

\* A level entered.
LEMMA NextVarStep ==
  ASSUME OrderInv, NEW x, NextVar(x)
  PROVE  OrderInv'
<1>1. /\ phase = "below" /\ x \in NextVars(order) /\ order' = Taken(order, x) /\ phase' = "open"
      /\ plan' = plan /\ prefixes' = prefixes /\ todo' = todo /\ replayed' = replayed
  BY DEF NextVar
<1>2. /\ Bounded(order') /\ WeightsKept(order') /\ Anchored(order'.path)
      /\ Len(order'.path) = Len(order.path) + 1 /\ order'.versions = order.versions
  BY <1>1, TakenKeeps
<1>3. PlanIsSound' /\ Bounded(order)' /\ WeightsKept(order)' /\ Anchored(order.path)'
  BY <1>1, <1>2, PlanStays DEF OrderInv
<1>4. (\A g \in prefixes : GoodPrefix(g))'
  BY <1>1, PrefixesStay
<1>5. Counted'
  BY <1>1, <1>2, Levels DEF OrderInv, Counted, Level, Upto, FreeCount
<1> QED
  BY <1>1, <1>3, <1>4, <1>5 DEF OrderInv

\* A search that turns back.
LEMMA TurnBackStep ==
  ASSUME OrderInv, TurnBack
  PROVE  OrderInv'
<1>1. /\ phase = "below" /\ phase' = "back"
      /\ plan' = plan /\ order' = order /\ prefixes' = prefixes /\ todo' = todo /\ replayed' = replayed
  BY DEF TurnBack
<1>2. PlanIsSound' /\ Bounded(order)' /\ WeightsKept(order)' /\ Anchored(order.path)'
  BY <1>1, PlanStays DEF OrderInv
<1>3. (\A g \in prefixes : GoodPrefix(g))'
  BY <1>1, PrefixesStay
<1>4. Counted'
  BY <1>1, Levels DEF OrderInv, Counted, Level, Upto, FreeCount
<1> QED
  BY <1>1, <1>2, <1>3, <1>4 DEF OrderInv

\* A descent.
LEMMA DownStep ==
  ASSUME OrderInv, NEW sizes, Down(sizes)
  PROVE  OrderInv'
<1>1. /\ phase = "open" /\ order' = Narrowed(order, sizes) /\ phase' = "below"
      /\ plan' = plan /\ prefixes' = prefixes /\ todo' = todo /\ replayed' = replayed
  BY DEF Down
<1>2. /\ Bounded(order') /\ WeightsKept(order') /\ order'.path = order.path
      /\ Len(order'.versions) = Len(order.versions) + IF Len(order.path) > FreeCount THEN 0 ELSE 1
  BY <1>1, NarrowKeeps DEF OrderInv
<1>3. PlanIsSound' /\ Bounded(order)' /\ WeightsKept(order)' /\ Anchored(order.path)'
  BY <1>1, <1>2, PlanStays DEF OrderInv
<1>4. (\A g \in prefixes : GoodPrefix(g))'
  BY <1>1, PrefixesStay
<1>5. Counted'
  <2>1. Len(order.path) >= replayed + 1 /\ Len(order.versions) = Upto(Len(order.path) - 1) - Upto(replayed)
    BY <1>1, Levels DEF OrderInv, Counted
  <2>2. Len(order'.path) >= replayed /\ Len(order'.versions) = Upto(Len(order'.path)) - Upto(replayed)
    BY <1>2, <2>1, Levels DEF Upto
  <2>3. FreeCount' = FreeCount
    BY <1>1 DEF FreeCount
  <2> QED
    BY <1>1, <2>2, <2>3 DEF Counted, Level, Upto
<1> QED
  BY <1>1, <1>3, <1>4, <1>5 DEF OrderInv

\* A way up.
LEMMA UpStep ==
  ASSUME OrderInv, Up
  PROVE  OrderInv'
<1>1. /\ phase = "back" /\ Level(order) > replayed /\ order' = Widened(order) /\ phase' = "open"
      /\ plan' = plan /\ prefixes' = prefixes /\ todo' = todo /\ replayed' = replayed
  BY DEF Up
<1>0. /\ FreeCount \in Nat /\ replayed \in Nat /\ Len(order.path) \in Nat /\ Len(order.path) > replayed
      /\ Len(order.versions) = Upto(Len(order.path)) - Upto(replayed)
  BY <1>1, Levels DEF OrderInv, Counted
<1>2. Len(order.path) <= FreeCount => Len(order.versions) > 0
  <2>1. PICK n \in Nat, r \in Nat, k \in Nat : n = Len(order.path) /\ r = replayed /\ k = FreeCount
    BY <1>0
  <2>2. n <= k => Upto(n) = n /\ Upto(r) = r
    BY <1>0, <2>1 DEF Upto
  <2> QED
    BY <1>0, <2>1, <2>2
<1>3. /\ Bounded(order') /\ WeightsKept(order') /\ order'.path = order.path
      /\ Len(order'.versions) = Len(order.versions) - IF Len(order.path) > FreeCount THEN 0 ELSE 1
  BY <1>1, <1>2, WidenKeeps DEF OrderInv
<1>4. PlanIsSound' /\ Bounded(order)' /\ WeightsKept(order)' /\ Anchored(order.path)'
  BY <1>1, <1>3, PlanStays DEF OrderInv
<1>5. (\A g \in prefixes : GoodPrefix(g))'
  BY <1>1, PrefixesStay
<1>6. Counted'
  <2>0. PICK n \in Nat, r \in Nat, k \in Nat : n = Len(order.path) /\ r = replayed /\ k = FreeCount
    BY <1>0
  <2>1. Len(order'.path) >= replayed + 1 /\ Len(order'.versions) = Upto(Len(order'.path) - 1) - Upto(replayed)
    <3>1. n > r /\ Len(order'.path) = n /\ Len(order'.versions) = Upto(n) - Upto(r) - IF n > k THEN 0 ELSE 1
      BY <1>0, <1>3, <2>0
    <3>2. /\ Upto(n) = (IF n < k THEN n ELSE k) /\ Upto(n - 1) = (IF n - 1 < k THEN n - 1 ELSE k)
          /\ Upto(r) \in Nat
      BY <2>0 DEF Upto
    <3>3. Upto(n) - (IF n > k THEN 0 ELSE 1) = Upto(n - 1) /\ Upto(n) \in Nat
      <4>1. CASE n > k
        <5>1. Upto(n) = k /\ Upto(n - 1) = k
          BY <2>0, <3>2, <4>1
        <5> QED
          BY <2>0, <4>1, <5>1
      <4>2. CASE ~(n > k)
        <5>1. Upto(n) = n /\ Upto(n - 1) = n - 1
          BY <2>0, <3>2, <4>2
        <5> QED
          BY <2>0, <4>2, <5>1
      <4> QED
        BY <4>1, <4>2
    <3>4. Len(order'.versions) = Upto(n - 1) - Upto(r)
      BY <3>1, <3>2, <3>3
    <3> QED
      BY <2>0, <3>1, <3>4
  <2>2. FreeCount' = FreeCount
    BY <1>1 DEF FreeCount
  <2> QED
    BY <1>1, <2>1, <2>2 DEF Counted, Level, Upto
<1> QED
  BY <1>1, <1>4, <1>5, <1>6 DEF OrderInv

\* A level left.
LEMMA DoneStep ==
  ASSUME OrderInv, Done
  PROVE  OrderInv'
<1>1. /\ phase = "open" /\ order' = Finished(order) /\ phase' = "back"
      /\ plan' = plan /\ prefixes' = prefixes /\ todo' = todo /\ replayed' = replayed
  BY DEF Done
<1>2. Len(order.path) > 0
  BY <1>1, Levels DEF OrderInv, Counted
<1>3. /\ Bounded(order') /\ WeightsKept(order') /\ Anchored(order'.path)
      /\ Len(order'.path) = Len(order.path) - 1 /\ order'.versions = order.versions
  BY <1>1, <1>2, LeftKeeps
<1>4. PlanIsSound' /\ Bounded(order)' /\ WeightsKept(order)' /\ Anchored(order.path)'
  BY <1>1, <1>3, PlanStays DEF OrderInv
<1>5. (\A g \in prefixes : GoodPrefix(g))'
  BY <1>1, PrefixesStay
<1>6. Counted'
  BY <1>1, <1>3, Levels DEF OrderInv, Counted, Level, Upto, FreeCount
<1> QED
  BY <1>1, <1>4, <1>5, <1>6 DEF OrderInv

\* The path of an open level is filed.
LEMMA FileStep ==
  ASSUME OrderInv, File
  PROVE  OrderInv'
<1>1. /\ phase = "open" /\ prefixes' = prefixes \cup {order.path}
      /\ plan' = plan /\ order' = order /\ phase' = phase /\ todo' = todo /\ replayed' = replayed
  BY DEF File
<1>2. GoodPrefix(order.path)
  <2>0. Len(order.path) > 0
    BY <1>1, Levels DEF OrderInv, Counted
  <2>1. /\ IsList(order.path) /\ Len(order.path) > 0 /\ Anchored(order.path)
    BY <2>0 DEF OrderInv, Bounded, IsOrder
  <2>2. \A i \in 1..Len(order.path) : i <= FreeCount => i \in 1..Len(order.bound)
    BY Levels DEF OrderInv, Bounded
  <2>3. /\ BoundVars(order) = {order.bound[i] : i \in 1..Len(order.bound)} /\ BoundVars(order) \subseteq plan.free
        /\ \A i \in 1..Len(order.bound) : order.path[i] = order.bound[i]
        /\ \A i, j \in 1..Len(order.bound) : order.bound[i] = order.bound[j] => i = j
    BY Counts DEF OrderInv, Bounded
  <2> QED
    BY <2>1, <2>2, <2>3 DEF GoodPrefix
<1>3. PlanIsSound' /\ Bounded(order)' /\ WeightsKept(order)' /\ Anchored(order.path)'
  BY <1>1, PlanStays DEF OrderInv
<1>4. (\A g \in prefixes : GoodPrefix(g))'
  BY <1>1, <1>2, PrefixesStay
<1>5. Counted'
  BY <1>1, Levels DEF OrderInv, Counted, Level, Upto, FreeCount
<1> QED
  BY <1>1, <1>3, <1>4, <1>5 DEF OrderInv

\* A filed path is taken up, with nothing bound.
LEMMA ResumeStep ==
  ASSUME OrderInv, NEW prefix, Resume(prefix)
  PROVE  OrderInv'
<1>1. /\ phase = "back" /\ Level(order) = 0 /\ prefix \in prefixes /\ todo' = prefix /\ phase' = "replay"
      /\ plan' = plan /\ order' = order /\ prefixes' = prefixes /\ replayed' = replayed
  BY DEF Resume
<1>2. PlanIsSound' /\ Bounded(order)' /\ WeightsKept(order)' /\ Anchored(order.path)'
  BY <1>1, PlanStays DEF OrderInv
<1>3. (\A g \in prefixes : GoodPrefix(g))'
  BY <1>1, PrefixesStay
<1>4. replayed = 0 /\ Len(order.versions) = 0 /\ Len(order.path) = 0
  BY <1>1, Levels DEF OrderInv, Counted, Upto
<1>5. IsList(prefix) /\ Len(prefix) > 0 /\ Len(prefix) \in Nat
  BY <1>1, ListPlaces DEF OrderInv, GoodPrefix
<1>6. Replaying'
  <2>1. Len(prefix) = 0 + Len(prefix) /\ \A i \in 1..Len(prefix) : prefix[i] = prefix[0 + i]
    BY <1>5
  <2>2. \A i \in 1..0 : order.path[i] = prefix[i]
    OBVIOUS
  <2>3. (\E g \in prefixes : /\ Len(g) = replayed + Len(todo)
                             /\ \A i \in 1..replayed : order.path[i] = g[i]
                             /\ \A i \in 1..Len(todo) : todo[i] = g[replayed + i])'
    BY <1>1, <1>4, <2>1, <2>2
  <2>4. (Level(order) = replayed /\ Len(order.versions) = 0 /\ IsList(todo) /\ Len(todo) > 0)'
    BY <1>1, <1>4, <1>5 DEF Level, IsList
  <2> QED
    BY <2>3, <2>4 DEF Replaying
<1>7. Counted'
  BY <1>1, <1>6 DEF Counted
<1> QED
  BY <1>1, <1>2, <1>3, <1>4, <1>7 DEF OrderInv

\* A variable of a filed path is forced.
LEMMA ForceStep ==
  ASSUME OrderInv, ForceVar
  PROVE  OrderInv'
<1>1. /\ phase = "replay" /\ order' = Forced(order, todo[1]) /\ todo' = Tail(todo) /\ replayed' = replayed + 1
      /\ phase' = IF Len(todo) = 1 THEN "below" ELSE "replay"
      /\ plan' = plan /\ prefixes' = prefixes
  BY DEF ForceVar
<1>2. Replaying
  BY <1>1 DEF OrderInv, Counted
<1>3. /\ Bounded(order') /\ WeightsKept(order') /\ Anchored(order'.path)
      /\ Len(order'.path) = Len(order.path) + 1 /\ order'.versions = order.versions
      /\ IsList(order'.path) /\ order'.path[Len(order.path) + 1] = todo[1]
      /\ \A i \in 1..Len(order.path) : order'.path[i] = order.path[i]
  BY <1>1, <1>2, ForcedKeeps
<1>4. PlanIsSound' /\ Bounded(order)' /\ WeightsKept(order)' /\ Anchored(order.path)'
  BY <1>1, <1>3, PlanStays DEF OrderInv
<1>5. (\A g \in prefixes : GoodPrefix(g))'
  BY <1>1, PrefixesStay
<1>6. /\ replayed \in Nat /\ Len(order.path) = replayed /\ Len(order.versions) = 0
      /\ Len(todo) \in Nat /\ Len(todo) > 0
      /\ IsList(todo') /\ Len(todo') = Len(todo) - 1 /\ \A i \in 1..(Len(todo) - 1) : todo'[i] = todo[i + 1]
  BY <1>1, <1>2, Levels, ListPlaces, ListTail DEF Replaying
<1>7. ASSUME Len(todo) = 1 PROVE Counted'
  BY <1>1, <1>3, <1>6, <1>7, Levels DEF Counted, Level, Upto, FreeCount, OrderInv
<1>8. CASE Len(todo) # 1
  <2>1. PICK g \in prefixes : /\ Len(g) = replayed + Len(todo)
                              /\ \A i \in 1..replayed : order.path[i] = g[i]
                              /\ \A i \in 1..Len(todo) : todo[i] = g[replayed + i]
    BY <1>2 DEF Replaying
  <2>2. Len(g) = replayed' + Len(todo')
    <3>1. PICK n \in Nat : n = Len(todo)
      BY <1>6
    <3>2. Len(todo') = n - 1 /\ Len(g) = replayed + n /\ replayed' = replayed + 1 /\ replayed \in Nat
      BY <1>1, <1>6, <2>1, <3>1
    <3> QED
      BY <3>2
  <2>3. \A i \in 1..replayed' : order'.path[i] = g[i]
    <3>1. 1 \in 1..Len(todo) /\ order'.path[replayed + 1] = g[replayed + 1]
      BY <1>3, <1>6, <2>1
    <3>2. \A i \in 1..replayed' : i \in 1..replayed \/ i = replayed + 1
      BY <1>1, <1>6
    <3> QED
      BY <1>3, <1>6, <2>1, <3>1, <3>2
  <2>4. \A i \in 1..Len(todo') : todo'[i] = g[replayed' + i]
    <3>1. SUFFICES ASSUME NEW i \in 1..Len(todo')
                   PROVE  todo'[i] = g[replayed' + i]
      OBVIOUS
    <3>2. i + 1 \in 1..Len(todo) /\ i \in 1..(Len(todo) - 1) /\ replayed' + i = replayed + (i + 1)
      BY <1>1, <1>6
    <3>3. todo'[i] = todo[i + 1]
      BY <1>6, <3>2
    <3>4. todo[i + 1] = g[replayed + (i + 1)]
      BY <2>1, <3>2
    <3> QED
      BY <3>2, <3>3, <3>4
  <2>5. (\E h \in prefixes : /\ Len(h) = replayed + Len(todo)
                             /\ \A i \in 1..replayed : order.path[i] = h[i]
                             /\ \A i \in 1..Len(todo) : todo[i] = h[replayed + i])'
    BY <1>1, <2>1, <2>2, <2>3, <2>4
  <2>6. (Level(order) = replayed /\ Len(order.versions) = 0 /\ IsList(todo) /\ Len(todo) > 0)'
    <3>1. Len(todo') > 0 /\ Len(order'.path) = replayed' /\ Len(order'.versions) = 0
      <4>1. PICK n \in Nat : n = Len(todo)
        BY <1>6
      <4>2. Len(todo') > 0
        BY <1>6, <1>8, <4>1
      <4> QED
        BY <1>1, <1>3, <1>6, <4>2
    <3>2. IsList(todo)'
      BY <1>6 DEF IsList
    <3> QED
      BY <3>1, <3>2 DEF Level
  <2>7. Replaying'
    BY <2>5, <2>6 DEF Replaying
  <2> QED
    BY <1>1, <1>4, <1>5, <1>6, <1>8, <2>7 DEF OrderInv, Counted
<1>9. CASE Len(todo) = 1 /\ Counted'
  BY <1>1, <1>4, <1>5, <1>6, <1>9 DEF OrderInv
<1> QED
  BY <1>1, <1>4, <1>5, <1>6, <1>7, <1>8, <1>9 DEF OrderInv

\* A forced level is undone.
LEMMA UndoStep ==
  ASSUME OrderInv, Undo
  PROVE  OrderInv'
<1>1. /\ phase = "back" /\ replayed > 0 /\ Level(order) = replayed /\ order' = Finished(order)
      /\ replayed' = replayed - 1 /\ plan' = plan /\ phase' = phase /\ prefixes' = prefixes /\ todo' = todo
  BY DEF Undo
<1>2. Len(order.path) > 0
  BY <1>1, Levels
<1>3. /\ Bounded(order') /\ WeightsKept(order') /\ Anchored(order'.path)
      /\ Len(order'.path) = Len(order.path) - 1 /\ order'.versions = order.versions
  BY <1>2, <1>1, LeftKeeps
<1>4. PlanIsSound' /\ Bounded(order)' /\ WeightsKept(order)' /\ Anchored(order.path)'
  BY <1>1, <1>3, PlanStays DEF OrderInv
<1>5. (\A g \in prefixes : GoodPrefix(g))'
  BY <1>1, PrefixesStay
<1>6. Counted'
  BY <1>1, <1>3, Levels DEF OrderInv, Counted, Level, Upto, FreeCount
<1>7. replayed' \in Nat
  BY <1>1, Levels
<1> QED
  BY <1>1, <1>4, <1>5, <1>6, <1>7 DEF OrderInv

\* Nothing the order knows changes.
LEMMA SameStep ==
  ASSUME OrderInv, UNCHANGED orderVars
  PROVE  OrderInv'
<1>1. /\ plan' = plan /\ order' = order /\ phase' = phase /\ prefixes' = prefixes /\ todo' = todo /\ replayed' = replayed
  BY DEF orderVars
<1>2. PlanIsSound' /\ Bounded(order)' /\ WeightsKept(order)' /\ Anchored(order.path)'
  BY <1>1, PlanStays DEF OrderInv
<1>3. (\A g \in prefixes : GoodPrefix(g))'
  BY <1>1, PrefixesStay
<1>4. Counted'
  BY <1>1 DEF OrderInv, Counted, Replaying, Level, Upto, FreeCount, IsList
<1> QED
  BY <1>1, <1>2, <1>3, <1>4 DEF OrderInv

(***************************************************************************)
(* The search.                                                             *)
(***************************************************************************)
\* The variables of a pattern are finitely many.
LEMMA VarsFinite ==
  ASSUME NEW triples, triples \in Seq([1..3 -> Nat])
  PROVE  IsFiniteSet(PatternVars(triples))
<1> DEFINE P == (DOMAIN triples) \X Positions
           f == [o \in P |-> triples[o[1]][o[2]]]
           T == {triples[i][p] : i \in DOMAIN triples, p \in Positions}
<1>1. IsFiniteSet(P)
  <2>1. IsFiniteSet(1..Len(triples)) /\ DOMAIN triples = 1..Len(triples)
    BY FS_Interval
  <2>2. IsFiniteSet(Positions)
    <3>1. Positions = 1..3
      BY DEF Positions, Subject, Predicate, Object
    <3>2. PICK n \in Int : n = 3
      OBVIOUS
    <3>3. IsFiniteSet(1..n)
      BY FS_Interval
    <3> QED
      BY <3>1, <3>2, <3>3
  <2> QED
    BY <2>1, <2>2, FS_Product
<1>2. f \in Surjection(P, T)
  <2>1. f \in [P -> T]
    OBVIOUS
  <2>2. ASSUME NEW t \in T
        PROVE  \E o \in P : f[o] = t
    <3>0. \E i \in DOMAIN triples, k \in Positions : t = triples[i][k]
      BY <2>2
    <3>1. PICK i \in DOMAIN triples, k \in Positions : t = triples[i][k]
      BY <3>0
    <3> DEFINE o == <<i, k>>
    <3>2. o \in P
      OBVIOUS
    <3>3. f[o] = t
      BY <3>1, <3>2
    <3> HIDE DEF P, f, o
    <3> QED
      BY <3>2, <3>3
  <2> QED
    <3> HIDE DEF P, f, T
    <3> QED
      BY <2>1, <2>2 DEF Surjection
<1>3. IsFiniteSet(T)
  <2> HIDE DEF P, f, T
  <2> QED
    BY <1>1, <1>2, FS_Surjection
<1>4. PatternVars(triples) \subseteq T
  BY DEF PatternVars
<1> QED
  <2> HIDE DEF T
  <2> QED
    BY <1>3, <1>4, FS_Subset

\* Whatever order a search asks for, its plan is sound.
LEMMA PlanForIsSound ==
  ASSUME NEW search \in Searches, NEW curs, NEW p, p = PlanFor(search[2], curs)
  PROVE  /\ IsFiniteSet(p.free)
         /\ \A a, b \in p.prereq : a = b
         /\ \A arc \in p.prereq : arc[1] # arc[2] /\ arc[2] \in p.free
<1> DEFINE q == search[2]
<1>1. /\ q.triples \in Seq([1..3 -> Nat])
      /\ \A a, b \in q.arc : a = b
      /\ \A arc \in q.arc : arc[1] # arc[2] /\ arc[2] > 100
      /\ \A arc \in q.arc : \E i \in DOMAIN q.triples, k \in 1..3 : arc[2] = q.triples[i][k]
  <2>1. AsksSoundly(q)
    BY SearchesAssumption
  <2> HIDE DEF q
  <2> QED
    BY <2>1 DEF AsksSoundly
<1>2. ASSUME NEW sequence, p = FixedPlan(sequence)
      PROVE  p.free = {} /\ p.prereq = {}
  BY <1>2 DEF FixedPlan
<1>3. ASSUME p = AdaptivePlan(q, curs)
      PROVE  /\ p.free = PatternVars(q.triples) \ HeldVars(q)
             /\ p.prereq = q.arc
  BY <1>3 DEF AdaptivePlan
<1>4. p = AdaptivePlan(q, curs) \/ \E sequence : p = FixedPlan(sequence)
  BY DEF PlanFor
<1> HIDE DEF q
<1>5. CASE \E sequence : p = FixedPlan(sequence)
  BY <1>2, <1>5, FS_EmptySet
<1>6. CASE p = AdaptivePlan(q, curs)
  <2>1. \A arc \in q.arc : arc[2] \in PatternVars(q.triples) /\ ~HeldToTheEnd(q, arc[2])
    <3>1. SUFFICES ASSUME NEW arc \in q.arc
                   PROVE  arc[2] \in PatternVars(q.triples) /\ ~HeldToTheEnd(q, arc[2])
      OBVIOUS
    <3>2. PICK i \in DOMAIN q.triples, k \in 1..3 : arc[2] = q.triples[i][k]
      BY <1>1
    <3>3. arc[2] \in PatternVars(q.triples)
      <4>1. k \in Positions
        BY DEF Positions, Subject, Predicate, Object
      <4>2. arc[2] \in Nat /\ arc[2] > 100
        <5>1. q.triples[i] \in [1..3 -> Nat]
          BY <1>1, <3>2
        <5> QED
          BY <1>1, <3>2, <5>1
      <4> QED
        BY <3>2, <4>1, <4>2 DEF PatternVars
    <3>4. ~IsLonely(q, arc[2])
      BY DEF IsLonely
    <3> QED
      BY <3>3, <3>4 DEF HeldToTheEnd
  <2>2. IsFiniteSet(p.free)
    <3>1. IsFiniteSet(PatternVars(q.triples))
      BY <1>1, VarsFinite
    <3> QED
      BY <1>3, <1>6, <3>1, FS_Difference
  <2> QED
    BY <1>1, <1>3, <1>6, <2>1, <2>2 DEF HeldVars
<1> QED
  BY <1>4, <1>5, <1>6

\* The invariant holds when a search begins.
LEMMA InitInv == Init => OrderInv
<1> SUFFICES ASSUME Init
             PROVE  OrderInv
  OBVIOUS
<1>1. PICK search \in Searches : Begin(search[2])
  BY DEF Init
<1>2. InitOrder(PlanFor(search[2], cursors))
  BY <1>1 DEF Begin
<1>3. PICK p : p = PlanFor(search[2], cursors) /\ InitOrder(p)
  BY <1>2
<1>4. PICK curs : curs = cursors
  OBVIOUS
<1>5. /\ IsFiniteSet(p.free)
      /\ \A a, b \in p.prereq : a = b
      /\ \A arc \in p.prereq : arc[1] # arc[2] /\ arc[2] \in p.free
  BY <1>3, <1>4, PlanForIsSound
<1>6. plan = p
  BY <1>3 DEF InitOrder
<1>7. PlanIsSound
  BY <1>5, <1>6 DEF PlanIsSound
<1> QED
  BY <1>3, <1>7, FreshKeeps

\* Every step of a search keeps it.
LEMMA NextInv == OrderInv /\ [Next]_vars => OrderInv'
<1> SUFFICES ASSUME OrderInv, [Next]_vars
             PROVE  OrderInv'
  OBVIOUS
<1>1. CASE Enter
  <2>1. PICK x : NextVar(x)
    BY <1>1 DEF Enter
  <2> QED
    BY <2>1, NextVarStep
<1>2. CASE Descend
  <2>1. PICK sizes : Down(sizes)
    BY <1>2 DEF Descend
  <2> QED
    BY <2>1, DownStep
<1>3. CASE Return
  <2>1. Up
    BY <1>3 DEF Return
  <2> QED
    BY <2>1, UpStep
<1>4. CASE Close
  <2>1. Done
    BY <1>4 DEF Close
  <2> QED
    BY <2>1, DoneStep
<1>5. CASE Match \/ Expire
  <2>1. TurnBack
    BY <1>5 DEF Match, Expire
  <2> QED
    BY <2>1, TurnBackStep
<1>6. CASE FileVisit
  <2>1. File
    BY <1>6 DEF FileVisit
  <2> QED
    BY <2>1, FileStep
<1>7. ASSUME NEW entry \in table, TakeUp(entry)
      PROVE  OrderInv'
  <2>1. PICK prefix : Resume(prefix)
    BY <1>7 DEF TakeUp
  <2> QED
    BY <2>1, ResumeStep
<1>8. CASE ForceDown
  <2>1. ForceVar
    BY <1>8 DEF ForceDown
  <2> QED
    BY <2>1, ForceStep
<1>9. CASE UndoForce
  <2>1. Undo
    BY <1>9 DEF UndoForce
  <2> QED
    BY <2>1, UndoStep
<1>10. CASE Finish \/ UNCHANGED vars
  <2>1. UNCHANGED orderVars
    BY <1>10 DEF Finish, vars
  <2> QED
    BY <2>1, SameStep
<1> QED
  BY <1>1, <1>2, <1>3, <1>4, <1>5, <1>6, <1>7, <1>8, <1>9, <1>10 DEF Next

\* Whatever a search enters, abandons, files or resumes, the order keeps its counts
\* (veo.rs, AdaptiveVeo::next, down, up, done and force).
THEOREM OrderInvariant == Spec => []OrderInv
BY InitInv, NextInv, PTL DEF Spec

\* Undoing the descents still in force gives the weights the order began with, no variable is bound
\* twice, and the search variable of a correlated vector search never comes before its anchor, after
\* any sequence of levels entered, cut off at a limit or a deadline, filed and resumed
\* (veo.rs: "up restores them so backtracking is exact").
THEOREM OrderSound == Spec => []OrderIsSound
<1>1. OrderInv => OrderIsSound
  BY InvSays DEF OrderIsSound
<1> QED
  BY <1>1, OrderInvariant, PTL

(***************************************************************************)
(* Numbers, orders and bags.                                               *)
(***************************************************************************)
\* The numbers of a finite set have a bound.
LEMMA FiniteBound ==
  ASSUME NEW S, S \subseteq Nat, IsFiniteSet(S)
  PROVE  \E m \in Nat : \A i \in S : i <= m
<1> DEFINE Bad == {n \in Nat : \E T \in SUBSET S : Cardinality(T) = n /\ ~\E m \in Nat : \A i \in T : i <= m}
<1>1. CASE Bad = {}
  <2>1. Cardinality(S) \in Nat
    BY FS_CardinalityType
  <2> QED
    BY <1>1, <2>1
<1>2. CASE Bad # {}
  <2>1. PICK n \in Bad : \A k \in Bad : n <= k
    <3>1. Bad \subseteq Nat
      OBVIOUS
    <3> HIDE DEF Bad
    <3> QED
      BY <1>2, <3>1, LeastNumber
  <2>2. PICK T \in SUBSET S : Cardinality(T) = n /\ ~\E m \in Nat : \A i \in T : i <= m
    BY <2>1
  <2>3. PICK t \in T : TRUE
    BY <2>2
  <2>4. IsFiniteSet(T)
    BY FS_Subset
  <2>5. Cardinality(T \ {t}) = n - 1 /\ Cardinality(T \ {t}) \in Nat
    BY <2>2, <2>3, <2>4, FS_RemoveElement, FS_CardinalityType
  <2>6. n - 1 \notin Bad /\ n \in Nat
    BY <2>1
  <2>7. PICK m \in Nat : \A i \in T \ {t} : i <= m
    BY <2>5, <2>6
  <2>8. t \in Nat
    BY <2>3
  <2>9. PICK k \in Nat : k >= m /\ k >= t
    BY <2>8
  <2>10. \A i \in T : i <= k
    BY <2>7, <2>8, <2>9
  <2> QED
    BY <2>2, <2>10
<1> QED
  BY <1>1, <1>2

\* Min is the least of them.
LEMMA MinLeast ==
  ASSUME NEW S, S \subseteq Nat, S # {}
  PROVE  Min(S) \in S /\ \A i \in S : Min(S) <= i
<1>1. \E i \in S : \A j \in S : i <= j
  BY LeastNumber
<1> QED
  BY <1>1 DEF Min

\* A relation that puts the elements of a set one after another.
InLine(S, before) ==
  /\ \A x \in S : <<x, x>> \notin before
  /\ \A x, y \in S : x = y \/ <<x, y>> \in before \/ <<y, x>> \in before
  /\ \A x, y, z \in S : <<x, y>> \in before /\ <<y, z>> \in before => <<x, z>> \in before

\* What stands in line is listed once each.
LEMMA SortedLists ==
  ASSUME NEW S, IsFiniteSet(S), NEW before, InLine(S, before)
  PROVE  Sorted(S, before) \in Bijection(1..Cardinality(S), S)
<1> DEFINE n == Cardinality(S)
           Less(x) == {y \in S : <<y, x>> \in before}
           rank == [x \in S |-> Cardinality(Less(x))]
           s == Sorted(S, before)
<1>1. n \in Nat
  BY FS_CardinalityType
<1>2. \A x \in S : IsFiniteSet(Less(x)) /\ rank[x] \in 0..(n - 1)
  <2>1. SUFFICES ASSUME NEW x \in S
                 PROVE  IsFiniteSet(Less(x)) /\ Cardinality(Less(x)) \in 0..(n - 1)
    OBVIOUS
  <2>2. Less(x) \in SUBSET S /\ x \notin Less(x)
    BY DEF InLine
  <2>3. IsFiniteSet(Less(x)) /\ Cardinality(Less(x)) <= n /\ (n = Cardinality(Less(x)) => S = Less(x))
        /\ Cardinality(Less(x)) \in Nat
    <3> HIDE DEF Less
    <3> QED
      BY <2>2, FS_Subset, FS_CardinalityType
  <2> QED
    <3> HIDE DEF Less
    <3> QED
      BY <1>1, <2>2, <2>3
<1>3. \A x, y \in S : <<x, y>> \in before => rank[x] # rank[y]
  <2>1. SUFFICES ASSUME NEW x \in S, NEW y \in S, <<x, y>> \in before, rank[x] = rank[y]
                 PROVE  FALSE
    OBVIOUS
  <2>2. Less(x) \in SUBSET Less(y) /\ x \in Less(y) /\ x \notin Less(x)
    BY <2>1 DEF InLine
  <2>3. IsFiniteSet(Less(y)) /\ Cardinality(Less(x)) = Cardinality(Less(y))
    BY <1>2, <2>1
  <2> HIDE DEF Less
  <2>4. Less(x) = Less(y)
    BY <2>2, <2>3, FS_Subset
  <2> QED
    BY <2>2, <2>4
<1>4. rank \in Injection(S, 0..(n - 1))
  <2>1. rank \in [S -> 0..(n - 1)]
    BY <1>2
  <2>2. \A a, b \in S : rank[a] = rank[b] => a = b
    <3> HIDE DEF rank
    <3> QED
      BY <1>3 DEF InLine
  <2> HIDE DEF rank
  <2> QED
    BY <2>1, <2>2, Fun_IsInj
<1>5. rank \in Surjection(S, 0..(n - 1))
  <2>1. IsFiniteSet(0..(n - 1)) /\ Cardinality(0..(n - 1)) = n
    BY <1>1, FS_Interval
  <2> HIDE DEF rank
  <2> QED
    BY <1>4, <2>1, FS_Injection DEF n
<1>6. \A k \in 1..n : s[k] \in S /\ rank[s[k]] = k - 1
  <2>1. SUFFICES ASSUME NEW k \in 1..n
                 PROVE  s[k] \in S /\ rank[s[k]] = k - 1
    OBVIOUS
  <2>2. s[k] = CHOOSE x \in S : Cardinality(Less(x)) = k - 1
    BY DEF Sorted
  <2>3. k - 1 \in 0..(n - 1)
    BY <1>1
  <2>4. \E x \in S : rank[x] = k - 1
    <3>1. \A t \in 0..(n - 1) : \E x \in S : rank[x] = t
      <4> HIDE DEF rank, n
      <4> QED
        BY <1>5, Fun_SurjectionProperties
    <3> HIDE DEF rank, n
    <3> QED
      BY <2>3, <3>1
  <2>5. \E x \in S : Cardinality(Less(x)) = k - 1
    BY <2>4
  <2> HIDE DEF Less, s
  <2>6. s[k] \in S /\ Cardinality(Less(s[k])) = k - 1
    BY <2>2, <2>5
  <2> QED
    BY <2>6
<1>7. s \in [1..n -> S]
  BY <1>6 DEF Sorted
<1> HIDE DEF s
<1>8. \A i, j \in 1..n : s[i] = s[j] => i = j
  <2> HIDE DEF rank, n
  <2> QED
    BY <1>1, <1>6
<1>9. \A x \in S : \E k \in 1..n : s[k] = x
  <2>1. SUFFICES ASSUME NEW x \in S
                 PROVE  \E k \in 1..n : s[k] = x
    OBVIOUS
  <2>2. PICK k \in 1..n : rank[x] = k - 1
    <3>1. rank[x] + 1 \in 1..n /\ rank[x] = (rank[x] + 1) - 1
      <4>1. rank[x] \in 0..(n - 1)
        BY <1>2
      <4> HIDE DEF rank, n
      <4> QED
        BY <1>1, <4>1
    <3> HIDE DEF rank, n
    <3> QED
      BY <3>1
  <2> HIDE DEF rank, n
  <2>3. rank[s[k]] = rank[x] /\ s[k] \in S
    BY <1>6, <2>2
  <2> QED
    BY <1>4, <2>3, Fun_InjectionProperties
<1> QED
  BY <1>7, <1>8, <1>9, Fun_IsBij DEF s

\* The members of a set with one image.
Fibre(f, r) == {s \in DOMAIN f : f[s] = r}

\* A bag says of each image how many members have it.
LEMMA BagIs ==
  ASSUME NEW f
  PROVE  DOMAIN BagOf(f) = Range(f) /\ \A r \in Range(f) : BagOf(f)[r] = Cardinality(Fibre(f, r))
BY DEF BagOf, Fibre

\* Families with the same bag match one to one.
LEMMA SameBag ==
  ASSUME NEW f, IsFiniteSet(DOMAIN f), NEW g, IsFiniteSet(DOMAIN g), BagOf(f) = BagOf(g)
  PROVE  \E h \in Bijection(DOMAIN f, DOMAIN g) : \A s \in DOMAIN f : g[h[s]] = f[s]
<1>1. Range(f) = Range(g) /\ \A r \in Range(f) : Cardinality(Fibre(f, r)) = Cardinality(Fibre(g, r))
  <2>1. DOMAIN BagOf(f) = Range(f) /\ DOMAIN BagOf(g) = Range(g)
    BY BagIs
  <2>2. \A r \in Range(f) : BagOf(f)[r] = Cardinality(Fibre(f, r))
    BY BagIs
  <2>3. \A r \in Range(g) : BagOf(g)[r] = Cardinality(Fibre(g, r))
    BY BagIs
  <2> QED
    BY <2>1, <2>2, <2>3
<1>2. \A r \in Range(f) : \E b : b \in Bijection(Fibre(f, r), Fibre(g, r))
  <2>1. SUFFICES ASSUME NEW r \in Range(f)
                 PROVE  \E b : b \in Bijection(Fibre(f, r), Fibre(g, r))
    OBVIOUS
  <2>2. Fibre(f, r) \in SUBSET DOMAIN f /\ Fibre(g, r) \in SUBSET DOMAIN g
    BY DEF Fibre
  <2>3. IsFiniteSet(Fibre(f, r)) /\ IsFiniteSet(Fibre(g, r))
    BY <2>2, FS_Subset
  <2>4. ExistsBijection(Fibre(f, r), Fibre(g, r))
    BY <1>1, <2>3, FS_SameCardinalityBij
  <2> QED
    BY <2>4 DEF ExistsBijection
<1> DEFINE b == [r \in Range(f) |-> CHOOSE b : b \in Bijection(Fibre(f, r), Fibre(g, r))]
           h == [s \in DOMAIN f |-> b[f[s]][s]]
<1>3. \A r \in Range(f) : b[r] \in Bijection(Fibre(f, r), Fibre(g, r))
  <2>1. SUFFICES ASSUME NEW r \in Range(f)
                 PROVE  (CHOOSE c : c \in Bijection(Fibre(f, r), Fibre(g, r))) \in Bijection(Fibre(f, r), Fibre(g, r))
    OBVIOUS
  <2>2. \E c : c \in Bijection(Fibre(f, r), Fibre(g, r))
    BY <1>2
  <2> QED
    BY <2>2
<1> HIDE DEF b
<1>4. \A r \in Range(f) : /\ \A s \in Fibre(f, r) : b[r][s] \in Fibre(g, r)
                          /\ \A s, t \in Fibre(f, r) : b[r][s] = b[r][t] => s = t
                          /\ \A t \in Fibre(g, r) : \E s \in Fibre(f, r) : b[r][s] = t
  <2>1. SUFFICES ASSUME NEW r \in Range(f)
                 PROVE  /\ \A s \in Fibre(f, r) : b[r][s] \in Fibre(g, r)
                        /\ \A s, t \in Fibre(f, r) : b[r][s] = b[r][t] => s = t
                        /\ \A t \in Fibre(g, r) : \E s \in Fibre(f, r) : b[r][s] = t
    OBVIOUS
  <2>2. b[r] \in Bijection(Fibre(f, r), Fibre(g, r))
    BY <1>3
  <2> QED
    BY <2>2, Fun_BijectionProperties
<1>5. \A s \in DOMAIN f : f[s] \in Range(f) /\ s \in Fibre(f, f[s]) /\ h[s] = b[f[s]][s]
  BY DEF Range, Fibre
<1> HIDE DEF h
<1>6. \A s \in DOMAIN f : h[s] \in Fibre(g, f[s])
  BY <1>4, <1>5
<1>7. \A s \in DOMAIN f : h[s] \in DOMAIN g /\ g[h[s]] = f[s]
  BY <1>6 DEF Fibre
<1>8. h \in [DOMAIN f -> DOMAIN g]
  BY <1>7 DEF h
<1>9. \A s, t \in DOMAIN f : h[s] = h[t] => s = t
  <2>1. SUFFICES ASSUME NEW s \in DOMAIN f, NEW t \in DOMAIN f, h[s] = h[t]
                 PROVE  s = t
    OBVIOUS
  <2>2. f[s] = f[t]
    BY <1>7, <2>1
  <2> QED
    BY <1>4, <1>5, <2>1, <2>2
<1>10. \A t \in DOMAIN g : \E s \in DOMAIN f : h[s] = t
  <2>1. SUFFICES ASSUME NEW t \in DOMAIN g
                 PROVE  \E s \in DOMAIN f : h[s] = t
    OBVIOUS
  <2>2. g[t] \in Range(f) /\ t \in Fibre(g, g[t])
    BY <1>1 DEF Range, Fibre
  <2>3. PICK s \in Fibre(f, g[t]) : b[g[t]][s] = t
    BY <1>4, <2>2
  <2>4. s \in DOMAIN f /\ f[s] = g[t]
    BY <2>3 DEF Fibre
  <2> QED
    BY <1>5, <2>3, <2>4
<1>11. h \in Bijection(DOMAIN f, DOMAIN g)
  BY <1>8, <1>9, <1>10, Fun_IsBij
<1> QED
  BY <1>7, <1>11

\* A family gone through in another way has the same bag.
LEMMA BagMoved ==
  ASSUME NEW S, NEW T, IsFiniteSet(S), NEW h \in Bijection(S, T), NEW f, NEW g,
         DOMAIN f = S, DOMAIN g = T, \A s \in S : f[s] = g[h[s]]
  PROVE  BagOf(f) = BagOf(g)
<1>1. /\ h \in [S -> T] /\ \A s, t \in S : h[s] = h[t] => s = t
      /\ \A t \in T : \E s \in S : h[s] = t
  BY Fun_BijectionProperties
<1>2. Range(f) = Range(g)
  BY <1>1 DEF Range
<1>3. \A r \in Range(f) : Cardinality(Fibre(f, r)) = Cardinality(Fibre(g, r))
  <2>1. SUFFICES ASSUME NEW r \in Range(f)
                 PROVE  Cardinality(Fibre(f, r)) = Cardinality(Fibre(g, r))
    OBVIOUS
  <2> DEFINE A == Fibre(f, r)
             B == Fibre(g, r)
             k == [s \in A |-> h[s]]
  <2>2. A \in SUBSET S /\ B \in SUBSET T /\ (\A s \in S : s \in A <=> h[s] \in B)
    BY <1>1 DEF Fibre
  <2>3. IsFiniteSet(A)
    BY <2>2, FS_Subset
  <2> HIDE DEF A, B
  <2>4. k \in [A -> B] /\ (\A s, t \in A : k[s] = k[t] => s = t) /\ \A t \in B : \E s \in A : k[s] = t
    BY <1>1, <2>2
  <2>5. k \in Bijection(A, B)
    <3> HIDE DEF k
    <3> QED
      BY <2>4, Fun_IsBij
  <2>6. ExistsBijection(A, B)
    BY <2>5 DEF ExistsBijection
  <2>7. Cardinality(B) = Cardinality(A)
    BY <2>3, <2>6, FS_Bijection
  <2> QED
    BY <2>7 DEF A, B
<1>4. /\ BagOf(f) = [r \in Range(f) |-> Cardinality(Fibre(f, r))]
      /\ BagOf(g) = [r \in Range(g) |-> Cardinality(Fibre(g, r))]
  BY DEF BagOf, Fibre
<1> QED
  BY <1>2, <1>3, <1>4

\* The rows of a set of choices.
RowsOf(G, J) == BagOf([f \in G |-> J[f]])

Images(G, J) == {J[f] : f \in G}
AllWith(G, J, r) == {f \in G : J[f] = r}

\* What a set of choices says of a row.
LEMMA RowsAre ==
  ASSUME NEW G, NEW J
  PROVE  /\ DOMAIN RowsOf(G, J) = Images(G, J)
         /\ \A r \in Images(G, J) : RowsOf(G, J)[r] = Cardinality(AllWith(G, J, r))
         /\ RowsOf(G, J) = [r \in Images(G, J) |-> Cardinality(AllWith(G, J, r))]
<1> DEFINE j == [f \in G |-> J[f]]
<1>1. DOMAIN j = G /\ \A f \in G : j[f] = J[f]
  OBVIOUS
<1>2. Range(j) = Images(G, J)
  <2> HIDE DEF j
  <2> QED
    BY <1>1 DEF Range, Images
<1>3. \A r : {f \in DOMAIN j : j[f] = r} = AllWith(G, J, r)
  <2> HIDE DEF j
  <2> QED
    BY <1>1 DEF AllWith
<1>4. RowsOf(G, J) = [r \in Range(j) |-> Cardinality({f \in DOMAIN j : j[f] = r})]
  BY DEF RowsOf, BagOf
<1> HIDE DEF j
<1> QED
  BY <1>2, <1>3, <1>4

\* The choices with one row.
LEMMA WithFinite ==
  ASSUME NEW G, NEW J, NEW r, IsFiniteSet(G)
  PROVE  /\ IsFiniteSet(AllWith(G, J, r)) /\ Cardinality(AllWith(G, J, r)) \in Nat
         /\ AllWith(G, J, r) \subseteq G
         /\ r \notin Images(G, J) => Cardinality(AllWith(G, J, r)) = 0
         /\ r \in Images(G, J) => Cardinality(AllWith(G, J, r)) > 0
<1>1. AllWith(G, J, r) \in SUBSET G /\ (r \notin Images(G, J) <=> AllWith(G, J, r) = {})
  BY DEF AllWith, Images
<1>2. IsFiniteSet(AllWith(G, J, r)) /\ Cardinality(AllWith(G, J, r)) \in Nat
  BY <1>1, FS_Subset, FS_CardinalityType
<1> QED
  BY <1>1, <1>2, FS_EmptySet

\* The rows of more choices are more rows.
LEMMA RowsAdd ==
  ASSUME NEW J, NEW G, NEW H, IsFiniteSet(G), IsFiniteSet(H), G \cap H = {}
  PROVE  RowsOf(G \cup H, J) = RowsOf(G, J) (+) RowsOf(H, J)
<1> DEFINE A == Images(G, J)
           B == Images(H, J)
           a == RowsOf(G, J)
           b == RowsOf(H, J)
<1>1. Images(G \cup H, J) = A \cup B
  BY DEF Images
<1>2. /\ DOMAIN a = A /\ DOMAIN b = B
      /\ (\A r \in A : a[r] = Cardinality(AllWith(G, J, r))) /\ (\A r \in B : b[r] = Cardinality(AllWith(H, J, r)))
      /\ RowsOf(G \cup H, J) = [r \in A \cup B |-> Cardinality(AllWith(G \cup H, J, r))]
  BY <1>1, RowsAre
<1>3. a (+) b = [r \in A \cup B |-> (IF r \in A THEN a[r] ELSE 0) + (IF r \in B THEN b[r] ELSE 0)]
  <2> HIDE DEF A, B, a, b
  <2> QED
    BY <1>2 DEF (+)
<1>4. \A r : Cardinality(AllWith(G \cup H, J, r)) = Cardinality(AllWith(G, J, r)) + Cardinality(AllWith(H, J, r))
  <2>1. SUFFICES ASSUME NEW r
                 PROVE  Cardinality(AllWith(G \cup H, J, r)) = Cardinality(AllWith(G, J, r)) + Cardinality(AllWith(H, J, r))
    OBVIOUS
  <2> DEFINE X == AllWith(G, J, r)
             Y == AllWith(H, J, r)
  <2>2. AllWith(G \cup H, J, r) = X \cup Y /\ X \cap Y = {}
    BY DEF AllWith
  <2>3. IsFiniteSet(X) /\ IsFiniteSet(Y) /\ Cardinality(X) \in Nat /\ Cardinality(Y) \in Nat
    BY WithFinite
  <2> HIDE DEF X, Y
  <2>4. Cardinality(X \cap Y) = 0
    BY <2>2, FS_EmptySet
  <2>5. Cardinality(X \cup Y) = Cardinality(X) + Cardinality(Y) - Cardinality(X \cap Y)
    BY <2>3, FS_Union
  <2>6. Cardinality(X \cup Y) = Cardinality(X) + Cardinality(Y)
    BY <2>3, <2>4, <2>5
  <2> QED
    BY <2>2, <2>6 DEF X, Y
<1>5. \A r : /\ r \notin A => Cardinality(AllWith(G, J, r)) = 0
             /\ r \notin B => Cardinality(AllWith(H, J, r)) = 0
             /\ Cardinality(AllWith(G, J, r)) \in Nat /\ Cardinality(AllWith(H, J, r)) \in Nat
  BY WithFinite
<1> HIDE DEF A, B, a, b
<1>6. \A r \in A \cup B : (IF r \in A THEN a[r] ELSE 0) + (IF r \in B THEN b[r] ELSE 0)
                            = Cardinality(AllWith(G \cup H, J, r))
  BY <1>2, <1>4, <1>5
<1>7. a (+) b = RowsOf(G \cup H, J)
  BY <1>2, <1>3, <1>6
<1> QED
  BY <1>7 DEF a, b

\* Fewer choices, no more rows of any kind.
LEMMA RowsLess ==
  ASSUME NEW J, NEW G, NEW H, IsFiniteSet(H), G \subseteq H
  PROVE  RowsOf(G, J) \sqsubseteq RowsOf(H, J)
<1>1. \A r : Cardinality(AllWith(G, J, r)) <= Cardinality(AllWith(H, J, r))
  <2>1. SUFFICES ASSUME NEW r
                 PROVE  Cardinality(AllWith(G, J, r)) <= Cardinality(AllWith(H, J, r))
    OBVIOUS
  <2>2. AllWith(G, J, r) \in SUBSET AllWith(H, J, r)
    BY DEF AllWith
  <2> QED
    BY <2>2, WithFinite, FS_Subset
<1>2. Images(G, J) \subseteq Images(H, J)
  BY DEF Images
<1>3. /\ DOMAIN RowsOf(G, J) = Images(G, J) /\ DOMAIN RowsOf(H, J) = Images(H, J)
      /\ \A r \in Images(G, J) : RowsOf(G, J)[r] = Cardinality(AllWith(G, J, r))
      /\ \A r \in Images(H, J) : RowsOf(H, J)[r] = Cardinality(AllWith(H, J, r))
  BY RowsAre
<1>4. \A r \in DOMAIN RowsOf(G, J) : r \in DOMAIN RowsOf(H, J) /\ RowsOf(G, J)[r] <= RowsOf(H, J)[r]
  BY <1>1, <1>2, <1>3
<1> QED
  BY <1>2, <1>3, <1>4 DEF \sqsubseteq

\* There is a row for each choice.
LEMMA RowsCount ==
  ASSUME NEW J, NEW G, IsFiniteSet(G)
  PROVE  BagCardinality(RowsOf(G, J)) = Cardinality(G)
<1> DEFINE B == RowsOf(G, J)
           Part(S) == {f \in G : J[f] \in S}
           Adds(sum, S) == IF S = {} THEN 0 ELSE LET e == CHOOSE e \in S : TRUE IN B[e] + sum[S \ {e}]
           count == [S \in SUBSET DOMAIN B |-> Cardinality(Part(S))]
<1>1. DOMAIN B = Images(G, J) /\ \A r \in Images(G, J) : B[r] = Cardinality(AllWith(G, J, r))
  BY RowsAre
<1>2. BagCardinality(B) = LET DSum == CHOOSE DSum : DSum = [S \in SUBSET DOMAIN B |-> Adds(DSum, S)]
                          IN  DSum[DOMAIN B]
  BY DEF BagCardinality
<1>3. IsFiniteSet(DOMAIN B)
  <2> DEFINE j == [f \in G |-> J[f]]
  <2>1. j \in Surjection(G, Images(G, J))
    <3>1. j \in [G -> Images(G, J)] /\ \A r \in Images(G, J) : \E f \in G : j[f] = r
      BY DEF Images
    <3> HIDE DEF j
    <3> QED
      BY <3>1, Fun_IsSurj
  <2> QED
    <3> HIDE DEF j
    <3> QED
      BY <1>1, <2>1, FS_Surjection
<1>4. \A S \in SUBSET DOMAIN B : \A e \in S :
         Cardinality(Part(S)) = B[e] + Cardinality(Part(S \ {e})) /\ Cardinality(Part(S)) \in Nat
  <2>1. SUFFICES ASSUME NEW S \in SUBSET DOMAIN B, NEW e \in S
                 PROVE  Cardinality(Part(S)) = B[e] + Cardinality(Part(S \ {e})) /\ Cardinality(Part(S)) \in Nat
    OBVIOUS
  <2> DEFINE X == AllWith(G, J, e)
             Y == Part(S \ {e})
  <2>2. Part(S) = X \cup Y /\ X \cap Y = {} /\ Y \in SUBSET G
    BY DEF AllWith
  <2>3. B[e] = Cardinality(X) /\ IsFiniteSet(X) /\ Cardinality(X) \in Nat
    BY <1>1, <2>1, WithFinite
  <2> HIDE DEF X, Y, Part
  <2>4. IsFiniteSet(Y) /\ Cardinality(Y) \in Nat /\ Cardinality(X \cap Y) = 0
    BY <2>2, FS_Subset, FS_CardinalityType, FS_EmptySet
  <2>5. Cardinality(X \cup Y) = Cardinality(X) + Cardinality(Y) - Cardinality(X \cap Y)
    BY <2>3, <2>4, FS_Union
  <2>6. Cardinality(X \cup Y) = Cardinality(X) + Cardinality(Y) /\ Cardinality(X \cup Y) \in Nat
    BY <2>3, <2>4, <2>5
  <2> QED
    BY <2>2, <2>3, <2>6 DEF Y
<1>5. Cardinality(Part({})) = 0
  <2>1. Part({}) = {}
    OBVIOUS
  <2> QED
    BY <2>1, FS_EmptySet
<1>6. \E sum : sum = [S \in SUBSET DOMAIN B |-> Adds(sum, S)]
  <2>1. \A S \in SUBSET DOMAIN B : count[S] = Adds(count, S)
    <3>1. SUFFICES ASSUME NEW S \in SUBSET DOMAIN B
                   PROVE  count[S] = Adds(count, S)
      OBVIOUS
    <3>2. CASE S = {}
      BY <1>5, <3>2
    <3>3. CASE S # {}
      <4> DEFINE e == CHOOSE e \in S : TRUE
      <4>1. e \in S
        BY <3>3
      <4>2. Adds(count, S) = B[e] + count[S \ {e}]
        BY <3>3
      <4>3. count[S] = Cardinality(Part(S)) /\ count[S \ {e}] = Cardinality(Part(S \ {e}))
        OBVIOUS
      <4> HIDE DEF e, B, Part, Adds, count
      <4> QED
        BY <1>4, <4>1, <4>2, <4>3
    <3> QED
      BY <3>2, <3>3
  <2>2. count = [S \in SUBSET DOMAIN B |-> count[S]]
    OBVIOUS
  <2> HIDE DEF count, Adds
  <2>3. count = [S \in SUBSET DOMAIN B |-> Adds(count, S)]
    BY <2>1, <2>2
  <2> QED
    BY <2>3
<1> DEFINE DSum == CHOOSE DSum : DSum = [S \in SUBSET DOMAIN B |-> Adds(DSum, S)]
<1>7. DSum = [S \in SUBSET DOMAIN B |-> Adds(DSum, S)]
  <2> HIDE DEF Adds
  <2> QED
    BY <1>6
<1>8. BagCardinality(B) = DSum[DOMAIN B]
  BY <1>2
<1> HIDE DEF DSum
<1>9. \A S \in SUBSET DOMAIN B : DSum[S] = Adds(DSum, S)
  <2> HIDE DEF Adds, B
  <2> QED
    BY <1>7
<1> DEFINE Bad == {Cardinality(S) : S \in {S \in SUBSET DOMAIN B : DSum[S] # Cardinality(Part(S))}}
<1>10. Bad = {}
  <2>1. SUFFICES ASSUME Bad # {}
                 PROVE  FALSE
    OBVIOUS
  <2>2. Bad \subseteq Nat
    <3>1. \A S \in SUBSET DOMAIN B : Cardinality(S) \in Nat
      <4> HIDE DEF B
      <4> QED
        BY <1>3, FS_Subset, FS_CardinalityType
    <3> HIDE DEF B, Part
    <3> QED
      BY <3>1
  <2>3. PICK n \in Bad : \A m \in Bad : n <= m
    <3> HIDE DEF Bad
    <3> QED
      BY <2>1, <2>2, LeastNumber
  <2>4. PICK S \in SUBSET DOMAIN B : n = Cardinality(S) /\ DSum[S] # Cardinality(Part(S))
    <3> HIDE DEF B, Part
    <3> QED
      BY <2>3
  <2>5. DSum[S] = Adds(DSum, S)
    BY <1>9
  <2>6. CASE S = {}
    BY <1>5, <2>4, <2>5, <2>6
  <2>7. CASE S # {}
    <3> DEFINE e == CHOOSE e \in S : TRUE
    <3>1. e \in S
      BY <2>7
    <3>2. DSum[S] = B[e] + DSum[S \ {e}]
      BY <2>5, <2>7
    <3> HIDE DEF e, B, Part, Adds
    <3>3. S \ {e} \in SUBSET DOMAIN B /\ Cardinality(S \ {e}) < n /\ n \in Nat /\ Cardinality(S \ {e}) \in Nat
      <4>1. IsFiniteSet(S)
        BY <1>3, FS_Subset
      <4>2. Cardinality(S \ {e}) = Cardinality(S) - 1 /\ Cardinality(S) \in Nat /\ Cardinality(S \ {e}) \in Nat
        BY <3>1, <4>1, FS_RemoveElement, FS_CardinalityType
      <4> QED
        BY <2>4, <4>2
    <3>4. DSum[S \ {e}] = Cardinality(Part(S \ {e}))
      <4>1. Cardinality(S \ {e}) \notin Bad
        BY <2>3, <3>3
      <4> QED
        BY <3>3, <4>1
    <3> QED
      BY <1>4, <2>4, <3>1, <3>2, <3>4
  <2> QED
    BY <2>6, <2>7
<1>11. DSum[DOMAIN B] = Cardinality(Part(DOMAIN B))
  <2> HIDE DEF B, Part
  <2> QED
    BY <1>10
<1>12. Part(DOMAIN B) = G
  BY <1>1 DEF Images
<1> QED
  BY <1>8, <1>11, <1>12

(***************************************************************************)
(* Where a cursor stands.                                                  *)
(***************************************************************************)
\* A cursor is a record of its six fields; it died, if it did, at a level it is below.
IsCursor(c) ==
  /\ \E f, a, b, e, d, s : c = [fixed |-> f, level1 |-> a, level2 |-> b, empty |-> e, deadFrom |-> d, skipped |-> s]
  /\ c.fixed \in Seq(Positions \X Nat)
  /\ c.deadFrom = None \/ c.deadFrom \in 1..Len(c.fixed)

\* A cursor as it was with so many components fixed.
Cut(c, n) == <<SubSeq(c.fixed, 1, n), c.empty, IF n < c.deadFrom THEN None ELSE c.deadFrom>>
Standpoint(c) == <<c.fixed, c.empty, c.deadFrom>>

\* The positions among the first n components fixed.
Firsts(c, n) == {c.fixed[k][1] : k \in 1..n}
\* How many there are of the three.
Count(S) == (IF 1 \in S THEN 1 ELSE 0) + (IF 2 \in S THEN 1 ELSE 0) + (IF 3 \in S THEN 1 ELSE 0)

\* The positions of a triple.
LEMMA ThreePositions == Positions = {1, 2, 3} /\ Subject = 1 /\ Predicate = 2 /\ Object = 3
BY DEF Positions, Subject, Predicate, Object

\* A cursor cut where it stands is where it stands.
LEMMA CutWhole ==
  ASSUME NEW c, IsCursor(c)
  PROVE  Cut(c, Len(c.fixed)) = Standpoint(c) /\ Len(c.fixed) \in Nat
<1>1. c.fixed \in Seq(Positions \X Nat) /\ (c.deadFrom = None \/ c.deadFrom \in 1..Len(c.fixed))
  BY DEF IsCursor
<1>2. PICK n : n = Len(c.fixed)
  OBVIOUS
<1>3. n \in Nat /\ SubSeq(c.fixed, 1, n) = c.fixed
  BY <1>1, <1>2, SubSeqFull, LenProperties
<1>4. ~(n < c.deadFrom)
  BY <1>1, <1>2, <1>3 DEF None
<1> QED
  BY <1>2, <1>3, <1>4 DEF Cut, Standpoint

\* More components were fixed, at other positions and to these values.
Grown(c, d, S, val) ==
  /\ Len(d.fixed) = Len(c.fixed) + Count(S)
  /\ \A k \in 1..Len(c.fixed) : d.fixed[k] = c.fixed[k]
  /\ {d.fixed[k][1] : k \in (Len(c.fixed) + 1)..Len(d.fixed)} = S
  /\ \A k \in (Len(c.fixed) + 1)..Len(d.fixed) : d.fixed[k][2] = val[d.fixed[k][1]]

\* What was fixed above stays as it was.
CutsStay(c, d) == \A n \in 0..Len(c.fixed) : Cut(d, n) = Cut(c, n)

\* What fixing a component makes of a cursor.
LEMMA DownFields ==
  ASSUME NEW c, IsCursor(c), NEW pos, NEW val, NEW idx
  PROVE  LET d == CursorDown(idx, c, pos, val)
         IN  /\ \E f, a, b, e, x, s : d = [fixed |-> f, level1 |-> a, level2 |-> b, empty |-> e, deadFrom |-> x, skipped |-> s]
             /\ d.fixed = Append(c.fixed, <<pos, val>>) /\ d.empty = c.empty
             /\ d.deadFrom = c.deadFrom \/ (c.deadFrom = None /\ d.deadFrom = Len(c.fixed) + 1)
<1> DEFINE t == idx.tries
           b == ChildBlock(t, c, pos)
           found == Seek(b.trie, val, b.beg, b.end)
           n == Len(c.fixed)
           both == [k \in 0..1 |-> NodeHandle(t[b.pair + k], found.at)]
           one == NodeHandle(b.trie, found.at)
           e == Descended(t, c, pos, val)
           d == CursorDown(idx, c, pos, val)
<1>1. PICK f, x, y, u, v, s : c = [fixed |-> f, level1 |-> x, level2 |-> y, empty |-> u, deadFrom |-> v, skipped |-> s]
  BY DEF IsCursor
<1>2. /\ f = c.fixed /\ u = c.empty /\ v = c.deadFrom /\ n \in Nat
      /\ v = None \/ v \in 1..n
  BY <1>1 DEF IsCursor
<1>3. e = IF n >= 2 \/ ~Alive(c) THEN c
          ELSE IF found.value # val THEN [c EXCEPT !.deadFrom = n + 1]
          ELSE IF n = 0 THEN [c EXCEPT !.level1 = both]
          ELSE [c EXCEPT !.level2 = one]
  BY DEF Descended
<1>4. Alive(c) => v = None
  BY <1>2 DEF Alive, None
<1>5. d = [e EXCEPT !.fixed = Append(e.fixed, <<pos, val>>)]
  BY DEF CursorDown
<1> HIDE DEF e, d, t, b, found, n, both, one
<1>6. \E x2, y2, v2 : /\ e = [fixed |-> f, level1 |-> x2, level2 |-> y2, empty |-> u, deadFrom |-> v2, skipped |-> s]
                      /\ v2 = v \/ (v = None /\ v2 = n + 1)
  <2>1. CASE n >= 2 \/ ~Alive(c)
    <3>1. e = c
      BY <1>3, <2>1
    <3> QED
      BY <1>1, <3>1
  <2>2. CASE ~(n >= 2 \/ ~Alive(c)) /\ found.value # val
    <3>1. e = [c EXCEPT !.deadFrom = n + 1]
      BY <1>3, <2>2
    <3>2. e = [fixed |-> f, level1 |-> x, level2 |-> y, empty |-> u, deadFrom |-> n + 1, skipped |-> s]
      BY <1>1, <3>1
    <3> QED
      BY <1>4, <2>2, <3>2
  <2>3. CASE ~(n >= 2 \/ ~Alive(c)) /\ found.value = val /\ n = 0
    <3>1. e = [c EXCEPT !.level1 = both]
      BY <1>3, <2>3
    <3>2. e = [fixed |-> f, level1 |-> both, level2 |-> y, empty |-> u, deadFrom |-> v, skipped |-> s]
      BY <1>1, <3>1
    <3> QED
      BY <3>2
  <2>4. CASE ~(n >= 2 \/ ~Alive(c)) /\ found.value = val /\ n # 0
    <3>1. e = [c EXCEPT !.level2 = one]
      BY <1>3, <2>4
    <3>2. e = [fixed |-> f, level1 |-> x, level2 |-> one, empty |-> u, deadFrom |-> v, skipped |-> s]
      BY <1>1, <3>1
    <3> QED
      BY <3>2
  <2> QED
    BY <2>1, <2>2, <2>3, <2>4
<1>7. PICK x2, y2, v2 : /\ e = [fixed |-> f, level1 |-> x2, level2 |-> y2, empty |-> u, deadFrom |-> v2, skipped |-> s]
                        /\ v2 = v \/ (v = None /\ v2 = n + 1)
  BY <1>6
<1>8. PICK g : g = Append(f, <<pos, val>>)
  OBVIOUS
<1>9. d = [e EXCEPT !.fixed = g]
  BY <1>5, <1>7, <1>8
<1>10. d = [fixed |-> g, level1 |-> x2, level2 |-> y2, empty |-> u, deadFrom |-> v2, skipped |-> s]
  BY <1>7, <1>9
<1>11. /\ \E f2, a, b2, e2, w, s2 : d = [fixed |-> f2, level1 |-> a, level2 |-> b2, empty |-> e2, deadFrom |-> w, skipped |-> s2]
       /\ d.fixed = Append(c.fixed, <<pos, val>>) /\ d.empty = c.empty
       /\ d.deadFrom = c.deadFrom \/ (c.deadFrom = None /\ d.deadFrom = n + 1)
  <2>1. d.fixed = g /\ d.empty = u /\ d.deadFrom = v2
    BY <1>10
  <2>2. \E f2, a, b2, e2, w, s2 : d = [fixed |-> f2, level1 |-> a, level2 |-> b2, empty |-> e2, deadFrom |-> w, skipped |-> s2]
    BY <1>10
  <2> QED
    BY <1>2, <1>7, <1>8, <2>1, <2>2
<1> QED
  BY <1>11 DEF d, n

\* Going down one component.
LEMMA DownOnce ==
  ASSUME NEW c, IsCursor(c), NEW pos \in Positions, NEW val \in Nat, NEW idx, NEW vals, vals[pos] = val
  PROVE  LET d == CursorDown(idx, c, pos, val)
         IN  IsCursor(d) /\ Grown(c, d, {pos}, vals) /\ CutsStay(c, d)
<1> DEFINE d == CursorDown(idx, c, pos, val)
           n == Len(c.fixed)
<1>1. /\ \E f, a, b, e, x, s : d = [fixed |-> f, level1 |-> a, level2 |-> b, empty |-> e, deadFrom |-> x, skipped |-> s]
      /\ d.fixed = Append(c.fixed, <<pos, val>>) /\ d.empty = c.empty
      /\ d.deadFrom = c.deadFrom \/ (c.deadFrom = None /\ d.deadFrom = n + 1)
  BY DownFields
<1> HIDE DEF d
<1>2. /\ c.fixed \in Seq(Positions \X Nat) /\ n \in Nat /\ <<pos, val>> \in Positions \X Nat
      /\ c.deadFrom = None \/ c.deadFrom \in 1..n
  BY DEF IsCursor
<1>3. /\ d.fixed \in Seq(Positions \X Nat) /\ Len(d.fixed) = n + 1 /\ d.fixed[n + 1] = <<pos, val>>
      /\ \A k \in 1..n : d.fixed[k] = c.fixed[k]
  <2> DEFINE Comps == Positions \X Nat
  <2>1. c.fixed \in Seq(Comps) /\ <<pos, val>> \in Comps /\ d.fixed = Append(c.fixed, <<pos, val>>)
    BY <1>1, <1>2
  <2>2. PICK e \in Comps : e = <<pos, val>>
    BY <2>1
  <2> HIDE DEF Comps
  <2>3. /\ d.fixed \in Seq(Comps) /\ Len(d.fixed) = Len(c.fixed) + 1 /\ d.fixed[Len(c.fixed) + 1] = e
        /\ \A k \in 1..Len(c.fixed) : d.fixed[k] = c.fixed[k]
    BY <2>1, <2>2
  <2> QED
    BY <2>2, <2>3 DEF Comps
<1>4. d.deadFrom = None \/ d.deadFrom \in 1..(n + 1)
  BY <1>1, <1>2
<1>5. IsCursor(d)
  BY <1>1, <1>3, <1>4 DEF IsCursor
<1>6. Count({pos}) = 1
  BY ThreePositions DEF Count
<1>7. Grown(c, d, {pos}, vals)
  <2>1. (n + 1)..Len(d.fixed) = {n + 1}
    BY <1>2, <1>3
  <2>2. {d.fixed[k][1] : k \in (n + 1)..Len(d.fixed)} = {pos}
    BY <1>3, <2>1
  <2>3. \A k \in (n + 1)..Len(d.fixed) : d.fixed[k][2] = vals[d.fixed[k][1]]
    BY <1>3, <2>1
  <2> QED
    BY <1>3, <1>6, <2>2, <2>3 DEF Grown
<1>8. CutsStay(c, d)
  <2>1. SUFFICES ASSUME NEW m \in 0..n
                 PROVE  Cut(d, m) = Cut(c, m)
    BY DEF CutsStay
  <2> DEFINE a == SubSeq(c.fixed, 1, m)
             b == SubSeq(d.fixed, 1, m)
  <2>2. (\A i \in 1..m : c.fixed[i] \in Positions \X Nat) /\ (\A i \in 1..m : d.fixed[i] \in Positions \X Nat)
    <3>1. \A i \in 1..m : i \in 1..n /\ i \in 1..(n + 1)
      BY <1>2, <2>1
    <3> HIDE DEF n
    <3> QED
      BY <1>2, <1>3, <3>1, ElementOfSeq DEF n
  <2>3. /\ a \in Seq(Positions \X Nat) /\ b \in Seq(Positions \X Nat) /\ Len(a) = m /\ Len(b) = m
        /\ (\A i \in 1..m : a[i] = c.fixed[i]) /\ (\A i \in 1..m : b[i] = d.fixed[i])
    <3>1. m \in Int /\ m >= 0 /\ 1 \in Int
      BY <1>2, <2>1
    <3> HIDE DEF a, b, n
    <3>2. a \in Seq(Positions \X Nat) /\ Len(a) = (IF 1 <= m THEN m - 1 + 1 ELSE 0)
          /\ \A i \in 1..(m - 1 + 1) : a[i] = c.fixed[1 + i - 1]
      BY <2>2, <3>1, SubSeqProperties DEF a
    <3>3. b \in Seq(Positions \X Nat) /\ Len(b) = (IF 1 <= m THEN m - 1 + 1 ELSE 0)
          /\ \A i \in 1..(m - 1 + 1) : b[i] = d.fixed[1 + i - 1]
      BY <2>2, <3>1, SubSeqProperties DEF b
    <3> QED
      BY <3>1, <3>2, <3>3
  <2>4. \A i \in 1..m : a[i] = b[i]
    <3>1. \A i \in 1..m : i \in 1..n
      BY <1>2, <2>1
    <3> HIDE DEF a, b, n
    <3> QED
      BY <1>3, <2>3, <3>1
  <2> HIDE DEF a, b
  <2>5. a = b
    BY <2>3, <2>4, SeqEqual
  <2>6. (IF m < d.deadFrom THEN None ELSE d.deadFrom) = (IF m < c.deadFrom THEN None ELSE c.deadFrom)
    BY <1>1, <1>2, <2>1 DEF None
  <2> QED
    BY <1>1, <2>5, <2>6 DEF Cut, a, b
<1> QED
  BY <1>5, <1>7, <1>8 DEF d

\* Nothing fixed.
LEMMA GrownNot ==
  ASSUME NEW c, IsCursor(c), NEW val
  PROVE  Grown(c, c, {}, val) /\ CutsStay(c, c)
<1>1. Len(c.fixed) \in Nat
  BY CutWhole
<1>2. (Len(c.fixed) + 1)..Len(c.fixed) = {} /\ Count({}) = 0
  BY <1>1 DEF Count
<1> QED
  BY <1>1, <1>2 DEF Grown, CutsStay

\* What was fixed in two goes.
LEMMA GrownTwice ==
  ASSUME NEW c, IsCursor(c), NEW d, IsCursor(d), NEW e, IsCursor(e), NEW S, NEW T, S \cap T = {}, NEW val,
         Grown(c, d, S, val), Grown(d, e, T, val)
  PROVE  Grown(c, e, S \cup T, val)
<1> DEFINE n == Len(c.fixed)
           m == Len(d.fixed)
           l == Len(e.fixed)
<1>1. n \in Nat /\ m \in Nat /\ l \in Nat /\ Count(S) \in Nat /\ Count(T) \in Nat
  BY CutWhole DEF Count
<1>2. Count(S \cup T) = Count(S) + Count(T)
  BY DEF Count
<1>3. m = n + Count(S) /\ l = m + Count(T)
  BY DEF Grown
<1> HIDE DEF n, m, l
<1>4. n <= m /\ m <= l /\ l = n + Count(S \cup T)
  BY <1>1, <1>2, <1>3
<1>5. /\ \A k \in 1..n : d.fixed[k] = c.fixed[k]
      /\ \A k \in 1..m : e.fixed[k] = d.fixed[k]
      /\ {d.fixed[k][1] : k \in (n + 1)..m} = S /\ {e.fixed[k][1] : k \in (m + 1)..l} = T
      /\ \A k \in (n + 1)..m : d.fixed[k][2] = val[d.fixed[k][1]]
      /\ \A k \in (m + 1)..l : e.fixed[k][2] = val[e.fixed[k][1]]
  BY DEF Grown, n, m, l
<1>6. \A k \in 1..n : e.fixed[k] = c.fixed[k]
  <2>1. \A k \in 1..n : k \in 1..m
    BY <1>1, <1>4
  <2> QED
    BY <1>5, <2>1
<1>7. \A k \in (n + 1)..l : (k \in (n + 1)..m /\ e.fixed[k] = d.fixed[k]) \/ k \in (m + 1)..l
  <2>1. \A k \in (n + 1)..l : (k \in (n + 1)..m /\ k \in 1..m) \/ k \in (m + 1)..l
    BY <1>1, <1>4
  <2> QED
    BY <1>5, <2>1
<1>8. \A k \in (n + 1)..m : k \in (n + 1)..l /\ e.fixed[k] = d.fixed[k]
  <2>1. \A k \in (n + 1)..m : k \in (n + 1)..l /\ k \in 1..m
    BY <1>1, <1>4
  <2> QED
    BY <1>5, <2>1
<1>9. \A k \in (m + 1)..l : k \in (n + 1)..l
  BY <1>1, <1>4
<1>10. {e.fixed[k][1] : k \in (n + 1)..l} = S \cup T
  <2>1. {e.fixed[k][1] : k \in (n + 1)..l} \subseteq S \cup T
    BY <1>5, <1>7
  <2>2. S \subseteq {e.fixed[k][1] : k \in (n + 1)..l}
    BY <1>5, <1>8
  <2>3. T \subseteq {e.fixed[k][1] : k \in (n + 1)..l}
    BY <1>5, <1>9
  <2> QED
    BY <2>1, <2>2, <2>3
<1>11. \A k \in (n + 1)..l : e.fixed[k][2] = val[e.fixed[k][1]]
  BY <1>5, <1>7
<1> QED
  BY <1>4, <1>6, <1>10, <1>11 DEF Grown, n, m, l

\* The cuts stay when more is fixed twice.
LEMMA CutsStayTwice ==
  ASSUME NEW c, IsCursor(c), NEW d, IsCursor(d), NEW e, CutsStay(c, d), CutsStay(d, e), Len(c.fixed) <= Len(d.fixed)
  PROVE  CutsStay(c, e)
<1>1. Len(c.fixed) \in Nat /\ Len(d.fixed) \in Nat
  BY CutWhole
<1>2. \A n \in 0..Len(c.fixed) : n \in 0..Len(d.fixed)
  BY <1>1
<1> QED
  BY <1>2 DEF CutsStay

\* The positions of a triple that hold a term.
At(triple, x) == {p \in Positions : triple[p] = x}

\* Going down at one position, if the variable is there.
LEMMA DownOneGrows ==
  ASSUME NEW c, IsCursor(c), NEW triple, NEW pos \in Positions, NEW x, NEW val \in Nat
  PROVE  LET d == DownOne(triple, c, pos, x, val)
         IN  IsCursor(d) /\ Grown(c, d, At(triple, x) \cap {pos}, [p \in Positions |-> val]) /\ CutsStay(c, d)
             /\ Len(c.fixed) <= Len(d.fixed)
<1> DEFINE vals == [p \in Positions |-> val]
           d == DownOne(triple, c, pos, x, val)
<1>1. vals[pos] = val
  OBVIOUS
<1>2. CASE triple[pos] = x
  <2>1. At(triple, x) \cap {pos} = {pos}
    BY <1>2 DEF At
  <2>2. d = CursorDown(index, c, pos, val)
    BY <1>2 DEF DownOne
  <2> HIDE DEF vals, d
  <2>3. IsCursor(d) /\ Grown(c, d, {pos}, vals) /\ CutsStay(c, d)
    BY <1>1, <2>2, DownOnce
  <2>4. Len(c.fixed) <= Len(d.fixed)
    <3>1. Len(d.fixed) = Len(c.fixed) + Count({pos}) /\ Len(c.fixed) \in Nat
      BY <2>3, CutWhole DEF Grown
    <3>2. Count({pos}) \in Nat
      BY DEF Count
    <3> QED
      BY <3>1, <3>2
  <2> QED
    BY <2>1, <2>3, <2>4 DEF d, vals
<1>3. CASE triple[pos] # x
  <2>1. At(triple, x) \cap {pos} = {}
    BY <1>3 DEF At
  <2>2. d = c
    BY <1>3 DEF DownOne
  <2>3. Len(c.fixed) <= Len(c.fixed)
    BY CutWhole
  <2> HIDE DEF vals, d
  <2> QED
    BY <2>1, <2>2, <2>3, GrownNot DEF d, vals
<1> QED
  BY <1>2, <1>3

\* Going down at every position of a variable.
LEMMA DownInGrows ==
  ASSUME NEW c, IsCursor(c), NEW triple, NEW x, NEW val \in Nat
  PROVE  LET d == DownIn(triple, c, x, val)
         IN  IsCursor(d) /\ Grown(c, d, At(triple, x), [p \in Positions |-> val]) /\ CutsStay(c, d)
<1> DEFINE vals == [p \in Positions |-> val]
           d1 == DownOne(triple, c, Subject, x, val)
           d2 == DownOne(triple, d1, Predicate, x, val)
           d3 == DownOne(triple, d2, Object, x, val)
           A == At(triple, x)
<1>0. A \subseteq Positions
  BY DEF At
<1>1. DownIn(triple, c, x, val) = d3
  BY DEF DownIn
<1>2. IsCursor(d1) /\ Grown(c, d1, A \cap {1}, vals) /\ CutsStay(c, d1) /\ Len(c.fixed) <= Len(d1.fixed)
  BY DownOneGrows, ThreePositions
<1> HIDE DEF d1
<1>3. IsCursor(d2) /\ Grown(d1, d2, A \cap {2}, vals) /\ CutsStay(d1, d2) /\ Len(d1.fixed) <= Len(d2.fixed)
  BY <1>2, DownOneGrows, ThreePositions
<1> HIDE DEF d2
<1>4. IsCursor(d3) /\ Grown(d2, d3, A \cap {3}, vals) /\ CutsStay(d2, d3) /\ Len(d2.fixed) <= Len(d3.fixed)
  BY <1>3, DownOneGrows, ThreePositions
<1> HIDE DEF d3, vals, A
<1>5. Grown(c, d2, (A \cap {1}) \cup (A \cap {2}), vals)
  <2>1. (A \cap {1}) \cap (A \cap {2}) = {}
    OBVIOUS
  <2> QED
    BY <1>2, <1>3, <2>1, GrownTwice
<1>6. Grown(c, d3, ((A \cap {1}) \cup (A \cap {2})) \cup (A \cap {3}), vals)
  <2>1. ((A \cap {1}) \cup (A \cap {2})) \cap (A \cap {3}) = {}
    OBVIOUS
  <2> QED
    BY <1>3, <1>4, <1>5, <2>1, GrownTwice
<1>7. ((A \cap {1}) \cup (A \cap {2})) \cup (A \cap {3}) = A
  BY <1>0, ThreePositions
<1>8. Len(c.fixed) <= Len(d2.fixed) /\ CutsStay(c, d2)
  <2>1. Len(c.fixed) \in Nat /\ Len(d1.fixed) \in Nat /\ Len(d2.fixed) \in Nat
    BY <1>2, <1>3, CutWhole
  <2> QED
    BY <1>2, <1>3, <2>1, CutsStayTwice
<1>9. CutsStay(c, d3)
  BY <1>3, <1>4, <1>8, CutsStayTwice
<1> QED
  BY <1>1, <1>4, <1>6, <1>7, <1>9 DEF vals, A

(***************************************************************************)
(* Coming up.                                                              *)
(***************************************************************************)
\* So many components fewer are fixed.
Shrunk(c, d, n) ==
  /\ Len(d.fixed) = Len(c.fixed) - n
  /\ \A k \in 1..Len(d.fixed) : d.fixed[k] = c.fixed[k]
  /\ \A k \in 0..Len(d.fixed) : Cut(d, k) = Cut(c, k)

\* Coming up once.
LEMMA UpOnce ==
  ASSUME NEW c, IsCursor(c), Len(c.fixed) > 0
  PROVE  IsCursor(CursorUp(c)) /\ Shrunk(c, CursorUp(c), 1)
<1> DEFINE n == Len(c.fixed) - 1
           d == CursorUp(c)
           w == IF n < c.deadFrom THEN None ELSE c.deadFrom
           g == SubSeq(c.fixed, 1, n)
<1>1. PICK f, x, y, u, v, s : c = [fixed |-> f, level1 |-> x, level2 |-> y, empty |-> u, deadFrom |-> v, skipped |-> s]
  BY DEF IsCursor
<1>2. /\ f = c.fixed /\ v = c.deadFrom /\ c.fixed \in Seq(Positions \X Nat)
      /\ n \in Nat /\ Len(c.fixed) = n + 1
      /\ v = None \/ v \in 1..(n + 1)
  BY <1>1, CutWhole DEF IsCursor
<1>3. d = [c EXCEPT !.fixed = g, !.deadFrom = w]
  BY DEF CursorUp, Revived
<1>4. /\ g \in Seq(Positions \X Nat) /\ Len(g) = n /\ \A k \in 1..n : g[k] = c.fixed[k]
  <2>1. n \in Int /\ n >= 0 /\ 1 \in Int /\ \A k \in 1..n : c.fixed[k] \in Positions \X Nat
    <3>1. \A k \in 1..n : k \in 1..Len(c.fixed)
      BY <1>2
    <3> HIDE DEF n
    <3> QED
      BY <1>2, <3>1, ElementOfSeq
  <2> HIDE DEF g, n
  <2>2. g \in Seq(Positions \X Nat) /\ Len(g) = (IF 1 <= n THEN n - 1 + 1 ELSE 0)
        /\ \A k \in 1..(n - 1 + 1) : g[k] = c.fixed[1 + k - 1]
    BY <2>1, SubSeqProperties DEF g
  <2> QED
    BY <2>1, <2>2
<1> HIDE DEF d, g, w, n
<1>5. d = [fixed |-> g, level1 |-> x, level2 |-> y, empty |-> u, deadFrom |-> w, skipped |-> s]
  BY <1>1, <1>3
<1>6. d.fixed = g /\ d.empty = c.empty /\ d.deadFrom = w
  BY <1>1, <1>5
<1>7. w = None \/ w \in 1..n
  BY <1>2 DEF w, None
<1>8. IsCursor(d)
  BY <1>4, <1>5, <1>6, <1>7 DEF IsCursor
<1>9. \A k \in 0..n : Cut(d, k) = Cut(c, k)
  <2>1. SUFFICES ASSUME NEW k \in 0..n
                 PROVE  Cut(d, k) = Cut(c, k)
    OBVIOUS
  <2> DEFINE a == SubSeq(g, 1, k)
             b == SubSeq(c.fixed, 1, k)
             Comps == Positions \X Nat
  <2>2. (\A i \in 1..k : g[i] \in Comps) /\ (\A i \in 1..k : c.fixed[i] \in Comps)
    <3>1. \A i \in 1..k : i \in 1..n /\ i \in 1..(n + 1)
      BY <1>2, <2>1
    <3> QED
      BY <1>2, <1>4, <3>1, ElementOfSeq
  <2>3. /\ a \in Seq(Comps) /\ b \in Seq(Comps) /\ Len(a) = k /\ Len(b) = k
        /\ (\A i \in 1..k : a[i] = g[i]) /\ (\A i \in 1..k : b[i] = c.fixed[i])
    <3>1. k \in Int /\ k >= 0 /\ 1 \in Int
      BY <1>2, <2>1
    <3> HIDE DEF a, b, Comps
    <3>2. a \in Seq(Comps) /\ Len(a) = (IF 1 <= k THEN k - 1 + 1 ELSE 0)
          /\ \A i \in 1..(k - 1 + 1) : a[i] = g[1 + i - 1]
      BY <2>2, <3>1, SubSeqProperties DEF a
    <3>3. b \in Seq(Comps) /\ Len(b) = (IF 1 <= k THEN k - 1 + 1 ELSE 0)
          /\ \A i \in 1..(k - 1 + 1) : b[i] = c.fixed[1 + i - 1]
      BY <2>2, <3>1, SubSeqProperties DEF b
    <3> QED
      BY <3>1, <3>2, <3>3
  <2>4. \A i \in 1..k : a[i] = b[i]
    <3>1. \A i \in 1..k : i \in 1..n
      BY <1>2, <2>1
    <3> HIDE DEF a, b
    <3> QED
      BY <1>4, <2>3, <3>1
  <2> HIDE DEF a, b, Comps
  <2>5. a = b
    BY <2>3, <2>4, SeqEqual
  <2>6. (IF k < w THEN None ELSE w) = (IF k < c.deadFrom THEN None ELSE c.deadFrom)
    BY <1>2, <2>1 DEF None, w
  <2> QED
    BY <1>6, <2>5, <2>6 DEF Cut, a, b
<1>10. Shrunk(c, d, 1)
  <2>1. Len(d.fixed) = Len(c.fixed) - 1
    BY <1>2, <1>4, <1>6
  <2> QED
    BY <1>4, <1>6, <1>9, <2>1 DEF Shrunk
<1> QED
  BY <1>8, <1>10 DEF d

\* Coming up twice.
LEMMA ShrunkTwice ==
  ASSUME NEW c, IsCursor(c), NEW d, IsCursor(d), NEW e, IsCursor(e), NEW n \in Nat, NEW m \in Nat,
         Shrunk(c, d, n), Shrunk(d, e, m)
  PROVE  Shrunk(c, e, n + m)
<1>1. Len(c.fixed) \in Nat /\ Len(d.fixed) \in Nat /\ Len(e.fixed) \in Nat
  BY CutWhole
<1>2. Len(d.fixed) = Len(c.fixed) - n /\ Len(e.fixed) = Len(d.fixed) - m
  BY DEF Shrunk
<1>3. Len(e.fixed) = Len(c.fixed) - (n + m) /\ Len(e.fixed) <= Len(d.fixed)
  BY <1>1, <1>2
<1>4. (\A k \in 1..Len(e.fixed) : k \in 1..Len(d.fixed)) /\ (\A k \in 0..Len(e.fixed) : k \in 0..Len(d.fixed))
  BY <1>1, <1>3
<1> QED
  BY <1>3, <1>4 DEF Shrunk

\* Coming up at one position, if the variable is there.
LEMMA UpOneShrinks ==
  ASSUME NEW c, IsCursor(c), NEW triple, NEW pos \in Positions, NEW x,
         Len(c.fixed) >= Count(At(triple, x) \cap {pos})
  PROVE  IsCursor(UpOne(triple, c, pos, x)) /\ Shrunk(c, UpOne(triple, c, pos, x), Count(At(triple, x) \cap {pos}))
<1>0. Len(c.fixed) \in Nat
  BY CutWhole
<1>1. CASE triple[pos] = x
  <2>1. Count(At(triple, x) \cap {pos}) = 1
    BY <1>1, ThreePositions DEF At, Count
  <2>2. UpOne(triple, c, pos, x) = CursorUp(c)
    BY <1>1 DEF UpOne
  <2> QED
    BY <1>0, <2>1, <2>2, UpOnce
<1>2. CASE triple[pos] # x
  <2>1. Count(At(triple, x) \cap {pos}) = 0
    BY <1>2, ThreePositions DEF At, Count
  <2>2. UpOne(triple, c, pos, x) = c
    BY <1>2 DEF UpOne
  <2>3. Shrunk(c, c, 0)
    BY <1>0 DEF Shrunk
  <2> QED
    BY <2>1, <2>2, <2>3
<1> QED
  BY <1>1, <1>2

\* Coming up at every position of a variable.
LEMMA UpInShrinks ==
  ASSUME NEW c, IsCursor(c), NEW triple, NEW x, Len(c.fixed) >= Count(At(triple, x))
  PROVE  IsCursor(UpIn(triple, c, x)) /\ Shrunk(c, UpIn(triple, c, x), Count(At(triple, x)))
<1> DEFINE d1 == UpOne(triple, c, Subject, x)
           d2 == UpOne(triple, d1, Predicate, x)
           d3 == UpOne(triple, d2, Object, x)
           a == Count(At(triple, x) \cap {1})
           b == Count(At(triple, x) \cap {2})
           e == Count(At(triple, x) \cap {3})
<1>0. /\ a \in Nat /\ b \in Nat /\ e \in Nat /\ Count(At(triple, x)) = a + b + e
      /\ Len(c.fixed) \in Nat
  BY CutWhole DEF Count
<1>1. UpIn(triple, c, x) = d3
  BY DEF UpIn
<1>2. IsCursor(d1) /\ Shrunk(c, d1, a)
  <2>1. Len(c.fixed) >= a
    <3> HIDE DEF a, b, e
    <3> QED
      BY <1>0
  <2> QED
    BY <2>1, UpOneShrinks, ThreePositions
<1> HIDE DEF d1, a, b, e
<1>3. Len(d1.fixed) >= b + e /\ Len(d1.fixed) \in Nat
  BY <1>0, <1>2, CutWhole DEF Shrunk
<1>4. IsCursor(d2) /\ Shrunk(d1, d2, b)
  <2>1. Len(d1.fixed) >= b
    BY <1>0, <1>3
  <2> QED
    BY <1>2, <2>1, UpOneShrinks, ThreePositions DEF b
<1> HIDE DEF d2
<1>5. Len(d2.fixed) >= e
  BY <1>0, <1>3, <1>4, CutWhole DEF Shrunk
<1>6. IsCursor(d3) /\ Shrunk(d2, d3, e)
  BY <1>4, <1>5, UpOneShrinks, ThreePositions DEF e
<1> HIDE DEF d3
<1>7. Shrunk(c, d2, a + b)
  BY <1>0, <1>2, <1>4, ShrunkTwice
<1>8. Shrunk(c, d3, (a + b) + e)
  <2>1. a + b \in Nat
    BY <1>0
  <2> QED
    BY <1>0, <1>4, <1>6, <1>7, <2>1, ShrunkTwice
<1> QED
  BY <1>0, <1>1, <1>6, <1>8

(***************************************************************************)
(* What a cursor has fixed at a level.                                     *)
(***************************************************************************)
Constants(triple) == {p \in Positions : ~IsVariable(triple[p])}
\* The positions of a triple fixed when the first variables of a path are bound.
Bound(triple, path, n) == Constants(triple) \cup {p \in Positions : \E j \in 1..n : path[j] = triple[p]}

\* The components a cursor has fixed are the constants, then those of each level in turn,
\* each to what its variable stands at; cut back to the constants it is where it began.
Layered(triple, c, o, path, vals, n) ==
  /\ IsCursor(c)
  /\ Len(c.fixed) = Count(Bound(triple, path, n))
  /\ \A l \in 0..n : Firsts(c, Count(Bound(triple, path, l))) = Bound(triple, path, l)
  /\ \A k \in 1..Len(c.fixed) :
        /\ ~IsVariable(triple[c.fixed[k][1]]) => c.fixed[k][2] = triple[c.fixed[k][1]]
        /\ \A j \in 1..n : path[j] = triple[c.fixed[k][1]] => c.fixed[k][2] = vals[j]
  /\ Cut(c, Count(Constants(triple))) = Standpoint(o)

\* A larger set of positions has more of them.
LEMMA CountMore ==
  ASSUME NEW S, NEW T, S \subseteq T
  PROVE  Count(S) \in Nat /\ Count(T) \in Nat /\ Count(S) <= Count(T)
BY DEF Count

\* Different variables.
Distinct(path, n) ==
  /\ \A i, j \in 1..n : path[i] = path[j] => i = j
  /\ \A i \in 1..n : IsVariable(path[i])

\* What one level more fixes.
LEMMA BoundMore ==
  ASSUME NEW triple, NEW path, NEW n \in Nat, Distinct(path, n + 1)
  PROVE  /\ Bound(triple, path, n + 1) = Bound(triple, path, n) \cup At(triple, path[n + 1])
         /\ Bound(triple, path, n) \cap At(triple, path[n + 1]) = {}
         /\ Count(Bound(triple, path, n + 1)) = Count(Bound(triple, path, n)) + Count(At(triple, path[n + 1]))
<1> DEFINE B == Bound(triple, path, n)
           A == At(triple, path[n + 1])
<1>1. \A j \in 1..(n + 1) : j \in 1..n \/ j = n + 1
  OBVIOUS
<1>2. n + 1 \in 1..(n + 1) /\ \A j \in 1..n : j \in 1..(n + 1) /\ j # n + 1
  OBVIOUS
<1>3. Bound(triple, path, n + 1) = B \cup A
  BY <1>1, <1>2 DEF Bound, At
<1>4. B \cap A = {}
  BY <1>2 DEF Bound, At, Distinct, Constants
<1>5. Count(B \cup A) = Count(B) + Count(A)
  <2> HIDE DEF A, B
  <2> QED
    BY <1>4 DEF Count
<1> QED
  BY <1>3, <1>4, <1>5

\* Bound grows with the level.
LEMMA BoundGrows ==
  ASSUME NEW triple, NEW path, NEW n \in Nat, NEW l \in 0..n
  PROVE  /\ Bound(triple, path, l) \subseteq Bound(triple, path, n)
         /\ Count(Bound(triple, path, l)) \in Nat
         /\ Count(Bound(triple, path, l)) <= Count(Bound(triple, path, n))
<1>1. \A j \in 1..l : j \in 1..n
  OBVIOUS
<1>2. Bound(triple, path, l) \subseteq Bound(triple, path, n)
  BY <1>1 DEF Bound
<1> QED
  BY <1>2, CountMore

\* With nothing bound there are the constants.
LEMMA BoundNone ==
  ASSUME NEW triple, NEW path
  PROVE  Bound(triple, path, 0) = Constants(triple)
BY DEF Bound

\* The first entries of a cursor that has grown, or shrunk.
LEMMA FirstsSame ==
  ASSUME NEW c, NEW d, NEW n \in Nat, \A k \in 1..n : d.fixed[k] = c.fixed[k]
  PROVE  Firsts(d, n) = Firsts(c, n)
BY DEF Firsts

\* Down a level.
LEMMA LayerDown ==
  ASSUME NEW triple, NEW c, NEW o, NEW path, NEW vals, NEW n \in Nat,
         Layered(triple, c, o, path, vals, n), Distinct(path, n + 1), vals[n + 1] \in Nat
  PROVE  Layered(triple, DownIn(triple, c, path[n + 1], vals[n + 1]), o, path, vals, n + 1)
<1> DEFINE x == path[n + 1]
           v == vals[n + 1]
           d == DownIn(triple, c, x, v)
           A == At(triple, x)
           val == [p \in Positions |-> v]
           B(l) == Bound(triple, path, l)
           m == Len(c.fixed)
<1>1. IsCursor(c) /\ m = Count(B(n)) /\ m \in Nat /\ v \in Nat
  BY CutWhole DEF Layered
<1>2. IsCursor(d) /\ Grown(c, d, A, val) /\ CutsStay(c, d)
  BY <1>1, DownInGrows
<1> HIDE DEF d
<1>3. B(n + 1) = B(n) \cup A /\ B(n) \cap A = {} /\ Count(B(n + 1)) = Count(B(n)) + Count(A)
  BY BoundMore
<1>4. /\ Len(d.fixed) = m + Count(A) /\ (\A k \in 1..m : d.fixed[k] = c.fixed[k])
      /\ {d.fixed[k][1] : k \in (m + 1)..Len(d.fixed)} = A
      /\ \A k \in (m + 1)..Len(d.fixed) : d.fixed[k][2] = val[d.fixed[k][1]]
      /\ Count(A) \in Nat
  BY <1>2, CountMore DEF Grown
<1>5. Len(d.fixed) = Count(B(n + 1)) /\ Len(d.fixed) \in Nat /\ m <= Len(d.fixed)
  BY <1>1, <1>3, <1>4
<1>6. \A l \in 0..n : Firsts(d, Count(B(l))) = B(l)
  <2>1. SUFFICES ASSUME NEW l \in 0..n
                 PROVE  Firsts(d, Count(B(l))) = B(l)
    OBVIOUS
  <2>2. Count(B(l)) \in Nat /\ Count(B(l)) <= m
    BY <1>1, BoundGrows
  <2>3. \A k \in 1..Count(B(l)) : k \in 1..m
    BY <1>1, <2>2
  <2>4. Firsts(d, Count(B(l))) = Firsts(c, Count(B(l)))
    BY <1>4, <2>2, <2>3, FirstsSame
  <2> QED
    BY <2>4 DEF Layered
<1>7. Firsts(d, Count(B(n + 1))) = B(n + 1)
  <2>1. Firsts(d, m) = B(n)
    <3>1. n \in 0..n
      OBVIOUS
    <3> QED
      BY <1>1, <1>6, <3>1
  <2>2. \A k \in 1..Len(d.fixed) : k \in 1..m \/ k \in (m + 1)..Len(d.fixed)
    BY <1>1, <1>5
  <2>3. (\A k \in 1..m : k \in 1..Len(d.fixed)) /\ \A k \in (m + 1)..Len(d.fixed) : k \in 1..Len(d.fixed)
    BY <1>1, <1>5
  <2>4. Firsts(d, Len(d.fixed)) = Firsts(d, m) \cup A
    <3> HIDE DEF A, m
    <3>1. Firsts(d, Len(d.fixed)) \subseteq Firsts(d, m) \cup A
      BY <1>4, <2>2 DEF Firsts
    <3>2. Firsts(d, m) \cup A \subseteq Firsts(d, Len(d.fixed))
      BY <1>4, <2>3 DEF Firsts
    <3> QED
      BY <3>1, <3>2
  <2> QED
    BY <1>3, <1>5, <2>1, <2>4
<1>8. \A l \in 0..(n + 1) : Firsts(d, Count(B(l))) = B(l)
  <2>1. \A l \in 0..(n + 1) : l \in 0..n \/ l = n + 1
    OBVIOUS
  <2> HIDE DEF B
  <2> QED
    BY <1>6, <1>7, <2>1
<1>9. ASSUME NEW k \in 1..Len(d.fixed)
      PROVE  /\ ~IsVariable(triple[d.fixed[k][1]]) => d.fixed[k][2] = triple[d.fixed[k][1]]
             /\ \A j \in 1..(n + 1) : path[j] = triple[d.fixed[k][1]] => d.fixed[k][2] = vals[j]
  <2>1. \A j \in 1..(n + 1) : j \in 1..n \/ j = n + 1
    OBVIOUS
  <2>2. CASE k \in 1..m
    <3>1. d.fixed[k] = c.fixed[k]
      BY <1>4, <2>2
    <3>2. d.fixed[k][1] \in B(n)
      <4>1. n \in 0..n
        OBVIOUS
      <4>2. Firsts(c, m) = B(n)
        BY <1>1, <4>1 DEF Layered
      <4> QED
        BY <2>2, <3>1, <4>2 DEF Firsts
    <3>3. path[n + 1] # triple[d.fixed[k][1]]
      <4>1. d.fixed[k][1] \in Positions /\ d.fixed[k][1] \notin A
        BY <1>3, <3>2 DEF Bound, Constants
      <4> QED
        BY <4>1 DEF At
    <3>4. /\ ~IsVariable(triple[c.fixed[k][1]]) => c.fixed[k][2] = triple[c.fixed[k][1]]
          /\ \A j \in 1..n : path[j] = triple[c.fixed[k][1]] => c.fixed[k][2] = vals[j]
      BY <2>2 DEF Layered
    <3> QED
      BY <2>1, <3>1, <3>3, <3>4
  <2>3. CASE k \in (m + 1)..Len(d.fixed)
    <3>1. d.fixed[k][1] \in A
      BY <1>4, <2>3
    <3>2. d.fixed[k][1] \in Positions /\ triple[d.fixed[k][1]] = x
      BY <3>1 DEF At
    <3>3. d.fixed[k][2] = v
      BY <1>4, <2>3, <3>2
    <3>4. IsVariable(x) /\ \A j \in 1..n : path[j] # x
      BY DEF Distinct
    <3> QED
      BY <2>1, <3>2, <3>3, <3>4
  <2> QED
    BY <1>1, <1>5, <1>9, <2>2, <2>3
<1>10. Cut(d, Count(Constants(triple))) = Standpoint(o)
  <2>1. Constants(triple) = B(0) /\ 0 \in 0..n
    BY BoundNone
  <2>2. Count(Constants(triple)) \in Nat /\ Count(Constants(triple)) <= m
    BY <1>1, <2>1, BoundGrows
  <2>3. Count(Constants(triple)) \in 0..m
    BY <1>1, <2>2
  <2> QED
    BY <1>2, <2>3 DEF CutsStay, Layered
<1> QED
  BY <1>2, <1>5, <1>8, <1>9, <1>10 DEF Layered, d

\* Up a level.
LEMMA LayerUp ==
  ASSUME NEW triple, NEW c, NEW o, NEW path, NEW vals, NEW n \in Nat,
         Layered(triple, c, o, path, vals, n + 1), Distinct(path, n + 1)
  PROVE  Layered(triple, UpIn(triple, c, path[n + 1]), o, path, vals, n)
<1> DEFINE x == path[n + 1]
           d == UpIn(triple, c, x)
           A == At(triple, x)
           B(l) == Bound(triple, path, l)
           m == Len(c.fixed)
<1>1. IsCursor(c) /\ m = Count(B(n + 1)) /\ m \in Nat
  BY CutWhole DEF Layered
<1>2. B(n + 1) = B(n) \cup A /\ Count(B(n + 1)) = Count(B(n)) + Count(A) /\ Count(A) \in Nat /\ Count(B(n)) \in Nat
  BY BoundMore, CountMore
<1>3. IsCursor(d) /\ Shrunk(c, d, Count(A))
  BY <1>1, <1>2, UpInShrinks
<1> HIDE DEF d
<1>4. /\ Len(d.fixed) = m - Count(A) /\ (\A k \in 1..Len(d.fixed) : d.fixed[k] = c.fixed[k])
      /\ \A k \in 0..Len(d.fixed) : Cut(d, k) = Cut(c, k)
  BY <1>3 DEF Shrunk
<1>5. Len(d.fixed) = Count(B(n)) /\ Len(d.fixed) \in Nat /\ Len(d.fixed) <= m
  BY <1>1, <1>2, <1>4
<1>6. \A l \in 0..n : Firsts(d, Count(B(l))) = B(l)
  <2>1. SUFFICES ASSUME NEW l \in 0..n
                 PROVE  Firsts(d, Count(B(l))) = B(l)
    OBVIOUS
  <2>2. Count(B(l)) \in Nat /\ Count(B(l)) <= Len(d.fixed)
    BY <1>5, BoundGrows
  <2>3. \A k \in 1..Count(B(l)) : k \in 1..Len(d.fixed)
    BY <1>5, <2>2
  <2>4. Firsts(d, Count(B(l))) = Firsts(c, Count(B(l)))
    BY <1>4, <2>2, <2>3, FirstsSame
  <2>5. l \in 0..(n + 1)
    OBVIOUS
  <2> QED
    BY <2>4, <2>5 DEF Layered
<1>7. ASSUME NEW k \in 1..Len(d.fixed)
      PROVE  /\ ~IsVariable(triple[d.fixed[k][1]]) => d.fixed[k][2] = triple[d.fixed[k][1]]
             /\ \A j \in 1..n : path[j] = triple[d.fixed[k][1]] => d.fixed[k][2] = vals[j]
  <2>1. k \in 1..m /\ d.fixed[k] = c.fixed[k]
    BY <1>1, <1>4, <1>5, <1>7
  <2>2. \A j \in 1..n : j \in 1..(n + 1)
    OBVIOUS
  <2> QED
    BY <2>1, <2>2 DEF Layered
<1>8. Cut(d, Count(Constants(triple))) = Standpoint(o)
  <2>1. Constants(triple) = B(0) /\ 0 \in 0..n
    BY BoundNone
  <2>2. Count(Constants(triple)) \in Nat /\ Count(Constants(triple)) <= Len(d.fixed)
    BY <1>5, <2>1, BoundGrows
  <2>3. Count(Constants(triple)) \in 0..Len(d.fixed)
    BY <1>5, <2>2
  <2> QED
    BY <1>4, <2>3 DEF Layered
<1> QED
  BY <1>3, <1>5, <1>6, <1>7, <1>8 DEF Layered, d

\* Only the variables bound, and what they stand at, matter.
LEMMA LayerSame ==
  ASSUME NEW triple, NEW c, NEW o, NEW path, NEW vals, NEW path2, NEW vals2, NEW n \in Nat,
         Layered(triple, c, o, path, vals, n),
         \A j \in 1..n : path2[j] = path[j] /\ vals2[j] = vals[j]
  PROVE  Layered(triple, c, o, path2, vals2, n)
<1>1. \A l \in 0..n : Bound(triple, path2, l) = Bound(triple, path, l)
  <2>1. SUFFICES ASSUME NEW l \in 0..n
                 PROVE  Bound(triple, path2, l) = Bound(triple, path, l)
    OBVIOUS
  <2>2. \A j \in 1..l : path2[j] = path[j]
    OBVIOUS
  <2> QED
    BY <2>2 DEF Bound
<1>2. Bound(triple, path2, n) = Bound(triple, path, n)
  BY <1>1
<1> QED
  BY <1>1, <1>2 DEF Layered

\* Where a cursor begins.
LEMMA OpenedLayered ==
  ASSUME NEW triple, triple \in [1..3 -> Nat], NEW idx, NEW path, NEW vals
  PROVE  Layered(triple, CursorAt(idx, triple), CursorAt(idx, triple), path, vals, 0)
<1> DEFINE fresh == [fixed |-> <<>>, level1 |-> [k \in 0..1 |-> 0], level2 |-> 0,
                     empty |-> idx.built = <<>>, deadFrom |-> None, skipped |-> 0]
           c1 == Fixed(idx, triple, fresh, Subject)
           c2 == Fixed(idx, triple, c1, Predicate)
           c3 == Fixed(idx, triple, c2, Object)
           C == Constants(triple)
<1>1. CursorAt(idx, triple) = c3
  BY DEF CursorAt
<1>2. ASSUME NEW c, IsCursor(c), NEW pos \in Positions
      PROVE  /\ IsCursor(Fixed(idx, triple, c, pos))
             /\ Grown(c, Fixed(idx, triple, c, pos), C \cap {pos}, triple)
  <2> DEFINE d == CursorDown(idx, c, pos, triple[pos])
             e == Fixed(idx, triple, c, pos)
  <2>1. CASE IsVariable(triple[pos])
    <3>1. e = c /\ C \cap {pos} = {}
      BY <2>1 DEF Fixed, Constants
    <3> QED
      BY <1>2, <3>1, GrownNot
  <2>2. CASE ~IsVariable(triple[pos])
    <3>1. triple[pos] \in Nat /\ C \cap {pos} = {pos}
      BY <2>2, ThreePositions DEF Constants
    <3>2. IsCursor(d) /\ Grown(c, d, {pos}, triple)
      BY <1>2, <3>1, DownOnce
    <3> DEFINE w == d.empty \/ ~Alive(d)
               r == d.skipped + (IF Skips(idx, c) THEN 1 ELSE 0)
    <3>3. e = [d EXCEPT !.empty = w, !.skipped = r]
      BY <2>2 DEF Fixed
    <3> HIDE DEF d, e, w, r
    <3>4. PICK f, a, b, u, x, s : d = [fixed |-> f, level1 |-> a, level2 |-> b, empty |-> u, deadFrom |-> x, skipped |-> s]
      BY <3>2 DEF IsCursor
    <3>5. e = [fixed |-> f, level1 |-> a, level2 |-> b, empty |-> w, deadFrom |-> x, skipped |-> r]
      BY <3>3, <3>4
    <3>6. e.fixed = d.fixed /\ e.deadFrom = d.deadFrom
      BY <3>4, <3>5
    <3>7. IsCursor(e)
      BY <3>2, <3>5, <3>6 DEF IsCursor
    <3>8. Grown(c, e, {pos}, triple)
      BY <3>2, <3>6 DEF Grown
    <3> QED
      BY <3>1, <3>7, <3>8 DEF e
  <2> QED
    BY <2>1, <2>2
<1>3. IsCursor(fresh) /\ Len(fresh.fixed) = 0
  <2> DEFINE u == idx.built = <<>>
             a == [k \in 0..1 |-> 0]
  <2>1. fresh = [fixed |-> <<>>, level1 |-> a, level2 |-> 0, empty |-> u, deadFrom |-> None, skipped |-> 0]
    OBVIOUS
  <2> HIDE DEF a, u
  <2>2. fresh.fixed = <<>> /\ fresh.deadFrom = None
    BY <2>1
  <2> HIDE DEF fresh
  <2>3. fresh.fixed \in Seq(Positions \X Nat) /\ Len(fresh.fixed) = 0
    BY <2>2
  <2> QED
    BY <2>1, <2>2, <2>3 DEF IsCursor
<1> HIDE DEF fresh, C
<1>4. IsCursor(c1) /\ Grown(fresh, c1, C \cap {1}, triple)
  BY <1>2, <1>3, ThreePositions
<1> HIDE DEF c1
<1>5. IsCursor(c2) /\ Grown(c1, c2, C \cap {2}, triple)
  BY <1>2, <1>4, ThreePositions
<1> HIDE DEF c2
<1>6. IsCursor(c3) /\ Grown(c2, c3, C \cap {3}, triple)
  BY <1>2, <1>5, ThreePositions
<1> HIDE DEF c3
<1>7. Grown(fresh, c2, (C \cap {1}) \cup (C \cap {2}), triple)
  <2>1. (C \cap {1}) \cap (C \cap {2}) = {}
    OBVIOUS
  <2> QED
    BY <1>3, <1>4, <1>5, <2>1, GrownTwice
<1>8. Grown(fresh, c3, ((C \cap {1}) \cup (C \cap {2})) \cup (C \cap {3}), triple)
  <2>1. ((C \cap {1}) \cup (C \cap {2})) \cap (C \cap {3}) = {}
    OBVIOUS
  <2> QED
    BY <1>3, <1>5, <1>6, <1>7, <2>1, GrownTwice
<1>9. ((C \cap {1}) \cup (C \cap {2})) \cup (C \cap {3}) = C
  BY ThreePositions DEF C, Constants
<1>10. Grown(fresh, c3, C, triple)
  BY <1>8, <1>9
<1>11. /\ Len(c3.fixed) = Count(C) /\ Count(C) \in Nat
       /\ {c3.fixed[k][1] : k \in 1..Len(c3.fixed)} = C
       /\ \A k \in 1..Len(c3.fixed) : c3.fixed[k][2] = triple[c3.fixed[k][1]]
  BY <1>3, <1>10, CountMore DEF Grown
<1>12. Bound(triple, path, 0) = C /\ Firsts(c3, Count(C)) = C
  BY <1>11, BoundNone DEF C, Firsts
<1>13. Cut(c3, Count(C)) = Standpoint(c3)
  BY <1>6, <1>11, CutWhole
<1>14. \A l \in 0..0 : l = 0
  OBVIOUS
<1>15. Layered(triple, c3, c3, path, vals, 0)
  BY <1>6, <1>11, <1>12, <1>13, <1>14 DEF Layered, C
<1> QED
  BY <1>1, <1>15

\* What a cursor says of the entries below it.
LEMMA LayerSays ==
  ASSUME NEW triple, NEW c, NEW o, NEW path, NEW vals, NEW n \in Nat, Layered(triple, c, o, path, vals, n)
  PROVE  /\ Free(c) = Positions \ Bound(triple, path, n)
         /\ \A e : AgreesWith(e, c) <=>
              \A p \in Positions : /\ ~IsVariable(triple[p]) => e[p] = triple[p]
                                   /\ \A j \in 1..n : path[j] = triple[p] => e[p] = vals[j]
<1> DEFINE B == Bound(triple, path, n)
           m == Len(c.fixed)
<1>1. IsCursor(c) /\ m = Count(B) /\ m \in Nat
  BY CutWhole DEF Layered
<1>2. DOMAIN c.fixed = 1..m
  BY <1>1 DEF IsCursor
<1>3. Firsts(c, m) = B
  <2>1. n \in 0..n
    OBVIOUS
  <2> QED
    BY <1>1, <2>1 DEF Layered
<1>4. \A k \in 1..m : c.fixed[k][1] \in B
  BY <1>3 DEF Firsts
<1>5. \A p \in B : \E k \in 1..m : c.fixed[k][1] = p
  BY <1>3 DEF Firsts
<1>6. \A k \in 1..m : /\ ~IsVariable(triple[c.fixed[k][1]]) => c.fixed[k][2] = triple[c.fixed[k][1]]
                      /\ \A j \in 1..n : path[j] = triple[c.fixed[k][1]] => c.fixed[k][2] = vals[j]
  BY DEF Layered
<1> HIDE DEF m
<1>7. Free(c) = Positions \ B
  <2>1. {c.fixed[k][1] : k \in DOMAIN c.fixed} = Firsts(c, m)
    BY <1>2 DEF Firsts
  <2> QED
    BY <1>3, <2>1 DEF Free
<1>8. ASSUME NEW e, AgreesWith(e, c), NEW p \in Positions
      PROVE  /\ ~IsVariable(triple[p]) => e[p] = triple[p]
             /\ \A j \in 1..n : path[j] = triple[p] => e[p] = vals[j]
  <2>1. CASE p \in B
    <3>1. PICK k \in 1..m : c.fixed[k][1] = p
      BY <1>5, <2>1
    <3>2. e[p] = c.fixed[k][2]
      BY <1>2, <1>8, <3>1 DEF AgreesWith
    <3> QED
      BY <1>6, <3>1, <3>2
  <2>2. CASE p \notin B
    <3>1. IsVariable(triple[p]) /\ \A j \in 1..n : path[j] # triple[p]
      BY <2>2 DEF Bound, Constants
    <3> QED
      BY <3>1
  <2> QED
    BY <2>1, <2>2
<1>9. ASSUME NEW e, \A p \in Positions : /\ ~IsVariable(triple[p]) => e[p] = triple[p]
                                         /\ \A j \in 1..n : path[j] = triple[p] => e[p] = vals[j]
      PROVE  AgreesWith(e, c)
  <2>1. SUFFICES ASSUME NEW k \in 1..m
                 PROVE  e[c.fixed[k][1]] = c.fixed[k][2]
    BY <1>2 DEF AgreesWith
  <2> DEFINE p == c.fixed[k][1]
  <2>2. p \in Positions /\ (~IsVariable(triple[p]) \/ \E j \in 1..n : path[j] = triple[p])
    <3>1. p \in B
      BY <1>4
    <3> HIDE DEF p
    <3> QED
      BY <3>1 DEF Bound, Constants
  <2>3. CASE ~IsVariable(triple[p])
    BY <1>6, <1>9, <2>2, <2>3
  <2>4. CASE \E j \in 1..n : path[j] = triple[p]
    <3>1. PICK j \in 1..n : path[j] = triple[p]
      BY <2>4
    <3>2. e[p] = vals[j] /\ c.fixed[k][2] = vals[j]
      BY <1>6, <1>9, <2>2, <3>1
    <3> QED
      BY <3>2
  <2> QED
    BY <2>2, <2>3, <2>4
<1> QED
  BY <1>7, <1>8, <1>9

(***************************************************************************)
(* What the cursors of a variable agree on.                                *)
(***************************************************************************)
\* The least of a set from c on.
IsLeast(S, c, v) ==
  \/ v = None /\ \A w \in S : w < c
  \/ v \in S /\ v >= c /\ \A w \in S : w >= c => v <= w

\* That is what LeastFrom gives.
LEMMA LeastIs ==
  ASSUME NEW S, S \subseteq Nat, NEW c \in Nat
  PROVE  IsLeast(S, c, LeastFrom(S, c))
<1> DEFINE more == {v \in S : v >= c}
<1>1. CASE more = {}
  <2>1. LeastFrom(S, c) = None
    BY <1>1 DEF LeastFrom
  <2>2. \A w \in S : w < c
    BY <1>1
  <2> QED
    BY <2>1, <2>2 DEF IsLeast
<1>2. CASE more # {}
  <2>1. LeastFrom(S, c) = Min(more)
    BY <1>2 DEF LeastFrom
  <2>2. Min(more) \in more /\ \A w \in more : Min(more) <= w
    <3>1. more \subseteq Nat
      OBVIOUS
    <3> HIDE DEF more
    <3> QED
      BY <1>2, <3>1, MinLeast
  <2>3. LeastFrom(S, c) \in more /\ \A w \in more : LeastFrom(S, c) <= w
    BY <2>1, <2>2
  <2> QED
    BY <2>3 DEF IsLeast
<1> QED
  BY <1>1, <1>2

\* There is one.
LEMMA LeastOnce ==
  ASSUME NEW S, S \subseteq Nat, NEW c \in Nat, NEW v, NEW w, IsLeast(S, c, v), IsLeast(S, c, w)
  PROVE  v = w
<1>1. CASE v = None \/ w = None
  <2>1. \A u \in S : u \in Nat /\ u # None
    BY DEF None
  <2>2. \A u \in S : u < c
    BY <1>1, <2>1 DEF IsLeast
  <2>3. ASSUME NEW u \in S PROVE ~(u >= c)
    <3>1. u \in Nat /\ u < c
      BY <2>1, <2>2
    <3> QED
      BY <3>1
  <2> QED
    BY <2>3 DEF IsLeast
<1>2. CASE v # None /\ w # None
  <2>1. v \in Nat /\ w \in Nat /\ v <= w /\ w <= v
    BY <1>2 DEF IsLeast
  <2> QED
    BY <2>1
<1> QED
  BY <1>1, <1>2

\* The next cursor in turn.
Turned(n, i) == 1 + (i % n)

\* After the last one comes the first.
LEMMA TurnedIs ==
  ASSUME NEW n \in Nat, n >= 1, NEW i \in 1..n
  PROVE  Turned(n, i) = IF i = n THEN 1 ELSE i + 1
<1>1. CASE i = n
  <2>1. n % n = 0
    OBVIOUS
  <2> QED
    BY <1>1, <2>1 DEF Turned
<1>2. CASE i < n
  <2>1. i % n = i
    BY <1>2
  <2> QED
    BY <1>2, <2>1 DEF Turned
<1> QED
  BY <1>1, <1>2

\* The cursors that came to a value in turn before one is asked.
Behind(n, i, a) == {k \in 1..n : (k < i /\ k >= i - a) \/ k >= i + n - a}

\* One more with each turn.
LEMMA BehindTurned ==
  ASSUME NEW n \in Nat, n >= 2, NEW i \in 1..n, NEW a \in 0..(n - 1)
  PROVE  /\ Behind(n, i, 0) = {}
         /\ i \notin Behind(n, i, a)
         /\ a + 1 < n => Behind(n, Turned(n, i), a + 1) = Behind(n, i, a) \cup {i}
         /\ a + 1 >= n => Behind(n, i, a) \cup {i} = 1..n
         /\ Turned(n, i) \in 1..n
<1>1. Turned(n, i) = IF i = n THEN 1 ELSE i + 1
  BY TurnedIs
<1>2. Behind(n, i, 0) = {} /\ i \notin Behind(n, i, a)
  BY DEF Behind
<1>3. ASSUME a + 1 < n PROVE Behind(n, Turned(n, i), a + 1) = Behind(n, i, a) \cup {i}
  <2>1. CASE i = n
    <3>1. Turned(n, i) = 1
      BY <1>1, <2>1
    <3> QED
      BY <1>3, <2>1, <3>1 DEF Behind
  <2>2. CASE i # n
    <3>1. Turned(n, i) = i + 1
      BY <1>1, <2>2
    <3> QED
      BY <1>3, <2>2, <3>1 DEF Behind
  <2> QED
    BY <2>1, <2>2
<1>4. ASSUME a + 1 >= n PROVE Behind(n, i, a) \cup {i} = 1..n
  BY <1>4 DEF Behind
<1>5. Turned(n, i) \in 1..n
  BY <1>1
<1> QED
  BY <1>2, <1>3, <1>4, <1>5

\* What all of the cursors have.
Shared(n, V) == {v \in Nat : \A k \in 1..n : v \in V[k]}

\* The cursors that have come to a value, and the others, have it.
AllHave(n, V, ask) == \A k \in 1..n : k \in Behind(n, ask.at, ask.agreeing) \/ ask.from \in V[k]

\* What a leap comes to: the value at hand if all of them have it, or the next they share.
Comes(n, V, ask) ==
  IF ask.agreeing > 0 /\ AllHave(n, V, ask) THEN ask.from
  ELSE LeastFrom(Shared(n, V), IF ask.agreeing > 0 THEN ask.from + 1 ELSE ask.from)

\* One turn of the leaps comes to that.
LEMMA ComesByTurns ==
  ASSUME NEW n \in Nat, n >= 2, NEW V, \A k \in 1..n : V[k] \subseteq Nat,
         NEW ask \in Asks(n), NEW val, IsLeast(V[ask.at], ask.from, val)
  PROVE  Answer([a \in Asks(n) |-> Comes(n, V, a)], n, ask, val) = Comes(n, V, ask)
<1> DEFINE comes == [a \in Asks(n) |-> Comes(n, V, a)]
           G == Shared(n, V)
           i == ask.at
           c == ask.from
           a == ask.agreeing
           b == Agreeing(ask, val)
           next == [at |-> Turned(n, i), from |-> val, agreeing |-> b]
           d == IF a > 0 THEN c + 1 ELSE c
<1> SUFFICES Answer(comes, n, ask, val) = Comes(n, V, ask)
  OBVIOUS
<1>1. i \in 1..n /\ c \in Nat /\ a \in 0..(n - 1) /\ V[i] \subseteq Nat
  BY DEF Asks
<1>2. /\ Behind(n, i, 0) = {}
      /\ i \notin Behind(n, i, a)
      /\ a + 1 < n => Behind(n, Turned(n, i), a + 1) = Behind(n, i, a) \cup {i}
      /\ a + 1 >= n => Behind(n, i, a) \cup {i} = 1..n
      /\ Turned(n, i) \in 1..n
      /\ Behind(n, Turned(n, i), 1) = {i}
  <2>1. 0 \in 0..(n - 1) /\ 0 + 1 < n /\ 0 + 1 = 1
    OBVIOUS
  <2>2. Behind(n, i, 0) = {} /\ Behind(n, Turned(n, i), 0 + 1) = Behind(n, i, 0) \cup {i}
    BY <1>1, <2>1, BehindTurned
  <2>3. /\ i \notin Behind(n, i, a)
        /\ a + 1 < n => Behind(n, Turned(n, i), a + 1) = Behind(n, i, a) \cup {i}
        /\ a + 1 >= n => Behind(n, i, a) \cup {i} = 1..n
        /\ Turned(n, i) \in 1..n
    <3> HIDE DEF i, a
    <3> QED
      BY <1>1, BehindTurned
  <2> QED
    BY <2>1, <2>2, <2>3
<1>3. G \subseteq Nat /\ G \subseteq V[i] /\ d \in Nat /\ d >= c
  BY <1>1 DEF Shared
<1>4. \A v : IsLeast(G, d, v) => v = LeastFrom(G, d)
  BY <1>3, LeastIs, LeastOnce
<1>5. Comes(n, V, ask) = IF a > 0 /\ AllHave(n, V, ask) THEN c ELSE LeastFrom(G, d)
  BY DEF Comes
<1>6. AllHave(n, V, ask) => c \in V[i]
  BY <1>1, <1>2 DEF AllHave
<1>7. Answer(comes, n, ask, val) = IF val = None THEN None ELSE IF b >= n THEN val ELSE comes[next]
  BY DEF Answer, Agreed, Turned
<1> HIDE DEF comes
<1>8. CASE val = None
  <2>1. \A w \in V[i] : w < c
    BY <1>1, <1>8 DEF IsLeast, None
  <2>2. IsLeast(G, d, None) /\ c \notin V[i]
    BY <1>1, <1>3, <2>1 DEF IsLeast
  <2> QED
    BY <1>4, <1>5, <1>6, <1>7, <1>8, <2>2
<1>9. CASE val # None
  <2>1. val \in V[i] /\ val \in Nat /\ val >= c /\ \A w \in V[i] : w >= c => val <= w
    BY <1>1, <1>9 DEF IsLeast
  <2>2. b \in 0..(n - 1) => comes[next] = Comes(n, V, next)
    BY <1>2, <2>1 DEF Asks, comes
  <2>3. Comes(n, V, next) = IF b > 0 /\ AllHave(n, V, next) THEN val
                            ELSE LeastFrom(G, IF b > 0 THEN val + 1 ELSE val)
    BY DEF Comes
  <2>4. AllHave(n, V, next) <=> \A k \in 1..n : k \in Behind(n, Turned(n, i), b) \/ val \in V[k]
    BY DEF AllHave
  <2>5. CASE val = c /\ a > 0
    <3>1. b = a + 1
      BY <2>5 DEF Agreeing
    <3>2. CASE a + 1 >= n
      <4>1. AllHave(n, V, ask)
        BY <1>2, <2>1, <2>5, <3>2 DEF AllHave
      <4> HIDE DEF G, i, c, a, b, next, d
      <4> QED
        BY <1>5, <1>7, <1>9, <2>5, <3>1, <3>2, <4>1
    <3>3. CASE a + 1 < n
      <4>1. AllHave(n, V, next) <=> AllHave(n, V, ask)
        <5>1. AllHave(n, V, ask) <=> \A k \in 1..n : k \in Behind(n, i, a) \/ c \in V[k]
          BY DEF AllHave
        <5> HIDE DEF G, i, c, a, b, next, d
        <5> QED
          BY <1>2, <2>1, <2>4, <2>5, <3>1, <3>3, <5>1
      <4>2. b \in 0..(n - 1) /\ b > 0 /\ ~(b >= n) /\ d = val + 1
        BY <1>1, <2>5, <3>1, <3>3
      <4> HIDE DEF G, i, c, a, b, next, d
      <4> QED
        BY <1>5, <1>7, <1>9, <2>2, <2>3, <2>5, <4>1, <4>2
    <3> QED
      BY <1>1, <3>2, <3>3
  <2>6. CASE ~(val = c /\ a > 0)
    <3>1. b = 1
      BY <2>6 DEF Agreeing
    <3>2. Answer(comes, n, ask, val) = IF AllHave(n, V, next) THEN val ELSE LeastFrom(G, val + 1)
      <4>1. b \in 0..(n - 1) /\ b > 0 /\ ~(b >= n)
        BY <3>1
      <4> HIDE DEF G, i, c, a, b, next, d
      <4> QED
        BY <1>7, <1>9, <2>2, <2>3, <4>1
    <3>3. AllHave(n, V, next) <=> val \in G
      <4>1. AllHave(n, V, next) <=> \A k \in 1..n : k = i \/ val \in V[k]
        <5> HIDE DEF i, next, b
        <5> QED
          BY <1>2, <2>4, <3>1
      <4> QED
        BY <2>1, <4>1 DEF Shared
    <3>4. Comes(n, V, ask) = LeastFrom(G, d)
      <4>1. a > 0 => c \notin V[i]
        BY <1>1, <2>1, <2>6
      <4> HIDE DEF G, i, c, a, b, next, d
      <4> QED
        BY <1>5, <1>6, <4>1
    <3>5. val >= d
      BY <1>1, <2>1, <2>6
    <3>6. \A w \in G : w >= d => w >= val
      <4> HIDE DEF G, d, i, c
      <4>1. SUFFICES ASSUME NEW w \in G, w >= d
                     PROVE  w >= val
        OBVIOUS
      <4>2. w \in V[i] /\ w \in Nat
        BY <1>3
      <4>3. w >= c
        BY <1>1, <1>3, <4>1, <4>2
      <4> QED
        BY <2>1, <4>2, <4>3
    <3>7. CASE val \in G
      <4>1. IsLeast(G, d, val)
        BY <1>3, <2>1, <3>5, <3>6, <3>7 DEF IsLeast
      <4> QED
        BY <1>4, <3>2, <3>3, <3>4, <3>7, <4>1
    <3>8. CASE val \notin G
      <4> DEFINE u == LeastFrom(G, val + 1)
      <4>1. IsLeast(G, val + 1, u)
        BY <1>3, <2>1, LeastIs
      <4>2. \A w \in G : w \in Nat /\ (w >= d <=> w >= val + 1)
        <5>1. \A w \in G : w \in Nat /\ w # val
          BY <1>3, <3>8
        <5> HIDE DEF G, d, i, a, c
        <5> QED
          BY <1>3, <2>1, <3>5, <3>6, <5>1
      <4>3. IsLeast(G, d, u)
        <5> HIDE DEF G, d, i, a, c, u
        <5>1. CASE u = None /\ \A w \in G : w < val + 1
          BY <1>3, <2>1, <4>2, <5>1 DEF IsLeast
        <5>2. CASE u \in G /\ u >= val + 1 /\ \A w \in G : w >= val + 1 => u <= w
          BY <1>3, <2>1, <4>2, <5>2 DEF IsLeast
        <5> QED
          BY <4>1, <5>1, <5>2 DEF IsLeast
      <4> QED
        BY <1>4, <3>2, <3>3, <3>4, <3>8, <4>3
    <3> QED
      BY <3>7, <3>8
  <2> QED
    BY <2>5, <2>6
<1> QED
  BY <1>8, <1>9

\* Numbers up to m, the cursors' answers from among them, and what follows from the answers.
Within(n, V, m) == (\A k \in 1..n : V[k] \subseteq Nat) /\ \A k \in 1..n : \A v \in V[k] : v <= m
Answering(n, V, ans) == \A ask \in Asks(n) : IsLeast(V[ask.at], ask.from, ans[ask])
Following(n, ans, f) == \A ask \in Asks(n) : f[ask] = Answer(f, n, ask, ans[ask])

\* What a turn of the leaps says of all of them decides what they come to.
LEMMA TurnsOnce ==
  ASSUME NEW n \in Nat, n >= 2, NEW V, NEW m \in Nat, Within(n, V, m), NEW ans, Answering(n, V, ans),
         NEW f, Following(n, ans, f), NEW g, Following(n, ans, g)
  PROVE  \A ask \in Asks(n) : f[ask] = g[ask]
<1> DEFINE Bad == {ask \in Asks(n) : f[ask] # g[ask]}
           Far(k) == {ask \in Bad : ask.from <= m /\ m - ask.from = k}
<1>1. \A ask \in Asks(n) : ask.at \in 1..n /\ ask.from \in Nat /\ ask.agreeing \in 0..(n - 1)
  BY DEF Asks
<1>2. ASSUME NEW ask \in Bad
      PROVE  /\ ask.from <= m
             /\ \E more \in Bad : more.from > ask.from \/ (more.from = ask.from /\ more.agreeing > ask.agreeing)
  <2> DEFINE val == ans[ask]
             b == Agreeing(ask, val)
             next == [at |-> 1 + (ask.at % n), from |-> val, agreeing |-> b]
  <2>1. ask \in Asks(n) /\ f[ask] # g[ask] /\ IsLeast(V[ask.at], ask.from, val)
    BY DEF Answering
  <2>2. /\ f[ask] = IF val = None THEN None ELSE IF b >= n THEN val ELSE f[next]
        /\ g[ask] = IF val = None THEN None ELSE IF b >= n THEN val ELSE g[next]
    BY <2>1 DEF Answer, Agreed, Following
  <2> HIDE DEF b, next, val, Bad
  <2>3. val # None /\ ~(b >= n) /\ f[next] # g[next]
    BY <2>1, <2>2
  <2>4. ask.at \in 1..n /\ ask.from \in Nat /\ ask.agreeing \in 0..(n - 1)
    BY <1>1, <2>1
  <2>5. val \in V[ask.at] /\ val >= ask.from
    BY <2>1, <2>3 DEF IsLeast
  <2>6. val \in Nat /\ val <= m
    BY <2>4, <2>5 DEF Within
  <2>7. b \in Nat /\ b > 0 /\ (val = ask.from => b > ask.agreeing)
    BY <2>4 DEF Agreeing, b
  <2>8. 1 + (ask.at % n) \in 1..n
    BY <2>4, BehindTurned DEF Turned
  <2>9. next \in Asks(n) /\ next.from = val /\ next.agreeing = b
    BY <2>3, <2>6, <2>7, <2>8 DEF Asks, next
  <2>10. next \in Bad
    BY <2>3, <2>9 DEF Bad
  <2>11. next.from > ask.from \/ (next.from = ask.from /\ next.agreeing > ask.agreeing)
    BY <2>4, <2>5, <2>6, <2>7, <2>9
  <2>12. ask.from <= m
    BY <2>4, <2>5, <2>6
  <2> QED
    BY <2>10, <2>11, <2>12
<1>3. ASSUME Bad # {} PROVE FALSE
  <2> DEFINE Gaps == {m - ask.from : ask \in Bad}
  <2>1. Gaps \subseteq Nat /\ Gaps # {}
    <3>1. \A ask \in Bad : ask.from \in Nat /\ ask.from <= m
      BY <1>1, <1>2
    <3> HIDE DEF Bad
    <3> QED
      BY <1>3, <3>1
  <2>2. PICK k \in Gaps : \A j \in Gaps : k <= j
    <3> HIDE DEF Gaps
    <3> QED
      BY <2>1, LeastNumber
  <2> DEFINE Farthest == {ask \in Bad : m - ask.from = k}
             Left == {n - ask.agreeing : ask \in Farthest}
  <2>3. Left \subseteq Nat /\ Left # {}
    <3>1. \A ask \in Farthest : ask.agreeing \in 0..(n - 1)
      BY <1>1
    <3>2. \E ask \in Bad : m - ask.from = k
      BY <2>2
    <3> HIDE DEF Bad
    <3> QED
      BY <3>1, <3>2
  <2>4. PICK l \in Left : \A j \in Left : l <= j
    <3> HIDE DEF Left
    <3> QED
      BY <2>3, LeastNumber
  <2>5. PICK ask \in Farthest : l = n - ask.agreeing
    BY <2>4
  <2>6. ask \in Bad /\ m - ask.from = k
    BY <2>5
  <2>7. PICK more \in Bad : more.from > ask.from \/ (more.from = ask.from /\ more.agreeing > ask.agreeing)
    BY <1>2, <2>6
  <2>8. /\ more.from \in Nat /\ ask.from \in Nat /\ more.agreeing \in 0..(n - 1) /\ ask.agreeing \in 0..(n - 1)
    BY <1>1, <2>6, <2>7
  <2>9. k <= m - more.from
    BY <2>2, <2>7
  <2>10. more.from = ask.from /\ more.agreeing > ask.agreeing
    BY <2>6, <2>7, <2>8, <2>9
  <2>11. n - more.agreeing \in Left
    BY <2>6, <2>7, <2>10
  <2>12. l <= n - more.agreeing
    <3> HIDE DEF Left
    <3> QED
      BY <2>4, <2>11
  <2> QED
    BY <2>5, <2>8, <2>10, <2>12
<1> QED
  BY <1>3

\* The leaps of several cursors find the next value all of them have.
LEMMA LeapfrogFinds ==
  ASSUME NEW places, Len(places) \in Nat, Len(places) >= 2,
         NEW V, \A k \in 1..Len(places) : V[k] \subseteq Nat,
         NEW m \in Nat, \A k \in 1..Len(places) : \A v \in V[k] : v <= m,
         \A k \in 1..Len(places), c \in Nat : IsLeast(V[k], c, Leap(index, places[k][1], places[k][2], c)),
         NEW c0 \in Nat
  PROVE  Leapfrog(places)[[at |-> 1, from |-> c0, agreeing |-> 0]] = LeastFrom(Shared(Len(places), V), c0)
<1> DEFINE n == Len(places)
           ans == [ask \in Asks(n) |-> Leap(index, places[ask.at][1], places[ask.at][2], ask.from)]
           comes == [a \in Asks(n) |-> Comes(n, V, a)]
           Solves(f) == f = [ask \in Asks(n) |-> Answer(f, n, ask, Leap(index, places[ask.at][1], places[ask.at][2], ask.from))]
<1>1. \A ask \in Asks(n) : ask.at \in 1..n /\ ask.from \in Nat /\ ask.agreeing \in 0..(n - 1)
  BY DEF Asks
<1>2. \A ask \in Asks(n) : IsLeast(V[ask.at], ask.from, ans[ask])
  BY <1>1
<1>3. \A ask \in Asks(n) : ans[ask] = Leap(index, places[ask.at][1], places[ask.at][2], ask.from)
  OBVIOUS
<1> HIDE DEF ans
<1>4. \A ask \in Asks(n) : Answer(comes, n, ask, ans[ask]) = Comes(n, V, ask)
  BY <1>2, ComesByTurns
<1>5. \A ask \in Asks(n) : comes[ask] = Comes(n, V, ask)
  OBVIOUS
<1>6. comes = [ask \in Asks(n) |-> comes[ask]]
  OBVIOUS
<1> HIDE DEF comes
<1>7. Solves(comes)
  BY <1>3, <1>4, <1>5, <1>6
<1>8. Leapfrog(places) = CHOOSE f : Solves(f)
  BY DEF Leapfrog
<1>9. Solves(Leapfrog(places))
  <2> HIDE DEF Solves
  <2> QED
    BY <1>7, <1>8
<1> DEFINE leap == Leapfrog(places)
<1>10. \A ask \in Asks(n) : leap[ask] = Answer(leap, n, ask, ans[ask])
  <2> HIDE DEF leap, n
  <2> QED
    BY <1>3, <1>9 DEF leap
<1>11. \A ask \in Asks(n) : comes[ask] = Answer(comes, n, ask, ans[ask])
  BY <1>4, <1>5
<1> HIDE DEF leap, Solves
<1>12. \A ask \in Asks(n) : leap[ask] = comes[ask]
  <2>1. n \in Nat /\ n >= 2 /\ Within(n, V, m)
    BY DEF Within
  <2>2. Answering(n, V, ans) /\ Following(n, ans, leap) /\ Following(n, ans, comes)
    BY <1>2, <1>10, <1>11 DEF Answering, Following
  <2> HIDE DEF n
  <2> QED
    BY <2>1, <2>2, TurnsOnce
<1> DEFINE first == [at |-> 1, from |-> c0, agreeing |-> 0]
<1>13. first \in Asks(n) /\ first.from = c0 /\ first.agreeing = 0
  BY DEF Asks
<1>14. Comes(n, V, first) = LeastFrom(Shared(n, V), c0)
  <2> HIDE DEF first, n
  <2> QED
    BY <1>13 DEF Comes
<1>15. leap[first] = LeastFrom(Shared(n, V), c0)
  <2> HIDE DEF first, n
  <2> QED
    BY <1>5, <1>12, <1>13, <1>14
<1> QED
  BY <1>15 DEF leap

(***************************************************************************)
(* What the index says of a cursor.                                        *)
(***************************************************************************)
MergedOf(idx) == idx.built \o idx.added
StandingIn(idx) == {k \in DOMAIN MergedOf(idx) : MergedOf(idx)[k][4] \notin idx.removed}
ValuesIn(idx, cur, pos) == {MergedOf(idx)[k][pos] : k \in Under(MergedOf(idx), cur)}
EdgeOf(idx, cur) == [k \in StandingIn(idx) \cap Under(MergedOf(idx), cur) |-> MergedOf(idx)[k][4]]

\* What an index holds, and the triples of a pattern.
Holds(idx) == idx.built \in Seq([1..4 -> Nat]) /\ idx.added \in Seq([1..4 -> Nat])
IsPattern(triples) == triples \in Seq([1..3 -> Nat])

\* Navigation is exact for a cursor, whatever value it is asked for.
Exact(idx, cur) ==
  /\ \A pos \in Free(cur) : /\ \A c \in Nat : Leap(idx, cur, pos, c) = LeastFrom(ValuesIn(idx, cur, pos), c)
                            /\ SeekAll(idx, cur, pos) = ValuesIn(idx, cur, pos)
                            /\ SubtreeSize(idx, cur, pos) \in Nat
  /\ Free(cur) = {} => Eids(idx, cur) \in Seq(Nat) /\ BagOf(Eids(idx, cur)) = BagOf(EdgeOf(idx, cur))

\* The places of a list.
LEMMA PlacesFinite ==
  ASSUME NEW S, NEW s \in Seq(S)
  PROVE  IsFiniteSet(DOMAIN s) /\ DOMAIN s = 1..Len(s) /\ Len(s) \in Nat
<1>1. DOMAIN s = 1..Len(s) /\ Len(s) \in Nat
  OBVIOUS
<1>2. IsFiniteSet(1..Len(s))
  BY <1>1, FS_Interval
<1> QED
  BY <1>1, <1>2

\* What is built and added, one after the other.
LEMMA MergedIs ==
  ASSUME NEW idx, Holds(idx)
  PROVE  MergedOf(idx) \in Seq([1..4 -> Nat])
BY ConcatProperties DEF Holds, MergedOf

\* The numbers in an index have a bound.
LEMMA IndexBound ==
  ASSUME NEW idx, Holds(idx)
  PROVE  \E m \in Nat : \A cur : \A pos \in Positions : ValuesIn(idx, cur, pos) \subseteq 0..m
<1> DEFINE M == MergedOf(idx)
           P == (DOMAIN M) \X (1..3)
           f == [o \in P |-> M[o[1]][o[2]]]
           T == {f[o] : o \in P}
<1>1. M \in Seq([1..4 -> Nat])
  BY MergedIs
<1> HIDE DEF M
<1>2. IsFiniteSet(P)
  <2>1. PICK n \in Int : n = 3
    OBVIOUS
  <2>2. IsFiniteSet(1..n)
    BY FS_Interval
  <2> QED
    BY <1>1, <2>1, <2>2, PlacesFinite, FS_Product
<1>3. \A o \in P : f[o] \in Nat
  <2>1. SUFFICES ASSUME NEW o \in P
                 PROVE  M[o[1]][o[2]] \in Nat
    OBVIOUS
  <2>2. M[o[1]] \in [1..4 -> Nat] /\ o[2] \in 1..4
    BY <1>1
  <2> QED
    BY <2>2
<1>4. IsFiniteSet(T) /\ T \subseteq Nat
  <2>1. f \in Surjection(P, T)
    <3> HIDE DEF P
    <3> QED
      BY DEF Surjection
  <2> HIDE DEF f, P, T
  <2>2. IsFiniteSet(T)
    BY <1>2, <2>1, FS_Surjection
  <2> QED
    BY <1>3, <2>2 DEF T
<1>5. PICK m \in Nat : \A i \in T : i <= m
  <2> HIDE DEF T
  <2> QED
    BY <1>4, FiniteBound
<1>6. ASSUME NEW cur, NEW pos \in Positions, NEW v \in ValuesIn(idx, cur, pos)
      PROVE  v \in 0..m
  <2>1. PICK k \in Under(M, cur) : v = M[k][pos]
    BY <1>6 DEF ValuesIn, M
  <2>2. k \in DOMAIN M /\ pos \in 1..3
    BY ThreePositions DEF Under
  <2> DEFINE o == <<k, pos>>
  <2>3. o \in P /\ f[o] = v
    BY <2>1, <2>2
  <2>4. v \in T
    <3> HIDE DEF f, P, o
    <3> QED
      BY <2>3 DEF T
  <2> HIDE DEF T
  <2> QED
    BY <1>4, <1>5, <2>4
<1> QED
  BY <1>6

\* A function of the first numbers is a list of as many.
LEMMA FunctionIsList ==
  ASSUME NEW n \in Nat, NEW S, NEW s \in [1..n -> S]
  PROVE  s \in Seq(S) /\ Len(s) = n /\ DOMAIN s = 1..n
<1>1. s \in Seq(S)
  BY SeqDef
<1>2. DOMAIN s = 1..n /\ DOMAIN s = 1..Len(s) /\ Len(s) \in Nat
  BY <1>1, LenProperties
<1> QED
  BY <1>1, <1>2

\* The places of a variable are finitely many, and gone through once each.
LEMMA OccurrencesList ==
  ASSUME NEW triples, IsPattern(triples), NEW x
  PROVE  /\ IsFiniteSet(Places(triples, x))
         /\ Occurrences(triples, x) \in Bijection(1..Cardinality(Places(triples, x)), Places(triples, x))
<1> DEFINE at == Places(triples, x)
           before == {o \in at \X at : o[1][1] < o[2][1] \/ (o[1][1] = o[2][1] /\ o[1][2] < o[2][2])}
           P == (DOMAIN triples) \X Positions
<1>1. IsFiniteSet(P)
  <2>1. PICK n \in Int : n = 3
    OBVIOUS
  <2>2. IsFiniteSet(1..n)
    BY FS_Interval
  <2>3. Positions = 1..n
    BY <2>1, ThreePositions
  <2> QED
    BY <2>2, <2>3, PlacesFinite, FS_Product DEF IsPattern
<1>2. at \subseteq P
  BY DEF Places
<1>3. IsFiniteSet(at)
  BY <1>1, <1>2, FS_Subset
<1>4. \A o \in at : o[1] \in Nat /\ o[2] \in Nat /\ o = <<o[1], o[2]>>
  <2>1. DOMAIN triples = 1..Len(triples)
    BY PlacesFinite DEF IsPattern
  <2>2. \A o \in at : o[1] \in DOMAIN triples /\ o[2] \in Positions /\ o = <<o[1], o[2]>>
    BY <1>2
  <2> HIDE DEF at
  <2> QED
    BY <2>1, <2>2, ThreePositions
<1>5. \A o, r \in at : <<o, r>> \in before <=> o[1] < r[1] \/ (o[1] = r[1] /\ o[2] < r[2])
  OBVIOUS
<1> HIDE DEF before, at
<1>6. InLine(at, before)
  <2>1. \A o \in at : <<o, o>> \notin before
    BY <1>4, <1>5
  <2>2. \A o, r \in at : o = r \/ <<o, r>> \in before \/ <<r, o>> \in before
    <3>1. SUFFICES ASSUME NEW o \in at, NEW r \in at, <<o, r>> \notin before, <<r, o>> \notin before
                   PROVE  o = r
      OBVIOUS
    <3>2. o[1] = r[1] /\ o[2] = r[2]
      BY <1>4, <1>5, <3>1
    <3> QED
      BY <1>4, <3>2
  <2>3. \A o, r, s \in at : <<o, r>> \in before /\ <<r, s>> \in before => <<o, s>> \in before
    <3>1. SUFFICES ASSUME NEW o \in at, NEW r \in at, NEW s \in at, <<o, r>> \in before, <<r, s>> \in before
                   PROVE  <<o, s>> \in before
      OBVIOUS
    <3>2. /\ o[1] < r[1] \/ (o[1] = r[1] /\ o[2] < r[2])
          /\ r[1] < s[1] \/ (r[1] = s[1] /\ r[2] < s[2])
      BY <1>5, <3>1
    <3>3. o[1] < s[1] \/ (o[1] = s[1] /\ o[2] < s[2])
      BY <1>4, <3>2
    <3> QED
      BY <1>5, <3>3
  <2> QED
    BY <2>1, <2>2, <2>3 DEF InLine
<1>7. Occurrences(triples, x) = Sorted(at, before)
  BY DEF Occurrences, at, before
<1> QED
  BY <1>3, <1>6, <1>7, SortedLists DEF at

\* What the cursors of a variable all have.
Offered(idx, triples, curs, x) == {v \in Nat : \A o \in Places(triples, x) : v \in ValuesIn(idx, curs[o[1]], o[2])}

\* A level begins, and goes on, with the next value its cursors all have.
LEMMA ValueFromIs ==
  ASSUME Holds(index), IsPattern(Triples), NEW curs, NEW x, Places(Triples, x) # {}, NEW c \in Nat,
         \A o \in Places(Triples, x) : Exact(index, curs[o[1]]) /\ o[2] \in Free(curs[o[1]])
  PROVE  ValueFrom(curs, x, c) = LeastFrom(Offered(index, Triples, curs, x), c)
<1> DEFINE at == Places(Triples, x)
           occ == Occurrences(Triples, x)
           n == Cardinality(at)
           places == CursorsOf(curs, x)
           V == [k \in 1..n |-> ValuesIn(index, curs[occ[k][1]], occ[k][2])]
<1>1. IsFiniteSet(at) /\ occ \in Bijection(1..n, at)
  BY OccurrencesList
<1>2. n \in Nat /\ n # 0
  BY <1>1, FS_CardinalityType, FS_EmptySet
<1>3. /\ DOMAIN occ = 1..n /\ (\A k \in 1..n : occ[k] \in at) /\ \A o \in at : \E k \in 1..n : occ[k] = o
  <2> HIDE DEF at, n, occ
  <2> QED
    BY <1>1 DEF Bijection, Injection, Surjection
<1>4. \A k \in 1..n : places[k] = <<curs[occ[k][1]], occ[k][2]>>
  BY <1>3 DEF CursorsOf
<1>5. Len(places) = n
  <2> DEFINE S == {places[k] : k \in 1..n}
  <2>1. places = [k \in 1..n |-> places[k]]
    BY <1>3 DEF CursorsOf
  <2> HIDE DEF places, n
  <2>2. places \in [1..n -> S]
    BY <2>1
  <2> HIDE DEF S
  <2> QED
    BY <1>2, <2>2, FunctionIsList
<1>6. PICK m \in Nat : \A cur : \A pos \in Positions : ValuesIn(index, cur, pos) \subseteq 0..m
  BY IndexBound
<1>7. \A k \in 1..n : V[k] = ValuesIn(index, places[k][1], places[k][2]) /\ V[k] \subseteq 0..m
  <2>1. SUFFICES ASSUME NEW k \in 1..n
                 PROVE  V[k] = ValuesIn(index, places[k][1], places[k][2]) /\ V[k] \subseteq 0..m
    OBVIOUS
  <2>2. occ[k][2] \in Positions
    BY <1>3 DEF Places
  <2>3. V[k] = ValuesIn(index, curs[occ[k][1]], occ[k][2])
    OBVIOUS
  <2> HIDE DEF occ, places, V, n
  <2>4. places[k][1] = curs[occ[k][1]] /\ places[k][2] = occ[k][2]
    BY <1>4
  <2>5. V[k] = ValuesIn(index, places[k][1], places[k][2])
    BY <2>3, <2>4
  <2>6. V[k] \subseteq 0..m
    BY <1>6, <2>2, <2>3
  <2> QED
    BY <2>5, <2>6
<1>8. \A k \in 1..n : Exact(index, places[k][1]) /\ places[k][2] \in Free(places[k][1])
  <2>1. SUFFICES ASSUME NEW k \in 1..n
                 PROVE  Exact(index, places[k][1]) /\ places[k][2] \in Free(places[k][1])
    OBVIOUS
  <2>2. occ[k] \in at
    BY <1>3
  <2>3. places[k][1] = curs[occ[k][1]] /\ places[k][2] = occ[k][2]
    <3> HIDE DEF occ, places
    <3> QED
      BY <1>4
  <2> HIDE DEF occ, places
  <2> QED
    BY <2>2, <2>3
<1>9. Shared(n, V) = Offered(index, Triples, curs, x)
  <2>1. ASSUME NEW v \in Nat
        PROVE  (\A k \in 1..n : v \in V[k]) <=> \A o \in at : v \in ValuesIn(index, curs[o[1]], o[2])
    <3>1. \A k \in 1..n : V[k] = ValuesIn(index, curs[occ[k][1]], occ[k][2])
      OBVIOUS
    <3> HIDE DEF V, occ, n, at
    <3> QED
      BY <1>3, <3>1
  <2> HIDE DEF V, n
  <2> QED
    BY <2>1 DEF Shared, Offered
<1> HIDE DEF occ, places, V
<1>10. \A k \in 1..n, d \in Nat : Leap(index, places[k][1], places[k][2], d) = LeastFrom(V[k], d)
  <2>1. ASSUME NEW k \in 1..n
        PROVE  \A d \in Nat : Leap(index, places[k][1], places[k][2], d) = LeastFrom(V[k], d)
    <3>1. Exact(index, places[k][1]) /\ places[k][2] \in Free(places[k][1])
      BY <1>8
    <3>2. \A d \in Nat : Leap(index, places[k][1], places[k][2], d)
                           = LeastFrom(ValuesIn(index, places[k][1], places[k][2]), d)
      BY <3>1 DEF Exact
    <3> QED
      BY <1>7, <3>2
  <2> QED
    BY <2>1
<1>11. \A k \in 1..n : V[k] \subseteq Nat /\ \A v \in V[k] : v <= m
  BY <1>6, <1>7
<1>12. \A k \in 1..n, d \in Nat : IsLeast(V[k], d, Leap(index, places[k][1], places[k][2], d))
  BY <1>10, <1>11, LeastIs
<1>13. SeekFrom(places, c) = LeastFrom(Shared(n, V), c)
  <2>1. CASE n = 1
    <3>1. Shared(n, V) = V[1]
      BY <1>11, <2>1 DEF Shared
    <3> QED
      BY <1>5, <1>10, <2>1, <3>1 DEF SeekFrom
  <2>2. CASE n >= 2
    <3>1. SeekFrom(places, c) = Leapfrog(places)[[at |-> 1, from |-> c, agreeing |-> 0]]
      BY <1>5, <2>2 DEF SeekFrom
    <3> HIDE DEF n
    <3> QED
      BY <1>2, <1>5, <1>6, <1>11, <1>12, <2>2, <3>1, LeapfrogFinds
  <2> QED
    BY <1>2, <2>1, <2>2
<1>14. CASE Len(places) = 1 /\ InLastLevel(places[1][1])
  <2>1. n = 1 /\ Shared(n, V) = V[1]
    BY <1>5, <1>11, <1>14 DEF Shared
  <2>2. SeekAll(index, places[1][1], places[1][2]) = V[1]
    BY <1>7, <1>8, <2>1 DEF Exact
  <2>3. ValueFrom(curs, x, c) = LeastFrom(SeekAll(index, places[1][1], places[1][2]), c)
    BY <1>14 DEF ValueFrom, places
  <2> QED
    BY <1>9, <2>1, <2>2, <2>3
<1>15. CASE ~(Len(places) = 1 /\ InLastLevel(places[1][1]))
  <2>1. ValueFrom(curs, x, c) = SeekFrom(places, c)
    BY <1>15 DEF ValueFrom, places
  <2> QED
    BY <1>9, <1>13, <2>1
<1> QED
  BY <1>14, <1>15

\* Those of a set from c on.
Rest(S, c) == {v \in S : v >= c}

\* The values from c on are the next one and those from the one after it on.
LEMMA RestByTurns ==
  ASSUME NEW S, S \subseteq Nat, NEW c \in Nat
  PROVE  Rest(S, c) = And(LeastFrom(S, c), [d \in Nat |-> Rest(S, d)])
<1> DEFINE v == LeastFrom(S, c)
           f == [d \in Nat |-> Rest(S, d)]
<1>1. IsLeast(S, c, v)
  BY LeastIs
<1> HIDE DEF v
<1>2. \A u \in S : u \in Nat
  OBVIOUS
<1>3. CASE v = None
  <2>1. v \notin S
    BY <1>2, <1>3 DEF None
  <2>2. \A w \in S : w < c
    BY <1>1, <2>1 DEF IsLeast
  <2>3. \A w \in S : ~(w >= c)
    BY <1>2, <2>2
  <2>4. Rest(S, c) = {}
    BY <2>3 DEF Rest
  <2> QED
    BY <1>3, <2>4 DEF And, v
<1>4. CASE v # None
  <2>1. v \in S /\ v \in Nat /\ v >= c /\ \A w \in S : w >= c => v <= w
    BY <1>1, <1>2, <1>4 DEF IsLeast
  <2>2. f[v + 1] = Rest(S, v + 1)
    BY <2>1
  <2>3. Rest(S, c) = {v} \cup Rest(S, v + 1)
    <3>1. \A w \in S : w >= c <=> w = v \/ w >= v + 1
      BY <1>2, <2>1
    <3> QED
      BY <2>1, <3>1 DEF Rest
  <2>4. And(v, f) = {v} \cup f[v + 1]
    BY <1>4 DEF And
  <2> QED
    BY <2>2, <2>3, <2>4 DEF v
<1> QED
  BY <1>3, <1>4

\* That decides them.
LEMMA RestOnce ==
  ASSUME NEW S, S \subseteq Nat, NEW m \in Nat, \A v \in S : v <= m,
         NEW f, \A c \in Nat : f[c] = And(LeastFrom(S, c), f)
  PROVE  \A c \in Nat : f[c] = Rest(S, c)
<1> DEFINE Bad == {c \in Nat : f[c] # Rest(S, c)}
           g == [d \in Nat |-> Rest(S, d)]
<1>1. ASSUME NEW c \in Bad
      PROVE  c <= m /\ \E d \in Bad : d > c
  <2> DEFINE v == LeastFrom(S, c)
  <2>1. c \in Nat /\ f[c] # Rest(S, c) /\ IsLeast(S, c, v)
    BY LeastIs
  <2>2. f[c] = And(v, f) /\ Rest(S, c) = And(v, g)
    BY <2>1, RestByTurns
  <2> HIDE DEF v
  <2>3. v # None /\ f[v + 1] # g[v + 1]
    BY <2>1, <2>2 DEF And
  <2>4. v \in Nat /\ v >= c /\ v <= m
    <3>1. v \in S /\ v >= c
      BY <2>1, <2>3 DEF IsLeast
    <3> QED
      BY <3>1
  <2>5. g[v + 1] = Rest(S, v + 1) /\ v + 1 \in Nat
    BY <2>4
  <2>6. v + 1 \in Bad
    BY <2>3, <2>5
  <2>7. v + 1 > c /\ c <= m
    BY <2>1, <2>4
  <2> QED
    BY <2>6, <2>7
<1>2. ASSUME Bad # {} PROVE FALSE
  <2> DEFINE Gaps == {m - c : c \in Bad}
  <2>1. Gaps \subseteq Nat /\ Gaps # {}
    <3>1. \A c \in Bad : c \in Nat /\ c <= m
      BY <1>1
    <3> HIDE DEF Bad
    <3> QED
      BY <1>2, <3>1
  <2>2. PICK k \in Gaps : \A j \in Gaps : k <= j
    <3> HIDE DEF Gaps
    <3> QED
      BY <2>1, LeastNumber
  <2>3. PICK c \in Bad : k = m - c
    BY <2>2
  <2>4. PICK d \in Bad : d > c
    BY <1>1
  <2>5. k <= m - d
    BY <2>2
  <2>6. c \in Nat /\ d \in Nat
    OBVIOUS
  <2> QED
    BY <2>3, <2>4, <2>5, <2>6
<1> QED
  BY <1>2

\* The values a level still has are those its cursors all have.
LEMMA ValuesFromIs ==
  ASSUME Holds(index), IsPattern(Triples), NEW curs, NEW x, Places(Triples, x) # {}, NEW first \in Nat,
         \A o \in Places(Triples, x) : Exact(index, curs[o[1]]) /\ o[2] \in Free(curs[o[1]])
  PROVE  ValuesFrom(curs, x, first) = Rest(Offered(index, Triples, curs, x), first)
<1> DEFINE S == Offered(index, Triples, curs, x)
           Solves(f) == f = [c \in Nat |-> And(ValueFrom(curs, x, c), f)]
           g == [d \in Nat |-> Rest(S, d)]
<1>1. PICK m \in Nat : \A cur : \A pos \in Positions : ValuesIn(index, cur, pos) \subseteq 0..m
  BY IndexBound
<1>2. S \subseteq Nat /\ \A v \in S : v <= m
  <2>1. PICK o \in Places(Triples, x) : TRUE
    OBVIOUS
  <2>2. o[2] \in Positions
    BY <2>1 DEF Places
  <2>3. ValuesIn(index, curs[o[1]], o[2]) \subseteq 0..m
    BY <1>1, <2>2
  <2>4. \A v \in S : v \in 0..m
    BY <2>1, <2>3 DEF Offered
  <2> HIDE DEF S
  <2> QED
    BY <2>4
<1>3. \A c \in Nat : ValueFrom(curs, x, c) = LeastFrom(S, c)
  BY ValueFromIs
<1>4. ValuesFrom(curs, x, first) = (CHOOSE f : Solves(f))[first]
  BY DEF ValuesFrom
<1> HIDE DEF S
<1>5. \A c \in Nat : And(ValueFrom(curs, x, c), g) = Rest(S, c)
  BY <1>2, <1>3, RestByTurns
<1>6. Solves(g)
  BY <1>5
<1>7. PICK f : f = CHOOSE h : Solves(h)
  OBVIOUS
<1>8. Solves(f)
  <2> HIDE DEF Solves
  <2> QED
    BY <1>6, <1>7
<1>9. \A c \in Nat : f[c] = And(LeastFrom(S, c), f)
  BY <1>3, <1>8
<1>10. f[first] = Rest(S, first)
  BY <1>2, <1>9, RestOnce
<1> QED
  BY <1>4, <1>7, <1>10 DEF S

\* Navigation as the runs check it is exact for each cursor.
LEMMA NavigationSays ==
  ASSUME Sought = Nat, NavigationIsExact, Holds(index)
  PROVE  \A i \in DOMAIN cursors : Exact(index, cursors[i])
<1>1. SUFFICES ASSUME NEW i \in DOMAIN cursors
               PROVE  Exact(index, cursors[i])
  OBVIOUS
<1> DEFINE cur == cursors[i]
<1>2. \A pos : ValuesAt(cur, pos) = ValuesIn(index, cur, pos)
  BY DEF ValuesAt, ValuesIn, Merged, MergedOf
<1>3. [k \in Standing \cap Under(Merged, cur) |-> Merged[k][4]] = EdgeOf(index, cur)
  BY DEF Standing, StandingIn, Merged, MergedOf, EdgeOf
<1>4. ASSUME NEW pos \in Free(cur)
      PROVE  /\ \A c \in Nat : Leap(index, cur, pos, c) = LeastFrom(ValuesIn(index, cur, pos), c)
             /\ SeekAll(index, cur, pos) = ValuesIn(index, cur, pos)
             /\ SubtreeSize(index, cur, pos) = IF FixedCount(cur) = 0 THEN Unbounded ELSE Subtree(cur)
  <2>1. LET seen == ValuesAt(cur, pos)
        IN  /\ \A c \in Sought : Leap(index, cur, pos, c) = LeastFrom(seen, c)
            /\ SeekAll(index, cur, pos) = seen
            /\ SubtreeSize(index, cur, pos) = IF FixedCount(cur) = 0 THEN Unbounded ELSE Subtree(cur)
    BY <1>4 DEF NavigationIsExact
  <2> HIDE DEF cur
  <2> QED
    BY <1>2, <2>1
<1>5. Free(cur) = {} => Eids(index, cur) \in Seq(Nat) /\ BagOf(Eids(index, cur)) = BagOf(EdgeOf(index, cur))
  BY <1>3 DEF NavigationIsExact
<1> HIDE DEF cur
<1>6. ASSUME NEW entries \in Seq([1..4 -> Nat])
      PROVE  IsFiniteSet(Under(entries, cur)) /\ Cardinality(Under(entries, cur)) \in Nat
  <2>1. Under(entries, cur) \subseteq DOMAIN entries
    BY DEF Under
  <2> QED
    BY <2>1, PlacesFinite, FS_Subset, FS_CardinalityType
<1>7. Subtree(cur) \in Nat
  <2> DEFINE built == Under(index.built, cur)
             leaf == [k \in built |-> SubSeq(index.built[k], 1, 3)]
             leaves == {SubSeq(index.built[k], 1, 3) : k \in built}
  <2>1. IsFiniteSet(built) /\ Cardinality(built) \in Nat /\ Cardinality(Under(index.added, cur)) \in Nat
    BY <1>6 DEF Holds
  <2>2. leaf \in Surjection(built, leaves)
    <3> HIDE DEF built
    <3> QED
      BY DEF Surjection
  <2>3. Cardinality(leaves) \in Nat
    <3> HIDE DEF built, leaf, leaves
    <3> QED
      BY <2>1, <2>2, FS_Surjection, FS_CardinalityType
  <2>4. Subtree(cur) = (IF index.layout = "array" THEN Cardinality(built) ELSE Cardinality(leaves))
                         + Cardinality(Under(index.added, cur))
    BY DEF Subtree
  <2> HIDE DEF built, leaf, leaves
  <2> QED
    BY <2>1, <2>3, <2>4
<1>8. \A pos \in Free(cur) : SubtreeSize(index, cur, pos) \in Nat
  BY <1>4, <1>7 DEF Unbounded
<1>9. Exact(index, cur)
  BY <1>4, <1>5, <1>8 DEF Exact
<1> QED
  BY <1>9 DEF cur

(***************************************************************************)
(* The sequence of a plan.                                                 *)
(***************************************************************************)
\* A list of the elements of a set, each once.
ListsAll(s, S) ==
  /\ s \in Seq(S)
  /\ \A i, j \in 1..Len(s) : s[i] = s[j] => i = j
  /\ \A x \in S : \E i \in 1..Len(s) : s[i] = x

\* What stands in line is listed so.
LEMMA SortedListsAll ==
  ASSUME NEW S, IsFiniteSet(S), NEW before, InLine(S, before)
  PROVE  ListsAll(Sorted(S, before), S)
<1> DEFINE s == Sorted(S, before)
           n == Cardinality(S)
<1>1. s \in Bijection(1..n, S) /\ n \in Nat
  BY SortedLists, FS_CardinalityType
<1> HIDE DEF s, n
<1>2. s \in [1..n -> S] /\ (\A i, j \in 1..n : s[i] = s[j] => i = j) /\ \A x \in S : \E i \in 1..n : s[i] = x
  BY <1>1 DEF Bijection, Injection, Surjection, IsInjective
<1>3. s \in Seq(S) /\ Len(s) = n
  BY <1>1, <1>2, FunctionIsList
<1> QED
  BY <1>2, <1>3 DEF ListsAll, s

\* Where an element of a list is.
LEMMA PlaceIs ==
  ASSUME NEW S, NEW s, ListsAll(s, S), NEW x \in S
  PROVE  Place(s, x) \in 1..Len(s) /\ s[Place(s, x)] = x
<1>1. DOMAIN s = 1..Len(s)
  BY DEF ListsAll
<1>2. \E i \in DOMAIN s : s[i] = x
  BY <1>1 DEF ListsAll
<1> QED
  BY <1>1, <1>2 DEF Place

\* A list without one of its elements.
LEMMA WithoutLists ==
  ASSUME NEW S, NEW s, ListsAll(s, S), NEW x \in S
  PROVE  /\ ListsAll(Without(s, x), S \ {x})
         /\ Len(s) \in Nat /\ Len(s) > 0 /\ Len(Without(s, x)) = Len(s) - 1
<1> DEFINE k == Place(s, x)
           n == Len(s)
           a == SubSeq(s, 1, k - 1)
           b == SubSeq(s, k + 1, n)
           t == Without(s, x)
           T == S \ {x}
<1>1. k \in 1..n /\ s[k] = x /\ n \in Nat /\ s \in Seq(S)
  BY PlaceIs DEF ListsAll
<1>2. \A i \in 1..n : i # k => s[i] \in T
  <2>1. (\A i \in 1..n : s[i] \in S) /\ \A i, j \in 1..n : s[i] = s[j] => i = j
    BY DEF ListsAll
  <2> HIDE DEF n, k
  <2> QED
    BY <1>1, <2>1
<1>3. a \in Seq(T) /\ Len(a) = k - 1 /\ \A i \in 1..(k - 1) : a[i] = s[i]
  <2>1. k - 1 \in Int /\ 1 \in Int /\ \A i \in 1..(k - 1) : s[i] \in T
    <3> HIDE DEF k, n, T
    <3> QED
      BY <1>1, <1>2
  <2> HIDE DEF T, k
  <2>2. /\ a \in Seq(T) /\ Len(a) = (IF 1 <= k - 1 THEN (k - 1) - 1 + 1 ELSE 0)
        /\ \A i \in 1..((k - 1) - 1 + 1) : a[i] = s[1 + i - 1]
    BY <2>1, SubSeqProperties
  <2> HIDE DEF a, n
  <2> QED
    BY <1>1, <2>2
<1>4. b \in Seq(T) /\ Len(b) = n - k /\ \A i \in 1..(n - k) : b[i] = s[k + i]
  <2>1. k + 1 \in Int /\ n \in Int /\ \A i \in (k + 1)..n : s[i] \in T
    <3> HIDE DEF k, n, T
    <3> QED
      BY <1>1, <1>2
  <2> HIDE DEF T, k, n
  <2>2. /\ b \in Seq(T) /\ Len(b) = (IF k + 1 <= n THEN n - (k + 1) + 1 ELSE 0)
        /\ \A i \in 1..(n - (k + 1) + 1) : b[i] = s[(k + 1) + i - 1]
    BY <2>1, SubSeqProperties
  <2> HIDE DEF b
  <2>3. Len(b) = n - k
    BY <1>1, <2>2
  <2>4. \A i \in 1..(n - k) : i \in 1..(n - (k + 1) + 1) /\ (k + 1) + i - 1 = k + i
    BY <1>1
  <2> QED
    BY <2>2, <2>3, <2>4
<1>5. t = a \o b
  BY DEF Without, RemoveAt
<1> HIDE DEF a, b, t, T, k, n
<1>6. /\ t \in Seq(T) /\ Len(t) = n - 1
      /\ \A i \in 1..(n - 1) : t[i] = IF i < k THEN s[i] ELSE s[i + 1]
  <2>1. /\ t \in Seq(T) /\ Len(t) = Len(a) + Len(b)
        /\ \A i \in 1..(Len(a) + Len(b)) : t[i] = IF i <= Len(a) THEN a[i] ELSE b[i - Len(a)]
    BY <1>3, <1>4, <1>5, ConcatProperties
  <2>2. Len(a) + Len(b) = n - 1
    BY <1>1, <1>3, <1>4
  <2>3. \A i \in 1..(n - 1) : t[i] = IF i < k THEN s[i] ELSE s[i + 1]
    <3>1. SUFFICES ASSUME NEW i \in 1..(n - 1)
                   PROVE  t[i] = IF i < k THEN s[i] ELSE s[i + 1]
      OBVIOUS
    <3>0. t[i] = IF i <= k - 1 THEN a[i] ELSE b[i - (k - 1)]
      <4>1. Len(a) = k - 1 /\ i \in 1..(Len(a) + Len(b))
        BY <1>3, <2>2
      <4> QED
        BY <2>1, <4>1
    <3>2. CASE i < k
      <4>1. i <= k - 1 /\ i \in 1..(k - 1)
        BY <1>1, <3>2
      <4> QED
        BY <1>3, <3>0, <3>2, <4>1
    <3>3. CASE ~(i < k)
      <4>1. t[i] = b[i - (k - 1)]
        <5>1. ~(i <= k - 1)
          BY <1>1, <3>3
        <5> QED
          BY <3>0, <5>1
      <4>2. i - (k - 1) \in 1..(n - k) /\ k + (i - (k - 1)) = i + 1
        BY <1>1, <3>3
      <4> QED
        BY <1>4, <3>3, <4>1, <4>2
    <3> QED
      BY <3>2, <3>3
  <2> QED
    BY <2>1, <2>2, <2>3
<1>7. \A i, j \in 1..n : s[i] = s[j] => i = j
  BY DEF ListsAll, n
<1>8. \A i, j \in 1..(n - 1) : t[i] = t[j] => i = j
  <2>1. SUFFICES ASSUME NEW i \in 1..(n - 1), NEW j \in 1..(n - 1), t[i] = t[j]
                 PROVE  i = j
    OBVIOUS
  <2>2. PICK u \in 1..n : t[i] = s[u] /\ u = IF i < k THEN i ELSE i + 1
    BY <1>1, <1>6
  <2>3. PICK v \in 1..n : t[j] = s[v] /\ v = IF j < k THEN j ELSE j + 1
    BY <1>1, <1>6
  <2>4. u = v
    BY <1>7, <2>1, <2>2, <2>3
  <2> QED
    BY <1>1, <2>2, <2>3, <2>4
<1>9. \A y \in T : \E i \in 1..(n - 1) : t[i] = y
  <2>1. SUFFICES ASSUME NEW y \in T
                 PROVE  \E i \in 1..(n - 1) : t[i] = y
    OBVIOUS
  <2>2. PICK u \in 1..n : s[u] = y
    BY DEF ListsAll, n, T
  <2>3. u # k
    BY <1>1, <2>2 DEF T
  <2>4. CASE u < k
    <3>1. u \in 1..(n - 1)
      BY <1>1, <2>4
    <3> QED
      BY <1>6, <2>2, <2>4, <3>1
  <2>5. CASE u > k
    <3>1. u - 1 \in 1..(n - 1) /\ ~(u - 1 < k) /\ (u - 1) + 1 = u
      BY <1>1, <2>5
    <3> QED
      BY <1>6, <2>2, <3>1
  <2> QED
    BY <1>1, <2>3, <2>4, <2>5
<1>10. ListsAll(t, T)
  BY <1>1, <1>6, <1>8, <1>9 DEF ListsAll
<1>11. n > 0
  BY <1>1
<1> QED
  BY <1>1, <1>6, <1>10, <1>11 DEF t, T, n

\* A list with one element more at a place.
IsInserted(t, s, at, x) ==
  /\ Len(s) \in Nat /\ Len(t) = Len(s) + 1 /\ t[at + 1] = x
  /\ \A i \in 1..at : t[i] = s[i]
  /\ \A i \in (at + 1)..Len(s) : t[i + 1] = s[i]

\* An element put in leaves a list, of the same elements and it, as those before it and after it are.
LEMMA InsertedLists ==
  ASSUME NEW S, NEW s, ListsAll(s, S), NEW x, x \notin S, NEW at, at \in 0..Len(s)
  PROVE  ListsAll(Inserted(s, at, x), S \cup {x}) /\ IsInserted(Inserted(s, at, x), s, at, x)
<1> DEFINE n == Len(s)
           a == SubSeq(s, 1, at)
           b == SubSeq(s, at + 1, n)
           u == a \o <<x>>
           t == Inserted(s, at, x)
           T == S \cup {x}
<1>1. n \in Nat /\ s \in Seq(S) /\ at \in 0..n /\ at \in Int /\ (\A i \in 1..n : s[i] \in S)
      /\ (\A i, j \in 1..n : s[i] = s[j] => i = j) /\ \A y \in S : \E i \in 1..n : s[i] = y
  BY DEF ListsAll
<1>2. \A i \in 1..n : s[i] \in T
  BY <1>1
<1>3. a \in Seq(T) /\ Len(a) = at /\ \A i \in 1..at : a[i] = s[i]
  <2>1. 1 \in Int /\ \A i \in 1..at : s[i] \in T
    <3> HIDE DEF n, T
    <3> QED
      BY <1>1, <1>2
  <2> HIDE DEF T
  <2>2. /\ a \in Seq(T) /\ Len(a) = (IF 1 <= at THEN at - 1 + 1 ELSE 0)
        /\ \A i \in 1..(at - 1 + 1) : a[i] = s[1 + i - 1]
    BY <1>1, <2>1, SubSeqProperties
  <2> HIDE DEF a, n
  <2> QED
    BY <1>1, <2>2
<1>4. b \in Seq(T) /\ Len(b) = n - at /\ \A i \in 1..(n - at) : b[i] = s[at + i]
  <2>1. at + 1 \in Int /\ n \in Int /\ \A i \in (at + 1)..n : s[i] \in T
    <3> HIDE DEF n, T
    <3> QED
      BY <1>1, <1>2
  <2> HIDE DEF T, n
  <2>2. /\ b \in Seq(T) /\ Len(b) = (IF at + 1 <= n THEN n - (at + 1) + 1 ELSE 0)
        /\ \A i \in 1..(n - (at + 1) + 1) : b[i] = s[(at + 1) + i - 1]
    BY <2>1, SubSeqProperties
  <2> HIDE DEF b
  <2>3. Len(b) = n - at
    BY <1>1, <2>2
  <2>4. \A i \in 1..(n - at) : i \in 1..(n - (at + 1) + 1) /\ (at + 1) + i - 1 = at + i
    BY <1>1
  <2> QED
    BY <2>2, <2>3, <2>4
<1>5. <<x>> \in Seq(T) /\ Len(<<x>>) = 1 /\ <<x>>[1] = x
  OBVIOUS
<1>6. t = u \o b
  BY DEF Inserted
<1> HIDE DEF a, b, t, T, n
<1>7. u \in Seq(T) /\ Len(u) = at + 1 /\ u[at + 1] = x /\ \A i \in 1..at : u[i] = s[i]
  <2> DEFINE o == <<x>>
  <2>1. o \in Seq(T) /\ Len(o) = 1 /\ o[1] = x
    BY <1>5
  <2> HIDE DEF o
  <2>2. /\ a \o o \in Seq(T) /\ Len(a \o o) = Len(a) + Len(o)
        /\ \A i \in 1..(Len(a) + Len(o)) : (a \o o)[i] = IF i <= Len(a) THEN a[i] ELSE o[i - Len(a)]
    BY <1>3, <2>1, ConcatProperties
  <2> DEFINE w == a \o o
  <2>3. w = u
    BY DEF o
  <2> HIDE DEF w
  <2>4. w \in Seq(T) /\ Len(w) = at + 1 /\ \A i \in 1..(at + 1) : w[i] = IF i <= at THEN a[i] ELSE o[i - at]
    BY <1>3, <2>1, <2>2 DEF w
  <2>5. w[at + 1] = x
    BY <1>1, <2>1, <2>4
  <2>6. \A i \in 1..at : w[i] = s[i]
    BY <1>1, <1>3, <2>4
  <2> QED
    BY <2>3, <2>4, <2>5, <2>6
<1> HIDE DEF u
<1>8. /\ t \in Seq(T) /\ Len(t) = n + 1
      /\ \A i \in 1..(n + 1) : t[i] = IF i <= at + 1 THEN u[i] ELSE b[i - (at + 1)]
  <2>1. /\ t \in Seq(T) /\ Len(t) = Len(u) + Len(b)
        /\ \A i \in 1..(Len(u) + Len(b)) : t[i] = IF i <= Len(u) THEN u[i] ELSE b[i - Len(u)]
    BY <1>4, <1>6, <1>7, ConcatProperties
  <2>2. Len(u) + Len(b) = n + 1
    BY <1>1, <1>4, <1>7
  <2> QED
    BY <1>7, <2>1, <2>2
<1>9. t[at + 1] = x /\ \A i \in 1..at : t[i] = s[i]
  BY <1>1, <1>7, <1>8
<1>10. \A i \in (at + 1)..n : t[i + 1] = s[i]
  <2>1. SUFFICES ASSUME NEW i \in (at + 1)..n
                 PROVE  t[i + 1] = s[i]
    OBVIOUS
  <2>2. i + 1 \in 1..(n + 1) /\ ~(i + 1 <= at + 1) /\ (i + 1) - (at + 1) \in 1..(n - at)
        /\ at + ((i + 1) - (at + 1)) = i
    BY <1>1
  <2>3. t[i + 1] = b[(i + 1) - (at + 1)]
    BY <1>8, <2>2
  <2> QED
    BY <1>4, <2>2, <2>3
<1>11. \A k \in 1..(n + 1) :
                            \/ k = at + 1
                            \/ k \in 1..at /\ k \in 1..n /\ t[k] = s[k]
                            \/ k - 1 \in (at + 1)..n /\ k - 1 \in 1..n /\ t[k] = s[k - 1]
  <2>1. SUFFICES ASSUME NEW k \in 1..(n + 1), k # at + 1
                 PROVE  \/ k \in 1..at /\ k \in 1..n /\ t[k] = s[k]
                        \/ k - 1 \in (at + 1)..n /\ k - 1 \in 1..n /\ t[k] = s[k - 1]
    OBVIOUS
  <2>2. CASE k <= at
    BY <1>1, <1>9, <2>1, <2>2
  <2>3. CASE k > at + 1
    <3>1. k - 1 \in (at + 1)..n /\ k - 1 \in 1..n /\ (k - 1) + 1 = k
      BY <1>1, <2>1, <2>3
    <3>2. t[(k - 1) + 1] = s[k - 1]
      BY <1>10, <3>1
    <3> QED
      BY <3>1, <3>2
  <2> QED
    BY <1>1, <2>1, <2>2, <2>3
<1>12. \A i, j \in 1..(n + 1) : t[i] = t[j] => i = j
  <2>1. SUFFICES ASSUME NEW i \in 1..(n + 1), NEW j \in 1..(n + 1), t[i] = t[j]
                 PROVE  i = j
    OBVIOUS
  <2>2. \A k \in 1..n : s[k] # x
    BY <1>1
  <2>3. i = at + 1 <=> j = at + 1
    BY <1>9, <1>11, <2>1, <2>2
  <2>4. CASE i # at + 1
    <3>1. PICK a1 \in 1..n : t[i] = s[a1] /\ ((i = a1 /\ i <= at) \/ (i - 1 = a1 /\ i > at + 1))
      BY <1>1, <1>11, <2>4
    <3>2. PICK a2 \in 1..n : t[j] = s[a2] /\ ((j = a2 /\ j <= at) \/ (j - 1 = a2 /\ j > at + 1))
      BY <1>1, <1>11, <2>3, <2>4
    <3>3. a1 = a2
      BY <1>1, <2>1, <3>1, <3>2
    <3> QED
      BY <1>1, <3>1, <3>2, <3>3
  <2> QED
    BY <2>3, <2>4
<1>13. \A y \in T : \E i \in 1..(n + 1) : t[i] = y
  <2>1. SUFFICES ASSUME NEW y \in T
                 PROVE  \E i \in 1..(n + 1) : t[i] = y
    OBVIOUS
  <2>2. CASE y = x
    <3>1. at + 1 \in 1..(n + 1)
      BY <1>1
    <3> QED
      BY <1>9, <2>2, <3>1
  <2>3. CASE y # x
    <3>1. PICK k \in 1..n : s[k] = y
      BY <1>1, <2>3 DEF T
    <3>2. CASE k <= at
      <4>1. k \in 1..at /\ k \in 1..(n + 1)
        BY <1>1, <3>2
      <4> QED
        BY <1>9, <3>1, <4>1
    <3>3. CASE k > at
      <4>1. k \in (at + 1)..n /\ k + 1 \in 1..(n + 1)
        BY <1>1, <3>3
      <4> QED
        BY <1>10, <3>1, <4>1
    <3> QED
      BY <1>1, <3>2, <3>3
  <2> QED
    BY <2>2, <2>3
<1>14. ListsAll(t, T)
  BY <1>1, <1>8, <1>12, <1>13 DEF ListsAll
<1> QED
  BY <1>1, <1>8, <1>9, <1>10, <1>14 DEF t, T, n, IsInserted

\* The variables of a pattern.
LEMMA VarsAre ==
  ASSUME NEW triples, IsPattern(triples)
  PROVE  /\ IsFiniteSet(PatternVars(triples))
         /\ \A x \in PatternVars(triples) : x \in Nat /\ IsVariable(x) /\ Places(triples, x) # {}
         /\ \A i \in DOMAIN triples, p \in Positions :
              triples[i] \in [1..3 -> Nat] /\ triples[i][p] \in Nat
              /\ (IsVariable(triples[i][p]) => triples[i][p] \in PatternVars(triples))
<1>1. \A i \in DOMAIN triples, p \in Positions : triples[i] \in [1..3 -> Nat] /\ triples[i][p] \in Nat
  <2>1. SUFFICES ASSUME NEW i \in DOMAIN triples, NEW p \in Positions
                 PROVE  triples[i] \in [1..3 -> Nat] /\ triples[i][p] \in Nat
    OBVIOUS
  <2>2. triples[i] \in [1..3 -> Nat] /\ p \in 1..3
    BY ThreePositions DEF IsPattern
  <2> QED
    BY <2>2
<1>2. IsFiniteSet(PatternVars(triples))
  BY VarsFinite DEF IsPattern
<1>3. ASSUME NEW x \in PatternVars(triples)
      PROVE  x \in Nat /\ IsVariable(x) /\ Places(triples, x) # {}
  <2>1. \E i \in DOMAIN triples, p \in Positions : x = triples[i][p]
    BY DEF PatternVars
  <2>2. PICK i \in DOMAIN triples, p \in Positions : x = triples[i][p]
    BY <2>1
  <2>3. x \in Nat /\ x \notin 0..100
    BY <1>1, <2>2 DEF PatternVars
  <2> DEFINE o == <<i, p>>
  <2>4. o \in (DOMAIN triples) \X Positions /\ triples[o[1]][o[2]] = x
    BY <2>2
  <2>5. o \in Places(triples, x)
    <3> HIDE DEF o
    <3> QED
      BY <2>4 DEF Places
  <2> QED
    BY <2>3, <2>5 DEF IsVariable
<1>4. ASSUME NEW i \in DOMAIN triples, NEW p \in Positions, IsVariable(triples[i][p])
      PROVE  triples[i][p] \in PatternVars(triples)
  <2>1. triples[i][p] \in Nat /\ triples[i][p] > 100
    BY <1>1, <1>4 DEF IsVariable
  <2>2. triples[i][p] \notin 0..100
    BY <2>1
  <2> QED
    BY <2>2 DEF PatternVars
<1> QED
  BY <1>1, <1>2, <1>3, <1>4

\* What is asked, and what it makes of the variables.
LEMMA AsksAre ==
  ASSUME NEW q, AsksSoundly(q)
  PROVE  /\ IsPattern(q.triples) /\ q.limit \in Nat /\ q.level \in Nat
         /\ \A x \in PatternVars(q.triples) : q.weights[x] \in Nat
         /\ \A arc \in q.arc : /\ arc[1] \in PatternVars(q.triples) /\ arc[2] \in PatternVars(q.triples)
                               /\ arc[1] # arc[2] /\ arc[1] \notin HeldVars(q) /\ arc[2] \notin HeldVars(q)
                               /\ q.memo \in {0, arc[1]}
         /\ \A a, b \in q.arc : a = b
         /\ q.order = "pinned" /\ q.arc = {} => q.memo \in PatternVars(q.triples)
         /\ HeldVars(q) \subseteq PatternVars(q.triples)
<1>1. /\ IsPattern(q.triples) /\ q.limit \in Nat /\ q.level \in Nat /\ q.weights \in [PatternVars(q.triples) -> Nat]
      /\ \A a, b \in q.arc : a = b
      /\ q.order = "pinned" /\ q.arc = {} => q.memo \in PatternVars(q.triples)
      /\ \A arc \in q.arc : q.memo \in {0, arc[1]}
  BY DEF AsksSoundly, IsPattern
<1>2. ASSUME NEW arc \in q.arc, NEW x \in {arc[1], arc[2]}
      PROVE  x \in PatternVars(q.triples) /\ x \notin HeldVars(q)
  <2>1. PICK i \in DOMAIN q.triples, p \in 1..3 : x = q.triples[i][p] /\ x > 100
    BY DEF AsksSoundly
  <2>2. x \in PatternVars(q.triples)
    BY <1>1, <2>1, VarsAre, ThreePositions DEF IsVariable
  <2>3. ~IsLonely(q, x)
    BY DEF IsLonely
  <2> QED
    BY <2>2, <2>3 DEF HeldVars, HeldToTheEnd
<1>3. \A arc \in q.arc : arc[1] # arc[2]
  BY DEF AsksSoundly
<1>4. HeldVars(q) \subseteq PatternVars(q.triples)
  BY DEF HeldVars
<1> QED
  BY <1>1, <1>2, <1>3, <1>4

\* Of two variables one is the lighter.
LEMMA LighterLine ==
  ASSUME NEW q, AsksSoundly(q), NEW S, S \subseteq PatternVars(q.triples)
  PROVE  /\ \A x \in S : ~LighterOf(q, x, x)
         /\ \A x, y \in S : x = y \/ LighterOf(q, x, y) \/ LighterOf(q, y, x)
         /\ \A x, y, z \in S : LighterOf(q, x, y) /\ LighterOf(q, y, z) => LighterOf(q, x, z)
<1>1. \A x \in S : x \in Nat /\ q.weights[x] \in Nat
  BY AsksAre, VarsAre
<1>2. \A x \in S : ~LighterOf(q, x, x)
  BY <1>1 DEF LighterOf
<1>3. \A x, y \in S : x = y \/ LighterOf(q, x, y) \/ LighterOf(q, y, x)
  BY <1>1 DEF LighterOf
<1>4. \A x, y, z \in S : LighterOf(q, x, y) /\ LighterOf(q, y, z) => LighterOf(q, x, z)
  BY <1>1 DEF LighterOf
<1> QED
  BY <1>2, <1>3, <1>4

\* The simple order has every variable once.
LEMMA SimpleOrderLists ==
  ASSUME NEW q, AsksSoundly(q)
  PROVE  ListsAll(SimpleOrder(q), PatternVars(q.triples))
<1> DEFINE all == PatternVars(q.triples)
           held == HeldVars(q)
           before == {o \in all \X all : \/ o[1] \notin held /\ o[2] \in held
                                         \/ (o[1] \in held <=> o[2] \in held) /\ LighterOf(q, o[1], o[2])}
<1>1. \A x, y \in all : <<x, y>> \in before <=> (x \notin held /\ y \in held) \/ ((x \in held <=> y \in held) /\ LighterOf(q, x, y))
  OBVIOUS
<1>2. /\ \A x \in all : ~LighterOf(q, x, x)
      /\ \A x, y \in all : x = y \/ LighterOf(q, x, y) \/ LighterOf(q, y, x)
      /\ \A x, y, z \in all : LighterOf(q, x, y) /\ LighterOf(q, y, z) => LighterOf(q, x, z)
  BY LighterLine
<1>3. IsFiniteSet(all)
  BY AsksAre, VarsAre
<1>4. SimpleOrder(q) = Sorted(all, before)
  BY DEF SimpleOrder
<1> HIDE DEF all, held, before
<1>5. InLine(all, before)
  BY <1>1, <1>2 DEF InLine
<1> QED
  BY <1>3, <1>4, <1>5, SortedListsAll DEF all

\* What a cursor has below it is a number.
LEMMA StartWeightIs ==
  ASSUME NEW q, AsksSoundly(q), NEW curs, \A i \in DOMAIN q.triples : Exact(index, curs[i]),
         NEW x \in PatternVars(q.triples)
  PROVE  StartWeight(q, curs, x) \in Nat
<1> DEFINE at == Places(q.triples, x)
           S == {SubtreeSize(index, curs[o[1]], o[2]) : o \in {o \in at : o[2] \in Free(curs[o[1]])}}
<1>1. S \subseteq Nat
  BY DEF Exact, Places
<1>2. MinSize(q.triples, curs, x) = Min(S \cup {Unbounded})
  BY DEF MinSize
<1>3. Unbounded \in Nat
  BY DEF Unbounded
<1> HIDE DEF S
<1>4. MinSize(q.triples, curs, x) \in Nat
  <2>1. (S \cup {Unbounded}) \subseteq Nat /\ S \cup {Unbounded} # {}
    BY <1>1, <1>3
  <2> QED
    BY <1>2, <2>1, MinLeast
<1>5. q.weights[x] \in Nat
  BY AsksAre
<1> QED
  BY <1>4, <1>5 DEF StartWeight, AtMost

\* What is held back is listed once each.
LEMMA HeldOrderLists ==
  ASSUME NEW q, AsksSoundly(q), NEW curs, \A i \in DOMAIN q.triples : Exact(index, curs[i])
  PROVE  ListsAll(HeldOrder(q, curs), HeldVars(q))
<1> DEFINE held == HeldVars(q)
           weight == [x \in held |-> StartWeight(q, curs, x)]
           before == {o \in held \X held : \/ weight[o[1]] < weight[o[2]]
                                           \/ weight[o[1]] = weight[o[2]] /\ LighterOf(q, o[1], o[2])}
<1>1. \A x \in held : weight[x] \in Nat
  BY StartWeightIs, AsksAre
<1>2. held \subseteq PatternVars(q.triples)
  BY AsksAre
<1> HIDE DEF weight
<1>3. \A x, y \in held : <<x, y>> \in before <=> weight[x] < weight[y] \/ (weight[x] = weight[y] /\ LighterOf(q, x, y))
  OBVIOUS
<1>4. /\ \A x \in held : ~LighterOf(q, x, x)
      /\ \A x, y \in held : x = y \/ LighterOf(q, x, y) \/ LighterOf(q, y, x)
      /\ \A x, y, z \in held : LighterOf(q, x, y) /\ LighterOf(q, y, z) => LighterOf(q, x, z)
  <2> HIDE DEF held
  <2> QED
    BY <1>2, LighterLine
<1>5. IsFiniteSet(held)
  <2>1. IsFiniteSet(PatternVars(q.triples))
    BY AsksAre, VarsAre
  <2> HIDE DEF held
  <2> QED
    BY <1>2, <2>1, FS_Subset
<1>6. HeldOrder(q, curs) = Sorted(held, before)
  BY DEF HeldOrder, weight
<1> HIDE DEF held, before
<1>7. InLine(held, before)
  BY <1>1, <1>3, <1>4 DEF InLine
<1> QED
  BY <1>5, <1>6, <1>7, SortedListsAll DEF held

\* A variable moved to a level.
LEMMA PinAtLists ==
  ASSUME NEW S, NEW s, ListsAll(s, S), NEW x \in S, NEW level \in Nat
  PROVE  ListsAll(PinAt(s, x, level), S)
<1>1. PICK rest : rest = Without(s, x)
  OBVIOUS
<1>2. PICK at : at = AtMost(level, Len(s) - 1)
  OBVIOUS
<1>3. ListsAll(rest, S \ {x}) /\ Len(s) \in Nat /\ Len(s) > 0 /\ Len(rest) = Len(s) - 1
  BY <1>1, WithoutLists
<1>4. at \in 0..Len(rest) /\ x \notin S \ {x}
  BY <1>2, <1>3 DEF AtMost
<1>5. PICK t : t = Inserted(rest, at, x)
  OBVIOUS
<1>6. PinAt(s, x, level) = t
  BY <1>1, <1>2, <1>5 DEF PinAt
<1>7. ListsAll(t, (S \ {x}) \cup {x})
  BY <1>3, <1>4, <1>5, InsertedLists
<1>8. (S \ {x}) \cup {x} = S
  OBVIOUS
<1> QED
  BY <1>6, <1>7, <1>8

\* A variable comes after the one it waits for.
Follows(s, x, anchor) == \A i \in 1..Len(s) : s[i] = x => \E j \in 1..(i - 1) : s[j] = anchor

\* Of two places in a list the later one comes after the earlier.
LEMMA FollowsAt ==
  ASSUME NEW S, NEW s, ListsAll(s, S), NEW x, NEW anchor, NEW i \in 1..Len(s), s[i] = x,
         NEW j \in 1..(i - 1), s[j] = anchor
  PROVE  Follows(s, x, anchor)
<1>1. SUFFICES ASSUME NEW k \in 1..Len(s), s[k] = x
               PROVE  \E l \in 1..(k - 1) : s[l] = anchor
  BY DEF Follows
<1>2. k = i
  BY <1>1 DEF ListsAll
<1> QED
  BY <1>2

\* A variable moved to a level, after the one it waits for.
LEMMA PinAtAfterLists ==
  ASSUME NEW S, NEW s, ListsAll(s, S), NEW x \in S, NEW anchor \in S, x # anchor, NEW level \in Nat
  PROVE  ListsAll(PinAtAfter(s, x, level, anchor), S) /\ Follows(PinAtAfter(s, x, level, anchor), x, anchor)
<1>1. PICK rest : rest = Without(s, x)
  OBVIOUS
<1>2. PICK at : at = AtMost(level, Len(rest))
  OBVIOUS
<1>3. PICK less : less = Without(rest, anchor)
  OBVIOUS
<1>4. PICK once : once = Inserted(less, at, anchor)
  OBVIOUS
<1>5. PICK T : T = S \ {x}
  OBVIOUS
<1>6. PICK t : t = PinAtAfter(s, x, level, anchor)
  OBVIOUS
<1>7. ListsAll(rest, T) /\ anchor \in T /\ x \notin T /\ T \cup {x} = S
  BY <1>1, <1>5, WithoutLists
<1>8. t = IF Place(rest, anchor) <= at THEN Inserted(rest, at, x) ELSE Inserted(once, at + 1, x)
  BY <1>1, <1>2, <1>3, <1>4, <1>6 DEF PinAtAfter
<1>9. Len(rest) \in Nat /\ Len(rest) > 0 /\ ListsAll(less, T \ {anchor}) /\ Len(less) = Len(rest) - 1
      /\ Place(rest, anchor) \in 1..Len(rest) /\ rest[Place(rest, anchor)] = anchor
  BY <1>3, <1>7, WithoutLists, PlaceIs
<1>10. at \in 0..Len(rest)
  BY <1>2, <1>9 DEF AtMost
<1>11. CASE Place(rest, anchor) <= at
  <2>1. t = Inserted(rest, at, x)
    BY <1>8, <1>11
  <2>2. ListsAll(t, T \cup {x}) /\ IsInserted(t, rest, at, x)
    BY <1>7, <1>10, <2>1, InsertedLists
  <2>3. Place(rest, anchor) \in 1..((at + 1) - 1) /\ t[Place(rest, anchor)] = anchor /\ at + 1 \in 1..Len(t)
          /\ t[at + 1] = x
    BY <1>9, <1>10, <1>11, <2>2 DEF IsInserted
  <2>4. Follows(t, x, anchor)
    BY <1>7, <2>2, <2>3, FollowsAt
  <2> QED
    BY <1>6, <1>7, <2>2, <2>4
<1>12. CASE ~(Place(rest, anchor) <= at)
  <2>1. at \in 0..Len(less) /\ anchor \notin T \ {anchor} /\ Len(less) \in Nat
    BY <1>9, <1>10, <1>12
  <2>2. ListsAll(once, (T \ {anchor}) \cup {anchor}) /\ IsInserted(once, less, at, anchor)
    BY <1>4, <1>9, <2>1, InsertedLists
  <2>3. (T \ {anchor}) \cup {anchor} = T
    BY <1>7
  <2>9. ListsAll(once, T)
    BY <2>2, <2>3, Zenon
  <2>4. at + 1 \in 0..Len(once) /\ ListsAll(once, T)
    BY <2>1, <2>2, <2>9 DEF IsInserted
  <2>5. t = Inserted(once, at + 1, x)
    BY <1>8, <1>12
  <2>6. ListsAll(t, T \cup {x}) /\ IsInserted(t, once, at + 1, x)
    BY <1>7, <2>4, <2>5, InsertedLists
  <2>7. at + 1 \in 1..(((at + 1) + 1) - 1) /\ t[at + 1] = anchor /\ (at + 1) + 1 \in 1..Len(t)
        /\ t[(at + 1) + 1] = x
    BY <2>1, <2>2, <2>6 DEF IsInserted
  <2>8. Follows(t, x, anchor)
    BY <2>6, <2>7, <1>7, FollowsAt
  <2> QED
    BY <1>6, <1>7, <2>6, <2>8
<1> QED
  BY <1>11, <1>12

\* An order fixed beforehand has every variable once, the search variable after its anchor.
LEMMA FixedOrderLists ==
  ASSUME NEW q, AsksSoundly(q)
  PROVE  /\ ListsAll(FixedOrder(q), PatternVars(q.triples))
         /\ \A arc \in q.arc : Follows(FixedOrder(q), arc[1], arc[2])
<1>1. PICK V : V = PatternVars(q.triples)
  OBVIOUS
<1>2. PICK s : s = SimpleOrder(q)
  OBVIOUS
<1>3. PICK t : t = FixedOrder(q)
  OBVIOUS
<1>4. PICK arc : arc = CHOOSE a \in q.arc : TRUE
  OBVIOUS
<1>5. ListsAll(s, V)
  BY <1>1, <1>2, SimpleOrderLists
<1>6. PICK level \in Nat : level = AtMost(q.level, MaxLevel(q))
  <2>1. IsFiniteSet(V)
    BY <1>1, AsksAre, VarsAre
  <2>2. IsFiniteSet({x \in V : ~IsLonely(q, x)})
    BY <2>1, FS_Subset
  <2>3. MaxLevel(q) \in Nat
    BY <1>1, <2>2, FS_CardinalityType DEF MaxLevel
  <2>4. q.level \in Nat
    BY AsksAre
  <2> QED
    BY <2>3, <2>4 DEF AtMost
<1>7. t = CASE q.order = "pinned" -> Pinned(q, level)
            [] q.order # "pinned" /\ q.arc = {} -> s
            [] OTHER -> PinAtAfter(s, arc[1], Place(s, arc[1]) - 1, arc[2])
  BY <1>2, <1>3, <1>4, <1>6 DEF FixedOrder
<1>8. Pinned(q, level) = IF q.arc = {} THEN PinAt(s, q.memo, level) ELSE PinAtAfter(s, arc[1], level, arc[2])
  BY <1>2, <1>4 DEF Pinned
<1>9. CASE q.arc = {}
  <2>1. q.order = "pinned" => q.memo \in V
    BY <1>1, <1>9, AsksAre
  <2>2. CASE q.order = "pinned"
    <3>1. t = PinAt(s, q.memo, level)
      BY <1>7, <1>8, <1>9, <2>2
    <3> QED
      BY <1>1, <1>3, <1>5, <1>9, <2>1, <2>2, <3>1, PinAtLists
  <2>3. CASE q.order # "pinned"
    <3>1. t = s
      BY <1>7, <1>9, <2>3
    <3> QED
      BY <1>1, <1>3, <1>5, <1>9, <3>1
  <2> QED
    BY <2>2, <2>3
<1>10. CASE q.arc # {}
  <2>1. arc \in q.arc /\ \A a \in q.arc : a = arc
    BY <1>4, <1>10, AsksAre
  <2>2. arc[1] \in V /\ arc[2] \in V /\ arc[1] # arc[2]
    BY <1>1, <2>1, AsksAre
  <2>3. Place(s, arc[1]) - 1 \in Nat
    <3>1. Place(s, arc[1]) \in 1..Len(s)
      BY <1>5, <2>2, PlaceIs
    <3>2. Len(s) \in Nat
      BY <1>5 DEF ListsAll
    <3> QED
      BY <3>1, <3>2
  <2>4. \E n \in Nat : t = PinAtAfter(s, arc[1], n, arc[2])
    <3>1. CASE q.order = "pinned"
      BY <1>7, <1>8, <1>10, <3>1
    <3>2. CASE q.order # "pinned"
      BY <1>7, <1>10, <2>3, <3>2
    <3> QED
      BY <3>1, <3>2
  <2>5. PICK n \in Nat : t = PinAtAfter(s, arc[1], n, arc[2])
    BY <2>4
  <2>6. ListsAll(t, V) /\ Follows(t, arc[1], arc[2])
    BY <1>5, <2>2, <2>5, PinAtAfterLists
  <2> QED
    BY <1>1, <1>3, <2>1, <2>6
<1> QED
  BY <1>9, <1>10

\* A plan that binds every variable of what is asked.
Covers(p, q) ==
  /\ p.free \subseteq PatternVars(q.triples)
  /\ ListsAll(p.lonely, PatternVars(q.triples) \ p.free)
  /\ \A arc \in q.arc : arc \in p.prereq \/ (p.free = {} /\ Follows(p.lonely, arc[1], arc[2]))
  /\ p.free = {} \/ p.weight = [x \in p.free |-> p.weight[x]]

\* Whatever order a search asks for, its plan binds every variable.
LEMMA PlanCovers ==
  ASSUME NEW q, AsksSoundly(q), NEW curs, \A i \in DOMAIN q.triples : Exact(index, curs[i])
  PROVE  Covers(PlanFor(q, curs), q)
<1>1. PICK p : p = PlanFor(q, curs)
  OBVIOUS
<1>2. PICK V : V = PatternVars(q.triples)
  OBVIOUS
<1>3. p = AdaptivePlan(q, curs) \/ p = FixedPlan(FixedOrder(q))
  BY <1>1 DEF PlanFor
<1>4. CASE p = FixedPlan(FixedOrder(q))
  <2>1. p.free = {} /\ p.lonely = FixedOrder(q)
    BY <1>4 DEF FixedPlan
  <2>2. V \ p.free = V
    BY <2>1
  <2>3. ListsAll(p.lonely, V \ p.free)
    BY <1>2, <2>1, <2>2, FixedOrderLists
  <2>4. p.free \subseteq V
    BY <2>1
  <2> QED
    BY <1>1, <1>2, <2>1, <2>3, <2>4, FixedOrderLists DEF Covers
<1>5. CASE p = AdaptivePlan(q, curs)
  <2>1. PICK H : H = HeldVars(q)
    OBVIOUS
  <2>2. /\ p.free = V \ H /\ p.lonely = HeldOrder(q, curs) /\ p.prereq = q.arc
        /\ p.weight = [x \in V \ H |-> StartWeight(q, curs, x)]
    BY <1>2, <1>5, <2>1 DEF AdaptivePlan
  <2>3. H \subseteq V
    BY <1>2, <2>1, AsksAre
  <2>4. V \ p.free = H
    BY <2>2, <2>3
  <2>8. ListsAll(HeldOrder(q, curs), HeldVars(q))
    BY HeldOrderLists
  <2>5. ListsAll(p.lonely, V \ p.free)
    BY <2>1, <2>2, <2>4, <2>8, Zenon
  <2>6. p.weight = [x \in p.free |-> p.weight[x]]
    BY <2>2
  <2>7. p.free \subseteq V
    BY <2>2
  <2> QED
    BY <1>1, <1>2, <2>2, <2>5, <2>6, <2>7 DEF Covers
<1> QED
  BY <1>3, <1>4, <1>5

(***************************************************************************)
(* The paths of an order.                                                  *)
(***************************************************************************)
\* Behind the free variables of a plan, a path goes along its sequence.
Tailed(p, g) ==
  /\ Len(g) <= Cardinality(p.free) + Len(p.lonely)
  /\ \A i \in 1..Len(g) : i > Cardinality(p.free) => g[i] = p.lonely[i - Cardinality(p.free)]

\* Before that it has free variables, each once.
IsRoute(p, g) ==
  /\ IsList(g)
  /\ \A i \in 1..Len(g) : i <= Cardinality(p.free) => g[i] \in p.free
  /\ \A i, j \in 1..Len(g) : i <= Cardinality(p.free) /\ j <= Cardinality(p.free) /\ g[i] = g[j] => i = j
  /\ Tailed(p, g)

\* A path with every variable.
Fills(g, V) == \A x \in V : \E i \in 1..Len(g) : g[i] = x

\* No variable is twice on a path, and one that is long enough has them all.
LEMMA RouteVars ==
  ASSUME NEW q, AsksSoundly(q), NEW p, Covers(p, q), NEW g, IsRoute(p, g)
  PROVE  /\ Len(g) \in Nat /\ \A i \in 1..Len(g) : g[i] \in PatternVars(q.triples)
         /\ Distinct(g, Len(g))
         /\ Len(g) = Cardinality(p.free) + Len(p.lonely) => Fills(g, PatternVars(q.triples))
<1>1. PICK V : V = PatternVars(q.triples)
  OBVIOUS
<1>2. PICK F : F = p.free
  OBVIOUS
<1>3. PICK s : s = p.lonely
  OBVIOUS
<1>4. PICK k : k = Cardinality(p.free)
  OBVIOUS
<1>5. F \subseteq V /\ ListsAll(s, V \ F) /\ IsFiniteSet(V) /\ \A x \in V : IsVariable(x)
  BY <1>1, <1>2, <1>3, AsksAre, VarsAre DEF Covers
<1>6. IsFiniteSet(F) /\ k \in Nat /\ k = Cardinality(F)
  <2>1. IsFiniteSet(F)
    BY <1>5, FS_Subset
  <2> QED
    BY <1>2, <1>4, <2>1, FS_CardinalityType
<1>7. /\ s \in Seq(V \ F) /\ Len(s) \in Nat /\ (\A i \in 1..Len(s) : s[i] \in V \ F)
      /\ \A i, j \in 1..Len(s) : s[i] = s[j] => i = j
  BY <1>5 DEF ListsAll
<1>8. \A x \in V \ F : \E i \in 1..Len(s) : s[i] = x
  BY <1>5 DEF ListsAll
<1>9. PICK n \in Nat : n = Len(g)
  BY ListPlaces DEF IsRoute
<1>10. /\ n <= k + Len(s) /\ (\A i \in 1..n : i <= k => g[i] \in F)
       /\ \A i, j \in 1..n : i <= k /\ j <= k /\ g[i] = g[j] => i = j
  BY <1>2, <1>3, <1>4, <1>9 DEF IsRoute, Tailed
<1>11. \A i \in 1..n : i > k => g[i] = s[i - k] /\ i - k \in 1..Len(s)
  BY <1>3, <1>4, <1>6, <1>7, <1>9, <1>10 DEF IsRoute, Tailed
<1>12. \A i \in 1..n : g[i] \in V
  <2>1. SUFFICES ASSUME NEW i \in 1..n
                 PROVE  g[i] \in V
    OBVIOUS
  <2>2. i <= k => g[i] \in F
    BY <1>10
  <2>3. i > k => g[i] \in V \ F
    BY <1>7, <1>11
  <2> QED
    BY <1>5, <1>6, <2>2, <2>3
<1>13. \A i, j \in 1..n : g[i] = g[j] => i = j
  <2>1. SUFFICES ASSUME NEW i \in 1..n, NEW j \in 1..n, g[i] = g[j]
                 PROVE  i = j
    OBVIOUS
  <2>2. CASE i <= k /\ j <= k
    BY <1>10, <2>1, <2>2
  <2>3. CASE i > k /\ j > k
    <3>1. s[i - k] = s[j - k] /\ i - k \in 1..Len(s) /\ j - k \in 1..Len(s)
      BY <1>11, <2>1, <2>3
    <3>2. i - k = j - k
      BY <1>7, <3>1
    <3> QED
      BY <1>6, <3>2
  <2>4. CASE i <= k /\ j > k
    <3>1. g[i] \in F /\ g[j] \notin F
      BY <1>7, <1>10, <1>11, <2>4
    <3> QED
      BY <2>1, <3>1
  <2>5. CASE i > k /\ j <= k
    <3>1. g[j] \in F /\ g[i] \notin F
      BY <1>7, <1>10, <1>11, <2>5
    <3> QED
      BY <2>1, <3>1
  <2> QED
    BY <1>6, <2>2, <2>3, <2>4, <2>5
<1>14. ASSUME n = k + Len(s), NEW x \in V
       PROVE  \E i \in 1..n : g[i] = x
  <2>1. CASE x \in F
    <3> DEFINE f == [i \in 1..k |-> g[i]]
    <3>1. \A i \in 1..k : i \in 1..n /\ g[i] \in F
      BY <1>6, <1>7, <1>10, <1>14
    <3>2. f \in Injection(1..k, F)
      BY <1>6, <1>10, <3>1 DEF Injection, IsInjective
    <3>3. Cardinality(1..k) = Cardinality(F)
      BY <1>6, FS_Interval
    <3>4. f \in Surjection(1..k, F)
      BY <1>6, <3>2, <3>3, FS_Injection
    <3>5. PICK i \in 1..k : f[i] = x
      <4> HIDE DEF f
      <4> QED
        BY <2>1, <3>4 DEF Surjection
    <3> QED
      BY <3>1, <3>5
  <2>2. CASE x \notin F
    <3>1. PICK i \in 1..Len(s) : s[i] = x
      BY <1>8, <1>14, <2>2
    <3>2. k + i \in 1..n /\ k + i > k /\ (k + i) - k = i
      BY <1>6, <1>7, <1>14
    <3>3. g[k + i] = s[i]
      BY <1>11, <3>2
    <3> QED
      BY <3>1, <3>2, <3>3
  <2> QED
    BY <2>1, <2>2
<1>15. Distinct(g, n)
  BY <1>5, <1>12, <1>13 DEF Distinct
<1> QED
  BY <1>1, <1>3, <1>4, <1>9, <1>12, <1>14, <1>15 DEF Fills

\* The path of the order, and those filed, go along the plan.
RouteInv == Tailed(plan, order.path) /\ \A g \in prefixes : Tailed(plan, g)

\* They have the free variables of the plan each once.
LEMMA Routes ==
  ASSUME OrderInv, RouteInv
  PROVE  IsRoute(plan, order.path) /\ \A g \in prefixes : IsRoute(plan, g)
<1>1. \A g \in prefixes : IsRoute(plan, g)
  BY DEF OrderInv, RouteInv, GoodPrefix, IsRoute, FreeCount
<1>2. PICK k \in Nat : k = Cardinality(plan.free) /\ k = FreeCount
  BY Levels DEF FreeCount
<1>3. PICK n \in Nat : n = Len(order.path)
  BY Levels
<1>4. IsList(order.path) /\ IsOrder(order) /\ PlanIsSound
  BY DEF OrderInv, Bounded, IsOrder
<1>5. /\ BoundVars(order) = {order.bound[i] : i \in 1..Len(order.bound)} /\ BoundVars(order) \subseteq plan.free
      /\ Len(order.bound) = (IF n < k THEN n ELSE k)
      /\ \A i \in 1..Len(order.bound) : order.path[i] = order.bound[i]
      /\ \A i, j \in 1..Len(order.bound) : order.bound[i] = order.bound[j] => i = j
  BY <1>2, <1>3, <1>4, Counts DEF OrderInv, Bounded
<1>6. \A i \in 1..n : i <= k => i \in 1..Len(order.bound)
  BY <1>5
<1>7. \A i \in 1..n : i <= k => order.path[i] \in plan.free
  BY <1>5, <1>6
<1>8. \A i, j \in 1..n : i <= k /\ j <= k /\ order.path[i] = order.path[j] => i = j
  BY <1>5, <1>6
<1> QED
  BY <1>1, <1>2, <1>3, <1>4, <1>7, <1>8 DEF IsRoute, RouteInv

\* What the calls make of a path.
Longer(g, h, x) == Len(h) = Len(g) + 1 /\ h[Len(g) + 1] = x /\ \A i \in 1..Len(g) : h[i] = g[i]
Shorter(g, h) == Len(h) = Len(g) - 1 /\ \A i \in 1..(Len(g) - 1) : h[i] = g[i]

\* An open call puts the next variable on the path, a lonely one when the free ones have run out.
LEMMA NextVarPath ==
  ASSUME OrderInv, NEW x, NextVar(x)
  PROVE  /\ Longer(order.path, order'.path, x) /\ order'.weight = order.weight
         /\ Len(order.path) < Size /\ (Len(order.path) >= FreeCount => x = plan.lonely[Len(order.path) - FreeCount + 1])
<1>1. Level(order) < Size /\ x \in NextVars(order) /\ order' = Taken(order, x)
  BY DEF NextVar
<1>2. IsOrder(order) /\ IsList(order.path)
  BY DEF OrderInv, Bounded, IsOrder
<1>3. order'.path = Append(order.path, x) /\ order'.weight = order.weight
  BY <1>1, <1>2, Fields DEF Taken
<1>4. Longer(order.path, order'.path, x)
  BY <1>2, <1>3, ListAppend DEF Longer
<1>5. Len(order.path) >= FreeCount => x = plan.lonely[Len(order.path) - FreeCount + 1]
  BY <1>1, Levels DEF NextVars
<1> QED
  BY <1>1, <1>3, <1>4, <1>5, Levels

\* A closed one takes the last variable off it.
LEMMA FinishedPath ==
  ASSUME OrderInv, Len(order.path) > 0, order' = Finished(order)
  PROVE  Shorter(order.path, order'.path) /\ order'.weight = order.weight
<1>1. IsOrder(order) /\ IsList(order.path)
  BY DEF OrderInv, Bounded, IsOrder
<1>2. order'.path = WithoutLast(order.path) /\ order'.weight = order.weight
  BY <1>1, FinishedFields
<1> QED
  BY <1>1, <1>2, ListWithoutLast DEF Shorter

\* A function on the free variables.
Weighs(w) == w = [x \in plan.free |-> w[x]]

\* Going down leaves the path, and at most weighs the free variables anew.
LEMMA DownPath ==
  ASSUME OrderInv, NEW sizes, Down(sizes)
  PROVE  order'.path = order.path /\ (order'.weight = order.weight \/ (Len(order.path) <= FreeCount /\ Weighs(order'.weight)))
<1>1. phase = "open" /\ order' = Narrowed(order, sizes)
  BY DEF Down
<1>2. order'.path = order.path
  BY <1>1, NarrowKeeps DEF OrderInv
<1>3. CASE Level(order) > FreeCount
  BY <1>1, <1>2, <1>3 DEF Narrowed
<1>4. CASE ~(Level(order) > FreeCount)
  <2>1. PICK lower : lower = {x \in (plan.related[order.bound[Len(order.bound)]] \cap plan.free) \ BoundVars(order) :
                                sizes[x] < order.weight[x]}
    OBVIOUS
  <2>2. PICK w : w = [x \in plan.free |-> IF x \in lower THEN sizes[x] ELSE order.weight[x]]
    OBVIOUS
  <2>3. PICK v : v = Append(order.versions, [x \in lower |-> order.weight[x]])
    OBVIOUS
  <2>4. IsOrder(order) /\ IsList(order.versions) /\ IsList(v)
    BY <2>3, ListAppend DEF OrderInv, Bounded, IsOrder
  <2>5. order' = Weighed(order, w, v)
    BY <1>1, <1>4, <2>1, <2>2, <2>3 DEF Narrowed, Weighed
  <2>8. order' = [weight |-> w, pool |-> order.pool, bound |-> order.bound, versions |-> v, path |-> order.path]
    BY <2>4, <2>5, WeightFields, Zenon
  <2>6. order'.weight = w
    BY <2>8
  <2>7. Weighs(w)
    BY <2>2 DEF Weighs
  <2> QED
    BY <1>2, <1>4, <2>6, <2>7, Levels
<1> QED
  BY <1>3, <1>4

\* So does going up.
LEMMA UpPath ==
  ASSUME OrderInv, Up
  PROVE  order'.path = order.path /\ (order'.weight = order.weight \/ (Len(order.path) <= FreeCount /\ Weighs(order'.weight)))
<1>1. phase = "back" /\ Level(order) > replayed /\ order' = Widened(order)
  BY DEF Up
<1>3. CASE Level(order) > FreeCount
  BY <1>1, <1>3 DEF Widened
<1>4. CASE ~(Level(order) > FreeCount)
  <2>1. PICK version : version = order.versions[Len(order.versions)]
    OBVIOUS
  <2>2. PICK w : w = [x \in plan.free |-> IF x \in DOMAIN version THEN version[x] ELSE order.weight[x]]
    OBVIOUS
  <2>3. PICK v : v = WithoutLast(order.versions)
    OBVIOUS
  <2>4. Len(order.versions) > 0
    <3>1. Len(order.versions) = Upto(Level(order)) - Upto(replayed)
      BY <1>1 DEF OrderInv, Counted
    <3>2. PICK n \in Nat, r \in Nat, k \in Nat : n = Level(order) /\ r = replayed /\ k = FreeCount
      BY Levels
    <3>3. Upto(n) = n /\ Upto(r) = r
      BY <1>1, <1>4, <3>2 DEF Upto
    <3> QED
      BY <1>1, <3>1, <3>2, <3>3
  <2>5. IsOrder(order) /\ IsList(order.versions) /\ IsList(v)
    BY <2>3, <2>4, ListWithoutLast DEF OrderInv, Bounded, IsOrder
  <2>6. order' = Weighed(order, w, v)
    BY <1>1, <1>4, <2>1, <2>2, <2>3 DEF Widened, Weighed
  <2>9. order' = [weight |-> w, pool |-> order.pool, bound |-> order.bound, versions |-> v, path |-> order.path]
    BY <2>5, <2>6, WeightFields, Zenon
  <2>7. order'.weight = w /\ order'.path = order.path
    BY <2>9
  <2>8. Weighs(w)
    BY <2>2 DEF Weighs
  <2> QED
    BY <1>4, <2>7, <2>8, Levels
<1> QED
  BY <1>3, <1>4

\* A force puts on the path what a filed one has there.
LEMMA ForcePath ==
  ASSUME OrderInv, ForceVar
  PROVE  /\ Longer(order.path, order'.path, todo[1]) /\ order'.weight = order.weight
         /\ Replaying /\ \E g \in prefixes : Len(g) >= Len(order.path) + 1 /\ Len(g) \in Nat /\ todo[1] = g[Len(order.path) + 1]
<1>1. phase = "replay" /\ order' = Forced(order, todo[1])
  BY DEF ForceVar
<1>2. IsOrder(order) /\ IsList(order.path) /\ Replaying
  BY <1>1 DEF OrderInv, Bounded, IsOrder, Counted
<1>3. order'.path = Append(order.path, todo[1]) /\ order'.weight = order.weight
  BY <1>1, <1>2, Fields DEF Forced
<1>4. Longer(order.path, order'.path, todo[1])
  BY <1>2, <1>3, ListAppend DEF Longer
<1>5. PICK g \in prefixes : Len(g) = replayed + Len(todo) /\ \A i \in 1..Len(todo) : todo[i] = g[replayed + i]
  BY <1>2 DEF Replaying
<1>6. Len(todo) \in Nat /\ Len(todo) > 0 /\ replayed = Len(order.path) /\ replayed \in Nat
  BY <1>2, ListPlaces, Levels DEF Replaying
<1>7. 1 \in 1..Len(todo)
  BY <1>6
<1>8. Len(g) >= Len(order.path) + 1 /\ Len(g) \in Nat /\ todo[1] = g[Len(order.path) + 1]
  BY <1>5, <1>6, <1>7
<1> QED
  BY <1>2, <1>3, <1>4, <1>8

\* A path one variable longer.
LEMMA TailLonger ==
  ASSUME NEW p, Cardinality(p.free) \in Nat, Len(p.lonely) \in Nat, NEW g, Len(g) \in Nat, Tailed(p, g),
         NEW h, NEW x, Longer(g, h, x),
         Len(g) < Cardinality(p.free) + Len(p.lonely),
         Len(g) >= Cardinality(p.free) => x = p.lonely[Len(g) - Cardinality(p.free) + 1]
  PROVE  Tailed(p, h)
<1>1. PICK k \in Nat, m \in Nat, n \in Nat : k = Cardinality(p.free) /\ m = Len(p.lonely) /\ n = Len(g)
  OBVIOUS
<1>2. Len(h) = n + 1 /\ n + 1 <= k + m
  BY <1>1 DEF Longer
<1>3. ASSUME NEW i \in 1..(n + 1), i > k
      PROVE  h[i] = p.lonely[i - k]
  <2>1. CASE i \in 1..n
    BY <1>1, <1>3, <2>1 DEF Longer, Tailed
  <2>2. CASE i = n + 1
    <3>1. n - k + 1 = i - k /\ n >= k
      BY <1>1, <1>3, <2>2
    <3> QED
      BY <1>1, <2>2, <3>1 DEF Longer
  <2> QED
    BY <2>1, <2>2
<1> QED
  BY <1>1, <1>2, <1>3 DEF Tailed

\* A path one variable shorter.
LEMMA TailShorter ==
  ASSUME NEW p, Cardinality(p.free) \in Nat, Len(p.lonely) \in Nat, NEW g, Len(g) \in Nat, Len(g) > 0, Tailed(p, g),
         NEW h, Shorter(g, h)
  PROVE  Tailed(p, h)
<1>1. PICK k \in Nat, m \in Nat, n \in Nat : k = Cardinality(p.free) /\ m = Len(p.lonely) /\ n = Len(g)
  OBVIOUS
<1>2. Len(h) = n - 1 /\ n - 1 <= k + m /\ \A i \in 1..(n - 1) : i \in 1..n /\ h[i] = g[i]
  BY <1>1 DEF Shorter, Tailed
<1>3. \A i \in 1..(n - 1) : i > k => h[i] = p.lonely[i - k]
  BY <1>1, <1>2 DEF Tailed
<1> QED
  BY <1>1, <1>2, <1>3 DEF Tailed

\* Where nothing is free the weights never change; elsewhere they are of the free variables.
WeightInv ==
  \/ plan.free = {} /\ order.weight = plan.weight
  \/ Weighs(order.weight) /\ Weighs(plan.weight)
TodoInv == IsList(todo) /\ (phase # "replay" => Len(todo) = 0)
PathInv == Len(plan.lonely) \in Nat /\ RouteInv /\ WeightInv /\ TodoInv

\* The path, the weights and what is left to force, after a step.
LEMMA PathStays ==
  ASSUME PathInv, plan' = plan, Tailed(plan, order'.path), \A g \in prefixes' : Tailed(plan, g),
         order'.weight = order.weight \/ (plan.free # {} /\ Weighs(order'.weight)),
         TodoInv'
  PROVE  PathInv'
<1>1. RouteInv'
  BY DEF RouteInv, Tailed
<1>2. WeightInv'
  BY DEF PathInv, WeightInv, Weighs
<1> QED
  BY <1>1, <1>2 DEF PathInv

\* The numbers of a plan.
LEMMA PlanCounts ==
  ASSUME OrderInv, PathInv
  PROVE  /\ Cardinality(plan.free) \in Nat /\ FreeCount = Cardinality(plan.free) /\ Len(plan.lonely) \in Nat
         /\ Size = Cardinality(plan.free) + Len(plan.lonely) /\ Len(order.path) \in Nat
         /\ Level(order) = Len(order.path) /\ Tailed(plan, order.path) /\ \A g \in prefixes : Tailed(plan, g)
         /\ plan.free = {} => FreeCount = 0
         /\ replayed \in Nat
<1>1. plan.free = {} => Cardinality(plan.free) = 0
  BY FS_EmptySet
<1> QED
  BY <1>1, Levels DEF PathInv, RouteInv, FreeCount, Size

\* No step but one that files adds a path.
LEMMA PathStep ==
  ASSUME OrderInv, PathInv, [Next]_vars
  PROVE  PathInv'
<1>0. /\ PathInv /\ \A g \in prefixes : Tailed(plan, g)
      /\ Tailed(plan, order.path) /\ TodoInv
  BY PlanCounts DEF PathInv
<1>1. CASE Enter
  <2>1. PICK x : NextVar(x)
    BY <1>1 DEF Enter
  <2>2. /\ plan' = plan /\ prefixes' = prefixes /\ todo' = todo /\ phase' = "open" /\ phase = "below"
    BY <2>1 DEF NextVar
  <2>3. Tailed(plan, order'.path) /\ order'.weight = order.weight
    BY <2>1, NextVarPath, PlanCounts, TailLonger
  <2>4. TodoInv'
    BY <1>0, <2>2 DEF TodoInv, IsList
  <2> QED
    BY <1>0, <2>2, <2>3, <2>4, PathStays
<1>2. CASE Descend
  <2>1. PICK sizes : Down(sizes)
    BY <1>2 DEF Descend
  <2>2. /\ plan' = plan /\ prefixes' = prefixes /\ todo' = todo /\ phase = "open" /\ phase' = "below"
    BY <2>1 DEF Down
  <2>3. /\ order'.path = order.path
        /\ order'.weight = order.weight \/ (Len(order.path) <= FreeCount /\ Weighs(order'.weight))
    BY <2>1, DownPath
  <2>4. Len(order.path) > 0
    BY <2>2, PlanCounts DEF OrderInv, Counted
  <2>5. order'.weight = order.weight \/ (plan.free # {} /\ Weighs(order'.weight))
    BY <2>3, <2>4, PlanCounts
  <2>6. TodoInv'
    BY <1>0, <2>2 DEF TodoInv, IsList
  <2>7. Tailed(plan, order'.path)
    BY <1>0, <2>3
  <2> QED
    BY <1>0, <2>2, <2>5, <2>6, <2>7, PathStays
<1>3. CASE Return
  <2>1. Up
    BY <1>3 DEF Return
  <2>2. /\ plan' = plan /\ prefixes' = prefixes /\ todo' = todo /\ phase = "back" /\ phase' = "open"
        /\ Level(order) > replayed
    BY <2>1 DEF Up
  <2>3. /\ order'.path = order.path
        /\ order'.weight = order.weight \/ (Len(order.path) <= FreeCount /\ Weighs(order'.weight))
    BY <2>1, UpPath
  <2>4. Len(order.path) > 0
    BY <2>2, PlanCounts
  <2>5. order'.weight = order.weight \/ (plan.free # {} /\ Weighs(order'.weight))
    BY <2>3, <2>4, PlanCounts
  <2>6. TodoInv'
    BY <1>0, <2>2 DEF TodoInv, IsList
  <2>7. Tailed(plan, order'.path)
    BY <1>0, <2>3
  <2> QED
    BY <1>0, <2>2, <2>5, <2>6, <2>7, PathStays
<1>4. CASE Close
  <2>1. Done
    BY <1>4 DEF Close
  <2>2. /\ plan' = plan /\ prefixes' = prefixes /\ todo' = todo /\ phase = "open" /\ phase' = "back"
        /\ order' = Finished(order)
    BY <2>1 DEF Done
  <2>3. Len(order.path) > 0
    BY <2>2, PlanCounts DEF OrderInv, Counted
  <2>4. Tailed(plan, order'.path) /\ order'.weight = order.weight
    BY <2>2, <2>3, FinishedPath, PlanCounts, TailShorter
  <2>5. TodoInv'
    BY <1>0, <2>2 DEF TodoInv, IsList
  <2> QED
    BY <1>0, <2>2, <2>4, <2>5, PathStays
<1>5. CASE Match \/ Expire
  <2>1. TurnBack
    BY <1>5 DEF Match, Expire
  <2>2. /\ plan' = plan /\ prefixes' = prefixes /\ todo' = todo /\ phase = "below" /\ phase' = "back"
        /\ order' = order
    BY <2>1 DEF TurnBack
  <2>3. TodoInv'
    BY <1>0, <2>2 DEF TodoInv, IsList
  <2> QED
    BY <1>0, <2>2, <2>3, PathStays
<1>6. CASE FileVisit
  <2>1. File
    BY <1>6 DEF FileVisit
  <2>2. /\ plan' = plan /\ prefixes' = prefixes \cup {order.path} /\ todo' = todo /\ phase = "open" /\ phase' = phase
        /\ order' = order
    BY <2>1 DEF File
  <2>3. TodoInv'
    BY <1>0, <2>2 DEF TodoInv, IsList
  <2>4. \A g \in prefixes' : Tailed(plan, g)
    BY <1>0, <2>2
  <2> QED
    BY <1>0, <2>2, <2>3, <2>4, PathStays
<1>7. ASSUME NEW entry \in table, TakeUp(entry)
      PROVE  PathInv'
  <2>1. PICK g : Resume(g)
    BY <1>7 DEF TakeUp
  <2>2. /\ plan' = plan /\ prefixes' = prefixes /\ todo' = g /\ g \in prefixes /\ phase' = "replay"
        /\ order' = order
    BY <2>1 DEF Resume
  <2>3. IsList(g)
    BY <2>2 DEF OrderInv, GoodPrefix
  <2>4. TodoInv'
    BY <2>2, <2>3 DEF TodoInv, IsList
  <2> QED
    BY <1>0, <2>2, <2>4, PathStays
<1>8. CASE ForceDown
  <2>1. ForceVar
    BY <1>8 DEF ForceDown
  <2>2. /\ plan' = plan /\ prefixes' = prefixes /\ todo' = Tail(todo) /\ phase = "replay"
        /\ phase' = IF Len(todo) = 1 THEN "below" ELSE "replay"
    BY <2>1 DEF ForceVar
  <2>3. Longer(order.path, order'.path, todo[1]) /\ order'.weight = order.weight /\ Replaying
    BY <2>1, ForcePath
  <2>4. PICK g \in prefixes : Len(g) >= Len(order.path) + 1 /\ Len(g) \in Nat /\ todo[1] = g[Len(order.path) + 1]
    BY <2>1, ForcePath
  <2>5. PICK k \in Nat, m \in Nat, n \in Nat : k = Cardinality(plan.free) /\ m = Len(plan.lonely) /\ n = Len(order.path)
    BY PlanCounts
  <2>6. Len(g) <= k + m /\ n + 1 \in 1..Len(g) /\ (n + 1 > k => g[n + 1] = plan.lonely[n + 1 - k])
    BY <1>0, <2>4, <2>5 DEF Tailed
  <2>7. n < k + m /\ (n >= k => todo[1] = plan.lonely[n - k + 1])
    <3>1. n < k + m
      BY <2>4, <2>5, <2>6
    <3>2. n >= k => n + 1 > k /\ n + 1 - k = n - k + 1
      BY <2>5
    <3> QED
      BY <2>4, <2>5, <2>6, <3>1, <3>2
  <2>8. Tailed(plan, order'.path)
    BY <1>0, <2>3, <2>5, <2>7, TailLonger
  <2>9. TodoInv'
    <3>1. IsList(todo) /\ Len(todo) > 0 /\ Len(todo) \in Nat
      BY <2>3, ListPlaces DEF Replaying
    <3>2. IsList(todo') /\ Len(todo') = Len(todo) - 1
      BY <2>2, <3>1, ListTail
    <3>3. phase' # "replay" => Len(todo') = 0
      BY <2>2, <3>1, <3>2
    <3>4. IsList(todo)'
      BY <3>2 DEF IsList
    <3> QED
      BY <3>3, <3>4 DEF TodoInv
  <2> QED
    BY <1>0, <2>2, <2>3, <2>8, <2>9, PathStays
<1>9. CASE UndoForce
  <2>1. Undo
    BY <1>9 DEF UndoForce
  <2>2. /\ plan' = plan /\ prefixes' = prefixes /\ todo' = todo /\ phase = "back" /\ phase' = phase
        /\ order' = Finished(order) /\ replayed > 0 /\ Level(order) = replayed
    BY <2>1 DEF Undo
  <2>3. Len(order.path) > 0
    BY <2>2, PlanCounts
  <2>4. Tailed(plan, order'.path) /\ order'.weight = order.weight
    BY <2>2, <2>3, FinishedPath, PlanCounts, TailShorter
  <2>5. TodoInv'
    BY <1>0, <2>2 DEF TodoInv, IsList
  <2> QED
    BY <1>0, <2>2, <2>4, <2>5, PathStays
<1>10. CASE Finish \/ UNCHANGED vars
  <2>1. /\ plan' = plan /\ prefixes' = prefixes /\ todo' = todo /\ phase' = phase /\ order' = order
    BY <1>10 DEF Finish, vars, orderVars
  <2>2. TodoInv'
    BY <1>0, <2>1 DEF TodoInv, IsList
  <2> QED
    BY <1>0, <2>1, <2>2, PathStays
<1> QED
  BY <1>1, <1>2, <1>3, <1>4, <1>5, <1>6, <1>7, <1>8, <1>9, <1>10 DEF Next

\* With nothing entered the order is what it was made.
LEMMA OrderBack ==
  ASSUME OrderInv, PathInv, phase = "back", Len(order.path) = 0
  PROVE  order = Fresh(plan) /\ replayed = 0
<1>1. /\ replayed \in Nat /\ replayed <= 0 /\ Len(order.versions) = Upto(0) - Upto(replayed) /\ FreeCount \in Nat
  BY Levels DEF OrderInv, Counted
<1>2. replayed = 0 /\ Len(order.versions) = 0
  BY <1>1 DEF Upto
<1>3. IsOrder(order) /\ Len(order.bound) = 0 /\ order.pool = plan.free \ BoundVars(order)
  BY <1>1 DEF OrderInv, Bounded
<1>4. \A s : IsList(s) /\ Len(s) = 0 => s = <<>>
  BY DEF IsList
<1>5. order.bound = <<>> /\ order.versions = <<>> /\ order.path = <<>>
  BY <1>2, <1>3, <1>4 DEF IsOrder
<1>6. BoundVars(order) = {}
  BY <1>5 DEF BoundVars
<1>7. order.pool = plan.free
  BY <1>3, <1>6
<1>8. order.weight = plan.weight
  <2>1. \A i \in 1..Len(order.versions) : FALSE
    BY <1>2
  <2>2. \A x : Original(order, x) = order.weight[x]
    BY <1>3, <2>1, OriginalIs DEF IsOrder
  <2>3. \A x \in plan.free : order.weight[x] = plan.weight[x]
    BY <2>2 DEF OrderInv, WeightsKept
  <2> QED
    BY <2>3 DEF PathInv, WeightInv, Weighs
<1>9. order = [weight |-> order.weight, pool |-> order.pool, bound |-> order.bound,
               versions |-> order.versions, path |-> order.path]
  <2>1. PICK w, p, b, v, h : order = [weight |-> w, pool |-> p, bound |-> b, versions |-> v, path |-> h]
    BY <1>3 DEF IsOrder
  <2> QED
    BY <2>1
<1> QED
  BY <1>2, <1>5, <1>7, <1>8, <1>9 DEF Fresh

(***************************************************************************)
(* The rows of a join, and what the cursors offer of them.                 *)
(***************************************************************************)
\* Functions between finite sets are finitely many.
LEMMA FunctionsFinite ==
  ASSUME NEW D, IsFiniteSet(D), NEW R, IsFiniteSet(R)
  PROVE  IsFiniteSet([D -> R])
<1> DEFINE F == [D -> R]
           P == D \X R
           graph == [f \in F |-> {o \in P : f[o[1]] = o[2]}]
<1>1. IsFiniteSet(SUBSET P)
  BY FS_Product, FS_SUBSET
<1>2. \A f \in F : graph[f] \in SUBSET P
  OBVIOUS
<1>3. ASSUME NEW f \in F, NEW g \in F, graph[f] = graph[g]
      PROVE  f = g
  <2>1. ASSUME NEW x \in D
        PROVE  f[x] = g[x]
    <3> DEFINE o == <<x, f[x]>>
    <3>1. o \in P /\ o[1] = x /\ o[2] = f[x]
      OBVIOUS
    <3>2. graph[f] = {r \in P : f[r[1]] = r[2]} /\ graph[g] = {r \in P : g[r[1]] = r[2]}
      OBVIOUS
    <3> HIDE DEF o, graph, P
    <3>3. o \in graph[f]
      BY <3>1, <3>2
    <3>4. o \in graph[g]
      BY <1>3, <3>3
    <3> QED
      BY <3>1, <3>2, <3>4
  <2> QED
    BY <2>1
<1>4. graph \in [F -> SUBSET P]
  BY <1>2
<1>5. graph \in Injection(F, SUBSET P)
  <2> HIDE DEF graph, F, P
  <2> QED
    BY <1>3, <1>4 DEF Injection, IsInjective
<1>6. IsFiniteSet(F)
  <2> HIDE DEF graph, F, P
  <2> QED
    BY <1>1, <1>5, FS_Injection
<1> QED
  BY <1>6

\* The choices of edges that fit a pattern, and their rows.
ConsistentIn(idx, triples, f) ==
  /\ \A i \in DOMAIN triples, p \in Positions :
        IsVariable(triples[i][p]) \/ MergedOf(idx)[f[i]][p] = triples[i][p]
  /\ \A i, j \in DOMAIN triples : \A p, q \in Positions :
        triples[i][p] = triples[j][q] => MergedOf(idx)[f[i]][p] = MergedOf(idx)[f[j]][q]
FitsIn(idx, triples) == {f \in [DOMAIN triples -> StandingIn(idx)] : ConsistentIn(idx, triples, f)}
RowIn(idx, triples, f) ==
  [edges |-> [i \in DOMAIN triples |-> MergedOf(idx)[f[i]][4]],
   at |-> [x \in PatternVars(triples) |->
             LET o == CHOOSE o \in Places(triples, x) : TRUE IN MergedOf(idx)[f[o[1]]][o[2]]]]
RowsIn(idx, triples) == [f \in FitsIn(idx, triples) |-> RowIn(idx, triples, f)]

\* They are the join.
LEMMA TheJoinIs == TheJoin = RowsOf(FitsIn(index, Triples), RowsIn(index, Triples))
<1>1. Fits = FitsIn(index, Triples)
  BY DEF Fits, FitsIn, Consistent, ConsistentIn, Standing, StandingIn, Merged, MergedOf
<1>2. \A f : JoinRow(f) = RowIn(index, Triples, f)
  BY DEF JoinRow, RowIn, Merged, MergedOf
<1>3. [f \in Fits |-> JoinRow(f)] = [f \in FitsIn(index, Triples) |-> RowsIn(index, Triples)[f]]
  BY <1>1, <1>2 DEF RowsIn
<1> QED
  BY <1>3 DEF TheJoin, RowsOf

\* They are finitely many.
LEMMA FitsFinite ==
  ASSUME NEW idx, Holds(idx), NEW triples, IsPattern(triples)
  PROVE  IsFiniteSet(FitsIn(idx, triples)) /\ IsFiniteSet(StandingIn(idx)) /\ StandingIn(idx) \subseteq DOMAIN MergedOf(idx)
<1>1. IsFiniteSet(DOMAIN MergedOf(idx)) /\ IsFiniteSet(DOMAIN triples)
  BY MergedIs, PlacesFinite DEF IsPattern
<1>2. StandingIn(idx) \subseteq DOMAIN MergedOf(idx)
  BY DEF StandingIn
<1>3. IsFiniteSet(StandingIn(idx))
  BY <1>1, <1>2, FS_Subset
<1>4. IsFiniteSet([DOMAIN triples -> StandingIn(idx)])
  BY <1>1, <1>3, FunctionsFinite
<1>5. FitsIn(idx, triples) \subseteq [DOMAIN triples -> StandingIn(idx)]
  BY DEF FitsIn
<1>6. IsFiniteSet(FitsIn(idx, triples))
  BY <1>4, <1>5, FS_Subset
<1> QED
  BY <1>2, <1>3, <1>6

\* What a row says of a variable is what each edge has where it stands.
LEMMA RowSays ==
  ASSUME NEW idx, Holds(idx), NEW triples, IsPattern(triples), NEW f \in FitsIn(idx, triples),
         NEW i \in DOMAIN triples, NEW p \in Positions
  PROVE  /\ f[i] \in StandingIn(idx) /\ f[i] \in DOMAIN MergedOf(idx)
         /\ MergedOf(idx)[f[i]] \in [1..4 -> Nat]
         /\ MergedOf(idx)[f[i]][p] \in Nat
         /\ IsVariable(triples[i][p]) => /\ RowsIn(idx, triples)[f].at[triples[i][p]] = MergedOf(idx)[f[i]][p]
                                         /\ triples[i][p] \in PatternVars(triples)
         /\ ~IsVariable(triples[i][p]) => MergedOf(idx)[f[i]][p] = triples[i][p]
<1>1. f \in [DOMAIN triples -> StandingIn(idx)] /\ ConsistentIn(idx, triples, f)
  BY DEF FitsIn
<1>2. f[i] \in StandingIn(idx) /\ f[i] \in DOMAIN MergedOf(idx)
  BY <1>1 DEF StandingIn
<1>3. MergedOf(idx)[f[i]] \in [1..4 -> Nat]
  BY <1>2, MergedIs
<1>4. MergedOf(idx)[f[i]][p] \in Nat
  <2>1. p \in 1..4
    BY ThreePositions
  <2> QED
    BY <1>3, <2>1
<1>5. ~IsVariable(triples[i][p]) => MergedOf(idx)[f[i]][p] = triples[i][p]
  BY <1>1 DEF ConsistentIn
<1>6. ASSUME IsVariable(triples[i][p])
      PROVE  /\ RowsIn(idx, triples)[f].at[triples[i][p]] = MergedOf(idx)[f[i]][p]
             /\ triples[i][p] \in PatternVars(triples)
  <2>1. PICK x : x = triples[i][p]
    OBVIOUS
  <2>2. x \in PatternVars(triples) /\ Places(triples, x) # {}
    BY <1>6, <2>1, VarsAre
  <2>3. PICK o : o = CHOOSE r \in Places(triples, x) : TRUE
    OBVIOUS
  <2>4. o \in Places(triples, x)
    BY <2>2, <2>3
  <2>5. o[1] \in DOMAIN triples /\ o[2] \in Positions /\ triples[o[1]][o[2]] = x
    BY <2>4 DEF Places
  <2>6. RowIn(idx, triples, f).at[x] = MergedOf(idx)[f[o[1]]][o[2]]
    BY <2>2, <2>3 DEF RowIn
  <2>7. MergedOf(idx)[f[o[1]]][o[2]] = MergedOf(idx)[f[i]][p]
    BY <1>1, <2>1, <2>5 DEF ConsistentIn
  <2> QED
    BY <2>1, <2>2, <2>6, <2>7 DEF RowsIn
<1> QED
  BY <1>2, <1>3, <1>4, <1>5, <1>6

\* Cursors that have fixed the first variables of a path.
AllLayered(idx, triples, curs, path, vals, n) ==
  \A i \in DOMAIN triples : Layered(triples[i], curs[i], CursorAt(idx, triples[i]), path, vals, n)

\* A row that has the values of the path.
Agrees(row, path, vals, n) == \A j \in 1..n : row.at[path[j]] = vals[j]

\* Its edges are those that agree with what the cursors have fixed, and no others.
LEMMA AgreesSays ==
  ASSUME NEW idx, Holds(idx), NEW triples, IsPattern(triples), NEW curs, NEW path, NEW vals, NEW n \in Nat,
         AllLayered(idx, triples, curs, path, vals, n), NEW f \in FitsIn(idx, triples),
         Agrees(RowsIn(idx, triples)[f], path, vals, n), \A j \in 1..n : IsVariable(path[j])
  PROVE  \A i \in DOMAIN triples : f[i] \in StandingIn(idx) \cap Under(MergedOf(idx), curs[i])
<1>1. SUFFICES ASSUME NEW i \in DOMAIN triples
               PROVE  f[i] \in StandingIn(idx) \cap Under(MergedOf(idx), curs[i])
  OBVIOUS
<1>2. PICK e : e = MergedOf(idx)[f[i]]
  OBVIOUS
<1>3. /\ f[i] \in StandingIn(idx) /\ f[i] \in DOMAIN MergedOf(idx)
      /\ \A p \in Positions : /\ IsVariable(triples[i][p]) => RowsIn(idx, triples)[f].at[triples[i][p]] = e[p]
                              /\ ~IsVariable(triples[i][p]) => e[p] = triples[i][p]
  BY <1>2, RowSays, ThreePositions
<1>4. ASSUME NEW p \in Positions, NEW j \in 1..n, path[j] = triples[i][p]
      PROVE  e[p] = vals[j]
  BY <1>3, <1>4 DEF Agrees
<1>5. AgreesWith(e, curs[i])
  <2>1. Layered(triples[i], curs[i], CursorAt(idx, triples[i]), path, vals, n)
    BY DEF AllLayered
  <2>2. \A p \in Positions : /\ ~IsVariable(triples[i][p]) => e[p] = triples[i][p]
                             /\ \A j \in 1..n : path[j] = triples[i][p] => e[p] = vals[j]
    BY <1>3, <1>4
  <2> QED
    BY <2>1, <2>2, LayerSays
<1> QED
  BY <1>2, <1>3, <1>5 DEF Under

\* A variable that is not on the path stands at free positions.
LEMMA StandsFree ==
  ASSUME NEW idx, NEW triples, IsPattern(triples), NEW curs, NEW path, NEW vals, NEW n \in Nat,
         AllLayered(idx, triples, curs, path, vals, n), NEW x, IsVariable(x), \A j \in 1..n : path[j] # x
  PROVE  \A o \in Places(triples, x) : o[1] \in DOMAIN triples /\ o[2] \in Positions /\ o[2] \in Free(curs[o[1]])
<1>1. SUFFICES ASSUME NEW o \in Places(triples, x)
               PROVE  o[1] \in DOMAIN triples /\ o[2] \in Positions /\ o[2] \in Free(curs[o[1]])
  OBVIOUS
<1>2. o[1] \in DOMAIN triples /\ o[2] \in Positions /\ triples[o[1]][o[2]] = x
  BY DEF Places
<1>3. Layered(triples[o[1]], curs[o[1]], CursorAt(idx, triples[o[1]]), path, vals, n)
  BY <1>2 DEF AllLayered
<1>4. Free(curs[o[1]]) = Positions \ Bound(triples[o[1]], path, n)
  BY <1>3, LayerSays
<1>5. o[2] \notin Bound(triples[o[1]], path, n)
  BY <1>2 DEF Bound, Constants
<1> QED
  BY <1>2, <1>4, <1>5

\* Whatever row has the values of the path, its next value is offered.
LEMMA RowOffered ==
  ASSUME NEW idx, Holds(idx), NEW triples, IsPattern(triples), NEW curs, NEW path, NEW vals, NEW n \in Nat,
         AllLayered(idx, triples, curs, path, vals, n), NEW f \in FitsIn(idx, triples),
         Agrees(RowsIn(idx, triples)[f], path, vals, n), \A j \in 1..n : IsVariable(path[j]),
         NEW x \in PatternVars(triples)
  PROVE  RowsIn(idx, triples)[f].at[x] \in Offered(idx, triples, curs, x) /\ RowsIn(idx, triples)[f].at[x] \in Nat
<1>1. PICK v : v = RowsIn(idx, triples)[f].at[x]
  OBVIOUS
<1>2. Places(triples, x) # {} /\ IsVariable(x)
  BY VarsAre
<1>3. ASSUME NEW o \in Places(triples, x)
      PROVE  v \in Nat /\ v \in ValuesIn(idx, curs[o[1]], o[2])
  <2>1. o[1] \in DOMAIN triples /\ o[2] \in Positions /\ triples[o[1]][o[2]] = x
    BY DEF Places
  <2>2. v = MergedOf(idx)[f[o[1]]][o[2]] /\ v \in Nat
    BY <1>1, <1>2, <2>1, RowSays
  <2>3. f[o[1]] \in Under(MergedOf(idx), curs[o[1]])
    BY <2>1, AgreesSays
  <2> QED
    BY <2>2, <2>3 DEF ValuesIn
<1> QED
  BY <1>1, <1>2, <1>3 DEF Offered

(***************************************************************************)
(* The account of the rows.  J gives the row of each choice of edges that  *)
(* fits, in F; C is those the search has come past.                        *)
(***************************************************************************)
\* Those a filed prefix leads to are pending.
Pending(row, tab) == \E e \in tab : Extends(row, e)
Settled(C, J, tab) == {f \in C : ~Pending(J[f], tab)}

\* The rows found are those of choices that fit, until a stop those come past and not pending.
FoundFrom(F, J, C, tab, bag, stop, limit, timed, G) ==
  /\ bag = RowsOf(G, J)
  /\ ~stop => G = Settled(C, J, tab) /\ (limit = 0 \/ Cardinality(G) < limit)
  /\ stop /\ ~timed => limit > 0 /\ Cardinality(G) = limit

\* What is pending has been come past, by way of one prefix only.
FiledOnce(F, J, C, tab) ==
  /\ \A f \in F : Pending(J[f], tab) => f \in C
  /\ \A f \in F : \A e1, e2 \in tab : Extends(J[f], e1) /\ Extends(J[f], e2) => e1 = e2

Ledger(F, J, C, tab, bag, stop, limit, timed) ==
  /\ \E G \in SUBSET F : FoundFrom(F, J, C, tab, bag, stop, limit, timed, G)
  /\ ~stop => FiledOnce(F, J, C, tab)

\* Nothing found.
LEMMA LedgerBegin ==
  ASSUME NEW F, NEW J, NEW limit \in Nat, NEW timed
  PROVE  Ledger(F, J, {}, {}, EmptyBag, FALSE, limit, timed)
<1>1. RowsOf({}, J) = EmptyBag
  <2>1. Images({}, J) = {}
    BY DEF Images
  <2>2. RowsOf({}, J) = [r \in {} |-> Cardinality(AllWith({}, J, r))]
    BY <2>1, RowsAre
  <2> QED
    BY <2>2 DEF EmptyBag, SetToBag
<1>2. Settled({}, J, {}) = {}
  BY DEF Settled
<1>3. Cardinality({}) = 0
  BY FS_EmptySet
<1>4. FoundFrom(F, J, {}, {}, EmptyBag, FALSE, limit, timed, {})
  BY <1>1, <1>2, <1>3 DEF FoundFrom
<1>5. FiledOnce(F, J, {}, {})
  BY DEF FiledOnce, Pending
<1> QED
  BY <1>4, <1>5 DEF Ledger

\* The choices a prefix does not lead to.
NotUnder(F, J, e) == {f \in F : ~Extends(J[f], e)}

\* A prefix taken up: its choices are no longer pending, and have yet to be come past.
LEMMA LedgerTaken ==
  ASSUME NEW F, NEW J, NEW tab, NEW bag, NEW limit, NEW timed, NEW e \in tab,
         Ledger(F, J, F, tab, bag, FALSE, limit, timed)
  PROVE  Ledger(F, J, NotUnder(F, J, e), tab \ {e}, bag, FALSE, limit, timed)
<1> DEFINE C == {f \in F : ~Extends(J[f], e)}
           less == tab \ {e}
<1>0. NotUnder(F, J, e) = C
  BY DEF NotUnder
<1>1. PICK G \in SUBSET F : FoundFrom(F, J, F, tab, bag, FALSE, limit, timed, G)
  BY DEF Ledger
<1>2. FiledOnce(F, J, F, tab)
  BY DEF Ledger
<1>3. \A row : Pending(row, tab) <=> Extends(row, e) \/ Pending(row, less)
  BY DEF Pending
<1>4. Settled(F, J, tab) = Settled(C, J, less)
  BY <1>3 DEF Settled
<1> HIDE DEF C, less
<1>5. FoundFrom(F, J, C, less, bag, FALSE, limit, timed, G)
  BY <1>1, <1>4 DEF FoundFrom
<1>6. FiledOnce(F, J, C, less)
  <2>1. ASSUME NEW f \in F, Pending(J[f], less)
        PROVE  f \in C
    <3>1. PICK d \in less : Extends(J[f], d)
      BY <2>1 DEF Pending
    <3>2. d \in tab /\ d # e
      BY <3>1 DEF less
    <3>3. ~Extends(J[f], e)
      BY <1>2, <3>1, <3>2 DEF FiledOnce
    <3> QED
      BY <3>3 DEF C
  <2>2. \A f \in F : \A e1, e2 \in less : Extends(J[f], e1) /\ Extends(J[f], e2) => e1 = e2
    BY <1>2 DEF FiledOnce, less
  <2> QED
    BY <2>1, <2>2 DEF FiledOnce
<1> QED
  BY <1>0, <1>5, <1>6 DEF Ledger, less

\* Prefixes filed: those come past with them are pending.
LEMMA LedgerFiled ==
  ASSUME NEW F, NEW J, NEW C, NEW D, NEW tab, NEW E, NEW bag, NEW limit, NEW timed,
         Ledger(F, J, C, tab, bag, FALSE, limit, timed), C \subseteq D, D \subseteq F,
         \A f \in F : Pending(J[f], E) <=> f \in D /\ f \notin C,
         \A f \in F : \A e1, e2 \in E : Extends(J[f], e1) /\ Extends(J[f], e2) => e1 = e2
  PROVE  Ledger(F, J, D, tab \cup E, bag, FALSE, limit, timed)
<1> DEFINE more == tab \cup E
<1>1. PICK G \in SUBSET F : FoundFrom(F, J, C, tab, bag, FALSE, limit, timed, G)
  BY DEF Ledger
<1>2. FiledOnce(F, J, C, tab)
  BY DEF Ledger
<1>3. \A row : Pending(row, more) <=> Pending(row, tab) \/ Pending(row, E)
  BY DEF Pending
<1> HIDE DEF more
<1>4. Settled(C, J, tab) = Settled(D, J, more)
  BY <1>2, <1>3 DEF Settled, FiledOnce
<1>5. FoundFrom(F, J, D, more, bag, FALSE, limit, timed, G)
  BY <1>1, <1>4 DEF FoundFrom
<1>6. FiledOnce(F, J, D, more)
  <2>1. \A f \in F : Pending(J[f], more) => f \in D
    BY <1>2, <1>3 DEF FiledOnce
  <2>2. ASSUME NEW f \in F, NEW e1 \in more, NEW e2 \in more, Extends(J[f], e1), Extends(J[f], e2)
        PROVE  e1 = e2
    <3>1. e1 \in tab \/ e1 \in E
      BY DEF more
    <3>2. e2 \in tab \/ e2 \in E
      BY DEF more
    <3>3. ASSUME NEW e \in tab, NEW d \in E, Extends(J[f], e), Extends(J[f], d)
          PROVE  FALSE
      <4>1. Pending(J[f], tab) /\ Pending(J[f], E)
        BY <3>3 DEF Pending
      <4> QED
        BY <1>2, <4>1 DEF FiledOnce
    <3> QED
      BY <1>2, <2>2, <3>1, <3>2, <3>3 DEF FiledOnce
  <2> QED
    BY <2>1, <2>2 DEF FiledOnce
<1> QED
  BY <1>5, <1>6 DEF Ledger, more

\* A deadline: what was found stays.
LEMMA LedgerTimed ==
  ASSUME NEW F, NEW J, NEW C, NEW tab, NEW bag, NEW stop, NEW limit, NEW timed, timed,
         Ledger(F, J, C, tab, bag, stop, limit, timed)
  PROVE  Ledger(F, J, C, tab, bag, TRUE, limit, timed)
<1>1. PICK G \in SUBSET F : FoundFrom(F, J, C, tab, bag, stop, limit, timed, G)
  BY DEF Ledger
<1>2. FoundFrom(F, J, C, tab, bag, TRUE, limit, timed, G)
  BY <1>1 DEF FoundFrom
<1> QED
  BY <1>2 DEF Ledger

\* Once stopped, where the search stands is of no account.
LEMMA LedgerStopped ==
  ASSUME NEW F, NEW J, NEW C, NEW D, NEW tab, NEW bag, NEW limit, NEW timed,
         Ledger(F, J, C, tab, bag, TRUE, limit, timed)
  PROVE  Ledger(F, J, D, tab, bag, TRUE, limit, timed)
BY DEF Ledger, FoundFrom

\* Rows found: of all those come past, or of as many as there is room for.
LEMMA LedgerMatched ==
  ASSUME NEW F, IsFiniteSet(F), NEW J, NEW C, NEW New, New \subseteq F, New \cap C = {}, C \subseteq F,
         NEW tab, NEW bag, NEW limit \in Nat, NEW timed, NEW K, K \subseteq New,
         Ledger(F, J, C, tab, bag, FALSE, limit, timed),
         Cardinality(K) = IF limit = 0 THEN Cardinality(New) ELSE AtMost(Cardinality(New), limit - BagCardinality(bag)),
         NEW more, more = bag (+) RowsOf(K, J)
  PROVE  Ledger(F, J, C \cup New, tab, more, limit > 0 /\ BagCardinality(more) >= limit, limit, timed)
<1>1. PICK G \in SUBSET F : FoundFrom(F, J, C, tab, bag, FALSE, limit, timed, G)
  BY DEF Ledger
<1>2. FiledOnce(F, J, C, tab)
  BY DEF Ledger
<1>3. bag = RowsOf(G, J) /\ G = Settled(C, J, tab) /\ (limit = 0 \/ Cardinality(G) < limit)
  BY <1>1 DEF FoundFrom
<1>4. IsFiniteSet(G) /\ IsFiniteSet(K) /\ IsFiniteSet(New) /\ G \subseteq C
  <2>1. G \subseteq C
    BY <1>3 DEF Settled
  <2>2. IsFiniteSet(New) /\ IsFiniteSet(G)
    BY FS_Subset
  <2>3. IsFiniteSet(K)
    BY <2>2, FS_Subset
  <2> QED
    BY <2>1, <2>2, <2>3
<1>5. PICK g \in Nat, k \in Nat, n \in Nat : g = Cardinality(G) /\ k = Cardinality(K) /\ n = Cardinality(New)
  BY <1>4, FS_CardinalityType
<1> DEFINE H == G \cup K
           stop == limit > 0 /\ BagCardinality(more) >= limit
           D == C \cup New
<1>6. H \in SUBSET F /\ G \cap K = {} /\ IsFiniteSet(H)
  BY <1>4, FS_Union
<1>7. more = RowsOf(H, J)
  BY <1>3, <1>4, <1>6, RowsAdd
<1>8. Cardinality(H) = g + k
  <2>1. Cardinality(G \cap K) = 0
    BY <1>6, FS_EmptySet
  <2>2. Cardinality(H) = Cardinality(G) + Cardinality(K) - Cardinality(G \cap K)
    BY <1>4, FS_Union
  <2> QED
    BY <1>5, <2>1, <2>2
<1>9. BagCardinality(more) = g + k /\ BagCardinality(bag) = g
  BY <1>3, <1>4, <1>5, <1>6, <1>7, <1>8, RowsCount
<1>10. k = (IF limit = 0 THEN n ELSE IF n <= limit - g THEN n ELSE limit - g)
  BY <1>5, <1>9 DEF AtMost
<1>11. stop <=> (limit > 0 /\ g + k >= limit)
  BY <1>9
<1>20. limit = 0 \/ g < limit
  BY <1>3, <1>5
<1>21. PICK h : h = Cardinality(H)
  OBVIOUS
<1> HIDE DEF H, stop, D
<1>22. h = g + k
  BY <1>8, <1>21
<1>12. ~stop => k = n
  BY <1>10, <1>11, <1>20
<1>13. ~stop => K = New
  BY <1>4, <1>5, <1>12, FS_Subset
<1>14. ASSUME ~stop
       PROVE  H = Settled(D, J, tab)
  <2>1. \A f \in New : ~Pending(J[f], tab)
    BY <1>2 DEF FiledOnce
  <2>2. Settled(D, J, tab) = Settled(C, J, tab) \cup New
    BY <2>1 DEF Settled, D
  <2> QED
    BY <1>3, <1>13, <1>14, <2>2 DEF H
<1>15. ~stop => (limit = 0 \/ Cardinality(H) < limit)
  <2>1. ~stop => (limit = 0 \/ h < limit)
    BY <1>11, <1>22
  <2> QED
    BY <1>21, <2>1
<1>16. stop => limit > 0 /\ Cardinality(H) = limit
  <2>1. stop => limit > 0 /\ h = limit
    BY <1>10, <1>11, <1>20, <1>22
  <2> QED
    BY <1>21, <2>1
<1>17. FoundFrom(F, J, D, tab, more, stop, limit, timed, H)
  BY <1>7, <1>14, <1>15, <1>16 DEF FoundFrom
<1>18. FiledOnce(F, J, D, tab)
  BY <1>2 DEF FiledOnce, D
<1>19. Ledger(F, J, D, tab, more, stop, limit, timed)
  BY <1>6, <1>17, <1>18 DEF Ledger
<1> QED
  BY <1>19 DEF D, stop

\* Rows but for those pending.
NotPending(bag, tab) == [r \in {r \in DOMAIN bag : ~Pending(r, tab)} |-> bag[r]]

\* What the account says when everything has been come past.
LEMMA LedgerSays ==
  ASSUME NEW F, IsFiniteSet(F), NEW J, NEW C, NEW tab, NEW bag, NEW stop \in BOOLEAN, NEW limit \in Nat, NEW timed,
         Ledger(F, J, C, tab, bag, stop, limit, timed), ~stop => C = F
  PROVE  /\ bag \sqsubseteq RowsOf(F, J)
         /\ ~stop => bag = NotPending(RowsOf(F, J), tab)
         /\ stop /\ ~timed => BagCardinality(bag) = limit
<1>1. PICK G \in SUBSET F : FoundFrom(F, J, C, tab, bag, stop, limit, timed, G)
  BY DEF Ledger
<1>2. bag = RowsOf(G, J) /\ IsFiniteSet(G)
  BY <1>1, FS_Subset DEF FoundFrom
<1>3. bag \sqsubseteq RowsOf(F, J)
  BY <1>2, RowsLess
<1>4. stop /\ ~timed => BagCardinality(bag) = limit
  BY <1>1, <1>2, RowsCount DEF FoundFrom
<1>5. ASSUME ~stop
      PROVE  bag = NotPending(RowsOf(F, J), tab)
  <2>1. G = Settled(F, J, tab)
    BY <1>1, <1>5 DEF FoundFrom
  <2>2. \A f : f \in G <=> f \in F /\ ~Pending(J[f], tab)
    BY <2>1 DEF Settled
  <2> DEFINE R == {r \in DOMAIN RowsOf(F, J) : ~Pending(r, tab)}
  <2>3. Images(G, J) = R
    <3>1. DOMAIN RowsOf(F, J) = Images(F, J)
      BY RowsAre
    <3>2. \A r : r \in Images(G, J) <=> \E f \in G : r = J[f]
      BY DEF Images
    <3>3. \A r : r \in R <=> (\E f \in F : r = J[f]) /\ ~Pending(r, tab)
      BY <3>1 DEF Images
    <3> HIDE DEF R
    <3>4. \A r : r \in Images(G, J) <=> r \in R
      BY <2>2, <3>2, <3>3
    <3> QED
      BY <3>4
  <2>4. ASSUME NEW r \in R
        PROVE  Cardinality(AllWith(G, J, r)) = RowsOf(F, J)[r]
    <3>1. r \in Images(F, J) /\ ~Pending(r, tab)
      BY RowsAre
    <3>2. AllWith(G, J, r) = AllWith(F, J, r)
      BY <2>2, <3>1 DEF AllWith
    <3> QED
      BY <3>1, <3>2, RowsAre
  <2> HIDE DEF R
  <2>5. bag = [r \in Images(G, J) |-> Cardinality(AllWith(G, J, r))]
    BY <1>2, RowsAre
  <2>6. bag = [r \in R |-> RowsOf(F, J)[r]]
    BY <2>3, <2>4, <2>5
  <2> QED
    BY <2>6 DEF R, NotPending
<1> QED
  BY <1>3, <1>4, <1>5

(***************************************************************************)
(* What the search has come past.                                          *)
(***************************************************************************)
\* A row whose value at a level comes before the one the level stands at.
Before(row, path, vals, l) == Agrees(row, path, vals, l - 1) /\ (vals[l] = None \/ row.at[path[l]] < vals[l])

\* Below what was forced, a row that is not under it is of no account; the others are past when
\* they come before where some level stands, or when the search is on its way back from them.
IsPast(row, path, vals, r, n, ph) ==
  \/ ph = "replay" /\ ~Agrees(row, path, vals, n)
  \/ ph # "replay" /\ ~Agrees(row, path, vals, r)
  \/ ph # "replay" /\ \E l \in (r + 1)..n : Before(row, path, vals, l)
  \/ ph = "back" /\ Agrees(row, path, vals, n)

\* The first levels as they were.
Keeps(path, vals, path2, vals2, n) == \A l \in 1..n : path2[l] = path[l] /\ vals2[l] = vals[l]

\* A row agrees with the levels that are as they were.
LEMMA AgreesKept ==
  ASSUME NEW row, NEW path, NEW vals, NEW path2, NEW vals2, NEW n \in Nat, Keeps(path, vals, path2, vals2, n),
         NEW l \in 0..n
  PROVE  /\ Agrees(row, path2, vals2, l) <=> Agrees(row, path, vals, l)
         /\ l >= 1 => (Before(row, path2, vals2, l) <=> Before(row, path, vals, l))
<1>1. \A k \in 0..n : \A j \in 1..k : j \in 1..n
  OBVIOUS
<1>2. \A k \in 0..n : Agrees(row, path2, vals2, k) <=> Agrees(row, path, vals, k)
  BY <1>1 DEF Agrees, Keeps
<1>3. l >= 1 => l \in 1..n /\ l - 1 \in 0..n
  OBVIOUS
<1> QED
  BY <1>2, <1>3 DEF Before, Keeps

\* Agreeing further is agreeing before.
LEMMA AgreesLess ==
  ASSUME NEW row, NEW path, NEW vals, NEW n \in Nat, Agrees(row, path, vals, n), NEW l \in 0..n
  PROVE  Agrees(row, path, vals, l)
<1>1. \A j \in 1..l : j \in 1..n
  OBVIOUS
<1> QED
  BY <1>1 DEF Agrees

\* Agreeing at one level more.
LEMMA AgreesMore ==
  ASSUME NEW row, NEW path, NEW vals, NEW n \in Nat, n >= 1
  PROVE  Agrees(row, path, vals, n) <=> Agrees(row, path, vals, n - 1) /\ row.at[path[n]] = vals[n]
<1>1. \A j \in 1..n : j \in 1..(n - 1) \/ j = n
  OBVIOUS
<1>2. \A j \in 1..(n - 1) : j \in 1..n
  OBVIOUS
<1>3. n \in 1..n
  OBVIOUS
<1> QED
  BY <1>1, <1>2, <1>3 DEF Agrees

\* A step that changes nothing above, below or at the level.
LEMMA PastSame ==
  ASSUME NEW row, NEW path, NEW vals, NEW path2, NEW vals2, NEW r \in Nat, NEW n \in Nat, r <= n,
         Keeps(path, vals, path2, vals2, n), NEW ph, NEW ph2,
         ph = ph2 \/ {ph, ph2} \subseteq {"open", "below"}
  PROVE  IsPast(row, path2, vals2, r, n, ph2) <=> IsPast(row, path, vals, r, n, ph)
<1>1. \A l \in (r + 1)..n : l \in 0..n /\ l >= 1
  OBVIOUS
<1>2. \A l \in (r + 1)..n : Before(row, path2, vals2, l) <=> Before(row, path, vals, l)
  BY <1>1, AgreesKept
<1>3. /\ Agrees(row, path2, vals2, n) <=> Agrees(row, path, vals, n)
      /\ Agrees(row, path2, vals2, r) <=> Agrees(row, path, vals, r)
  <2>1. n \in 0..n /\ r \in 0..n
    OBVIOUS
  <2> QED
    BY <2>1, AgreesKept
<1>4. (ph = "replay" <=> ph2 = "replay") /\ (ph = "back" <=> ph2 = "back")
  OBVIOUS
<1> QED
  BY <1>2, <1>3, <1>4 DEF IsPast

\* A level entered, at the first value any row has there.
LEMMA PastEnter ==
  ASSUME NEW row, NEW path, NEW vals, NEW path2, NEW vals2, NEW r \in Nat, NEW n \in Nat, r <= n,
         Keeps(path, vals, path2, vals2, n),
         Agrees(row, path, vals, n) => vals2[n + 1] # None /\ ~(row.at[path2[n + 1]] < vals2[n + 1])
  PROVE  IsPast(row, path2, vals2, r, n + 1, "open") <=> IsPast(row, path, vals, r, n, "below")
<1>1. \A l \in (r + 1)..n : l \in 0..n /\ l >= 1
  OBVIOUS
<1>2. \A l \in (r + 1)..n : Before(row, path2, vals2, l) <=> Before(row, path, vals, l)
  BY <1>1, AgreesKept
<1>3. /\ Agrees(row, path2, vals2, n) <=> Agrees(row, path, vals, n)
      /\ Agrees(row, path2, vals2, r) <=> Agrees(row, path, vals, r)
  <2>1. n \in 0..n /\ r \in 0..n
    OBVIOUS
  <2> QED
    BY <2>1, AgreesKept
<1>4. ~Before(row, path2, vals2, n + 1)
  <2>1. (n + 1) - 1 = n
    OBVIOUS
  <2> QED
    BY <1>3, <2>1 DEF Before
<1>5. \A l \in (r + 1)..(n + 1) : l \in (r + 1)..n \/ l = n + 1
  OBVIOUS
<1>6. \A l \in (r + 1)..n : l \in (r + 1)..(n + 1)
  OBVIOUS
<1>7. (\E l \in (r + 1)..(n + 1) : Before(row, path2, vals2, l)) <=> \E l \in (r + 1)..n : Before(row, path, vals, l)
  BY <1>2, <1>4, <1>5, <1>6
<1> QED
  BY <1>3, <1>7 DEF IsPast

\* A level goes on to the next value any row has there.
LEMMA PastReturn ==
  ASSUME NEW row, NEW path, NEW vals, NEW path2, NEW vals2, NEW r \in Nat, NEW n \in Nat, r < n,
         Keeps(path, vals, path2, vals2, n - 1), path2[n] = path[n],
         vals[n] # None,
         Agrees(row, path, vals, n - 1) =>
           (vals2[n] = None \/ row.at[path[n]] < vals2[n] <=> row.at[path[n]] < vals[n] \/ row.at[path[n]] = vals[n])
  PROVE  IsPast(row, path2, vals2, r, n, "open") <=> IsPast(row, path, vals, r, n, "back")
<1>0. n - 1 \in Nat /\ r \in 0..(n - 1) /\ n - 1 \in 0..(n - 1) /\ n >= 1
  OBVIOUS
<1>1. \A l \in (r + 1)..(n - 1) : l \in 0..(n - 1) /\ l >= 1
  OBVIOUS
<1>2. \A l \in (r + 1)..(n - 1) : Before(row, path2, vals2, l) <=> Before(row, path, vals, l)
  BY <1>0, <1>1, AgreesKept
<1>3. /\ Agrees(row, path2, vals2, n - 1) <=> Agrees(row, path, vals, n - 1)
      /\ Agrees(row, path2, vals2, r) <=> Agrees(row, path, vals, r)
  BY <1>0, AgreesKept
<1>4. Before(row, path2, vals2, n) <=> Before(row, path, vals, n) \/ Agrees(row, path, vals, n)
  BY <1>0, <1>3, AgreesMore DEF Before
<1>5. \A l \in (r + 1)..n : l \in (r + 1)..(n - 1) \/ l = n
  OBVIOUS
<1>6. n \in (r + 1)..n /\ \A l \in (r + 1)..(n - 1) : l \in (r + 1)..n
  OBVIOUS
<1>7. (\E l \in (r + 1)..n : Before(row, path2, vals2, l))
        <=> (\E l \in (r + 1)..n : Before(row, path, vals, l)) \/ Agrees(row, path, vals, n)
  BY <1>2, <1>4, <1>5, <1>6
<1> QED
  BY <1>3, <1>7 DEF IsPast

\* A level left, with no more values.
LEMMA PastClose ==
  ASSUME NEW row, NEW path, NEW vals, NEW path2, NEW vals2, NEW r \in Nat, NEW n \in Nat, r < n,
         Keeps(path, vals, path2, vals2, n - 1), vals[n] = None
  PROVE  IsPast(row, path2, vals2, r, n - 1, "back") <=> IsPast(row, path, vals, r, n, "open")
<1>0. n - 1 \in Nat /\ r \in 0..(n - 1) /\ n - 1 \in 0..(n - 1) /\ n >= 1
  OBVIOUS
<1>1. \A l \in (r + 1)..(n - 1) : l \in 0..(n - 1) /\ l >= 1
  OBVIOUS
<1>2. \A l \in (r + 1)..(n - 1) : Before(row, path2, vals2, l) <=> Before(row, path, vals, l)
  BY <1>0, <1>1, AgreesKept
<1>3. /\ Agrees(row, path2, vals2, n - 1) <=> Agrees(row, path, vals, n - 1)
      /\ Agrees(row, path2, vals2, r) <=> Agrees(row, path, vals, r)
  BY <1>0, AgreesKept
<1>4. Before(row, path, vals, n) <=> Agrees(row, path, vals, n - 1)
  BY DEF Before
<1>5. \A l \in (r + 1)..n : l \in (r + 1)..(n - 1) \/ l = n
  OBVIOUS
<1>6. n \in (r + 1)..n /\ \A l \in (r + 1)..(n - 1) : l \in (r + 1)..n
  OBVIOUS
<1>7. (\E l \in (r + 1)..n : Before(row, path, vals, l))
        <=> (\E l \in (r + 1)..(n - 1) : Before(row, path2, vals2, l)) \/ Agrees(row, path, vals, n - 1)
  BY <1>2, <1>4, <1>5, <1>6
<1> QED
  BY <1>3, <1>7 DEF IsPast

\* What agrees all the way down is not past until the search turns back.
LEMMA PastMatch ==
  ASSUME NEW row, NEW path, NEW vals, NEW r \in Nat, NEW n \in Nat, r <= n,
         \A l \in 1..n : vals[l] \in Nat
  PROVE  /\ IsPast(row, path, vals, r, n, "back") <=> IsPast(row, path, vals, r, n, "below") \/ Agrees(row, path, vals, n)
         /\ Agrees(row, path, vals, n) => ~IsPast(row, path, vals, r, n, "below")
<1>1. ASSUME Agrees(row, path, vals, n)
      PROVE  ~IsPast(row, path, vals, r, n, "below")
  <2>1. Agrees(row, path, vals, r)
    BY <1>1, AgreesLess
  <2>2. ASSUME NEW l \in (r + 1)..n
        PROVE  ~Before(row, path, vals, l)
    <3>1. l \in 1..n
      OBVIOUS
    <3>2. vals[l] \in Nat /\ row.at[path[l]] = vals[l]
      BY <1>1, <3>1 DEF Agrees
    <3>3. vals[l] # None /\ ~(row.at[path[l]] < vals[l])
      BY <3>2 DEF None
    <3> QED
      BY <3>3 DEF Before
  <2> QED
    BY <2>1, <2>2 DEF IsPast
<1> QED
  BY <1>1 DEF IsPast

\* On the way back from what was forced, everything is past; a forced level undone changes nothing.
LEMMA PastAll ==
  ASSUME NEW row, NEW path, NEW vals, NEW r
  PROVE  IsPast(row, path, vals, r, r, "back")
BY DEF IsPast

\* With the last variable forced, what is under the prefix is still to come.
LEMMA PastForced ==
  ASSUME NEW row, NEW path, NEW vals, NEW r, NEW n \in Nat
  PROVE  /\ IsPast(row, path, vals, n, n, "below") <=> ~Agrees(row, path, vals, n)
         /\ IsPast(row, path, vals, r, n, "replay") <=> ~Agrees(row, path, vals, n)
<1>1. (n + 1)..n = {}
  OBVIOUS
<1> QED
  BY <1>1 DEF IsPast

\* A level filed: what agrees above it is past, and what comes from the value it stood at on was not.
LEMMA PastFile ==
  ASSUME NEW row, NEW path, NEW vals, NEW vals2, NEW n \in Nat, n >= 1,
         Keeps(path, vals, path, vals2, n - 1), vals2[n] = None, \A l \in 1..n : vals[l] \in Nat,
         row.at[path[n]] \in Nat
  PROVE  /\ IsPast(row, path, vals2, 0, n, "open") /\ ~IsPast(row, path, vals, 0, n, "open")
              <=> Agrees(row, path, vals, n - 1) /\ row.at[path[n]] >= vals[n]
         /\ IsPast(row, path, vals, 0, n, "open") => IsPast(row, path, vals2, 0, n, "open")
<1>0. n - 1 \in Nat /\ n - 1 \in 0..(n - 1) /\ 0 \in 0..(n - 1) /\ n \in 1..n
  OBVIOUS
<1>1. \A l \in 1..(n - 1) : l \in 0..(n - 1) /\ l >= 1
  OBVIOUS
<1>2. \A l \in 1..(n - 1) : Before(row, path, vals2, l) <=> Before(row, path, vals, l)
  BY <1>0, <1>1, AgreesKept
<1>3. Before(row, path, vals2, n) <=> Agrees(row, path, vals, n - 1)
  BY <1>0, AgreesKept DEF Before
<1>4. Before(row, path, vals, n) <=> Agrees(row, path, vals, n - 1) /\ row.at[path[n]] < vals[n]
  BY <1>0 DEF Before, None
<1>5. \A l \in 1..n : l \in 1..(n - 1) \/ l = n
  OBVIOUS
<1>6. \A l \in 1..(n - 1) : l \in 1..n
  OBVIOUS
<1>7. Agrees(row, path, vals, 0) /\ Agrees(row, path, vals2, 0)
  BY DEF Agrees
<1>8. ASSUME Agrees(row, path, vals, n - 1), NEW l \in 1..(n - 1)
      PROVE  ~Before(row, path, vals, l)
  <2>1. vals[l] \in Nat /\ row.at[path[l]] = vals[l]
    BY <1>6, <1>8 DEF Agrees
  <2> QED
    BY <2>1 DEF Before, None
<1>9. /\ IsPast(row, path, vals2, 0, n, "open") <=> \E l \in 1..n : Before(row, path, vals2, l)
      /\ IsPast(row, path, vals, 0, n, "open") <=> \E l \in 1..n : Before(row, path, vals, l)
  <2>1. 0 + 1 = 1
    OBVIOUS
  <2> QED
    BY <1>7, <2>1 DEF IsPast
<1>10. vals[n] \in Nat
  BY <1>0
<1>11. row.at[path[n]] >= vals[n] <=> ~(row.at[path[n]] < vals[n])
  BY <1>10
<1> QED
  BY <1>0, <1>2, <1>3, <1>4, <1>5, <1>6, <1>8, <1>9, <1>11

(***************************************************************************)
(* The state of a search.                                                  *)
(***************************************************************************)
\* The path with what is left to force of it.
Total == Len(order.path) + Len(todo)
Way == [l \in 1..Total |-> IF l <= Len(order.path) THEN order.path[l] ELSE todo[l - Len(order.path)]]
\* How many levels the cursors are below.
Depth == IF phase = "open" THEN Len(order.path) - 1 ELSE Len(order.path)

Still == Holds(index) /\ AsksSoundly(question) /\ Covers(plan, question)

\* What the order says of the way.
WayFacts ==
  /\ Total \in Nat /\ Len(order.path) \in Nat /\ Len(order.path) <= Total
  /\ replayed \in Nat /\ replayed <= Len(order.path)
  /\ Distinct(Way, Total) /\ \A l \in 1..Total : Way[l] \in PatternVars(Triples)
  /\ \A l \in 1..Len(order.path) : Way[l] = order.path[l]
  /\ phase # "replay" => Total = Len(order.path) /\ Len(todo) = 0
  /\ phase = "replay" => replayed = Len(order.path) /\ Len(todo) > 0
  /\ phase = "open" => Len(order.path) > replayed
  /\ Len(order.path) = Size => \A x \in PatternVars(Triples) : \E l \in 1..Len(order.path) : Way[l] = x
  /\ IsPattern(Triples) /\ Len(todo) \in Nat
  /\ phase \in {"below", "back", "open", "replay"}

\* The order along which a row is come past is a permutation as far as it goes.
LEMMA WayIs == OrderInv /\ PathInv /\ Still => WayFacts
<1> SUFFICES ASSUME OrderInv, PathInv, Still
             PROVE  WayFacts
  OBVIOUS
<1>1. PICK n \in Nat, m \in Nat, r \in Nat : n = Len(order.path) /\ m = Len(todo) /\ r = replayed
  BY PlanCounts, ListPlaces DEF PathInv, TodoInv
<1>2. Total = n + m /\ \A l \in 1..(n + m) : Way[l] = IF l <= n THEN order.path[l] ELSE todo[l - n]
  BY <1>1 DEF Way, Total
<1>3. PICK g : /\ IsRoute(plan, g) /\ Len(g) = n + m /\ \A l \in 1..(n + m) : Way[l] = g[l]
  <2>1. CASE phase # "replay"
    <3>1. m = 0
      BY <1>1, <2>1 DEF PathInv, TodoInv
    <3>2. IsRoute(plan, order.path)
      BY Routes DEF PathInv
    <3> QED
      BY <1>1, <1>2, <3>1, <3>2
  <2>2. CASE phase = "replay"
    <3>1. Replaying
      BY <2>2 DEF OrderInv, Counted
    <3>2. PICK g \in prefixes : /\ Len(g) = replayed + Len(todo)
                                /\ \A i \in 1..replayed : order.path[i] = g[i]
                                /\ \A i \in 1..Len(todo) : todo[i] = g[replayed + i]
      BY <3>1 DEF Replaying
    <3>3. r = n
      BY <1>1, <3>1, PlanCounts DEF Replaying
    <3>4. IsRoute(plan, g)
      BY Routes DEF PathInv
    <3>5. ASSUME NEW l \in 1..(n + m)
          PROVE  Way[l] = g[l]
      <4>1. CASE l <= n
        BY <1>1, <1>2, <3>2, <3>3, <4>1
      <4>2. CASE l > n
        <5>1. l - n \in 1..m /\ n + (l - n) = l
          BY <4>2
        <5>2. todo[l - n] = g[n + (l - n)]
          BY <1>1, <3>2, <3>3, <5>1
        <5> QED
          BY <1>2, <4>2, <5>1, <5>2
      <4> QED
        BY <4>1, <4>2
    <3> QED
      BY <1>1, <3>2, <3>3, <3>4, <3>5
  <2> QED
    BY <2>1, <2>2
<1>4. /\ \A l \in 1..(n + m) : g[l] \in PatternVars(Triples)
      /\ Distinct(g, n + m)
      /\ n + m = Cardinality(plan.free) + Len(plan.lonely) => Fills(g, PatternVars(Triples))
  <2>1. AsksSoundly(question) /\ Covers(plan, question)
    BY DEF Still
  <2>2. PICK ts : ts = question.triples
    OBVIOUS
  <2>3. Triples = ts
    BY <2>2 DEF Triples
  <2>4. IsRoute(plan, g) /\ Len(g) = n + m
    BY <1>3
  <2>5. \A l \in 1..Len(g) : g[l] \in PatternVars(question.triples)
    BY <2>1, <2>4, RouteVars
  <2>6. Distinct(g, Len(g))
    BY <2>1, <2>4, RouteVars
  <2>7. Len(g) = Cardinality(plan.free) + Len(plan.lonely) => Fills(g, PatternVars(question.triples))
    BY <2>1, <2>4, RouteVars
  <2> QED
    BY <2>2, <2>3, <2>4, <2>5, <2>6, <2>7
<1>5. Distinct(Way, n + m) /\ \A l \in 1..(n + m) : Way[l] \in PatternVars(Triples)
  BY <1>3, <1>4 DEF Distinct
<1>6. \A l \in 1..n : Way[l] = order.path[l]
  BY <1>2
<1>7. phase # "replay" => m = 0
  BY <1>1 DEF PathInv, TodoInv
<1>8. phase = "replay" => r = n /\ m > 0
  BY <1>1, PlanCounts DEF OrderInv, Counted, Replaying
<1>9. (phase = "open" => n > r) /\ r <= n /\ phase \in {"below", "back", "open", "replay"}
  BY <1>1, <1>8, PlanCounts DEF OrderInv, Counted
<1>10. n + m <= Size /\ Size = Cardinality(plan.free) + Len(plan.lonely)
  BY <1>3, PlanCounts DEF IsRoute, Tailed
<1>11. ASSUME n = Size, NEW x \in PatternVars(Triples)
       PROVE  \E l \in 1..n : Way[l] = x
  <2>1. m = 0
    BY <1>10, <1>11
  <2> QED
    BY <1>3, <1>4, <1>10, <1>11, <2>1 DEF Fills
<1>12. IsPattern(Triples)
  BY AsksAre DEF Still, Triples
<1>13. Total \in Nat /\ n <= Total /\ (phase # "replay" => Total = n)
  BY <1>2, <1>7
<1>14. Distinct(Way, Total) /\ \A l \in 1..Total : Way[l] \in PatternVars(Triples)
  BY <1>2, <1>5
<1> QED
  BY <1>1, <1>6, <1>7, <1>8, <1>9, <1>11, <1>12, <1>13, <1>14 DEF WayFacts

\* The value of each level; only a level with no more values has none.
ValuesInv ==
  /\ IsList(values) /\ Len(values) = Total
  /\ \A l \in 1..Total : values[l] \in Nat \/ (phase = "open" /\ l = Total /\ values[l] = None)

\* What is filed may be taken up.
TableInv ==
  \A e \in table : /\ e.path \in prefixes /\ IsList(e.values) /\ Len(e.values) = Len(e.path)
                   /\ \A l \in 1..Len(e.path) : e.values[l] \in Nat

\* The cursors are as deep as the order.
CursorInv == DOMAIN cursors = DOMAIN Triples /\ AllLayered(index, Triples, cursors, Way, values, Depth)

\* A search that was stopped finds no more.
StopInv ==
  /\ stopped \in BOOLEAN
  /\ stopped => phase = "back" \/ (phase = "open" /\ LastValue = None)
  /\ over => phase = "back" /\ Len(order.path) = 0

\* The rows found so far.
Past == {f \in FitsIn(index, Triples) : IsPast(RowsIn(index, Triples)[f], Way, values, replayed, Total, phase)}
RowInv ==
  Ledger(FitsIn(index, Triples), RowsIn(index, Triples), Past, table, rows, stopped, question.limit, question.timed)

\* What every step keeps.
SearchInv == OrderInv /\ PathInv /\ Still /\ ValuesInv /\ TableInv /\ CursorInv /\ StopInv
JoinInv == SearchInv /\ RowInv

Same == index' = index /\ question' = question
NavGood == \A i \in DOMAIN cursors : Exact(index, cursors[i])

\* What a search knows of its cursors and levels.
LEMMA Knows == SearchInv => WayFacts /\ (phase # "replay" => Len(values) = Len(order.path))
BY WayIs DEF SearchInv, ValuesInv, WayFacts

\* What is settled is the same in the same index under the same question.
LEMMA StillSame == SearchInv /\ [Next]_vars => Still' /\ Same /\ plan' = plan /\ Triples' = Triples
<1> SUFFICES ASSUME SearchInv, [Next]_vars
             PROVE  Still' /\ Same /\ plan' = plan /\ Triples' = Triples
  OBVIOUS
<1>1. index' = index /\ question' = question
  BY DEF Next, Enter, Descend, Return, Close, Match, Expire, FileVisit, TakeUp, ForceDown, UndoForce, Finish, vars, searchVars
<1>2. plan' = plan
  BY DEF Next, Enter, Descend, Return, Close, Match, Expire, FileVisit, TakeUp, ForceDown, UndoForce, Finish, vars, orderVars,
         NextVar, Down, Up, Done, TurnBack, File, Resume, ForceVar, Undo
<1>3. Still'
  BY <1>1, <1>2 DEF SearchInv, Still
<1>4. Triples' = Triples
  BY <1>1 DEF Triples
<1> QED
  BY <1>1, <1>2, <1>3, <1>4 DEF Same

(***************************************************************************)
(* What the steps have in common.                                          *)
(***************************************************************************)
\* The order and the way after a step.
LEMMA OrderNext == SearchInv /\ [Next]_vars => OrderInv' /\ PathInv' /\ Still' /\ WayFacts'
<1> SUFFICES ASSUME SearchInv, [Next]_vars
             PROVE  OrderInv' /\ PathInv' /\ Still' /\ WayFacts'
  OBVIOUS
<1>1. OrderInv /\ PathInv
  BY DEF SearchInv
<1>2. OrderInv'
  BY <1>1, NextInv
<1>3. PathInv'
  BY <1>1, PathStep
<1>4. Still'
  BY StillSame
<1>5. (OrderInv /\ PathInv /\ Still => WayFacts)'
  BY WayIs, PTL
<1> QED
  BY <1>2, <1>3, <1>4, <1>5

\* Cursors that stay.
LEMMA AllSame ==
  ASSUME NEW idx, NEW triples, NEW curs, NEW path, NEW vals, NEW path2, NEW vals2, NEW n \in Nat,
         AllLayered(idx, triples, curs, path, vals, n), Keeps(path, vals, path2, vals2, n)
  PROVE  AllLayered(idx, triples, curs, path2, vals2, n)
<1> SUFFICES ASSUME NEW i \in DOMAIN triples
             PROVE  Layered(triples[i], curs[i], CursorAt(idx, triples[i]), path2, vals2, n)
  BY DEF AllLayered
<1>1. Layered(triples[i], curs[i], CursorAt(idx, triples[i]), path, vals, n)
  BY DEF AllLayered
<1>2. \A j \in 1..n : path2[j] = path[j] /\ vals2[j] = vals[j]
  BY DEF Keeps
<1> QED
  BY <1>1, <1>2, LayerSame

\* Cursors that go down a level.
LEMMA AllDown ==
  ASSUME NEW curs, NEW path, NEW vals, NEW n \in Nat, DOMAIN curs = DOMAIN Triples,
         AllLayered(index, Triples, curs, path, vals, n), Distinct(path, n + 1), vals[n + 1] \in Nat
  PROVE  /\ DOMAIN DownAt(curs, path[n + 1], vals[n + 1]) = DOMAIN Triples
         /\ AllLayered(index, Triples, DownAt(curs, path[n + 1], vals[n + 1]), path, vals, n + 1)
<1>1. PICK down : down = DownAt(curs, path[n + 1], vals[n + 1])
  OBVIOUS
<1>2. DOMAIN down = DOMAIN Triples /\ \A i \in DOMAIN Triples : down[i] = DownIn(Triples[i], curs[i], path[n + 1], vals[n + 1])
  BY <1>1 DEF DownAt
<1>3. ASSUME NEW i \in DOMAIN Triples
      PROVE  Layered(Triples[i], down[i], CursorAt(index, Triples[i]), path, vals, n + 1)
  <2>1. Layered(Triples[i], curs[i], CursorAt(index, Triples[i]), path, vals, n)
    BY DEF AllLayered
  <2>2. Layered(Triples[i], DownIn(Triples[i], curs[i], path[n + 1], vals[n + 1]), CursorAt(index, Triples[i]), path, vals, n + 1)
    BY <2>1, LayerDown
  <2> QED
    BY <1>2, <2>2
<1> QED
  BY <1>1, <1>2, <1>3 DEF AllLayered

\* Cursors that come up a level.
LEMMA AllUp ==
  ASSUME NEW curs, NEW path, NEW vals, NEW n \in Nat, DOMAIN curs = DOMAIN Triples,
         AllLayered(index, Triples, curs, path, vals, n + 1), Distinct(path, n + 1)
  PROVE  /\ DOMAIN UpAt(curs, path[n + 1]) = DOMAIN Triples
         /\ AllLayered(index, Triples, UpAt(curs, path[n + 1]), path, vals, n)
<1>1. PICK up : up = UpAt(curs, path[n + 1])
  OBVIOUS
<1>2. DOMAIN up = DOMAIN Triples /\ \A i \in DOMAIN Triples : up[i] = UpIn(Triples[i], curs[i], path[n + 1])
  BY <1>1 DEF UpAt
<1>3. ASSUME NEW i \in DOMAIN Triples
      PROVE  Layered(Triples[i], up[i], CursorAt(index, Triples[i]), path, vals, n)
  <2>1. Layered(Triples[i], curs[i], CursorAt(index, Triples[i]), path, vals, n + 1)
    BY DEF AllLayered
  <2>2. Layered(Triples[i], UpIn(Triples[i], curs[i], path[n + 1]), CursorAt(index, Triples[i]), path, vals, n)
    BY <2>1, LayerUp
  <2> QED
    BY <1>2, <2>2
<1> QED
  BY <1>1, <1>2, <1>3 DEF AllLayered

\* The value a level goes to is the next that all its cursors have; no row that agrees above has
\* another.
LEMMA NextValue ==
  ASSUME Holds(index), IsPattern(Triples), NEW curs, NEW path, NEW vals, NEW n \in Nat,
         AllLayered(index, Triples, curs, path, vals, n), Distinct(path, n),
         \A i \in DOMAIN Triples : Exact(index, curs[i]),
         NEW x \in PatternVars(Triples), \A j \in 1..n : path[j] # x, NEW c \in Nat
  PROVE  /\ IsLeast(Offered(index, Triples, curs, x), c, ValueFrom(curs, x, c))
         /\ ValuesFrom(curs, x, c) = Rest(Offered(index, Triples, curs, x), c)
         /\ ValueFrom(curs, x, c) \in Nat \cup {None}
         /\ \A f \in FitsIn(index, Triples) : Agrees(RowsIn(index, Triples)[f], path, vals, n) =>
              /\ RowsIn(index, Triples)[f].at[x] \in Offered(index, Triples, curs, x)
              /\ RowsIn(index, Triples)[f].at[x] \in Nat
<1>1. Places(Triples, x) # {} /\ IsVariable(x)
  BY VarsAre
<1>2. \A o \in Places(Triples, x) : o[1] \in DOMAIN Triples /\ o[2] \in Positions /\ o[2] \in Free(curs[o[1]])
  BY <1>1, StandsFree
<1>3. \A o \in Places(Triples, x) : Exact(index, curs[o[1]]) /\ o[2] \in Free(curs[o[1]])
  BY <1>2
<1>4. ValueFrom(curs, x, c) = LeastFrom(Offered(index, Triples, curs, x), c)
  BY <1>1, <1>3, ValueFromIs
<1>5. ValuesFrom(curs, x, c) = Rest(Offered(index, Triples, curs, x), c)
  BY <1>1, <1>3, ValuesFromIs
<1>6. Offered(index, Triples, curs, x) \subseteq Nat
  BY DEF Offered
<1>7. IsLeast(Offered(index, Triples, curs, x), c, ValueFrom(curs, x, c))
  BY <1>4, <1>6, LeastIs
<1>8. ValueFrom(curs, x, c) \in Nat \cup {None}
  BY <1>6, <1>7 DEF IsLeast
<1>9. ASSUME NEW f \in FitsIn(index, Triples), Agrees(RowsIn(index, Triples)[f], path, vals, n)
      PROVE  /\ RowsIn(index, Triples)[f].at[x] \in Offered(index, Triples, curs, x)
             /\ RowsIn(index, Triples)[f].at[x] \in Nat
  <2>1. \A j \in 1..n : IsVariable(path[j])
    BY DEF Distinct
  <2> QED
    BY <1>9, <2>1, RowOffered
<1> QED
  BY <1>5, <1>7, <1>8, <1>9

\* The choices come past.
PastIn(F, J, path, vals, r, n, ph) == {f \in F : IsPast(J[f], path, vals, r, n, ph)}

\* An account that stays, whatever was come past if the search was stopped.
LEMMA LedgerSame ==
  ASSUME NEW F, NEW J, NEW path, NEW vals, NEW r, NEW n, NEW ph, NEW path2, NEW vals2, NEW r2, NEW n2, NEW ph2,
         NEW tab, NEW bag, NEW stop \in BOOLEAN, NEW limit, NEW timed,
         Ledger(F, J, PastIn(F, J, path, vals, r, n, ph), tab, bag, stop, limit, timed),
         ~stop => \A f \in F : IsPast(J[f], path2, vals2, r2, n2, ph2) <=> IsPast(J[f], path, vals, r, n, ph)
  PROVE  Ledger(F, J, PastIn(F, J, path2, vals2, r2, n2, ph2), tab, bag, stop, limit, timed)
<1>1. CASE stop
  <2>1. Ledger(F, J, PastIn(F, J, path, vals, r, n, ph), tab, bag, TRUE, limit, timed)
    BY <1>1
  <2> QED
    BY <1>1, <2>1, LedgerStopped
<1>2. CASE ~stop
  <2>1. PastIn(F, J, path2, vals2, r2, n2, ph2) = PastIn(F, J, path, vals, r, n, ph)
    BY <1>2 DEF PastIn
  <2> QED
    BY <2>1
<1> QED
  BY <1>1, <1>2

\* The choices that fit, and what was come past of them.
LEMMA PastIs == Past = PastIn(FitsIn(index, Triples), RowsIn(index, Triples), Way, values, replayed, Total, phase)
BY DEF Past, PastIn

\* What a step has to keep beside the order.
KeptInv == ValuesInv /\ TableInv /\ CursorInv /\ StopInv

\* Rows that are not touched.
LEMMA RowKept ==
  ASSUME RowInv, StopInv, Same, table' = table, rows' = rows, stopped' = stopped,
         ~stopped => \A f \in FitsIn(index, Triples) :
                       IsPast(RowsIn(index, Triples)[f], Way', values', replayed', Total', phase')
                         <=> IsPast(RowsIn(index, Triples)[f], Way, values, replayed, Total, phase)
  PROVE  RowInv'
<1>1. PICK F, J : F = FitsIn(index, Triples) /\ J = RowsIn(index, Triples)
  OBVIOUS
<1>2. Triples' = Triples /\ index' = index /\ question' = question
  BY DEF Same, Triples
<1>3. FitsIn(index, Triples)' = F /\ RowsIn(index, Triples)' = J
  BY <1>1, <1>2
<1>4. Past = PastIn(F, J, Way, values, replayed, Total, phase)
  BY <1>1, PastIs
<1>5. Past' = PastIn(F, J, Way', values', replayed', Total', phase')
  BY <1>3 DEF Past, PastIn
<1>6. Ledger(F, J, PastIn(F, J, Way, values, replayed, Total, phase), table, rows, stopped, question.limit, question.timed)
  BY <1>1, <1>4 DEF RowInv
<1>7. stopped \in BOOLEAN
  BY DEF StopInv
<1>8. ~stopped => \A f \in F : IsPast(J[f], Way', values', replayed', Total', phase')
                                 <=> IsPast(J[f], Way, values, replayed, Total, phase)
  BY <1>1
<1>9. Ledger(F, J, PastIn(F, J, Way', values', replayed', Total', phase'), table, rows, stopped, question.limit, question.timed)
  BY <1>6, <1>7, <1>8, LedgerSame
<1>10. Ledger(F, J, Past', table', rows', stopped', question.limit', question.timed')
  BY <1>2, <1>5, <1>9
<1> QED
  BY <1>3, <1>10 DEF RowInv

\* Cursors that are not touched.
LEMMA CursorKept ==
  ASSUME CursorInv, Same, cursors' = cursors, Depth \in Nat, Depth' = Depth, Keeps(Way, values, Way', values', Depth)
  PROVE  CursorInv'
<1>1. Triples' = Triples /\ index' = index
  BY DEF Same, Triples
<1>2. PICK d \in Nat : d = Depth
  OBVIOUS
<1>3. AllLayered(index, Triples, cursors, Way, values, d)
  BY <1>2 DEF CursorInv
<1>4. AllLayered(index, Triples, cursors, Way', values', d)
  BY <1>2, <1>3, AllSame
<1> QED
  BY <1>1, <1>2, <1>4 DEF CursorInv

\* What was filed stays filed.
LEMMA TableKept ==
  ASSUME TableInv, table' \subseteq table, prefixes' = prefixes
  PROVE  TableInv'
BY DEF TableInv

\* The parts of what a search keeps.
LEMMA SearchSays ==
  ASSUME SearchInv
  PROVE  /\ OrderInv /\ PathInv /\ Still /\ ValuesInv /\ TableInv /\ CursorInv /\ StopInv /\ WayFacts
         /\ Holds(index) /\ IsPattern(Triples) /\ DOMAIN cursors = DOMAIN Triples
         /\ phase # "replay" => Len(values) = Len(order.path)
BY Knows DEF SearchInv, Still, WayFacts, CursorInv

\* What comes before the next value is what comes before where it was looked for.
LEMMA LeastParts ==
  ASSUME NEW S, NEW c \in Nat, NEW v \in Nat \cup {None}, IsLeast(S, c, v), NEW a \in Nat, a \in S
  PROVE  v = None \/ a < v <=> a < c
<1>1. CASE v = None /\ \A u \in S : u < c
  BY <1>1
<1>2. CASE v \in S /\ v >= c /\ \A u \in S : u >= c => v <= u
  <2>1. v \in Nat /\ v # None
    <3>1. v # None
      BY <1>2 DEF None
    <3> QED
      BY <3>1
  <2>2. a >= c => v <= a
    BY <1>2
  <2> QED
    BY <1>2, <2>1, <2>2
<1> QED
  BY <1>1, <1>2 DEF IsLeast

\* A level entered, at the least value its cursors all have.
LEMMA EnterStep ==
  ASSUME SearchInv, RowInv, NavGood, Enter
  PROVE  KeptInv' /\ RowInv'
<1>1. PICK x : NextVar(x) /\ values' = Append(values, ValueFrom(cursors, x, 0))
  BY DEF Enter
<1>2. Same /\ table' = table /\ rows' = rows /\ stopped' = stopped /\ over' = over /\ cursors' = cursors
  BY DEF Enter, Same
<1>3. phase = "below" /\ phase' = "open" /\ prefixes' = prefixes /\ replayed' = replayed /\ todo' = todo
  BY <1>1 DEF NextVar
<1>4. [Next]_vars
  BY DEF Next
<1>5. WayFacts /\ WayFacts'
  BY <1>4, OrderNext, SearchSays
<1>6. Triples' = Triples
  BY <1>4, StillSame
<1>7a. PICK n \in Nat, r \in Nat : n = Len(order.path) /\ r = replayed /\ r <= n
  BY <1>5 DEF WayFacts
<1>7b. PICK w, v, w2, v2 : w = Way /\ v = values /\ w2 = Way' /\ v2 = values'
  OBVIOUS
<1>7. n = Len(order.path) /\ r = replayed /\ r <= n /\ w = Way /\ v = values /\ w2 = Way' /\ v2 = values'
  BY <1>7a, <1>7b
<1>8. Longer(order.path, order'.path, x)
  BY <1>1, NextVarPath, SearchSays
<1>9. Total = n /\ Depth = n /\ Total' = n + 1 /\ Depth' = n /\ Len(order'.path) = n + 1
  BY <1>3, <1>5, <1>7, <1>8 DEF WayFacts, Depth, Longer
<1>10. /\ \A l \in 1..n : w2[l] = w[l]
       /\ w2[n + 1] = x
  <2>1. \A l \in 1..(n + 1) : w2[l] = order'.path[l]
    BY <1>5, <1>7, <1>9 DEF WayFacts
  <2>2. \A l \in 1..n : w[l] = order.path[l]
    BY <1>5, <1>7 DEF WayFacts
  <2> QED
    BY <1>7, <1>8, <2>1, <2>2 DEF Longer
<1>11. Distinct(w2, n + 1) /\ x \in PatternVars(Triples)
  BY <1>5, <1>6, <1>7, <1>9, <1>10 DEF WayFacts
<1>12. Distinct(w, n) /\ \A j \in 1..n : w[j] # x
  BY <1>10, <1>11 DEF Distinct
<1>13. AllLayered(index, Triples, cursors, w, v, n)
  BY <1>7, <1>9, SearchSays DEF CursorInv
<1>14. \A i \in DOMAIN Triples : Exact(index, cursors[i])
  BY SearchSays DEF NavGood
<1>15. PICK val : val = ValueFrom(cursors, x, 0)
  OBVIOUS
<1>16. /\ IsLeast(Offered(index, Triples, cursors, x), 0, val) /\ val \in Nat \cup {None}
       /\ \A f \in FitsIn(index, Triples) : Agrees(RowsIn(index, Triples)[f], w, v, n) =>
            /\ RowsIn(index, Triples)[f].at[x] \in Offered(index, Triples, cursors, x)
            /\ RowsIn(index, Triples)[f].at[x] \in Nat
  BY <1>11, <1>12, <1>13, <1>14, <1>15, SearchSays, NextValue
<1>17. IsList(v) /\ Len(v) = n
  BY <1>3, <1>7, SearchSays DEF ValuesInv
<1>18. /\ IsList(v2) /\ Len(v2) = n + 1 /\ v2[n + 1] = val
       /\ \A l \in 1..n : v2[l] = v[l]
  BY <1>1, <1>7, <1>15, <1>17, ListAppend
<1>19. Keeps(w, v, w2, v2, n)
  BY <1>10, <1>18 DEF Keeps
<1>20. ValuesInv'
  <2>1. \A l \in 1..n : v[l] \in Nat
    BY <1>3, <1>7, <1>9, SearchSays DEF ValuesInv
  <2>2. \A l \in 1..(n + 1) : v2[l] \in Nat \/ (l = n + 1 /\ v2[l] = None)
    BY <1>16, <1>18, <2>1
  <2> QED
    BY <1>3, <1>7, <1>9, <1>18, <2>2 DEF ValuesInv
<1>21. CursorInv'
  BY <1>2, <1>7, <1>9, <1>19, CursorKept, SearchSays
<1>22. TableInv'
  BY <1>2, <1>3, TableKept, SearchSays
<1>23. ~stopped /\ ~over /\ StopInv'
  BY <1>2, <1>3, SearchSays DEF StopInv
<1>24. ASSUME NEW f \in FitsIn(index, Triples)
       PROVE  IsPast(RowsIn(index, Triples)[f], w2, v2, r, n + 1, "open")
                <=> IsPast(RowsIn(index, Triples)[f], w, v, r, n, "below")
  <2>1. PICK row : row = RowsIn(index, Triples)[f]
    OBVIOUS
  <2>2. ASSUME Agrees(row, w, v, n)
        PROVE  v2[n + 1] # None /\ ~(row.at[w2[n + 1]] < v2[n + 1])
    <3>1. row.at[x] \in Offered(index, Triples, cursors, x) /\ row.at[x] \in Nat
      BY <1>16, <2>1, <2>2
    <3>2. PICK a \in Nat : a = row.at[x]
      BY <3>1
    <3>3. val = None \/ a < val <=> a < 0
      BY <1>16, <3>1, <3>2, LeastParts
    <3> QED
      BY <1>10, <1>18, <3>2, <3>3
  <2>3. IsPast(row, w2, v2, r, n + 1, "open") <=> IsPast(row, w, v, r, n, "below")
    BY <1>7, <1>19, <2>2, PastEnter
  <2> QED
    BY <2>1, <2>3
<1>25. RowInv'
  BY <1>2, <1>3, <1>7, <1>9, <1>24, RowKept, SearchSays
<1> QED
  BY <1>20, <1>21, <1>22, <1>23, <1>25 DEF KeptInv

\* A sequence is a list.
LEMMA SeqIsList ==
  ASSUME NEW X, NEW s \in Seq(X)
  PROVE  IsList(s)
BY DEF IsList

\* A list with another last element.
LastSet(s, v) == [s EXCEPT ![Len(s)] = v]

\* A list is one still when its last element is another.
LEMMA ListWithLast ==
  ASSUME NEW s, IsList(s), Len(s) > 0, NEW v
  PROVE  /\ IsList(LastSet(s, v)) /\ Len(LastSet(s, v)) = Len(s)
         /\ LastSet(s, v)[Len(s)] = v /\ \A i \in 1..(Len(s) - 1) : LastSet(s, v)[i] = s[i]
<1>1. PICK X : X = {s[i] : i \in DOMAIN s} \cup {v}
  OBVIOUS
<1>2. s \in Seq(X) /\ v \in X /\ Len(s) \in DOMAIN s
  BY <1>1 DEF IsList
<1>3. PICK t : t = LastSet(s, v)
  OBVIOUS
<1>4. t \in Seq(X) /\ Len(t) = Len(s) /\ t[Len(s)] = v /\ \A i \in 1..(Len(s) - 1) : t[i] = s[i]
  BY <1>2, <1>3 DEF LastSet
<1>5. IsList(t)
  BY <1>4, SeqIsList
<1> QED
  BY <1>3, <1>4, <1>5

\* What a search at a value of a level knows: the level is the last, its variable has all levels
\* above bound, and the cursors are one level above.
LEMMA OpenSays ==
  ASSUME SearchInv, phase = "open"
  PROVE  /\ Total = Len(order.path) /\ Len(order.path) \in Nat /\ Len(order.path) > 0
         /\ replayed \in Nat /\ replayed < Len(order.path)
         /\ Depth = Len(order.path) - 1 /\ Len(values) = Len(order.path) /\ IsList(values)
         /\ Distinct(Way, Len(order.path)) /\ LastVar = Way[Len(order.path)] /\ LastValue = values[Len(order.path)]
         /\ \A l \in 1..Len(order.path) : values[l] \in Nat \/ (l = Len(order.path) /\ values[l] = None)
         /\ AllLayered(index, Triples, cursors, Way, values, Len(order.path) - 1)
         /\ LastVar \in PatternVars(Triples)
<1>1. WayFacts /\ Len(values) = Len(order.path) /\ ValuesInv /\ CursorInv
  BY SearchSays
<1>2. Depth = Len(order.path) - 1
  BY DEF Depth
<1>3. /\ Total = Len(order.path) /\ Len(order.path) \in Nat /\ Len(order.path) > 0
      /\ replayed \in Nat /\ replayed < Len(order.path)
  BY <1>1 DEF WayFacts
<1>4. Distinct(Way, Len(order.path)) /\ LastVar = Way[Len(order.path)] /\ LastVar \in PatternVars(Triples)
  BY <1>1, <1>3 DEF WayFacts, LastVar, Level
<1>5. LastValue = values[Len(order.path)]
  BY <1>1 DEF LastValue
<1>6. /\ IsList(values)
      /\ \A l \in 1..Len(order.path) : values[l] \in Nat \/ (l = Len(order.path) /\ values[l] = None)
  BY <1>1, <1>3 DEF ValuesInv
<1>7. AllLayered(index, Triples, cursors, Way, values, Len(order.path) - 1)
  BY <1>1, <1>2 DEF CursorInv
<1> QED
  BY <1>1, <1>2, <1>3, <1>4, <1>5, <1>6, <1>7

\* What one on its way down or back knows: every level stands at a value.
LEMMA BetweenSays ==
  ASSUME SearchInv, phase \in {"below", "back"}
  PROVE  /\ Total = Len(order.path) /\ Len(order.path) \in Nat
         /\ replayed \in Nat /\ replayed <= Len(order.path)
         /\ Depth = Len(order.path) /\ Len(values) = Len(order.path) /\ IsList(values)
         /\ Distinct(Way, Len(order.path)) /\ (Len(order.path) > 0 => LastVar = Way[Len(order.path)])
         /\ LastValue = values[Len(order.path)]
         /\ \A l \in 1..Len(order.path) : values[l] \in Nat /\ Way[l] \in PatternVars(Triples)
         /\ AllLayered(index, Triples, cursors, Way, values, Len(order.path))
<1>1. WayFacts /\ Len(values) = Len(order.path) /\ ValuesInv /\ CursorInv
  BY SearchSays
<1>2. Depth = Len(order.path)
  BY DEF Depth
<1>3. /\ Total = Len(order.path) /\ Len(order.path) \in Nat
      /\ replayed \in Nat /\ replayed <= Len(order.path)
  BY <1>1 DEF WayFacts
<1>4. Distinct(Way, Len(order.path)) /\ (Len(order.path) > 0 => LastVar = Way[Len(order.path)])
  BY <1>1, <1>3 DEF WayFacts, LastVar, Level
<1>5. LastValue = values[Len(order.path)]
  BY <1>1 DEF LastValue
<1>6. IsList(values) /\ \A l \in 1..Len(order.path) : values[l] \in Nat /\ Way[l] \in PatternVars(Triples)
  BY <1>1, <1>3 DEF ValuesInv, WayFacts
<1>7. AllLayered(index, Triples, cursors, Way, values, Len(order.path))
  BY <1>1, <1>2 DEF CursorInv
<1> QED
  BY <1>1, <1>2, <1>3, <1>4, <1>5, <1>6, <1>7

\* The way stays when path and forcing do.
LEMMA WaySame ==
  ASSUME order'.path = order.path, todo' = todo
  PROVE  Way' = Way /\ Total' = Total
BY DEF Way, Total

\* A step down into the value of a level.
LEMMA DescendStep ==
  ASSUME SearchInv, RowInv, NavGood, Descend
  PROVE  KeptInv' /\ RowInv'
<1>1. /\ phase = "open" /\ LastValue # None /\ cursors' = DownAt(cursors, LastVar, LastValue)
      /\ Same /\ table' = table /\ rows' = rows /\ stopped' = stopped /\ over' = over /\ values' = values
  BY DEF Descend, Same
<1>2. PICK sizes : Down(sizes)
  BY DEF Descend
<1>3. phase' = "below" /\ prefixes' = prefixes /\ replayed' = replayed /\ todo' = todo
  BY <1>2 DEF Down
<1>4. order'.path = order.path
  BY <1>2, DownPath, SearchSays
<1>5. Way' = Way /\ Total' = Total
  BY <1>3, <1>4, WaySame
<1>6. PICK n \in Nat, r \in Nat : n = Len(order.path) /\ r = replayed /\ r < n /\ n > 0
  BY <1>1, OpenSays
<1>7. Total = n /\ Depth' = n
  BY <1>1, <1>3, <1>4, <1>6, OpenSays DEF Depth
<1>8. \A l \in 1..n : values[l] \in Nat
  BY <1>1, <1>6, OpenSays
<1>9. ValuesInv'
  BY <1>1, <1>5, <1>6, <1>7, <1>8, OpenSays DEF ValuesInv
<1>10. CursorInv'
  <2>0. PICK w : w = Way
    OBVIOUS
  <2>1a. PICK k \in Nat : k + 1 = n /\ k = n - 1
    BY <1>6
  <2>1. k + 1 = n /\ w = Way /\ k = n - 1
    BY <2>0, <2>1a
  <2>2. AllLayered(index, Triples, cursors, w, values, k) /\ Distinct(w, k + 1) /\ LastVar = w[k + 1] /\ LastValue = values[k + 1]
    BY <1>1, <1>6, <2>1, OpenSays
  <2>3. values[k + 1] \in Nat
    BY <1>6, <1>8, <2>1
  <2>4. DOMAIN cursors' = DOMAIN Triples /\ AllLayered(index, Triples, cursors', w, values, k + 1)
    BY <1>1, <2>2, <2>3, AllDown, SearchSays
  <2>5. Triples' = Triples /\ index' = index
    BY <1>1 DEF Same, Triples
  <2> QED
    BY <1>1, <1>5, <1>7, <2>1, <2>4, <2>5 DEF CursorInv
<1>11. TableInv'
  BY <1>1, <1>3, TableKept, SearchSays
<1>12. ~stopped /\ ~over /\ StopInv'
  BY <1>1, <1>3, SearchSays DEF StopInv
<1>13. ASSUME NEW f \in FitsIn(index, Triples)
       PROVE  IsPast(RowsIn(index, Triples)[f], Way', values', replayed', Total', phase')
                <=> IsPast(RowsIn(index, Triples)[f], Way, values, replayed, Total, phase)
  <2>1. PICK row, w, v : row = RowsIn(index, Triples)[f] /\ w = Way /\ v = values
    OBVIOUS
  <2>2. Keeps(w, v, w, v, n)
    BY DEF Keeps
  <2>3. IsPast(row, w, v, r, n, "below") <=> IsPast(row, w, v, r, n, "open")
    BY <1>6, <2>2, PastSame
  <2> QED
    BY <1>1, <1>3, <1>5, <1>6, <1>7, <2>1, <2>3
<1>14. RowInv'
  BY <1>1, <1>13, RowKept, SearchSays
<1> QED
  BY <1>9, <1>10, <1>11, <1>12, <1>14 DEF KeptInv

\* A level goes on to the next value its cursors all have, or to none once the search is stopped.
LEMMA ReturnStep ==
  ASSUME SearchInv, RowInv, NavGood, NavGood', Return
  PROVE  KeptInv' /\ RowInv'
<1>1. /\ Up /\ cursors' = UpAt(cursors, LastVar)
      /\ values' = WithLast(IF stopped THEN None ELSE ValueFrom(cursors', LastVar, LastValue + 1))
      /\ Same /\ table' = table /\ rows' = rows /\ stopped' = stopped /\ over' = over
  BY DEF Return, Same
<1>2. phase = "back" /\ phase' = "open" /\ prefixes' = prefixes /\ replayed' = replayed /\ todo' = todo /\ Len(order.path) > replayed
  BY <1>1 DEF Up, Level
<1>3. order'.path = order.path
  BY <1>1, UpPath, SearchSays
<1>4. Way' = Way /\ Total' = Total
  BY <1>2, <1>3, WaySame
<1>5. PICK n \in Nat, r \in Nat, k \in Nat : n = Len(order.path) /\ r = replayed /\ r < n /\ n > 0 /\ k + 1 = n /\ k = n - 1
  <2>1. PICK n \in Nat, r \in Nat : n = Len(order.path) /\ r = replayed /\ r < n
    BY <1>2, BetweenSays
  <2>2. n - 1 \in Nat /\ (n - 1) + 1 = n
    BY <2>1
  <2> QED
    BY <2>1, <2>2
<1>6. Total = n /\ Depth' = k
  BY <1>2, <1>3, <1>5, BetweenSays DEF Depth
<1>7. PICK w, v, x, c : w = Way /\ v = values /\ x = LastVar /\ c = LastValue
  OBVIOUS
<1>8. /\ \A l \in 1..n : v[l] \in Nat
      /\ IsList(v) /\ Len(v) = n /\ x = w[n] /\ c = v[n] /\ Distinct(w, n) /\ x \in PatternVars(Triples)
      /\ AllLayered(index, Triples, cursors, w, v, n)
  BY <1>2, <1>5, <1>7, BetweenSays
<1>9. DOMAIN cursors' = DOMAIN Triples /\ AllLayered(index, Triples, cursors', w, v, k)
  <2>1. x = w[k + 1] /\ Distinct(w, k + 1) /\ AllLayered(index, Triples, cursors, w, v, k + 1)
    BY <1>5, <1>8
  <2>2. DOMAIN cursors = DOMAIN Triples
    BY SearchSays
  <2>3. DOMAIN UpAt(cursors, w[k + 1]) = DOMAIN Triples /\ AllLayered(index, Triples, UpAt(cursors, w[k + 1]), w, v, k)
    BY <2>1, <2>2, AllUp
  <2> QED
    BY <1>1, <1>7, <2>1, <2>3
<1>10. Triples' = Triples /\ index' = index
  BY <1>1 DEF Same, Triples
<1>11. \A i \in DOMAIN Triples : Exact(index, cursors'[i])
  BY <1>9, <1>10 DEF NavGood
<1>12. c \in Nat /\ c + 1 \in Nat
  BY <1>5, <1>8
<1>13. Distinct(w, k) /\ \A j \in 1..k : w[j] # x
  BY <1>5, <1>8 DEF Distinct
<1>14. PICK next : next = ValueFrom(cursors', x, c + 1)
  OBVIOUS
<1>15. /\ IsLeast(Offered(index, Triples, cursors', x), c + 1, next) /\ next \in Nat \cup {None}
       /\ \A f \in FitsIn(index, Triples) : Agrees(RowsIn(index, Triples)[f], w, v, k) =>
            /\ RowsIn(index, Triples)[f].at[x] \in Offered(index, Triples, cursors', x)
            /\ RowsIn(index, Triples)[f].at[x] \in Nat
  BY <1>8, <1>9, <1>11, <1>12, <1>13, <1>14, SearchSays, NextValue
<1>16. PICK val, v2 : val = (IF stopped THEN None ELSE next) /\ v2 = values'
  OBVIOUS
<1>17. IsList(v2) /\ Len(v2) = n /\ v2[n] = val /\ \A l \in 1..(n - 1) : v2[l] = v[l]
  <2>1. v2 = LastSet(v, val)
    BY <1>1, <1>7, <1>14, <1>16 DEF WithLast, LastSet
  <2>2. IsList(v) /\ Len(v) > 0
    BY <1>5, <1>8
  <2> QED
    BY <1>8, <2>1, <2>2, ListWithLast
<1>18. Keeps(w, v, w, v2, k)
  BY <1>5, <1>17 DEF Keeps
<1>19. \A l \in 1..n : v2[l] \in Nat \/ (l = n /\ v2[l] = None)
  BY <1>8, <1>15, <1>16, <1>17
<1>20. ValuesInv'
  BY <1>2, <1>4, <1>6, <1>16, <1>17, <1>19 DEF ValuesInv
<1>21. CursorInv'
  <2>1. AllLayered(index, Triples, cursors', w, v2, k)
    BY <1>9, <1>18, AllSame
  <2> QED
    BY <1>4, <1>6, <1>7, <1>9, <1>10, <1>16, <2>1 DEF CursorInv
<1>22. TableInv'
  BY <1>1, <1>2, TableKept, SearchSays
<1>23. StopInv'
  <2>1. ~over
    BY <1>2, <1>5, SearchSays DEF StopInv
  <2>2. stopped => LastValue' = None
    BY <1>16, <1>17 DEF LastValue
  <2> QED
    BY <1>1, <1>2, <2>1, <2>2, SearchSays DEF StopInv
<1>24. ASSUME ~stopped, NEW f \in FitsIn(index, Triples)
       PROVE  IsPast(RowsIn(index, Triples)[f], Way', values', replayed', Total', phase')
                <=> IsPast(RowsIn(index, Triples)[f], Way, values, replayed, Total, phase)
  <2>1. PICK row : row = RowsIn(index, Triples)[f]
    OBVIOUS
  <2>2. val = next
    BY <1>16, <1>24
  <2>3. ASSUME Agrees(row, w, v, n - 1)
        PROVE  v2[n] = None \/ row.at[w[n]] < v2[n] <=> row.at[w[n]] < v[n] \/ row.at[w[n]] = v[n]
    <3>1. row.at[x] \in Offered(index, Triples, cursors', x) /\ row.at[x] \in Nat
      BY <1>5, <1>15, <2>1, <2>3
    <3>2. PICK a \in Nat : a = row.at[x]
      BY <3>1
    <3>3. next = None \/ a < next <=> a < c + 1
      BY <1>12, <1>15, <3>1, <3>2, LeastParts
    <3>4. a < c + 1 <=> a < c \/ a = c
      BY <1>12
    <3> QED
      BY <1>8, <1>17, <2>2, <3>2, <3>3, <3>4
  <2>4. v[n] # None
    BY <1>8, <1>12 DEF None
  <2>5. Keeps(w, v, w, v2, n - 1)
    BY <1>5, <1>18
  <2>6. IsPast(row, w, v2, r, n, "open") <=> IsPast(row, w, v, r, n, "back")
    BY <1>5, <2>3, <2>4, <2>5, PastReturn
  <2> QED
    BY <1>2, <1>4, <1>5, <1>6, <1>7, <1>16, <2>1, <2>6
<1>25. RowInv'
  BY <1>1, <1>24, RowKept, SearchSays
<1> QED
  BY <1>20, <1>21, <1>22, <1>23, <1>25 DEF KeptInv

\* A level left, with no more values.
LEMMA CloseStep ==
  ASSUME SearchInv, RowInv, Close
  PROVE  KeptInv' /\ RowInv'
<1>1. /\ phase = "open" /\ LastValue = None /\ Done /\ values' = WithoutLast(values)
      /\ Same /\ table' = table /\ rows' = rows /\ stopped' = stopped /\ over' = over /\ cursors' = cursors
  BY DEF Close, Same
<1>2. phase' = "back" /\ prefixes' = prefixes /\ replayed' = replayed /\ todo' = todo /\ order' = Finished(order)
  BY <1>1 DEF Done
<1>3. [Next]_vars
  BY DEF Next
<1>4. WayFacts /\ WayFacts'
  BY <1>3, OrderNext, SearchSays
<1>5. PICK n \in Nat, r \in Nat, k \in Nat : n = Len(order.path) /\ r = replayed /\ r < n /\ n > 0 /\ k + 1 = n /\ k = n - 1
  <2>1. PICK n \in Nat, r \in Nat : n = Len(order.path) /\ r = replayed /\ r < n /\ n > 0
    BY <1>1, OpenSays
  <2>2. n - 1 \in Nat /\ (n - 1) + 1 = n
    BY <2>1
  <2> QED
    BY <2>1, <2>2
<1>6. Shorter(order.path, order'.path)
  BY <1>2, <1>5, FinishedPath, SearchSays
<1>7. Total = n /\ Depth = k /\ Len(order'.path) = k /\ Depth' = k /\ Total' = k
  <2>1. Len(order'.path) = k
    BY <1>5, <1>6 DEF Shorter
  <2> QED
    BY <1>1, <1>2, <1>4, <1>5, <2>1, OpenSays DEF Depth, WayFacts
<1>8. PICK w, v, w2, v2 : w = Way /\ v = values /\ w2 = Way' /\ v2 = values'
  OBVIOUS
<1>9. \A l \in 1..k : w2[l] = w[l]
  <2>1. \A l \in 1..k : w2[l] = order'.path[l]
    BY <1>4, <1>7, <1>8 DEF WayFacts
  <2>2. \A l \in 1..n : w[l] = order.path[l]
    BY <1>4, <1>5, <1>8 DEF WayFacts
  <2> QED
    BY <1>5, <1>6, <2>1, <2>2 DEF Shorter
<1>10. /\ IsList(v) /\ Len(v) = n /\ v[n] = None
       /\ \A l \in 1..k : v[l] \in Nat
  BY <1>1, <1>5, <1>8, OpenSays
<1>11. IsList(v2) /\ Len(v2) = k /\ \A l \in 1..k : v2[l] = v[l]
  BY <1>1, <1>5, <1>8, <1>10, ListWithoutLast
<1>12. Keeps(w, v, w2, v2, k)
  BY <1>9, <1>11 DEF Keeps
<1>13. ValuesInv'
  BY <1>7, <1>8, <1>10, <1>11 DEF ValuesInv
<1>14. CursorInv'
  BY <1>1, <1>7, <1>8, <1>12, CursorKept, SearchSays
<1>15. TableInv'
  BY <1>1, <1>2, TableKept, SearchSays
<1>16. StopInv'
  BY <1>1, <1>2, SearchSays DEF StopInv
<1>17. ASSUME NEW f \in FitsIn(index, Triples)
       PROVE  IsPast(RowsIn(index, Triples)[f], Way', values', replayed', Total', phase')
                <=> IsPast(RowsIn(index, Triples)[f], Way, values, replayed, Total, phase)
  <2>1. PICK row : row = RowsIn(index, Triples)[f]
    OBVIOUS
  <2>2. IsPast(row, w2, v2, r, n - 1, "back") <=> IsPast(row, w, v, r, n, "open")
    BY <1>5, <1>10, <1>12, PastClose
  <2> QED
    BY <1>1, <1>2, <1>5, <1>7, <1>8, <2>1, <2>2
<1>18. RowInv'
  BY <1>1, <1>17, RowKept, SearchSays
<1> QED
  BY <1>13, <1>14, <1>15, <1>16, <1>18 DEF KeptInv

\* The deadline.
LEMMA ExpireStep ==
  ASSUME SearchInv, RowInv, Expire
  PROVE  KeptInv' /\ RowInv'
<1>1. /\ phase = "below" /\ question.timed /\ phase' = "back" /\ stopped' = TRUE /\ Same /\ table' = table /\ rows' = rows
      /\ over' = over /\ cursors' = cursors /\ values' = values /\ order' = order /\ todo' = todo /\ prefixes' = prefixes
      /\ replayed' = replayed
  BY DEF Expire, TurnBack, Same
<1>2. Way' = Way /\ Total' = Total
  BY <1>1, WaySame
<1>3. PICK n \in Nat : n = Len(order.path)
  BY <1>1, BetweenSays
<1>4. Depth = n /\ Depth' = n /\ Total = n /\ \A l \in 1..n : values[l] \in Nat
  BY <1>1, <1>3, BetweenSays DEF Depth
<1>5. ValuesInv'
  BY <1>1, <1>2, <1>3, <1>4, BetweenSays DEF ValuesInv
<1>6. CursorInv'
  <2>1. Keeps(Way, values, Way', values', Depth)
    BY <1>1, <1>2 DEF Keeps
  <2> QED
    BY <1>1, <1>4, <2>1, CursorKept, SearchSays
<1>7. TableInv'
  BY <1>1, TableKept, SearchSays
<1>8. StopInv'
  BY <1>1, SearchSays DEF StopInv
<1>9. RowInv'
  <2>1. PICK F, J : F = FitsIn(index, Triples) /\ J = RowsIn(index, Triples)
    OBVIOUS
  <2>2. Triples' = Triples /\ index' = index /\ question' = question
    BY <1>1 DEF Same, Triples
  <2>3. FitsIn(index, Triples)' = F /\ RowsIn(index, Triples)' = J
    BY <2>1, <2>2
  <2>4. Ledger(F, J, Past, table, rows, stopped, question.limit, question.timed)
    BY <2>1 DEF RowInv
  <2>5. Ledger(F, J, Past, table, rows, TRUE, question.limit, question.timed)
    BY <1>1, <2>4, LedgerTimed
  <2>6. Ledger(F, J, Past', table, rows, TRUE, question.limit, question.timed)
    BY <2>5, LedgerStopped
  <2>7. Ledger(F, J, Past', table', rows', stopped', question.limit', question.timed')
    BY <1>1, <2>2, <2>6
  <2> QED
    BY <2>3, <2>7 DEF RowInv
<1> QED
  BY <1>5, <1>6, <1>7, <1>8, <1>9 DEF KeptInv

\* The search has returned, or nothing happens.
LEMMA QuietStep ==
  ASSUME SearchInv, RowInv, Finish \/ UNCHANGED vars
  PROVE  KeptInv' /\ RowInv'
<1>1. /\ index' = index /\ question' = question /\ cursors' = cursors /\ values' = values /\ table' = table
      /\ stopped' = stopped /\ rows' = rows /\ plan' = plan /\ order' = order /\ phase' = phase /\ prefixes' = prefixes
      /\ todo' = todo /\ replayed' = replayed
      /\ (over' = over \/ (phase = "back" /\ Len(order.path) = 0))
  BY DEF Finish, vars, orderVars, searchVars, Level
<1>2. Way' = Way /\ Total' = Total /\ Triples' = Triples /\ Same /\ Depth' = Depth
  BY <1>1 DEF Way, Total, Triples, Same, Depth
<1>3. ValuesInv /\ TableInv /\ CursorInv /\ StopInv
  BY SearchSays
<1>4. ValuesInv'
  BY <1>1, <1>2, <1>3 DEF ValuesInv
<1>5. CursorInv'
  BY <1>1, <1>2, <1>3 DEF CursorInv
<1>6. TableInv'
  BY <1>1, <1>3, TableKept
<1>7. StopInv'
  <2>1. LastValue' = LastValue
    BY <1>1 DEF LastValue
  <2> QED
    BY <1>1, <1>3, <2>1 DEF StopInv
<1>8. RowInv'
  <2>1. \A f \in FitsIn(index, Triples) :
          IsPast(RowsIn(index, Triples)[f], Way', values', replayed', Total', phase')
            <=> IsPast(RowsIn(index, Triples)[f], Way, values, replayed, Total, phase)
    BY <1>1, <1>2
  <2> QED
    BY <1>1, <1>2, <1>3, <2>1, RowKept
<1> QED
  BY <1>4, <1>5, <1>6, <1>7, <1>8 DEF KeptInv

\* A forced level undone, when everything below has been come past.
LEMMA UndoForceStep ==
  ASSUME SearchInv, RowInv, UndoForce
  PROVE  KeptInv' /\ RowInv'
<1>1. /\ Undo /\ cursors' = UpAt(cursors, LastVar) /\ values' = WithoutLast(values)
      /\ Same /\ table' = table /\ rows' = rows /\ stopped' = stopped /\ over' = over
  BY DEF UndoForce, Same
<1>2. /\ phase = "back" /\ phase' = "back" /\ prefixes' = prefixes /\ replayed' = replayed - 1 /\ todo' = todo
      /\ order' = Finished(order) /\ replayed > 0 /\ Len(order.path) = replayed
  BY <1>1 DEF Undo, Level
<1>3. [Next]_vars
  BY DEF Next
<1>4. WayFacts /\ WayFacts'
  BY <1>3, OrderNext, SearchSays
<1>5. PICK n \in Nat, k \in Nat : n = Len(order.path) /\ n = replayed /\ n > 0 /\ k + 1 = n /\ k = n - 1
  <2>1. PICK n \in Nat : n = Len(order.path) /\ n = replayed /\ n > 0
    BY <1>2, BetweenSays
  <2>2. n - 1 \in Nat /\ (n - 1) + 1 = n
    BY <2>1
  <2> QED
    BY <2>1, <2>2
<1>6. Shorter(order.path, order'.path)
  BY <1>2, <1>5, FinishedPath, SearchSays
<1>7. Total = n /\ Len(order'.path) = k /\ Depth' = k /\ Total' = k /\ replayed' = k
  <2>1. Len(order'.path) = k
    BY <1>5, <1>6 DEF Shorter
  <2> QED
    BY <1>2, <1>4, <1>5, <2>1, BetweenSays DEF Depth, WayFacts
<1>8. PICK w, v, w2, v2 : w = Way /\ v = values /\ w2 = Way' /\ v2 = values'
  OBVIOUS
<1>9. \A l \in 1..k : w2[l] = w[l]
  <2>1. \A l \in 1..k : w2[l] = order'.path[l]
    BY <1>4, <1>7, <1>8 DEF WayFacts
  <2>2. \A l \in 1..n : w[l] = order.path[l]
    BY <1>4, <1>5, <1>8 DEF WayFacts
  <2> QED
    BY <1>5, <1>6, <2>1, <2>2 DEF Shorter
<1>10. /\ IsList(v) /\ Len(v) = n /\ Distinct(w, n) /\ LastVar = w[n]
       /\ \A l \in 1..n : v[l] \in Nat
       /\ AllLayered(index, Triples, cursors, w, v, n)
  BY <1>2, <1>5, <1>8, BetweenSays
<1>11. IsList(v2) /\ Len(v2) = k /\ \A l \in 1..k : v2[l] = v[l]
  BY <1>1, <1>5, <1>8, <1>10, ListWithoutLast
<1>12. Keeps(w, v, w2, v2, k)
  BY <1>9, <1>11 DEF Keeps
<1>13. ValuesInv'
  BY <1>5, <1>7, <1>8, <1>10, <1>11 DEF ValuesInv
<1>14. CursorInv'
  <2>1. LastVar = w[k + 1] /\ Distinct(w, k + 1) /\ AllLayered(index, Triples, cursors, w, v, k + 1)
    BY <1>5, <1>10
  <2>2. DOMAIN UpAt(cursors, w[k + 1]) = DOMAIN Triples /\ AllLayered(index, Triples, UpAt(cursors, w[k + 1]), w, v, k)
    BY <2>1, AllUp, SearchSays
  <2>3. DOMAIN cursors' = DOMAIN Triples /\ AllLayered(index, Triples, cursors', w, v, k)
    BY <1>1, <2>1, <2>2
  <2>4. AllLayered(index, Triples, cursors', w2, v2, k)
    BY <1>12, <2>3, AllSame
  <2>5. Triples' = Triples /\ index' = index
    BY <1>1 DEF Same, Triples
  <2> QED
    BY <1>7, <1>8, <2>3, <2>4, <2>5 DEF CursorInv
<1>15. TableInv'
  BY <1>1, <1>2, TableKept, SearchSays
<1>16. StopInv'
  BY <1>1, <1>2, SearchSays DEF StopInv
<1>17. ASSUME NEW f \in FitsIn(index, Triples)
       PROVE  IsPast(RowsIn(index, Triples)[f], Way', values', replayed', Total', phase')
                <=> IsPast(RowsIn(index, Triples)[f], Way, values, replayed, Total, phase)
  <2>1. PICK row : row = RowsIn(index, Triples)[f]
    OBVIOUS
  <2>2. IsPast(row, w2, v2, k, k, "back") /\ IsPast(row, w, v, n, n, "back")
    BY PastAll
  <2> QED
    BY <1>2, <1>5, <1>7, <1>8, <2>1, <2>2
<1>18. RowInv'
  BY <1>1, <1>17, RowKept, SearchSays
<1> QED
  BY <1>13, <1>14, <1>15, <1>16, <1>18 DEF KeptInv

\* A variable forced, to the value it was filed with.
LEMMA ForceDownStep ==
  ASSUME SearchInv, RowInv, ForceDown
  PROVE  KeptInv' /\ RowInv'
<1>1. /\ ForceVar /\ cursors' = DownAt(cursors, todo[1], values[Len(order.path) + 1])
      /\ Same /\ table' = table /\ rows' = rows /\ stopped' = stopped /\ over' = over /\ values' = values
  BY DEF ForceDown, Same, Level
<1>2. /\ phase = "replay" /\ phase' = (IF Len(todo) = 1 THEN "below" ELSE "replay")
      /\ prefixes' = prefixes /\ replayed' = replayed + 1 /\ todo' = Tail(todo)
  BY <1>1 DEF ForceVar
<1>3. [Next]_vars
  BY DEF Next
<1>4. WayFacts /\ WayFacts'
  BY <1>3, OrderNext, SearchSays
<1>5. PICK n \in Nat, m \in Nat : n = Len(order.path) /\ n = replayed /\ m = Len(todo) /\ m > 0
  BY <1>2, <1>4 DEF WayFacts
<1>6. Longer(order.path, order'.path, todo[1])
  BY <1>1, ForcePath, SearchSays
<1>7. IsList(todo)
  BY SearchSays DEF PathInv, TodoInv
<1>8. Len(todo') = m - 1 /\ \A i \in 1..(m - 1) : todo'[i] = todo[i + 1]
  BY <1>2, <1>5, <1>7, ListTail
<1>9. Len(order'.path) = n + 1 /\ order'.path[n + 1] = todo[1] /\ \A i \in 1..n : order'.path[i] = order.path[i]
  BY <1>5, <1>6 DEF Longer
<1>10. PICK N \in Nat : N = n + m
  OBVIOUS
<1>11. Total = N /\ Depth = n
  BY <1>2, <1>5, <1>10 DEF Total, Depth
<1>12. Total' = N /\ Depth' = n + 1
  <2>1. (n + 1) + (m - 1) = n + m
    OBVIOUS
  <2>2. phase' # "open"
    BY <1>2
  <2> QED
    BY <1>8, <1>9, <1>10, <2>1, <2>2 DEF Total, Depth
<1>13. PICK w, v, w2 : w = Way /\ v = values /\ w2 = Way'
  OBVIOUS
<1>14. \A l \in 1..N : w[l] = IF l <= n THEN order.path[l] ELSE todo[l - n]
  BY <1>5, <1>11, <1>13 DEF Way
<1>15. \A l \in 1..N : w2[l] = IF l <= n + 1 THEN order'.path[l] ELSE todo'[l - (n + 1)]
  BY <1>9, <1>12, <1>13 DEF Way
<1>16. \A l \in 1..N : w2[l] = w[l]
  <2> SUFFICES ASSUME NEW l \in 1..N
               PROVE  w2[l] = w[l]
    OBVIOUS
  <2>1. CASE l <= n
    BY <1>9, <1>14, <1>15, <2>1
  <2>2. CASE l = n + 1
    <3>1. l - n = 1 /\ ~(l <= n) /\ l <= n + 1
      BY <2>2
    <3>2. w[l] = todo[1]
      BY <1>14, <3>1
    <3>3. w2[l] = order'.path[n + 1]
      BY <1>15, <2>2, <3>1
    <3> QED
      BY <1>9, <3>2, <3>3
  <2>3. CASE l > n + 1
    <3>1. l - (n + 1) \in 1..(m - 1) /\ (l - (n + 1)) + 1 = l - n
      BY <1>10, <2>3
    <3>2. todo'[l - (n + 1)] = todo[l - n]
      BY <1>8, <3>1
    <3> QED
      BY <1>14, <1>15, <2>3, <3>2
  <2> QED
    BY <2>1, <2>2, <2>3
<1>17. /\ IsList(v) /\ Len(v) = N
       /\ \A l \in 1..N : v[l] \in Nat
  BY <1>2, <1>11, <1>13, SearchSays DEF ValuesInv
<1>18. n + 1 \in 1..N /\ n + 1 \in Nat
  BY <1>5, <1>10
<1>19. ValuesInv'
  BY <1>1, <1>12, <1>13, <1>17 DEF ValuesInv
<1>20. CursorInv'
  <2>1. todo[1] = w[n + 1]
    BY <1>9, <1>15, <1>16, <1>18
  <2>2. Distinct(w, N)
    BY <1>4, <1>11, <1>13 DEF WayFacts
  <2>3. Distinct(w, n + 1)
    BY <1>18, <2>2 DEF Distinct
  <2>4. AllLayered(index, Triples, cursors, w, v, n) /\ DOMAIN cursors = DOMAIN Triples
    BY <1>11, <1>13, SearchSays DEF CursorInv
  <2>5. v[n + 1] \in Nat
    BY <1>17, <1>18
  <2>6. /\ DOMAIN DownAt(cursors, w[n + 1], v[n + 1]) = DOMAIN Triples
        /\ AllLayered(index, Triples, DownAt(cursors, w[n + 1], v[n + 1]), w, v, n + 1)
    BY <2>3, <2>4, <2>5, AllDown
  <2>7. DOMAIN cursors' = DOMAIN Triples /\ AllLayered(index, Triples, cursors', w, v, n + 1)
    BY <1>1, <1>5, <1>13, <2>1, <2>6
  <2>8. Keeps(w, v, w2, v, n + 1)
    BY <1>16, <1>18 DEF Keeps
  <2>9. AllLayered(index, Triples, cursors', w2, v, n + 1)
    BY <1>18, <2>7, <2>8, AllSame
  <2>10. Triples' = Triples /\ index' = index
    BY <1>1 DEF Same, Triples
  <2> QED
    BY <1>1, <1>12, <1>13, <2>7, <2>9, <2>10 DEF CursorInv
<1>21. TableInv'
  BY <1>1, <1>2, TableKept, SearchSays
<1>22. ~stopped /\ ~over /\ StopInv'
  BY <1>1, <1>2, SearchSays DEF StopInv
<1>23. ASSUME NEW f \in FitsIn(index, Triples)
       PROVE  IsPast(RowsIn(index, Triples)[f], Way', values', replayed', Total', phase')
                <=> IsPast(RowsIn(index, Triples)[f], Way, values, replayed, Total, phase)
  <2>1. PICK row : row = RowsIn(index, Triples)[f]
    OBVIOUS
  <2>2. Keeps(w, v, w2, v, N)
    BY <1>16 DEF Keeps
  <2>3. Agrees(row, w2, v, N) <=> Agrees(row, w, v, N)
    BY <2>2, AgreesKept
  <2>4. IsPast(row, w, v, n, N, "replay") <=> ~Agrees(row, w, v, N)
    BY PastForced
  <2>5. IsPast(row, w2, v, n + 1, N, phase') <=> ~Agrees(row, w2, v, N)
    <3>1. CASE m = 1
      <4>1. phase' = "below" /\ n + 1 = N
        BY <1>2, <1>5, <1>10, <3>1
      <4>2. IsPast(row, w2, v, N, N, "below") <=> ~Agrees(row, w2, v, N)
        BY PastForced
      <4> QED
        BY <4>1, <4>2
    <3>2. CASE m # 1
      <4>1. phase' = "replay"
        BY <1>2, <1>5, <3>2
      <4>2. IsPast(row, w2, v, n + 1, N, "replay") <=> ~Agrees(row, w2, v, N)
        BY PastForced
      <4> QED
        BY <4>1, <4>2
    <3> QED
      BY <3>1, <3>2
  <2> QED
    BY <1>1, <1>2, <1>5, <1>11, <1>12, <1>13, <2>1, <2>3, <2>4, <2>5
<1>24. RowInv'
  BY <1>1, <1>23, RowKept, SearchSays
<1> QED
  BY <1>19, <1>20, <1>21, <1>22, <1>24 DEF KeptInv

\* A row has a number for each variable.
LEMMA RowIsNat ==
  ASSUME NEW idx, Holds(idx), NEW triples, IsPattern(triples), NEW f \in FitsIn(idx, triples), NEW x \in PatternVars(triples)
  PROVE  RowsIn(idx, triples)[f].at[x] \in Nat
<1>1. Places(triples, x) # {} /\ IsVariable(x)
  BY VarsAre
<1>2. PICK o \in Places(triples, x) : TRUE
  BY <1>1
<1>3. o[1] \in DOMAIN triples /\ o[2] \in Positions /\ triples[o[1]][o[2]] = x
  BY DEF Places
<1>4. RowsIn(idx, triples)[f].at[triples[o[1]][o[2]]] = MergedOf(idx)[f[o[1]]][o[2]] /\ MergedOf(idx)[f[o[1]]][o[2]] \in Nat
  BY <1>1, <1>3, RowSays
<1> QED
  BY <1>3, <1>4

\* A filed prefix is taken up: what it leads to is to come, everything else is past.
LEMMA TakeUpStep ==
  ASSUME SearchInv, RowInv, NEW entry \in table, TakeUp(entry)
  PROVE  KeptInv' /\ RowInv'
<1>1. /\ ~stopped /\ ~over /\ Resume(entry.path) /\ values' = entry.values /\ table' = table \ {entry}
      /\ Same /\ rows' = rows /\ stopped' = stopped /\ over' = over /\ cursors' = cursors
  BY DEF TakeUp, Same
<1>2. /\ phase = "back" /\ Len(order.path) = 0 /\ entry.path \in prefixes /\ todo' = entry.path /\ phase' = "replay"
      /\ order' = order /\ prefixes' = prefixes /\ replayed' = replayed
  BY <1>1 DEF Resume, Level
<1>3. Total = 0 /\ replayed = 0 /\ Depth = 0 /\ Depth' = 0
  BY <1>2, BetweenSays DEF Depth
<1>4. IsRoute(plan, entry.path)
  BY <1>2, Routes, SearchSays DEF PathInv
<1>5. IsList(entry.path)
  BY <1>4 DEF IsRoute
<1>6. PICK N \in Nat : N = Len(entry.path) /\ DOMAIN entry.path = 1..N
  BY <1>5, ListPlaces
<1>7. Total' = N
  <2>1. Len(order'.path) = 0 /\ Len(todo') = N
    BY <1>2, <1>6
  <2>2. 0 + N = N
    OBVIOUS
  <2> QED
    BY <2>1, <2>2 DEF Total
<1>8. PICK w2, v2 : w2 = Way' /\ v2 = values'
  OBVIOUS
<1>9. \A l \in 1..N : w2[l] = entry.path[l]
  <2>1. \A l \in 1..N : w2[l] = IF l <= 0 THEN order'.path[l] ELSE todo'[l - 0]
    BY <1>2, <1>7, <1>8 DEF Way
  <2> QED
    BY <1>2, <2>1
<1>10. IsList(v2) /\ Len(v2) = N /\ \A l \in 1..N : v2[l] \in Nat
  BY <1>1, <1>6, <1>8, SearchSays DEF TableInv
<1>11. ValuesInv'
  BY <1>7, <1>8, <1>10 DEF ValuesInv
<1>12. CursorInv'
  <2>1. Keeps(Way, values, Way', values', Depth)
    BY <1>3 DEF Keeps
  <2> QED
    BY <1>1, <1>3, <2>1, CursorKept, SearchSays
<1>13. TableInv'
  BY <1>1, <1>2, TableKept, SearchSays
<1>14. StopInv'
  BY <1>1, SearchSays DEF StopInv
<1>15. RowInv'
  <2>1. PICK F, J : F = FitsIn(index, Triples) /\ J = RowsIn(index, Triples)
    OBVIOUS
  <2>2. Triples' = Triples /\ index' = index /\ question' = question
    BY <1>1 DEF Same, Triples
  <2>3. FitsIn(index, Triples)' = F /\ RowsIn(index, Triples)' = J
    BY <2>1, <2>2
  <2>4. Past = F
    <3>1. \A f \in F : IsPast(J[f], Way, values, 0, 0, "back")
      BY PastAll
    <3> QED
      BY <1>2, <1>3, <2>1, <3>1 DEF Past
  <2>5. Ledger(F, J, F, table, rows, FALSE, question.limit, question.timed)
    BY <1>1, <2>1, <2>4, SearchSays DEF RowInv, StopInv
  <2>6. Ledger(F, J, NotUnder(F, J, entry), table \ {entry}, rows, FALSE, question.limit, question.timed)
    BY <2>5, LedgerTaken
  <2>7. Past' = {f \in F : IsPast(J[f], w2, v2, 0, N, "replay")}
    BY <1>2, <1>3, <1>7, <1>8, <2>3 DEF Past
  <2>8. \A f \in F : IsPast(J[f], w2, v2, 0, N, "replay") <=> ~Extends(J[f], entry)
    <3>1. \A f \in F : IsPast(J[f], w2, v2, 0, N, "replay") <=> ~Agrees(J[f], w2, v2, N)
      BY PastForced
    <3>2. \A f \in F : Agrees(J[f], w2, v2, N) <=> Extends(J[f], entry)
      BY <1>1, <1>6, <1>8, <1>9 DEF Agrees, Extends
    <3> QED
      BY <3>1, <3>2
  <2>9. Past' = NotUnder(F, J, entry)
    BY <2>7, <2>8 DEF NotUnder
  <2>10. stopped' = FALSE
    BY <1>1, SearchSays DEF StopInv
  <2>11. Ledger(F, J, Past', table', rows', stopped', question.limit', question.timed')
    BY <1>1, <2>2, <2>6, <2>9, <2>10
  <2> QED
    BY <2>3, <2>11 DEF RowInv
<1> QED
  BY <1>11, <1>12, <1>13, <1>14, <1>15 DEF KeptInv

\* A correlated search that has reached its search variable has its anchor bound above.
LEMMA AnchorAbove ==
  ASSUME SearchInv, phase = "open", question.memo = LastVar
  PROVE  AnchorBound
<1> SUFFICES ASSUME NEW arc \in question.arc
             PROVE  \E l \in 1..(Len(order.path) - 1) : order.path[l] = arc[2]
  BY DEF AnchorBound, Level
<1>1. PICK n \in Nat : n = Len(order.path) /\ n > 0
  BY OpenSays
<1>2. LastVar \in PatternVars(Triples) /\ LastVar = order.path[n]
  BY <1>1, OpenSays DEF LastVar, Level
<1>3. AsksSoundly(question) /\ Covers(plan, question)
  BY SearchSays DEF Still
<1>4. question.memo \in {0, arc[1]}
  BY <1>3, AsksAre
<1>5. LastVar # 0
  BY <1>2 DEF PatternVars
<1>6. order.path[n] = arc[1]
  BY <1>2, <1>4, <1>5
<1>7. DOMAIN order.path = 1..n
  <2>1. IsRoute(plan, order.path)
    BY Routes, SearchSays DEF PathInv
  <2> QED
    BY <1>1, <2>1, ListPlaces DEF IsRoute
<1>8. CASE arc \in plan.prereq
  <2>1. AnchorComesFirst
    BY InvSays, SearchSays
  <2> QED
    BY <1>1, <1>6, <1>7, <1>8, <2>1 DEF AnchorComesFirst
<1>9. CASE plan.free = {} /\ Follows(plan.lonely, arc[1], arc[2])
  <2>1. Cardinality(plan.free) = 0 /\ Tailed(plan, order.path) /\ Len(plan.lonely) \in Nat
    BY <1>9, PlanCounts, SearchSays, FS_EmptySet
  <2>2. n <= Len(plan.lonely) /\ \A i \in 1..n : order.path[i] = plan.lonely[i - 0]
    BY <1>1, <2>1 DEF Tailed
  <2>3. \A i \in 1..n : order.path[i] = plan.lonely[i]
    BY <2>2
  <2>4. n \in 1..Len(plan.lonely) /\ plan.lonely[n] = arc[1]
    BY <1>1, <1>6, <2>1, <2>2, <2>3
  <2>5. PICK j \in 1..(n - 1) : plan.lonely[j] = arc[2]
    BY <1>9, <2>4 DEF Follows
  <2> QED
    BY <1>1, <2>3, <2>5
<1> QED
  BY <1>3, <1>8, <1>9 DEF Covers

\* What is filed: a path and its values.
EntryOf(path, vals) == [path |-> path, values |-> vals]

\* The candidates of a level are filed: what they lead to is past.
LEMMA FileVisitStep ==
  ASSUME SearchInv, RowInv, NavGood, FileVisit
  PROVE  KeptInv' /\ RowInv'
<1>1. /\ phase = "open" /\ LastValue # None /\ question.memo = LastVar /\ replayed = 0
      /\ File /\ values' = WithLast(None)
      /\ Same /\ rows' = rows /\ stopped' = stopped /\ over' = over /\ cursors' = cursors
  BY DEF FileVisit, Same, Filing
<1>2. table' = Filed(ValuesFrom(cursors, LastVar, LastValue))
  BY <1>1, AnchorAbove DEF FileVisit
<1>3. phase' = phase /\ replayed' = replayed /\ todo' = todo /\ order' = order /\ prefixes' = prefixes \cup {order.path}
  BY <1>1 DEF File
<1>4. Way' = Way /\ Total' = Total
  BY <1>3, WaySame
<1>5. PICK n \in Nat, k \in Nat : n = Len(order.path) /\ n > 0 /\ k + 1 = n /\ k = n - 1
  <2>1. PICK n \in Nat : n = Len(order.path) /\ n > 0
    BY <1>1, OpenSays
  <2>2. n - 1 \in Nat /\ (n - 1) + 1 = n
    BY <2>1
  <2> QED
    BY <2>1, <2>2
<1>6. Total = n /\ Depth = k /\ Depth' = k
  BY <1>1, <1>3, <1>5, OpenSays DEF Depth
<1>7. PICK w, v, x, c, v2 : w = Way /\ v = values /\ x = LastVar /\ c = LastValue /\ v2 = values'
  OBVIOUS
<1>8. /\ \A l \in 1..n : v[l] \in Nat
      /\ IsList(v) /\ Len(v) = n /\ x = w[n] /\ c = v[n] /\ Distinct(w, n) /\ x \in PatternVars(Triples)
      /\ AllLayered(index, Triples, cursors, w, v, k)
  BY <1>1, <1>5, <1>7, OpenSays
<1>9. c \in Nat
  BY <1>5, <1>8
<1>10. Distinct(w, k) /\ \A j \in 1..k : w[j] # x
  BY <1>5, <1>8 DEF Distinct
<1>11. \A i \in DOMAIN Triples : Exact(index, cursors[i])
  BY SearchSays DEF NavGood
<1>12. PICK S : S = ValuesFrom(cursors, x, c)
  OBVIOUS
<1>13. /\ S = Rest(Offered(index, Triples, cursors, x), c)
       /\ \A f \in FitsIn(index, Triples) : Agrees(RowsIn(index, Triples)[f], w, v, k) =>
            /\ RowsIn(index, Triples)[f].at[x] \in Offered(index, Triples, cursors, x)
            /\ RowsIn(index, Triples)[f].at[x] \in Nat
  BY <1>8, <1>9, <1>10, <1>11, <1>12, SearchSays, NextValue
<1>14. S \subseteq Nat
  BY <1>13 DEF Rest, Offered
<1>15. \A a : LastSet(v, a) = WithLast(a)
  BY <1>7 DEF WithLast, LastSet
<1>16. \A a : /\ IsList(LastSet(v, a)) /\ Len(LastSet(v, a)) = n /\ LastSet(v, a)[n] = a
              /\ \A l \in 1..k : LastSet(v, a)[l] = v[l]
  BY <1>5, <1>8, ListWithLast
<1>17. v2 = LastSet(v, None)
  BY <1>1, <1>7, <1>15
<1>18. Keeps(w, v, w, v2, k)
  BY <1>16, <1>17 DEF Keeps
<1>19. PICK E : E = Entries(S)
  OBVIOUS
<1>20. table' = table \cup E
  BY <1>2, <1>7, <1>12, <1>19 DEF Filed
<1>21. E = {EntryOf(order.path, LastSet(v, a)) : a \in S}
  BY <1>15, <1>19 DEF Entries, EntryOf
<1>22. DOMAIN order.path = 1..n /\ \A l \in 1..n : order.path[l] = w[l]
  <2>1. IsRoute(plan, order.path)
    BY Routes, SearchSays DEF PathInv
  <2> QED
    BY <1>5, <1>7, <2>1, ListPlaces, SearchSays DEF IsRoute, WayFacts
<1>23. ValuesInv'
  <2>1. \A l \in 1..n : v2[l] \in Nat \/ (l = n /\ v2[l] = None)
    <3>1. \A l \in 1..n : l = n \/ l \in 1..k
      BY <1>5
    <3> QED
      BY <1>8, <1>16, <1>17, <3>1
  <2> QED
    BY <1>1, <1>3, <1>4, <1>6, <1>7, <1>16, <1>17, <2>1 DEF ValuesInv
<1>24. CursorInv'
  BY <1>1, <1>4, <1>5, <1>6, <1>7, <1>18, CursorKept, SearchSays
<1>25. TableInv'
  <2> SUFFICES ASSUME NEW e \in table'
               PROVE  /\ e.path \in prefixes' /\ IsList(e.values) /\ Len(e.values) = Len(e.path)
                      /\ \A l \in 1..Len(e.path) : e.values[l] \in Nat
    BY DEF TableInv
  <2>1. CASE e \in table
    BY <1>3, <2>1, SearchSays DEF TableInv
  <2>2. CASE e \in E
    <3>1. PICK a \in S : e = EntryOf(order.path, LastSet(v, a))
      BY <1>21, <2>2
    <3>2. e.path = order.path /\ e.values = LastSet(v, a) /\ a \in Nat
      BY <1>14, <3>1 DEF EntryOf
    <3>3. \A l \in 1..n : LastSet(v, a)[l] \in Nat
      <4>1. \A l \in 1..n : l = n \/ l \in 1..k
        BY <1>5
      <4> QED
        BY <1>8, <1>16, <3>2, <4>1
    <3> QED
      BY <1>3, <1>5, <1>16, <3>2, <3>3
  <2> QED
    BY <1>20, <2>1, <2>2
<1>26. ~stopped /\ StopInv'
  <2>1. ~stopped /\ ~over
    BY <1>1, SearchSays DEF StopInv
  <2> QED
    BY <1>1, <2>1, SearchSays DEF StopInv
<1>27. \A row : \A a \in S : Extends(row, EntryOf(order.path, LastSet(v, a))) <=>
                               Agrees(row, w, v, k) /\ row.at[w[n]] = a
  <2> SUFFICES ASSUME NEW row, NEW a \in S
               PROVE  Extends(row, EntryOf(order.path, LastSet(v, a))) <=>
                        Agrees(row, w, v, k) /\ row.at[w[n]] = a
    OBVIOUS
  <2>1. PICK s : s = LastSet(v, a)
    OBVIOUS
  <2>2. s[n] = a /\ \A l \in 1..k : s[l] = v[l]
    BY <1>16, <2>1
  <2>3. Extends(row, EntryOf(order.path, s)) <=> \A l \in 1..n : row.at[w[l]] = s[l]
    BY <1>22 DEF Extends, EntryOf
  <2>4. \A l \in 1..n : l = n \/ l \in 1..k
    BY <1>5
  <2>5. n \in 1..n /\ \A l \in 1..k : l \in 1..n
    BY <1>5
  <2> QED
    BY <2>1, <2>2, <2>3, <2>4, <2>5 DEF Agrees
<1>28. RowInv'
  <2>1. PICK F, J : F = FitsIn(index, Triples) /\ J = RowsIn(index, Triples)
    OBVIOUS
  <2>2. Triples' = Triples /\ index' = index /\ question' = question
    BY <1>1 DEF Same, Triples
  <2>3. FitsIn(index, Triples)' = F /\ RowsIn(index, Triples)' = J
    BY <2>1, <2>2
  <2>4. PICK C, D : C = Past /\ D = Past'
    OBVIOUS
  <2>5. C = {f \in F : IsPast(J[f], w, v, 0, n, "open")}
    BY <1>1, <1>6, <1>7, <2>1, <2>4 DEF Past
  <2>6. D = {f \in F : IsPast(J[f], w, v2, 0, n, "open")}
    BY <1>1, <1>3, <1>4, <1>6, <1>7, <2>3, <2>4 DEF Past
  <2>7. ASSUME NEW f \in F
        PROVE  /\ (f \in D /\ f \notin C) <=> Agrees(J[f], w, v, k) /\ J[f].at[w[n]] >= v[n]
               /\ f \in C => f \in D
    <3>1. PICK row : row = J[f]
      OBVIOUS
    <3>2. row.at[w[n]] \in Nat
      BY <1>8, <2>1, <3>1, RowIsNat, SearchSays
    <3>3. Keeps(w, v, w, v2, n - 1) /\ v2[n] = None /\ n >= 1
      BY <1>5, <1>16, <1>17, <1>18
    <3>4. /\ IsPast(row, w, v2, 0, n, "open") /\ ~IsPast(row, w, v, 0, n, "open")
               <=> Agrees(row, w, v, n - 1) /\ row.at[w[n]] >= v[n]
          /\ IsPast(row, w, v, 0, n, "open") => IsPast(row, w, v2, 0, n, "open")
      BY <1>8, <3>2, <3>3, PastFile
    <3> QED
      BY <1>5, <2>5, <2>6, <3>1, <3>4
  <2>8. C \subseteq D /\ D \subseteq F
    BY <2>5, <2>6, <2>7
  <2>9. ASSUME NEW f \in F
        PROVE  Pending(J[f], E) <=> f \in D /\ f \notin C
    <3>1. PICK row, a : row = J[f] /\ a = row.at[w[n]]
      OBVIOUS
    <3>2. Pending(row, E) <=> \E b \in S : Agrees(row, w, v, k) /\ a = b
      <4>1. Pending(row, E) <=> \E b \in S : Extends(row, EntryOf(order.path, LastSet(v, b)))
        BY <1>21 DEF Pending
      <4> QED
        BY <1>27, <3>1, <4>1
    <3>3. Agrees(row, w, v, k) => a \in Offered(index, Triples, cursors, x)
      BY <1>8, <1>13, <2>1, <3>1
    <3>4. Agrees(row, w, v, k) => (a \in S <=> a >= v[n])
      BY <1>8, <1>13, <3>3 DEF Rest
    <3> QED
      BY <2>7, <3>1, <3>2, <3>4
  <2>10. ASSUME NEW f \in F, NEW e1 \in E, NEW e2 \in E, Extends(J[f], e1), Extends(J[f], e2)
         PROVE  e1 = e2
    <3>1. PICK a \in S : e1 = EntryOf(order.path, LastSet(v, a))
      BY <1>21
    <3>2. PICK b \in S : e2 = EntryOf(order.path, LastSet(v, b))
      BY <1>21
    <3>3. J[f].at[w[n]] = a /\ J[f].at[w[n]] = b
      BY <1>27, <2>10, <3>1, <3>2
    <3> QED
      BY <3>1, <3>2, <3>3
  <2>11. stopped = FALSE /\ stopped' = FALSE
    BY <1>1, <1>26, SearchSays DEF StopInv
  <2>12. Ledger(F, J, C, table, rows, FALSE, question.limit, question.timed)
    BY <2>1, <2>4, <2>11 DEF RowInv
  <2>13. Ledger(F, J, D, table \cup E, rows, FALSE, question.limit, question.timed)
    BY <2>8, <2>9, <2>10, <2>12, LedgerFiled
  <2>14. Ledger(F, J, Past', table', rows', stopped', question.limit', question.timed')
    BY <1>1, <1>20, <2>2, <2>4, <2>11, <2>13
  <2> QED
    BY <2>3, <2>14 DEF RowInv
<1> QED
  BY <1>23, <1>24, <1>25, <1>26, <1>28 DEF KeptInv

(***************************************************************************)
(* The choices of a match.                                                 *)
(***************************************************************************)
\* One of each.
Picks(D, T) == {f \in [D -> UNION {T[i] : i \in D}] : \A i \in D : f[i] \in T[i]}

\* A function that picks one of each is such a choice.
LEMMA PicksHave ==
  ASSUME NEW D, NEW T, NEW f, f = [i \in D |-> f[i]], \A i \in D : f[i] \in T[i]
  PROVE  f \in Picks(D, T)
<1>1. \A i \in D : f[i] \in UNION {T[j] : j \in D}
  OBVIOUS
<1>2. f \in [D -> UNION {T[i] : i \in D}]
  BY <1>1
<1> QED
  BY <1>2 DEF Picks

\* And the other way.
LEMMA PicksSay ==
  ASSUME NEW D, NEW T, NEW f \in Picks(D, T)
  PROVE  f = [i \in D |-> f[i]] /\ \A i \in D : f[i] \in T[i]
BY DEF Picks

\* Choices of each, by way of a match of what is chosen from.
Through(b, c, D) == [i \in D |-> b[i][c[i]]]
Matching(b, D, S, T) == [c \in Picks(D, S) |-> Through(b, c, D)]

\* Such choices match one to one when what is chosen from does.
LEMMA PicksMatch ==
  ASSUME NEW D, NEW S, NEW T, NEW b, \A i \in D : b[i] \in Bijection(S[i], T[i])
  PROVE  Matching(b, D, S, T) \in Bijection(Picks(D, S), Picks(D, T))
<1>1. PICK H : H = Matching(b, D, S, T)
  OBVIOUS
<1>2. \A i \in D : /\ \A k \in S[i] : b[i][k] \in T[i]
                   /\ \A k, l \in S[i] : b[i][k] = b[i][l] => k = l
                   /\ \A t \in T[i] : \E k \in S[i] : b[i][k] = t
  <2> SUFFICES ASSUME NEW i \in D
               PROVE  /\ \A k \in S[i] : b[i][k] \in T[i]
                      /\ \A k, l \in S[i] : b[i][k] = b[i][l] => k = l
                      /\ \A t \in T[i] : \E k \in S[i] : b[i][k] = t
    OBVIOUS
  <2>1. b[i] \in Bijection(S[i], T[i])
    OBVIOUS
  <2> QED
    BY <2>1, Fun_BijectionProperties
<1>3. \A c \in Picks(D, S) : H[c] = Through(b, c, D)
  BY <1>1 DEF Matching
<1>4. ASSUME NEW c \in Picks(D, S)
      PROVE  H[c] \in Picks(D, T)
  <2>1. \A i \in D : c[i] \in S[i]
    BY PicksSay
  <2>2. PICK f : f = Through(b, c, D)
    OBVIOUS
  <2>3. \A i \in D : f[i] = b[i][c[i]]
    BY <2>2 DEF Through
  <2>4. f = [i \in D |-> f[i]]
    BY <2>2 DEF Through
  <2>5. f \in Picks(D, T)
    BY <1>2, <2>1, <2>3, <2>4, PicksHave
  <2> QED
    BY <1>3, <2>2, <2>5
<1>5. ASSUME NEW c \in Picks(D, S), NEW d \in Picks(D, S), H[c] = H[d]
      PROVE  c = d
  <2>1. \A i \in D : c[i] \in S[i] /\ d[i] \in S[i]
    BY PicksSay
  <2>2. \A i \in D : b[i][c[i]] = b[i][d[i]]
    <3>1. Through(b, c, D) = Through(b, d, D)
      BY <1>3, <1>5
    <3> QED
      BY <3>1 DEF Through
  <2>3. \A i \in D : c[i] = d[i]
    BY <1>2, <2>1, <2>2
  <2> QED
    BY <2>3, PicksSay
<1>6. ASSUME NEW f \in Picks(D, T)
      PROVE  \E c \in Picks(D, S) : H[c] = f
  <2>1. f = [i \in D |-> f[i]] /\ \A i \in D : f[i] \in T[i]
    BY PicksSay
  <2>2. PICK c : c = [i \in D |-> CHOOSE k \in S[i] : b[i][k] = f[i]]
    OBVIOUS
  <2>3. \A i \in D : c[i] \in S[i] /\ b[i][c[i]] = f[i]
    BY <1>2, <2>1, <2>2
  <2>4. c = [i \in D |-> c[i]]
    BY <2>2
  <2>5. c \in Picks(D, S)
    BY <2>3, <2>4, PicksHave
  <2>6. Through(b, c, D) = f
    BY <2>1, <2>3 DEF Through
  <2> QED
    BY <1>3, <2>5, <2>6
<1>7. H = [c \in Picks(D, S) |-> H[c]]
  BY <1>1 DEF Matching
<1>8. H \in [Picks(D, S) -> Picks(D, T)]
  BY <1>4, <1>7
<1> QED
  BY <1>1, <1>5, <1>6, <1>8, Fun_IsBij

\* What is one to one with something finite is finite, and has as many members.
LEMMA MatchFinite ==
  ASSUME NEW S, NEW T, NEW h \in Bijection(S, T), IsFiniteSet(T)
  PROVE  IsFiniteSet(S) /\ Cardinality(S) = Cardinality(T)
<1>1. h \in Injection(S, T) /\ h \in Surjection(S, T)
  BY DEF Bijection
<1> QED
  BY <1>1, FS_Injection

\* What some rows match.
Taking(h, S) == {h[s] : s \in S}

\* They make the bag of the rows of what they match, which are as many.
LEMMA RowsMatch ==
  ASSUME NEW S, NEW T, NEW h \in Bijection(S, T), IsFiniteSet(T), NEW R \in SUBSET S, NEW g, NEW J,
         DOMAIN g = R, \A s \in R : g[s] = J[h[s]]
  PROVE  /\ BagOf(g) = RowsOf(Taking(h, R), J)
         /\ Taking(h, R) \subseteq T /\ IsFiniteSet(R) /\ Cardinality(Taking(h, R)) = Cardinality(R)
<1>1. h \in [S -> T] /\ \A s, t \in S : h[s] = h[t] => s = t
  BY Fun_BijectionProperties
<1>2. PICK K : K = Taking(h, R)
  OBVIOUS
<1>3. K \subseteq T /\ (\A s \in R : h[s] \in K) /\ \A t \in K : \E s \in R : h[s] = t
  BY <1>1, <1>2 DEF Taking
<1>4. IsFiniteSet(R)
  BY MatchFinite, FS_Subset
<1>5. PICK k : k = [s \in R |-> h[s]]
  OBVIOUS
<1>6. k \in [R -> K] /\ (\A s, t \in R : k[s] = k[t] => s = t) /\ \A t \in K : \E s \in R : k[s] = t
  BY <1>1, <1>3, <1>5
<1>7. k \in Bijection(R, K)
  BY <1>6, Fun_IsBij
<1>8. Cardinality(K) = Cardinality(R)
  <2>1. ExistsBijection(R, K)
    BY <1>7 DEF ExistsBijection
  <2> QED
    BY <1>4, <2>1, FS_Bijection
<1>9. BagOf(g) = RowsOf(K, J)
  <2>1. PICK j : j = [t \in K |-> J[t]]
    OBVIOUS
  <2>2. DOMAIN j = K /\ \A s \in R : g[s] = j[k[s]]
    BY <1>3, <1>5, <2>1
  <2>3. BagOf(g) = BagOf(j)
    BY <1>4, <1>7, <2>2, BagMoved
  <2> QED
    BY <2>1, <2>3 DEF RowsOf
<1> QED
  BY <1>2, <1>3, <1>4, <1>8, <1>9

\* A variable where it stands is one of the pattern.
LEMMA VarStands ==
  ASSUME NEW triples, IsPattern(triples), NEW i \in DOMAIN triples, NEW p \in Positions, IsVariable(triples[i][p])
  PROVE  triples[i][p] \in PatternVars(triples)
<1>1. triples[i][p] \in Nat
  BY VarsAre
<1>2. triples[i][p] \notin 0..100
  BY <1>1 DEF IsVariable
<1> QED
  BY <1>2 DEF PatternVars

\* A path with every variable among its first.
Reaches(path, n, V) == \A x \in V : \E l \in 1..n : path[l] = x

\* With every variable bound nothing is free.
LEMMA AllFixed ==
  ASSUME NEW idx, NEW triples, IsPattern(triples), NEW curs, NEW path, NEW vals, NEW n \in Nat,
         AllLayered(idx, triples, curs, path, vals, n),
         Reaches(path, n, PatternVars(triples)), NEW i \in DOMAIN triples
  PROVE  Free(curs[i]) = {}
<1>1. Free(curs[i]) = Positions \ Bound(triples[i], path, n)
  BY LayerSays DEF AllLayered
<1>2. ASSUME NEW p \in Positions
      PROVE  p \in Bound(triples[i], path, n)
  <2>1. CASE ~IsVariable(triples[i][p])
    BY <2>1 DEF Bound, Constants
  <2>2. CASE IsVariable(triples[i][p])
    <3>1. triples[i][p] \in PatternVars(triples)
      BY <2>2, VarStands
    <3>2. \E l \in 1..n : path[l] = triples[i][p]
      BY <3>1 DEF Reaches
    <3> QED
      BY <3>2 DEF Bound
  <2> QED
    BY <2>1, <2>2
<1> QED
  BY <1>1, <1>2

\* The edges that stand in the index and agree with what a cursor has fixed.
StandingUnder(idx, cur) == StandingIn(idx) \cap Under(MergedOf(idx), cur)

\* An exact cursor with nothing free lists each of them once, under its name.
LEMMA EdgesMatch ==
  ASSUME NEW idx, Holds(idx), NEW cur, Exact(idx, cur), Free(cur) = {}
  PROVE  \E h \in Bijection(DOMAIN Eids(idx, cur), StandingUnder(idx, cur)) :
            \A s \in DOMAIN Eids(idx, cur) : MergedOf(idx)[h[s]][4] = Eids(idx, cur)[s]
<1>1. PICK e, g : e = Eids(idx, cur) /\ g = EdgeOf(idx, cur)
  OBVIOUS
<1>2. e \in Seq(Nat) /\ BagOf(e) = BagOf(g)
  BY <1>1 DEF Exact
<1>3. IsFiniteSet(DOMAIN e)
  BY <1>2, PlacesFinite
<1>4. DOMAIN g = StandingUnder(idx, cur) /\ \A k \in StandingUnder(idx, cur) : g[k] = MergedOf(idx)[k][4]
  BY <1>1 DEF EdgeOf, StandingUnder
<1>5. IsFiniteSet(DOMAIN g)
  <2>1. MergedOf(idx) \in Seq([1..4 -> Nat])
    BY MergedIs
  <2>2. IsFiniteSet(DOMAIN MergedOf(idx))
    BY <2>1, PlacesFinite
  <2>3. StandingUnder(idx, cur) \subseteq DOMAIN MergedOf(idx)
    BY DEF StandingUnder, StandingIn
  <2> QED
    BY <1>4, <2>2, <2>3, FS_Subset
<1>6. PICK h \in Bijection(DOMAIN e, DOMAIN g) : \A s \in DOMAIN e : g[h[s]] = e[s]
  BY <1>2, <1>3, <1>5, SameBag
<1>7. h \in [DOMAIN e -> DOMAIN g]
  BY <1>6, Fun_BijectionProperties
<1>8. \A s \in DOMAIN e : MergedOf(idx)[h[s]][4] = e[s]
  BY <1>4, <1>6, <1>7
<1> QED
  BY <1>1, <1>4, <1>6, <1>8

\* The choices that fit and have the values of the path.
Reached(F, J, path, vals, n) == {f \in F : Agrees(J[f], path, vals, n)}

\* Once every variable is on the path, those are the picks of the edges its cursors list.
LEMMA ReachedArePicks ==
  ASSUME NEW idx, Holds(idx), NEW triples, IsPattern(triples), NEW curs, NEW path, NEW vals, NEW n \in Nat,
         AllLayered(idx, triples, curs, path, vals, n), \A j \in 1..n : path[j] \in PatternVars(triples),
         \A x \in PatternVars(triples) : \E l \in 1..n : path[l] = x,
         NEW T, \A i \in DOMAIN triples : T[i] = StandingUnder(idx, curs[i])
  PROVE  Reached(FitsIn(idx, triples), RowsIn(idx, triples), path, vals, n) = Picks(DOMAIN triples, T)
<1>1. PICK M : M = MergedOf(idx)
  OBVIOUS
<1>2. \A j \in 1..n : IsVariable(path[j])
  BY VarsAre
<1>3. ASSUME NEW f \in FitsIn(idx, triples), Agrees(RowsIn(idx, triples)[f], path, vals, n)
      PROVE  f \in Picks(DOMAIN triples, T)
  <2>1. \A i \in DOMAIN triples : f[i] \in T[i]
    BY <1>2, <1>3, AgreesSays DEF StandingUnder
  <2>2. f = [i \in DOMAIN triples |-> f[i]]
    BY DEF FitsIn
  <2> QED
    BY <2>1, <2>2, PicksHave
<1>4. ASSUME NEW f \in Picks(DOMAIN triples, T)
      PROVE  f \in FitsIn(idx, triples) /\ Agrees(RowsIn(idx, triples)[f], path, vals, n)
  <2>1. f = [i \in DOMAIN triples |-> f[i]] /\ \A i \in DOMAIN triples : f[i] \in StandingIn(idx) /\ f[i] \in Under(M, curs[i])
    BY <1>1, PicksSay DEF StandingUnder
  <2>2. f \in [DOMAIN triples -> StandingIn(idx)]
    BY <2>1
  <2>3. ASSUME NEW i \in DOMAIN triples, NEW p \in Positions
        PROVE  /\ ~IsVariable(triples[i][p]) => M[f[i]][p] = triples[i][p]
               /\ \A j \in 1..n : path[j] = triples[i][p] => M[f[i]][p] = vals[j]
    <3>1. AgreesWith(M[f[i]], curs[i])
      BY <2>1 DEF Under
    <3>2. Layered(triples[i], curs[i], CursorAt(idx, triples[i]), path, vals, n)
      BY DEF AllLayered
    <3> QED
      BY <3>1, <3>2, LayerSays
  <2>4. ASSUME NEW i \in DOMAIN triples, NEW j \in DOMAIN triples, NEW p \in Positions, NEW q \in Positions,
               triples[i][p] = triples[j][q]
        PROVE  M[f[i]][p] = M[f[j]][q]
    <3>1. CASE ~IsVariable(triples[i][p])
      BY <2>3, <2>4, <3>1
    <3>2. CASE IsVariable(triples[i][p])
      <4>1. PICK l \in 1..n : path[l] = triples[i][p]
        BY <3>2, VarStands
      <4> QED
        BY <2>3, <2>4, <4>1
    <3> QED
      BY <3>1, <3>2
  <2>5. f \in FitsIn(idx, triples)
    BY <1>1, <2>2, <2>3, <2>4 DEF FitsIn, ConsistentIn
  <2>6. ASSUME NEW l \in 1..n
        PROVE  RowsIn(idx, triples)[f].at[path[l]] = vals[l]
    <3>1. Places(triples, path[l]) # {}
      BY VarsAre
    <3>2. PICK o \in Places(triples, path[l]) : TRUE
      BY <3>1
    <3>3. o[1] \in DOMAIN triples /\ o[2] \in Positions /\ triples[o[1]][o[2]] = path[l]
      BY DEF Places
    <3>4. RowsIn(idx, triples)[f].at[triples[o[1]][o[2]]] = M[f[o[1]]][o[2]]
      BY <1>1, <1>2, <2>5, <3>3, RowSays
    <3>5. M[f[o[1]]][o[2]] = vals[l]
      BY <2>3, <3>3
    <3> QED
      BY <3>3, <3>4, <3>5
  <2> QED
    BY <2>5, <2>6 DEF Agrees
<1> QED
  BY <1>3, <1>4 DEF Reached

\* The values bound are those of the path.
LEMMA BoundAre ==
  ASSUME NEW n \in Nat, Len(values) = n, DOMAIN values = 1..n,
         \A l \in 1..n : Way[l] = order.path[l], \A x \in PatternVars(Triples) : \E l \in 1..n : Way[l] = x,
         Distinct(Way, n), NEW row, Agrees(row, Way, values, n), row.at = [x \in PatternVars(Triples) |-> row.at[x]]
  PROVE  BoundValues = row.at
<1>1. PICK V : V = PatternVars(Triples)
  OBVIOUS
<1>2. ASSUME NEW x \in V
      PROVE  values[CHOOSE l \in DOMAIN values : order.path[l] = x] = row.at[x]
  <2>1. PICK l : l = CHOOSE k \in DOMAIN values : order.path[k] = x
    OBVIOUS
  <2>2. \E k \in DOMAIN values : order.path[k] = x
    BY <1>1
  <2>3. l \in 1..n /\ order.path[l] = x
    BY <2>1, <2>2
  <2>4. row.at[Way[l]] = values[l] /\ Way[l] = x
    BY <2>3 DEF Agrees
  <2> QED
    BY <2>1, <2>4
<1>3. PICK bound, at : bound = BoundValues /\ at = row.at
  OBVIOUS
<1>4. bound = [x \in V |-> values[CHOOSE l \in DOMAIN values : order.path[l] = x]]
  BY <1>1, <1>3 DEF BoundValues
<1>5. \A x \in V : bound[x] = at[x]
  BY <1>2, <1>3, <1>4
<1>6. bound = [x \in V |-> bound[x]]
  BY <1>4
<1>7. at = [x \in V |-> at[x]]
  BY <1>1, <1>3
<1>8. bound = at
  BY <1>5, <1>6, <1>7
<1> QED
  BY <1>3, <1>8

\* The row of a choice.
LEMMA RowFields ==
  ASSUME NEW idx, NEW triples, NEW f \in FitsIn(idx, triples)
  PROVE  /\ RowsIn(idx, triples)[f] = [edges |-> [i \in DOMAIN triples |-> MergedOf(idx)[f[i]][4]],
                                       at |-> RowsIn(idx, triples)[f].at]
         /\ RowsIn(idx, triples)[f].at = [x \in PatternVars(triples) |-> RowsIn(idx, triples)[f].at[x]]
<1>1. PICK e, a : /\ e = [i \in DOMAIN triples |-> MergedOf(idx)[f[i]][4]]
                  /\ a = [x \in PatternVars(triples) |->
                            LET o == CHOOSE o \in Places(triples, x) : TRUE IN MergedOf(idx)[f[o[1]]][o[2]]]
  OBVIOUS
<1>2. RowsIn(idx, triples)[f] = [edges |-> e, at |-> a]
  BY <1>1 DEF RowsIn, RowIn
<1>3. a = [x \in PatternVars(triples) |-> a[x]]
  BY <1>1
<1> QED
  BY <1>1, <1>2, <1>3

\* A match of edges.
Suits(h, list, S, M) == h \in Bijection(DOMAIN list, S) /\ \A s \in DOMAIN list : M[h[s]][4] = list[s]

\* The edges listed for a row to match, and what is made of them.
MatchLists == [i \in DOMAIN Triples |-> Eids(index, cursors[i])]
Matches ==
  /\ IsFiniteSet(EdgeChoices(MatchLists))
  /\ \A R \in SUBSET EdgeChoices(MatchLists) :
        \E K \in SUBSET Reached(FitsIn(index, Triples), RowsIn(index, Triples), Way, values, Len(order.path)) :
           /\ BagOf([c \in R |-> RowOf(MatchLists, c)]) = RowsOf(K, RowsIn(index, Triples))
           /\ IsFiniteSet(R) /\ Cardinality(K) = Cardinality(R)
  /\ Cardinality(EdgeChoices(MatchLists))
       = Cardinality(Reached(FitsIn(index, Triples), RowsIn(index, Triples), Way, values, Len(order.path)))

\* With every variable bound, the rows to add are those of the choices that have their values.
LEMMA MatchRows ==
  ASSUME SearchInv, NavGood, phase = "below", Len(order.path) = Size
  PROVE  Matches
<1>1. PICK n \in Nat : n = Len(order.path)
  BY BetweenSays
<1>2. PICK w, v, D, F, J, M, lists : /\ w = Way /\ v = values /\ D = DOMAIN Triples
                                     /\ F = FitsIn(index, Triples) /\ J = RowsIn(index, Triples)
                                     /\ M = MergedOf(index) /\ lists = MatchLists
  OBVIOUS
<1>3. /\ Len(v) = n /\ IsList(v) /\ Distinct(w, n)
      /\ \A l \in 1..n : w[l] \in PatternVars(Triples)
      /\ AllLayered(index, Triples, cursors, w, v, n)
  BY <1>1, <1>2, BetweenSays
<1>4. /\ \A l \in 1..n : w[l] = order.path[l]
      /\ \A x \in PatternVars(Triples) : \E l \in 1..n : w[l] = x
  BY <1>1, <1>2, SearchSays DEF WayFacts
<1>5. PICK S, T : S = [i \in D |-> DOMAIN lists[i]] /\ T = [i \in D |-> StandingUnder(index, cursors[i])]
  OBVIOUS
<1>6. DOMAIN lists = D /\ \A i \in D : lists[i] = Eids(index, cursors[i])
  BY <1>2 DEF MatchLists
<1>7. \A i \in D : \E h : Suits(h, lists[i], T[i], M)
  <2> SUFFICES ASSUME NEW i \in D
               PROVE  \E h : Suits(h, lists[i], T[i], M)
    OBVIOUS
  <2>1. Exact(index, cursors[i])
    BY <1>2, SearchSays DEF NavGood
  <2>2. Free(cursors[i]) = {}
    <3>1. IsPattern(Triples) /\ i \in DOMAIN Triples /\ AllLayered(index, Triples, cursors, w, v, n) /\ Reaches(w, n, PatternVars(Triples))
      BY <1>2, <1>3, <1>4, SearchSays DEF Reaches
    <3> QED
      BY <3>1, AllFixed
  <2>3. PICK h \in Bijection(DOMAIN Eids(index, cursors[i]), StandingUnder(index, cursors[i])) :
          \A s \in DOMAIN Eids(index, cursors[i]) : MergedOf(index)[h[s]][4] = Eids(index, cursors[i])[s]
    BY <2>1, <2>2, EdgesMatch, SearchSays
  <2> QED
    BY <1>2, <1>5, <1>6, <2>3 DEF Suits
<1>8. PICK b : b = [i \in D |-> CHOOSE h : Suits(h, lists[i], T[i], M)]
  OBVIOUS
<1>9. \A i \in D : Suits(b[i], lists[i], T[i], M)
  BY <1>7, <1>8
<1>10. \A i \in D : S[i] = DOMAIN lists[i] /\ b[i] \in Bijection(S[i], T[i])
  BY <1>5, <1>9 DEF Suits
<1>11. PICK H : H = Matching(b, D, S, T)
  OBVIOUS
<1>12. H \in Bijection(Picks(D, S), Picks(D, T))
  BY <1>10, <1>11, PicksMatch
<1>13. EdgeChoices(lists) = Picks(D, S)
  <2>1. UNION {DOMAIN lists[i] : i \in D} = UNION {S[i] : i \in D}
    BY <1>10
  <2> QED
    BY <1>6, <1>10, <2>1 DEF EdgeChoices, Picks
<1>14. Reached(F, J, w, v, n) = Picks(D, T)
  BY <1>2, <1>3, <1>4, <1>5, ReachedArePicks, SearchSays
<1>15. IsFiniteSet(Picks(D, T))
  <2>1. IsFiniteSet(F)
    BY <1>2, FitsFinite, SearchSays
  <2>2. Reached(F, J, w, v, n) \subseteq F
    BY DEF Reached
  <2> QED
    BY <1>14, <2>1, <2>2, FS_Subset
<1>16. ASSUME NEW c \in Picks(D, S)
       PROVE  RowOf(lists, c) = J[H[c]]
  <2>1. PICK f : f = Through(b, c, D)
    OBVIOUS
  <2>2. H[c] = f
    BY <1>11, <2>1 DEF Matching
  <2>3. \A i \in D : f[i] = b[i][c[i]] /\ c[i] \in DOMAIN lists[i]
    BY <1>10, <2>1, PicksSay DEF Through
  <2>4. \A i \in D : lists[i][c[i]] = M[f[i]][4]
    BY <1>9, <2>3 DEF Suits
  <2>5. H[c] \in Picks(D, T)
    BY <1>12, Fun_BijectionProperties
  <2>6. f \in F /\ Agrees(J[f], w, v, n)
    BY <1>14, <2>2, <2>5 DEF Reached
  <2>7. J[f] = [edges |-> [i \in D |-> M[f[i]][4]], at |-> J[f].at] /\ J[f].at = [x \in PatternVars(Triples) |-> J[f].at[x]]
    BY <1>2, <2>6, RowFields
  <2>8. DOMAIN v = 1..n
    BY <1>3, ListPlaces
  <2>9. BoundValues = J[f].at
    BY <1>2, <1>3, <1>4, <2>6, <2>7, <2>8, BoundAre
  <2>10. [i \in DOMAIN lists |-> lists[i][c[i]]] = [i \in D |-> M[f[i]][4]]
    BY <1>6, <2>4
  <2>11. RowOf(lists, c) = [edges |-> [i \in D |-> M[f[i]][4]], at |-> J[f].at]
    BY <2>9, <2>10 DEF RowOf
  <2> QED
    BY <2>2, <2>7, <2>11
<1>17. IsFiniteSet(Picks(D, S)) /\ Cardinality(Picks(D, S)) = Cardinality(Picks(D, T))
  BY <1>12, <1>15, MatchFinite
<1>18. ASSUME NEW R \in SUBSET Picks(D, S)
       PROVE  \E K \in SUBSET Picks(D, T) :
                 /\ BagOf([c \in R |-> RowOf(lists, c)]) = RowsOf(K, J)
                 /\ IsFiniteSet(R) /\ Cardinality(K) = Cardinality(R)
  <2>1. PICK g : g = [c \in R |-> RowOf(lists, c)]
    OBVIOUS
  <2>2. DOMAIN g = R /\ \A c \in R : g[c] = J[H[c]]
    BY <1>16, <2>1
  <2>3. /\ BagOf(g) = RowsOf(Taking(H, R), J)
        /\ Taking(H, R) \subseteq Picks(D, T) /\ IsFiniteSet(R) /\ Cardinality(Taking(H, R)) = Cardinality(R)
    BY <1>12, <1>15, <2>2, RowsMatch
  <2> QED
    BY <2>1, <2>3
<1> QED
  BY <1>1, <1>2, <1>13, <1>14, <1>17, <1>18 DEF Matches

\* A row for each combination of edges, or for as many as there is room for.
LEMMA MatchStep ==
  ASSUME SearchInv, RowInv, NavGood, Match
  PROVE  KeptInv' /\ RowInv'
<1>1. /\ phase = "below" /\ Len(order.path) = Size /\ phase' = "back"
      /\ order' = order /\ todo' = todo /\ prefixes' = prefixes /\ replayed' = replayed
      /\ Same /\ table' = table /\ over' = over /\ cursors' = cursors /\ values' = values
  BY DEF Match, TurnBack, Same, Level
<1>2. PICK R \in kSubset(Room(Cardinality(EdgeChoices(MatchLists))), EdgeChoices(MatchLists)) :
        rows' = rows (+) BagOf([c \in R |-> RowOf(MatchLists, c)])
  BY DEF Match, MatchLists
<1>3. stopped' = LimitReached(rows')
  BY DEF Match
<1>4. Way' = Way /\ Total' = Total
  BY <1>1, WaySame
<1>5. PICK n \in Nat, r \in Nat : n = Len(order.path) /\ r = replayed /\ r <= n
  BY <1>1, BetweenSays
<1>6. Depth = n /\ Depth' = n /\ Total = n /\ \A l \in 1..n : values[l] \in Nat
  BY <1>1, <1>5, BetweenSays DEF Depth
<1>7. ValuesInv'
  BY <1>1, <1>4, <1>5, <1>6, BetweenSays DEF ValuesInv
<1>8. CursorInv'
  <2>1. Keeps(Way, values, Way', values', Depth)
    BY <1>1, <1>4 DEF Keeps
  <2> QED
    BY <1>1, <1>6, <2>1, CursorKept, SearchSays
<1>9. TableInv'
  BY <1>1, TableKept, SearchSays
<1>10. ~stopped /\ ~over
  BY <1>1, SearchSays DEF StopInv
<1>11. StopInv'
  BY <1>1, <1>3, <1>10 DEF StopInv, LimitReached
<1>12. RowInv'
  <2>1. PICK F, J, C, w, v : /\ F = FitsIn(index, Triples) /\ J = RowsIn(index, Triples) /\ C = Past
                             /\ w = Way /\ v = values
    OBVIOUS
  <2>2. Triples' = Triples /\ index' = index /\ question' = question
    BY <1>1 DEF Same, Triples
  <2>3. FitsIn(index, Triples)' = F /\ RowsIn(index, Triples)' = J
    BY <2>1, <2>2
  <2>4. PICK New : New = Reached(F, J, w, v, n)
    OBVIOUS
  <2>5. Matches
    BY <1>1, MatchRows
  <2>6. R \in SUBSET EdgeChoices(MatchLists) /\ Cardinality(R) = Room(Cardinality(EdgeChoices(MatchLists)))
    BY <1>2 DEF kSubset
  <2>7. Cardinality(EdgeChoices(MatchLists)) = Cardinality(New)
    BY <1>5, <2>1, <2>4, <2>5 DEF Matches
  <2>8. PICK K \in SUBSET New : BagOf([c \in R |-> RowOf(MatchLists, c)]) = RowsOf(K, J) /\ Cardinality(K) = Cardinality(R)
    BY <1>5, <2>1, <2>4, <2>5, <2>6 DEF Matches
  <2>9. PICK limit, timed : limit = question.limit /\ timed = question.timed
    OBVIOUS
  <2>10. Cardinality(K) = IF limit = 0 THEN Cardinality(New) ELSE AtMost(Cardinality(New), limit - BagCardinality(rows))
    BY <2>6, <2>7, <2>8, <2>9 DEF Room
  <2>11. rows' = rows (+) RowsOf(K, J)
    BY <1>2, <2>8
  <2>12. limit \in Nat /\ IsFiniteSet(F)
    BY <2>1, <2>9, AsksAre, FitsFinite, SearchSays DEF Still
  <2>13. C = {f \in F : IsPast(J[f], w, v, r, n, "below")}
    BY <1>1, <1>5, <1>6, <2>1 DEF Past
  <2>14. Past' = {f \in F : IsPast(J[f], w, v, r, n, "back")}
    BY <1>1, <1>4, <1>5, <1>6, <2>1, <2>3 DEF Past
  <2>15. ASSUME NEW f \in F
         PROVE  /\ IsPast(J[f], w, v, r, n, "back") <=> IsPast(J[f], w, v, r, n, "below") \/ f \in New
                /\ f \in New => ~IsPast(J[f], w, v, r, n, "below")
    <3>1. PICK row : row = J[f]
      OBVIOUS
    <3>2. \A l \in 1..n : v[l] \in Nat
      BY <1>6, <2>1
    <3>3. /\ IsPast(row, w, v, r, n, "back") <=> IsPast(row, w, v, r, n, "below") \/ Agrees(row, w, v, n)
          /\ Agrees(row, w, v, n) => ~IsPast(row, w, v, r, n, "below")
      BY <1>5, <3>2, PastMatch
    <3> QED
      BY <2>4, <3>1, <3>3 DEF Reached
  <2>16. New \subseteq F /\ C \subseteq F
    BY <2>4, <2>13 DEF Reached
  <2>17. New \cap C = {} /\ Past' = C \cup New
    BY <2>13, <2>14, <2>15, <2>16
  <2>18. Ledger(F, J, C, table, rows, FALSE, limit, timed)
    <3>1. stopped = FALSE
      BY <1>10, SearchSays DEF StopInv
    <3> QED
      BY <2>1, <2>9, <3>1 DEF RowInv
  <2>19. Ledger(F, J, C \cup New, table, rows', limit > 0 /\ BagCardinality(rows') >= limit, limit, timed)
    BY <2>10, <2>11, <2>12, <2>16, <2>17, <2>18, LedgerMatched
  <2>20. stopped' = (limit > 0 /\ BagCardinality(rows') >= limit)
    BY <1>3, <2>9 DEF LimitReached
  <2>21. Ledger(F, J, Past', table', rows', stopped', question.limit', question.timed')
    BY <1>1, <2>2, <2>9, <2>17, <2>19, <2>20
  <2> QED
    BY <2>3, <2>21 DEF RowInv
<1> QED
  BY <1>7, <1>8, <1>9, <1>11, <1>12 DEF KeptInv

\* Every step keeps the account.
LEMMA JoinStep ==
  ASSUME JoinInv, [Next]_vars, NavGood, NavGood'
  PROVE  JoinInv'
<1>1. SearchInv /\ RowInv
  BY DEF JoinInv
<1>2. KeptInv' /\ RowInv'
  <2>1. CASE Enter
    BY <1>1, <2>1, EnterStep
  <2>2. CASE Descend
    BY <1>1, <2>2, DescendStep
  <2>3. CASE Return
    BY <1>1, <2>3, ReturnStep
  <2>4. CASE Close
    BY <1>1, <2>4, CloseStep
  <2>5. CASE Match
    BY <1>1, <2>5, MatchStep
  <2>6. CASE Expire
    BY <1>1, <2>6, ExpireStep
  <2>7. CASE FileVisit
    BY <1>1, <2>7, FileVisitStep
  <2>8. CASE \E entry \in table : TakeUp(entry)
    BY <1>1, <2>8, TakeUpStep
  <2>9. CASE ForceDown
    BY <1>1, <2>9, ForceDownStep
  <2>10. CASE UndoForce
    BY <1>1, <2>10, UndoForceStep
  <2>11. CASE Finish \/ UNCHANGED vars
    BY <1>1, <2>11, QuietStep
  <2> QED
    BY <2>1, <2>2, <2>3, <2>4, <2>5, <2>6, <2>7, <2>8, <2>9, <2>10, <2>11 DEF Next
<1>3. OrderInv' /\ PathInv' /\ Still'
  BY <1>1, OrderNext
<1> QED
  BY <1>2, <1>3 DEF JoinInv, SearchInv, KeptInv

\* What is in an index when a search begins, and what is asked.
LEMMA InitSays ==
  ASSUME Init
  PROVE  /\ Holds(index) /\ AsksSoundly(question)
         /\ cursors = Opened(question.triples) /\ InitOrder(PlanFor(question, cursors))
         /\ values = <<>> /\ table = {} /\ rows = EmptyBag /\ stopped = FALSE /\ over = FALSE
<1>1. PICK l \in Layouts, search \in Searches : index = IndexOf(l, search[1]) /\ Begin(search[2])
  BY DEF Init
<1>2. search[1] \in Contents /\ AsksSoundly(search[2])
  BY SearchesAssumption
<1>3. index.built = search[1].built /\ index.added = search[1].added
  BY <1>1 DEF IndexOf
<1>4. Holds(index)
  BY <1>2, <1>3 DEF Holds, Contents
<1> QED
  BY <1>1, <1>2, <1>4 DEF Begin

\* The plan binds every variable, and nothing of it is done.
LEMMA InitPath ==
  ASSUME Init, NavGood
  PROVE  OrderInv /\ PathInv /\ Still
<1>1. PICK p : p = PlanFor(question, cursors) /\ InitOrder(p)
  BY InitSays
<1>2. plan = p /\ order = Fresh(p) /\ phase = "below" /\ prefixes = {} /\ todo = <<>> /\ replayed = 0
  BY <1>1 DEF InitOrder
<1>3. \A i \in DOMAIN question.triples : Exact(index, cursors[i])
  BY InitSays DEF Opened, NavGood
<1>4. Covers(p, question)
  BY <1>1, <1>3, InitSays, PlanCovers
<1>5. p.free \subseteq PatternVars(question.triples) /\ ListsAll(p.lonely, PatternVars(question.triples) \ p.free)
  BY <1>4 DEF Covers
<1>6. IsFiniteSet(p.free)
  <2>1. IsFiniteSet(PatternVars(question.triples))
    BY AsksAre, VarsAre, InitSays
  <2> QED
    BY <1>5, <2>1, FS_Subset
<1>7. Cardinality(p.free) \in Nat /\ Len(p.lonely) \in Nat
  BY <1>5, <1>6, FS_CardinalityType DEF ListsAll
<1>8. order.path = <<>> /\ order.weight = p.weight
  BY <1>2 DEF Fresh
<1>9. Tailed(plan, order.path)
  BY <1>2, <1>7, <1>8 DEF Tailed
<1>10. WeightInv
  BY <1>2, <1>4, <1>8 DEF WeightInv, Weighs, Covers
<1>11. TodoInv
  BY <1>2 DEF TodoInv, IsList
<1>12. PathInv
  BY <1>2, <1>7, <1>9, <1>10, <1>11 DEF PathInv, RouteInv
<1>13. Still
  BY <1>2, <1>4, InitSays DEF Still
<1> QED
  BY <1>12, <1>13, InitInv

\* A search begins with nothing come past, and its cursors where they were opened.
LEMMA JoinBegin == Init /\ NavGood => JoinInv
<1> SUFFICES ASSUME Init, NavGood
             PROVE  JoinInv
  OBVIOUS
<1>1. OrderInv /\ PathInv /\ Still
  BY InitPath
<1>2. /\ phase = "below" /\ order.path = <<>> /\ todo = <<>> /\ replayed = 0
      /\ cursors = Opened(Triples) /\ values = <<>> /\ table = {} /\ rows = EmptyBag /\ stopped = FALSE /\ over = FALSE
  BY InitSays DEF InitOrder, Fresh, Triples
<1>3. Total = 0 /\ Depth = 0
  BY <1>2 DEF Total, Depth
<1>4. ValuesInv
  BY <1>2, <1>3 DEF ValuesInv, IsList
<1>5. TableInv
  BY <1>2 DEF TableInv
<1>6. IsPattern(Triples) /\ question.limit \in Nat
  BY AsksAre, InitSays DEF Triples
<1>7. CursorInv
  <2>1. DOMAIN cursors = DOMAIN Triples /\ \A i \in DOMAIN Triples : cursors[i] = CursorAt(index, Triples[i])
    BY <1>2 DEF Opened
  <2>2. \A i \in DOMAIN Triples : Triples[i] \in [1..3 -> Nat]
    BY <1>6 DEF IsPattern
  <2>3. \A i \in DOMAIN Triples : Layered(Triples[i], cursors[i], CursorAt(index, Triples[i]), Way, values, 0)
    BY <2>1, <2>2, OpenedLayered
  <2> QED
    BY <1>3, <2>1, <2>3 DEF CursorInv, AllLayered
<1>8. StopInv
  BY <1>2 DEF StopInv
<1>9. RowInv
  <2>1. PICK F, J : F = FitsIn(index, Triples) /\ J = RowsIn(index, Triples)
    OBVIOUS
  <2>2. \A f \in F : ~IsPast(J[f], Way, values, 0, 0, "below")
    BY DEF IsPast, Agrees
  <2>3. Past = {}
    BY <1>2, <1>3, <2>1, <2>2 DEF Past
  <2>4. Ledger(F, J, {}, {}, EmptyBag, FALSE, question.limit, question.timed)
    BY <1>6, LedgerBegin
  <2> QED
    BY <1>2, <2>1, <2>3, <2>4 DEF RowInv
<1> QED
  BY <1>1, <1>4, <1>5, <1>7, <1>8, <1>9 DEF JoinInv, SearchInv

\* When the search has returned, the account is the join.
LEMMA JoinSays == JoinInv => RowsAreTheJoin
<1> SUFFICES ASSUME JoinInv, over
             PROVE  /\ rows \sqsubseteq TheJoin
                    /\ ~stopped => rows = [r \in {r \in DOMAIN TheJoin : ~\E e \in table : Extends(r, e)} |-> TheJoin[r]]
                    /\ stopped /\ ~question.timed => BagCardinality(rows) = question.limit
                    /\ Standpoints(cursors) = Standpoints(Opened(Triples)) /\ order = Fresh(plan) /\ values = <<>>
  BY DEF RowsAreTheJoin
<1>1. SearchInv /\ RowInv
  BY DEF JoinInv
<1>2. phase = "back" /\ Len(order.path) = 0 /\ stopped \in BOOLEAN
  BY <1>1, SearchSays DEF StopInv
<1>3. order = Fresh(plan) /\ replayed = 0
  BY <1>1, <1>2, OrderBack, SearchSays
<1>4. Total = 0 /\ Depth = 0 /\ IsList(values) /\ Len(values) = 0
  BY <1>1, <1>2, BetweenSays
<1>5. values = <<>>
  BY <1>4 DEF IsList
<1>6. PICK F, J : F = FitsIn(index, Triples) /\ J = RowsIn(index, Triples)
  OBVIOUS
<1>7. Past = F
  <2>1. \A f \in F : IsPast(J[f], Way, values, 0, 0, "back")
    BY PastAll
  <2> QED
    BY <1>2, <1>3, <1>4, <1>6, <2>1 DEF Past
<1>8. IsFiniteSet(F) /\ question.limit \in Nat
  BY <1>1, <1>6, FitsFinite, AsksAre, SearchSays DEF Still
<1>9. Ledger(F, J, F, table, rows, stopped, question.limit, question.timed)
  BY <1>1, <1>6, <1>7 DEF RowInv
<1>10. TheJoin = RowsOf(F, J)
  BY <1>6, TheJoinIs
<1>11. /\ rows \sqsubseteq TheJoin
       /\ ~stopped => rows = NotPending(TheJoin, table)
       /\ stopped /\ ~question.timed => BagCardinality(rows) = question.limit
  BY <1>2, <1>8, <1>9, <1>10, LedgerSays
<1>12. NotPending(TheJoin, table) = [r \in {r \in DOMAIN TheJoin : ~\E e \in table : Extends(r, e)} |-> TheJoin[r]]
  BY DEF NotPending, Pending
<1>13. Standpoints(cursors) = Standpoints(Opened(Triples))
  <2>1. DOMAIN cursors = DOMAIN Triples /\ AllLayered(index, Triples, cursors, Way, values, 0)
    BY <1>1, <1>4, SearchSays DEF CursorInv
  <2>2. PICK opened : opened = Opened(Triples)
    OBVIOUS
  <2>3. DOMAIN opened = DOMAIN Triples /\ \A i \in DOMAIN Triples : opened[i] = CursorAt(index, Triples[i])
    BY <2>2 DEF Opened
  <2>4. ASSUME NEW i \in DOMAIN Triples
        PROVE  Standpoint(cursors[i]) = Standpoint(opened[i])
    <3>1. Layered(Triples[i], cursors[i], opened[i], Way, values, 0)
      BY <2>1, <2>3 DEF AllLayered
    <3>2. IsCursor(cursors[i]) /\ Len(cursors[i].fixed) = Count(Constants(Triples[i]))
      BY <3>1, BoundNone DEF Layered
    <3>3. Cut(cursors[i], Len(cursors[i].fixed)) = Standpoint(opened[i])
      BY <3>1, <3>2 DEF Layered
    <3> QED
      BY <3>2, <3>3, CutWhole
  <2> QED
    BY <2>1, <2>2, <2>3, <2>4 DEF Standpoints, Standpoint
<1> QED
  BY <1>3, <1>5, <1>11, <1>12, <1>13

\* Exact navigation is exact for every cursor of the search.
LEMMA NavigationHolds == Sought = Nat /\ NavigationIsExact /\ Holds(index) => NavGood
BY NavigationSays DEF NavGood

\* Where navigation is exact, a search that was not cut off has found each choice of edges that fits
\* the pattern as often as the index holds it, but for the prefixes a memo search has not taken up;
\* a limit or a deadline leaves rows of the join only, and a limit as many as it allows; and every
\* cursor, the order and its values are back where they began (algorithm.rs, join and run_nearest_memo).
THEOREM JoinIsExact ==
  ASSUME Sought = Nat
  PROVE  Spec /\ []NavigationIsExact => []RowsAreTheJoin
<1>1. Init /\ NavigationIsExact => JoinInv
  BY JoinBegin, InitSays, NavigationHolds
<1>2. JoinInv /\ NavigationIsExact /\ NavigationIsExact' /\ [Next]_vars => JoinInv'
  <2> SUFFICES ASSUME JoinInv, NavigationIsExact, NavigationIsExact', [Next]_vars
               PROVE  JoinInv'
    OBVIOUS
  <2>1. Holds(index)
    BY SearchSays DEF JoinInv
  <2>2. Holds(index)'
    <3>1. Still'
      BY StillSame DEF JoinInv
    <3> QED
      BY <3>1 DEF Still
  <2>3. NavGood
    BY <2>1, NavigationHolds
  <2>4. (Sought = Nat /\ NavigationIsExact /\ Holds(index) => NavGood)'
    BY NavigationHolds, PTL
  <2>5. NavGood'
    BY <2>2, <2>4
  <2> QED
    BY <2>3, <2>5, JoinStep
<1>3. JoinInv => RowsAreTheJoin
  BY JoinSays
<1> QED
  BY <1>1, <1>2, <1>3, PTL DEF Spec
================================================================================
