---------------------------- MODULE MCJoinSearch ----------------------------
EXTENDS JoinSearch

\* Triples of nodes 1..6 and predicates 1 and 2; the number of an edge is the last of an entry.
\* Six entries that differ late leave a gap wider than an entry of the table of distances.
Fan(n) == [i \in 1..n |-> <<1, 1, i, 10 + i>>]
Parallel == << <<1, 1, 2, 11>>, <<1, 1, 2, 12>>, <<1, 2, 2, 12>>, <<2, 1, 1, 13>>, <<3, 2, 3, 14>> >>
\* A directed self-loop stands twice in the mirrored index, a node 1 on both ends of the rest.
Mirrored == << <<1, 1, 1, 11>>, <<1, 1, 1, 11>>, <<1, 1, 2, 12>>, <<2, 1, 1, 12>>, <<1, 2, 3, 13>>, <<3, 2, 1, 13>> >>
Crown == [i \in 1..6 |-> <<1 + (i % 6), 1 + (i % 2), i, 10 + i>>]

Nothing == [built |-> <<>>, added |-> <<>>, removed |-> {}]
AllAdded == [built |-> <<>>, added |-> << <<1, 1, 2, 21>> >>, removed |-> {}]
Replaced == [built |-> Fan(1), added |-> << <<1, 1, 1, 21>> >>, removed |-> {11}]
WideFan == [built |-> Fan(6), added |-> << <<1, 1, 4, 21>>, <<2, 1, 1, 22>> >>, removed |-> {13, 14}]
Sides == [built |-> Parallel, added |-> << <<1, 1, 2, 21>>, <<2, 2, 2, 22>> >>, removed |-> {11, 13}]
Doubled == [built |-> Mirrored, added |-> << <<1, 2, 2, 21>>, <<2, 2, 1, 21>> >>, removed |-> {11}]
Parted == [built |-> << <<1, 1, 2, 11>>, <<2, 2, 3, 12>>, <<1, 2, 3, 13>> >>, added |-> << <<3, 1, 1, 21>> >>, removed |-> {13}]
Ring == [built |-> Crown, added |-> << <<5, 1, 5, 21>> >>, removed |-> {12, 16}]
MCLayouts == {"array", "compact"}
MCSought == {0, 1, 2, 4, 7}

\* Variables: nodes from 101, predicates from 111.
Single == << <<101, 111, 102>> >>
Path == << <<101, 111, 102>>, <<102, 112, 103>> >>
Loop == << <<101, 111, 101>> >>
Triangle == << <<101, 1, 102>>, <<102, 111, 103>>, <<101, 112, 103>> >>
TwoWay == << <<101, 111, 102>>, <<102, 111, 101>> >>
Known == << <<1, 1, 2>> >>
NoSuch == << <<101, 3, 102>>, <<102, 111, 103>> >>
Hub == << <<101, 1, 102>>, <<101, 2, 103>>, <<103, 111, 101>> >>
Out == << <<1, 1, 101>>, <<101, 111, 102>> >>
\* In one index only the additions know node 2 to begin an edge.
Outside == << <<2, 1, 101>>, <<101, 111, 102>> >>

Ask(triples, kind, level, limit, arc, memo, timed) ==
  [triples |-> triples, order |-> kind, level |-> level, limit |-> limit, arc |-> arc, memo |-> memo, timed |-> timed,
   weights |-> [x \in PatternVars(triples) |-> IF x = 103 THEN 1 ELSE IF x > 110 THEN 5 ELSE 3]]
Plain(triples, kind) == Ask(triples, kind, 0, 0, {}, 0, FALSE)
Orders2 == {"simple", "adaptive"}
Memo == {Ask(Path, o, 1, 0, {}, 102, FALSE) : o \in {"adaptive", "pinned"}}
          \cup {Ask(t, o, 1, 0, {<<102, 101>>}, 102, FALSE) : t \in {Path, TwoWay}, o \in {"adaptive", "pinned"}}
Small == {Plain(t, o) : t \in {Single, Loop, TwoWay, NoSuch, Out, Outside}, o \in Orders2} \cup {Plain(Known, "simple")}
Large == {Plain(t, o) : t \in {Path, Triangle}, o \in Orders2}
           \cup {Ask(t, o, 0, l, {}, 0, FALSE) : t \in {Path, TwoWay}, o \in Orders2, l \in {1, 3}}
Levels == {Ask(Path, "pinned", level, 0, {}, 102, FALSE) : level \in 0..2}
            \cup {Ask(Path, o, 1, 0, {<<103, 101>>}, 103, FALSE) : o \in {"adaptive", "pinned", "simple"}}
Timed == {Ask(Triangle, "adaptive", 0, 0, {}, 0, TRUE), Ask(Path, "adaptive", 0, 0, {<<102, 101>>}, 102, TRUE)}

MCSearches ==
  ({Nothing, AllAdded, Replaced, WideFan, Sides, Doubled, Ring} \X Small)
    \cup ({AllAdded, Sides, Doubled} \X Large)
    \cup ({Sides, Ring} \X Memo)
    \cup ({Replaced, Parted} \X Levels)
    \cup {<<Parted, Plain(Hub, "adaptive")>>}
    \cup ({Replaced, Sides} \X Timed)
==============================================================================
