------------------------------ MODULE MCNearest ------------------------------
(* Small instances of Nearest: four or six vectors on a line, patterns of   *)
(* two or three visits, and the proximity graphs that Hnsw builds on them.  *)
EXTENDS Nearest, TLC
H == INSTANCE Hnsw

\* Node 4 has no vector; no pattern reaches 5 and beyond except as anchors.
Corpus == 1 :> 0 @@ 2 :> 2 @@ 3 :> -2 @@ 5 :> 3
WideCorpus == Corpus @@ 6 :> 5 @@ 7 :> -4
FixedAt == 1
Square(p, q) == (p - q) * (p - q)
Inner(p, q) == -(p * q)
Metric(name, p, q) == IF name = "ip" THEN Inner(p, q) ELSE Square(p, q)

At(corpus, q) == IF q = Fixed THEN FixedAt ELSE corpus[q]
To(corpus, metric, q) == [x \in DOMAIN corpus |-> Metric(metric, corpus[x], At(corpus, q))]
Neighbours(to, ids) == [i \in DOMAIN ids |-> [id |-> ids[i], dist |-> to[ids[i]]]]
QueriesOf(corpus) == {Fixed} \cup DOMAIN corpus
Ranking(corpus, metric) ==
  [q \in QueriesOf(corpus) |-> LET to == To(corpus, metric, q) IN Neighbours(to, H!NearestFirst(to, DOMAIN corpus))]

\* The graph over the rows, which are the nodes in ascending order.
EfConstruction == 2
EfSearch == 64
Walked(corpus, metric, levels) ==
  LET ids == H!NearestFirst([x \in DOMAIN corpus |-> x], DOMAIN corpus)
      apart == [i \in DOMAIN ids |-> [j \in DOMAIN ids |-> Metric(metric, corpus[ids[i]], corpus[ids[j]])]]
      graph == H!Build(apart, 2, EfConstruction, levels)
      walked(q) ==
        LET to == To(corpus, metric, q)
            rows == H!Cursor(graph, [i \in DOMAIN ids |-> to[ids[i]]], EfSearch)
        IN  Neighbours(to, [i \in DOMAIN rows |-> ids[rows[i]]])
  IN  [q \in QueriesOf(corpus) |-> walked(q)]

(* Candidates of a visit, with the rows of each base case below.            *)
Both == 1 :> <<1>> @@ 2 :> <<1>>
Parallel == 2 :> <<2>> @@ 3 :> <<1>>
DeadEnd == 1 :> <<>> @@ 3 :> <<1, 1>>
Unranked == 4 :> <<1>> @@ 2 :> <<1, 1>>
None == <<>>
Visit(anchor, fan) == [anchor |-> anchor, fan |-> fan]
Plain(fans) == [i \in DOMAIN fans |-> Visit(Fixed, fans[i])]
Anchored(anchors, fans) == [i \in DOMAIN fans |-> Visit(anchors[i], fans[i])]

PlainPatterns == {Plain(f) : f \in {<<Both, Parallel>>, <<Parallel, Unranked>>, <<DeadEnd, Both>>,
                                    <<Unranked, DeadEnd>>, <<None, Parallel>>}}
AnchoredPatterns ==
  {Anchored(a, f) : a \in {<<5, 1, 5>>, <<1, 4, 5>>, <<4, 1, 4>>},
                    f \in {<<Both, Parallel, Unranked>>, <<DeadEnd, Both, Parallel>>, <<Parallel, None, DeadEnd>>}}
Arm(arm, source, slack, cuts) == [arm |-> arm, source |-> source, slack |-> slack, cuts |-> cuts]
PlainArms ==
  {Arm(a, s, 0, TRUE) : a \in {"post", "interleave", "memo"}, s \in {"local", "corpus"}}
  \cup {Arm("pre", "corpus", s, TRUE) : s \in {0, 1}}
  \cup {Arm(a, "corpus", 1, TRUE) : a \in {"interleave", "memo"}}
  \cup {Arm("memo", s, 0, FALSE) : s \in {"local", "corpus"}}
AnchoredArms ==
  {Arm(a, s, 0, TRUE) : a \in {"partition", "interleave", "memo"}, s \in {"local", "corpus"}}
  \cup {Arm("memo", "corpus", 1, TRUE)}
ArmedArms ==
  {Arm("post", "local", 0, TRUE), Arm("pre", "corpus", 0, TRUE), Arm("interleave", "local", 0, TRUE),
   Arm("memo", "local", 0, TRUE)}

Walks == {"first layer", "two layers", "three layers"}
LevelsOf(name) ==
  CASE name = "first layer" -> <<0, 0, 0, 0, 0, 0>>
    [] name = "two layers" -> <<0, 1, 0, 0, 1, 0>>
    [] name = "three layers" -> <<1, 0, 0, 2, 0, 0>>
MCRankings ==
  [c \in Walks |-> Ranking(WideCorpus, "l2sq")] @@ [c \in {"l2sq", "ip"} |-> Ranking(Corpus, c)]
MCStreams ==
  [c \in Walks |-> Walked(WideCorpus, "l2sq", LevelsOf(c))] @@ [c \in {"l2sq", "ip"} |-> Ranking(Corpus, c)]
Job(arm, visits, mode, k, corpus, armed) ==
  [visits |-> visits, mode |-> mode, k |-> k, corpus |-> corpus, armed |-> armed,
   correlated |-> \E i \in DOMAIN visits : visits[i].anchor # Fixed] @@ arm

Modes == {"rows", "distinct"}
Unarmed(arms, patterns, corpora) ==
  {Job(a, p, m, k, c, FALSE) : a \in arms, p \in patterns, m \in Modes, k \in {1, 2}, c \in corpora}
NoSlack(arms) == {a \in arms : a.slack = 0}
OnCorpus(arms) == {a \in NoSlack(arms) : a.source = "corpus"}
MCJobs ==
  Unarmed(PlainArms, PlainPatterns, {"l2sq"})
  \cup Unarmed(NoSlack(PlainArms), {Plain(<<Both, Parallel>>)}, {"ip"})
  \cup Unarmed(AnchoredArms, AnchoredPatterns, {"l2sq"})
  \cup Unarmed(OnCorpus(PlainArms), {Plain(<<Both, Parallel>>)}, Walks)
  \cup Unarmed(OnCorpus(AnchoredArms), {Anchored(<<5, 7, 5>>, <<Both, Parallel, Both>>)}, Walks)
  \cup {Job(a, Plain(<<Both, DeadEnd>>), "rows", 1, "l2sq", TRUE) : a \in ArmedArms}
  \cup {Job(Arm(a, s, 0, TRUE), Anchored(<<5, 1>>, <<Both, Parallel>>), "distinct", 1, "l2sq", TRUE)
          : a \in {"partition", "interleave", "memo"}, s \in {"local", "corpus"}}

\* The anchor without a vector, visited twice in a row after one that has a vector.
MCRepeatedJobs ==
  {Job(Arm("interleave", s, 0, TRUE), Anchored(<<5, 4, 4>>, <<f, Both, Parallel>>), m, k, "l2sq", FALSE)
     : s \in {"local", "corpus"}, f \in {Both, Parallel, DeadEnd, Unranked}, m \in Modes, k \in {1, 2}}

\* The instances are what the answer is proved for; the repeated visits are what it is not proved for.
ASSUME InstancesAreExact == SourcesAreExact /\ (Jobs = MCJobs <=> NoStaleVisit)
=============================================================================
