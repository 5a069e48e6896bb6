--------------------------- MODULE MCOverlayIndex ---------------------------
(* OverlayIndex on small images. *)
EXTENDS OverlayIndex

\* One node that carries every label and property.
PointImage ==
  [nodeCount |-> 1, edgeCount |-> 0,
   node |-> [n \in {0} |-> [labels |-> Labels,
                            props |-> [p \in Props |-> CHOOSE v \in Keyable : TRUE]]],
   edge |-> <<>>]

PointOnly == {PointImage}
HashOfEveryPair == Labels \X Props \X {"hash"}
=============================================================================
