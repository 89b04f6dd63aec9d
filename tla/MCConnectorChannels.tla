------------------------- MODULE MCConnectorChannels -------------------------
(***************************************************************************)
(* Three channels: the root with two slots, a sequential channel at the    *)
(* leaf and an auto-created, unlimited channel between them.  Four jobs,   *)
(* one more than the channels can hold running, two in each database; some *)
(* change channel, priority or eta while they are known, and one names a   *)
(* channel that is not configured.                                         *)
(***************************************************************************)
EXTENDS ConnectorChannels

CONSTANTS root, sub, leaf, unknown, j1, j2, j3, j4, db1, db2

MCJob == {j1, j2, j3, j4}
MCChannel == {root, sub, leaf}
MCParent == [c \in {sub, leaf} |-> IF c = leaf THEN sub ELSE root]
MCCapacity == [c \in MCChannel |-> CASE c = root -> 2 [] c = sub -> 0 [] c = leaf -> 1]
MCSequential == {leaf}
MCRow ==
  LET row(n, p, e) == [name |-> n, priority |-> p, eta |-> e]
  IN  [j \in MCJob |-> CASE j = j1 -> {row(leaf, 2, 0), row(leaf, 2, 1)}
                         [] j = j2 -> {row(leaf, 1, 0), row(sub, 2, 1)}
                         [] j = j3 -> {row(unknown, 2, 0), row(leaf, 2, 0)}
                         [] j = j4 -> {row(sub, 1, 0)}]
MCSeq == [j \in MCJob |-> IF j \in {j1, j4} THEN 1 ELSE 2]
MCDbOf == [j \in MCJob |-> IF j \in {j3, j4} THEN db2 ELSE db1]
=============================================================================
