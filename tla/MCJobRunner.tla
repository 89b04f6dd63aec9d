----------------------------- MODULE MCJobRunner -----------------------------
(***************************************************************************)
(* A channel of capacity 2 below a root of capacity 1: two jobs can be     *)
(* pulled from their channel while one waits in the queue of the root.     *)
(***************************************************************************)
EXTENDS JobRunner, TLC

CONSTANTS root, sub

MCChannel == {root, sub}
MCParent == [c \in {sub} |-> root]
MCCapacity == [c \in MCChannel |-> IF c = root THEN 1 ELSE 2]
MCChannelOf == [j \in Job |-> sub]
Symmetry == Permutations(Job) \cup Permutations(Req)
=============================================================================
