--------------------------- MODULE MCRewardTracking ---------------------------
(* Instances of RewardTracking for TLC. *)
EXTENDS RewardTrackingProps, TLC
CONSTANTS e1, e2, e3, e4, g1, g2, s1
\* e1 and e2 share a typed grain and a shard; e3 is of a grain with a NULL column.
GrainOf == e1 :> g1 @@ e2 :> g1 @@ e3 :> g2 @@ e4 :> g2
ShardOf == e1 :> s1 @@ e2 :> s1 @@ e3 :> s1 @@ e4 :> s1
=============================================================================
