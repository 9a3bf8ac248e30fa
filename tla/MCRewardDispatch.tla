-------------------------- MODULE MCRewardDispatch --------------------------
(* Instances of RewardDispatch for TLC: rewards are numbered by age. *)
EXTENDS RewardDispatchProps

MCCreatedAt == [r \in Reward |-> r]
=============================================================================
