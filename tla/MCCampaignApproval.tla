-------------------------- MODULE MCCampaignApproval --------------------------
(* Instances of CampaignApproval for TLC: users who both make and check campaigns. *)
EXTENDS CampaignApprovalProps, TLC
CONSTANTS u1, u2, c1, c2
MCSymmetry == Permutations({u1, u2}) \cup Permutations({c1, c2})
=============================================================================
