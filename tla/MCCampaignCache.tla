---------------------------- MODULE MCCampaignCache ----------------------------
(* Instances of CampaignCache for TLC. *)
EXTENDS CampaignCacheProps
=============================================================================
