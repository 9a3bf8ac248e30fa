-------------------------- MODULE CampaignLifecycle --------------------------
(***************************************************************************)
(* The campaign lifecycle the portal promises: the transition table of     *)
(* campaign-state-machine.ts as a state machine over the status column     *)
(* alone. CampaignApproval is checked to follow it as long as no maker's   *)
(* write lands on a status its call had not read, and CampaignCache is     *)
(* driven by it.                                                           *)
(***************************************************************************)

VARIABLE status  \* tenant_campaigns.status of one campaign

CampaignStatus == {"draft", "pending_approval", "active", "paused", "completed", "archived"}
Verb == {"submit", "approve", "reject", "return", "pause", "resume", "complete", "archive"}

\* TRANSITIONS: from this status, this verb leads to that status; anything absent is a 409.
Transitions ==
  { <<"draft", "submit", "pending_approval">>,
    <<"pending_approval", "approve", "active">>,
    <<"pending_approval", "reject", "draft">>,
    <<"pending_approval", "return", "draft">>,
    <<"active", "pause", "paused">>,
    <<"active", "complete", "completed">>,
    <<"paused", "resume", "active">>,
    <<"paused", "complete", "completed">>,
    <<"completed", "archive", "archived">> }

\* assertTransition: from -verb-> to is listed.
Permits(from, verb, to) == <<from, verb, to>> \in Transitions

\* The statuses getCampaignConfig serves and the runtime may have been told of.
Live == {"active", "paused"}

Init == status = "draft"
Next == \E verb \in Verb, to \in CampaignStatus : Permits(status, verb, to) /\ status' = to
Spec == Init /\ [][Next]_status
=============================================================================
