-------------------------- MODULE CampaignCacheProps --------------------------
(* What CampaignCache promises. *)
EXTENDS CampaignCache

TypeOK ==
  /\ status \in Lifecycle!CampaignStatus /\ version \in Version
  /\ changes \in 0..MaxChanges /\ announcing \in 0..MaxChanges
  /\ wasActive \subseteq Version
  /\ current \in Stream \cup {None}
  /\ opened \subseteq Stream /\ subscribed \subseteq opened
  /\ events \in [Stream -> Nat] /\ closing \in [Stream -> 0..2]
  /\ timer \in BOOLEAN
  /\ entry \in Cached /\ row \in Cached
  /\ {index, codeRow, codeIndex} \subseteq Version \cup {None}
  /\ job \in [Process -> Job]
  /\ phase \in {"down", "booting", "up"}
  /\ faults \in 0..MaxFaults

\* Activities match exactly the components of an entry that is active, whichever writers
\* interleave: the entry and the index are swapped together (campaign-config-cache.service.ts:
\* "atomic swap, no half-updated reader").
IndexFollowsEntry == index = IF entry.active THEN entry.cfg.version ELSE None

\* Activities match no version the portal never held active, in memory or after a restart from
\* the snapshot: a draft, or a campaign first seen paused, earns nothing.
MatchedWasActive == index # None => index \in wasActive

\* A running service never goes deaf and never listens twice: it holds one stream, or the close of
\* the one it holds is still to run, or a reconnect is scheduled.
Alive(s) == s \in opened /\ closing[s] = 0 /\ s \in subscribed \cup {current}
OneStream ==
  /\ phase = "up" => (current # None \/ timer)
  /\ timer => current = None
  /\ \A s \in Stream : Alive(s) => s = current

\* Once an active campaign stays as it is, the cache comes to hold it and keeps holding it,
\* whatever events were lost and whatever older answers were applied on the way.
ActiveConverges ==
  \A v \in Version :
    <>[](status = "active" /\ version = v /\ phase = "up")
      => <>[](entry.cfg = [status |-> "active", version |-> v])

\* Once an active campaign stays as it is, activities come to match it ("a resumed campaign is a
\* campaign the runtime should start accruing against again", campaigns.service.ts).
ResumedMatches ==
  \A v \in Version :
    <>[](status = "active" /\ version = v /\ phase = "up") => <>[](index = v)

\* Once a campaign stays paused, activities come to match nothing of it ("so the runtime stops
\* accruing", campaign-config.service.ts).
PausedStops == <>[](status = "paused" /\ phase = "up") => <>[](index = None)
=============================================================================
