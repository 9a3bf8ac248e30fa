---------------------------- MODULE TrackedRewards ----------------------------
(***************************************************************************)
(* What reward tracking promises: a redeemed reward is tracked once, in    *)
(* one step with its customer's ledger and its campaign's counter, however *)
(* often and over whatever channels it was announced.                      *)
(***************************************************************************)
EXTENDS Naturals, FiniteSets

CONSTANTS
  Entry,    \* the reward_redemption_entry rows announced
  Grain,    \* the groups customer_reward_ledger sums over
  grainOf,  \* [Entry -> Grain]
  Shard,    \* the rows campaign_reward_counter_shard sums over
  shardOf   \* [Entry -> Shard]: abs(hashtext(reward_entry_id)) % N

ASSUME TrackedAssumption ==
  grainOf \in [Entry -> Grain] /\ shardOf \in [Entry -> Shard]

VARIABLES
  facts,    \* the entries with a reward_fact row
  ledger,   \* [Grain -> Nat]: total_reward_count of the grain's ledger rows
  counter   \* [Shard -> Nat]: total_reward_count of the shard

tracked == <<facts, ledger, counter>>

Untracked == /\ facts = {}
             /\ ledger = [g \in Grain |-> 0]
             /\ counter = [s \in Shard |-> 0]

\* applyRewardTrackingEvent: a duplicate answers with the fact there is and changes nothing.
TrackNew(e) ==
  /\ e \notin facts
  /\ facts' = facts \cup {e}
  /\ ledger' = [ledger EXCEPT ![grainOf[e]] = @ + 1]
  /\ counter' = [counter EXCEPT ![shardOf[e]] = @ + 1]
Track(e) == TrackNew(e) \/ (e \in facts /\ UNCHANGED tracked)

TrackedSpec == Untracked /\ [][\E e \in Entry : TrackNew(e)]_tracked

OfGrain(g) == {e \in facts : grainOf[e] = g}
OfShard(s) == {e \in facts : shardOf[e] = s}
=============================================================================
