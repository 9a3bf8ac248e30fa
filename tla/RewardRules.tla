---------------------------- MODULE RewardRules ----------------------------
(***************************************************************************)
(* The configuration of one campaign as the activity processor reads it,   *)
(* and the decisions the row handler takes from it: which sibling          *)
(* component may advance, what a passing activity does to a component and  *)
(* to its tracker, which rewards fall due, and which caps govern them.     *)
(* Nothing here has state: every operator is a function of the             *)
(* configuration and of its arguments.                                     *)
(***************************************************************************)
EXTENDS Integers, Sequences, FiniteSets

CONSTANTS
  Customer,             \* customer_id_hash values
  Submission,           \* real-world activities, one dedup_key each
  Component,            \* tracker components of the campaign, all active
  Tracker,              \* trackers of the campaign, all active
  Activity,             \* activity definitions components are bound to
  customerOf,           \* [Submission -> Customer]
  performed,            \* [Submission -> Activity]
  boundTo,              \* [Component -> Activity], component.activityId
  trackerOf,            \* [Component -> Tracker]
  sequenceOrder,        \* [Component -> Nat], unique within a tracker
  requiredCount,        \* [Component -> Nat \ {0}]
  completionLogic,      \* [Tracker -> CompletionLogic]
  completionThreshold,  \* [Tracker -> Nat], read by "n_of" only
  Passing,              \* the <<submission, component>> pairs whose bound rules all pass
  Rewards,              \* sequence of RewardBinding, in the order of the cached config
  Caps,                 \* sequence of CampaignCap, in the order of the cached config
  LastDay               \* bound: calendar periods a run may span

CompletionLogic == {"all", "any", "n_of", "sequence"}

\* A reward bound to a component, a tracker, or the campaign. "resolvable" says
\* whether policies_json yields a fixed amount; "value" is that amount.
RewardBinding ==
  [code: STRING, level: {"component", "tracker", "campaign"}, ref: Component \cup Tracker,
   unit: STRING, type: STRING, resolvable: BOOLEAN, value: Nat]

\* A cap; maxAmount = 0 and maxCount = 0 mean "this ceiling is not configured".
CampaignCap ==
  [class: {"budget", "limit"}, scope: {"campaign", "tracker", "component"},
   ref: Component \cup Tracker, unit: STRING, type: STRING,
   lifetime: BOOLEAN, maxAmount: Nat, maxCount: Nat]

AnyType == ""           \* cap.rewardType left unset
Everyone == "everyone"  \* the customer coordinate of a campaign-wide budget counter

ASSUME ConfigAssumption ==
  /\ customerOf \in [Submission -> Customer]
  /\ performed \in [Submission -> Activity]
  /\ boundTo \in [Component -> Activity]
  /\ trackerOf \in [Component -> Tracker]
  /\ sequenceOrder \in [Component -> Nat]
  /\ requiredCount \in [Component -> Nat \ {0}]
  /\ completionLogic \in [Tracker -> CompletionLogic]
  /\ completionThreshold \in [Tracker -> Nat]
  /\ Passing \subseteq Submission \X Component
  /\ Rewards \in Seq(RewardBinding)
  /\ Caps \in Seq(CampaignCap)
  /\ LastDay \in Nat

RewardIx == DOMAIN Rewards
CapIx == DOMAIN Caps

----------------------------------------------------------------------------
\* Component progress: a sequence of completion cycles, the last one current.

Cycle == [count: Nat, complete: BOOLEAN, last: Submission]

LatestComplete(cycles) == cycles # <<>> /\ cycles[Len(cycles)].complete

\* upsertOnPassingActivity: no row or a completed row starts a new cycle, an
\* open one is incremented in place.
AfterPass(cycles, required, s) ==
  IF cycles = <<>> \/ LatestComplete(cycles)
  THEN Append(cycles, [count |-> 1, complete |-> 1 >= required, last |-> s])
  ELSE [cycles EXCEPT ![Len(cycles)] =
          [count |-> @.count + 1, complete |-> @.count + 1 >= required, last |-> s]]

----------------------------------------------------------------------------
\* Sibling components: the same tracker bound to the same activity.

Siblings(c) == {d \in Component : trackerOf[d] = trackerOf[c] /\ boundTo[d] = boundTo[c]}

First(components) ==
  CHOOSE c \in components : \A d \in components : sequenceOrder[c] <= sequenceOrder[d]

AdvancedBy_NotLookedUp(s, c, progressOf) == {}
\* The siblings one of whose progress rows was last written by submission s.
AdvancedBy(s, c, progressOf) ==
  {d \in Siblings(c) : \E n \in DOMAIN progressOf[d] : progressOf[d][n].last = s}

\* resolveSiblingTarget: the components allowed to advance for this row (one,
\* except that findSiblingAdvancedByDedupKey's LIMIT 1 may pick any match).
SiblingTargets(s, c, progressOf) ==
  LET open == {d \in Siblings(c) : ~LatestComplete(progressOf[d])}
  IN  IF Siblings(c) = {c} THEN {c}
      ELSE IF AdvancedBy(s, c, progressOf) # {} THEN AdvancedBy(s, c, progressOf)
      ELSE IF open # {} THEN {First(open)}
      ELSE {First(Siblings(c))}

----------------------------------------------------------------------------
\* Tracker status: the latest customer_tracker_status row; cycle 0 is "no row".

TrackerStatus == [cycle: Nat, tally: Nat, complete: BOOLEAN]

NoStatus == [cycle |-> 0, tally |-> 0, complete |-> FALSE]

Members(t) == {c \in Component : trackerOf[c] = t}

\* isComplete has no case for "sequence": it throws, and the transaction rolls back.
Supported(t) == completionLogic[t] \in {"all", "any", "n_of"}

\* The tally at which the tracker completes; "required" is Members' cardinality.
CompletesAt(t, required) ==
  CASE completionLogic[t] = "all"  -> required
    [] completionLogic[t] = "any"  -> 1
    [] completionLogic[t] = "n_of" -> completionThreshold[t]

AfterCompletion_TallyNotReset(st, t, required) ==
  LET fresh == st.cycle = 0 \/ st.complete
      tally == st.tally + 1
  IN  [cycle |-> IF fresh THEN st.cycle + 1 ELSE st.cycle,
       tally |-> tally,
       complete |-> tally >= CompletesAt(t, required)]

\* upsertOnComponentCompletion: a first or a repeated completion opens a new row.
AfterCompletion(st, t, required) ==
  LET fresh == st.cycle = 0 \/ st.complete
      tally == IF fresh THEN 1 ELSE st.tally + 1
  IN  [cycle |-> IF fresh THEN st.cycle + 1 ELSE st.cycle,
       tally |-> tally,
       complete |-> tally >= CompletesAt(t, required)]

----------------------------------------------------------------------------
\* Rewards and caps.

\* resolveRewardAssignments for component c, of tracker t, that just completed.
DueRewards(c, t, trackerJustCompleted) ==
  {i \in RewardIx :
     \/ Rewards[i].level = "component" /\ Rewards[i].ref = c
     \/ Rewards[i].level = "tracker" /\ trackerJustCompleted /\ Rewards[i].ref = t
     \/ Rewards[i].level = "campaign" /\ trackerJustCompleted}

\* capScopeCoversReward.
ScopeCovers(cap, reward, t) ==
  \/ cap.scope = "campaign"
  \/ cap.scope = "tracker" /\ reward.level = "tracker" /\ cap.ref = reward.ref
  \/ cap.scope = "tracker" /\ reward.level = "component" /\ cap.ref = t
  \/ cap.scope = "component" /\ reward.level = "component" /\ cap.ref = reward.ref

\* matchCapsForAssignment.
MatchedCaps(i, t) ==
  {k \in CapIx : /\ Caps[k].unit = Rewards[i].unit
                 /\ Caps[k].type \in {AnyType, Rewards[i].type}
                 /\ ScopeCovers(Caps[k], Rewards[i], t)}

\* resolveRewardValueIfNeeded: the amount is looked at only if some matched cap
\* has an amount ceiling, and is null when policies_json has no fixed amount.
ValueKnown(i, t) ==
  Rewards[i].resolvable /\ \E k \in MatchedCaps(i, t) : Caps[k].maxAmount # 0

RecordedValue(i, t) == IF ValueKnown(i, t) THEN Rewards[i].value ELSE 0

\* The sum of the naturals v[x] over the finite set S, counted unit by unit.
Units(v, S) == UNION {{x} \X (1..v[x]) : x \in S}
Total(v, S) == Cardinality(Units(v, S))

Usage == [amount: Nat, count: Nat]
NoUsage == [amount |-> 0, count |-> 0]

AddUsage(u, v) == [amount |-> u.amount + v.amount, count |-> u.count + v.count]

\* checkCeiling: would granting reward i on top of usage u break cap k?
Breaches(k, u, i, t) ==
  \/ /\ ValueKnown(i, t)
     /\ Caps[k].maxAmount # 0
     /\ u.amount + Rewards[i].value > Caps[k].maxAmount
  \/ Caps[k].maxCount # 0 /\ u.count + 1 > Caps[k].maxCount

\* One row of budget_consumption (who = Everyone) or of
\* customer_reward_limit_consumption (who = the customer), per period bucket.
CounterKey == [cap: CapIx, who: Customer \cup {Everyone}, bucket: 0..LastDay]

KeyOf(k, cust, day) ==
  [cap |-> k,
   who |-> IF Caps[k].class = "budget" THEN Everyone ELSE cust,
   bucket |-> IF Caps[k].lifetime THEN 0 ELSE day]
=============================================================================
