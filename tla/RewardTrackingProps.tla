-------------------------- MODULE RewardTrackingProps --------------------------
(* What RewardTracking promises. *)
EXTENDS RewardTracking

TypeOK ==
  /\ facts \subseteq Entry /\ log \subseteq Entry /\ dlq \subseteq Entry
  /\ ledger \in [Grain -> Nat] /\ rows \in [Grain -> Nat] /\ counter \in [Shard -> Nat]
  /\ tx \in [Worker -> Tx]
  /\ topic \in Seq(Entry) /\ committed \in 0..Len(topic)
  /\ balance \in [Entry -> Nat] /\ reading \in [Reader -> Request]
  /\ answered \subseteq Entry
  /\ faults \in 0..MaxFaults

\* The totals customers and campaigns are shown count every tracked reward once: no redelivery, no
\* concurrent upsert of the same row and no rollback makes them differ from the facts
\* (reward_fact is "the source of truth every ledger row and every counter shard is derived from"). A grain with a NULL
\* column gets a row for each, so only what sums the rows is right about it.
TotalsMatchFacts ==
  /\ \A g \in Grain : ledger[g] = Cardinality(OfGrain(g))
  /\ \A s \in Shard : counter[s] = Cardinality(OfShard(s))
  /\ \A g \in Grain \ Typed : rows[g] = ledger[g]

\* What a caller or the committed offset counts as delivered is tracked, or in the dead-letter
\* topic: an answer or an offset never overtakes the transaction it stands for. A delivery that
\* conflicts on the event log finds the fact it answers with: the error branch of
\* applyRewardTrackingEvent is "structurally unreachable" because the conflict waits for the commit.
DeliveredIsTracked ==
  /\ answered \subseteq facts
  /\ \A i \in 1..committed : topic[i] \in facts \cup dlq
  /\ \A w \in Worker : Handling(w, "duplicate") => tx[w].entry \in facts

\* A request for expiring rewards shows every expiring reward whose delivery had been answered when
\* it came, however ingestion goes on while its rows are filled in
\* (customer-reward-balance.repository.ts: "This gives read-after-write consistency").
AnsweredIsShown ==
  \A r \in Reader : reading[r].at = "reading" => \A e \in reading[r].due : balance[e] > 0

\* Each commit is one step of the abstract specification and nothing else changes the totals.
Abstract == INSTANCE TrackedRewards
ImplementsTracked == Abstract!TrackedSpec

\* Again and again every message published so far is tracked or put aside, whatever failed on the
\* way: the topic only grows, so each one lands.
EveryMessageLands == []<>(\A i \in DOMAIN topic : topic[i] \in facts \cup dlq)

\* One balance row per fact ("itself runs at most once per reward_fact.id, which the NOT EXISTS
\* subquery below guarantees atomically", customer-reward-balance.repository.ts).
OneBalanceEach == \A e \in Entry : balance[e] <= 1
=============================================================================
