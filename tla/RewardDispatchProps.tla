------------------------ MODULE RewardDispatchProps ------------------------
(* What reward delivery promises. *)
EXTENDS RewardDispatch

\* Every variable holds a value of its type.
TypeOK ==
  /\ entryStatus \in [Reward -> EntryStatus]
  /\ outbox \in [Reward -> OutboxRow]
  /\ retries \in Seq(RetryRow)
  /\ delivered \in [Reward -> Nat]
  /\ batch \in [Publisher -> SUBSET OutboxRead]
  /\ step \in [Publisher -> PublisherStep]
  /\ due \in [RetryWorker -> SUBSET RetryRead]
  /\ wstep \in [RetryWorker -> WorkerStep]
  /\ faults \in Nat
  /\ mishaps \in [Reward -> SUBSET Mishap]

RetriesOf(r) == {i \in DOMAIN retries : retries[i].reward = r}
Resolved(r) == \E i \in RetriesOf(r) : retries[i].status = "resolved"
Exhausted(r) == \E i \in RetriesOf(r) : retries[i].status = "exhausted"

\* No row claims a delivery that did not happen: whatever instances, faults and lost
\* answers interleave, a reward marked dispatched, published or resolved was accepted
\* by reward-redemption-service (attemptChannel, resolve).
MarkedMeansDelivered ==
  \A r \in Reward :
    (entryStatus[r] = "dispatched" \/ outbox[r].status = "PUBLISHED" \/ Resolved(r))
      => delivered[r] > 0

\* Tier 3 is the last resort: a retry row exists only once the outbox row has used up its
\* primary attempts and one fallback attempt (processRow's threshold), although each
\* instance decides from the attempts it read earlier.
RetryOnlyAfterBothTiers ==
  \A i \in DOMAIN retries : outbox[retries[i].reward].attempts > MaxAttempts

\* The three tables tell one story of a reward nobody is working on, unless two instances
\* held it at once or a fault struck half-way through its statements: dispatched exactly
\* when the outbox or a retry says so, failed exactly when both say it has not arrived, and
\* then with the retry row that is to deliver it (attemptChannel, resolve). Lost answers,
\* faults elsewhere and any number of instances are no excuse.
StatusesAgree ==
  \A r \in Reward : ~InHand(r) /\ mishaps[r] \subseteq {"lostAnswer"} =>
    /\ entryStatus[r] = "dispatched" <=> (outbox[r].status = "PUBLISHED" \/ Resolved(r))
    /\ entryStatus[r] = "failed" <=> (outbox[r].status = "FAILED" /\ ~Resolved(r))
    /\ outbox[r].status = "FAILED" => RetriesOf(r) # {}

\* Whichever tier succeeds first stops the others (docs/handover.md section 3.1): what makes
\* reward-redemption-service accept a reward twice is a lost answer, two instances that held
\* it at once or a fault between the send and its statements, and nothing else.
NeverDeliveredTwice == \A r \in Reward : mishaps[r] = {} => delivered[r] <= 1

\* A reward both tiers failed to deliver has a retry row, or its publisher is about to
\* write one ("If both tier 1 and tier 2 fail, a row is written here").
NothingStranded ==
  \A r \in Reward : (outbox[r].status = "FAILED" /\ ~InHand(r)) => RetriesOf(r) # {}

\* An unreadable row at or before r's ends every poll ahead of r.
Reached(r) == \A q \in Unreadable : createdAt[r] < createdAt[q]

Settles(r) ==
  (entryStatus[r] # "absent")
    ~> (entryStatus[r] = "dispatched" \/ Exhausted(r) \/ "fault" \in mishaps[r])

\* Every granted reward the polls reach is dispatched in the end, or given up after tier 3's
\* last attempt, whatever instances share it and whatever answers are lost; only a fault
\* half-way through its own statements can keep it from that.
EveryRewardSettles == \A r \in Reward : Reached(r) => Settles(r)
=============================================================================
