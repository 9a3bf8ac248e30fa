--------------------------- MODULE RedemptionProps ---------------------------
(***************************************************************************)
(* What reward-redemption-service's pipeline must keep to.                 *)
(***************************************************************************)
EXTENDS Redemption

\* Rows, hands and sweeps hold values of their types.
TypeOK ==
  /\ row \in [Entry -> Row]
  /\ failed \in [Entry -> Nat]
  /\ report \in [Entry -> Nat]
  /\ calls \in [Entry -> Nat]
  /\ granted \in [Entry -> Nat]
  /\ hand \in [Worker -> Hand]
  /\ step \in [Worker -> WorkerStep]
  /\ sweep \in [Sweeper -> Sweep]
  /\ faults \in 0 .. MaxFaults

\* No reward costs its system more than max_retry_attempts calls, whatever workers claim
\* its row in turn and wherever they die.
CallsBounded == \A e \in Entry : calls[e] <= maxAttempts[e]

\* Once the reward system has answered SUCCESS for an entry it is never asked again, even
\* if the answer could not be recorded.
GrantedOnce == \A e \in Entry : granted[e] <= 1

\* A reward recorded as redeemed was granted, and one recorded as failed was not: the
\* answer a worker records is the answer to its own claim.
RecordMatchesGrant ==
  \A e \in Entry :
    /\ row[e].status = "dispatched_external" => granted[e] = 1
    /\ row[e].status = "completed" /\ e \notin Unconnected => granted[e] = 1
    /\ row[e].status = "failed" => granted[e] = 0

\* reward_redemption_failed has exactly one row for each failed entry, and none for others.
FailedIsOnRecord ==
  \A e \in Entry : failed[e] = IF row[e].status = "failed" THEN 1 ELSE 0

\* An externally redeemed reward is not completed before it is handed to reward tracking,
\* whichever of several sweepers completes it and wherever one of them stops.
CompletedIsReported ==
  \A e \in Entry : row[e].status = "completed" /\ e \notin Unconnected => report[e] > 0

\* The tables tell one story of every entry, and it is what the reward systems answered.
RecordsAgree == RecordMatchesGrant /\ FailedIsOnRecord /\ CompletedIsReported

\* What is final stays, and what was redeemed can only complete
\* (dispatched_external -> failed is no edge of the state machine).
FinalStays ==
  [][\A e \in Entry :
       /\ row[e].status \in Final => row'[e] = row[e]
       /\ row[e].status = "dispatched_external" => row'[e].status \in {"dispatched_external", "completed"}]_vars

\* Faults aside, every ingested reward reaches a final status; one recorded as redeemed completes
\* even when workers and sweepers fail on the way.
EverythingSettles ==
  \A e \in Entry :
    /\ row[e].status = "received" ~> (row[e].status \in Final \/ faults > 0)
    /\ row[e].status = "dispatched_external" ~> row[e].status = "completed"
==============================================================================
