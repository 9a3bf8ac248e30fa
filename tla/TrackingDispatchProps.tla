------------------------- MODULE TrackingDispatchProps -------------------------
(* What TrackingDispatch promises. *)
EXTENDS TrackingDispatch

TypeOK ==
  /\ facts \subseteq Entry /\ ledger \in [Grain -> Nat] /\ counter \in [Shard -> Nat]
  /\ outbox \in Seq(Row) /\ retries \in Seq(RetryRow)
  /\ topic \subseteq Entry /\ late \subseteq Entry
  /\ pub \in Pub
  /\ worker \in [at : {"idle", "sending", "delivered"}, row : Nat, ways : Seq(Channel)]
  /\ throws \in [Entry -> Nat] /\ faults \in 0..MaxFaults

Safe(e) == e \in facts \cup topic
Rows(e, status) == {i \in DOMAIN outbox : outbox[i].entry = e /\ outbox[i].status = status}
Retries(e, status) == {i \in DOMAIN retries : retries[i].entry = e /\ retries[i].status = status}

\* No announcement is forgotten: until it has been handed over it is pending, in the retry table,
\* or kept where an operator finds it, whichever statement failed and wherever the process died;
\* and only what was handed over leaves the retry table.
NothingForgotten ==
  /\ \A i \in DOMAIN outbox :
       LET e == outbox[i].entry
       IN \/ Safe(e)
          \/ outbox[i].status \in {"PENDING", "POISONED"}
          \/ \E s \in {"pending", "exhausted"} : Retries(e, s) # {}
  /\ \A e \in Entry : Retries(e, "gone") # {} => Safe(e)

\* An outbox row that has left PENDING is never taken up again ("permanently ending its own
\* findPendingBatch eligibility", outbox-publisher.service.ts), although an update by id may still
\* rewrite it: the catch of a statement that failed after it had committed. That one only poisons.
SettledStays ==
  [][\A i \in DOMAIN outbox :
       outbox[i].status # "PENDING" =>
         /\ outbox'[i].status \in {outbox[i].status, "POISONED"}
         /\ ~(pub'.at = "row" /\ pub'.current.row = i)]_vars

\* Again and again every announcement made so far is settled: tracked, poisoned or exhausted. The
\* rows that can never be sent are the oldest and fill a batch, and still starve none behind them.
Settled(e) == e \in facts \/ Rows(e, "POISONED") # {} \/ Retries(e, "exhausted") # {}
EveryEntrySettles == []<>(\A i \in DOMAIN outbox : Settled(outbox[i].entry))

\* A row is poisoned for throwing before any attempt to send it, so many times in a row
\* ("how many consecutive times a reward_tracking_dispatch_outbox row may throw *before any
\* dispatch attempt is even made*", dispatch.config.ts).
PoisonedAfterThrows ==
  \A i \in DOMAIN outbox : outbox[i].status = "POISONED" => throws[outbox[i].entry] >= MaxUnsent
=============================================================================
