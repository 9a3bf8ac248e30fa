----------------------------- MODULE Redemption -----------------------------
(***************************************************************************)
(* reward-redemption-service's pipeline: a reward entry is ingested once   *)
(* by its id, claimed by a worker, redeemed by a call to the connector of  *)
(* its reward system outside any transaction, and recorded by the state    *)
(* machine. A sweep completes what was redeemed and reports it to reward   *)
(* tracking. What the connector answers is left open here.                 *)
(***************************************************************************)
EXTENDS Naturals, FiniteSets

CONSTANTS
  Entry,        \* reward entries, by their idempotent id
  Worker,       \* claim worker processes, one poll loop each
  Sweeper,      \* CompletionSweepService instances
  createdAt,    \* [Entry -> Nat]: created_at of the rows
  Unconnected,  \* entries whose reward system has no active connector configuration
  maxAttempts,  \* [Entry -> Nat]: max_retry_attempts of the entry's connector configuration
  Reference,    \* what a connector returns as external_reference_id
  None,         \* no reference, no entry
  MaxFaults     \* bound: exceptions and crashes in a run

ASSUME RedemptionAssumption ==
  /\ createdAt \in [Entry -> Nat]
  /\ \A d, e \in Entry : createdAt[d] = createdAt[e] => d = e
  /\ Unconnected \subseteq Entry
  /\ maxAttempts \in [Entry -> Nat \ {0}]
  /\ None \notin Reference
  /\ None \notin Entry
  /\ MaxFaults \in Nat

VARIABLES
  row,      \* [Entry -> Row]: reward_redemption_entry
  failed,   \* [Entry -> Nat]: reward_redemption_failed rows
  report,   \* [Entry -> Nat]: reward_tracking_dispatch_outbox rows
  calls,    \* [Entry -> Nat]: connector calls begun
  granted,  \* [Entry -> Nat]: connector calls that answered SUCCESS
  hand,     \* [Worker -> Hand]: the row as it was when claimed
  step,     \* [Worker -> WorkerStep]: what it does next
  sweep,    \* [Sweeper -> Sweep]: the ids still to resume, and the one being resumed
  faults    \* what MaxFaults counts

workVars == <<calls, granted, hand, step>>
vars == <<row, failed, report, workVars, sweep, faults>>

Status == {"absent", "received", "processing", "retrying", "dispatched_external", "completed", "failed"}
Final == {"completed", "failed"}
Row == [status: Status, retryCount: Nat, due: BOOLEAN, ref: Reference \cup {None}]

\* RedemptionResult.
Success == [kind: {"SUCCESS"}, ref: Reference]
Failure == [kind: {"RETRYABLE_FAILURE", "PERMANENT_FAILURE"}, ref: {None}]
NoResult == [kind |-> "none", ref |-> None]
Result == Success \cup Failure

Hand == [entry: Entry \cup {None}, retryCount: Nat, result: Result \cup {NoResult}]
Empty == [entry |-> None, retryCount |-> 0, result |-> NoResult]
WorkerStep == {"idle", "resolve", "redeem", "record", "sideEffects"}
Sweep == [ids: SUBSET Entry, entry: Entry \cup {None}, step: {"idle", "preCheck", "sideEffects", "flip"}]
Resting == [ids |-> {}, entry |-> None, step |-> "idle"]

Init ==
  /\ row = [e \in Entry |-> [status |-> "absent", retryCount |-> 0, due |-> TRUE, ref |-> None]]
  /\ failed = [e \in Entry |-> 0]
  /\ report = [e \in Entry |-> 0]
  /\ calls = [e \in Entry |-> 0]
  /\ granted = [e \in Entry |-> 0]
  /\ hand = [w \in Worker |-> Empty]
  /\ step = [w \in Worker |-> "idle"]
  /\ sweep = [s \in Sweeper |-> Resting]
  /\ faults = 0

SetStatus(e, status) == row' = [row EXCEPT ![e].status = status]

\* insertOrGetExisting. A redelivery conflicts on the id and changes nothing.
Ingest(e) ==
  /\ row[e].status = "absent"
  /\ \A d \in Entry : createdAt[d] < createdAt[e] => row[d].status # "absent"
  /\ SetStatus(e, "received")
  /\ UNCHANGED <<failed, report, workVars, sweep, faults>>

----------------------------------------------------------------------------
\* Claim worker.

Eligible == {e \in Entry : row[e].status \in {"received", "retrying"} /\ row[e].due}
IsOldest(e) == e \in Eligible /\ \A d \in Eligible : createdAt[e] <= createdAt[d]

Claim_FinalToo(w, e) ==
  /\ step[w] = "idle"
  /\ row[e].status \notin {"absent", "processing"} /\ row[e].due
  /\ SetStatus(e, "processing")
  /\ hand' = [hand EXCEPT ![w] = [Empty EXCEPT !.entry = e, !.retryCount = row[e].retryCount]]
  /\ step' = [step EXCEPT ![w] = "resolve"]
  /\ UNCHANGED <<failed, report, calls, granted, sweep, faults>>
\* claimNext, and pollLoop up to the orchestrator.
Claim(w, e) ==
  /\ step[w] = "idle"
  /\ IsOldest(e)
  /\ SetStatus(e, "processing")
  /\ hand' = [hand EXCEPT ![w] = [Empty EXCEPT !.entry = e, !.retryCount = row[e].retryCount]]
  /\ step' = [step EXCEPT ![w] = "resolve"]
  /\ UNCHANGED <<failed, report, calls, granted, sweep, faults>>

InHand(w, e, at) == step[w] = at /\ hand[w].entry = e

Release(w) ==
  /\ hand' = [hand EXCEPT ![w] = Empty]
  /\ step' = [step EXCEPT ![w] = "idle"]

\* lockRow lets the transition through from these statuses only; from others it throws.
Locked(e, from) == row[e].status \in from

\* processClaimedEntry, no connector configuration: markCompletedDirect commits.
CompleteDirect(w, e) ==
  /\ InHand(w, e, "resolve")
  /\ e \in Unconnected
  /\ Locked(e, {"processing"})
  /\ SetStatus(e, "completed")
  /\ step' = [step EXCEPT ![w] = "sideEffects"]
  /\ UNCHANGED <<failed, report, calls, granted, hand, sweep, faults>>

\* ... and only then are its side effects recorded.
ReportDirect(w, e) ==
  /\ InHand(w, e, "sideEffects")
  /\ report' = [report EXCEPT ![e] = @ + 1]
  /\ Release(w)
  /\ UNCHANGED <<row, failed, calls, granted, sweep, faults>>

\* processClaimedEntry up to connector.redeem.
BeginCall(w, e) ==
  /\ InHand(w, e, "resolve")
  /\ e \notin Unconnected
  /\ calls' = [calls EXCEPT ![e] = @ + 1]
  /\ step' = [step EXCEPT ![w] = "redeem"]
  /\ UNCHANGED <<row, failed, report, granted, hand, sweep, faults>>

\* connector.redeem returns, a timeout included.
EndCall(w, e, result) ==
  /\ InHand(w, e, "redeem")
  /\ hand' = [hand EXCEPT ![w] = [@ EXCEPT !.result = result]]
  /\ granted' = [granted EXCEPT ![e] = IF result \in Success THEN @ + 1 ELSE @]
  /\ step' = [step EXCEPT ![w] = "record"]
  /\ UNCHANGED <<row, failed, report, calls, sweep, faults>>

IsLastAttempt(w) == hand[w].retryCount + 1 >= maxAttempts[hand[w].entry]

MarkDispatchedExternal(w, e) ==
  /\ InHand(w, e, "record")
  /\ hand[w].result.kind = "SUCCESS"
  /\ Locked(e, {"processing"})
  /\ row' = [row EXCEPT ![e] = [row[e] EXCEPT !.status = "dispatched_external", !.ref = hand[w].result.ref]]
  /\ Release(w)
  /\ UNCHANGED <<failed, report, calls, granted, sweep, faults>>

GivesUp(w) ==
  \/ hand[w].result.kind = "PERMANENT_FAILURE"
  \/ hand[w].result.kind = "RETRYABLE_FAILURE" /\ IsLastAttempt(w)

\* The reward_redemption_failed row goes into the same transaction.
MarkFailed(w, e) ==
  /\ InHand(w, e, "record")
  /\ GivesUp(w)
  /\ Locked(e, {"processing", "retrying"})
  /\ failed' = [failed EXCEPT ![e] = @ + 1]
  /\ SetStatus(e, "failed")
  /\ Release(w)
  /\ UNCHANGED <<report, calls, granted, sweep, faults>>

MarkRetrying_LeftProcessing(w, e) ==
  /\ InHand(w, e, "record")
  /\ hand[w].result.kind = "RETRYABLE_FAILURE" /\ ~IsLastAttempt(w)
  /\ row' = [row EXCEPT ![e] = [@ EXCEPT !.retryCount = @ + 1, !.due = FALSE]]
  /\ Release(w)
  /\ UNCHANGED <<failed, report, calls, granted, sweep, faults>>
MarkRetrying_NotCounted(w, e) ==
  /\ InHand(w, e, "record")
  /\ hand[w].result.kind = "RETRYABLE_FAILURE" /\ ~IsLastAttempt(w)
  /\ Locked(e, {"processing", "retrying"})
  /\ row' = [row EXCEPT ![e] = [@ EXCEPT !.status = "retrying", !.due = FALSE]]
  /\ Release(w)
  /\ UNCHANGED <<failed, report, calls, granted, sweep, faults>>
MarkRetrying(w, e) ==
  /\ InHand(w, e, "record")
  /\ hand[w].result.kind = "RETRYABLE_FAILURE" /\ ~IsLastAttempt(w)
  /\ Locked(e, {"processing", "retrying"})
  /\ row' = [row EXCEPT ![e] = [row[e] EXCEPT !.status = "retrying", !.retryCount = row[e].retryCount + 1, !.due = FALSE]]
  /\ Release(w)
  /\ UNCHANGED <<failed, report, calls, granted, sweep, faults>>

\* next_attempt_at passes.
BackoffElapses(e) ==
  /\ row[e].status = "retrying" /\ ~row[e].due
  /\ row' = [row EXCEPT ![e].due = TRUE]
  /\ UNCHANGED <<failed, report, workVars, sweep, faults>>

\* processClaimedEntry throws, which pollLoop only logs, or the process dies: nothing
\* returns the row from processing.
ProcessingFails(w) ==
  /\ step[w] # "idle"
  /\ faults < MaxFaults
  /\ faults' = faults + 1
  /\ Release(w)
  /\ UNCHANGED <<row, failed, report, calls, granted, sweep>>

Record(w, e) == MarkDispatchedExternal(w, e) \/ MarkFailed(w, e) \/ MarkRetrying(w, e)

----------------------------------------------------------------------------
\* Completion sweep.

SetSweep(s, ids, e, next) == sweep' = [sweep EXCEPT ![s] = [ids |-> ids, entry |-> e, step |-> next]]
\* On to the next id of the scan.
NextStale(s, ids) == SetSweep(s, ids, None, IF ids = {} THEN "idle" ELSE "preCheck")

\* STALE_DISPATCHED_EXTERNAL_SQL: any of these rows may be past its grace period.
Scan(s) ==
  /\ sweep[s].step = "idle"
  /\ \E stale \in SUBSET {e \in Entry : row[e].status = "dispatched_external"} :
       stale # {} /\ NextStale(s, stale)
  /\ UNCHANGED <<row, failed, report, workVars, faults>>

\* completeDispatched: fetchRow, without a lock.
PreCheck(s, e) ==
  /\ sweep[s].step = "preCheck"
  /\ e \in sweep[s].ids
  /\ \/ row[e].status = "completed" /\ NextStale(s, sweep[s].ids \ {e})
     \/ row[e].status = "dispatched_external" /\ SetSweep(s, sweep[s].ids, e, "sideEffects")
  /\ UNCHANGED <<row, failed, report, workVars, faults>>

\* enqueueTrackingDispatch: nothing makes reward_entry_id unique in the outbox.
ReportSwept(s, e) ==
  /\ sweep[s].step = "sideEffects" /\ sweep[s].entry = e
  /\ report' = [report EXCEPT ![e] = @ + 1]
  /\ SetSweep(s, sweep[s].ids, e, "flip")
  /\ UNCHANGED <<row, failed, workVars, faults>>

Flip_BeforeReport(s, e) ==
  /\ sweep[s].step = "sideEffects" /\ sweep[s].entry = e
  /\ SetStatus(e, "completed")
  /\ NextStale(s, sweep[s].ids \ {e})
  /\ UNCHANGED <<failed, report, workVars, faults>>
\* The locked flip; a row another sweeper completed meanwhile is left as it is.
Flip(s, e) ==
  /\ sweep[s].step = "flip" /\ sweep[s].entry = e
  /\ row[e].status \in {"dispatched_external", "completed"}
  /\ SetStatus(e, "completed")
  /\ NextStale(s, sweep[s].ids \ {e})
  /\ UNCHANGED <<failed, report, workVars, faults>>

\* completeDispatched throws, which sweepOnce logs, or the process dies.
SweepFails(s) ==
  /\ sweep[s].step # "idle"
  /\ faults < MaxFaults
  /\ faults' = faults + 1
  /\ \/ sweep[s].entry # None /\ NextStale(s, sweep[s].ids \ {sweep[s].entry})
     \/ NextStale(s, {})
  /\ UNCHANGED <<row, failed, report, workVars>>

Sweeps(s) == Scan(s) \/ \E e \in Entry : PreCheck(s, e) \/ ReportSwept(s, e) \/ Flip(s, e)

----------------------------------------------------------------------------
\* Everything but the connector's answer.
Pipeline ==
  \/ \E e \in Entry : Ingest(e) \/ BackoffElapses(e)
  \/ \E w \in Worker, e \in Entry :
       Claim(w, e) \/ CompleteDirect(w, e) \/ ReportDirect(w, e) \/ BeginCall(w, e) \/ Record(w, e)
  \/ \E w \in Worker : ProcessingFails(w)
  \/ \E s \in Sweeper : Sweeps(s) \/ SweepFails(s)

Answer(w, e) == \E result \in Result : EndCall(w, e, result)

Next == Pipeline \/ \E w \in Worker, e \in Entry : Answer(w, e)

Spec == Init /\ [][Next]_vars

\* The poll loop's next step. Every call ends: the connectors put a timeout on it.
Works(w) ==
  \E e \in Entry : \/ Claim(w, e) \/ CompleteDirect(w, e) \/ ReportDirect(w, e)
                   \/ BeginCall(w, e) \/ Answer(w, e) \/ Record(w, e)

Fairness ==
  /\ \A w \in Worker : WF_vars(Works(w))
  /\ \A s \in Sweeper : WF_vars(Sweeps(s))
  /\ \A e \in Entry : WF_vars(BackoffElapses(e))

FairSpec == Spec /\ Fairness
=============================================================================
