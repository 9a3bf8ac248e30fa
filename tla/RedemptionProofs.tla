--------------------------- MODULE RedemptionProofs ---------------------------
(***************************************************************************)
(* The redemption pipeline for any entries, workers, sweepers and faults:  *)
(* types, the invariants that bound and account for connector calls, and   *)
(* that what is final stays.                                               *)
(* A worker's copy of retry_count stays true because nobody else moves a   *)
(* row that is processing: that is what the inductive invariant says.      *)
(***************************************************************************)
EXTENDS RedemptionProps, TLAPS

----------------------------------------------------------------------------
\* Types.

LEMMA InitTyped == Init => TypeOK
BY RedemptionAssumption DEF RedemptionAssumption, Init, TypeOK, Row, Status, Hand, Empty, NoResult, WorkerStep, Sweep, Resting

\* Shared by the actions of a worker: the new hand and step are well formed.
LEMMA ReleaseTyped ==
  ASSUME TypeOK, NEW w \in Worker, Release(w)
  PROVE hand' \in [Worker -> Hand] /\ step' \in [Worker -> WorkerStep]
BY DEF TypeOK, Release, Hand, Empty, NoResult, WorkerStep

LEMMA SetStatusTyped ==
  ASSUME TypeOK, NEW e \in Entry, NEW status \in Status, SetStatus(e, status)
  PROVE row' \in [Entry -> Row]
BY DEF TypeOK, SetStatus, Row

LEMMA NextStaleTyped ==
  ASSUME TypeOK, NEW s \in Sweeper, NEW ids \in SUBSET Entry, NextStale(s, ids)
  PROVE sweep' \in [Sweeper -> Sweep]
BY DEF TypeOK, NextStale, SetSweep, Sweep

LEMMA StepTyped == TypeOK /\ [Next]_vars => TypeOK'
<1> SUFFICES ASSUME TypeOK, [Next]_vars PROVE TypeOK'
  OBVIOUS
<1> USE RedemptionAssumption DEF RedemptionAssumption
<1>1. ASSUME NEW e \in Entry, Ingest(e) PROVE TypeOK'
  <2>1. row' \in [Entry -> Row]
    BY <1>1, SetStatusTyped DEF Ingest, Status
  <2> QED
    BY <1>1, <2>1 DEF Ingest, TypeOK, workVars
<1>2. ASSUME NEW e \in Entry, BackoffElapses(e) PROVE TypeOK'
  BY <1>2 DEF BackoffElapses, TypeOK, workVars, Row
<1>3. ASSUME NEW w \in Worker, NEW e \in Entry, Claim(w, e) PROVE TypeOK'
  <2>1. row' \in [Entry -> Row]
    BY <1>3, SetStatusTyped DEF Claim, Status
  <2>2. hand' \in [Worker -> Hand]
    <3> DEFINE h == [Empty EXCEPT !.entry = e, !.retryCount = row[e].retryCount]
    <3>1. row[e].retryCount \in Nat
      BY DEF TypeOK, Row
    <3>2. h \in Hand
      BY <3>1 DEF Hand, Empty
    <3>3. hand' = [hand EXCEPT ![w] = h]
      BY <1>3 DEF Claim
    <3> HIDE DEF h
    <3> QED
      BY <3>2, <3>3 DEF TypeOK
  <2> QED
    BY <1>3, <2>1, <2>2 DEF Claim, TypeOK, WorkerStep
<1>4. ASSUME NEW w \in Worker, NEW e \in Entry, CompleteDirect(w, e) PROVE TypeOK'
  <2>1. row' \in [Entry -> Row]
    BY <1>4, SetStatusTyped DEF CompleteDirect, Status
  <2> QED
    BY <1>4, <2>1 DEF CompleteDirect, TypeOK, WorkerStep
<1>5. ASSUME NEW w \in Worker, NEW e \in Entry, ReportDirect(w, e) PROVE TypeOK'
  BY <1>5, ReleaseTyped DEF ReportDirect, TypeOK
<1>6. ASSUME NEW w \in Worker, NEW e \in Entry, BeginCall(w, e) PROVE TypeOK'
  BY <1>6 DEF BeginCall, TypeOK, WorkerStep
<1>7. ASSUME NEW w \in Worker, NEW e \in Entry, NEW result \in Result, EndCall(w, e, result) PROVE TypeOK'
  <2>1. hand' \in [Worker -> Hand]
    BY <1>7 DEF EndCall, TypeOK, Hand
  <2>2. granted' \in [Entry -> Nat]
    BY <1>7 DEF EndCall, TypeOK
  <2> QED
    BY <1>7, <2>1, <2>2 DEF EndCall, TypeOK, WorkerStep
<1>8. ASSUME NEW w \in Worker, NEW e \in Entry, MarkDispatchedExternal(w, e) PROVE TypeOK'
  <2>1. hand[w].result.ref \in Reference \cup {None}
    BY <1>8 DEF TypeOK, Hand, Result, Success, Failure, NoResult
  <2>2. [row[e] EXCEPT !.status = "dispatched_external", !.ref = hand[w].result.ref] \in Row
    <3>1. row[e] \in Row
      BY DEF TypeOK
    <3>2. ASSUME NEW r \in Reference \cup {None}
          PROVE [row[e] EXCEPT !.status = "dispatched_external", !.ref = r] \in Row
      BY <3>1 DEF Row, Status
    <3> QED
      BY <2>1, <3>2
  <2>3. row' \in [Entry -> Row]
    BY <1>8, <2>2 DEF MarkDispatchedExternal, TypeOK
  <2> QED
    BY <1>8, <2>3, ReleaseTyped DEF MarkDispatchedExternal, TypeOK
<1>9. ASSUME NEW w \in Worker, NEW e \in Entry, MarkFailed(w, e) PROVE TypeOK'
  <2>1. row' \in [Entry -> Row]
    BY <1>9, SetStatusTyped DEF MarkFailed, Status
  <2>2. failed' \in [Entry -> Nat]
    BY <1>9 DEF MarkFailed, TypeOK
  <2>3. hand' \in [Worker -> Hand] /\ step' \in [Worker -> WorkerStep]
    BY <1>9, ReleaseTyped DEF MarkFailed
  <2> QED
    BY <1>9, <2>1, <2>2, <2>3 DEF MarkFailed, TypeOK
<1>10. ASSUME NEW w \in Worker, NEW e \in Entry, MarkRetrying(w, e) PROVE TypeOK'
  <2>1. [row[e] EXCEPT !.status = "retrying", !.retryCount = row[e].retryCount + 1, !.due = FALSE] \in Row
    <3> DEFINE n == row[e].retryCount + 1
    <3>1. n \in Nat
      BY DEF TypeOK, Row
    <3> HIDE DEF n
    <3>2. [row[e] EXCEPT !.status = "retrying", !.retryCount = n, !.due = FALSE] \in Row
      BY <3>1 DEF TypeOK, Row, Status
    <3> QED
      BY <3>2 DEF n
  <2>2. row' \in [Entry -> Row]
    BY <1>10, <2>1 DEF MarkRetrying, TypeOK
  <2> QED
    BY <1>10, <2>2, ReleaseTyped DEF MarkRetrying, TypeOK
<1>11. ASSUME NEW w \in Worker, ProcessingFails(w) PROVE TypeOK'
  BY <1>11, ReleaseTyped DEF ProcessingFails, TypeOK
<1>12. ASSUME NEW s \in Sweeper, Scan(s) PROVE TypeOK'
  BY <1>12, NextStaleTyped DEF Scan, TypeOK, workVars
<1>13. ASSUME NEW s \in Sweeper, NEW e \in Entry, PreCheck(s, e) PROVE TypeOK'
  <2>1. sweep[s].ids \in SUBSET Entry
    BY DEF TypeOK, Sweep
  <2>2. sweep' \in [Sweeper -> Sweep]
    BY <1>13, <2>1, NextStaleTyped DEF PreCheck, TypeOK, SetSweep, Sweep
  <2> QED
    BY <1>13, <2>2 DEF PreCheck, TypeOK, workVars
<1>14. ASSUME NEW s \in Sweeper, NEW e \in Entry, ReportSwept(s, e) PROVE TypeOK'
  BY <1>14 DEF ReportSwept, TypeOK, workVars, SetSweep, Sweep
<1>15. ASSUME NEW s \in Sweeper, NEW e \in Entry, Flip(s, e) PROVE TypeOK'
  <2>1. sweep[s].ids \in SUBSET Entry
    BY DEF TypeOK, Sweep
  <2>2. row' \in [Entry -> Row]
    BY <1>15, SetStatusTyped DEF Flip, Status
  <2>3. sweep' \in [Sweeper -> Sweep]
    BY <1>15, <2>1, NextStaleTyped DEF Flip
  <2> QED
    BY <1>15, <2>2, <2>3 DEF Flip, TypeOK, workVars
<1>16. ASSUME NEW s \in Sweeper, SweepFails(s) PROVE TypeOK'
  <2>1. sweep[s].ids \in SUBSET Entry
    BY DEF TypeOK, Sweep
  <2>2. sweep' \in [Sweeper -> Sweep]
    BY <1>16, <2>1, NextStaleTyped DEF SweepFails
  <2> QED
    BY <1>16, <2>2 DEF SweepFails, TypeOK, workVars
<1>17. CASE UNCHANGED vars
  BY <1>17 DEF TypeOK, vars, workVars
<1> QED
  BY <1>1, <1>2, <1>3, <1>4, <1>5, <1>6, <1>7, <1>8, <1>9, <1>10, <1>11, <1>12, <1>13, <1>14, <1>15, <1>16, <1>17
  DEF Next, Pipeline, Record, Sweeps, Answer

\* Rows, hands and sweeps keep their types, whoever fails wherever: no transition of the
\* state machine writes a status outside its enum.
THEOREM TypeCorrect == Spec => []TypeOK
<1>1. Init => TypeOK
  BY InitTyped
<1>2. TypeOK /\ [Next]_vars => TypeOK'
  BY StepTyped
<1> QED
  BY <1>1, <1>2, PTL DEF Spec

----------------------------------------------------------------------------
\* The inductive invariant.

\* No row is in the hands of two workers.
Exclusive ==
  \A v, w \in Worker :
    step[v] # "idle" /\ step[w] # "idle" /\ hand[v].entry = hand[w].entry => v = w

\* What a worker knows of the row e in its hands.
Knows(w, e) ==
  /\ step[w] = "sideEffects" => e \in Unconnected /\ row[e].status = "completed"
  /\ step[w] # "sideEffects" =>
       /\ row[e].status = "processing"
       /\ hand[w].retryCount = row[e].retryCount
  /\ step[w] = "resolve" => granted[e] = 0 /\ calls[e] <= row[e].retryCount
  /\ step[w] = "redeem" => granted[e] = 0
  /\ step[w] = "record" =>
       /\ hand[w].result \in Result
       /\ granted[e] = IF hand[w].result.kind = "SUCCESS" THEN 1 ELSE 0

\* It stays true, whatever the worker waits for.
HandTrue ==
  \A w \in Worker : step[w] # "idle" => hand[w].entry \in Entry /\ Knows(w, hand[w].entry)

\* What a row and its counters say together.
RowTrue ==
  \A e \in Entry :
    /\ row[e].retryCount < maxAttempts[e]
    /\ calls[e] <= row[e].retryCount + 1
    /\ row[e].status \in {"absent", "received", "retrying"} =>
         granted[e] = 0 /\ calls[e] <= row[e].retryCount
    /\ granted[e] <= 1

\* A sweeper works on rows that were redeemed, and flips what it has reported.
SweepTrue ==
  \A s \in Sweeper :
    /\ sweep[s].step \in {"sideEffects", "flip"} =>
         /\ sweep[s].entry \in Entry
         /\ row[sweep[s].entry].status \in {"dispatched_external", "completed"}
         /\ granted[sweep[s].entry] = 1
    /\ sweep[s].step = "flip" => report[sweep[s].entry] > 0

\* What the rows record, as the properties state it.

IInv == TypeOK /\ Exclusive /\ HandTrue /\ RowTrue /\ SweepTrue /\ RecordsAgree

LEMMA InitInv == Init => IInv
<1> SUFFICES ASSUME Init PROVE Exclusive /\ HandTrue /\ RowTrue /\ SweepTrue /\ RecordsAgree
  BY InitTyped DEF IInv
<1>1. Exclusive /\ HandTrue
  BY DEF Init, Exclusive, HandTrue
<1>2. RowTrue
  BY RedemptionAssumption DEF RedemptionAssumption, Init, RowTrue
<1>3. SweepTrue
  BY DEF Init, SweepTrue, Resting
<1>4. RecordsAgree
  BY DEF Init, RecordsAgree, RecordMatchesGrant, FailedIsOnRecord, CompletedIsReported
<1> QED
  BY <1>1, <1>2, <1>3, <1>4

\* SetStatus moves one row to one status and touches nothing else of it.
LEMMA SetStatusEffect ==
  ASSUME TypeOK, NEW e \in Entry, NEW status, SetStatus(e, status)
  PROVE /\ row'[e].status = status /\ row'[e].retryCount = row[e].retryCount
        /\ \A d \in Entry \ {e} : row'[d] = row[d]
BY DEF TypeOK, SetStatus, Row

\* A worker that lets go of its row is idle; the others keep theirs.
LEMMA ReleaseEffect ==
  ASSUME TypeOK, NEW w \in Worker, Release(w)
  PROVE /\ step'[w] = "idle"
        /\ \A v \in Worker \ {w} : step'[v] = step[v] /\ hand'[v] = hand[v]
BY DEF TypeOK, Release

\* When a worker records an answer only its own row moves; the facts about the others stand.
LEMMA RecordStep ==
  ASSUME IInv, TypeOK', NEW w \in Worker, NEW e \in Entry, Record(w, e)
  PROVE IInv'
<1> USE RedemptionAssumption DEF RedemptionAssumption
<1>1. /\ step[w] = "record" /\ hand[w].entry = e /\ Release(w)
      /\ UNCHANGED <<report, calls, granted, sweep>>
  BY DEF Record, MarkDispatchedExternal, MarkFailed, MarkRetrying, InHand
<1>2. row[e].status = "processing" /\ hand[w].retryCount = row[e].retryCount
  BY <1>1 DEF IInv, HandTrue, Knows
<1>3. granted[e] = IF hand[w].result.kind = "SUCCESS" THEN 1 ELSE 0
  BY <1>1 DEF IInv, HandTrue, Knows
<1>4. /\ step'[w] = "idle"
      /\ \A v \in Worker \ {w} : step'[v] = step[v] /\ hand'[v] = hand[v]
  BY <1>1, ReleaseEffect DEF IInv
<1>5. \A d \in Entry \ {e} : row'[d] = row[d] /\ failed'[d] = failed[d]
  BY DEF Record, MarkDispatchedExternal, MarkFailed, MarkRetrying, SetStatus, IInv, TypeOK
<1>6. \/ /\ row'[e].status = "dispatched_external" /\ row'[e].retryCount = row[e].retryCount
         /\ failed'[e] = failed[e] /\ granted[e] = 1
      \/ /\ row'[e].status = "failed" /\ row'[e].retryCount = row[e].retryCount
         /\ failed'[e] = failed[e] + 1 /\ granted[e] = 0
      \/ /\ row'[e].status = "retrying" /\ row'[e].retryCount = row[e].retryCount + 1
         /\ row[e].retryCount + 1 < maxAttempts[e]
         /\ failed'[e] = failed[e] /\ granted[e] = 0
  <2>1. CASE MarkDispatchedExternal(w, e)
    BY <1>3, <2>1 DEF MarkDispatchedExternal, IInv, TypeOK, Row
  <2>2. CASE MarkFailed(w, e)
    BY <1>3, <2>2, SetStatusEffect DEF MarkFailed, GivesUp, IInv, TypeOK
  <2>3. CASE MarkRetrying(w, e)
    <3>1. row[e].retryCount + 1 < maxAttempts[e]
      BY <1>1, <1>2, <2>3 DEF MarkRetrying, IsLastAttempt, IInv, TypeOK, Row
    <3>2. row'[e] = [row[e] EXCEPT !.status = "retrying", !.retryCount = row[e].retryCount + 1, !.due = FALSE]
      BY <2>3 DEF MarkRetrying, IInv, TypeOK
    <3>3. row'[e].status = "retrying" /\ row'[e].retryCount = row[e].retryCount + 1
      <4> row[e] \in Row
        BY DEF IInv, TypeOK
      <4> DEFINE n == row[e].retryCount + 1
      <4> HIDE DEF n
      <4>1. row'[e] = [row[e] EXCEPT !.status = "retrying", !.retryCount = n, !.due = FALSE]
        BY <3>2 DEF n
      <4>2. row'[e].status = "retrying" /\ row'[e].retryCount = n
        BY <4>1 DEF Row
      <4> QED
        BY <4>2 DEF n
    <3>4. failed' = failed /\ granted[e] = 0
      BY <1>3, <2>3 DEF MarkRetrying
    <3> QED
      BY <3>1, <3>3, <3>4
  <2> QED
    BY <2>1, <2>2, <2>3 DEF Record
<1>7. \A v \in Worker \ {w} : step[v] # "idle" => hand[v].entry # e
  BY <1>1 DEF IInv, Exclusive
<1>8. Exclusive'
  BY <1>4 DEF IInv, Exclusive
<1>9. HandTrue'
  BY <1>1, <1>4, <1>5, <1>7 DEF IInv, HandTrue, Knows
<1>10. RowTrue'
  <2>1. \A d \in Entry : row[d].retryCount \in Nat /\ calls[d] \in Nat /\ granted[d] \in Nat
    BY DEF IInv, TypeOK, Row
  <2> QED
    BY <1>1, <1>5, <1>6, <2>1 DEF IInv, RowTrue
<1>11. SweepTrue'
  BY <1>1, <1>2, <1>5 DEF IInv, SweepTrue
<1>12. RecordsAgree'
  <2>1. failed[e] = 0
    BY <1>2 DEF IInv, RecordsAgree, FailedIsOnRecord
  <2> QED
    BY <1>1, <1>5, <1>6, <2>1 DEF IInv, RecordsAgree, RecordMatchesGrant, FailedIsOnRecord, CompletedIsReported
<1> QED
  BY <1>8, <1>9, <1>10, <1>11, <1>12 DEF IInv

\* A step that leaves workers, connector calls and the statuses of rows alone, and does
\* not lose reports, can only disturb what the sweepers know.
LEMMA QuietStep ==
  ASSUME IInv, TypeOK', UNCHANGED <<failed, workVars>>,
         \A e \in Entry : /\ row'[e].status = row[e].status /\ row'[e].retryCount = row[e].retryCount
                          /\ report'[e] >= report[e],
         SweepTrue'
  PROVE IInv'
<1>1. Exclusive' /\ HandTrue'
  BY DEF IInv, Exclusive, HandTrue, Knows, workVars
<1>2. RowTrue'
  BY DEF IInv, RowTrue, workVars
<1>3. RecordsAgree'
  <2>1. \A e \in Entry : report[e] > 0 => report'[e] > 0
    BY DEF IInv, TypeOK
  <2> QED
    BY <2>1 DEF IInv, RecordsAgree, RecordMatchesGrant, FailedIsOnRecord, CompletedIsReported, workVars
<1> QED
  BY <1>1, <1>2, <1>3 DEF IInv

LEMMA StepInv == IInv /\ [Next]_vars => IInv'
<1> SUFFICES ASSUME IInv, [Next]_vars PROVE IInv'
  OBVIOUS
<1> USE RedemptionAssumption DEF RedemptionAssumption
<1>0. TypeOK /\ TypeOK'
  BY StepTyped DEF IInv
<1>1. ASSUME NEW e \in Entry, Ingest(e) PROVE IInv'
  <2>1. /\ row[e].status = "absent" /\ row'[e].status = "received"
        /\ row'[e].retryCount = row[e].retryCount
        /\ \A d \in Entry \ {e} : row'[d] = row[d]
    BY <1>0, <1>1, SetStatusEffect DEF Ingest
  <2>2. UNCHANGED <<failed, report, workVars, sweep>>
    BY <1>1 DEF Ingest
  <2>3. Exclusive' /\ HandTrue'
    BY <2>1, <2>2 DEF IInv, Exclusive, HandTrue, Knows, workVars
  <2>4. RowTrue'
    BY <2>1, <2>2 DEF IInv, RowTrue, workVars
  <2>5. SweepTrue'
    BY <2>1, <2>2 DEF IInv, SweepTrue, workVars
  <2>6. RecordsAgree'
    BY <2>1, <2>2 DEF IInv, RecordsAgree, RecordMatchesGrant, FailedIsOnRecord, CompletedIsReported, workVars
  <2> QED
    BY <1>0, <2>3, <2>4, <2>5, <2>6 DEF IInv
<1>2. ASSUME NEW e \in Entry, BackoffElapses(e) PROVE IInv'
  <2>1. \A d \in Entry : row'[d].status = row[d].status /\ row'[d].retryCount = row[d].retryCount
    BY <1>0, <1>2 DEF BackoffElapses, TypeOK, Row
  <2>2. SweepTrue'
    BY <1>2, <2>1 DEF BackoffElapses, IInv, SweepTrue, workVars
  <2>3. \A d \in Entry : report'[d] >= report[d]
    BY <1>0, <1>2 DEF BackoffElapses, TypeOK
  <2> QED
    BY <1>0, <1>2, <2>1, <2>2, <2>3, QuietStep DEF BackoffElapses
<1>3. ASSUME NEW w \in Worker, NEW e \in Entry, Claim(w, e) PROVE IInv'
  <2>1. row[e].status \in {"received", "retrying"}
    BY <1>3 DEF Claim, IsOldest, Eligible
  <2>2. /\ row'[e].status = "processing" /\ row'[e].retryCount = row[e].retryCount
        /\ \A d \in Entry \ {e} : row'[d] = row[d]
    BY <1>0, <1>3, SetStatusEffect DEF Claim
  <2>3. /\ step'[w] = "resolve" /\ hand'[w].entry = e /\ hand'[w].retryCount = row[e].retryCount
        /\ \A v \in Worker \ {w} : step'[v] = step[v] /\ hand'[v] = hand[v]
    BY <1>0, <1>3 DEF Claim, TypeOK, Empty
  <2>4. UNCHANGED <<failed, report, calls, granted, sweep>>
    BY <1>3 DEF Claim
  <2>5. \A v \in Worker : step[v] # "idle" => hand[v].entry # e
    BY <2>1 DEF IInv, HandTrue, Knows
  <2>6. Exclusive'
    BY <2>3, <2>5 DEF IInv, Exclusive
  <2>7. HandTrue'
    <3>1. ASSUME NEW v \in Worker, v # w, step'[v] # "idle" PROVE hand'[v].entry \in Entry /\ Knows(v, hand[v].entry)'
      BY <2>2, <2>3, <2>4, <2>5, <3>1 DEF IInv, HandTrue, Knows
    <3>2. hand'[w].entry \in Entry /\ Knows(w, hand[w].entry)'
      BY <2>1, <2>2, <2>3, <2>4 DEF IInv, RowTrue, Knows
    <3> QED
      BY <3>1, <3>2 DEF HandTrue
  <2>8. RowTrue'
    BY <2>2, <2>4 DEF IInv, RowTrue
  <2>9. SweepTrue'
    BY <2>1, <2>2, <2>4 DEF IInv, SweepTrue
  <2>10. RecordsAgree'
    BY <2>1, <2>2, <2>4 DEF IInv, RecordsAgree, RecordMatchesGrant, FailedIsOnRecord, CompletedIsReported
  <2> QED
    BY <1>0, <2>6, <2>7, <2>8, <2>9, <2>10 DEF IInv
<1>4. ASSUME NEW w \in Worker, NEW e \in Entry, CompleteDirect(w, e) PROVE IInv'
  <2>1. e \in Unconnected /\ row[e].status = "processing" /\ step[w] = "resolve" /\ hand[w].entry = e
    BY <1>4 DEF CompleteDirect, Locked, InHand
  <2>2. /\ row'[e].status = "completed" /\ row'[e].retryCount = row[e].retryCount
        /\ \A d \in Entry \ {e} : row'[d] = row[d]
    BY <1>0, <1>4, SetStatusEffect DEF CompleteDirect
  <2>3. /\ step'[w] = "sideEffects" /\ hand' = hand
        /\ \A v \in Worker \ {w} : step'[v] = step[v]
    BY <1>0, <1>4 DEF CompleteDirect, TypeOK
  <2>4. UNCHANGED <<failed, report, calls, granted, sweep>>
    BY <1>4 DEF CompleteDirect
  <2>5. \A v \in Worker \ {w} : step[v] # "idle" => hand[v].entry # e
    BY <2>1 DEF IInv, Exclusive
  <2>6. Exclusive'
    BY <2>1, <2>3, <2>5 DEF IInv, Exclusive
  <2>7. HandTrue'
    BY <2>1, <2>2, <2>3, <2>4, <2>5 DEF IInv, HandTrue, Knows
  <2>8. RowTrue'
    BY <2>2, <2>4 DEF IInv, RowTrue
  <2>9. SweepTrue'
    BY <2>1, <2>2, <2>4 DEF IInv, SweepTrue
  <2>10. RecordsAgree'
    BY <2>1, <2>2, <2>4 DEF IInv, RecordsAgree, RecordMatchesGrant, FailedIsOnRecord, CompletedIsReported
  <2> QED
    BY <1>0, <2>6, <2>7, <2>8, <2>9, <2>10 DEF IInv
<1>5. ASSUME NEW w \in Worker, NEW e \in Entry, ReportDirect(w, e) PROVE IInv'
  <2>1. /\ step'[w] = "idle"
        /\ \A v \in Worker \ {w} : step'[v] = step[v] /\ hand'[v] = hand[v]
    BY <1>0, <1>5, ReleaseEffect DEF ReportDirect
  <2>2. UNCHANGED <<row, failed, calls, granted, sweep>>
    BY <1>5 DEF ReportDirect
  <2>3. \A d \in Entry : report[d] > 0 => report'[d] > 0
    BY <1>0, <1>5 DEF ReportDirect, TypeOK
  <2>4. Exclusive' /\ HandTrue'
    BY <2>1, <2>2 DEF IInv, Exclusive, HandTrue, Knows
  <2>5. RowTrue'
    BY <2>2 DEF IInv, RowTrue
  <2>6. SweepTrue'
    BY <2>2, <2>3 DEF IInv, SweepTrue
  <2>7. RecordsAgree'
    BY <2>2, <2>3 DEF IInv, RecordsAgree, RecordMatchesGrant, FailedIsOnRecord, CompletedIsReported
  <2> QED
    BY <1>0, <2>4, <2>5, <2>6, <2>7 DEF IInv
<1>6. ASSUME NEW w \in Worker, NEW e \in Entry, BeginCall(w, e) PROVE IInv'
  <2>1. step[w] = "resolve" /\ hand[w].entry = e
    BY <1>6 DEF BeginCall, InHand
  <2>2. /\ step'[w] = "redeem" /\ hand' = hand
        /\ \A v \in Worker \ {w} : step'[v] = step[v]
    BY <1>0, <1>6 DEF BeginCall, TypeOK
  <2>3. /\ calls'[e] = calls[e] + 1
        /\ \A d \in Entry \ {e} : calls'[d] = calls[d]
    BY <1>0, <1>6 DEF BeginCall, TypeOK
  <2>4. UNCHANGED <<row, failed, report, granted, sweep>>
    BY <1>6 DEF BeginCall
  <2>5. \A v \in Worker \ {w} : step[v] # "idle" => hand[v].entry # e
    BY <2>1 DEF IInv, Exclusive
  <2>6. row[e].status = "processing" /\ calls[e] <= row[e].retryCount
    BY <2>1 DEF IInv, HandTrue, Knows
  <2>7. Exclusive'
    BY <2>1, <2>2, <2>5 DEF IInv, Exclusive
  <2>8. HandTrue'
    BY <2>1, <2>2, <2>3, <2>4, <2>5 DEF IInv, HandTrue, Knows
  <2>9. RowTrue'
    <3>1. \A d \in Entry : row[d].retryCount \in Nat /\ calls[d] \in Nat
      BY <1>0 DEF TypeOK, Row
    <3> QED
      BY <2>3, <2>4, <2>6, <3>1 DEF IInv, RowTrue
  <2>10. SweepTrue' /\ RecordsAgree'
    BY <2>4 DEF IInv, SweepTrue, RecordsAgree, RecordMatchesGrant, FailedIsOnRecord, CompletedIsReported
  <2> QED
    BY <1>0, <2>7, <2>8, <2>9, <2>10 DEF IInv
<1>7. ASSUME NEW w \in Worker, NEW e \in Entry, NEW result \in Result, EndCall(w, e, result) PROVE IInv'
  <2>1. step[w] = "redeem" /\ hand[w].entry = e
    BY <1>7 DEF EndCall, InHand
  <2>2. /\ step'[w] = "record" /\ hand'[w].entry = e /\ hand'[w].result = result
        /\ hand'[w].retryCount = hand[w].retryCount
        /\ \A v \in Worker \ {w} : step'[v] = step[v] /\ hand'[v] = hand[v]
    BY <1>0, <1>7, <2>1 DEF EndCall, TypeOK, Hand
  <2>3. row[e].status = "processing" /\ granted[e] = 0 /\ hand[w].retryCount = row[e].retryCount
    BY <2>1 DEF IInv, HandTrue, Knows
  <2>4. result \in Success <=> result.kind = "SUCCESS"
    BY DEF Result, Success, Failure
  <2>5. /\ granted'[e] = IF result.kind = "SUCCESS" THEN 1 ELSE 0
        /\ \A d \in Entry \ {e} : granted'[d] = granted[d]
    BY <1>0, <1>7, <2>3, <2>4 DEF EndCall, TypeOK
  <2>6. UNCHANGED <<row, failed, report, calls, sweep>>
    BY <1>7 DEF EndCall
  <2>7. \A v \in Worker \ {w} : step[v] # "idle" => hand[v].entry # e
    BY <2>1 DEF IInv, Exclusive
  <2>8. Exclusive'
    BY <2>1, <2>2, <2>7 DEF IInv, Exclusive
  <2>9. HandTrue'
    <3>1. ASSUME NEW v \in Worker, v # w, step'[v] # "idle" PROVE hand'[v].entry \in Entry /\ Knows(v, hand[v].entry)'
      BY <2>2, <2>5, <2>6, <2>7, <3>1 DEF IInv, HandTrue, Knows
    <3>2. hand'[w].entry \in Entry /\ Knows(w, hand[w].entry)'
      BY <2>2, <2>3, <2>5, <2>6 DEF Knows
    <3> QED
      BY <3>1, <3>2 DEF HandTrue
  <2>10. RowTrue'
    BY <2>3, <2>5, <2>6 DEF IInv, RowTrue
  <2>11. SweepTrue'
    BY <2>3, <2>5, <2>6 DEF IInv, SweepTrue
  <2>12. RecordsAgree'
    BY <2>3, <2>5, <2>6 DEF IInv, RecordsAgree, RecordMatchesGrant, FailedIsOnRecord, CompletedIsReported
  <2> QED
    BY <1>0, <2>8, <2>9, <2>10, <2>11, <2>12 DEF IInv
<1>8. ASSUME NEW w \in Worker, NEW e \in Entry, Record(w, e) PROVE IInv'
  BY <1>0, <1>8, RecordStep
<1>9. ASSUME NEW w \in Worker, ProcessingFails(w) PROVE IInv'
  <2>1. /\ step'[w] = "idle"
        /\ \A v \in Worker \ {w} : step'[v] = step[v] /\ hand'[v] = hand[v]
    BY <1>0, <1>9, ReleaseEffect DEF ProcessingFails
  <2>2. UNCHANGED <<row, failed, report, calls, granted, sweep>>
    BY <1>9 DEF ProcessingFails
  <2>3. Exclusive' /\ HandTrue'
    BY <2>1, <2>2 DEF IInv, Exclusive, HandTrue, Knows
  <2>4. RowTrue' /\ SweepTrue'
    BY <2>2 DEF IInv, RowTrue, SweepTrue
  <2>5. RecordsAgree'
    BY <2>2 DEF IInv, RecordsAgree, RecordMatchesGrant, FailedIsOnRecord, CompletedIsReported
  <2> QED
    BY <1>0, <2>3, <2>4, <2>5 DEF IInv
<1>10. ASSUME NEW s \in Sweeper, Sweeps(s) \/ SweepFails(s),
              \A e \in Entry : ~ Flip(s, e)
       PROVE IInv'
  <2>1. row' = row /\ UNCHANGED <<failed, workVars>>
    BY <1>10 DEF Sweeps, Scan, PreCheck, ReportSwept, SweepFails
  <2>2. \A d \in Entry : report'[d] >= report[d]
    <3>1. report' = report \/ \E e \in Entry : report' = [report EXCEPT ![e] = report[e] + 1]
      BY <1>10 DEF Sweeps, Scan, PreCheck, ReportSwept, SweepFails
    <3> QED
      BY <1>0, <3>1 DEF TypeOK
  <2>3. \A t \in Sweeper \ {s} : sweep'[t] = sweep[t]
    BY <1>0, <1>10 DEF Sweeps, Scan, PreCheck, ReportSwept, SweepFails, NextStale, SetSweep, TypeOK
  <2>4. \/ sweep'[s].step \in {"idle", "preCheck"}
        \/ /\ sweep'[s].step = "sideEffects" /\ sweep'[s].entry \in Entry
           /\ row[sweep'[s].entry].status = "dispatched_external"
        \/ /\ sweep'[s].step = "flip" /\ sweep[s].step = "sideEffects"
           /\ sweep'[s].entry = sweep[s].entry /\ report'[sweep[s].entry] > 0
    BY <1>0, <1>10 DEF Sweeps, Scan, PreCheck, ReportSwept, SweepFails, NextStale, SetSweep, TypeOK
  <2>5. SweepTrue'
    <3>1. \A d \in Entry : report[d] > 0 => report'[d] > 0
      BY <1>0, <2>2 DEF TypeOK
    <3>2. \A d \in Entry : row[d].status = "dispatched_external" => granted[d] = 1
      BY DEF IInv, RecordsAgree, RecordMatchesGrant
    <3> QED
      BY <2>1, <2>3, <2>4, <3>1, <3>2 DEF IInv, SweepTrue, workVars
  <2> QED
    BY <1>0, <2>1, <2>2, <2>5, QuietStep
<1>11. ASSUME NEW s \in Sweeper, NEW e \in Entry, Flip(s, e) PROVE IInv'
  <2>1. /\ row[e].status \in {"dispatched_external", "completed"}
        /\ granted[e] = 1 /\ report[e] > 0
    BY <1>11 DEF Flip, IInv, SweepTrue
  <2>2. /\ row'[e].status = "completed" /\ row'[e].retryCount = row[e].retryCount
        /\ \A d \in Entry \ {e} : row'[d] = row[d]
    BY <1>0, <1>11, SetStatusEffect DEF Flip
  <2>3. UNCHANGED <<failed, report, workVars>>
    BY <1>11 DEF Flip
  <2>4. /\ sweep'[s].step \in {"idle", "preCheck"}
        /\ \A t \in Sweeper \ {s} : sweep'[t] = sweep[t]
    BY <1>0, <1>11 DEF Flip, NextStale, SetSweep, TypeOK
  <2>5. Exclusive' /\ HandTrue'
    BY <2>1, <2>2, <2>3 DEF IInv, Exclusive, HandTrue, Knows, workVars
  <2>6. RowTrue'
    BY <2>1, <2>2, <2>3 DEF IInv, RowTrue, workVars
  <2>7. SweepTrue'
    BY <2>1, <2>2, <2>3, <2>4 DEF IInv, SweepTrue, workVars
  <2>8. RecordsAgree'
    BY <2>1, <2>2, <2>3 DEF IInv, RecordsAgree, RecordMatchesGrant, FailedIsOnRecord, CompletedIsReported, workVars
  <2> QED
    BY <1>0, <2>5, <2>6, <2>7, <2>8 DEF IInv
<1>12. CASE UNCHANGED vars
  BY <1>0, <1>12 DEF vars, workVars, IInv, Exclusive, HandTrue, Knows, RowTrue, SweepTrue, RecordsAgree, RecordMatchesGrant, FailedIsOnRecord, CompletedIsReported
<1>13. CASE \E s \in Sweeper : Sweeps(s) \/ SweepFails(s)
  BY <1>10, <1>11, <1>13
<1> QED
  BY <1>1, <1>2, <1>3, <1>4, <1>5, <1>6, <1>7, <1>8, <1>9, <1>12, <1>13 DEF Next, Pipeline, Answer

LEMMA InvHolds == Spec => []IInv
BY InitInv, StepInv, PTL DEF Spec

\* The calls begun for an entry never exceed its configuration's max_retry_attempts: the
\* worker's copy of retry_count is the row's, and every recorded attempt raised it.
THEOREM CallsAreBounded == Spec => []CallsBounded
<1>1. IInv => CallsBounded
  BY RedemptionAssumption DEF RedemptionAssumption, IInv, TypeOK, Row, RowTrue, CallsBounded
<1> QED
  BY <1>1, InvHolds, PTL

\* A reward system that granted an entry is not called for it again.
THEOREM GrantsAreSingle == Spec => []GrantedOnce
<1>1. IInv => GrantedOnce
  BY DEF IInv, RowTrue, GrantedOnce
<1> QED
  BY <1>1, InvHolds, PTL

\* Rows record what the reward systems answered, each failure has its row, and nothing
\* completes unreported.
THEOREM RecordsAreTrue == Spec => []RecordsAgree
<1>1. IInv => RecordsAgree
  BY DEF IInv, RecordsAgree
<1> QED
  BY <1>1, InvHolds, PTL

\* Every transition of the state machine leaves a row that is final as it is, and one that
\* was redeemed can only complete, for lockRow and the sweep's guards let no other through.
THEOREM FinalIsKept == Spec => FinalStays
<1> DEFINE Stays(e) ==
      /\ row[e].status \in Final => row'[e] = row[e]
      /\ row[e].status = "dispatched_external" => row'[e].status \in {"dispatched_external", "completed"}
<1>1. IInv /\ [Next]_vars => \A e \in Entry : Stays(e)
  <2> SUFFICES ASSUME IInv, [Next]_vars, NEW d \in Entry PROVE Stays(d)
    OBVIOUS
  <2>0. row \in [Entry -> Row]
    BY DEF IInv, TypeOK
  <2>1. ASSUME NEW e \in Entry, Ingest(e) \/ BackoffElapses(e) PROVE Stays(d)
    BY <2>0, <2>1 DEF Ingest, BackoffElapses, SetStatus, Final
  <2>2. ASSUME NEW w \in Worker, NEW e \in Entry, Claim(w, e) \/ CompleteDirect(w, e) PROVE Stays(d)
    BY <2>0, <2>2 DEF Claim, IsOldest, Eligible, CompleteDirect, Locked, SetStatus, Final
  <2>3. ASSUME NEW w \in Worker, NEW e \in Entry, Record(w, e) PROVE Stays(d)
    <3>1. row[e].status \in {"processing", "retrying"} /\ (d # e => row'[d] = row[d])
      BY <2>0, <2>3 DEF Record, MarkDispatchedExternal, MarkFailed, MarkRetrying, Locked, SetStatus
    <3> QED
      BY <3>1 DEF Final
  <2>4. ASSUME NEW w \in Worker, NEW e \in Entry,
               ReportDirect(w, e) \/ BeginCall(w, e) \/ Answer(w, e) \/ ProcessingFails(w)
        PROVE Stays(d)
    BY <2>4 DEF ReportDirect, BeginCall, Answer, EndCall, ProcessingFails
  <2>5. ASSUME NEW s \in Sweeper, Scan(s) \/ SweepFails(s) \/ \E e \in Entry : PreCheck(s, e) \/ ReportSwept(s, e)
        PROVE Stays(d)
    BY <2>5 DEF Scan, PreCheck, ReportSwept, SweepFails
  <2>6. ASSUME NEW s \in Sweeper, NEW e \in Entry, Flip(s, e) PROVE Stays(d)
    <3>1. row[e].status = "completed" => row'[e] = row[e]
      BY <2>0, <2>6 DEF Flip, SetStatus, Row
    <3>2. row[e].status # "failed" /\ row'[e].status = "completed" /\ (d # e => row'[d] = row[d])
      BY <2>0, <2>6 DEF Flip, SetStatus, Row
    <3> QED
      BY <3>1, <3>2 DEF Final
  <2>7. ASSUME NEW w \in Worker, ProcessingFails(w) PROVE Stays(d)
    BY <2>7 DEF ProcessingFails
  <2>8. CASE UNCHANGED vars
    BY <2>8 DEF vars
  <2> QED
    BY <2>1, <2>2, <2>3, <2>4, <2>5, <2>6, <2>7, <2>8 DEF Next, Pipeline, Sweeps
<1> QED
  BY <1>1, InvHolds, PTL DEF Spec, FinalStays
=============================================================================
