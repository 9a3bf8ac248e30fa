------------------------ MODULE PromoRedemptionProofs ------------------------
(***************************************************************************)
(* Redeeming promo codes, for any workers, handlers, codes and correlation *)
(* ids. Only a handler's Insert touches what is issued, and a result       *)
(* message always carries an issued code; so every answer that reaches a   *)
(* worker is one the pipeline expects of a connector.                      *)
(***************************************************************************)
EXTENDS PromoRedemptionProps, RedemptionProofs

----------------------------------------------------------------------------
\* What the service has issued, and what is on its way back.

Issuing ==
  /\ issued \in [Correlation -> Reference \cup {None}]
  /\ outbox \in [Correlation -> Promo!OutboxRow]
  /\ results \subseteq Promo!Message
  /\ \A c \in Correlation : outbox[c].status # "absent" => issued[c] # None

LEMMA InitIssuing == PromoInit => Issuing
BY DEF PromoInit, Promo!Init, Issuing, Promo!OutboxRow

\* Every step but Insert and Publish leaves the codes, the outbox and the results alone, or
\* consumes a result.
LEMMA OnlyInsertAndPublish ==
  ASSUME [PromoNext]_allVars
  PROVE \/ UNCHANGED <<issued, outbox>> /\ results' \subseteq results
        \/ \E h \in Handler, code \in Reference : Promo!Insert(h, code)
        \/ \E c \in Correlation : Promo!Publish(c)
<1>1. CASE Proceed
  BY <1>1 DEF Proceed, promoVars
<1>2. ASSUME NEW w \in Worker, NEW e \in Entry, Redeem(w, e) \/ PublishRequest(w, e)
      PROVE UNCHANGED <<issued, outbox, results>>
  BY <1>2 DEF Redeem, PublishRequest, Promo!Request, promoVars
<1>3. ASSUME NEW w \in Worker, NEW e \in Entry, FallBack(w, e) \/ TimeOut(w, e) \/ Rejected(w, e)
      PROVE UNCHANGED <<issued, outbox, results>>
  BY <1>3 DEF FallBack, TimeOut, Rejected, HangUp, promoVars
<1>4. ASSUME NEW w \in Worker, NEW e \in Entry, NEW h \in Handler, ServeCall(w, e, h)
      PROVE UNCHANGED <<issued, outbox, results>>
  BY <1>4 DEF ServeCall, Promo!Serve
<1>5. ASSUME NEW w \in Worker, WorkerFails(w) PROVE UNCHANGED <<issued, outbox, results>>
  BY <1>5 DEF WorkerFails, HangUp
<1>6. ASSUME NEW w \in Worker, NEW m \in results, ResolveResult(w, m)
      PROVE UNCHANGED <<issued, outbox>> /\ results' \subseteq results
  BY <1>6 DEF ResolveResult
<1>7. ASSUME NEW h \in Handler, AnswerCall(h) \/ HandlerDies(h) PROVE UNCHANGED <<issued, outbox, results>>
  BY <1>7 DEF AnswerCall, HandlerDies, Promo!Respond, Promo!Die
<1>8. ASSUME NEW h \in Handler, ServiceWorks(h)
      PROVE UNCHANGED <<issued, outbox, results>> \/ \E code \in Reference : Promo!Insert(h, code)
  BY <1>8 DEF ServiceWorks, Promo!Consume, Promo!Check, Promo!Acknowledge, Promo!DeadLetter
<1>9. ASSUME NEW c \in Correlation, PublishResult(c) PROVE Promo!Publish(c)
  BY <1>9 DEF PublishResult
<1>10. CASE UNCHANGED allVars
  BY <1>10 DEF allVars, promoVars
<1> QED
  BY <1>1, <1>2, <1>3, <1>4, <1>5, <1>6, <1>7, <1>8, <1>9, <1>10 DEF PromoNext

\* Insert issues a code nobody has to a correlation id that has none, or nothing.
LEMMA InsertEffect ==
  ASSUME Issuing, NEW h \in Handler, NEW code \in Reference, Promo!Insert(h, code)
  PROVE \/ UNCHANGED <<issued, outbox, results>>
        \/ /\ \A c \in Correlation : issued[c] # code
           /\ issued[job[h].corr] = None
           /\ issued' = [issued EXCEPT ![job[h].corr] = code]
           /\ \/ outbox' = outbox
              \/ outbox' = [outbox EXCEPT ![job[h].corr] = [status |-> "PENDING", attempts |-> 0]]
           /\ results' = results
BY DEF Promo!Insert, Promo!Create, Promo!Taken

LEMMA PublishEffect ==
  ASSUME Issuing, NEW c \in Correlation, Promo!Publish(c)
  PROVE /\ issued' = issued
        /\ results' \subseteq results \cup {[corr |-> c, code |-> issued[c]]}
        /\ outbox[c].status = "PENDING"
        /\ \/ outbox' = outbox
           \/ \E status \in {"PUBLISHED", "PENDING", "FAILED"} :
                outbox' = [outbox EXCEPT ![c] = [status |-> status, attempts |-> outbox[c].attempts + 1]]
BY DEF Promo!Publish, Promo!Send, Promo!SetOutbox

LEMMA StepIssuing == Issuing /\ [PromoNext]_allVars => Issuing'
<1> SUFFICES ASSUME Issuing, [PromoNext]_allVars PROVE Issuing'
  OBVIOUS
<1> USE RedemptionAssumption DEF RedemptionAssumption
<1>1. CASE UNCHANGED <<issued, outbox>> /\ results' \subseteq results
  BY <1>1 DEF Issuing
<1>2. ASSUME NEW h \in Handler, NEW code \in Reference, Promo!Insert(h, code) PROVE Issuing'
  <2>1. issued' \in [Correlation -> Reference \cup {None}] /\ results' \subseteq Promo!Message
    BY <1>2, InsertEffect DEF Issuing
  <2>2. outbox' \in [Correlation -> Promo!OutboxRow]
    BY <1>2, InsertEffect DEF Issuing, Promo!OutboxRow
  <2>3. \A c \in Correlation : outbox'[c].status # "absent" => issued'[c] # None
    BY <1>2, InsertEffect DEF Issuing
  <2> QED
    BY <2>1, <2>2, <2>3 DEF Issuing
<1>3. ASSUME NEW c \in Correlation, Promo!Publish(c) PROVE Issuing'
  <2>1. issued[c] \in Reference
    BY <1>3, PublishEffect DEF Issuing
  <2>2. results' \subseteq Promo!Message
    BY <1>3, <2>1, PublishEffect DEF Issuing, Promo!Message
  <2>3. outbox' \in [Correlation -> Promo!OutboxRow]
    <3>1. outbox[c].attempts + 1 \in Nat
      BY DEF Issuing, Promo!OutboxRow
    <3> DEFINE n == outbox[c].attempts + 1
    <3> HIDE DEF n
    <3>2. outbox' = outbox \/ \E status \in {"PUBLISHED", "PENDING", "FAILED"} :
            outbox' = [outbox EXCEPT ![c] = [status |-> status, attempts |-> n]]
      BY <1>3, PublishEffect DEF n
    <3>3. n \in Nat
      BY <3>1 DEF n
    <3> QED
      BY <3>2, <3>3 DEF Issuing, Promo!OutboxRow
  <2>4. \A d \in Correlation : outbox'[d].status # "absent" => issued'[d] # None
    <3>1. \A d \in Correlation \ {c} : outbox'[d] = outbox[d]
      BY <1>3, PublishEffect DEF Issuing
    <3> QED
      BY <1>3, <2>1, <3>1, PublishEffect DEF Issuing
  <2> QED
    BY <1>3, <2>2, <2>3, <2>4, PublishEffect DEF Issuing
<1> QED
  BY <1>1, <1>2, <1>3, OnlyInsertAndPublish

LEMMA IssuingHolds == PromoSpec => []Issuing
BY InitIssuing, StepIssuing, PTL DEF PromoSpec

----------------------------------------------------------------------------
\* The handlers, the requests and the calls: a job that has begun is about a correlation id.

JobsTyped ==
  /\ job \in [Handler -> Promo!Job]
  /\ \A h \in Handler : job[h].step # "idle" => job[h].corr \in Correlation
CallsTyped == JobsTyped /\ requests \in [Correlation -> Nat] /\ call \in [Worker -> CallStep]

LEMMA JobStep ==
  ASSUME JobsTyped, NEW h \in Handler, NEW j \in Promo!Job, j.step # "idle" => j.corr \in Correlation,
         job' = [job EXCEPT ![h] = j]
  PROVE JobsTyped'
BY DEF JobsTyped

LEMMA NoJobIsTyped == Promo!NoJob \in Promo!Job /\ Promo!NoJob.step = "idle"
BY DEF Promo!NoJob, Promo!Job

LEMMA AnswerTyped ==
  ASSUME JobsTyped, NEW h \in Handler, job[h].step # "idle",
         NEW a \in Reference \cup Promo!Error \cup {None}, Promo!Answer(h, a)
  PROVE JobsTyped'
<1>1. job[h] \in Promo!Job /\ job[h].corr \in Correlation
  BY DEF JobsTyped
<1>2. Promo!Answered(job[h], a) \in Promo!Job /\ Promo!Answered(job[h], a).corr = job[h].corr
  BY <1>1 DEF Promo!Answered, Promo!Job
<1> QED
  BY <1>1, <1>2, JobStep DEF Promo!Answer

LEMMA AttemptTyped ==
  ASSUME JobsTyped, NEW h \in Handler, job[h].step # "idle", NEW n \in Nat, Promo!Attempt(h, n)
  PROVE JobsTyped'
<1>1. job[h] \in Promo!Job /\ job[h].corr \in Correlation
  BY DEF JobsTyped
<1>2. Promo!Attempting(job[h], n) \in Promo!Job /\ Promo!Attempting(job[h], n).corr = job[h].corr
  BY <1>1 DEF Promo!Attempting, Promo!Job
<1> QED
  BY <1>1, <1>2, JobStep DEF Promo!Attempt

LEMMA StartTyped ==
  ASSUME JobsTyped, NEW h \in Handler, NEW c \in Correlation, NEW t \in {"KAFKA", "SYNC"},
         NEW w \in Worker \cup {None}, Promo!Start(h, c, t, w)
  PROVE JobsTyped'
<1> DEFINE j == [corr |-> c, transport |-> t, caller |-> w, step |-> "check", attempt |-> 0, answer |-> None]
<1>1. j \in Promo!Job /\ j.corr \in Correlation
  BY DEF Promo!Job
<1>2. job' = [job EXCEPT ![h] = j]
  BY DEF Promo!Start
<1> HIDE DEF j
<1> QED
  BY <1>1, <1>2, JobStep

LEMMA HangUpTyped == ASSUME JobsTyped, NEW w, HangUp(w) PROVE JobsTyped'
<1>1. ASSUME NEW h \in Handler
      PROVE /\ [job[h] EXCEPT !.caller = None] \in Promo!Job
            /\ [job[h] EXCEPT !.caller = None].step = job[h].step
            /\ [job[h] EXCEPT !.caller = None].corr = job[h].corr
  BY DEF JobsTyped, Promo!Job
<1>2. job' = [h \in Handler |-> IF job[h].caller = w THEN [job[h] EXCEPT !.caller = None] ELSE job[h]]
  BY DEF HangUp, Promo!HungUp
<1> QED
  BY <1>1, <1>2 DEF JobsTyped

\* A job ends with NoJob.
LEMMA DoneTyped ==
  ASSUME JobsTyped, NEW h \in Handler, job' = [job EXCEPT ![h] = Promo!NoJob]
  PROVE JobsTyped'
BY NoJobIsTyped, JobStep

LEMMA ServiceTyped ==
  ASSUME Issuing, CallsTyped, NEW h \in Handler, ServiceWorks(h)
  PROVE CallsTyped'
<1> DEFINE Asked == requests' \in [Correlation -> Nat]
<1>0. /\ JobsTyped /\ requests \in [Correlation -> Nat] /\ call' = call /\ call \in [Worker -> CallStep]
      /\ job[h] \in Promo!Job /\ (job[h].step # "idle" => job[h].corr \in Correlation)
  BY DEF CallsTyped, JobsTyped, ServiceWorks
<1>1. ASSUME NEW c \in Correlation, Promo!Consume(h, c) PROVE JobsTyped' /\ Asked
  BY <1>0, <1>1, StartTyped DEF Promo!Consume
<1>2. ASSUME Promo!Check(h) PROVE JobsTyped' /\ Asked
  <2>1. job[h].step # "idle" /\ job[h].corr \in Correlation /\ requests' = requests
    BY <1>0, <1>2 DEF Promo!Check, Promo!Working
  <2>2. issued[job[h].corr] \in Reference \cup {None} /\ "CONFIG_NOT_BOUND" \in Promo!Error
    BY <2>1 DEF Issuing, Promo!Error
  <2>3. \/ Promo!Answer(h, issued[job[h].corr]) \/ Promo!Answer(h, "CONFIG_NOT_BOUND")
        \/ Promo!Attempt(h, 1)
    BY <1>2 DEF Promo!Check
  <2> QED
    BY <1>0, <2>1, <2>2, <2>3, AnswerTyped, AttemptTyped
<1>3. ASSUME NEW code \in Reference, Promo!Insert(h, code) PROVE JobsTyped' /\ Asked
  <2>1. job[h].step # "idle" /\ job[h].corr \in Correlation /\ requests' = requests
    BY <1>0, <1>3 DEF Promo!Insert, Promo!Working
  <2>2. issued[job[h].corr] \in Reference \cup {None} /\ "GENERATION_EXHAUSTED" \in Promo!Error
    BY <2>1 DEF Issuing, Promo!Error
  <2>3. job[h].attempt + 1 \in Nat
    BY <1>0 DEF Promo!Job
  <2>4. \/ Promo!Attempt(h, job[h].attempt + 1) \/ Promo!Answer(h, "GENERATION_EXHAUSTED")
        \/ Promo!Answer(h, issued[job[h].corr]) \/ Promo!Answer(h, code)
    BY <1>3 DEF Promo!Insert, Promo!Collide, Promo!Create
  <2> QED
    BY <1>0, <2>1, <2>2, <2>3, <2>4, AnswerTyped, AttemptTyped
<1>4. ASSUME Promo!Acknowledge(h) \/ Promo!DeadLetter(h) PROVE JobsTyped' /\ Asked
  <2>1. /\ job[h].step # "idle" /\ job' = [job EXCEPT ![h] = Promo!NoJob]
        /\ requests' = [requests EXCEPT ![job[h].corr] =
             IF requests[job[h].corr] > 0 THEN requests[job[h].corr] - 1 ELSE 0]
    BY <1>4 DEF Promo!Acknowledge, Promo!DeadLetter, Promo!Working
  <2>2. requests[job[h].corr] \in Nat
    BY <1>0, <2>1
  <2>3. Asked
    BY <1>0, <2>1, <2>2
  <2> QED
    BY <1>0, <2>1, <2>3, DoneTyped
<1>5. JobsTyped' /\ Asked
  BY <1>1, <1>2, <1>3, <1>4 DEF ServiceWorks
<1> QED
  BY <1>0, <1>5 DEF CallsTyped

LEMMA CallsStep == Issuing /\ CallsTyped /\ [PromoNext]_allVars => CallsTyped'
<1> SUFFICES ASSUME Issuing, CallsTyped, [PromoNext]_allVars PROVE CallsTyped'
  OBVIOUS
<1> USE RedemptionAssumption, ConnectorAssumption DEF RedemptionAssumption, ConnectorAssumption
<1>0. /\ JobsTyped /\ requests \in [Correlation -> Nat] /\ call \in [Worker -> CallStep]
      /\ job \in [Handler -> Promo!Job]
  BY DEF CallsTyped, JobsTyped
<1>1. ASSUME UNCHANGED <<job, requests>>, call' \in [Worker -> CallStep] PROVE CallsTyped'
  BY <1>0, <1>1 DEF CallsTyped, JobsTyped
<1>2. ASSUME NEW w \in Worker, NEW at \in CallStep, Goes(w, at) PROVE call' \in [Worker -> CallStep]
  BY <1>0, <1>2 DEF Goes
<1>3. Channel \subseteq CallStep /\ {"NONE", "AWAITING", "REST"} \subseteq CallStep
      /\ \A c : Served(c) \in CallStep
  BY DEF Channel, CallStep, Connection, Served
<1>4. CASE Proceed
  BY <1>0, <1>1, <1>4 DEF Proceed, promoVars
<1>5. ASSUME NEW w \in Worker, NEW e \in Entry, Redeem(w, e) \/ Rejected(w, e) PROVE CallsTyped'
  BY <1>0, <1>1, <1>2, <1>3, <1>5 DEF Redeem, Rejected, promoVars
<1>6. ASSUME NEW w \in Worker, NEW e \in Entry, PublishRequest(w, e) PROVE CallsTyped'
  <2>1. call' \in [Worker -> CallStep]
    BY <1>2, <1>3, <1>6 DEF PublishRequest
  <2>2. CASE Promo!Request(corrOf[e])
    <3>1. corrOf[e] \in Correlation /\ requests[corrOf[e]] + 1 \in Nat
      BY <1>0
    <3>2. requests' \in [Correlation -> Nat] /\ job' = job
      BY <1>0, <2>2, <3>1 DEF Promo!Request
    <3> QED
      BY <1>0, <2>1, <3>2 DEF CallsTyped, JobsTyped
  <2>3. CASE UNCHANGED promoVars
    BY <1>1, <2>1, <2>3 DEF promoVars
  <2> QED
    BY <1>6, <2>2, <2>3 DEF PublishRequest
<1>7. ASSUME NEW w \in Worker, NEW e \in Entry, FallBack(w, e) \/ TimeOut(w, e) PROVE CallsTyped'
  BY <1>0, <1>2, <1>3, <1>7, HangUpTyped DEF FallBack, TimeOut, HangUp, CallsTyped
<1>8. ASSUME NEW w \in Worker, WorkerFails(w) PROVE CallsTyped'
  BY <1>0, <1>2, <1>3, <1>8, HangUpTyped DEF WorkerFails, HangUp, CallsTyped
<1>9. ASSUME NEW w \in Worker, NEW e \in Entry, NEW h \in Handler, ServeCall(w, e, h) PROVE CallsTyped'
  <2>1. corrOf[e] \in Correlation /\ Promo!Start(h, corrOf[e], "SYNC", w) /\ requests' = requests
    BY <1>9 DEF ServeCall, Promo!Serve
  <2>2. call' \in [Worker -> CallStep]
    BY <1>2, <1>3, <1>9 DEF ServeCall
  <2> QED
    BY <1>0, <2>1, <2>2, StartTyped DEF CallsTyped
<1>10. ASSUME NEW w \in Worker, NEW m \in results, ResolveResult(w, m) PROVE CallsTyped'
  BY <1>0, <1>1, <1>2, <1>3, <1>10 DEF ResolveResult
<1>11. ASSUME NEW h \in Handler, AnswerCall(h) PROVE CallsTyped'
  <2>1. job' = [job EXCEPT ![h] = Promo!NoJob] /\ requests' = requests
    BY <1>11 DEF AnswerCall, Promo!Respond
  <2>2. call' \in [Worker -> CallStep]
    BY <1>0, <1>2, <1>3, <1>11 DEF AnswerCall
  <2> QED
    BY <1>0, <2>1, <2>2, DoneTyped DEF CallsTyped
<1>12. ASSUME NEW h \in Handler, HandlerDies(h) PROVE CallsTyped'
  BY <1>0, <1>12, DoneTyped DEF HandlerDies, Promo!Die, CallsTyped
<1>13. ASSUME NEW h \in Handler, ServiceWorks(h) PROVE CallsTyped'
  BY <1>13, ServiceTyped
<1>14. ASSUME NEW c \in Correlation, PublishResult(c) PROVE CallsTyped'
  BY <1>0, <1>1, <1>14 DEF PublishResult, Promo!Publish
<1>15. CASE UNCHANGED allVars
  BY <1>0, <1>1, <1>15 DEF allVars, promoVars
<1>16. ASSUME PromoNext PROVE CallsTyped'
  <2>1. ASSUME NEW w \in Worker, NEW e \in Entry,
               \/ Redeem(w, e) \/ PublishRequest(w, e) \/ FallBack(w, e) \/ TimeOut(w, e) \/ Rejected(w, e)
               \/ \E h \in Handler : ServeCall(w, e, h)
        PROVE CallsTyped'
    BY <1>5, <1>6, <1>7, <1>9, <2>1
  <2> QED
    BY <1>4, <1>8, <1>10, <1>11, <1>12, <1>13, <1>14, <1>16, <2>1 DEF PromoNext
<1> QED
  BY <1>15, <1>16

\* The service's tables, topics and handlers keep to their types.
THEOREM PromoTypeCorrect == PromoSpec => []PromoTypeOK
<1>1. PromoInit => CallsTyped
  BY NoJobIsTyped DEF PromoInit, Promo!Init, CallsTyped, JobsTyped, CallStep
<1>2. Issuing /\ CallsTyped => PromoTypeOK
  BY DEF Issuing, CallsTyped, JobsTyped, PromoTypeOK
<1> QED
  BY <1>1, <1>2, CallsStep, IssuingHolds, PTL DEF PromoSpec

----------------------------------------------------------------------------
\* The pipeline behind which the service works.

LEMMA ClassifyResult == \A answer : Classify(answer) \in Result
BY DEF Classify, Granted, Refused, Result, Success, Failure

LEMMA PromoStep == Issuing /\ [PromoNext]_allVars => [Next]_vars
<1> SUFFICES ASSUME Issuing, [PromoNext]_allVars PROVE [Next]_vars
  OBVIOUS
<1>1. CASE Proceed
  BY <1>1 DEF Proceed, Next, Pipeline
<1>2. ASSUME NEW w \in Worker, NEW e \in Entry, Redeem(w, e) PROVE Next
  BY <1>2 DEF Redeem, Next, Pipeline
<1>3. ASSUME NEW w \in Worker, NEW e \in Entry, PublishRequest(w, e) \/ FallBack(w, e) PROVE UNCHANGED vars
  BY <1>3 DEF PublishRequest, FallBack
<1>4. ASSUME NEW w \in Worker, NEW e \in Entry, TimeOut(w, e) \/ Rejected(w, e) PROVE Next
  <2>1. Refused("RETRYABLE_FAILURE") \in Result /\ Refused("PERMANENT_FAILURE") \in Result
    BY DEF Refused, Result, Failure
  <2> QED
    BY <1>4, <2>1 DEF TimeOut, Rejected, Next, Answer
<1>5. ASSUME NEW w \in Worker, NEW e \in Entry, NEW h \in Handler, ServeCall(w, e, h) PROVE UNCHANGED vars
  BY <1>5 DEF ServeCall
<1>6. ASSUME NEW w \in Worker, WorkerFails(w) PROVE Next
  BY <1>6 DEF WorkerFails, Next, Pipeline
<1>7. ASSUME NEW w \in Worker, NEW m \in results, ResolveResult(w, m) PROVE Next \/ UNCHANGED vars
  <2>1. Granted(m.code) \in Result
    BY DEF Issuing, Promo!Message, Granted, Result, Success
  <2> QED
    BY <1>7, <2>1 DEF ResolveResult, Next, Answer
<1>8. ASSUME NEW h \in Handler, AnswerCall(h) PROVE Next \/ UNCHANGED vars
  BY <1>8, ClassifyResult DEF AnswerCall, Next, Answer
<1>9. ASSUME NEW h \in Handler, ServiceWorks(h) \/ HandlerDies(h) PROVE UNCHANGED vars
  BY <1>9 DEF ServiceWorks, HandlerDies
<1>10. ASSUME NEW c \in Correlation, PublishResult(c) PROVE UNCHANGED vars
  BY <1>10 DEF PublishResult
<1>11. CASE UNCHANGED allVars
  BY <1>11 DEF allVars
<1> QED
  BY <1>1, <1>2, <1>3, <1>4, <1>5, <1>6, <1>7, <1>8, <1>9, <1>10, <1>11 DEF PromoNext

\* Redemption with the promo-code connector and service implements Redemption with any
\* connector: every step is a step of the pipeline or none.
THEOREM Implements == PromoSpec => IsARedemption
<1>1. PromoInit => Init
  BY DEF PromoInit
<1> QED
  BY <1>1, PromoStep, IssuingHolds, PTL DEF PromoSpec, IsARedemption, Spec

\* So the pipeline's guarantees hold with promo-code-service behind it: lost, late and
\* repeated answers neither exceed max_retry_attempts nor grant a reward twice.
THEOREM PromoKeepsGuarantees == PromoSpec => [](CallsBounded /\ GrantedOnce /\ RecordsAgree)
BY Implements, CallsAreBounded, GrantsAreSingle, RecordsAreTrue, PTL DEF IsARedemption

----------------------------------------------------------------------------
\* The reference a redemption records. A handler keeps a caller only while that caller's
\* call is open and is about the handler's correlation id; a caller that gives up is taken
\* off its handler's job in the same step.

LEMMA IssuedKept ==
  ASSUME Issuing, [PromoNext]_allVars, NEW c \in Correlation, issued[c] # None
  PROVE  issued'[c] = issued[c]
BY OnlyInsertAndPublish, InsertEffect, PublishEffect DEF Issuing

Open == {"GRPC_SERVED", "REST_SERVED"}

Waits(w, c) ==
  /\ step[w] = "redeem" /\ call[w] \in Open
  /\ hand[w].entry \in Entry /\ corrOf[hand[w].entry] = c

CallersWait == \A h \in Handler : job[h].caller # None => Waits(job[h].caller, job[h].corr)
OneHandlerEach ==
  \A g, h \in Handler : job[g].caller = job[h].caller /\ job[g].caller # None => g = h

\* What an answer or a result message says is what is issued.
AnswersTrue ==
  \A h \in Handler :
    job[h].step = "answer" /\ job[h].answer \in Reference => job[h].answer = issued[job[h].corr]
ResultsTrue == \A m \in results : m.code = issued[m.corr]

RecordTrue(w) ==
  step[w] = "record" /\ hand[w].result.kind = "SUCCESS" =>
    /\ hand[w].entry \in Entry
    /\ hand[w].result.ref # None
    /\ hand[w].result.ref = issued[corrOf[hand[w].entry]]
RecordsTrue == \A w \in Worker : RecordTrue(w)

CodeInv ==
  /\ TypeOK /\ Issuing /\ CallsTyped
  /\ CallersWait /\ OneHandlerEach /\ AnswersTrue /\ ResultsTrue /\ RecordsTrue /\ ReferenceIsOwnCode

\* A job ends, goes on under the same caller or without it, or is a call just served.
LEMMA JobCases ==
  ASSUME CodeInv, [PromoNext]_allVars, NEW h \in Handler
  PROVE  \/ job'[h].caller = None
         \/ job'[h].caller = job[h].caller /\ job'[h].corr = job[h].corr
         \/ \E w \in Worker, e \in Entry : ServeCall(w, e, h)
<1>0. job \in [Handler -> Promo!Job]
  BY DEF CodeInv, CallsTyped, JobsTyped
<1> DEFINE Same == job'[h].caller = job[h].caller /\ job'[h].corr = job[h].corr
           Goal == job'[h].caller = None \/ Same \/ \E w \in Worker, e \in Entry : ServeCall(w, e, h)
<1>1. ASSUME UNCHANGED job PROVE Goal
  BY <1>1
<1>2. ASSUME NEW w \in Worker, HangUp(w) PROVE Goal
  <2>1. job'[h] = IF job[h].caller = w THEN [job[h] EXCEPT !.caller = None] ELSE job[h]
    BY <1>2 DEF HangUp, Promo!HungUp
  <2> QED BY <1>0, <2>1 DEF Promo!Job
<1>3. ASSUME NEW g \in Handler, NEW w \in Worker, NEW e \in Entry, ServeCall(w, e, g) PROVE Goal
  <2>1. CASE g = h
    BY <1>3, <2>1
  <2>2. CASE g # h
    BY <1>0, <1>3, <2>2 DEF ServeCall, Promo!Serve, Promo!Start
  <2> QED BY <2>1, <2>2
<1>4. ASSUME NEW g \in Handler, job' = [job EXCEPT ![g] = Promo!NoJob] PROVE Goal
  BY <1>0, <1>4 DEF Promo!NoJob
<1>5. ASSUME NEW g \in Handler, NEW a, Promo!Answer(g, a) \/ Promo!Attempt(g, a) PROVE Goal
  <2>1. PICK j : /\ job' = [job EXCEPT ![g] = j]
                 /\ j.caller = job[g].caller /\ j.corr = job[g].corr
    <3>1. ASSUME NEW k \in Promo!Job
          PROVE  /\ Promo!Answered(k, a).caller = k.caller /\ Promo!Answered(k, a).corr = k.corr
                 /\ Promo!Attempting(k, a).caller = k.caller /\ Promo!Attempting(k, a).corr = k.corr
      BY DEF Promo!Answered, Promo!Attempting, Promo!Job
    <3> QED BY <1>0, <1>5, <3>1 DEF Promo!Answer, Promo!Attempt
  <2> QED BY <1>0, <2>1
<1>6. ASSUME NEW g \in Handler, ServiceWorks(g) PROVE Goal
  <2>1. ASSUME NEW c \in Correlation, Promo!Consume(g, c) PROVE Goal
    BY <1>0, <2>1 DEF Promo!Consume, Promo!Start
  <2>2. ASSUME Promo!Check(g) PROVE Goal
    <3> HIDE DEF Goal
    <3> QED BY <1>5, <2>2 DEF Promo!Check
  <2>3. ASSUME NEW code \in Reference, Promo!Insert(g, code) PROVE Goal
    <3> HIDE DEF Goal
    <3> QED BY <1>5, <2>3 DEF Promo!Insert, Promo!Collide, Promo!Create
  <2>4. ASSUME Promo!Acknowledge(g) \/ Promo!DeadLetter(g) PROVE Goal
    <3> HIDE DEF Goal
    <3> QED BY <1>4, <2>4 DEF Promo!Acknowledge, Promo!DeadLetter
  <2> HIDE DEF Goal
  <2> QED BY <1>6, <2>1, <2>2, <2>3, <2>4 DEF ServiceWorks
<1> HIDE DEF Goal
<1>7. ASSUME NEW g \in Handler, AnswerCall(g) \/ HandlerDies(g) PROVE Goal
  BY <1>4, <1>7 DEF AnswerCall, HandlerDies, Promo!Respond, Promo!Die
<1>8. ASSUME NEW w \in Worker, NEW e \in Entry,
             Redeem(w, e) \/ PublishRequest(w, e) \/ Rejected(w, e)
      PROVE  Goal
  BY <1>1, <1>8 DEF Redeem, PublishRequest, Rejected, Promo!Request, promoVars
<1>9. ASSUME NEW w \in Worker, NEW e \in Entry, FallBack(w, e) \/ TimeOut(w, e) \/ WorkerFails(w)
      PROVE  Goal
  BY <1>2, <1>9 DEF FallBack, TimeOut, WorkerFails
<1>10. ASSUME NEW w \in Worker, WorkerFails(w) PROVE Goal
  BY <1>2, <1>10 DEF WorkerFails
<1>11. ASSUME Proceed \/ \E c \in Correlation : PublishResult(c) PROVE Goal
  BY <1>1, <1>11 DEF Proceed, PublishResult, Promo!Publish, promoVars
<1>12. ASSUME NEW w \in Worker, NEW m \in results, ResolveResult(w, m) PROVE Goal
  BY <1>1, <1>12 DEF ResolveResult
<1>13. ASSUME UNCHANGED allVars PROVE Goal
  BY <1>1, <1>13 DEF allVars, promoVars
<1>14. Goal
  <2>1. ASSUME NEW w \in Worker, NEW e \in Entry,
               \/ Redeem(w, e) \/ PublishRequest(w, e) \/ FallBack(w, e) \/ TimeOut(w, e) \/ Rejected(w, e)
               \/ \E g \in Handler : ServeCall(w, e, g)
        PROVE Goal
    BY <1>3, <1>8, <1>9, <2>1
  <2> QED BY <1>6, <1>7, <1>10, <1>11, <1>12, <1>13, <2>1 DEF PromoNext
<1> QED BY <1>14 DEF Goal

\* A worker whose call is open stays where it is, or no handler has it for a caller any more.
LEMMA CallerCases ==
  ASSUME CodeInv, [PromoNext]_allVars, NEW w \in Worker, call[w] \in Open, step[w] = "redeem",
         hand[w].entry \in Entry, channel[hand[w].entry] \notin Open
  PROVE  \/ call'[w] = call[w] /\ step'[w] = step[w] /\ hand'[w] = hand[w]
         \/ \A h \in Handler : job'[h].caller # w
<1> DEFINE Stays == call'[w] = call[w] /\ step'[w] = step[w] /\ hand'[w] = hand[w]
           Left == \A h \in Handler : job'[h].caller # w
<1>0. /\ job \in [Handler -> Promo!Job] /\ call \in [Worker -> CallStep]
      /\ step \in [Worker -> WorkerStep] /\ hand \in [Worker -> Hand]
      /\ None \notin Worker
  BY ConnectorAssumption DEF CodeInv, CallsTyped, JobsTyped, TypeOK
<1>1. ASSUME UNCHANGED <<call, step, hand>> PROVE Stays
  BY <1>1
<1>2. ASSUME HangUp(w) PROVE Left
  <2>1. \A h \in Handler : job'[h] = IF job[h].caller = w THEN [job[h] EXCEPT !.caller = None] ELSE job[h]
    BY <1>2 DEF HangUp, Promo!HungUp
  <2> QED BY <1>0, <2>1 DEF Promo!Job
<1>3. ASSUME NEW v \in Worker, v # w, NEW at, Goes(v, at), UNCHANGED <<step, hand>> PROVE Stays
  BY <1>0, <1>3 DEF Goes
<1>4. ASSUME NEW v \in Worker, v # w, NEW e \in Entry, NEW result, NEW at, EndCall(v, e, result), Goes(v, at)
      PROVE  Stays
  BY <1>0, <1>4 DEF EndCall, Goes
<1> HIDE DEF Stays
<1>5. ASSUME NEW e \in Entry, Ingest(e) \/ BackoffElapses(e), call' = call PROVE Stays
  BY <1>1, <1>5 DEF Ingest, BackoffElapses, workVars
<1>6. ASSUME NEW v \in Worker, NEW e \in Entry, Claim(v, e) \/ Record(v, e), call' = call PROVE Stays
  <2>1. step[v] \in {"idle", "record"}
    BY <1>6 DEF Claim, Record, MarkDispatchedExternal, MarkFailed, MarkRetrying, InHand
  <2>2. v # w
    BY <2>1
  <2>3. step'[w] = step[w] /\ hand'[w] = hand[w]
    BY <1>0, <1>6, <2>2 DEF Claim, Record, MarkDispatchedExternal, MarkFailed, MarkRetrying, Release
  <2> QED BY <1>6, <2>3 DEF Stays
<1>7. ASSUME NEW v \in Worker, NEW e \in Entry, Redeem(v, e) PROVE Stays
  <2>1. v # w
    BY <1>7 DEF Redeem, BeginCall, InHand
  <2> QED BY <1>0, <1>7, <2>1 DEF Redeem, BeginCall, Goes, Stays
<1>8. ASSUME NEW v \in Worker, NEW e \in Entry, NEW h \in Handler, ServeCall(v, e, h)
      PROVE  Stays
  <2>1. v # w
    BY <1>8 DEF ServeCall, Open
  <2> QED BY <1>3, <1>8, <2>1 DEF ServeCall, vars, workVars
<1>9. ASSUME NEW v \in Worker, NEW e \in Entry, PublishRequest(v, e) PROVE Stays
  <2>1. v # w
    BY <1>9 DEF PublishRequest, Open
  <2> QED BY <1>3, <1>9, <2>1 DEF PublishRequest, vars, workVars
<1>10. ASSUME NEW v \in Worker, NEW e \in Entry, FallBack(v, e) PROVE Stays \/ Left
  <2> HIDE DEF Left
  <2> QED BY <1>2, <1>3, <1>10 DEF FallBack, vars, workVars
<1>11. ASSUME NEW v \in Worker, NEW e \in Entry, TimeOut(v, e) PROVE Stays \/ Left
  <2> HIDE DEF Left
  <2> QED BY <1>2, <1>4, <1>11 DEF TimeOut
<1>12. ASSUME NEW v \in Worker, NEW e \in Entry, Rejected(v, e) PROVE Stays
  <2>1. v # w
    BY <1>12 DEF Rejected, EndCall, InHand, Open
  <2> QED BY <1>4, <1>12, <2>1 DEF Rejected
<1>13. ASSUME NEW v \in Worker, WorkerFails(v) PROVE Stays \/ Left
  <2>1. CASE v = w
    <3> HIDE DEF Left
    <3> QED BY <1>2, <1>13, <2>1 DEF WorkerFails
  <2>2. CASE v # w
    BY <1>0, <1>13, <2>2 DEF WorkerFails, ProcessingFails, Release, Goes, Stays
  <2> QED BY <2>1, <2>2
<1>14. ASSUME NEW v \in Worker, NEW m \in results, ResolveResult(v, m) PROVE Stays
  <2>1. CASE UNCHANGED <<vars, call>>
    BY <1>1, <2>1 DEF vars, workVars
  <2>2. CASE \E e \in Entry : IsAwaited(v, e, m) /\ EndCall(v, e, Granted(m.code)) /\ Goes(v, "NONE")
    <3>1. v # w
      BY <2>2 DEF IsAwaited, Open
    <3> QED BY <1>4, <2>2, <3>1
  <2> QED BY <1>14, <2>1, <2>2 DEF ResolveResult
<1>15. ASSUME NEW h \in Handler, AnswerCall(h) PROVE Stays \/ Left
  <2>1. CASE UNCHANGED <<vars, call>>
    BY <1>1, <2>1 DEF vars, workVars
  <2>2. ASSUME NEW v \in Worker, NEW e \in Entry, v = job[h].caller,
               EndCall(v, e, Classify(job[h].answer)), Goes(v, "NONE"), v # w
        PROVE  Stays
    BY <1>4, <2>2
  <2>3. ASSUME job[h].caller = w PROVE Left
    <3>1. job' = [job EXCEPT ![h] = Promo!NoJob]
      BY <1>15 DEF AnswerCall, Promo!Respond
    <3>2. Promo!NoJob.caller = None
      BY DEF Promo!NoJob
    <3>3. \A g \in Handler \ {h} : job[g].caller # w
      BY <1>0, <2>3 DEF CodeInv, OneHandlerEach
    <3> QED BY <1>0, <3>1, <3>2, <3>3
  <2> HIDE DEF Left
  <2> QED BY <1>15, <2>1, <2>2, <2>3 DEF AnswerCall
<1>16. ASSUME NEW h \in Handler, ServiceWorks(h) \/ HandlerDies(h) PROVE Stays
  BY <1>1, <1>16 DEF ServiceWorks, HandlerDies, vars, workVars
<1>17. ASSUME NEW c \in Correlation, PublishResult(c) PROVE Stays
  BY <1>1, <1>17 DEF PublishResult, vars, workVars
<1>18. ASSUME UNCHANGED allVars PROVE Stays
  BY <1>1, <1>18 DEF allVars, vars, workVars
<1> HIDE DEF Left
<1>19. Stays \/ Left
  <2>1. ASSUME NEW v \in Worker, NEW e \in Entry,
               \/ Redeem(v, e) \/ PublishRequest(v, e) \/ FallBack(v, e) \/ TimeOut(v, e) \/ Rejected(v, e)
               \/ \E g \in Handler : ServeCall(v, e, g)
        PROVE Stays \/ Left
    BY <1>7, <1>8, <1>9, <1>10, <1>11, <1>12, <2>1
  <2>2. ASSUME Proceed PROVE Stays
    BY <1>5, <1>6, <2>2 DEF Proceed
  <2> QED BY <1>13, <1>14, <1>15, <1>16, <1>17, <1>18, <2>1, <2>2 DEF PromoNext
<1> QED BY <1>19 DEF Stays, Left

LEMMA ChannelNotOpen == \A e \in Entry : channel[e] \notin Open
BY ConnectorAssumption DEF ConnectorAssumption, Channel, Open

LEMMA CallersStep == CodeInv /\ [PromoNext]_allVars => CallersWait' /\ OneHandlerEach'
<1> SUFFICES ASSUME CodeInv, [PromoNext]_allVars PROVE CallersWait' /\ OneHandlerEach'
  OBVIOUS
<1>0. /\ job \in [Handler -> Promo!Job] /\ call \in [Worker -> CallStep]
      /\ None \notin Worker
      /\ \A h \in Handler : job[h].caller \in Worker \cup {None}
  BY ConnectorAssumption DEF CodeInv, CallsTyped, JobsTyped, ConnectorAssumption, Promo!Job
<1>1. ASSUME NEW w \in Worker, NEW e \in Entry, NEW h \in Handler, ServeCall(w, e, h)
      PROVE  /\ job'[h].caller = w /\ job'[h].corr = corrOf[e] /\ Waits(w, corrOf[e])'
             /\ \A g \in Handler : job[g].caller # w
             /\ \A g \in Handler \ {h} : job'[g] = job[g]
  <2>1. /\ step[w] = "redeem" /\ hand[w].entry = e /\ UNCHANGED <<step, hand>>
        /\ call'[w] \in Open
    BY <1>0, <1>1 DEF ServeCall, InHand, Goes, Served, Open, vars, workVars
  <2>2. \A g \in Handler : job[g].caller # w
    BY <1>0, <1>1 DEF ServeCall, CodeInv, CallersWait, Waits, Open
  <2>3. /\ job'[h].caller = w /\ job'[h].corr = corrOf[e]
        /\ \A g \in Handler \ {h} : job'[g] = job[g]
    BY <1>0, <1>1 DEF ServeCall, Promo!Serve, Promo!Start
  <2> QED BY <2>1, <2>2, <2>3 DEF Waits
<1>2. ASSUME NEW h \in Handler, NEW w, NEW c, job'[h].caller = w, job'[h].corr = c, w # None
      PROVE  Waits(w, c)'
  <2>1. CASE job'[h].caller = job[h].caller /\ job'[h].corr = job[h].corr
    <3>1. w \in Worker /\ Waits(w, c)
      BY <1>0, <1>2, <2>1 DEF CodeInv, CallersWait
    <3>2. call'[w] = call[w] /\ step'[w] = step[w] /\ hand'[w] = hand[w]
      BY <1>2, <2>1, <3>1, CallerCases, ChannelNotOpen DEF Waits
    <3> QED BY <3>1, <3>2 DEF Waits
  <2>2. CASE \E v \in Worker, e \in Entry : ServeCall(v, e, h)
    BY <1>1, <1>2, <2>2
  <2> QED BY <1>2, <2>1, <2>2, JobCases
<1>3. ASSUME NEW g \in Handler, NEW h \in Handler, job'[g].caller = job'[h].caller, job'[g].caller # None
      PROVE  g = h
  <2>1. CASE \E w \in Worker, e \in Entry : ServeCall(w, e, g) \/ ServeCall(w, e, h)
    BY <1>1, <1>3, <2>1
  <2>2. CASE job'[g].caller = job[g].caller /\ job'[h].caller = job[h].caller
    BY <1>3, <2>2 DEF CodeInv, OneHandlerEach
  <2> QED BY <1>3, <2>1, <2>2, JobCases
<1>4. CallersWait'
  BY <1>2 DEF CallersWait
<1> QED BY <1>3, <1>4 DEF OneHandlerEach

\* An answer is kept, forgotten, or given by the step that looks the code up or creates it.
LEMMA AnswerCases ==
  ASSUME CodeInv, [PromoNext]_allVars, NEW h \in Handler, job'[h].step = "answer"
  PROVE  \/ job[h].step = "answer" /\ job'[h].answer = job[h].answer /\ job'[h].corr = job[h].corr
         \/ Promo!Check(h)
         \/ \E code \in Reference : Promo!Insert(h, code)
<1> DEFINE Kept == job[h].step = "answer" /\ job'[h].answer = job[h].answer /\ job'[h].corr = job[h].corr
           Given == Promo!Check(h) \/ \E code \in Reference : Promo!Insert(h, code)
<1>0. job \in [Handler -> Promo!Job]
  BY DEF CodeInv, CallsTyped, JobsTyped
<1>1. ASSUME job'[h] = job[h] PROVE Kept
  BY <1>1
<1>2. ASSUME NEW w \in Worker, HangUp(w) PROVE Kept
  <2>1. job'[h] = IF job[h].caller = w THEN [job[h] EXCEPT !.caller = None] ELSE job[h]
    BY <1>2 DEF HangUp, Promo!HungUp
  <2>2. /\ [job[h] EXCEPT !.caller = None].step = job[h].step
        /\ [job[h] EXCEPT !.caller = None].answer = job[h].answer
        /\ [job[h] EXCEPT !.caller = None].corr = job[h].corr
    BY <1>0 DEF Promo!Job
  <2> QED BY <1>1, <2>1, <2>2
<1> HIDE DEF Kept
<1>3. ASSUME NEW g \in Handler, NEW j, job' = [job EXCEPT ![g] = j], j.step # "answer" PROVE Kept
  BY <1>0, <1>1, <1>3
<1>4. Promo!NoJob.step # "answer"
  BY DEF Promo!NoJob
<1>5. ASSUME NEW g \in Handler, NEW c, NEW t, NEW w, Promo!Start(g, c, t, w) PROVE Kept
  <2> DEFINE j == [corr |-> c, transport |-> t, caller |-> w, step |-> "check", attempt |-> 0, answer |-> None]
  <2>1. j.step # "answer" /\ job' = [job EXCEPT ![g] = j]
    BY <1>5 DEF Promo!Start
  <2> HIDE DEF j
  <2> QED BY <1>3, <2>1
<1>6. ASSUME NEW g \in Handler, ServiceWorks(g) PROVE Kept \/ Given
  <2>1. CASE g = h
    BY <1>3, <1>4, <1>5, <1>6, <2>1
       DEF ServiceWorks, Promo!Consume, Promo!Acknowledge, Promo!DeadLetter
  <2>2. CASE g # h
    <3>1. job'[h] = job[h]
      BY <1>0, <1>6, <2>2
         DEF ServiceWorks, Promo!Consume, Promo!Start, Promo!Check, Promo!Insert, Promo!Collide,
             Promo!Create, Promo!Answer, Promo!Attempt, Promo!Acknowledge, Promo!DeadLetter
    <3> QED BY <1>1, <3>1
  <2> QED BY <2>1, <2>2
<1>7. ASSUME NEW g \in Handler, AnswerCall(g) \/ HandlerDies(g) PROVE Kept
  BY <1>3, <1>4, <1>7 DEF AnswerCall, HandlerDies, Promo!Respond, Promo!Die
<1>8. ASSUME NEW w \in Worker, NEW e \in Entry,
             Redeem(w, e) \/ PublishRequest(w, e) \/ Rejected(w, e)
      PROVE  Kept
  BY <1>1, <1>8 DEF Redeem, PublishRequest, Rejected, Promo!Request, promoVars
<1>9. ASSUME NEW w \in Worker, NEW e \in Entry, FallBack(w, e) \/ TimeOut(w, e) PROVE Kept
  BY <1>2, <1>9 DEF FallBack, TimeOut
<1>10. ASSUME NEW w \in Worker, WorkerFails(w) PROVE Kept
  BY <1>2, <1>10 DEF WorkerFails
<1>11. ASSUME NEW w \in Worker, NEW e \in Entry, NEW g \in Handler, ServeCall(w, e, g) PROVE Kept
  BY <1>5, <1>11 DEF ServeCall, Promo!Serve
<1>12. ASSUME Proceed \/ \E c \in Correlation : PublishResult(c) PROVE Kept
  BY <1>1, <1>12 DEF Proceed, PublishResult, Promo!Publish, promoVars
<1>13. ASSUME NEW w \in Worker, NEW m \in results, ResolveResult(w, m) PROVE Kept
  BY <1>1, <1>13 DEF ResolveResult
<1>14. ASSUME UNCHANGED allVars PROVE Kept
  BY <1>1, <1>14 DEF allVars, promoVars
<1> HIDE DEF Given
<1>15. Kept \/ Given
  <2>1. ASSUME NEW w \in Worker, NEW e \in Entry,
               \/ Redeem(w, e) \/ PublishRequest(w, e) \/ FallBack(w, e) \/ TimeOut(w, e) \/ Rejected(w, e)
               \/ \E g \in Handler : ServeCall(w, e, g)
        PROVE Kept
    BY <1>8, <1>9, <1>11, <2>1
  <2> QED BY <1>6, <1>7, <1>10, <1>12, <1>13, <1>14, <2>1 DEF PromoNext
<1> QED BY <1>15 DEF Kept, Given

LEMMA AnswersStep == CodeInv /\ [PromoNext]_allVars => AnswersTrue'
<1> SUFFICES ASSUME CodeInv, [PromoNext]_allVars, NEW h \in Handler,
                    job'[h].step = "answer", job'[h].answer \in Reference
             PROVE  job'[h].answer = issued'[job'[h].corr]
  BY DEF AnswersTrue
<1>0. /\ job \in [Handler -> Promo!Job] /\ (job[h].step # "idle" => job[h].corr \in Correlation)
      /\ issued \in [Correlation -> Reference \cup {None}] /\ None \notin Reference
      /\ \A error \in Promo!Error : error \notin Reference
  BY ConnectorAssumption, RedemptionAssumption
     DEF CodeInv, Issuing, CallsTyped, JobsTyped, ConnectorAssumption, RedemptionAssumption
<1>1. CASE job[h].step = "answer" /\ job'[h].answer = job[h].answer /\ job'[h].corr = job[h].corr
  <2>1. job[h].answer = issued[job[h].corr] /\ job[h].corr \in Correlation
    BY <1>0, <1>1 DEF CodeInv, AnswersTrue
  <2> QED BY <1>0, <1>1, <2>1, IssuedKept DEF CodeInv
<1> DEFINE c == job[h].corr
<1>2. ASSUME NEW a, Promo!Answer(h, a), job[h].step # "idle" PROVE job'[h].answer = a /\ job'[h].corr = c
  BY <1>0, <1>2 DEF Promo!Answer, Promo!Answered, Promo!Job
<1>3. ASSUME NEW n, Promo!Attempt(h, n) PROVE FALSE
  <2>1. Promo!Attempting(job[h], n).step = "insert"
    BY <1>0 DEF Promo!Attempting, Promo!Job
  <2> QED BY <1>0, <1>3, <2>1 DEF Promo!Attempt
<1>4. CASE Promo!Check(h)
  <2>1. job[h].step = "check" /\ issued' = issued
    BY <1>4 DEF Promo!Check, Promo!Working
  <2>2. "CONFIG_NOT_BOUND" \in Promo!Error
    BY DEF Promo!Error
  <2>3. \/ Promo!Answer(h, issued[c]) \/ Promo!Answer(h, "CONFIG_NOT_BOUND") \/ Promo!Attempt(h, 1)
    BY <1>4 DEF Promo!Check
  <2> QED BY <1>0, <1>2, <1>3, <2>1, <2>2, <2>3
<1>5. ASSUME NEW code \in Reference, Promo!Insert(h, code) PROVE job'[h].answer = issued'[job'[h].corr]
  <2>1. job[h].step # "idle" /\ c \in Correlation
    BY <1>0, <1>5 DEF Promo!Insert, Promo!Working
  <2>2. "GENERATION_EXHAUSTED" \in Promo!Error
    BY DEF Promo!Error
  <2>3. \/ Promo!Attempt(h, job[h].attempt + 1) \/ Promo!Answer(h, "GENERATION_EXHAUSTED")
        \/ Promo!Answer(h, issued[c]) /\ issued' = issued
        \/ Promo!Answer(h, code) /\ issued' = [issued EXCEPT ![c] = code]
    BY <1>5 DEF Promo!Insert, Promo!Collide, Promo!Create
  <2> QED BY <1>0, <1>2, <1>3, <2>1, <2>2, <2>3
<1> QED BY <1>1, <1>4, <1>5, AnswerCases

LEMMA ResultsStep == CodeInv /\ [PromoNext]_allVars => ResultsTrue'
<1> SUFFICES ASSUME CodeInv, [PromoNext]_allVars, NEW m \in results' PROVE m.code = issued'[m.corr]
  BY DEF ResultsTrue
<1>0. None \notin Reference
  BY RedemptionAssumption DEF RedemptionAssumption
<1>1. CASE m \in results
  <2>1. m.corr \in Correlation /\ m.code \in Reference /\ m.code = issued[m.corr]
    BY <1>1 DEF CodeInv, Issuing, Promo!Message, ResultsTrue
  <2> QED BY <1>0, <2>1, IssuedKept DEF CodeInv
<1>2. ASSUME NEW c \in Correlation, Promo!Publish(c), m \notin results PROVE m.code = issued'[m.corr]
  BY <1>2, PublishEffect DEF CodeInv
<1>3. ASSUME NEW h \in Handler, NEW code \in Reference, Promo!Insert(h, code) PROVE m \in results
  BY <1>3 DEF Promo!Insert
<1> QED BY <1>1, <1>2, <1>3, OnlyInsertAndPublish

\* A call that ends as a success ends with the code of its own correlation id.
LEMMA EndsWithOwnCode ==
  ASSUME CodeInv, [PromoNext]_allVars, NEW w \in Worker, NEW e \in Entry, NEW result,
         \/ \E m \in results : corrOf[e] = m.corr /\ result = Granted(m.code)
         \/ \E h \in Handler :
              /\ job[h].step = "answer" /\ job[h].caller = w /\ hand[w].entry = e
              /\ result = Classify(job[h].answer)
         \/ \E kind \in {"RETRYABLE_FAILURE", "PERMANENT_FAILURE"} : result = Refused(kind),
         result.kind = "SUCCESS"
  PROVE  result.ref # None /\ result.ref = issued'[corrOf[e]]
<1>0. None \notin Reference /\ None \notin Worker /\ corrOf[e] \in Correlation
  BY RedemptionAssumption, ConnectorAssumption DEF RedemptionAssumption, ConnectorAssumption
<1>1. ASSUME NEW m \in results, corrOf[e] = m.corr, result = Granted(m.code)
      PROVE  result.ref \in Reference /\ result.ref = issued[corrOf[e]]
  BY <1>1 DEF Granted, CodeInv, ResultsTrue, Issuing, Promo!Message
<1>2. ASSUME NEW h \in Handler, job[h].step = "answer", job[h].caller = w, hand[w].entry = e,
             result = Classify(job[h].answer)
      PROVE  result.ref \in Reference /\ result.ref = issued[corrOf[e]]
  <2>1. job[h].answer \in Reference /\ result.ref = job[h].answer
    BY <1>2 DEF Classify, Granted, Refused
  <2>2. job[h].answer = issued[job[h].corr]
    BY <1>2, <2>1 DEF CodeInv, AnswersTrue
  <2>3. corrOf[e] = job[h].corr
    BY <1>0, <1>2 DEF CodeInv, CallersWait, Waits
  <2> QED BY <2>1, <2>2, <2>3
<1>3. ASSUME NEW kind \in {"RETRYABLE_FAILURE", "PERMANENT_FAILURE"}, result = Refused(kind) PROVE FALSE
  BY <1>3 DEF Refused
<1>4. result.ref \in Reference /\ result.ref = issued[corrOf[e]]
  BY <1>1, <1>2, <1>3
<1> QED BY <1>0, <1>4, IssuedKept DEF CodeInv

LEMMA EndCallTrue ==
  ASSUME CodeInv, NEW v \in Worker, NEW w \in Worker, NEW e \in Entry, NEW result, EndCall(v, e, result),
         result.kind = "SUCCESS" => result.ref # None /\ result.ref = issued'[corrOf[e]],
         step[w] # "record" \/ RecordTrue(w), \A c \in Correlation : issued[c] # None => issued'[c] = issued[c]
  PROVE  RecordTrue(w)'
<1>0. hand \in [Worker -> Hand] /\ step \in [Worker -> WorkerStep] /\ corrOf \in [Entry -> Correlation]
  BY ConnectorAssumption DEF CodeInv, TypeOK, ConnectorAssumption
<1>1. CASE v = w
  <2>1. hand'[w] = [hand[w] EXCEPT !.result = result] /\ hand[w].entry = e
    BY <1>0, <1>1 DEF EndCall, InHand
  <2>2. hand'[w].result = result /\ hand'[w].entry = e
    BY <1>0, <2>1 DEF Hand
  <2> QED BY <2>2 DEF RecordTrue
<1>2. CASE v # w
  <2>1. hand'[w] = hand[w] /\ step'[w] = step[w]
    BY <1>0, <1>2 DEF EndCall
  <2> QED BY <1>0, <2>1 DEF RecordTrue
<1> QED BY <1>1, <1>2

LEMMA RecordsStep == CodeInv /\ [PromoNext]_allVars => RecordsTrue'
<1> SUFFICES ASSUME CodeInv, [PromoNext]_allVars, NEW w \in Worker PROVE RecordTrue(w)'
  BY DEF RecordsTrue, RecordTrue
<1>0. /\ hand \in [Worker -> Hand] /\ step \in [Worker -> WorkerStep]
      /\ corrOf \in [Entry -> Correlation]
      /\ \A c \in Correlation : issued[c] # None => issued'[c] = issued[c]
      /\ RecordTrue(w)
  BY ConnectorAssumption, IssuedKept DEF CodeInv, TypeOK, ConnectorAssumption, RecordsTrue
<1>1. ASSUME step'[w] # "record" PROVE RecordTrue(w)'
  BY <1>1 DEF RecordTrue
<1>2. ASSUME step'[w] = step[w], hand'[w] = hand[w] PROVE RecordTrue(w)'
  BY <1>0, <1>2 DEF RecordTrue
<1>3. ASSUME NEW v \in Worker, NEW e \in Entry, NEW result, EndCall(v, e, result),
             \/ \E m \in results : corrOf[e] = m.corr /\ result = Granted(m.code)
             \/ \E h \in Handler :
                  /\ job[h].step = "answer" /\ job[h].caller = v
                  /\ result = Classify(job[h].answer)
             \/ \E kind \in {"RETRYABLE_FAILURE", "PERMANENT_FAILURE"} : result = Refused(kind)
      PROVE  RecordTrue(w)'
  <2>1. hand[v].entry = e
    BY <1>3 DEF EndCall, InHand
  <2>2. result.kind = "SUCCESS" => result.ref # None /\ result.ref = issued'[corrOf[e]]
    BY <1>3, <2>1, EndsWithOwnCode
  <2> QED BY <1>0, <1>3, <2>2, EndCallTrue
<1>4. ASSUME NEW e \in Entry, Ingest(e) \/ BackoffElapses(e) PROVE RecordTrue(w)'
  BY <1>2, <1>4 DEF Ingest, BackoffElapses, workVars
<1>5. ASSUME NEW v \in Worker, Release(v) PROVE RecordTrue(w)'
  BY <1>0, <1>1, <1>2, <1>5 DEF Release
<1>6. ASSUME NEW v \in Worker, NEW e \in Entry, Claim(v, e) PROVE RecordTrue(w)'
  BY <1>0, <1>1, <1>2, <1>6 DEF Claim
<1>7. ASSUME NEW v \in Worker, NEW e \in Entry, Record(v, e) PROVE RecordTrue(w)'
  BY <1>5, <1>7 DEF Record, MarkDispatchedExternal, MarkFailed, MarkRetrying
<1>8. ASSUME NEW v \in Worker, NEW e \in Entry, Redeem(v, e) PROVE RecordTrue(w)'
  BY <1>0, <1>1, <1>2, <1>8 DEF Redeem, BeginCall
<1>9. ASSUME UNCHANGED vars PROVE RecordTrue(w)'
  BY <1>2, <1>9 DEF vars, workVars
<1>10. ASSUME NEW v \in Worker, NEW e \in Entry, TimeOut(v, e) \/ Rejected(v, e) PROVE RecordTrue(w)'
  BY <1>3, <1>10 DEF TimeOut, Rejected
<1>11. ASSUME NEW v \in Worker, WorkerFails(v) PROVE RecordTrue(w)'
  BY <1>5, <1>11 DEF WorkerFails, ProcessingFails
<1>12. ASSUME NEW v \in Worker, NEW m \in results, ResolveResult(v, m) PROVE RecordTrue(w)'
  BY <1>3, <1>9, <1>12 DEF ResolveResult, IsAwaited
<1>13. ASSUME NEW h \in Handler, AnswerCall(h) PROVE RecordTrue(w)'
  <2>1. job[h].step = "answer"
    BY <1>13 DEF AnswerCall, Promo!Respond, Promo!Working
  <2> QED BY <1>3, <1>9, <1>13, <2>1 DEF AnswerCall
<1>14. ASSUME \/ \E v \in Worker, e \in Entry : PublishRequest(v, e) \/ FallBack(v, e)
              \/ \E v \in Worker, e \in Entry, h \in Handler : ServeCall(v, e, h)
              \/ \E h \in Handler : ServiceWorks(h) \/ HandlerDies(h)
              \/ \E c \in Correlation : PublishResult(c)
       PROVE  RecordTrue(w)'
  BY <1>9, <1>14 DEF PublishRequest, FallBack, ServeCall, ServiceWorks, HandlerDies, PublishResult
<1>15. ASSUME Proceed PROVE RecordTrue(w)'
  BY <1>4, <1>6, <1>7, <1>15 DEF Proceed
<1>16. ASSUME UNCHANGED allVars PROVE RecordTrue(w)'
  BY <1>9, <1>16 DEF allVars
<1>17. ASSUME NEW v \in Worker, NEW e \in Entry,
              \/ Redeem(v, e) \/ PublishRequest(v, e) \/ FallBack(v, e) \/ TimeOut(v, e) \/ Rejected(v, e)
              \/ \E h \in Handler : ServeCall(v, e, h)
       PROVE  RecordTrue(w)'
  BY <1>8, <1>10, <1>14, <1>17
<1> QED BY <1>11, <1>12, <1>13, <1>14, <1>15, <1>16, <1>17 DEF PromoNext

\* Only the record of a success writes a reference, and it is the one in the worker's hand.
LEMMA RefCases ==
  ASSUME TypeOK, [PromoNext]_allVars, NEW e \in Entry
  PROVE  \/ row'[e].ref = row[e].ref
         \/ \E w \in Worker :
              /\ step[w] = "record" /\ hand[w].entry = e
              /\ hand[w].result.kind = "SUCCESS" /\ row'[e].ref = hand[w].result.ref
<1> DEFINE Kept == row'[e].ref = row[e].ref
           Set == \E w \in Worker :
                    /\ step[w] = "record" /\ hand[w].entry = e
                    /\ hand[w].result.kind = "SUCCESS" /\ row'[e].ref = hand[w].result.ref
<1>0. row \in [Entry -> Row]
  BY DEF TypeOK
<1>1. ASSUME UNCHANGED row PROVE Kept
  BY <1>1
<1>2. ASSUME NEW d \in Entry, NEW status, SetStatus(d, status) PROVE Kept
  BY <1>0, <1>2 DEF SetStatus, Row
<1>3. ASSUME NEW d \in Entry, BackoffElapses(d) PROVE Kept
  BY <1>0, <1>3 DEF BackoffElapses, Row
<1>4. ASSUME NEW w \in Worker, NEW d \in Entry, MarkRetrying(w, d) PROVE Kept
  <2>1. \A n : [row[d] EXCEPT !.status = "retrying", !.retryCount = n, !.due = FALSE].ref = row[d].ref
    BY <1>0 DEF Row
  <2> QED BY <1>0, <1>4, <2>1 DEF MarkRetrying
<1>5. ASSUME NEW w \in Worker, NEW d \in Entry, MarkDispatchedExternal(w, d) PROVE Kept \/ Set
  <2>1. \A r : [row[d] EXCEPT !.status = "dispatched_external", !.ref = r].ref = r
    BY <1>0 DEF Row
  <2> QED BY <1>0, <1>5, <2>1 DEF MarkDispatchedExternal, InHand
<1> HIDE DEF Kept, Set
<1>6. ASSUME Proceed PROVE Kept \/ Set
  BY <1>2, <1>3, <1>4, <1>5, <1>6 DEF Proceed, Ingest, Claim, Record, MarkFailed
<1>7. ASSUME ~Proceed PROVE Kept
  BY <1>1, <1>7
     DEF PromoNext, allVars, vars, Redeem, BeginCall, PublishRequest, FallBack, TimeOut, Rejected, EndCall,
         ServeCall, WorkerFails, ProcessingFails, ResolveResult, AnswerCall, ServiceWorks, HandlerDies,
         PublishResult
<1> QED BY <1>6, <1>7 DEF Kept, Set

LEMMA ReferenceStep == CodeInv /\ [PromoNext]_allVars => ReferenceIsOwnCode'
<1> SUFFICES ASSUME CodeInv, [PromoNext]_allVars, NEW e \in Entry, row'[e].ref # None
             PROVE  row'[e].ref = issued'[corrOf[e]]
  BY DEF ReferenceIsOwnCode
<1>1. corrOf[e] \in Correlation
  BY ConnectorAssumption DEF ConnectorAssumption
<1>2. row'[e].ref = issued[corrOf[e]]
  BY RefCases DEF CodeInv, ReferenceIsOwnCode, RecordsTrue, RecordTrue
<1> QED BY <1>1, <1>2, IssuedKept DEF CodeInv

\* What a redemption records as its external reference is the code issued to its own
\* correlation id: no reply that comes late, twice, or after its caller fell back to another
\* transport ends up on another reward's row.
THEOREM ReferenceIsOwn == PromoSpec => []ReferenceIsOwnCode
<1> DEFINE Typed == TypeOK /\ Issuing /\ CallsTyped
           Said == CallersWait /\ OneHandlerEach /\ AnswersTrue /\ ResultsTrue /\ RecordsTrue /\ ReferenceIsOwnCode
<1>1. PromoInit => Said
  BY RedemptionAssumption, NoJobIsTyped
     DEF PromoInit, Init, Promo!Init, Promo!NoJob, CallersWait, OneHandlerEach, AnswersTrue, ResultsTrue,
         RecordsTrue, RecordTrue, ReferenceIsOwnCode
<1>2. Typed /\ Said /\ [PromoNext]_allVars => Said'
  BY CallersStep, AnswersStep, ResultsStep, RecordsStep, ReferenceStep DEF CodeInv
<1>3. PromoSpec => []Typed
  <2>1. PromoInit => CallsTyped
    BY NoJobIsTyped DEF PromoInit, Promo!Init, CallsTyped, JobsTyped, CallStep
  <2>2. PromoSpec => []TypeOK
    BY Implements, TypeCorrect, PTL DEF IsARedemption
  <2> QED BY <2>1, <2>2, CallsStep, IssuingHolds, PTL DEF PromoSpec
<1>4. Said => ReferenceIsOwnCode
  OBVIOUS
<1> HIDE DEF Typed, Said
<1> QED BY <1>1, <1>2, <1>3, <1>4, PTL DEF PromoSpec
=============================================================================
