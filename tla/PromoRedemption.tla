--------------------------- MODULE PromoRedemption ---------------------------
(***************************************************************************)
(* Redemption with the promo-code connector and promo-code-service behind  *)
(* it. A call goes over Kafka as a request and a reply that an in-memory   *)
(* registry matches by correlation id, or over gRPC or REST; a failed      *)
(* publish and a failed gRPC call fall back to REST, and each way ends in  *)
(* a timeout if nothing comes back. The service may still be working on a  *)
(* request whose caller has given up.                                      *)
(***************************************************************************)
EXTENDS Redemption

CONSTANTS
  Correlation,
  corrOf,             \* [Entry -> Correlation]: correlation_id of the activity that earned it
  channel,            \* [Entry -> Channel]: the channel an entry resolves to
  Handler, MaxRetryAttempts, MaxPublishAttempts

VARIABLES
  issued, outbox, requests, results, job,
  call                \* [Worker -> CallStep]: where the worker's connector call stands

Promo == INSTANCE PromoCode WITH Code <- Reference, Caller <- Worker

Channel == {"KAFKA", "GRPC", "REST"}

ASSUME ConnectorAssumption ==
  /\ corrOf \in [Entry -> Correlation]
  /\ channel \in [Entry -> Channel]
  /\ MaxRetryAttempts \in Nat \ {0}
  /\ MaxPublishAttempts \in Nat \ {0}
  /\ None \notin Worker \cup Correlation
  /\ Reference \cap Promo!Error = {}

promoVars == <<issued, outbox, requests, results, job>>
allVars == <<vars, promoVars, call>>

\* "AWAITING" is an entry in PromoCodeKafkaRequestReplyRegistry; a connection is "SERVED"
\* once the service has read the request.
Connection == {"GRPC", "REST", "GRPC_SERVED", "REST_SERVED"}
CallStep == {"NONE", "KAFKA", "AWAITING"} \cup Connection
Served(connection) == IF connection = "GRPC" THEN "GRPC_SERVED" ELSE "REST_SERVED"

Goes(w, next) == call' = [call EXCEPT ![w] = next]

PromoInit ==
  /\ Init
  /\ Promo!Init
  /\ call = [w \in Worker |-> "NONE"]

\* resolveChannel.
Redeem(w, e) ==
  /\ BeginCall(w, e)
  /\ Goes(w, channel[e])
  /\ UNCHANGED promoVars

\* requestAndAwaitReply registers, then publishes. A failed publish falls back to REST
\* within the same call, even if the broker did take the message.
PublishRequest(w, e) ==
  /\ InHand(w, e, "redeem")
  /\ call[w] = "KAFKA"
  /\ \/ Promo!Request(corrOf[e]) /\ Goes(w, "AWAITING")
     \/ Promo!Request(corrOf[e]) /\ Goes(w, "REST")
     \/ UNCHANGED promoVars /\ Goes(w, "REST")
  /\ UNCHANGED vars

ServeCall(w, e, h) ==
  /\ InHand(w, e, "redeem")
  /\ call[w] \in {"GRPC", "REST"}
  /\ Promo!Serve(h, corrOf[e], w)
  /\ Goes(w, Served(call[w]))
  /\ UNCHANGED vars

Granted(code) == [kind |-> "SUCCESS", ref |-> code]
Refused(kind) == [kind |-> kind, ref |-> None]

Classify_NoCode(answer) == [kind |-> "SUCCESS", ref |-> IF answer \in Reference THEN answer ELSE None]
\* classifyGenerateResponseBody, with GENERATION_EXHAUSTED the one retryable_error_codes.
Classify(answer) ==
  IF answer \in Reference THEN Granted(answer)
  ELSE Refused(IF answer = "GENERATION_EXHAUSTED" THEN "RETRYABLE_FAILURE" ELSE "PERMANENT_FAILURE")

\* The answer reaches the caller, unless it has hung up.
AnswerCall(h) ==
  /\ Promo!Respond(h)
  /\ \/ job[h].caller = None /\ UNCHANGED <<vars, call>>
     \/ \E w \in Worker, e \in Entry :
          /\ w = job[h].caller
          /\ EndCall(w, e, Classify(job[h].answer))
          /\ Goes(w, "NONE")

IsAwaited(w, e, m) == InHand(w, e, "redeem") /\ call[w] = "AWAITING" /\ corrOf[e] = m.corr

\* The consumer group hands the reply to one process, whichever it is; resolveResult drops
\* it there if that process has no pending entry for its correlation id.
ResolveResult(w, m) ==
  /\ m \in results
  /\ results' = results \ {m}
  /\ \/ \E e \in Entry :
          /\ IsAwaited(w, e, m)
          /\ EndCall(w, e, Granted(m.code))
          /\ Goes(w, "NONE")
     \/ ~(\E e \in Entry : IsAwaited(w, e, m)) /\ UNCHANGED <<vars, call>>
  /\ UNCHANGED <<issued, outbox, requests, job>>

HangUp(w) == job' = Promo!HungUp(w) /\ UNCHANGED <<issued, outbox, requests, results>>

\* performCall: a failed or timed out gRPC call is made again over REST at once.
FallBack(w, e) ==
  /\ InHand(w, e, "redeem")
  /\ call[w] \in {"GRPC", "GRPC_SERVED"}
  /\ Goes(w, "REST")
  /\ HangUp(w)
  /\ UNCHANGED vars

\* No reply in time, no connection, an aborted request or a fault of the service: retryable
\* each time.
TimeOut(w, e) ==
  /\ call[w] \in {"AWAITING", "REST", "REST_SERVED"}
  /\ EndCall(w, e, Refused("RETRYABLE_FAILURE"))
  /\ Goes(w, "NONE")
  /\ HangUp(w)

\* A missing secret, before anything is sent, or an HTTP 4xx: permanent.
Rejected(w, e) ==
  /\ call[w] \in {channel[e], "REST"}
  /\ EndCall(w, e, Refused("PERMANENT_FAILURE"))
  /\ Goes(w, "NONE")
  /\ UNCHANGED promoVars

\* The worker throws or dies, and its registry with it.
WorkerFails(w) ==
  /\ ProcessingFails(w)
  /\ Goes(w, "NONE")
  /\ HangUp(w)

HandlerDies(h) == Promo!Die(h) /\ UNCHANGED <<vars, call>>

\* promo-code-service's own steps.
ServiceWorks(h) ==
  /\ \/ \E c \in Correlation : Promo!Consume(h, c)
     \/ Promo!Check(h)
     \/ \E code \in Reference : Promo!Insert(h, code)
     \/ Promo!Acknowledge(h)
     \/ Promo!DeadLetter(h)
  /\ UNCHANGED <<vars, call>>

PublishResult(c) == Promo!Publish(c) /\ UNCHANGED <<vars, call>>

\* The pipeline's steps outside the connector.
Proceed ==
  /\ \/ \E e \in Entry : Ingest(e) \/ BackoffElapses(e)
     \/ \E w \in Worker, e \in Entry : Claim(w, e) \/ Record(w, e)
  /\ UNCHANGED <<promoVars, call>>

PromoNext ==
  \/ Proceed
  \/ \E w \in Worker, e \in Entry :
       \/ Redeem(w, e) \/ PublishRequest(w, e) \/ FallBack(w, e) \/ TimeOut(w, e) \/ Rejected(w, e)
       \/ \E h \in Handler : ServeCall(w, e, h)
  \/ \E w \in Worker : WorkerFails(w)
  \/ \E w \in Worker, m \in results : ResolveResult(w, m)
  \/ \E h \in Handler : AnswerCall(h) \/ ServiceWorks(h) \/ HandlerDies(h)
  \/ \E c \in Correlation : PublishResult(c)

PromoSpec == PromoInit /\ [][PromoNext]_allVars
==============================================================================
