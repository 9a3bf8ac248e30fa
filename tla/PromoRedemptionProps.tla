------------------------- MODULE PromoRedemptionProps -------------------------
(***************************************************************************)
(* What redeeming promo codes must keep to, across the two services.       *)
(***************************************************************************)
EXTENDS PromoRedemption

\* The service's tables, topics and handlers hold values of their types.
PromoTypeOK ==
  /\ issued \in [Correlation -> Reference \cup {None}]
  /\ outbox \in [Correlation -> Promo!OutboxRow]
  /\ requests \in [Correlation -> Nat]
  /\ results \subseteq Promo!Message
  /\ job \in [Handler -> Promo!Job]
  /\ call \in [Worker -> CallStep]

\* What a redemption records as its external reference is the code its own request was
\* issued, whichever attempt, transport or late reply it came through.
ReferenceIsOwnCode ==
  \A e \in Entry : row[e].ref # None => row[e].ref = issued[corrOf[e]]

\* The pipeline cannot tell the promo-code connector from any other: late answers, lost
\* replies and callers that hung up never take it where an ordinary answer could not.
IsARedemption == Spec

\* Two rewards are never paid out with one promo code.
OwnCodeEach ==
  \A d, e \in Entry : row[d].ref # None /\ row[d].ref = row[e].ref => d = e

\* promo-code-service: a redelivered or repeated Kafka request whose code an earlier one
\* created is answered: its result is on the result topic, or on the way there again.
RepublishesWhenFound ==
  [][\A h \in Handler :
       LET c == job[h].corr IN
       /\ job[h].step = "check" /\ job[h].transport = "KAFKA"
       /\ issued[c] # None /\ outbox[c].status # "absent"
       /\ job'[h].step = "answer"
       => outbox'[c].status = "PENDING" \/ \E m \in results : m.corr = c]_allVars
==============================================================================
