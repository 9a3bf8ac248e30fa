-------------------------- MODULE MCPromoRedemption --------------------------
EXTENDS PromoRedemptionProps, TLC

CONSTANTS e1, e2, a1, a2

MCCreatedAt == [e \in Entry |-> IF e = e1 THEN 1 ELSE 2]
\* Each reward was earned by an activity of its own ...
MCCorrOf == [e \in Entry |-> IF e = e1 THEN a1 ELSE a2]
\* ... or all of them by one.
MCSameActivity == [e \in Entry |-> a1]

\* e1's reward system allows a second attempt.
MCMaxAttempts == [e \in Entry |-> IF e = e1 THEN 2 ELSE 1]

MCChannel == [e \in Entry |-> IF e = e1 THEN "KAFKA" ELSE "GRPC"]

MCSymmetry == Permutations(Worker) \cup Permutations(Handler) \cup Permutations(Reference)
==============================================================================
