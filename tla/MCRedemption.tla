---------------------------- MODULE MCRedemption ----------------------------
EXTENDS RedemptionProps

CONSTANTS e1, e2, e3

MCCreatedAt == [e \in Entry |-> IF e = e1 THEN 1 ELSE IF e = e2 THEN 2 ELSE 3]
MCMaxAttempts == [e \in Entry |-> 2]
==============================================================================
