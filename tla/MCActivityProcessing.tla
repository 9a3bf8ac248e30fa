------------------------ MODULE MCActivityProcessing ------------------------
(***************************************************************************)
(* Configurations of ActivityProcessing for TLC. Each group of definitions *)
(* is one campaign, small enough to explore and shaped so that the case it *)
(* is named for happens; a .cfg gives the CONSTANTs from one group.        *)
(***************************************************************************)
EXTENDS ActivityProcessingProps, TLC

CONSTANTS u1, u2, s1, s2, s3, s4, cA, cB, cC, tr, tq, buy, visit, spend

NoRewards == <<>>
NoCaps == <<>>
AllPass == Submission \X Component

\* One tracker "all" over two siblings bound to the same activity; one customer.
SiblingOwner == [s \in Submission |-> u1]
SiblingActivity == [s \in Submission |-> buy]
SiblingBinding == [c \in Component |-> buy]
SiblingTracker == [c \in Component |-> tr]
SiblingOrder == cA :> 0 @@ cB :> 1
AllLogic == [t \in Tracker |-> "all"]
OnceEach == [c \in Component |-> 1]
TwiceEach == [c \in Component |-> 2]
NoThreshold == [t \in Tracker |-> 0]
FailingThird == (Submission \X Component) \ {<<s3, cB>>}

\* The same beside an activity for a tracker whose logic the evaluator does not support.
OddActivity == [s \in Submission |-> IF s = s4 THEN spend ELSE buy]
OddBinding == [c \in Component |-> IF c = cC THEN spend ELSE buy]
OddTracker == [c \in Component |-> IF c = cC THEN tq ELSE tr]
OddOrder == cA :> 0 @@ cB :> 1 @@ cC :> 0
OddLogic == tr :> "all" @@ tq :> "sequence"

----------------------------------------------------------------------------
\* A reward and a cap in few words.
ComponentReward(code, c, unit, value) ==
  [code |-> code, level |-> "component", ref |-> c, unit |-> unit, type |-> "CASH",
   resolvable |-> TRUE, value |-> value]
CampaignWideCap(class, unit, lifetime, maxAmount, maxCount) ==
  [class |-> class, scope |-> "campaign", ref |-> tr, unit |-> unit, type |-> AnyType,
   lifetime |-> lifetime, maxAmount |-> maxAmount, maxCount |-> maxCount]

\* Two customers earn the same two rewards: a fixed amount under a pooled budget
\* and a daily personal limit, and a promo code counted by a tracker-level cap.
PooledOwner == s1 :> u1 @@ s2 :> u2 @@ s3 :> u1
SingleComponentOrder == [c \in Component |-> 0]
AnyLogic == [t \in Tracker |-> "any"]
PooledRewards ==
  << ComponentReward("cash", cA, "INR", 2),
     [ComponentReward("promo", cA, "CODE", 0) EXCEPT !.level = "tracker", !.ref = tr,
                                                    !.type = "PROMO", !.resolvable = FALSE] >>
PooledCaps ==
  << CampaignWideCap("limit", "INR", FALSE, 0, 1),
     CampaignWideCap("budget", "INR", TRUE, 4, 0),
     [CampaignWideCap("budget", "CODE", TRUE, 9, 2) EXCEPT !.scope = "tracker", !.type = "PROMO"] >>

\* Two customers' completions draw on the same two budgets in opposite orders. Run with
\* handlers that may outlive the stale timeout.
CrossedOwner == s1 :> u1 @@ s2 :> u2 @@ s3 :> u1
CrossedActivity == s1 :> buy @@ s2 :> visit @@ s3 :> buy
CrossedBinding == cA :> buy @@ cB :> visit
CrossedRewards ==
  << ComponentReward("a1", cA, "INR", 1), ComponentReward("a2", cA, "PTS", 1),
     ComponentReward("b1", cB, "PTS", 1), ComponentReward("b2", cB, "INR", 1) >>
CrossedCaps ==
  << CampaignWideCap("budget", "INR", TRUE, 1, 0), CampaignWideCap("budget", "PTS", TRUE, 0, 2) >>
=============================================================================
