------------------------ MODULE CampaignApprovalProps ------------------------
(* What CampaignApproval promises. Submit and the edit routes check a status they do not    *)
(* lock, so a maker's call may be overtaken: ReviewStands and FollowsLifecycle say that     *)
(* nothing else breaks a review or the transition table.                                    *)
EXTENDS CampaignApproval

TypeOK ==
  /\ status \in Status
  /\ content \in Content
  /\ requests \in Seq(Request)
  /\ trail \subseteq DecisionRow
  /\ calls \in [Caller -> Call]
  /\ published \subseteq ChangeType
  /\ reached \subseteq Status /\ overtaken \in BOOLEAN

Open(r) == requests[r].status = "pending"
Approved(r) == requests[r].status = "approved"

\* A campaign the runtime may act on, or was told of, was approved by a checker other than the maker
\* who submitted it, whatever pauses, resumes, budget breaches and stale submissions ran since
\* (approvals.service.ts: "nobody approves their own work", and "NO EVENT" before an approval).
LiveWasReviewed ==
  status \in Lifecycle!Live \/ published # {} => \E r \in DOMAIN requests :
    Approved(r) /\ requests[r].reviewer # requests[r].by

\* A request is decided exactly when one audit row says so, and that row names the reviewer and
\* the decision the request carries: the three rows of decide commit or roll back together.
DecisionOnRecord ==
  \A r \in DOMAIN requests :
    LET rows == {row \in trail : row.req = r}
    IN IF requests[r].status \in Decided
       THEN rows = {[req |-> r, by |-> requests[r].reviewer, decision |-> requests[r].status]}
       ELSE rows = {}

\* A decided or expired request never changes again: two checkers racing, or the sweep racing a
\* checker, cannot overwrite an outcome.
SettledStays ==
  [][\A r \in DOMAIN requests : ~Open(r) => requests'[r] = requests[r]]_vars

\* A campaign waits for approval only while a request that is open or expired explains it: no
\* decision leaves its campaign behind.
WaitingHasRequest ==
  status = "pending_approval" => \E r \in DOMAIN requests : requests[r].status \in {"pending", "expired"}

\* The request, the campaign and the audit row of a decision move together, whichever of the three
\* writes fails and whoever else is deciding, sweeping or submitting.
DecisionsAreWhole == DecisionOnRecord /\ WaitingHasRequest

\* The runtime is told of a status only once the database has held it (campaigns.service.ts: the
\* event is published only after the transaction commits).
EventsWereReached ==
  published \subseteq {EventOf(s) : s \in reached \cap (Lifecycle!Live \cup {"completed", "archived"})}

\* One request at most is open, and only while the campaign waits for it.
OneOpenRequest ==
  \A r \in DOMAIN requests : Open(r) =>
    /\ status = "pending_approval"
    /\ \A q \in DOMAIN requests : Open(q) => q = r

\* An approved request has its campaign live: never over a draft or one waiting again.
ApprovedIsLive ==
  (\E r \in DOMAIN requests : Approved(r)) => status \in Lifecycle!Live

\* What runs is what the checker was shown, and what waits is what was submitted: content does
\* not move between the submission and the decision, nor after it.
ContentWasReviewed ==
  /\ status \in Lifecycle!Live => \E r \in DOMAIN requests : Approved(r) /\ requests[r].payload = content
  /\ \A r \in DOMAIN requests : Open(r) => requests[r].payload = content

\* There is one review and it stands, until a maker's write lands on a campaign that is no longer
\* as its call had read it: makers, checkers, admins, the runtime and the sweep may run in any
\* other order (campaigns.service.ts: "Two submits racing must not both create an approval
\* request").
ReviewStands == ~overtaken => OneOpenRequest /\ ApprovedIsLive /\ ContentWasReviewed

\* The status column follows the transition table (campaign-state-machine.ts) until a maker's
\* write was overtaken, although pause and resume check a status they did not lock either.
FollowsLifecycle == [][~overtaken' => Lifecycle!Next]_status

\* Two submits racing do not both create an approval request (campaigns.service.ts, submit).
OneSubmission == \A q, r \in DOMAIN requests : Open(q) /\ Open(r) => q = r

\* An unlisted transition is impossible by construction (campaign-state-machine.ts).
TableHolds == Lifecycle!Spec
=============================================================================
