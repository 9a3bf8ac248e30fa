--------------------------- MODULE CampaignApproval ---------------------------
(***************************************************************************)
(* One campaign of the portal, from draft to live: makers edit and submit  *)
(* it, checkers approve, reject or return the submission, tenant admins    *)
(* and the runtime's budget-breach callback pause and resume it, a sweep   *)
(* expires what nobody decided.                                            *)
(*                                                                         *)
(* Calls run concurrently. A call reads the status without a lock (only    *)
(* decide locks, the request row first and then the campaign), checks the  *)
(* transition against what it read, and writes by primary key; what it     *)
(* announces to the runtime it announces after its commit. A transaction's *)
(* writes become visible at once, so a commit is one action and the reads  *)
(* before it are another. Notifications are left out.                      *)
(***************************************************************************)
EXTENDS Naturals, Sequences

CONSTANTS
  Maker, Checker, Admin,  \* portal users by the role they call with; one user may be in two
  Runtime,                \* service identities granted the budget-breach callback
  Content,                \* what a maker can make of the campaign: journey, rules, rewards, caps
  Complete,               \* the contents submit's structural and ceiling checks accept
  Blank,                  \* the content of a campaign just created
  AuditMayFail,           \* can the insert of an ordinary audit row fail?
  MaxRequests             \* bound: no submission begins once this many are on record

ASSUME ApprovalAssumption ==
  /\ Complete \subseteq Content
  /\ Blank \in Content \ Complete
  /\ Runtime \cap (Maker \cup Checker \cup Admin) = {}
  /\ AuditMayFail \in BOOLEAN
  /\ MaxRequests \in Nat \ {0}

VARIABLES
  status,     \* tenant_campaigns.status
  content,    \* the rows that make up the campaign
  requests,   \* Seq(Request): portal_approval_requests of the campaign, by id
  trail,      \* decisions in portal_campaign_audit_trail
  calls,      \* [Caller -> Call]: what each caller's call in flight holds
  published,  \* change types handed to the runtime's stream
  reached,    \* history: the statuses the database has held
  overtaken   \* history: has a maker's write landed on what its call had not read?

history == <<reached, overtaken>>
vars == <<status, content, requests, trail, calls, published, history>>

Lifecycle == INSTANCE CampaignLifecycle
Permits(from, verb, to) == Lifecycle!Permits(from, verb, to)
Status == Lifecycle!CampaignStatus

Caller == Maker \cup Checker \cup Admin \cup Runtime
Nobody == "nobody"
Decided == {"approved", "rejected", "returned"}
Request == [by: Maker, payload: Content, status: {"pending", "expired"} \cup Decided,
            reviewer: Checker \cup {Nobody}, due: BOOLEAN]
DecisionRow == [req: Nat, by: Checker, decision: Decided]
Step == {"idle", "edit", "submit", "commitSubmit", "decide", "transition", "publish"}
Call == [step: Step, verb: Lifecycle!Verb \cup {"none"}, to: Status, seen: Status, payload: Content, req: Nat]
Holding(step, verb, to, req) ==
  [step |-> step, verb |-> verb, to |-> to, seen |-> "draft", payload |-> Blank, req |-> req]
Idle == Holding("idle", "none", "draft", 0)
ChangeType == {"UPDATED", "PAUSED", "ENDED"}

Init ==
  /\ status = "draft"
  /\ content = Blank
  /\ requests = <<>>
  /\ trail = {}
  /\ calls = [u \in Caller |-> Idle]
  /\ published = {}
  /\ reached = {"draft"}
  /\ overtaken = FALSE

IsIdle(u) == calls[u].step = "idle"
At(u, s) == calls[u].step = s
Goes(u, c) == calls' = [calls EXCEPT ![u] = c]
Returns(u) == Goes(u, Idle)
SetStatus(to) == status' = to /\ reached' = reached \cup {to}
\* A maker's call goes by the status it read; Lands tells whether that still is the status.
Makes(u, step, verb, to) == Goes(u, [Holding(step, verb, to, 0) EXCEPT !.seen = status])
Lands(u, asRead) == overtaken' = (overtaken \/ calls[u].seen # status \/ ~asRead)

----------------------------------------------------------------------------
\* Makers.

\* Mutant: the content routes load the campaign without asking whether it is editable.
EditAnyStatus(u) ==
  /\ u \in Maker /\ IsIdle(u)
  /\ Makes(u, "edit", "none", "draft")
  /\ UNCHANGED <<status, content, requests, trail, published, history>>

\* loadEditableCampaign; the journey, binding and cap routes call it before their transaction.
EditLoad(u) ==
  /\ u \in Maker /\ IsIdle(u)
  /\ status = "draft"
  /\ Makes(u, "edit", "none", "draft")
  /\ UNCHANGED <<status, content, requests, trail, published, history>>

EditWrite(u) ==
  /\ At(u, "edit")
  /\ content' \in Content
  /\ Returns(u)
  /\ Lands(u, TRUE)
  /\ UNCHANGED <<status, requests, trail, published, reached>>

\* Mutant: submit sets pending_approval whatever the status.
SubmitAgain(u) ==
  /\ u \in Maker /\ IsIdle(u)
  /\ Len(requests) < MaxRequests
  /\ Makes(u, "submit", "submit", "pending_approval")
  /\ UNCHANGED <<status, content, requests, trail, published, history>>

\* loadCampaign and assertTransition, inside the transaction but without a row lock.
SubmitLoad(u) ==
  /\ u \in Maker /\ IsIdle(u)
  /\ Len(requests) < MaxRequests
  /\ \E to \in Status :
       /\ Permits(status, "submit", to)
       /\ Makes(u, "submit", "submit", to)
  /\ UNCHANGED <<status, content, requests, trail, published, history>>

\* getJourney, activeCaps, validateStructure, ceilingBreaches: the payload is what they read.
SubmitReview(u) ==
  /\ At(u, "submit")
  /\ IF content \in Complete
     THEN Goes(u, [calls[u] EXCEPT !.step = "commitSubmit", !.payload = content])
     ELSE Returns(u)
  /\ UNCHANGED <<status, content, requests, trail, published, history>>

SubmitCommit(u) ==
  /\ At(u, "commitSubmit")
  /\ SetStatus(calls[u].to)
  /\ requests' = Append(requests, [by |-> u, payload |-> calls[u].payload, status |-> "pending",
                                   reviewer |-> Nobody, due |-> FALSE])
  /\ Lands(u, calls[u].payload = content)
  /\ Returns(u)
  /\ UNCHANGED <<content, trail, published>>

----------------------------------------------------------------------------
\* Checkers.

LockedRequest(r) == \E u \in Checker : At(u, "decide") /\ calls[u].req = r

Outcome(verb) == CASE verb = "approve" -> "approved"
                   [] verb = "reject"  -> "rejected"
                   [] verb = "return"  -> "returned"

\* Mutant: no segregation of duty.
DecideOwnWork(u, r, verb) ==
  /\ u \in Checker /\ IsIdle(u)
  /\ ~LockedRequest(r)
  /\ requests[r].status = "pending" /\ ~requests[r].due
  /\ Goes(u, Holding("decide", verb, "draft", r))
  /\ UNCHANGED <<status, content, requests, trail, published, history>>

\* SELECT ... FOR UPDATE and the refusals checked under the lock; a refused call changes nothing.
DecideLock(u, r, verb) ==
  /\ u \in Checker /\ IsIdle(u)
  /\ ~LockedRequest(r)
  /\ requests[r].by # u
  /\ requests[r].status = "pending"
  /\ ~requests[r].due
  /\ Goes(u, Holding("decide", verb, "draft", r))
  /\ UNCHANGED <<status, content, requests, trail, published, history>>

\* Mutant: the campaign row is left behind.
DecideRequestOnly(u) ==
  /\ At(u, "decide")
  /\ requests[calls[u].req].status = "pending"
  /\ requests' = [requests EXCEPT ![calls[u].req].status = Outcome(calls[u].verb), ![calls[u].req].reviewer = u]
  /\ trail' = trail \cup {[req |-> calls[u].req, by |-> u, decision |-> Outcome(calls[u].verb)]}
  /\ Returns(u)
  /\ UNCHANGED <<status, content, published, history>>

\* The guarded UPDATE of the request, the campaign's FOR UPDATE, assertTransition on the status
\* read under that lock, the campaign row and the audit row, in one commit.
DecideCommit(u) ==
  /\ At(u, "decide")
  /\ LET r == calls[u].req
         verb == calls[u].verb
     IN \E to \in Status :
          /\ requests[r].status = "pending"
          /\ Permits(status, verb, to)
          /\ SetStatus(to)
          /\ requests' = [requests EXCEPT ![r].status = Outcome(verb), ![r].reviewer = u]
          /\ trail' = trail \cup {[req |-> r, by |-> u, decision |-> Outcome(verb)]}
          /\ IF to = "active" THEN Goes(u, Holding("publish", verb, to, r)) ELSE Returns(u)
  /\ UNCHANGED <<content, published, overtaken>>

----------------------------------------------------------------------------
\* Tenant admins and the runtime.

Verbs(u) == (IF u \in Admin THEN {"pause", "resume"} ELSE {})
            \cup (IF u \in Runtime THEN {"pause"} ELSE {})

\* runTransition and pauseFromRuntime (which answers a repeated report without a write).
TransitionLoad(u, verb) ==
  /\ IsIdle(u)
  /\ verb \in Verbs(u)
  /\ \E to \in Status :
       /\ Permits(status, verb, to)
       /\ Goes(u, Holding("transition", verb, to, 0))
  /\ UNCHANGED <<status, content, requests, trail, published, history>>

TransitionWrite(u) ==
  /\ At(u, "transition")
  /\ SetStatus(calls[u].to)
  /\ Goes(u, [calls[u] EXCEPT !.step = "publish"])
  /\ UNCHANGED <<content, requests, trail, published, overtaken>>

\* audit.record swallows the failed insert, but PostgreSQL has aborted the transaction: its
\* COMMIT rolls back and reports no error, and the call goes on with the row it re-read.
AuditSwallowed(u) ==
  /\ AuditMayFail
  /\ u \in Admin /\ At(u, "transition")
  /\ Goes(u, [calls[u] EXCEPT !.step = "publish"])
  /\ UNCHANGED <<status, content, requests, trail, published, history>>

EventOf(to) == CASE to = "paused" -> "PAUSED"
                 [] to = "active" -> "UPDATED"
                 [] to \in {"completed", "archived"} -> "ENDED"

Publish(u) ==
  /\ At(u, "publish")
  /\ published' = published \cup {EventOf(calls[u].to)}
  /\ Returns(u)
  /\ UNCHANGED <<status, content, requests, trail, history>>

----------------------------------------------------------------------------
\* Time, the sweep and failures.

Deadline(r) ==
  /\ requests[r].status = "pending" /\ ~requests[r].due
  /\ requests' = [requests EXCEPT ![r].due = TRUE]
  /\ UNCHANGED <<status, content, trail, calls, published, history>>

\* Mutant: the sweep looks at the deadline alone.
SweepAnyDue(r) ==
  /\ requests[r].due
  /\ ~LockedRequest(r)
  /\ requests' = [requests EXCEPT ![r].status = "expired"]
  /\ UNCHANGED <<status, content, trail, calls, published, history>>

\* markExpired: UPDATE ... WHERE status = 'pending' AND expires_at <= now(). It waits for a
\* locked row and then finds it decided.
Sweep(r) ==
  /\ requests[r].status = "pending" /\ requests[r].due
  /\ ~LockedRequest(r)
  /\ requests' = [requests EXCEPT ![r].status = "expired"]
  /\ UNCHANGED <<status, content, trail, calls, published, history>>

\* A statement fails, assertTransition refuses under the lock, or the process stops: the
\* transaction rolls back, or, after the commit, the announcement is lost.
Abandon(u) ==
  /\ ~IsIdle(u)
  /\ Returns(u)
  /\ UNCHANGED <<status, content, requests, trail, published, history>>

CallSteps(u) ==
  \/ EditLoad(u) \/ EditWrite(u)
  \/ SubmitLoad(u) \/ SubmitReview(u) \/ SubmitCommit(u)
  \/ \E r \in DOMAIN requests, verb \in {"approve", "reject", "return"} : DecideLock(u, r, verb)
  \/ DecideCommit(u)
  \/ \E verb \in {"pause", "resume"} : TransitionLoad(u, verb)
  \/ TransitionWrite(u) \/ AuditSwallowed(u)
  \/ Publish(u)
  \/ Abandon(u)

Next ==
  \/ \E u \in Caller : CallSteps(u)
  \/ \E r \in DOMAIN requests : Deadline(r) \/ Sweep(r)

Spec == Init /\ [][Next]_vars
=============================================================================
