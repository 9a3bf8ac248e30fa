------------------------ MODULE CampaignApprovalProofs ------------------------
(***************************************************************************)
(* The approval workflow for any users, contents and number of requests.   *)
(* Each call in flight holds a copy of what it read; the proofs say what   *)
(* of that copy is still so when the call writes.                          *)
(***************************************************************************)
EXTENDS CampaignApprovalProps, TLAPS

USE DEF Open, Approved, history

ThreeVerbs == {"approve", "reject", "return"}

\* What a call in flight holds of the state, beyond its type.
CallsAreTrue ==
  \A u \in Caller :
    /\ calls[u].step \in {"edit", "submit", "commitSubmit"} => calls[u].seen = "draft"
    /\ calls[u].step \in {"submit", "commitSubmit"} => u \in Maker /\ calls[u].to = "pending_approval"
    /\ calls[u].step = "decide" =>
         /\ u \in Checker
         /\ calls[u].verb \in ThreeVerbs
         /\ calls[u].req \in DOMAIN requests
         /\ requests[calls[u].req].by # u
    /\ calls[u].step \in {"transition", "publish"} => calls[u].to \in Lifecycle!Live

LEMMA CallTypes ==
  /\ Idle \in Call
  /\ \A s \in Step, verb \in Lifecycle!Verb \cup {"none"}, to \in Status, n \in Nat :
       /\ Holding(s, verb, to, n) \in Call
       /\ Holding(s, verb, to, n).step = s /\ Holding(s, verb, to, n).verb = verb
       /\ Holding(s, verb, to, n).to = to /\ Holding(s, verb, to, n).req = n
BY ApprovalAssumption DEF ApprovalAssumption, Idle, Holding, Call, Step, Status, Lifecycle!CampaignStatus

LEMMA HoldingType ==
  ASSUME NEW s \in Step, NEW verb \in Lifecycle!Verb \cup {"none"}, NEW to \in Status, NEW n \in Nat
  PROVE  /\ Holding(s, verb, to, n) \in Call
         /\ Holding(s, verb, to, n).step = s /\ Holding(s, verb, to, n).to = to
BY ONLY CallTypes, s \in Step, verb \in Lifecycle!Verb \cup {"none"}, to \in Status, n \in Nat

\* What a maker's call holds from its start: the status it read, too.
MakerCall(step, verb, to) == [Holding(step, verb, to, 0) EXCEPT !.seen = status]

LEMMA MakerCallType ==
  ASSUME TypeOK, NEW s \in Step, NEW verb \in Lifecycle!Verb \cup {"none"}, NEW to \in Status
  PROVE /\ MakerCall(s, verb, to) \in Call
        /\ MakerCall(s, verb, to).step = s /\ MakerCall(s, verb, to).to = to
        /\ MakerCall(s, verb, to).seen = status
BY ApprovalAssumption DEF ApprovalAssumption, TypeOK, MakerCall, Holding, Call

LEMMA IdleParts == Blank \in Content /\ "draft" \in Status
BY ApprovalAssumption DEF ApprovalAssumption, Status, Lifecycle!CampaignStatus

LEMMA OutcomeIsDecided == \A verb \in ThreeVerbs : Outcome(verb) \in Decided
BY DEF ThreeVerbs, Outcome, Decided

LEMMA InitTypes == Init => TypeOK /\ CallsAreTrue
<1> SUFFICES ASSUME Init PROVE TypeOK /\ CallsAreTrue
  OBVIOUS
<1>1. calls \in [Caller -> Call]
  BY CallTypes DEF Init
<1>2. TypeOK
  <2>1. overtaken \in BOOLEAN
    BY DEF Init
  <2> QED
    BY <1>1, <2>1, ApprovalAssumption DEF Init, TypeOK, ApprovalAssumption, Status, Lifecycle!CampaignStatus
<1>3. CallsAreTrue
  BY DEF Init, CallsAreTrue, Idle, Holding
<1> QED
  BY <1>2, <1>3

----------------------------------------------------------------------------
\* What each action does, with its records in the form the provers read.

LEMMA SubmitCommitEffect ==
  ASSUME TypeOK, CallsAreTrue, NEW u \in Caller, SubmitCommit(u)
  PROVE /\ u \in Maker
        /\ status' = "pending_approval" /\ reached' = reached \cup {"pending_approval"}
        /\ \E q \in Request :
             /\ q.by = u /\ q.payload = calls[u].payload /\ q.status = "pending" /\ ~q.due
             /\ requests' = Append(requests, q)
        /\ calls' = [calls EXCEPT ![u] = Idle]
        /\ UNCHANGED <<content, trail, published>>
<1> DEFINE q == [by |-> u, payload |-> calls[u].payload, status |-> "pending",
                 reviewer |-> Nobody, due |-> FALSE]
<1>1. u \in Maker /\ calls[u].to = "pending_approval"
  BY DEF SubmitCommit, At, CallsAreTrue
<1>2. calls[u].payload \in Content
  BY DEF TypeOK, Call
<1>3. q \in Request
  BY <1>1, <1>2 DEF Request
<1>4. requests' = Append(requests, q) /\ q.by = u /\ q.payload = calls[u].payload /\ q.status = "pending" /\ ~q.due
  BY DEF SubmitCommit
<1> HIDE DEF q
<1> QED
  BY <1>1, <1>3, <1>4 DEF SubmitCommit, SetStatus, Returns, Goes

\* A decision changes one open request of somebody else's, and its campaign with it.
LEMMA DecideEffect ==
  ASSUME TypeOK, CallsAreTrue, NEW u \in Caller, DecideCommit(u)
  PROVE \E r \in DOMAIN requests, to \in Status, q \in Request :
          /\ u \in Checker
          /\ Open(r)
          /\ requests[r].by # u
          /\ q.by = requests[r].by /\ q.payload = requests[r].payload /\ q.reviewer = u
          /\ q.status \in Decided /\ (q.status = "approved" <=> to = "active")
          /\ status = "pending_approval" /\ to \in {"active", "draft"}
          /\ Lifecycle!Permits(status, calls[u].verb, to)
          /\ status' = to /\ reached' = reached \cup {to}
          /\ requests' = [requests EXCEPT ![r] = q]
          /\ trail' = trail \cup {[req |-> r, by |-> u, decision |-> q.status]}
          /\ calls' = [calls EXCEPT ![u] = IF to = "active" THEN Holding("publish", calls[u].verb, to, calls[u].req) ELSE Idle]
          /\ UNCHANGED <<content, published>>
<1>1. /\ u \in Checker /\ calls[u].verb \in ThreeVerbs
      /\ calls[u].req \in DOMAIN requests /\ requests[calls[u].req].by # u
  BY DEF DecideCommit, At, CallsAreTrue
<1> DEFINE r == calls[u].req
           d == Outcome(calls[u].verb)
           q == [requests[r] EXCEPT !.status = d, !.reviewer = u]
<1>2. d \in Decided
  BY <1>1, OutcomeIsDecided
<1>3. requests[r] \in Request
  BY <1>1 DEF TypeOK
<1>4. q \in Request /\ q.by = requests[r].by /\ q.payload = requests[r].payload /\ q.reviewer = u /\ q.status = d
  BY <1>1, <1>2, <1>3 DEF Request
<1>5. requests' = [requests EXCEPT ![r] = q] /\ trail' = trail \cup {[req |-> r, by |-> u, decision |-> d]}
  BY <1>1 DEF DecideCommit
<1>6. PICK to \in Status :
        /\ requests[r].status = "pending"
        /\ Permits(status, calls[u].verb, to)
        /\ SetStatus(to)
        /\ IF to = "active" THEN Goes(u, Holding("publish", calls[u].verb, to, calls[u].req)) ELSE Returns(u)
  BY DEF DecideCommit
<1>7. status = "pending_approval" /\ to \in {"active", "draft"} /\ (d = "approved" <=> to = "active")
  BY <1>1, <1>6 DEF Permits, Lifecycle!Permits, Lifecycle!Transitions, ThreeVerbs, Outcome
<1>8. calls' = [calls EXCEPT ![u] = IF to = "active" THEN Holding("publish", calls[u].verb, to, calls[u].req) ELSE Idle]
  BY <1>6 DEF Goes, Returns
<1>9. /\ r \in DOMAIN requests /\ u \in Checker /\ Open(r) /\ requests[r].by # u
      /\ Lifecycle!Permits(status, calls[u].verb, to)
      /\ status' = to /\ reached' = reached \cup {to}
      /\ UNCHANGED <<content, published>>
  BY <1>1, <1>6 DEF DecideCommit, SetStatus, Permits
<1> HIDE DEF q, r, d
<1>10. q.status \in Decided /\ (q.status = "approved" <=> to = "active")
  BY <1>2, <1>4, <1>7
<1>11. trail' = trail \cup {[req |-> r, by |-> u, decision |-> q.status]}
  BY <1>4, <1>5
<1> QED
  BY <1>4, <1>5, <1>7, <1>8, <1>9, <1>10, <1>11

\* The steps that touch no request, no status and no trail.
OnlyCalls(u) ==
  \/ EditLoad(u) \/ EditWrite(u) \/ SubmitLoad(u) \/ SubmitReview(u)
  \/ \E r \in DOMAIN requests, verb \in ThreeVerbs : DecideLock(u, r, verb)
  \/ \E verb \in {"pause", "resume"} : TransitionLoad(u, verb)
  \/ AuditSwallowed(u) \/ Publish(u) \/ Abandon(u)

LEMMA StepCases ==
  ASSUME [Next]_vars
  PROVE \/ \E u \in Caller : OnlyCalls(u) \/ SubmitCommit(u) \/ DecideCommit(u) \/ TransitionWrite(u)
        \/ \E r \in DOMAIN requests : Deadline(r) \/ Sweep(r)
        \/ UNCHANGED vars
BY DEF Next, CallSteps, OnlyCalls, ThreeVerbs

LEMMA OnlyCallsEffect ==
  ASSUME NEW u \in Caller, OnlyCalls(u)
  PROVE UNCHANGED <<status, requests, trail, reached>>
BY DEF OnlyCalls, EditLoad, EditWrite, SubmitLoad, SubmitReview, DecideLock, TransitionLoad,
       AuditSwallowed, Publish, Abandon

\* Only a maker's write can be overtaken.
LEMMA OvertakenMoves ==
  ASSUME [Next]_vars
  PROVE \/ UNCHANGED overtaken
        \/ \E u \in Caller : EditWrite(u) /\ Lands(u, TRUE)
        \/ \E u \in Caller : SubmitCommit(u) /\ Lands(u, calls[u].payload = content)
<1>1. ASSUME NEW u \in Caller, OnlyCalls(u), ~EditWrite(u) PROVE UNCHANGED overtaken
  BY <1>1 DEF OnlyCalls, EditLoad, SubmitLoad, SubmitReview, DecideLock, TransitionLoad,
              AuditSwallowed, Publish, Abandon
<1>2. ASSUME NEW u \in Caller, EditWrite(u) PROVE Lands(u, TRUE)
  BY <1>2 DEF EditWrite
<1>3. ASSUME NEW u \in Caller, SubmitCommit(u) PROVE Lands(u, calls[u].payload = content)
  BY <1>3 DEF SubmitCommit
<1>4. ASSUME NEW u \in Caller, DecideCommit(u) \/ TransitionWrite(u) PROVE UNCHANGED overtaken
  BY <1>4 DEF DecideCommit, TransitionWrite
<1>5. ASSUME NEW r \in DOMAIN requests, Deadline(r) \/ Sweep(r) PROVE UNCHANGED overtaken
  BY <1>5 DEF Deadline, Sweep
<1>6. CASE UNCHANGED vars
  BY <1>6 DEF vars
<1> QED
  BY <1>1, <1>2, <1>3, <1>4, <1>5, <1>6, StepCases

LEMMA ClockEffect ==
  ASSUME TypeOK, NEW r \in DOMAIN requests, Deadline(r) \/ Sweep(r)
  PROVE /\ Open(r)
        /\ \E q \in Request : /\ q.by = requests[r].by /\ q.payload = requests[r].payload
                              /\ q.status \in {"pending", "expired"}
                              /\ requests' = [requests EXCEPT ![r] = q]
        /\ UNCHANGED <<status, content, trail, calls, published, reached>>
<1>1. requests[r] \in Request
  BY DEF TypeOK
<1>2. CASE Deadline(r)
  <2> DEFINE q == [requests[r] EXCEPT !.due = TRUE]
  <2>1. q \in Request /\ q.by = requests[r].by /\ q.payload = requests[r].payload /\ q.status = requests[r].status
    BY <1>1 DEF Request
  <2>2. requests' = [requests EXCEPT ![r] = q] /\ requests[r].status = "pending"
    BY <1>2 DEF Deadline
  <2> HIDE DEF q
  <2> QED
    BY <1>2, <2>1, <2>2 DEF Deadline
<1>3. CASE Sweep(r)
  <2> DEFINE q == [requests[r] EXCEPT !.status = "expired"]
  <2>1. q \in Request /\ q.by = requests[r].by /\ q.payload = requests[r].payload /\ q.status = "expired"
    BY <1>1 DEF Request
  <2>2. requests' = [requests EXCEPT ![r] = q]
    BY <1>3 DEF Sweep
  <2> HIDE DEF q
  <2> QED
    BY <1>3, <2>1, <2>2 DEF Sweep
<1> QED
  BY <1>2, <1>3

\* Requests are only added, keep their maker and payload, and once settled do not change.
LEMMA RequestsGrow ==
  ASSUME TypeOK, CallsAreTrue, [Next]_vars
  PROVE /\ requests' \in Seq(Request)
        /\ \A r \in DOMAIN requests :
             /\ r \in DOMAIN requests'
             /\ requests'[r].by = requests[r].by /\ requests'[r].payload = requests[r].payload
             /\ ~Open(r) => requests'[r] = requests[r]
<1> DEFINE Grown ==
      /\ requests' \in Seq(Request)
      /\ \A r \in DOMAIN requests :
           /\ r \in DOMAIN requests'
           /\ requests'[r].by = requests[r].by /\ requests'[r].payload = requests[r].payload
           /\ ~Open(r) => requests'[r] = requests[r]
<1>0. requests \in Seq(Request)
  BY DEF TypeOK
<1>1. CASE UNCHANGED requests
  BY <1>0, <1>1
<1>2. ASSUME NEW q \in Request, requests' = Append(requests, q) PROVE Grown
  BY <1>0, <1>2
<1>3. ASSUME NEW r \in DOMAIN requests, NEW q \in Request, requests' = [requests EXCEPT ![r] = q],
             q.by = requests[r].by, q.payload = requests[r].payload, Open(r)
      PROVE Grown
  BY <1>0, <1>3
<1>4. ASSUME NEW u \in Caller, SubmitCommit(u) PROVE Grown
  BY <1>2, <1>4, SubmitCommitEffect
<1>5. ASSUME NEW u \in Caller, DecideCommit(u) PROVE Grown
  BY <1>3, <1>5, DecideEffect
<1>6. ASSUME NEW r \in DOMAIN requests, Deadline(r) \/ Sweep(r) PROVE Grown
  BY <1>3, <1>6, ClockEffect
<1>7. ASSUME NEW u \in Caller, OnlyCalls(u) \/ TransitionWrite(u) PROVE Grown
  BY <1>1, <1>7, OnlyCallsEffect DEF TransitionWrite
<1> HIDE DEF Grown
<1>8. Grown
  BY <1>1, <1>4, <1>5, <1>6, <1>7, StepCases DEF vars, Grown
<1> QED
  BY <1>8 DEF Grown

\* A call's next state is a call, and one that is true of the state.
LEMMA CallsStep ==
  ASSUME TypeOK, CallsAreTrue, [Next]_vars
  PROVE calls' \in [Caller -> Call] /\ CallsAreTrue'
<1> DEFINE True(u, c) ==
      /\ c.step \in {"edit", "submit", "commitSubmit"} => c.seen = "draft"
      /\ c.step \in {"submit", "commitSubmit"} => u \in Maker /\ c.to = "pending_approval"
      /\ c.step = "decide" => /\ u \in Checker /\ c.verb \in ThreeVerbs
                              /\ c.req \in DOMAIN requests /\ requests[c.req].by # u
      /\ c.step \in {"transition", "publish"} => c.to \in Lifecycle!Live
<1>0. calls \in [Caller -> Call] /\ \A u \in Caller : True(u, calls[u])
  BY DEF TypeOK, CallsAreTrue
<1> DEFINE Replaces == \E u \in Caller, c \in Call : True(u, c) /\ calls' = [calls EXCEPT ![u] = c]
<1>1. ASSUME UNCHANGED calls \/ Replaces
      PROVE calls' \in [Caller -> Call] /\ CallsAreTrue'
  <2> DEFINE AllTrue == \A v \in Caller : True(v, calls'[v])
  <2>1. calls' \in [Caller -> Call] /\ AllTrue
    <3> HIDE DEF True
    <3>1. ASSUME NEW u \in Caller, NEW c \in Call, True(u, c), calls' = [calls EXCEPT ![u] = c]
          PROVE calls' \in [Caller -> Call] /\ \A v \in Caller : True(v, calls'[v])
      BY <1>0, <3>1
    <3> QED
      BY <1>0, <1>1, <3>1
  <2> QED
    BY <2>1, RequestsGrow DEF CallsAreTrue
<1>2. ASSUME NEW u \in Caller, NEW c \in Call, True(u, c), Goes(u, c) PROVE Replaces
  BY <1>2 DEF Goes
<1>3. ASSUME NEW u \in Caller, Returns(u) PROVE Replaces
  BY <1>2, <1>3, CallTypes DEF Returns, Idle, Holding
<1>4. {"edit", "submit", "decide", "transition", "publish"} \subseteq Step
  BY DEF Step
<1>5. ASSUME NEW u \in Caller, SubmitLoad(u) PROVE Replaces
  <2>1. PICK to \in Status : Permits(status, "submit", to) /\ Goes(u, MakerCall("submit", "submit", to))
    BY <1>5 DEF SubmitLoad, Makes, MakerCall
  <2>2. "submit" \in Lifecycle!Verb \cup {"none"}
    BY DEF Lifecycle!Verb
  <2> DEFINE c == MakerCall("submit", "submit", to)
  <2>3. c \in Call /\ c.step = "submit" /\ c.to = to /\ c.seen = status
    BY <1>4, <2>2, MakerCallType
  <2>4. to = "pending_approval" /\ status = "draft" /\ u \in Maker
    BY <1>5, <2>1 DEF Permits, Lifecycle!Permits, Lifecycle!Transitions, SubmitLoad
  <2> HIDE DEF c
  <2>5. Goes(u, c)
    BY <2>1 DEF c
  <2> QED
    BY <1>2, <2>3, <2>4, <2>5
<1>6. ASSUME NEW u \in Caller, SubmitReview(u) PROVE Replaces
  <2> DEFINE c == [calls[u] EXCEPT !.step = "commitSubmit", !.payload = content]
  <2>1. c \in Call /\ c.step = "commitSubmit" /\ c.to = calls[u].to /\ c.seen = calls[u].seen
    BY DEF TypeOK, Call, Step
  <2>2. u \in Maker /\ calls[u].to = "pending_approval" /\ calls[u].seen = "draft"
    BY <1>0, <1>6 DEF SubmitReview, At
  <2> HIDE DEF c
  <2>3. Goes(u, c) \/ Returns(u)
    BY <1>6 DEF SubmitReview, c
  <2> QED
    BY <1>2, <1>3, <2>1, <2>2, <2>3
<1>7. ASSUME NEW u \in Caller, NEW r \in DOMAIN requests, NEW verb \in ThreeVerbs, DecideLock(u, r, verb)
      PROVE Replaces
  <2> DEFINE c == Holding("decide", verb, "draft", r)
  <2>1. r \in Nat /\ verb \in Lifecycle!Verb
    BY DEF TypeOK, ThreeVerbs, Lifecycle!Verb
  <2>2. c \in Call /\ c.step = "decide" /\ c.verb = verb /\ c.req = r
    BY <1>4, <2>1, IdleParts, CallTypes
  <2> HIDE DEF c
  <2>3. Goes(u, c) /\ u \in Checker /\ requests[r].by # u
    BY <1>7 DEF DecideLock, c
  <2> QED
    BY <1>2, <2>2, <2>3
<1>8. ASSUME NEW u \in Caller, NEW verb \in {"pause", "resume"}, TransitionLoad(u, verb) PROVE Replaces
  <2>1. PICK to \in Status : Permits(status, verb, to) /\ Goes(u, Holding("transition", verb, to, 0))
    BY <1>8 DEF TransitionLoad
  <2> DEFINE c == Holding("transition", verb, to, 0)
  <2>2. c \in Call /\ c.step = "transition" /\ c.to = to
    BY <1>4, CallTypes DEF Lifecycle!Verb
  <2>3. to \in Lifecycle!Live
    BY <2>1 DEF Permits, Lifecycle!Permits, Lifecycle!Transitions, Lifecycle!Live
  <2> HIDE DEF c
  <2>4. Goes(u, c)
    BY <2>1 DEF c
  <2> QED
    BY <1>2, <2>2, <2>3, <2>4
<1>9. ASSUME NEW u \in Caller, At(u, "transition"), Goes(u, [calls[u] EXCEPT !.step = "publish"]) PROVE Replaces
  <2> DEFINE c == [calls[u] EXCEPT !.step = "publish"]
  <2>1. c \in Call /\ c.step = "publish" /\ c.to = calls[u].to
    BY DEF TypeOK, Call, Step
  <2>3. calls[u].to \in Lifecycle!Live
    BY <1>0, <1>9 DEF At
  <2> HIDE DEF c
  <2>2. Goes(u, c)
    BY <1>9 DEF c
  <2> QED
    BY <1>2, <2>1, <2>2, <2>3
<1>10. ASSUME NEW u \in Caller, EditLoad(u) PROVE Replaces
  <2> DEFINE c == MakerCall("edit", "none", "draft")
  <2>1. c \in Call /\ c.step = "edit" /\ c.seen = status
    BY <1>4, IdleParts, MakerCallType
  <2> HIDE DEF c
  <2>2. Goes(u, c) /\ status = "draft"
    BY <1>10 DEF EditLoad, Makes, MakerCall, c
  <2> QED
    BY <1>2, <2>1, <2>2
<1>11. ASSUME NEW u \in Caller, DecideCommit(u) PROVE Replaces
  <2>1. PICK to \in Status :
          calls' = [calls EXCEPT ![u] = IF to = "active" THEN Holding("publish", calls[u].verb, to, calls[u].req) ELSE Idle]
    BY <1>11, DecideEffect
  <2> DEFINE c == Holding("publish", calls[u].verb, to, calls[u].req)
  <2>2. calls[u].verb \in Lifecycle!Verb \cup {"none"} /\ calls[u].req \in Nat
    BY DEF TypeOK, Call
  <2>3. c \in Call /\ c.step = "publish" /\ c.to = to
    <3> DEFINE v == calls[u].verb
               n == calls[u].req
    <3>1. v \in Lifecycle!Verb \cup {"none"} /\ n \in Nat
      BY <2>2
    <3> HIDE DEF v, n
    <3>2. Holding("publish", v, to, n) \in Call /\ Holding("publish", v, to, n).step = "publish"
          /\ Holding("publish", v, to, n).to = to
      <4>1. "publish" \in Step
        BY ONLY <1>4
      <4> QED
        BY ONLY <3>1, <4>1, HoldingType, to \in Status
    <3> QED
      BY <3>2 DEF v, n
  <2> HIDE DEF c
  <2>4. (to = "active" /\ Goes(u, c)) \/ Returns(u)
    BY <2>1 DEF Goes, Returns, c
  <2> QED
    BY <1>2, <1>3, <2>3, <2>4 DEF Lifecycle!Live
<1>12. ASSUME NEW u \in Caller, EditWrite(u) \/ SubmitCommit(u) \/ Publish(u) \/ Abandon(u) PROVE Replaces
  BY <1>3, <1>12 DEF EditWrite, SubmitCommit, Publish, Abandon
<1>13. ASSUME NEW u \in Caller, TransitionWrite(u) \/ AuditSwallowed(u) PROVE Replaces
  BY <1>9, <1>13 DEF TransitionWrite, AuditSwallowed
<1> HIDE DEF Replaces
<1>14. UNCHANGED calls \/ Replaces
  BY <1>5, <1>6, <1>7, <1>8, <1>10, <1>11, <1>12, <1>13, StepCases, ClockEffect DEF OnlyCalls, vars
<1> QED
  BY <1>1, <1>14

LEMMA StepTypes ==
  ASSUME TypeOK, CallsAreTrue, [Next]_vars
  PROVE TypeOK' /\ CallsAreTrue'
<1>1. status' \in Status /\ reached' \subseteq Status
  <2>1. ASSUME NEW u \in Caller, TransitionWrite(u) PROVE status' \in Status /\ reached' \subseteq Status
    <3>1. calls[u].to \in Status
      BY DEF TypeOK, Call
    <3>2. status' = calls[u].to /\ reached' = reached \cup {calls[u].to}
      BY <2>1 DEF TransitionWrite, SetStatus
    <3> QED
      BY <3>1, <3>2 DEF TypeOK
  <2>2. ASSUME NEW u \in Caller, SubmitCommit(u) PROVE status' \in Status /\ reached' \subseteq Status
    <3>1. "pending_approval" \in Status
      BY DEF Status, Lifecycle!CampaignStatus
    <3>2. status' = "pending_approval" /\ reached' = reached \cup {"pending_approval"}
      BY <2>2, SubmitCommitEffect
    <3> QED
      BY <3>1, <3>2 DEF TypeOK
  <2>3. ASSUME NEW u \in Caller, DecideCommit(u) PROVE status' \in Status /\ reached' \subseteq Status
    BY <2>3, DecideEffect DEF TypeOK
  <2>4. CASE UNCHANGED <<status, reached>>
    BY <2>4 DEF TypeOK
  <2> QED
    BY <2>1, <2>2, <2>3, <2>4, StepCases, OnlyCallsEffect, ClockEffect DEF vars
<1>2. content' \in Content
  <2>1. ASSUME NEW u \in Caller, OnlyCalls(u) PROVE content' \in Content
    BY <2>1 DEF TypeOK, OnlyCalls, EditLoad, EditWrite, SubmitLoad, SubmitReview, DecideLock, TransitionLoad,
                AuditSwallowed, Publish, Abandon
  <2>2. ASSUME NEW u \in Caller, SubmitCommit(u) \/ DecideCommit(u) \/ TransitionWrite(u)
        PROVE UNCHANGED content
    BY <2>2, SubmitCommitEffect, DecideEffect DEF TransitionWrite
  <2> QED
    BY <2>1, <2>2, StepCases, ClockEffect DEF TypeOK, vars
<1>3. trail' \subseteq DecisionRow
  <2>1. ASSUME NEW u \in Caller, DecideCommit(u) PROVE trail' \subseteq DecisionRow
    <3>1. PICK r \in DOMAIN requests, q \in Request :
            u \in Checker /\ q.status \in Decided /\ trail' = trail \cup {[req |-> r, by |-> u, decision |-> q.status]}
      BY <2>1, DecideEffect
    <3>2. r \in Nat
      BY DEF TypeOK
    <3> QED
      BY <3>1, <3>2 DEF TypeOK, DecisionRow
  <2> QED
    BY <2>1, StepCases, OnlyCallsEffect, SubmitCommitEffect, ClockEffect DEF TypeOK, TransitionWrite, vars
<1>4. published' \subseteq ChangeType
  <2>1. ASSUME NEW u \in Caller, Publish(u) PROVE published' \subseteq ChangeType
    <3>1. calls[u].to \in Lifecycle!Live
      BY <2>1 DEF Publish, At, CallsAreTrue
    <3>2. EventOf(calls[u].to) \in ChangeType
      BY <3>1 DEF Lifecycle!Live, EventOf, ChangeType
    <3> QED
      BY <2>1, <3>2 DEF Publish, TypeOK
  <2>2. ASSUME NEW u \in Caller, OnlyCalls(u), ~Publish(u) PROVE UNCHANGED published
    BY <2>2 DEF OnlyCalls, EditLoad, EditWrite, SubmitLoad, SubmitReview, DecideLock, TransitionLoad,
                AuditSwallowed, Abandon
  <2>3. ASSUME NEW u \in Caller, SubmitCommit(u) \/ DecideCommit(u) \/ TransitionWrite(u)
        PROVE UNCHANGED published
    BY <2>3, SubmitCommitEffect, DecideEffect DEF TransitionWrite
  <2> QED
    BY <2>1, <2>2, <2>3, StepCases, ClockEffect DEF TypeOK, vars
<1>5. overtaken' \in BOOLEAN
  BY StepCases, OvertakenMoves DEF TypeOK, Lands, vars
<1> QED
  BY <1>1, <1>2, <1>3, <1>4, <1>5, RequestsGrow, CallsStep DEF TypeOK

LEMMA TypesInvariant == Spec => [](TypeOK /\ CallsAreTrue)
<1>1. TypeOK /\ CallsAreTrue /\ [Next]_vars => TypeOK' /\ CallsAreTrue'
  BY StepTypes
<1> QED
  BY InitTypes, <1>1, PTL DEF Spec

\* The columns keep their types under any interleaving.
THEOREM TypeCorrect == Spec => []TypeOK
BY TypesInvariant, PTL

\* No decided or expired request changes, whoever races whom.
THEOREM OutcomesAreFinal == Spec => SettledStays
<1>1. TypeOK /\ CallsAreTrue /\ [Next]_vars => [\A r \in DOMAIN requests : ~Open(r) => requests'[r] = requests[r]]_vars
  BY RequestsGrow
<1> QED
  BY TypesInvariant, <1>1, PTL DEF Spec, SettledStays

----------------------------------------------------------------------------
\* Nothing is live, nor on its way to be, nor announced, that no checker approved.

Reviewed == \E r \in DOMAIN requests : Approved(r) /\ requests[r].reviewer # requests[r].by

ReviewedFirst ==
  /\ status \in Lifecycle!Live => Reviewed
  /\ \A u \in Caller : calls[u].step \in {"transition", "publish"} => Reviewed
  /\ published # {} => Reviewed

LEMMA ReviewedStays ==
  ASSUME TypeOK, CallsAreTrue, [Next]_vars, Reviewed PROVE Reviewed'
<1>1. PICK r \in DOMAIN requests : Approved(r) /\ requests[r].reviewer # requests[r].by
  BY DEF Reviewed
<1>2. r \in DOMAIN requests' /\ requests'[r] = requests[r]
  BY <1>1, RequestsGrow
<1> QED
  BY <1>1, <1>2 DEF Reviewed

LEMMA StepReviewed ==
  ASSUME TypeOK, CallsAreTrue, ReviewedFirst, [Next]_vars PROVE ReviewedFirst'
<1> SUFFICES ASSUME ~Reviewed PROVE ReviewedFirst'
  BY ReviewedStays DEF ReviewedFirst
<1>0. /\ status \notin Lifecycle!Live /\ published = {}
      /\ \A u \in Caller : calls[u].step \notin {"transition", "publish"}
  BY DEF ReviewedFirst
<1>1. ASSUME NEW u \in Caller, NEW c, c.step \notin {"transition", "publish"}, Goes(u, c)
      PROVE \A v \in Caller : calls'[v].step \notin {"transition", "publish"}
  BY <1>0, <1>1 DEF Goes, TypeOK
<1>2. ASSUME NEW u \in Caller, DecideCommit(u) PROVE ReviewedFirst'
  <2>1. PICK r \in DOMAIN requests, to \in Status, q \in Request :
          /\ requests[r].by # u /\ q.by = requests[r].by /\ q.reviewer = u
          /\ q.status = "approved" <=> to = "active"
          /\ to \in {"active", "draft"} /\ status' = to
          /\ requests' = [requests EXCEPT ![r] = q]
          /\ calls' = [calls EXCEPT ![u] = IF to = "active" THEN Holding("publish", calls[u].verb, to, calls[u].req) ELSE Idle]
          /\ UNCHANGED published
    BY <1>2, DecideEffect
  <2>2. CASE to = "active"
    <3>1. r \in DOMAIN requests' /\ requests'[r] = q
      BY <2>1 DEF TypeOK
    <3>2. Reviewed'
      BY <2>1, <2>2, <3>1 DEF Reviewed
    <3> QED
      BY <3>2 DEF ReviewedFirst
  <2>3. CASE to = "draft"
    <3>1. Goes(u, Idle) /\ status' = "draft" /\ UNCHANGED published
      BY <2>1, <2>3 DEF Goes
    <3> QED
      BY <1>0, <1>1, <3>1 DEF ReviewedFirst, Idle, Holding, Lifecycle!Live
  <2> QED
    BY <2>1, <2>2, <2>3
<1>3. ASSUME NEW u \in Caller, SubmitCommit(u) PROVE ReviewedFirst'
  <2>1. Goes(u, Idle) /\ status' = "pending_approval" /\ UNCHANGED published
    BY <1>3, SubmitCommitEffect DEF Goes
  <2> QED
    BY <1>0, <1>1, <2>1 DEF ReviewedFirst, Idle, Holding, Lifecycle!Live
<1>4. ASSUME NEW u \in Caller, OnlyCalls(u) PROVE ReviewedFirst'
  <2>1. \A verb \in {"pause", "resume"} : ~TransitionLoad(u, verb)
    BY <1>0 DEF TransitionLoad, Permits, Lifecycle!Permits, Lifecycle!Transitions, Lifecycle!Live
  <2>2. ~AuditSwallowed(u) /\ ~Publish(u)
    BY <1>0 DEF AuditSwallowed, Publish, At
  <2>3. UNCHANGED published
    BY <1>4, <2>1, <2>2 DEF OnlyCalls, EditLoad, EditWrite, SubmitLoad, SubmitReview, DecideLock, Abandon
  <2>4. \E c : c.step \notin {"transition", "publish"} /\ Goes(u, c)
    <3>1. CASE EditLoad(u) \/ EditWrite(u) \/ Abandon(u)
      BY <3>1 DEF EditLoad, EditWrite, Abandon, Makes, Returns, Idle, Holding
    <3>2. CASE SubmitLoad(u)
      BY <3>2 DEF SubmitLoad, Makes, Holding
    <3>3. CASE SubmitReview(u)
      <4> DEFINE c == [calls[u] EXCEPT !.step = "commitSubmit", !.payload = content]
      <4>1. c.step = "commitSubmit"
        BY DEF TypeOK, Call
      <4> HIDE DEF c
      <4>2. Goes(u, c) \/ Goes(u, Idle)
        BY <3>3 DEF SubmitReview, Returns, c
      <4> QED
        BY <4>1, <4>2 DEF Idle, Holding
    <3>4. ASSUME NEW r \in DOMAIN requests, NEW verb \in ThreeVerbs, DecideLock(u, r, verb)
          PROVE Goes(u, Holding("decide", verb, "draft", r))
      BY <3>4 DEF DecideLock
    <3> QED
      BY <1>4, <2>1, <2>2, <3>1, <3>2, <3>3, <3>4 DEF OnlyCalls, Holding
  <2> QED
    BY <1>0, <1>1, <1>4, <2>3, <2>4, OnlyCallsEffect DEF ReviewedFirst
<1>5. ASSUME NEW u \in Caller, TransitionWrite(u) PROVE FALSE
  BY <1>0, <1>5 DEF TransitionWrite, At
<1>6. CASE UNCHANGED <<status, calls, published>>
  BY <1>0, <1>6 DEF ReviewedFirst
<1> QED
  BY <1>2, <1>3, <1>4, <1>5, <1>6, StepCases, ClockEffect DEF vars

LEMMA ReviewedInvariant == Spec => []ReviewedFirst
<1>1. Init => ReviewedFirst
  BY DEF Init, ReviewedFirst, Lifecycle!Live, Idle, Holding
<1>2. TypeOK /\ CallsAreTrue /\ ReviewedFirst /\ [Next]_vars => ReviewedFirst'
  BY StepReviewed
<1> QED
  BY <1>1, <1>2, TypesInvariant, PTL DEF Spec

\* Whatever edits, submissions, pauses and resumes overlap, a campaign is live, or announced to the
\* runtime, only after a checker other than its submitter approved a request for it.
THEOREM LiveIsReviewed == Spec => []LiveWasReviewed
<1>1. ReviewedFirst => LiveWasReviewed
  BY DEF ReviewedFirst, LiveWasReviewed, Reviewed
<1> QED
  BY <1>1, ReviewedInvariant, PTL

----------------------------------------------------------------------------
\* The request, the campaign and the audit row move together.

Waits(r) == requests[r].status \in {"pending", "expired"}

LEMMA StepWaiting ==
  ASSUME TypeOK, CallsAreTrue, WaitingHasRequest, [Next]_vars PROVE WaitingHasRequest'
<1>0. requests \in Seq(Request)
  BY DEF TypeOK
<1>1. ASSUME NEW u \in Caller, SubmitCommit(u) PROVE WaitingHasRequest'
  <2>1. PICK q \in Request : q.status = "pending" /\ requests' = Append(requests, q)
    BY <1>1, SubmitCommitEffect
  <2>2. Len(requests) + 1 \in DOMAIN requests' /\ requests'[Len(requests) + 1] = q
    BY <1>0, <2>1
  <2> QED
    BY <2>1, <2>2 DEF WaitingHasRequest
<1>2. ASSUME NEW u \in Caller, DecideCommit(u) PROVE WaitingHasRequest'
  <2>1. status' \in {"active", "draft"}
    BY <1>2, DecideEffect
  <2> QED
    BY <2>1 DEF WaitingHasRequest
<1>3. ASSUME NEW u \in Caller, TransitionWrite(u) PROVE WaitingHasRequest'
  <2>1. status' \in Lifecycle!Live
    BY <1>3 DEF TransitionWrite, SetStatus, At, CallsAreTrue
  <2> QED
    BY <2>1 DEF WaitingHasRequest, Lifecycle!Live
<1>4. ASSUME NEW r \in DOMAIN requests, Deadline(r) \/ Sweep(r) PROVE WaitingHasRequest'
  <2>1. PICK q \in Request : q.status \in {"pending", "expired"} /\ requests' = [requests EXCEPT ![r] = q]
    BY <1>4, ClockEffect
  <2>2. UNCHANGED status
    BY <1>4, ClockEffect
  <2>3. \A p \in DOMAIN requests : Waits(p) => p \in DOMAIN requests' /\ Waits(p)'
    BY <1>0, <2>1 DEF Waits
  <2> QED
    BY <2>2, <2>3 DEF WaitingHasRequest, Waits
<1>5. CASE UNCHANGED <<status, requests>>
  BY <1>5 DEF WaitingHasRequest
<1> QED
  BY <1>1, <1>2, <1>3, <1>4, <1>5, StepCases, OnlyCallsEffect DEF vars

LEMMA WaitingIsExplained == Spec => []WaitingHasRequest
<1>1. Init => WaitingHasRequest
  BY DEF Init, WaitingHasRequest
<1>2. TypeOK /\ CallsAreTrue /\ WaitingHasRequest /\ [Next]_vars => WaitingHasRequest'
  BY StepWaiting
<1> QED
  BY <1>1, <1>2, TypesInvariant, PTL DEF Spec

RowsOf(r) == {row \in trail : row.req = r}
RecordOf(r) == IF requests[r].status \in Decided
               THEN {[req |-> r, by |-> requests[r].reviewer, decision |-> requests[r].status]}
               ELSE {}
Recorded ==
  /\ \A r \in DOMAIN requests : RowsOf(r) = RecordOf(r)
  /\ \A row \in trail : row.req \in DOMAIN requests

LEMMA StepRecorded ==
  ASSUME TypeOK, CallsAreTrue, Recorded, [Next]_vars PROVE Recorded'
<1>0. requests \in Seq(Request)
  BY DEF TypeOK
<1>1. ASSUME NEW u \in Caller, SubmitCommit(u) PROVE Recorded'
  <2>1. PICK q \in Request : q.status = "pending" /\ requests' = Append(requests, q)
    BY <1>1, SubmitCommitEffect
  <2>2. UNCHANGED trail
    BY <1>1, SubmitCommitEffect
  <2>3. PICK n \in Nat :
          /\ DOMAIN requests' = DOMAIN requests \cup {n} /\ n \notin DOMAIN requests
          /\ requests'[n] = q /\ \A r \in DOMAIN requests : requests'[r] = requests[r]
    <3>1. Len(requests) + 1 \in Nat /\ DOMAIN requests = 1 .. Len(requests)
      BY <1>0
    <3>2. /\ DOMAIN requests' = 1 .. Len(requests) + 1
          /\ requests'[Len(requests) + 1] = q /\ \A r \in DOMAIN requests : requests'[r] = requests[r]
      BY <1>0, <2>1
    <3> QED
      BY <3>1, <3>2
  <2>4. RecordOf(n)' = {}
    BY <2>1, <2>3 DEF RecordOf, Decided
  <2>5. RowsOf(n)' = {}
    BY <2>2, <2>3 DEF Recorded, RowsOf
  <2>6. \A r \in DOMAIN requests : RowsOf(r)' = RecordOf(r)'
    BY <2>2, <2>3 DEF Recorded, RowsOf, RecordOf
  <2>7. \A row \in trail' : row.req \in DOMAIN requests'
    BY <2>2, <2>3 DEF Recorded
  <2> QED
    BY <2>3, <2>4, <2>5, <2>6, <2>7 DEF Recorded
<1>2. ASSUME NEW u \in Caller, DecideCommit(u) PROVE Recorded'
  <2>1. PICK r \in DOMAIN requests, q \in Request :
          /\ Open(r) /\ q.reviewer = u /\ q.status \in Decided
          /\ requests' = [requests EXCEPT ![r] = q]
          /\ trail' = trail \cup {[req |-> r, by |-> u, decision |-> q.status]}
    BY <1>2, DecideEffect
  <2> DEFINE new == [req |-> r, by |-> u, decision |-> q.status]
  <2>2. /\ DOMAIN requests' = DOMAIN requests /\ requests'[r] = q
        /\ \A p \in DOMAIN requests \ {r} : requests'[p] = requests[p]
    BY <1>0, <2>1
  <2>3. new.req = r /\ trail' = trail \cup {new}
    BY <2>1
  <2>4. RowsOf(r) = {}
    BY <2>1 DEF Recorded, RecordOf, Decided
  <2>5. RecordOf(r)' = {new}
    BY <2>1, <2>2 DEF RecordOf
  <2> HIDE DEF new
  <2>6. RowsOf(r)' = {new}
    BY <2>3, <2>4 DEF RowsOf
  <2>7. \A p \in DOMAIN requests \ {r} : RowsOf(p)' = RowsOf(p) /\ RecordOf(p)' = RecordOf(p)
    BY <2>2, <2>3 DEF RowsOf, RecordOf
  <2>8. \A row \in trail' : row.req \in DOMAIN requests'
    BY <2>2, <2>3 DEF Recorded
  <2> QED
    BY <2>2, <2>5, <2>6, <2>7, <2>8 DEF Recorded
<1>3. ASSUME NEW r \in DOMAIN requests, Deadline(r) \/ Sweep(r) PROVE Recorded'
  <2>1. PICK q \in Request : q.status \in {"pending", "expired"} /\ requests' = [requests EXCEPT ![r] = q]
    BY <1>3, ClockEffect
  <2>2. Open(r) /\ UNCHANGED trail
    BY <1>3, ClockEffect
  <2>3. /\ DOMAIN requests' = DOMAIN requests /\ requests'[r] = q
        /\ \A p \in DOMAIN requests \ {r} : requests'[p] = requests[p]
    BY <1>0, <2>1
  <2>4. RecordOf(r)' = RecordOf(r)
    BY <2>1, <2>2, <2>3 DEF RecordOf, Decided
  <2>5. \A p \in DOMAIN requests : RowsOf(p)' = RecordOf(p)'
    BY <2>2, <2>3, <2>4 DEF Recorded, RowsOf, RecordOf
  <2> QED
    BY <2>2, <2>3, <2>5 DEF Recorded
<1>4. CASE UNCHANGED <<trail, requests>>
  BY <1>4 DEF Recorded, RowsOf, RecordOf
<1> QED
  BY <1>1, <1>2, <1>3, <1>4, StepCases, OnlyCallsEffect DEF TransitionWrite, vars

LEMMA DecisionsAreRecorded == Spec => []DecisionOnRecord
<1>1. Init => Recorded
  BY DEF Init, Recorded, RowsOf, RecordOf
<1>2. TypeOK /\ CallsAreTrue /\ Recorded /\ [Next]_vars => Recorded'
  BY StepRecorded
<1>3. Recorded => DecisionOnRecord
  BY DEF Recorded, RowsOf, RecordOf, DecisionOnRecord
<1> QED
  BY <1>1, <1>2, <1>3, TypesInvariant, PTL DEF Spec

\* A request is decided exactly when one audit row says so, with its reviewer and decision, and a
\* campaign that waits has the request that explains it.
THEOREM DecisionsMoveTogether == Spec => []DecisionsAreWhole
BY WaitingIsExplained, DecisionsAreRecorded, PTL DEF DecisionsAreWhole
----------------------------------------------------------------------------
\* The review stands while every maker's write lands on what its call had read.

ReviewHolds == OneOpenRequest /\ ApprovedIsLive /\ ContentWasReviewed

\* A pause or resume is underway only on a live campaign: checked without a lock, and still so.
TransitionIsLive == \A u \in Caller : calls[u].step = "transition" => status \in Lifecycle!Live

Stands == ReviewHolds /\ TransitionIsLive

LEMMA StandsInit == Init => Stands
BY DEF Init, Stands, ReviewHolds, OneOpenRequest, ApprovedIsLive, ContentWasReviewed,
       TransitionIsLive, Lifecycle!Live, Idle, Holding

\* One call moved and the rows did not: what the other calls hold is as true as before.
LEMMA StandsCall ==
  ASSUME TypeOK, Stands, NEW u \in Caller, NEW c, Goes(u, c), UNCHANGED <<status, content, requests>>,
         c.step = "transition" => status \in Lifecycle!Live
  PROVE Stands'
<1>1. calls \in [Caller -> Call]
  BY DEF TypeOK
<1>2. calls'[u] = c /\ \A v \in Caller \ {u} : calls'[v] = calls[v]
  BY <1>1 DEF Goes
<1>3. ReviewHolds'
  BY DEF Stands, ReviewHolds, OneOpenRequest, ApprovedIsLive, ContentWasReviewed
<1>4. TransitionIsLive'
  BY <1>2 DEF Stands, TransitionIsLive
<1> QED
  BY <1>3, <1>4 DEF Stands

\* An edit that was not overtaken changes a draft, of which no request is open.
LEMMA StandsEdit ==
  ASSUME TypeOK, CallsAreTrue, Stands, NEW u \in Caller, EditWrite(u), ~overtaken'
  PROVE Stands'
<1>1. /\ status = "draft" /\ UNCHANGED <<status, requests>>
      /\ calls'[u] = Idle /\ \A v \in Caller \ {u} : calls'[v] = calls[v]
  BY DEF EditWrite, Lands, At, CallsAreTrue, Returns, Goes, TypeOK
<1>2. \A r \in DOMAIN requests : ~Open(r)
  BY <1>1 DEF Stands, ReviewHolds, OneOpenRequest
<1>3. ReviewHolds'
  BY <1>1, <1>2 DEF Stands, ReviewHolds, OneOpenRequest, ApprovedIsLive, ContentWasReviewed, Lifecycle!Live
<1>4. TransitionIsLive'
  BY <1>1 DEF Stands, TransitionIsLive, Idle, Holding
<1> QED
  BY <1>3, <1>4 DEF Stands

LEMMA StandsOnlyCalls ==
  ASSUME TypeOK, CallsAreTrue, Stands, NEW u \in Caller, OnlyCalls(u), ~overtaken'
  PROVE Stands'
<1>1. ASSUME EditLoad(u) \/ SubmitLoad(u) PROVE Stands'
  <2>0. \A s, verb, to : MakerCall(s, verb, to).step = s
    BY DEF MakerCall, Holding
  <2>1. PICK c : c.step \in {"edit", "submit"} /\ Goes(u, c)
    <3> HIDE DEF MakerCall
    <3>1. CASE EditLoad(u)
      <4>1. Goes(u, MakerCall("edit", "none", "draft"))
        BY <3>1 DEF EditLoad, Makes, MakerCall
      <4> QED
        BY <2>0, <4>1
    <3>2. CASE SubmitLoad(u)
      <4>1. PICK to \in Status : Goes(u, MakerCall("submit", "submit", to))
        BY <3>2 DEF SubmitLoad, Makes, MakerCall
      <4> QED
        BY <2>0, <4>1
    <3> QED
      BY <1>1, <3>1, <3>2
  <2> QED
    BY <1>1, <2>1, StandsCall DEF EditLoad, SubmitLoad
<1>2. ASSUME SubmitReview(u) PROVE Stands'
  <2> DEFINE c == [calls[u] EXCEPT !.step = "commitSubmit", !.payload = content]
  <2>1. c.step = "commitSubmit" /\ Idle.step = "idle"
    BY DEF TypeOK, Call, Idle, Holding
  <2> HIDE DEF c
  <2>2. Goes(u, c) \/ Goes(u, Idle)
    BY <1>2 DEF SubmitReview, Returns, c
  <2> QED
    BY <1>2, <2>1, <2>2, StandsCall DEF SubmitReview
<1>3. ASSUME NEW r \in DOMAIN requests, NEW verb \in ThreeVerbs, DecideLock(u, r, verb) PROVE Stands'
  <2>1. Holding("decide", verb, "draft", r).step = "decide"
    BY DEF Holding
  <2> QED
    BY <1>3, <2>1, StandsCall DEF DecideLock
<1>4. ASSUME NEW verb \in {"pause", "resume"}, TransitionLoad(u, verb) PROVE Stands'
  <2>1. PICK to \in Status : Permits(status, verb, to) /\ Goes(u, Holding("transition", verb, to, 0))
    BY <1>4 DEF TransitionLoad
  <2>2. Holding("transition", verb, to, 0).step = "transition"
    BY DEF Holding
  <2>3. status \in Lifecycle!Live
    BY <2>1 DEF Permits, Lifecycle!Permits, Lifecycle!Transitions, Lifecycle!Live
  <2> QED
    BY <1>4, <2>1, <2>2, <2>3, StandsCall DEF TransitionLoad
<1>5. ASSUME AuditSwallowed(u) PROVE Stands'
  <2> DEFINE c == [calls[u] EXCEPT !.step = "publish"]
  <2>1. c.step = "publish"
    BY DEF TypeOK, Call
  <2> HIDE DEF c
  <2>2. Goes(u, c)
    BY <1>5 DEF AuditSwallowed, c
  <2> QED
    BY <1>5, <2>1, <2>2, StandsCall DEF AuditSwallowed
<1>6. ASSUME Publish(u) \/ Abandon(u) PROVE Stands'
  <2>1. Idle.step = "idle"
    BY DEF Idle, Holding
  <2> QED
    BY <1>6, <2>1, StandsCall DEF Publish, Abandon, Returns
<1> QED
  BY <1>1, <1>2, <1>3, <1>4, <1>5, <1>6, StandsEdit DEF OnlyCalls

\* A submission that was not overtaken submits the draft it read, as it still is.
LEMMA StandsSubmit ==
  ASSUME TypeOK, CallsAreTrue, Stands, NEW u \in Caller, SubmitCommit(u), ~overtaken'
  PROVE Stands' /\ status = "draft"
<1>1. status = "draft" /\ calls[u].payload = content
  BY DEF SubmitCommit, Lands, At, CallsAreTrue
<1>2. \A r \in DOMAIN requests : ~Open(r) /\ ~Approved(r)
  BY <1>1 DEF Stands, ReviewHolds, OneOpenRequest, ApprovedIsLive, Lifecycle!Live
<1>3. PICK q \in Request : q.payload = content /\ q.status = "pending" /\ requests' = Append(requests, q)
  BY <1>1, SubmitCommitEffect
<1>4. /\ status' = "pending_approval" /\ UNCHANGED content
      /\ calls'[u] = Idle /\ \A v \in Caller \ {u} : calls'[v] = calls[v]
  BY SubmitCommitEffect DEF TypeOK
<1>5. /\ DOMAIN requests' = DOMAIN requests \cup {Len(requests) + 1}
      /\ \A r \in DOMAIN requests : requests'[r] = requests[r]
      /\ requests'[Len(requests) + 1] = q
  BY <1>3 DEF TypeOK
<1>6. ReviewHolds'
  BY <1>2, <1>3, <1>4, <1>5 DEF ReviewHolds, OneOpenRequest, ApprovedIsLive, ContentWasReviewed, Lifecycle!Live
<1>7. \A v \in Caller : calls'[v].step # "transition"
  BY <1>1, <1>4 DEF Stands, TransitionIsLive, Lifecycle!Live, Idle, Holding
<1> QED
  BY <1>1, <1>6, <1>7 DEF Stands, TransitionIsLive

LEMMA StandsDecide ==
  ASSUME TypeOK, CallsAreTrue, Stands, NEW u \in Caller, DecideCommit(u)
  PROVE Stands'
<1>1. PICK r \in DOMAIN requests, to \in Status, q \in Request :
        /\ Open(r) /\ q.payload = requests[r].payload
        /\ q.status \in Decided /\ (q.status = "approved" <=> to = "active")
        /\ status = "pending_approval" /\ to \in {"active", "draft"} /\ status' = to
        /\ requests' = [requests EXCEPT ![r] = q]
        /\ calls' = [calls EXCEPT ![u] = IF to = "active" THEN Holding("publish", calls[u].verb, to, calls[u].req) ELSE Idle]
        /\ UNCHANGED content
  BY DecideEffect
<1>2. \A k \in DOMAIN requests : (k # r => ~Open(k)) /\ ~Approved(k)
  BY <1>1 DEF Stands, ReviewHolds, OneOpenRequest, ApprovedIsLive, Lifecycle!Live
<1>3. requests[r].payload = content
  BY <1>1 DEF Stands, ReviewHolds, ContentWasReviewed
<1>4. /\ DOMAIN requests' = DOMAIN requests /\ requests'[r] = q
      /\ \A k \in DOMAIN requests \ {r} : requests'[k] = requests[k]
  BY <1>1 DEF TypeOK
<1>5. ReviewHolds'
  BY <1>1, <1>2, <1>3, <1>4 DEF ReviewHolds, OneOpenRequest, ApprovedIsLive, ContentWasReviewed, Lifecycle!Live, Decided
<1>6. \A v \in Caller : calls[v].step # "transition"
  BY <1>1 DEF Stands, TransitionIsLive, Lifecycle!Live
<1>7. Idle.step = "idle" /\ Holding("publish", calls[u].verb, to, calls[u].req).step = "publish"
  BY DEF Idle, Holding
<1>8. \A v \in Caller : calls'[v].step # "transition"
  BY <1>1, <1>6, <1>7 DEF TypeOK
<1> QED
  BY <1>5, <1>8 DEF Stands, TransitionIsLive

LEMMA StandsTransition ==
  ASSUME TypeOK, CallsAreTrue, Stands, NEW u \in Caller, TransitionWrite(u)
  PROVE Stands' /\ {status, status'} \subseteq Lifecycle!Live
<1>1. /\ status \in Lifecycle!Live /\ status' \in Lifecycle!Live
      /\ UNCHANGED <<content, requests>>
  BY DEF TransitionWrite, At, SetStatus, Stands, TransitionIsLive, CallsAreTrue
<1>2. ReviewHolds'
  BY <1>1 DEF Stands, ReviewHolds, OneOpenRequest, ApprovedIsLive, ContentWasReviewed, Lifecycle!Live
<1> QED
  BY <1>1, <1>2 DEF Stands, TransitionIsLive

LEMMA StandsClock ==
  ASSUME TypeOK, Stands, NEW r \in DOMAIN requests, Deadline(r) \/ Sweep(r)
  PROVE Stands'
<1>1. PICK q \in Request : /\ q.payload = requests[r].payload /\ q.status \in {"pending", "expired"}
                           /\ requests' = [requests EXCEPT ![r] = q]
  BY ClockEffect
<1>2. Open(r) /\ UNCHANGED <<status, content, calls>>
  BY ClockEffect
<1>3. /\ DOMAIN requests' = DOMAIN requests /\ requests'[r] = q
      /\ \A k \in DOMAIN requests \ {r} : requests'[k] = requests[k]
  BY <1>1 DEF TypeOK
<1>4. status = "pending_approval" /\ requests[r].payload = content
      /\ \A k \in DOMAIN requests : (k # r => ~Open(k)) /\ ~Approved(k)
  BY <1>2 DEF Stands, ReviewHolds, OneOpenRequest, ApprovedIsLive, ContentWasReviewed, Lifecycle!Live
<1>5. ReviewHolds'
  BY <1>1, <1>2, <1>3, <1>4 DEF ReviewHolds, OneOpenRequest, ApprovedIsLive, ContentWasReviewed, Lifecycle!Live
<1> QED
  BY <1>2, <1>5 DEF Stands, TransitionIsLive

\* An overtaken write is not forgotten, so a state that remembers none was reached without one.
LEMMA StandsStep ==
  ASSUME TypeOK, CallsAreTrue, ~overtaken => Stands, [Next]_vars, ~overtaken'
  PROVE Stands /\ Stands'
<1>1. Stands
  BY OvertakenMoves DEF Lands
<1>2. CASE UNCHANGED vars
  BY <1>1, <1>2 DEF vars, Stands, ReviewHolds, OneOpenRequest, ApprovedIsLive, ContentWasReviewed, TransitionIsLive
<1> QED
  BY <1>1, <1>2, StepCases, StandsOnlyCalls, StandsSubmit, StandsDecide, StandsTransition, StandsClock

LEMMA StandsInvariant == Spec => [](~overtaken => Stands)
<1>1. TypeOK /\ CallsAreTrue /\ (~overtaken => Stands) /\ [Next]_vars => (~overtaken => Stands)'
  BY StandsStep
<1>2. Init => (~overtaken => Stands)
  BY StandsInit
<1> QED
  BY <1>1, <1>2, TypesInvariant, PTL DEF Spec

\* There is one review and what it approves is what runs (approvals.service.ts), whatever makers,
\* checkers, admins, the runtime and the sweep do, until a maker's write lands on a campaign that
\* changed under it: nothing else can break a review.
THEOREM ReviewIsSingle == Spec => []ReviewStands
<1>1. (~overtaken => Stands) => ReviewStands
  BY DEF Stands, ReviewHolds, ReviewStands
<1> QED
  BY StandsInvariant, <1>1, PTL

\* Every step of the status column is one of campaign-state-machine.ts until a maker's write was
\* overtaken, although pause and resume check the transition against an unlocked status.
THEOREM TableIsFollowed == Spec => FollowsLifecycle
<1>1. ASSUME TypeOK, CallsAreTrue, ~overtaken => Stands, [Next]_vars PROVE [~overtaken' => Lifecycle!Next]_status
  <2> SUFFICES ASSUME ~overtaken' PROVE [Lifecycle!Next]_status
    OBVIOUS
  <2>0. Stands
    BY <1>1, StandsStep
  <2>1. ASSUME NEW u \in Caller, SubmitCommit(u) PROVE Lifecycle!Next
    <3>1. status = "draft" /\ status' = "pending_approval"
      BY <1>1, <2>0, <2>1, StandsSubmit, SubmitCommitEffect
    <3> QED
      BY <3>1 DEF Lifecycle!Next, Lifecycle!Permits, Lifecycle!Transitions, Lifecycle!Verb, Lifecycle!CampaignStatus
  <2>2. ASSUME NEW u \in Caller, DecideCommit(u) PROVE Lifecycle!Next
    <3>1. PICK to \in Status : status = "pending_approval" /\ to \in {"active", "draft"} /\ status' = to
      BY <1>1, <2>2, DecideEffect
    <3> QED
      BY <3>1 DEF Lifecycle!Next, Lifecycle!Permits, Lifecycle!Transitions, Lifecycle!Verb, Lifecycle!CampaignStatus
  <2>3. ASSUME NEW u \in Caller, TransitionWrite(u) PROVE [Lifecycle!Next]_status
    <3>1. {status, status'} \subseteq {"active", "paused"}
      BY <1>1, <2>0, <2>3, StandsTransition DEF Lifecycle!Live
    <3> QED
      BY <3>1 DEF Lifecycle!Next, Lifecycle!Permits, Lifecycle!Transitions, Lifecycle!Verb, Lifecycle!CampaignStatus
  <2>4. ASSUME UNCHANGED status PROVE [Lifecycle!Next]_status
    BY <2>4
  <2> QED
    BY <1>1, <2>1, <2>2, <2>3, <2>4, StepCases, OnlyCallsEffect, ClockEffect DEF vars
<1> QED
  BY <1>1, StandsInvariant, TypesInvariant, PTL DEF Spec, FollowsLifecycle
=============================================================================
