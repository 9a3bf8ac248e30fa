-------------------------- MODULE AtomicProcessing --------------------------
(***************************************************************************)
(* What the activity processor promises: each fanned-out row is handled    *)
(* once, in one indivisible step that reads and writes the customer's      *)
(* progress, the tracker, the cap counters and the reward entries. Lanes,  *)
(* locks, faults and the sweep are not visible here. ActivityProcessing is *)
(* checked to implement this specification.                                *)
(***************************************************************************)
EXTENDS RewardRules

VARIABLES outcome, progress, tracker, used, entries, day

vars == <<outcome, progress, tracker, used, entries, day>>

Row == {r \in Submission \X Component : boundTo[r[2]] = performed[r[1]]}

Init ==
  /\ outcome = [r \in Row |-> "absent"]
  /\ progress = [u \in Customer |-> [c \in Component |-> <<>>]]
  /\ tracker = [u \in Customer |-> [t \in Tracker |-> NoStatus]]
  /\ used = [k \in CounterKey |-> NoUsage]
  /\ entries = {}
  /\ day = 0

Accept(s) ==
  /\ outcome' = [r \in Row |-> IF r[1] = s /\ outcome[r] = "absent" THEN "open" ELSE outcome[r]]
  /\ UNCHANGED <<progress, tracker, used, entries, day>>

NextDay == day' = day + 1 /\ UNCHANGED <<outcome, progress, tracker, used, entries>>

----------------------------------------------------------------------------
\* Enforcing the due rewards in order: a grant adds to every matched counter, a
\* denial to none.

\* What granting the rewards G for tracker t, to customer u on day d, adds to a counter.
Charge(G, key, t, u, d) ==
  LET charged == {i \in G : key.cap \in MatchedCaps(i, t) /\ key = KeyOf(key.cap, u, d)}
  IN  [amount |-> Total([i \in RewardIx |-> RecordedValue(i, t)], charged), count |-> Cardinality(charged)]

Affordable(i, G, t, u, d) ==
  \A k \in MatchedCaps(i, t) :
    LET key == KeyOf(k, u, d) IN ~Breaches(k, AddUsage(used[key], Charge(G, key, t, u, d)), i, t)

\* A due reward is granted exactly when those granted before it leave room for it.
Enforced(G, due, t, u, d) ==
  \A i \in due : i \in G <=> Affordable(i, {g \in G : g < i}, t, u, d)

NewEntries(granted, u, c, n, d) ==
  {[customer |-> u, component |-> c, cycle |-> n, code |-> Rewards[i].code,
    reward |-> i, day |-> d] :
     i \in {g \in granted :
              /\ \A e \in entries : ~(e.customer = u /\ e.component = c /\ e.cycle = n
                                       /\ e.code = Rewards[g].code)
              /\ \A h \in granted : h < g => Rewards[h].code # Rewards[g].code}}

----------------------------------------------------------------------------
\* Handling a row.

CustomerOfRow(r) == customerOf[r[1]]
TrackerOfRow(r) == trackerOf[r[2]]

Targets(r) == SiblingTargets(r[1], r[2], progress[CustomerOfRow(r)])

Cycles(r) == AfterPass(progress[CustomerOfRow(r)][r[2]], requiredCount[r[2]], r[1])
Completed(r) == LatestComplete(Cycles(r))

Status(r) ==
  LET before == tracker[CustomerOfRow(r)][TrackerOfRow(r)] IN
  IF Completed(r) THEN AfterCompletion(before, TrackerOfRow(r), Cardinality(Members(TrackerOfRow(r))))
                  ELSE before

Due(r) == IF Completed(r) THEN DueRewards(r[2], TrackerOfRow(r), Status(r).complete) ELSE {}

Settle(r, status) == outcome[r] = "open" /\ outcome' = [outcome EXCEPT ![r] = status]

\* Another sibling is the target, or a rule fails.
Skip(r) ==
  /\ Targets(r) # {r[2]} \/ r \notin Passing
  /\ Settle(r, "processed")
  /\ UNCHANGED <<progress, tracker, used, entries, day>>

\* The row counts: progress, tracker status, caps, rewards. d is the reward date.
Count(r, d) ==
  LET u == CustomerOfRow(r)
      t == TrackerOfRow(r)
  IN
  /\ r[2] \in Targets(r)
  /\ r \in Passing
  /\ Completed(r) => Supported(t)
  /\ progress' = [progress EXCEPT ![u][r[2]] = Cycles(r)]
  /\ tracker' = [tracker EXCEPT ![u][t] = Status(r)]
  /\ \E granted \in SUBSET Due(r) :
       /\ Enforced(granted, Due(r), t, u, d)
       /\ used' = [key \in CounterKey |-> AddUsage(used[key], Charge(granted, key, t, u, d))]
       /\ entries' = entries \cup NewEntries(granted, u, r[2], Len(Cycles(r)), d)
       /\ Settle(r, IF granted = Due(r) THEN "processed" ELSE "error")
  /\ UNCHANGED day

\* The reward date is some day between the claim and the commit.
Next ==
  \/ \E s \in Submission : Accept(s)
  \/ \E r \in Row : Skip(r) \/ \E d \in 0..day : Count(r, d)
  \/ NextDay

Spec == Init /\ [][Next]_vars
=============================================================================
