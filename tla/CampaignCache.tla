----------------------------- MODULE CampaignCache -----------------------------
(***************************************************************************)
(* One campaign of the portal as one activity service sees it: the         *)
(* in-memory cache, its durable snapshot, and the three writers that       *)
(* refresh them concurrently. A watch stream tells that something changed  *)
(* and each event fetches the campaign; a reconnect and the start of the   *)
(* process re-warm from ListActiveCampaigns; a poller reconciles etags.    *)
(* Each writer awaits its answer and its database writes, and the others   *)
(* run in between; the in-memory swap at the end is one synchronous block. *)
(*                                                                         *)
(* The etag is a hash of the served content, the status included and       *)
(* nothing volatile: equal content has an equal etag. A configuration      *)
(* stands for its etag here, and carries one external code.                *)
(***************************************************************************)
EXTENDS Naturals, FiniteSets

CONSTANTS
  Version,     \* what the portal's rows, other than the status, can say of the campaign
  Approved,    \* the version a checker approves
  Handler,     \* bound: events being handled at once
  Warmer,      \* bound: warmTenant calls in flight at once
  Poller,      \* the reconciliation cycle, one at a time (cycleInFlight)
  Stream,      \* bound: streams one process opens
  None,
  MaxChanges,  \* bound: changes of the campaign at the portal
  MaxFaults    \* bound: lost events, broken streams, failed calls and crashes together

ASSUME CacheAssumption ==
  /\ Poller \notin Handler \cup Warmer /\ Handler \cap Warmer = {}
  /\ Warmer # {} /\ Stream # {}
  /\ Approved \in Version /\ None \notin Version \cup Stream
  /\ MaxChanges \in Nat /\ MaxFaults \in Nat

VARIABLES
  status, version,  \* the portal's campaign
  changes,          \* changes made to it
  announcing,       \* status changes committed and not yet published
  wasActive,        \* history: the versions the portal has held while active
  current,          \* streamsByTenant: the stream the process believes is open
  opened,           \* streams this process has opened
  subscribed,       \* streams the portal publishes to
  events,           \* [Stream -> Nat]: events sent and not yet received
  closing,          \* [Stream -> 0..2]: close callbacks of a broken stream still to run
  timer,            \* is a reconnect scheduled?
  entry,            \* campaignIndex: the cached campaign
  index,            \* activityIndex: the version whose components activities match
  row, codeRow,     \* campaign_config_snapshot; activity_external_code_map
  codeIndex,        \* externalCodeIndex
  job,              \* [Process -> Job]
  phase,            \* of the process: "down", "booting" or "up"
  faults

portal == <<status, version, changes, announcing, wasActive>>
streams == <<current, opened, subscribed, events, closing, timer>>
memory == <<entry, index, codeIndex>>
disk == <<row, codeRow>>
vars == <<portal, streams, memory, disk, job, phase, faults>>

Lifecycle == INSTANCE CampaignLifecycle

Process == Handler \cup Warmer \cup {Poller}
Config == [status: Lifecycle!Live, version: Version]
NoConfig == [status |-> "none", version |-> None]
Cached == [cfg: Config \cup {NoConfig}, active: BOOLEAN]
Empty == [cfg |-> NoConfig, active |-> FALSE]
Job == [step: {"idle", "get", "list", "listed", "save", "code", "index", "forget"},
        cfg: Config \cup {NoConfig}]
Idle == [step |-> "idle", cfg |-> NoConfig]

\* What the portal answers now: getCampaignConfig serves active and paused, the list active only.
Now == [status |-> status, version |-> version]
Served == IF status \in Lifecycle!Live THEN Now ELSE NoConfig
Listed == IF status = "active" THEN Now ELSE NoConfig

\* Mutant: paused campaigns are indexed too.
IndexOfAny(cfg) == cfg.version
IndexOf(cfg) == IF cfg.status = "active" THEN cfg.version ELSE None
EntryOf(cfg) == [cfg |-> cfg, active |-> cfg.status = "active"]

Init ==
  /\ status = "pending_approval" /\ version = Approved
  /\ changes = 0 /\ announcing = 0 /\ wasActive = {}
  /\ current = None /\ opened = {} /\ subscribed = {} /\ timer = FALSE
  /\ events = [s \in Stream |-> 0] /\ closing = [s \in Stream |-> 0]
  /\ entry = Empty /\ index = None /\ codeIndex = None
  /\ row = Empty /\ codeRow = None
  /\ job = [p \in Process |-> Idle]
  /\ phase = "down" /\ faults = 0

At(p, s) == job[p].step = s
Does(p, s, cfg) == job' = [job EXCEPT ![p] = [step |-> s, cfg |-> cfg]]
Ends(p) == job' = [job EXCEPT ![p] = Idle]
Fault == faults < MaxFaults /\ faults' = faults + 1

----------------------------------------------------------------------------
\* The portal.

Alters(st, v) ==
  /\ changes < MaxChanges
  /\ changes' = changes + 1
  /\ status' = st /\ version' = v
  /\ wasActive' = IF st = "active" THEN wasActive \cup {v} ELSE wasActive

\* A governance transition commits and will be announced.
Govern(verb) ==
  /\ \E to \in Lifecycle!Live : Lifecycle!Permits(status, verb, to) /\ Alters(to, version)
  /\ announcing' = announcing + 1
  /\ UNCHANGED <<streams, memory, disk, job, phase, faults>>

\* Catalogue rows the configuration is built from change; nothing is announced.
Revise(v) ==
  /\ v # version /\ Alters(status, v)
  /\ UNCHANGED <<announcing, streams, memory, disk, job, phase, faults>>

Publish ==
  /\ announcing > 0
  /\ announcing' = announcing - 1
  /\ events' = [s \in Stream |-> IF s \in subscribed THEN events[s] + 1 ELSE events[s]]
  /\ UNCHANGED <<status, version, changes, wasActive, current, opened, subscribed, closing, timer, memory, disk, job, phase, faults>>

Register(s) ==
  /\ s \in opened \ subscribed /\ closing[s] = 0
  /\ s = current
  /\ subscribed' = subscribed \cup {s}
  /\ UNCHANGED <<portal, current, opened, events, closing, timer, memory, disk, job, phase, faults>>

----------------------------------------------------------------------------
\* The process starts.

\* buildFromLocalSnapshots and buildExternalCodeIndexFromLocal, then warmTenant.
Start(w) ==
  /\ phase = "down" /\ phase' = "booting"
  /\ entry' = EntryOf(row.cfg) /\ index' = IndexOf(row.cfg)
  /\ codeIndex' = codeRow
  /\ Does(w, "list", NoConfig)
  /\ UNCHANGED <<portal, streams, disk, faults>>

Opens(s) ==
  /\ s \notin opened
  /\ opened' = opened \cup {s} /\ current' = s

\* bootstrap returned: the stream opens and the first reconciliation cycle begins.
Serve(s) ==
  /\ phase = "booting" /\ \A p \in Process : At(p, "idle")
  /\ phase' = "up"
  /\ Opens(s)
  /\ Does(Poller, "list", NoConfig)
  /\ UNCHANGED <<portal, subscribed, events, closing, timer, memory, disk, faults>>


\* The process is gone, and its memory, timers and streams with it.
Down ==
  /\ phase' = "down"
  /\ entry' = Empty /\ index' = None /\ codeIndex' = None
  /\ job' = [p \in Process |-> Idle]
  /\ current' = None /\ opened' = {} /\ subscribed' = {} /\ timer' = FALSE
  /\ events' = [s \in Stream |-> 0] /\ closing' = [s \in Stream |-> 0]

Crash ==
  /\ phase # "down" /\ Fault
  /\ Down
  /\ UNCHANGED <<portal, disk>>

----------------------------------------------------------------------------
\* The watch stream.

\* handleEvent up to its first await: the etag held now goes with the request.
Receive(h, s) ==
  /\ events[s] > 0 /\ At(h, "idle")
  /\ events' = [events EXCEPT ![s] = @ - 1]
  /\ Does(h, "get", entry.cfg)
  /\ UNCHANGED <<portal, current, opened, subscribed, closing, timer, memory, disk, phase, faults>>

\* emit failed, or the event was lost on the way.
LoseEvent(s) ==
  /\ events[s] > 0 /\ Fault
  /\ events' = [events EXCEPT ![s] = @ - 1]
  /\ UNCHANGED <<portal, current, opened, subscribed, closing, timer, memory, disk, job, phase>>

\* The connection breaks: both 'error' and 'end' will call onClosed.
Break(s) ==
  /\ s = current /\ closing[s] = 0 /\ Fault
  /\ subscribed' = subscribed \ {s}
  /\ events' = [events EXCEPT ![s] = 0]
  /\ closing' = [closing EXCEPT ![s] = 2]
  /\ UNCHANGED <<portal, current, opened, timer, memory, disk, job, phase>>

\* Mutant: every close callback schedules a reconnect.
OnClosedAlways(s) ==
  /\ closing[s] > 0
  /\ closing' = [closing EXCEPT ![s] = @ - 1]
  /\ current' = None /\ timer' = TRUE
  /\ UNCHANGED <<portal, opened, subscribed, events, memory, disk, job, phase, faults>>

\* onClosed: a stale close of a superseded stream schedules nothing.
OnClosed(s) ==
  /\ closing[s] > 0
  /\ closing' = [closing EXCEPT ![s] = @ - 1]
  /\ IF current = s
     THEN current' = None /\ timer' = TRUE
     ELSE UNCHANGED <<current, timer>>
  /\ UNCHANGED <<portal, opened, subscribed, events, memory, disk, job, phase, faults>>

\* reconnect: openStream, and warmTenant without awaiting it.
Reconnect(s, w) ==
  /\ timer /\ timer' = FALSE
  /\ Opens(s)
  /\ At(w, "idle") /\ Does(w, "list", NoConfig)
  /\ UNCHANGED <<portal, subscribed, events, closing, memory, disk, phase, faults>>

----------------------------------------------------------------------------
\* The three writers.

PollTick ==
  /\ phase = "up" /\ At(Poller, "idle")
  /\ Does(Poller, "list", NoConfig)
  /\ UNCHANGED <<portal, streams, memory, disk, phase, faults>>

\* NOT_FOUND and not_modified end the handling.
AnswerGet(h) ==
  /\ At(h, "get")
  /\ IF Served \in {NoConfig, job[h].cfg} THEN Ends(h) ELSE Does(h, "save", Served)
  /\ UNCHANGED <<portal, streams, memory, disk, phase, faults>>

AnswerList(p) ==
  /\ At(p, "list")
  /\ Does(p, "listed", Listed)
  /\ UNCHANGED <<portal, streams, memory, disk, phase, faults>>

\* Mutant: a campaign that is cached at all is not refreshed.
ReconcileMissing ==
  /\ At(Poller, "listed")
  /\ IF job[Poller].cfg = NoConfig \/ entry # Empty THEN Ends(Poller) ELSE Does(Poller, "save", job[Poller].cfg)
  /\ UNCHANGED <<portal, streams, memory, disk, phase, faults>>

\* reconcileTenant: drift against the cached etag, whatever the entry's isActive says.
Reconcile ==
  /\ At(Poller, "listed")
  /\ IF job[Poller].cfg \in {NoConfig, entry.cfg} THEN Ends(Poller) ELSE Does(Poller, "save", job[Poller].cfg)
  /\ UNCHANGED <<portal, streams, memory, disk, phase, faults>>

\* warmTenant applies what is listed, unconditionally.
WarmApply(w) ==
  /\ w \in Warmer /\ At(w, "listed") /\ job[w].cfg # NoConfig
  /\ Does(w, "save", job[w].cfg)
  /\ UNCHANGED <<portal, streams, memory, disk, phase, faults>>

\* markCampaignVanished: out of the index at once, and the entry keeps its etag and payload.
Vanish(w) ==
  /\ w \in Warmer /\ At(w, "listed") /\ job[w].cfg = NoConfig
  /\ IF entry.active
     THEN /\ index' = None
          /\ entry' = [cfg |-> entry.cfg, active |-> FALSE]
          /\ Does(w, "forget", entry.cfg)
     ELSE Ends(w) /\ UNCHANGED <<index, entry>>
  /\ UNCHANGED <<portal, streams, codeIndex, disk, phase, faults>>

Forget(w) ==
  /\ At(w, "forget")
  /\ row' = [cfg |-> job[w].cfg, active |-> FALSE]
  /\ Ends(w)
  /\ UNCHANGED <<portal, streams, memory, codeRow, phase, faults>>

\* Mutant: the old components stay when a campaign pauses.
SwapKeepsPaused(p) ==
  /\ At(p, "index")
  /\ codeIndex' = job[p].cfg.version
  /\ entry' = EntryOf(job[p].cfg)
  /\ index' = IF job[p].cfg.status = "active" THEN job[p].cfg.version ELSE index
  /\ Ends(p)
  /\ UNCHANGED <<portal, streams, disk, phase, faults>>

\* applyCampaignConfig: the snapshot row, then the external code, then the in-memory swap.
Save(p) ==
  /\ At(p, "save")
  /\ row' = EntryOf(job[p].cfg)
  /\ Does(p, "code", job[p].cfg)
  /\ UNCHANGED <<portal, streams, memory, codeRow, phase, faults>>

SaveCode(p) ==
  /\ At(p, "code")
  /\ codeRow' = job[p].cfg.version
  /\ Does(p, "index", job[p].cfg)
  /\ UNCHANGED <<portal, streams, memory, row, phase, faults>>

Swap(p) ==
  /\ At(p, "index")
  /\ codeIndex' = job[p].cfg.version
  /\ entry' = EntryOf(job[p].cfg) /\ index' = IndexOf(job[p].cfg)
  /\ Ends(p)
  /\ UNCHANGED <<portal, streams, disk, phase, faults>>

\* The portal or the database does not answer. Each writer gives up; bootstrap goes on without
\* the portal if a local snapshot exists, and refuses to start otherwise.
FailCall(p) ==
  /\ ~At(p, "idle") /\ Fault
  /\ IF phase = "booting" /\ (row = Empty \/ ~At(p, "list"))
     THEN Down
     ELSE Ends(p) /\ UNCHANGED <<streams, memory, phase>>
  /\ UNCHANGED <<portal, disk>>

Advance(p) ==
  \/ AnswerGet(p) \/ AnswerList(p) \/ (p = Poller /\ Reconcile)
  \/ WarmApply(p) \/ Vanish(p) \/ Forget(p)
  \/ Save(p) \/ SaveCode(p) \/ Swap(p)

Next ==
  \/ \E verb \in {"approve", "pause", "resume"} : Govern(verb)
  \/ \E v \in Version : Revise(v)
  \/ Publish
  \/ \E s \in Stream : Register(s) \/ LoseEvent(s) \/ Break(s) \/ OnClosed(s) \/ Serve(s)
  \/ \E h \in Handler, s \in Stream : Receive(h, s)
  \/ \E s \in Stream, w \in Warmer : Reconnect(s, w)
  \/ \E w \in Warmer : Start(w)
  \/ \E p \in Process : Advance(p) \/ FailCall(p)
  \/ PollTick
  \/ Crash

\* Timers fire, and what is awaited resolves: an answer that never comes is FailCall.
Fairness ==
  /\ WF_vars(Publish) /\ WF_vars(PollTick)
  /\ WF_vars(\E s \in Stream : Serve(s))
  /\ \A s \in Stream :
       /\ WF_vars(Register(s)) /\ WF_vars(OnClosed(s))
       /\ WF_vars(\E h \in Handler : Receive(h, s))
  /\ WF_vars(\E s \in Stream, w \in Warmer : Reconnect(s, w))
  /\ \A p \in Process : WF_vars(Advance(p))

Spec == Init /\ [][Next]_vars /\ Fairness
=============================================================================
