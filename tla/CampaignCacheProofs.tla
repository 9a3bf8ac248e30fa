-------------------------- MODULE CampaignCacheProofs --------------------------
(***************************************************************************)
(* The campaign cache for any versions, number of concurrent handlers and  *)
(* re-warms, streams and faults. Three inductive invariants, one on each   *)
(* concern: the types, where every configuration held anywhere came from   *)
(* together with what was made durable, and the streams.                   *)
(***************************************************************************)
EXTENDS CampaignCacheProps, TLAPS

Known == Config \cup {NoConfig}
Step == {"idle", "get", "list", "listed", "save", "code", "index", "forget"}

\* Status changes still to announce are among the changes made.
TypeInv == TypeOK /\ announcing <= changes

LEMMA KnownParts ==
  /\ NoConfig \in Known /\ Empty \in Cached /\ Idle \in Job
  /\ \A c \in Known : EntryOf(c) \in Cached /\ IndexOf(c) \in Version \cup {None}
  /\ \A c \in Known, b \in BOOLEAN : [cfg |-> c, active |-> b] \in Cached
  /\ \A c \in Known, s \in Step : [step |-> s, cfg |-> c] \in Job
BY CacheAssumption DEF CacheAssumption, Known, NoConfig, Config, Empty, Cached, Idle, Job, Step, EntryOf, IndexOf, Lifecycle!Live

LEMMA KnownConfig == \A c \in Known : c # NoConfig => c \in Config /\ c.version \in Version /\ c.version # None
BY CacheAssumption DEF CacheAssumption, Known, Config

LEMMA ServedKnown == ASSUME TypeOK PROVE Served \in Known /\ Listed \in Known
BY DEF TypeOK, Served, Listed, Now, Known, Config, Lifecycle!Live

LEMMA JobKnown == ASSUME TypeOK, NEW p \in Process PROVE job[p].cfg \in Known /\ job[p].step \in Step
BY DEF TypeOK, Job, Known, Step

LEMMA DoesType ==
  ASSUME TypeOK, NEW p \in Process, NEW s \in Step, NEW c \in Known, Does(p, s, c)
  PROVE job' \in [Process -> Job]
<1>1. [step |-> s, cfg |-> c] \in Job
  BY KnownParts
<1> QED
  BY <1>1 DEF Does, TypeOK

LEMMA EndsType ==
  ASSUME TypeOK, NEW p \in Process, Ends(p)
  PROVE job' \in [Process -> Job]
BY KnownParts DEF Ends, TypeOK

LEMMA AltersType ==
  ASSUME TypeInv, NEW st \in Lifecycle!CampaignStatus, NEW v \in Version, Alters(st, v)
  PROVE /\ status' \in Lifecycle!CampaignStatus /\ version' \in Version
        /\ changes' = changes + 1 /\ changes' \in 0..MaxChanges /\ wasActive' \subseteq Version
BY CacheAssumption DEF CacheAssumption, TypeInv, TypeOK, Alters

LEMMA DownType ==
  ASSUME TypeOK, Down
  PROVE /\ current' \in Stream \cup {None} /\ opened' \subseteq Stream /\ subscribed' \subseteq opened'
        /\ events' \in [Stream -> Nat] /\ closing' \in [Stream -> 0..2] /\ timer' \in BOOLEAN
        /\ entry' \in Cached /\ {index', codeIndex'} \subseteq Version \cup {None}
        /\ job' \in [Process -> Job] /\ phase' \in {"down", "booting", "up"}
<1>1. job' \in [Process -> Job]
  BY KnownParts DEF Down
<1>2. events' \in [Stream -> Nat] /\ closing' \in [Stream -> 0..2]
  BY DEF Down
<1>3. entry' \in Cached /\ {index', codeIndex'} \subseteq Version \cup {None}
  BY KnownParts DEF Down
<1> QED
  BY <1>1, <1>2, <1>3 DEF Down

LEMMA TypeInit == Init => TypeInv
<1> SUFFICES ASSUME Init PROVE TypeInv
  OBVIOUS
<1>1. status \in Lifecycle!CampaignStatus
  BY DEF Init, Lifecycle!CampaignStatus
<1>2. job \in [Process -> Job]
  BY KnownParts DEF Init
<1>3. events \in [Stream -> Nat] /\ closing \in [Stream -> 0..2]
  BY DEF Init
<1>4. changes \in 0..MaxChanges /\ announcing \in 0..MaxChanges /\ faults \in 0..MaxFaults /\ announcing <= changes
  BY CacheAssumption DEF CacheAssumption, Init
<1>5. entry \in Cached /\ row \in Cached /\ {index, codeRow, codeIndex} \subseteq Version \cup {None}
  BY KnownParts DEF Init
<1> QED
  BY <1>1, <1>2, <1>3, <1>4, <1>5, CacheAssumption DEF CacheAssumption, Init, TypeInv, TypeOK

LEMMA TypeStep == TypeInv /\ [Next]_vars => TypeInv'
<1> SUFFICES ASSUME TypeInv, [Next]_vars PROVE TypeInv'
  OBVIOUS
<1>0. TypeOK
  BY DEF TypeInv
<1>1. CASE \E verb \in {"approve", "pause", "resume"} : Govern(verb)
  <2>1. PICK to \in Lifecycle!Live : Alters(to, version)
    BY <1>1 DEF Govern
  <2>2. to \in Lifecycle!CampaignStatus
    BY DEF Lifecycle!Live, Lifecycle!CampaignStatus
  <2>3. /\ status' \in Lifecycle!CampaignStatus /\ version' \in Version
        /\ changes' = changes + 1 /\ changes' \in 0..MaxChanges /\ wasActive' \subseteq Version
    BY <1>0, <2>1, <2>2, AltersType DEF TypeOK
  <2> QED
    BY <1>1, <2>3, CacheAssumption DEF CacheAssumption, Govern, TypeInv, TypeOK, streams, memory, disk
<1>2. CASE \E v \in Version : Revise(v)
  <2>1. PICK v \in Version : Revise(v)
    BY <1>2
  <2>2. /\ status' \in Lifecycle!CampaignStatus /\ version' \in Version
        /\ changes' = changes + 1 /\ changes' \in 0..MaxChanges /\ wasActive' \subseteq Version
    BY <1>0, <2>1, AltersType DEF Revise, TypeOK
  <2> QED
    BY <2>1, <2>2, CacheAssumption DEF CacheAssumption, Revise, TypeInv, TypeOK, streams, memory, disk
<1>3. CASE Publish
  <2>1. events' \in [Stream -> Nat]
    BY <1>0, <1>3 DEF Publish, TypeOK
  <2>2. announcing' \in 0..MaxChanges /\ announcing' <= changes
    BY <1>3, CacheAssumption DEF CacheAssumption, Publish, TypeInv, TypeOK
  <2> QED
    BY <1>3, <2>1, <2>2 DEF Publish, TypeInv, TypeOK, memory, disk
<1>4. ASSUME NEW s \in Stream, Register(s) PROVE TypeInv'
  BY <1>4 DEF Register, TypeInv, TypeOK, portal, memory, disk
<1>5. ASSUME NEW s \in Stream, LoseEvent(s) PROVE TypeInv'
  BY <1>5, CacheAssumption DEF CacheAssumption, LoseEvent, Fault, TypeInv, TypeOK, portal, memory, disk
<1>6. ASSUME NEW s \in Stream, Break(s) PROVE TypeInv'
  BY <1>6, CacheAssumption DEF CacheAssumption, Break, Fault, TypeInv, TypeOK, portal, memory, disk
<1>7. ASSUME NEW s \in Stream, OnClosed(s) PROVE TypeInv'
  <2>1. closing' \in [Stream -> 0..2]
    BY <1>0, <1>7 DEF OnClosed, TypeOK
  <2>2. current' \in Stream \cup {None} /\ timer' \in BOOLEAN
    BY <1>0, <1>7 DEF OnClosed, TypeOK
  <2> QED
    BY <1>7, <2>1, <2>2 DEF OnClosed, TypeInv, TypeOK, portal, memory, disk
<1>8. ASSUME NEW s \in Stream, Serve(s) PROVE TypeInv'
  <2>1. job' \in [Process -> Job]
    BY <1>0, <1>8, DoesType, KnownParts DEF Serve, Process, Step
  <2> QED
    BY <1>8, <2>1 DEF Serve, Opens, TypeInv, TypeOK, portal, memory, disk
<1>9. ASSUME NEW h \in Handler, NEW s \in Stream, Receive(h, s) PROVE TypeInv'
  <2>1. entry.cfg \in Known /\ h \in Process
    BY <1>0 DEF TypeOK, Cached, Known, Process
  <2>2. job' \in [Process -> Job]
    BY <1>0, <1>9, <2>1, DoesType DEF Receive, Step
  <2> QED
    BY <1>9, <2>2 DEF Receive, TypeInv, TypeOK, portal, memory, disk
<1>10. ASSUME NEW s \in Stream, NEW w \in Warmer, Reconnect(s, w) PROVE TypeInv'
  <2>1. job' \in [Process -> Job]
    BY <1>0, <1>10, DoesType, KnownParts DEF Reconnect, Process, Step
  <2> QED
    BY <1>10, <2>1 DEF Reconnect, Opens, TypeInv, TypeOK, portal, memory, disk
<1>11. ASSUME NEW w \in Warmer, Start(w) PROVE TypeInv'
  <2>1. job' \in [Process -> Job]
    BY <1>0, <1>11, DoesType, KnownParts DEF Start, Process, Step
  <2>2. row.cfg \in Known
    BY <1>0 DEF TypeOK, Cached, Known
  <2>3. EntryOf(row.cfg) \in Cached /\ IndexOf(row.cfg) \in Version \cup {None}
    BY <2>2, KnownParts
  <2> QED
    BY <1>11, <2>1, <2>3 DEF Start, TypeInv, TypeOK, portal, streams, disk
<1>12. ASSUME NEW p \in Process, Advance(p) PROVE TypeInv'
  <2>1. CASE AnswerGet(p)
    <3>1. job' \in [Process -> Job]
      BY <1>0, <2>1, ServedKnown, DoesType, EndsType DEF AnswerGet, Step
    <3> QED
      BY <2>1, <3>1 DEF AnswerGet, TypeInv, TypeOK, portal, streams, memory, disk
  <2>2. CASE AnswerList(p)
    <3>1. job' \in [Process -> Job]
      BY <1>0, <2>2, ServedKnown, DoesType DEF AnswerList, Step
    <3> QED
      BY <2>2, <3>1 DEF AnswerList, TypeInv, TypeOK, portal, streams, memory, disk
  <2>3. CASE p = Poller /\ Reconcile
    <3>1. job' \in [Process -> Job]
      BY <1>0, <2>3, JobKnown, DoesType, EndsType DEF Reconcile, Step
    <3> QED
      BY <2>3, <3>1 DEF Reconcile, TypeInv, TypeOK, portal, streams, memory, disk
  <2>4. CASE WarmApply(p)
    <3>1. job' \in [Process -> Job]
      BY <1>0, <2>4, JobKnown, DoesType DEF WarmApply, Step
    <3> QED
      BY <2>4, <3>1 DEF WarmApply, TypeInv, TypeOK, portal, streams, memory, disk
  <2>5. CASE Vanish(p)
    <3>1. entry.cfg \in Known
      BY <1>0 DEF TypeOK, Cached, Known
    <3>2. job' \in [Process -> Job]
      BY <1>0, <2>5, <3>1, DoesType, EndsType DEF Vanish, Step
    <3>3. entry' \in Cached /\ index' \in Version \cup {None}
      BY <1>0, <2>5, <3>1, KnownParts DEF Vanish, TypeOK
    <3> QED
      BY <2>5, <3>2, <3>3 DEF Vanish, TypeInv, TypeOK, portal, streams, disk
  <2>6. CASE Forget(p)
    <3>1. job' \in [Process -> Job] /\ row' \in Cached
      BY <1>0, <2>6, JobKnown, KnownParts, EndsType DEF Forget
    <3> QED
      BY <2>6, <3>1 DEF Forget, TypeInv, TypeOK, portal, streams, memory
  <2>7. CASE Save(p)
    <3>1. job' \in [Process -> Job] /\ row' \in Cached
      BY <1>0, <2>7, JobKnown, KnownParts, DoesType DEF Save, Step
    <3> QED
      BY <2>7, <3>1 DEF Save, TypeInv, TypeOK, portal, streams, memory
  <2>8. CASE SaveCode(p)
    <3>1. job' \in [Process -> Job]
      BY <1>0, <2>8, JobKnown, DoesType DEF SaveCode, Step
    <3>2. codeRow' \in Version \cup {None}
      BY <1>0, <2>8, JobKnown, KnownConfig DEF SaveCode, NoConfig
    <3> QED
      BY <2>8, <3>1, <3>2 DEF SaveCode, TypeInv, TypeOK, portal, streams, memory
  <2>9. CASE Swap(p)
    <3>1. job' \in [Process -> Job]
      BY <1>0, <2>9, EndsType DEF Swap
    <3>2. entry' \in Cached /\ {index', codeIndex'} \subseteq Version \cup {None}
      BY <1>0, <2>9, JobKnown, KnownParts, KnownConfig DEF Swap, NoConfig
    <3> QED
      BY <2>9, <3>1, <3>2 DEF Swap, TypeInv, TypeOK, portal, streams, disk
  <2> QED
    BY <1>12, <2>1, <2>2, <2>3, <2>4, <2>5, <2>6, <2>7, <2>8, <2>9 DEF Advance
<1>13. ASSUME NEW p \in Process, FailCall(p) PROVE TypeInv'
  <2>1. CASE Down
    BY <1>0, <1>13, <2>1, DownType, CacheAssumption DEF CacheAssumption, FailCall, Fault, TypeInv, TypeOK, portal, disk
  <2>2. CASE Ends(p) /\ UNCHANGED <<streams, memory, phase>>
    <3>1. job' \in [Process -> Job]
      BY <1>0, <2>2, EndsType
    <3> QED
      BY <1>13, <2>2, <3>1, CacheAssumption DEF CacheAssumption, FailCall, Fault, TypeInv, TypeOK, portal, streams, memory, disk
  <2> QED
    BY <1>13, <2>1, <2>2 DEF FailCall
<1>14. CASE PollTick
  <2>1. job' \in [Process -> Job]
    BY <1>0, <1>14, DoesType, KnownParts DEF PollTick, Process, Step
  <2> QED
    BY <1>14, <2>1 DEF PollTick, TypeInv, TypeOK, portal, streams, memory, disk
<1>15. CASE Crash
  BY <1>0, <1>15, DownType, CacheAssumption DEF CacheAssumption, Crash, Fault, TypeInv, TypeOK, portal, disk
<1>16. CASE UNCHANGED vars
  BY <1>16 DEF vars, portal, streams, memory, disk, TypeInv, TypeOK
<1> QED
  BY <1>1, <1>2, <1>3, <1>4, <1>5, <1>6, <1>7, <1>8, <1>9, <1>10, <1>11, <1>12, <1>13, <1>14, <1>15, <1>16 DEF Next

\* Every variable of the cache keeps its type, for any number of handlers, re-warms, streams and
\* faults.
THEOREM TypeCorrect == Spec => []TypeOK
<1>1. TypeInv => TypeOK
  BY DEF TypeInv
<1> QED
  BY <1>1, TypeInit, TypeStep, PTL DEF Spec


LEMMA TypeAlways == Spec => []TypeInv
BY TypeInit, TypeStep, PTL DEF Spec

----------------------------------------------------------------------------
\* Where configurations come from: each step of a process holds one the portal served.

WasHeld(c) == c.status = "active" => c.version \in wasActive

Provenance ==
  /\ status = "active" => version \in wasActive
  /\ WasHeld(entry.cfg) /\ WasHeld(row.cfg)
  /\ \A p \in Process : WasHeld(job[p].cfg)

EntryMatches ==
  /\ IndexFollowsEntry
  /\ entry.active => entry.cfg.status = "active"

ContentInv == Provenance /\ EntryMatches

LEMMA ContentInit == Init => ContentInv
BY DEF Init, ContentInv, Provenance, WasHeld, EntryMatches, IndexFollowsEntry, Empty, Idle, NoConfig

LEMMA NoConfigHeld == WasHeld(NoConfig) /\ (WasHeld(NoConfig))'
BY DEF WasHeld, NoConfig

LEMMA ServedHeld ==
  ASSUME Provenance PROVE WasHeld(Served) /\ WasHeld(Listed)
BY DEF Provenance, WasHeld, Served, Listed, Now, NoConfig

\* What was held before is held after, since the history only grows.
LEMMA HeldStays ==
  ASSUME NEW c, WasHeld(c), wasActive \subseteq wasActive' PROVE (WasHeld(c))'
BY DEF WasHeld

\* A process that takes a configuration that was held leaves the others as they are.
LEMMA DoesHeld ==
  ASSUME TypeOK, NEW p \in Process, NEW s, NEW c, Does(p, s, c)
  PROVE /\ job'[p].step = s /\ job'[p].cfg = c
        /\ \A q \in Process \ {p} : job'[q] = job[q]
BY DEF Does, TypeOK

LEMMA EndsHeld ==
  ASSUME TypeOK, NEW p \in Process, Ends(p)
  PROVE /\ job'[p].step = "idle" /\ job'[p].cfg = NoConfig
        /\ \A q \in Process \ {p} : job'[q] = job[q]
BY DEF Ends, TypeOK, Idle

LEMMA IndexedEntry ==
  ASSUME NEW c
  PROVE /\ EntryOf(c).cfg = c
        /\ EntryOf(c).active => c.status = "active"
        /\ IndexOf(c) = IF EntryOf(c).active THEN c.version ELSE None
BY DEF EntryOf, IndexOf

LEMMA DownContent == ASSUME ContentInv, Down, UNCHANGED <<portal, disk>> PROVE ContentInv'
BY DEF ContentInv, Provenance, WasHeld, EntryMatches, IndexFollowsEntry, Down, Empty, Idle, NoConfig, portal, disk

\* A step of one process that leaves memory and disk alone needs only its own new job looked at.
LEMMA JobStep ==
  ASSUME TypeOK, ContentInv, NEW p \in Process, NEW s, NEW c,
         job'[p].step = s, job'[p].cfg = c, \A q \in Process \ {p} : job'[q] = job[q],
         WasHeld(c),
         UNCHANGED <<portal, memory, disk>>
  PROVE ContentInv'
<1>1. Provenance'
  BY DEF ContentInv, Provenance, WasHeld, portal, memory, disk
<1>2. EntryMatches'
  BY DEF ContentInv, EntryMatches, IndexFollowsEntry, memory
<1> QED
  BY <1>1, <1>2 DEF ContentInv

LEMMA ContentStep == TypeOK /\ ContentInv /\ [Next]_vars => ContentInv'
<1> SUFFICES ASSUME TypeOK, ContentInv, [Next]_vars PROVE ContentInv'
  OBVIOUS
<1>0. Poller \in Process /\ Warmer \subseteq Process /\ Handler \subseteq Process
  BY DEF Process
<1>h. WasHeld(NoConfig) /\ WasHeld(entry.cfg) /\ \A p \in Process : WasHeld(job[p].cfg)
  BY NoConfigHeld DEF ContentInv, Provenance
<1>1. ASSUME NEW st, NEW v, Alters(st, v), UNCHANGED <<memory, disk, job>> PROVE ContentInv'
  <2>1. wasActive \subseteq wasActive' /\ (status' = "active" => version' \in wasActive')
    BY <1>1 DEF Alters
  <2>2. Provenance'
    BY <1>1, <2>1 DEF ContentInv, Provenance, WasHeld, memory, disk
  <2> QED
    BY <1>1, <2>2 DEF ContentInv, EntryMatches, IndexFollowsEntry, memory, disk
<1>2. ASSUME UNCHANGED <<status, version, wasActive, memory, disk, job>> PROVE ContentInv'
  BY <1>2 DEF ContentInv, Provenance, WasHeld, EntryMatches, IndexFollowsEntry, memory, disk
<1>3. CASE \E verb \in {"approve", "pause", "resume"} : Govern(verb)
  <2>1. PICK to \in Lifecycle!Live : Alters(to, version)
    BY <1>3 DEF Govern
  <2> QED
    BY <1>1, <1>3, <2>1 DEF Govern
<1>4. CASE \E v \in Version : Revise(v)
  BY <1>1, <1>4 DEF Revise
<1>5. CASE Publish
  BY <1>2, <1>5 DEF Publish
<1>6. ASSUME NEW s \in Stream, Register(s) \/ LoseEvent(s) \/ Break(s) \/ OnClosed(s) PROVE ContentInv'
  BY <1>2, <1>6 DEF Register, LoseEvent, Break, OnClosed, portal
<1>7. ASSUME NEW s \in Stream, Serve(s) PROVE ContentInv'
  BY <1>0, <1>h, <1>7, JobStep, DoesHeld DEF Serve
<1>8. ASSUME NEW h \in Handler, NEW s \in Stream, Receive(h, s) PROVE ContentInv'
  BY <1>0, <1>h, <1>8, JobStep, DoesHeld DEF Receive
<1>9. ASSUME NEW s \in Stream, NEW w \in Warmer, Reconnect(s, w) PROVE ContentInv'
  BY <1>0, <1>h, <1>9, JobStep, DoesHeld DEF Reconnect
<1>10. CASE PollTick
  BY <1>0, <1>h, <1>10, JobStep, DoesHeld DEF PollTick
<1>11. ASSUME NEW w \in Warmer, Start(w) PROVE ContentInv'
  <2>1. /\ w \in Process /\ job'[w].step = "list" /\ job'[w].cfg = NoConfig
        /\ \A q \in Process \ {w} : job'[q] = job[q]
    BY <1>0, <1>11, DoesHeld DEF Start
  <2>2. entry'.cfg = row.cfg /\ EntryMatches'
    BY <1>11, IndexedEntry DEF Start, EntryMatches, IndexFollowsEntry
  <2>3. Provenance'
    BY <1>h, <1>11, <2>1, <2>2 DEF Start, ContentInv, Provenance, WasHeld, portal, disk
  <2> QED
    BY <2>2, <2>3 DEF ContentInv
<1>12. ASSUME NEW p \in Process, Advance(p) PROVE ContentInv'
  <2>1. CASE AnswerGet(p)
    BY <1>h, <2>1, ServedHeld, JobStep, DoesHeld, EndsHeld DEF AnswerGet, ContentInv
  <2>2. CASE AnswerList(p)
    BY <2>2, ServedHeld, JobStep, DoesHeld DEF AnswerList, ContentInv
  <2>3. CASE p = Poller /\ Reconcile
    BY <1>h, <2>3, JobStep, DoesHeld, EndsHeld DEF Reconcile
  <2>4. CASE WarmApply(p)
    BY <1>h, <2>4, JobStep, DoesHeld DEF WarmApply
  <2>5. CASE Vanish(p)
    <3>1. CASE ~entry.active
      BY <1>h, <2>5, <3>1, JobStep, EndsHeld DEF Vanish, memory
    <3>2. CASE entry.active
      <4>1. /\ job'[p].step = "forget" /\ job'[p].cfg = entry.cfg
            /\ \A q \in Process \ {p} : job'[q] = job[q]
        BY <2>5, <3>2, DoesHeld DEF Vanish
      <4>2. index' = None /\ ~entry'.active /\ entry'.cfg = entry.cfg
        BY <2>5, <3>2 DEF Vanish
      <4>4. Provenance'
        BY <2>5, <4>1, <4>2 DEF Vanish, ContentInv, Provenance, WasHeld, portal, disk
      <4> QED
        BY <4>2, <4>4 DEF ContentInv, EntryMatches, IndexFollowsEntry
    <3> QED
      BY <3>1, <3>2 DEF TypeOK, Cached
  <2>6. CASE Forget(p)
    <3>1. /\ job'[p].step = "idle" /\ job'[p].cfg = NoConfig /\ \A q \in Process \ {p} : job'[q] = job[q]
          /\ row'.cfg = job[p].cfg
      BY <2>6, EndsHeld DEF Forget, At, ContentInv
    <3>2. Provenance'
      BY <1>h, <2>6, <3>1 DEF Forget, ContentInv, Provenance, WasHeld, portal, memory
    <3> QED
      BY <2>6, <3>2 DEF Forget, ContentInv, EntryMatches, IndexFollowsEntry, memory
  <2>7. CASE Save(p)
    <3>1. /\ job'[p].step = "code" /\ job'[p].cfg = job[p].cfg /\ \A q \in Process \ {p} : job'[q] = job[q]
          /\ row'.cfg = job[p].cfg
      BY <2>7, DoesHeld, IndexedEntry DEF Save, At, ContentInv
    <3>2. Provenance'
      BY <1>h, <2>7, <3>1 DEF Save, ContentInv, Provenance, WasHeld, portal, memory
    <3> QED
      BY <2>7, <3>2 DEF Save, ContentInv, EntryMatches, IndexFollowsEntry, memory
  <2>8. CASE SaveCode(p)
    <3>1. /\ job'[p].step = "index" /\ job'[p].cfg = job[p].cfg /\ \A q \in Process \ {p} : job'[q] = job[q]
      BY <2>8, DoesHeld DEF SaveCode, At, ContentInv
    <3>2. Provenance'
      BY <1>h, <2>8, <3>1 DEF SaveCode, ContentInv, Provenance, WasHeld, portal, memory
    <3> QED
      BY <2>8, <3>2 DEF SaveCode, ContentInv, EntryMatches, IndexFollowsEntry, memory
  <2>9. CASE Swap(p)
    <3>1. /\ job'[p].step = "idle" /\ job'[p].cfg = NoConfig /\ \A q \in Process \ {p} : job'[q] = job[q]
      BY <2>9, EndsHeld DEF Swap, At, ContentInv
    <3>2. entry'.cfg = job[p].cfg /\ EntryMatches'
      BY <2>9, IndexedEntry DEF Swap, EntryMatches, IndexFollowsEntry
    <3>3. Provenance'
      BY <1>h, <2>9, <3>1, <3>2 DEF Swap, ContentInv, Provenance, WasHeld, portal, disk
    <3> QED
      BY <3>2, <3>3 DEF ContentInv
  <2> QED
    BY <1>12, <2>1, <2>2, <2>3, <2>4, <2>5, <2>6, <2>7, <2>8, <2>9 DEF Advance
<1>13. ASSUME NEW p \in Process, FailCall(p) PROVE ContentInv'
  <2>1. CASE Down
    BY <1>13, <2>1, DownContent DEF FailCall
  <2>2. CASE Ends(p) /\ UNCHANGED <<streams, memory, phase>>
    BY <1>h, <1>13, <2>2, JobStep, EndsHeld DEF FailCall
  <2> QED
    BY <1>13, <2>1, <2>2 DEF FailCall
<1>14. CASE Crash
  BY <1>14, DownContent DEF Crash
<1>15. CASE UNCHANGED vars
  BY <1>2, <1>15 DEF vars, portal
<1> QED
  BY <1>3, <1>4, <1>5, <1>6, <1>7, <1>8, <1>9, <1>10, <1>11, <1>12, <1>13, <1>14, <1>15 DEF Next

\* The index never disagrees with the cached entry, whichever writers interleave.
THEOREM IndexAgrees == Spec => []IndexFollowsEntry
<1>1. ContentInv => IndexFollowsEntry
  BY DEF ContentInv, EntryMatches
<1>2. TypeInv => TypeOK
  BY DEF TypeInv
<1> QED
  BY <1>1, <1>2, TypeAlways, ContentInit, ContentStep, PTL DEF Spec

\* Activities match only versions the portal has held active.
THEOREM OnlyApprovedMatches == Spec => []MatchedWasActive
<1>1. ContentInv => MatchedWasActive
  BY DEF ContentInv, EntryMatches, IndexFollowsEntry, Provenance, WasHeld, MatchedWasActive
<1>2. TypeInv => TypeOK
  BY DEF TypeInv
<1> QED
  BY <1>1, <1>2, TypeAlways, ContentInit, ContentStep, PTL DEF Spec

----------------------------------------------------------------------------
\* The streams: the portal publishes to the current one at most, never to one that is closing, and
\* a process that is not serving has none.

StreamInv ==
  /\ OneStream
  /\ \A s \in subscribed : s = current /\ closing[s] = 0
  /\ phase # "up" => current = None /\ ~timer

LEMMA StreamInit == Init => StreamInv
BY CacheAssumption DEF CacheAssumption, Init, StreamInv, OneStream, Alive

LEMMA StreamStep == TypeOK /\ StreamInv /\ [Next]_vars => StreamInv'
<1> SUFFICES ASSUME TypeOK, StreamInv, [Next]_vars PROVE StreamInv'
  OBVIOUS
<1>0. None \notin Stream
  BY CacheAssumption DEF CacheAssumption
<1>1. ASSUME UNCHANGED <<current, opened, subscribed, closing, timer, phase>> PROVE StreamInv'
  BY <1>1 DEF StreamInv, OneStream, Alive
<1>2. ASSUME Down PROVE StreamInv'
  BY <1>0, <1>2 DEF Down, StreamInv, OneStream, Alive
<1>3. CASE \E verb \in {"approve", "pause", "resume"} : Govern(verb)
  BY <1>1, <1>3 DEF Govern, streams
<1>4. CASE \E v \in Version : Revise(v)
  BY <1>1, <1>4 DEF Revise, streams
<1>5. CASE Publish
  BY <1>1, <1>5 DEF Publish
<1>6. ASSUME NEW s \in Stream, Register(s) PROVE StreamInv'
  BY <1>6 DEF Register, StreamInv, OneStream, Alive
<1>7. ASSUME NEW s \in Stream, LoseEvent(s) PROVE StreamInv'
  BY <1>1, <1>7 DEF LoseEvent
<1>8. ASSUME NEW s \in Stream, Break(s) PROVE StreamInv'
  <2>1. subscribed' = {} /\ \A x \in Stream \ {s} : closing'[x] = closing[x]
    BY <1>8 DEF Break, StreamInv, TypeOK
  <2> QED
    BY <1>8, <2>1 DEF Break, StreamInv, OneStream, Alive
<1>9. ASSUME NEW s \in Stream, OnClosed(s) PROVE StreamInv'
  <2>1. \A x \in Stream \ {s} : closing'[x] = closing[x]
    BY <1>9 DEF OnClosed, TypeOK
  <2>2. s \notin subscribed
    BY <1>9 DEF OnClosed, StreamInv
  <2>3. CASE current = s
    <3>1. subscribed = {}
      BY <2>2, <2>3 DEF StreamInv
    <3> QED
      BY <1>0, <1>9, <2>3, <3>1 DEF OnClosed, StreamInv, OneStream, Alive
  <2>4. CASE current # s
    BY <1>9, <2>1, <2>2, <2>4 DEF OnClosed, StreamInv, OneStream, Alive, TypeOK
  <2> QED
    BY <2>3, <2>4
<1>10. ASSUME NEW s \in Stream, Serve(s) PROVE StreamInv'
  <2>1. subscribed = {} /\ ~timer
    BY <1>0, <1>10 DEF Serve, StreamInv, TypeOK
  <2> QED
    BY <1>0, <1>10, <2>1 DEF Serve, Opens, StreamInv, OneStream, Alive
<1>11. ASSUME NEW h \in Handler, NEW s \in Stream, Receive(h, s) PROVE StreamInv'
  BY <1>1, <1>11 DEF Receive
<1>12. ASSUME NEW s \in Stream, NEW w \in Warmer, Reconnect(s, w) PROVE StreamInv'
  <2>1. subscribed = {} /\ phase = "up"
    BY <1>0, <1>12 DEF Reconnect, StreamInv, OneStream, TypeOK
  <2> QED
    BY <1>0, <1>12, <2>1 DEF Reconnect, Opens, StreamInv, OneStream, Alive
<1>13. ASSUME NEW w \in Warmer, Start(w) PROVE StreamInv'
  BY <1>13 DEF Start, streams, StreamInv, OneStream, Alive
<1>14. ASSUME NEW p \in Process, Advance(p) PROVE StreamInv'
  BY <1>1, <1>14 DEF Advance, AnswerGet, AnswerList, Reconcile, WarmApply, Vanish, Forget, Save, SaveCode, Swap, streams
<1>15. ASSUME NEW p \in Process, FailCall(p) PROVE StreamInv'
  BY <1>1, <1>2, <1>15 DEF FailCall, streams
<1>16. CASE PollTick
  BY <1>1, <1>16 DEF PollTick, streams
<1>17. CASE Crash
  BY <1>2, <1>17 DEF Crash
<1>18. CASE UNCHANGED vars
  BY <1>1, <1>18 DEF vars, streams
<1> QED
  BY <1>3, <1>4, <1>5, <1>6, <1>7, <1>8, <1>9, <1>10, <1>11, <1>12, <1>13, <1>14, <1>15, <1>16, <1>17, <1>18 DEF Next

\* A running service listens to one stream or is about to: stale closes never cost it the new one,
\* and never leave it with two.
THEOREM StreamIsSingle == Spec => []OneStream
<1>1. StreamInv => OneStream
  BY DEF StreamInv
<1>2. TypeInv => TypeOK
  BY DEF TypeInv
<1> QED
  BY <1>1, <1>2, TypeAlways, StreamInit, StreamStep, PTL DEF Spec
=============================================================================
