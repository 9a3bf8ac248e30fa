------------------------- MODULE RewardTrackingProofs -------------------------
(***************************************************************************)
(* Reward tracking, for any handlers, readers, events and faults. The      *)
(* argument is what the unique indexes give a transaction: no other open   *)
(* transaction stages its key or its rows, so what it read when it staged  *)
(* its writes is still so when they commit, and a commit is one TrackNew.  *)
(***************************************************************************)
EXTENDS RewardTrackingProps, FiniteSetTheorems, TLAPS

USE TrackedAssumption, TrackingAssumption DEF TrackedAssumption, TrackingAssumption

----------------------------------------------------------------------------
\* The steps, by what they do to the tables and to one transaction.

Keyed == {"logged", "ledger", "shard"}
Upserted == {"ledger", "shard"}

EntriesAreKnown == \A w \in Worker : ~Handling(w, "idle") => tx[w].entry \in Entry

\* What a step that commits nothing may make of the event a worker handles.
Staging(w, t) ==
  \/ t.at \notin Keyed
  \/ /\ Handling(w, "begin") /\ LogFree(w) /\ tx[w].entry \notin log
     /\ t = Working("logged", tx[w].entry)
  \/ LET e == tx[w].entry
     IN /\ Handling(w, "logged") /\ LedgerFree(w)
        /\ t = [at |-> "ledger", entry |-> e, total |-> ledger[grainOf[e]], count |-> 0]
  \/ LET e == tx[w].entry
     IN /\ Handling(w, "ledger") /\ ShardFree(w)
        /\ t = [at |-> "shard", entry |-> e, total |-> tx[w].total, count |-> counter[shardOf[e]]]
Stages(w, t) ==
  /\ Goes(w, t) /\ Staging(w, t)
  /\ t.at # "idle" => t.entry \in Entry
  /\ UNCHANGED <<tracked, log, rows>>

LEMMA WorkingIsTx ==
  ASSUME NEW at \in Stage, NEW e \in Entry \cup {NoEntry}
  PROVE /\ Working(at, e) \in Tx
        /\ Working(at, e).at = at /\ Working(at, e).entry = e
BY DEF Working, Tx

LEMMA GoesEffect ==
  ASSUME tx \in [Worker -> Tx], NEW w \in Worker, NEW t \in Tx, Goes(w, t)
  PROVE /\ tx' \in [Worker -> Tx] /\ tx'[w] = t
        /\ \A k \in Worker \ {w} : tx'[k] = tx[k]
BY DEF Goes

LEMMA HandleCases ==
  ASSUME TypeOK, EntriesAreKnown, NEW w \in Worker, Handle(w)
  PROVE Commit(w) \/ \E t \in Tx : Stages(w, t)
<1>0. /\ tx[w] \in Tx
      /\ ledger \in [Grain -> Nat] /\ counter \in [Shard -> Nat]
  BY DEF TypeOK
<1> DEFINE e == tx[w].entry
<1>1. CASE InsertLog(w)
  <2>1. e \in Entry
    BY <1>1 DEF EntriesAreKnown, InsertLog, Handling
  <2>2. Stages(w, Working(IF e \in log THEN "duplicate" ELSE "logged", e))
    BY <1>1, <2>1, WorkingIsTx DEF InsertLog, MovesTo, Stages, Staging, Stage, Keyed
  <2> QED
    BY <2>1, <2>2, WorkingIsTx DEF Stage
<1>2. CASE UpsertLedger(w)
  <2>1. e \in Entry
    BY <1>2 DEF EntriesAreKnown, UpsertLedger, Handling
  <2>2. [at |-> "ledger", entry |-> e, total |-> ledger[grainOf[e]], count |-> 0] \in Tx
    BY <1>0, <2>1 DEF Tx, Stage
  <2> QED
    BY <1>2, <2>1, <2>2 DEF UpsertLedger, Stages, Staging
<1>3. CASE UpsertShard(w)
  <2>1. e \in Entry
    BY <1>3 DEF EntriesAreKnown, UpsertShard, Handling
  <2>2. [at |-> "shard", entry |-> e, total |-> tx[w].total, count |-> counter[shardOf[e]]] \in Tx
    BY <1>0, <2>1 DEF Tx, Stage
  <2> QED
    BY <1>3, <2>1, <2>2 DEF UpsertShard, Stages, Staging
<1>4. CASE FindFact(w)
  <2>1. e \in Entry
    BY <1>4 DEF EntriesAreKnown, FindFact, Handling
  <2>2. Stages(w, Working("answer", e))
    BY <1>4, <2>1, WorkingIsTx DEF FindFact, MovesTo, Stages, Staging, Stage, Keyed
  <2> QED
    BY <2>1, <2>2, WorkingIsTx DEF Stage
<1> QED
  BY <1>1, <1>2, <1>3, <1>4 DEF Handle

\* Every step commits, stages, or leaves transactions and tables alone.
LEMMA StepCases ==
  ASSUME TypeOK, EntriesAreKnown, [Next]_vars
  PROVE \/ \E w \in Worker : Commit(w)
        \/ \E w \in Worker, t \in Tx : Stages(w, t)
        \/ UNCHANGED <<tracked, log, rows, tx>>
<1> DEFINE Ends(w, t) == Goes(w, t) /\ UNCHANGED <<tracked, log, rows>>
<1>0. /\ Idle \in Tx /\ Idle.at = "idle"
      /\ \A at \in Stage, e \in Entry : Working(at, e) \in Tx /\ Working(at, e).at = at /\ Working(at, e).entry = e
  BY WorkingIsTx DEF Idle, Stage
<1>1. ASSUME NEW w \in Worker, NEW at \in Stage \ Keyed, NEW e \in Entry, Ends(w, Working(at, e))
      PROVE \E t \in Tx : Stages(w, t)
  BY <1>0, <1>1 DEF Stages, Staging
<1>2. ASSUME NEW w \in Worker, Ends(w, Idle) PROVE \E t \in Tx : Stages(w, t)
  BY <1>0, <1>2 DEF Stages, Staging, Keyed
<1>3. ASSUME NEW h \in Handler, NEW e \in Entry, Receive(h, e) PROVE Ends(h, Working("begin", e))
  BY <1>3 DEF Receive
<1>4. ASSUME Consume
      PROVE \E at \in {"dead", "begin"}, e \in Entry : Ends(Consumer, Working(at, e))
  <2>1. topic[committed + 1] \in Entry
    BY <1>4 DEF TypeOK, Consume
  <2> QED
    BY <1>4, <2>1 DEF Consume
<1>5. ASSUME BuryMessage PROVE tx[Consumer].entry \in Entry /\ Ends(Consumer, Working("answer", tx[Consumer].entry))
  BY <1>5 DEF BuryMessage, MovesTo, EntriesAreKnown, Handling, Worker
<1>6. ASSUME NEW w \in Worker, Abort(w) PROVE Ends(w, Idle)
  BY <1>6 DEF Abort
<1>7. ASSUME CommitOffset PROVE Ends(Consumer, Idle)
  BY <1>7 DEF CommitOffset
<1>8. ASSUME NEW h \in Handler, Answer(h) PROVE Ends(h, Idle)
  BY <1>8 DEF Answer
<1>9. ASSUME NEW e \in Entry, Publish(e) PROVE UNCHANGED <<tracked, log, rows, tx>>
  BY <1>9 DEF Publish
<1>10. ASSUME NEW r \in Reader, Read(r) PROVE UNCHANGED <<tracked, log, rows, tx>>
  BY <1>10 DEF Read, StartFill, FinishFill, Respond
<1>11. CASE UNCHANGED vars
  BY <1>11 DEF vars
<1>12. /\ {"dead", "begin", "answer"} \subseteq Stage \ Keyed
       /\ Consumer \in Worker /\ Handler \subseteq Worker
  BY DEF Stage, Keyed, Worker
<1> HIDE DEF Ends
<1> QED
  BY <1>1, <1>2, <1>3, <1>4, <1>5, <1>6, <1>7, <1>8, <1>9, <1>10, <1>11, <1>12, HandleCases
  DEF Next, Process, ConsumeStep

----------------------------------------------------------------------------
\* Types, with what they need of the events in hand: each is an announced entry, the consumer's the
\* one at its offset.

ConsumerReads ==
  ~Handling(Consumer, "idle") =>
    committed < Len(topic) /\ tx[Consumer].entry = topic[committed + 1]
BaseInv == TypeOK /\ EntriesAreKnown /\ ConsumerReads

LEMMA CommitEffect ==
  ASSUME TypeOK, EntriesAreKnown, NEW w \in Worker, Commit(w)
  PROVE LET e == tx[w].entry
        IN /\ e \in Entry /\ tx[w] \in Tx /\ Handling(w, "shard")
           /\ tx' \in [Worker -> Tx] /\ tx'[w] = Working("answer", e)
           /\ \A k \in Worker \ {w} : tx'[k] = tx[k]
<1>1. tx[w].entry \in Entry
  BY DEF Commit, EntriesAreKnown, Handling
<1>2. Working("answer", tx[w].entry) \in Tx
  BY <1>1, WorkingIsTx DEF Stage
<1> QED
  BY <1>1, <1>2, GoesEffect DEF TypeOK, Commit, MovesTo

LEMMA TxTyped ==
  ASSUME TypeOK, EntriesAreKnown, [Next]_vars
  PROVE tx' \in [Worker -> Tx] /\ EntriesAreKnown'
<1>1. ASSUME NEW w \in Worker, Commit(w) PROVE tx' \in [Worker -> Tx] /\ EntriesAreKnown'
  BY <1>1, CommitEffect, WorkingIsTx DEF EntriesAreKnown, Handling, Stage
<1>2. ASSUME NEW w \in Worker, NEW t \in Tx, Stages(w, t)
      PROVE tx' \in [Worker -> Tx] /\ EntriesAreKnown'
  BY <1>2, GoesEffect DEF TypeOK, EntriesAreKnown, Handling, Stages
<1>3. CASE UNCHANGED <<tracked, log, rows, tx>>
  BY <1>3 DEF TypeOK, EntriesAreKnown, Handling
<1> QED
  BY <1>1, <1>2, <1>3, StepCases

LEMMA TablesTyped ==
  ASSUME TypeOK, EntriesAreKnown, [Next]_vars
  PROVE /\ facts' \subseteq Entry /\ log' \subseteq Entry
        /\ ledger' \in [Grain -> Nat] /\ rows' \in [Grain -> Nat] /\ counter' \in [Shard -> Nat]
<1>1. ASSUME NEW w \in Worker, Commit(w)
      PROVE /\ facts' \subseteq Entry /\ log' \subseteq Entry
            /\ ledger' \in [Grain -> Nat] /\ rows' \in [Grain -> Nat] /\ counter' \in [Shard -> Nat]
  <2> DEFINE e == tx[w].entry
             g == grainOf[e]
  <2>1. e \in Entry /\ tx[w].total \in Nat /\ tx[w].count \in Nat
    BY <1>1, CommitEffect DEF Tx
  <2>2. g \in Grain /\ shardOf[e] \in Shard
    BY <2>1
  <2> DEFINE total == TotalAfter(g, tx[w].total)
             count == tx[w].count + 1
             s == shardOf[e]
  <2>3. ledger[g] \in Nat /\ rows[g] \in Nat
    BY <2>2 DEF TypeOK
  <2>4. total \in Nat
    BY <2>1, <2>3 DEF TotalAfter
  <2>5. RowsAfter(g) \in Nat
    BY <2>3 DEF RowsAfter
  <2>6. count \in Nat
    BY <2>1
  <2>7. /\ log' = log \cup {e} /\ facts' = facts \cup {e}
        /\ ledger' = [ledger EXCEPT ![g] = total]
        /\ rows' = [rows EXCEPT ![g] = RowsAfter(g)]
        /\ counter' = [counter EXCEPT ![s] = count]
    BY <1>1 DEF Commit
  <2> HIDE DEF e, g, s, total, count
  <2> QED
    BY <2>1, <2>2, <2>4, <2>5, <2>6, <2>7 DEF TypeOK
<1>2. CASE UNCHANGED <<tracked, log, rows>>
  BY <1>2 DEF TypeOK, tracked
<1> QED
  BY <1>1, <1>2, StepCases DEF Stages

LEMMA WalletTyped ==
  ASSUME TypeOK, [Next]_vars
  PROVE balance' \in [Entry -> Nat] /\ reading' \in [Reader -> Request]
<1>1. CASE UNCHANGED wallet
  BY <1>1 DEF TypeOK, wallet
<1>2. ASSUME NEW r \in Reader, StartFill(r) PROVE balance' \in [Entry -> Nat] /\ reading' \in [Reader -> Request]
  BY <1>2 DEF TypeOK, StartFill, Request
<1>3. ASSUME NEW r \in Reader, FinishFill(r) PROVE balance' \in [Entry -> Nat] /\ reading' \in [Reader -> Request]
  BY <1>3 DEF TypeOK, FinishFill, Request
<1>4. ASSUME NEW r \in Reader, Respond(r) PROVE balance' \in [Entry -> Nat] /\ reading' \in [Reader -> Request]
  BY <1>4 DEF TypeOK, Respond, Request, NoRequest
<1>5. (\E r \in Reader : Read(r)) \/ UNCHANGED wallet
  BY DEF Next, vars, Publish, Receive, Process, Handle, InsertLog, UpsertLedger, UpsertShard, Commit,
    FindFact, Answer, ConsumeStep, Consume, BuryMessage, CommitOffset, Abort
<1> QED
  BY <1>1, <1>2, <1>3, <1>4, <1>5 DEF Read

\* Only the consumer moves its offset, and only once it has handled the message there.
LEMMA InboxStep ==
  ASSUME BaseInv, [Next]_vars
  PROVE /\ topic' \in Seq(Entry) /\ committed' \in 0..Len(topic') /\ dlq' \subseteq Entry
        /\ ConsumerReads'
<1> DEFINE Kept == /\ topic' \in Seq(Entry) /\ committed' \in 0..Len(topic') /\ dlq' \subseteq Entry
                   /\ ConsumerReads'
<1> USE DEF BaseInv
<1>0. tx \in [Worker -> Tx] /\ topic \in Seq(Entry) /\ committed \in Nat /\ Consumer \in Worker
  BY DEF TypeOK, Worker
<1>1. ASSUME NEW e \in Entry, Publish(e) PROVE Kept
  <2>1. /\ topic' \in Seq(Entry) /\ Len(topic') = Len(topic) + 1
        /\ \A i \in 1..Len(topic) : topic'[i] = topic[i]
    BY <1>0, <1>1 DEF Publish
  <2>2. committed' = committed /\ tx' = tx /\ dlq' = dlq /\ dlq \subseteq Entry /\ committed <= Len(topic)
    BY <1>1 DEF TypeOK, Publish
  <2>3. ConsumerReads'
    BY <1>0, <2>1, <2>2 DEF ConsumerReads, Handling
  <2> QED
    BY <1>0, <2>1, <2>2, <2>3
<1>2. ASSUME Consume PROVE Kept
  <2> DEFINE at == IF topic[committed + 1] \in Malformed THEN "dead" ELSE "begin"
  <2>1. topic[committed + 1] \in Entry
    BY <1>0, <1>2 DEF Consume
  <2>2. tx'[Consumer].entry = topic[committed + 1]
    BY <1>0, <1>2, <2>1, GoesEffect, WorkingIsTx DEF Consume, Stage
  <2>3. QED
    <3>1. /\ committed < Len(topic) /\ topic' = topic /\ committed' = committed /\ dlq' = dlq
          /\ dlq \subseteq Entry
      BY <1>2 DEF Consume, inbox, TypeOK
    <3> HIDE DEF at
    <3>2. ConsumerReads'
      BY <2>2, <3>1 DEF ConsumerReads
    <3>3. committed' \in 0..Len(topic')
      BY <1>0, <3>1
    <3> QED
      BY <1>0, <3>1, <3>2, <3>3
<1>3. ASSUME BuryMessage PROVE Kept
  <2>1. tx[Consumer].entry \in Entry /\ ~Handling(Consumer, "idle")
    BY <1>0, <1>3 DEF BuryMessage, EntriesAreKnown, Handling
  <2>2. tx'[Consumer].entry = tx[Consumer].entry
    BY <1>0, <1>3, <2>1, GoesEffect, WorkingIsTx DEF BuryMessage, MovesTo, Stage
  <2> QED
    BY <1>3, <2>1, <2>2 DEF TypeOK, BuryMessage, ConsumerReads
<1>4. ASSUME NEW w \in Worker, NEW t \in Tx, UNCHANGED inbox, Goes(w, t),
        \/ w # Consumer
        \/ t.at = "idle"
        \/ ~Handling(w, "idle") /\ t.entry = tx[w].entry
      PROVE Kept
  BY <1>0, <1>4, GoesEffect DEF TypeOK, ConsumerReads, Handling, inbox
<1>5. ASSUME NEW w \in Worker, Handle(w) PROVE Kept
  <2>1. UNCHANGED inbox /\ ~Handling(w, "idle")
    BY <1>5 DEF Handle, InsertLog, UpsertLedger, UpsertShard, Commit, FindFact, Handling, inbox
  <2>2. tx[w].entry \in Entry /\ tx[w] \in Tx
    BY <1>0, <2>1 DEF EntriesAreKnown
  <2>3. \E t \in Tx : Goes(w, t) /\ t.entry = tx[w].entry
    <3> DEFINE e == tx[w].entry
    <3>1. \A at \in Stage : Working(at, e) \in Tx /\ Working(at, e).entry = e
      BY <2>2, WorkingIsTx
    <3>2. CASE InsertLog(w) \/ Commit(w) \/ FindFact(w)
      BY <3>1, <3>2 DEF InsertLog, Commit, FindFact, MovesTo, Stage
    <3>3. CASE UpsertLedger(w)
      BY <2>2, <3>3 DEF UpsertLedger, Tx, Stage, TypeOK
    <3>4. CASE UpsertShard(w)
      BY <2>2, <3>4 DEF UpsertShard, Tx, Stage, TypeOK
    <3> QED
      BY <1>5, <3>2, <3>3, <3>4 DEF Handle
  <2> QED
    BY <1>4, <2>1, <2>3
<1>6. Idle \in Tx /\ Idle.at = "idle"
  BY WorkingIsTx DEF Idle, Stage
<1>7. ASSUME CommitOffset PROVE Kept
  <2>1. ~Handling(Consumer, "idle")
    BY <1>7 DEF CommitOffset, Handling
  <2>2. tx'[Consumer].at = "idle"
    BY <1>0, <1>6, <1>7, GoesEffect DEF CommitOffset
  <2> QED
    BY <1>0, <1>7, <2>1, <2>2 DEF TypeOK, CommitOffset, ConsumerReads, Handling
<1>8. ASSUME NEW w \in Worker, Abort(w) PROVE Kept
  BY <1>4, <1>6, <1>8 DEF Abort
<1>9. ASSUME NEW h \in Handler, Answer(h) PROVE Kept
  BY <1>4, <1>6, <1>9 DEF Answer, Worker
<1>10. ASSUME NEW h \in Handler, NEW e \in Entry, Receive(h, e) PROVE Kept
  <2>1. Working("begin", e) \in Tx
    BY WorkingIsTx DEF Stage
  <2> QED
    BY <1>4, <1>10, <2>1 DEF Receive, Worker
<1>11. topic' = topic /\ committed' = committed /\ dlq' = dlq /\ tx' = tx => Kept
  BY DEF TypeOK, ConsumerReads, Handling
<1>12. ASSUME NEW r \in Reader, Read(r) PROVE Kept
  BY <1>11, <1>12 DEF Read, StartFill, FinishFill, Respond, inbox
<1>13. CASE UNCHANGED vars
  BY <1>11, <1>13 DEF vars, inbox
<1>14. Consumer \in Worker /\ Handler \subseteq Worker
  BY DEF Worker
<1>15. Next \/ UNCHANGED vars
  OBVIOUS
<1> HIDE DEF Kept, BaseInv
<1>16. ASSUME Next PROVE Kept
  <2>1. ASSUME NEW h \in Handler, Process(h) PROVE Kept
    BY <1>5, <1>9, <1>14, <2>1 DEF Process
  <2>2. ASSUME ConsumeStep PROVE Kept
    BY <1>2, <1>3, <1>5, <1>7, <1>14, <2>2 DEF ConsumeStep
  <2> QED
    BY <1>1, <1>8, <1>10, <1>12, <1>16, <2>1, <2>2 DEF Next
<1> QED
  BY <1>13, <1>15, <1>16 DEF Kept

LEMMA BaseStep == BaseInv /\ [Next]_vars => BaseInv'
<1> SUFFICES ASSUME BaseInv, [Next]_vars PROVE BaseInv'
  OBVIOUS
<1>1. TypeOK /\ EntriesAreKnown
  BY DEF BaseInv
<1>2. answered' \subseteq Entry /\ faults' \in 0..MaxFaults
  <2>1. ASSUME NEW h \in Handler, Answer(h) PROVE answered' \subseteq Entry /\ faults' = faults
    BY <1>1, <2>1 DEF Answer, TypeOK, EntriesAreKnown, Handling, Worker
  <2>2. ASSUME NEW w \in Worker, Abort(w) PROVE answered' = answered /\ faults' \in 0..MaxFaults
    BY <1>1, <2>2 DEF Abort, TypeOK
  <2>3. \/ \E h \in Handler : Answer(h)
        \/ \E w \in Worker : Abort(w)
        \/ UNCHANGED <<answered, faults>>
    BY DEF Next, vars, Publish, Receive, Process, Handle, InsertLog, UpsertLedger, UpsertShard, Commit,
      FindFact, ConsumeStep, Consume, BuryMessage, CommitOffset, Read, StartFill, FinishFill, Respond
  <2> QED
    BY <1>1, <2>1, <2>2, <2>3 DEF TypeOK
<1> QED
  BY <1>1, <1>2, TxTyped, TablesTyped, WalletTyped, InboxStep DEF BaseInv, TypeOK

LEMMA BaseInit == TrackingInit => BaseInv
<1> SUFFICES ASSUME TrackingInit PROVE BaseInv
  OBVIOUS
<1>1. Idle \in Tx /\ Idle.at = "idle"
  BY WorkingIsTx DEF Idle, Stage
<1>2. NoRequest \in Request
  BY DEF NoRequest, Request
<1> QED
  BY <1>1, <1>2 DEF TrackingInit, Untracked, BaseInv, TypeOK, EntriesAreKnown, ConsumerReads, Handling, Worker

\* The tables, transactions and offsets of RewardTracking stay of their types.
THEOREM TypeCorrect == Spec => []TypeOK
<1>1. BaseInv => TypeOK
  BY DEF BaseInv
<1> QED
  BY <1>1, BaseInit, BaseStep, PTL DEF Spec

----------------------------------------------------------------------------
\* What an open transaction holds. Its key is new and no other's; the typed ledger row it upserted
\* and the shard it upserted are no other's, and still what it read.

KeyHeld(w) ==
  tx[w].at \in Keyed =>
    /\ tx[w].entry \notin facts
    /\ \A k \in Worker \ {w} : tx[k].at \in Keyed => tx[k].entry # tx[w].entry
GrainHeld(w) ==
  tx[w].at \in Upserted /\ grainOf[tx[w].entry] \in Typed =>
    /\ tx[w].total = ledger[grainOf[tx[w].entry]]
    /\ \A k \in Worker \ {w} :
         tx[k].at \in Upserted => grainOf[tx[k].entry] # grainOf[tx[w].entry]
ShardHeld(w) ==
  tx[w].at = "shard" =>
    /\ tx[w].count = counter[shardOf[tx[w].entry]]
    /\ \A k \in Worker \ {w} :
         tx[k].at = "shard" => shardOf[tx[k].entry] # shardOf[tx[w].entry]
Held == \A w \in Worker : KeyHeld(w) /\ GrainHeld(w) /\ ShardHeld(w)
TrackInv == BaseInv /\ log = facts /\ IsFiniteSet(facts) /\ Held /\ TotalsMatchFacts

LEMMA StageKeepsHeld ==
  ASSUME TrackInv, NEW w \in Worker, NEW t \in Tx, Stages(w, t)
  PROVE Held'
<1>1. /\ tx'[w] = t /\ \A k \in Worker \ {w} : tx'[k] = tx[k]
      /\ facts' = facts /\ ledger' = ledger /\ counter' = counter
  BY GoesEffect DEF TrackInv, BaseInv, TypeOK, Stages, tracked
<1>2. Held /\ log = facts
  BY DEF TrackInv
<1>3. CASE t.at \notin Keyed
  BY <1>1, <1>2, <1>3 DEF Held, KeyHeld, GrainHeld, ShardHeld, Keyed, Upserted
<1>4. CASE /\ Handling(w, "begin") /\ LogFree(w) /\ tx[w].entry \notin log
           /\ t = Working("logged", tx[w].entry)
  <2>1. t.at = "logged" /\ t.entry = tx[w].entry
    BY <1>4 DEF Working
  <2>2. \A k \in Worker \ {w} : tx[k].at \in Keyed => tx[k].entry # t.entry
    BY <1>4, <2>1 DEF LogFree, Others, Keyed
  <2>3. \A k \in Worker : KeyHeld(k)'
    BY <1>1, <1>2, <1>4, <2>1, <2>2 DEF Held, KeyHeld
  <2>4. \A k \in Worker : GrainHeld(k)' /\ ShardHeld(k)'
    BY <1>1, <1>2, <2>1 DEF Held, GrainHeld, ShardHeld, Upserted
  <2> QED
    BY <2>3, <2>4 DEF Held
<1>5. CASE /\ Handling(w, "logged") /\ LedgerFree(w)
           /\ t = [at |-> "ledger", entry |-> tx[w].entry,
                   total |-> ledger[grainOf[tx[w].entry]], count |-> 0]
  <2>1. t.at = "ledger" /\ t.entry = tx[w].entry /\ t.total = ledger[grainOf[tx[w].entry]]
    BY <1>5
  <2>2. grainOf[t.entry] \in Typed =>
          \A k \in Worker \ {w} : tx[k].at \in Upserted => grainOf[tx[k].entry] # grainOf[t.entry]
    BY <1>5, <2>1 DEF LedgerFree, Others, Upserted
  <2>3. \A k \in Worker : KeyHeld(k)'
    BY <1>1, <1>2, <1>5, <2>1 DEF Held, KeyHeld, Handling, Keyed
  <2>4. \A k \in Worker : GrainHeld(k)'
    BY <1>1, <1>2, <2>1, <2>2 DEF Held, GrainHeld
  <2>5. \A k \in Worker : ShardHeld(k)'
    BY <1>1, <1>2, <2>1 DEF Held, ShardHeld
  <2> QED
    BY <2>3, <2>4, <2>5 DEF Held
<1>6. CASE /\ Handling(w, "ledger") /\ ShardFree(w)
           /\ t = [at |-> "shard", entry |-> tx[w].entry, total |-> tx[w].total,
                   count |-> counter[shardOf[tx[w].entry]]]
  <2>1. t.at = "shard" /\ t.entry = tx[w].entry /\ t.total = tx[w].total
        /\ t.count = counter[shardOf[tx[w].entry]]
    BY <1>6
  <2>2. \A k \in Worker \ {w} : tx[k].at = "shard" => shardOf[tx[k].entry] # shardOf[t.entry]
    BY <1>6, <2>1 DEF ShardFree, Others
  <2>3. \A k \in Worker : KeyHeld(k)'
    BY <1>1, <1>2, <1>6, <2>1 DEF Held, KeyHeld, Handling, Keyed
  <2>4. \A k \in Worker : GrainHeld(k)'
    BY <1>1, <1>2, <1>6, <2>1 DEF Held, GrainHeld, Handling, Upserted
  <2>5. \A k \in Worker : ShardHeld(k)'
    BY <1>1, <1>2, <2>1, <2>2 DEF Held, ShardHeld
  <2> QED
    BY <2>3, <2>4, <2>5 DEF Held
<1> QED
  BY <1>3, <1>4, <1>5, <1>6 DEF Stages, Staging

\* A commit adds one fact, and one to each row it holds.
LEMMA CommitIsTrack ==
  ASSUME TrackInv, NEW w \in Worker, Commit(w)
  PROVE TrackNew(tx[w].entry) /\ log' = facts'
<1> DEFINE e == tx[w].entry
           g == grainOf[e]
<1>1. /\ e \in Entry /\ Handling(w, "shard") /\ KeyHeld(w) /\ GrainHeld(w) /\ ShardHeld(w) /\ log = facts
      /\ ledger \in [Grain -> Nat] /\ counter \in [Shard -> Nat]
  BY CommitEffect DEF TrackInv, BaseInv, Held, TypeOK
<1>2. g \in Grain /\ shardOf[e] \in Shard
  BY <1>1
<1>3. e \notin facts /\ tx[w].count = counter[shardOf[e]] /\ (g \in Typed => tx[w].total = ledger[g])
  BY <1>1 DEF KeyHeld, GrainHeld, ShardHeld, Handling, Keyed, Upserted
<1>4. TotalAfter(g, tx[w].total) = ledger[g] + 1
  BY <1>3 DEF TotalAfter
<1>5. /\ log' = log \cup {e} /\ facts' = facts \cup {e}
      /\ ledger' = [ledger EXCEPT ![g] = ledger[g] + 1]
      /\ counter' = [counter EXCEPT ![shardOf[e]] = counter[shardOf[e]] + 1]
  BY <1>3, <1>4 DEF Commit
<1> QED
  BY <1>1, <1>3, <1>5 DEF TrackNew

LEMMA CommitKeepsHeld ==
  ASSUME TrackInv, NEW w \in Worker, Commit(w)
  PROVE Held'
<1> DEFINE e == tx[w].entry
           g == grainOf[e]
<1>1. /\ e \in Entry /\ tx[w].at = "shard" /\ Held
      /\ ledger \in [Grain -> Nat] /\ counter \in [Shard -> Nat] /\ tx \in [Worker -> Tx]
      /\ tx'[w] = Working("answer", e) /\ \A k \in Worker \ {w} : tx'[k] = tx[k]
  BY CommitEffect DEF TrackInv, BaseInv, TypeOK, Handling
<1>2. tx'[w].at = "answer"
  BY <1>1 DEF Working
<1>3. /\ facts' = facts \cup {e}
      /\ \A x \in Grain : x # g => ledger'[x] = ledger[x]
      /\ \A x \in Shard : x # shardOf[e] => counter'[x] = counter[x]
  BY <1>1, CommitIsTrack DEF TrackNew
<1>4. \A k \in Worker \ {w} : tx[k].at \in Keyed => tx[k].entry \in Entry /\ tx[k].entry # e
  BY <1>1 DEF Held, KeyHeld, Keyed, TrackInv, BaseInv, EntriesAreKnown, Handling
<1>5. ASSUME NEW k \in Worker PROVE KeyHeld(k)'
  BY <1>1, <1>2, <1>3, <1>4 DEF Held, KeyHeld, Keyed
<1>6. ASSUME NEW k \in Worker PROVE GrainHeld(k)'
  <2>1. CASE k = w
    BY <1>2, <2>1 DEF GrainHeld, Upserted
  <2>2. CASE k # w /\ tx[k].at \in Upserted /\ grainOf[tx[k].entry] \in Typed
    <3>1. tx[k].entry \in Entry /\ grainOf[tx[k].entry] # g
      BY <1>1, <1>4, <2>2 DEF Held, GrainHeld, Keyed, Upserted
    <3>2. ledger'[grainOf[tx[k].entry]] = ledger[grainOf[tx[k].entry]]
      BY <1>3, <3>1
    <3> QED
      BY <1>1, <1>2, <2>2, <3>2 DEF Held, GrainHeld, Upserted
  <2>3. CASE k # w /\ ~(tx[k].at \in Upserted /\ grainOf[tx[k].entry] \in Typed)
    BY <1>1, <2>3 DEF GrainHeld
  <2> QED
    BY <2>1, <2>2, <2>3
<1>7. ASSUME NEW k \in Worker PROVE ShardHeld(k)'
  <2>1. CASE k = w
    BY <1>2, <2>1 DEF ShardHeld
  <2>2. CASE k # w /\ tx[k].at = "shard"
    <3>1. tx[k].entry \in Entry /\ shardOf[tx[k].entry] # shardOf[e]
      BY <1>1, <1>4, <2>2 DEF Held, ShardHeld, Keyed
    <3>2. counter'[shardOf[tx[k].entry]] = counter[shardOf[tx[k].entry]]
      BY <1>3, <3>1
    <3> QED
      BY <1>1, <1>2, <2>2, <3>2 DEF Held, ShardHeld
  <2>3. CASE k # w /\ tx[k].at # "shard"
    BY <1>1, <2>3 DEF ShardHeld
  <2> QED
    BY <2>1, <2>2, <2>3
<1> QED
  BY <1>5, <1>6, <1>7 DEF Held

LEMMA CommitKeepsTotals ==
  ASSUME TrackInv, NEW w \in Worker, Commit(w)
  PROVE IsFiniteSet(facts)' /\ TotalsMatchFacts'
<1> DEFINE e == tx[w].entry
           g == grainOf[e]
           s == shardOf[e]
<1>1. /\ e \in Entry /\ g \in Grain /\ s \in Shard
      /\ IsFiniteSet(facts) /\ TotalsMatchFacts
      /\ ledger \in [Grain -> Nat] /\ rows \in [Grain -> Nat] /\ counter \in [Shard -> Nat]
  BY CommitEffect DEF TrackInv, BaseInv, TypeOK
<1>2. /\ e \notin facts /\ facts' = facts \cup {e}
      /\ ledger' = [ledger EXCEPT ![g] = ledger[g] + 1]
      /\ counter' = [counter EXCEPT ![s] = counter[s] + 1]
  BY CommitIsTrack DEF TrackNew
<1>3. rows' = [rows EXCEPT ![g] = RowsAfter(g)]
  BY DEF Commit
<1>4. IsFiniteSet(facts')
  BY <1>1, <1>2, FS_AddElement
<1>5. ASSUME NEW x \in Grain PROVE ledger'[x] = Cardinality(OfGrain(x)')
  <2>1. IsFiniteSet(OfGrain(x)) /\ e \notin OfGrain(x)
    BY <1>1, <1>2, FS_Subset DEF OfGrain
  <2>2. CASE x = g
    <3>1. OfGrain(x)' = OfGrain(x) \cup {e}
      BY <1>2, <2>2 DEF OfGrain
    <3>2. Cardinality(OfGrain(x)') = Cardinality(OfGrain(x)) + 1
      BY <2>1, <3>1, FS_AddElement
    <3>3. ledger'[x] = ledger[x] + 1 /\ ledger[x] = Cardinality(OfGrain(x))
      BY <1>1, <1>2, <2>2 DEF TotalsMatchFacts
    <3> QED
      BY <3>2, <3>3
  <2>3. CASE x # g
    <3>1. OfGrain(x)' = OfGrain(x)
      BY <1>2, <2>3 DEF OfGrain
    <3> QED
      BY <1>1, <1>2, <2>3, <3>1 DEF TotalsMatchFacts
  <2> QED
    BY <2>2, <2>3
<1>6. ASSUME NEW x \in Shard PROVE counter'[x] = Cardinality(OfShard(x)')
  <2>1. IsFiniteSet(OfShard(x)) /\ e \notin OfShard(x)
    BY <1>1, <1>2, FS_Subset DEF OfShard
  <2>2. CASE x = s
    <3>1. OfShard(x)' = OfShard(x) \cup {e}
      BY <1>2, <2>2 DEF OfShard
    <3>2. Cardinality(OfShard(x)') = Cardinality(OfShard(x)) + 1
      BY <2>1, <3>1, FS_AddElement
    <3>3. counter'[x] = counter[x] + 1 /\ counter[x] = Cardinality(OfShard(x))
      BY <1>1, <1>2, <2>2 DEF TotalsMatchFacts
    <3> QED
      BY <3>2, <3>3
  <2>3. CASE x # s
    <3>1. OfShard(x)' = OfShard(x)
      BY <1>2, <2>3 DEF OfShard
    <3> QED
      BY <1>1, <1>2, <2>3, <3>1 DEF TotalsMatchFacts
  <2> QED
    BY <2>2, <2>3
<1>7. ASSUME NEW x \in Grain \ Typed PROVE rows'[x] = ledger'[x]
  BY <1>1, <1>2, <1>3 DEF TotalsMatchFacts, RowsAfter
<1> QED
  BY <1>4, <1>5, <1>6, <1>7 DEF TotalsMatchFacts

LEMMA TrackStep == TrackInv /\ [Next]_vars => TrackInv'
<1> SUFFICES ASSUME TrackInv, [Next]_vars PROVE TrackInv'
  OBVIOUS
<1>1. BaseInv'
  BY BaseStep DEF TrackInv
<1>2. ASSUME NEW w \in Worker, Commit(w) PROVE TrackInv'
  BY <1>1, <1>2, CommitIsTrack, CommitKeepsHeld, CommitKeepsTotals DEF TrackInv
<1>3. facts' = facts /\ ledger' = ledger /\ counter' = counter /\ rows' = rows =>
        TotalsMatchFacts' /\ IsFiniteSet(facts)'
  BY DEF TrackInv, TotalsMatchFacts, OfGrain, OfShard
<1>4. ASSUME NEW w \in Worker, NEW t \in Tx, Stages(w, t) PROVE TrackInv'
  BY <1>1, <1>3, <1>4, StageKeepsHeld DEF TrackInv, Stages, tracked
<1>5. CASE UNCHANGED <<tracked, log, rows, tx>>
  BY <1>1, <1>3, <1>5 DEF TrackInv, Held, KeyHeld, GrainHeld, ShardHeld, tracked
<1> QED
  BY <1>2, <1>4, <1>5, StepCases DEF TrackInv, BaseInv

LEMMA TrackInit == TrackingInit => TrackInv
<1> SUFFICES ASSUME TrackingInit PROVE TrackInv
  OBVIOUS
<1>1. facts = {} /\ IsFiniteSet(facts) /\ log = {}
  BY FS_EmptySet DEF TrackingInit, Untracked
<1>2. TotalsMatchFacts
  <2>1. \A g \in Grain : OfGrain(g) = {}
    BY <1>1 DEF OfGrain
  <2>2. \A s \in Shard : OfShard(s) = {}
    BY <1>1 DEF OfShard
  <2> QED
    BY <2>1, <2>2, FS_EmptySet DEF TotalsMatchFacts, TrackingInit, Untracked
<1>3. \A w \in Worker : tx[w].at = "idle"
  BY DEF TrackingInit, Idle, Working
<1> QED
  BY <1>1, <1>2, <1>3, BaseInit DEF TrackInv, Held, KeyHeld, GrainHeld, ShardHeld, Keyed, Upserted

\* The ledger, its rows and the counter shards count every tracked reward once, for any number of
\* handlers, entries and grains.
THEOREM TotalsAreRight == Spec => []TotalsMatchFacts
<1>1. TrackInv => TotalsMatchFacts
  BY DEF TrackInv
<1> QED
  BY <1>1, TrackInit, TrackStep, PTL DEF Spec

\* Four interleaved writes under row locks implement tracking in one step.
THEOREM TrackingIsAtomic == Spec => ImplementsTracked
<1>1. TrackingInit => Abstract!Untracked
  BY DEF TrackingInit, Untracked, Abstract!Untracked
<1>2. TrackInv /\ [Next]_vars => [\E e \in Entry : Abstract!TrackNew(e)]_Abstract!tracked
  <2> SUFFICES ASSUME TrackInv, [Next]_vars
               PROVE (\E e \in Entry : Abstract!TrackNew(e)) \/ UNCHANGED Abstract!tracked
    OBVIOUS
  <2>1. ASSUME NEW w \in Worker, Commit(w) PROVE \E e \in Entry : Abstract!TrackNew(e)
    <3>1. tx[w].entry \in Entry
      BY <2>1, CommitEffect DEF TrackInv, BaseInv
    <3> QED
      BY <2>1, <3>1, CommitIsTrack DEF TrackNew, Abstract!TrackNew
  <2>2. CASE UNCHANGED tracked
    BY <2>2 DEF tracked, Abstract!tracked
  <2> QED
    BY <2>1, <2>2, StepCases DEF TrackInv, BaseInv, Stages
<1> QED
  BY <1>1, <1>2, TrackInit, TrackStep, PTL DEF Spec, ImplementsTracked, Abstract!TrackedSpec

----------------------------------------------------------------------------
\* What may be told: a worker that is about to answer has a fact, or buried its message.

Tellable(w, t, tracks, buried) ==
  /\ t.at = "duplicate" => t.entry \in tracks
  /\ t.at = "answer" => t.entry \in tracks \/ (w = Consumer /\ t.entry \in buried)
  /\ t.at = "dead" => w = Consumer
Told == \A w \in Worker : Tellable(w, tx[w], facts, dlq)
TellInv == TrackInv /\ Told /\ DeliveredIsTracked

LEMMA FactsGrow ==
  ASSUME TrackInv, [Next]_vars
  PROVE facts \subseteq facts' /\ dlq \subseteq dlq'
<1>1. facts \subseteq facts'
  BY StepCases, CommitIsTrack DEF TrackInv, BaseInv, Stages, tracked, TrackNew
<1>2. dlq \subseteq dlq'
  <2>1. BuryMessage \/ dlq' = dlq
    BY DEF Next, vars, inbox, Publish, Receive, Process, Handle, InsertLog, UpsertLedger, UpsertShard,
      Commit, FindFact, Answer, ConsumeStep, Consume, BuryMessage, CommitOffset, Abort, Read,
      StartFill, FinishFill, Respond
  <2> QED
    BY <2>1 DEF BuryMessage
<1> QED
  BY <1>1, <1>2

LEMMA ToldStep ==
  ASSUME TellInv, [Next]_vars
  PROVE Told'
<1>0. /\ TypeOK /\ EntriesAreKnown /\ Told /\ log = facts
      /\ tx \in [Worker -> Tx] /\ facts \subseteq facts' /\ dlq \subseteq dlq'
      /\ Consumer \in Worker /\ Handler \subseteq Worker
  BY FactsGrow DEF TellInv, TrackInv, BaseInv, TypeOK, Worker
<1>1. ASSUME NEW w \in Worker, NEW t \in Tx, Goes(w, t), Tellable(w, t, facts', dlq') PROVE Told'
  BY <1>0, <1>1, GoesEffect DEF Told, Tellable
<1>2. \A at \in Stage, e \in Entry :
        Working(at, e) \in Tx /\ Working(at, e).at = at /\ Working(at, e).entry = e
  BY WorkingIsTx
<1>21. ASSUME NEW w \in Worker, NEW at \in {"begin", "logged"}, NEW e \in Entry, Goes(w, Working(at, e))
       PROVE Told'
  <2>1. at \in Stage /\ at \notin {"duplicate", "answer", "dead"}
    BY DEF Stage
  <2> QED
    BY <1>1, <1>2, <1>21, <2>1 DEF Tellable
<1>22. ASSUME NEW w \in Worker, NEW at \in {"duplicate", "answer"}, NEW e \in Entry,
              Goes(w, Working(at, e)), e \in facts'
       PROVE Told'
  <2>1. at \in Stage
    BY DEF Stage
  <2> QED
    BY <1>1, <1>2, <1>22, <2>1 DEF Tellable
<1>23. ASSUME NEW e \in Entry, Goes(Consumer, Working("dead", e)) PROVE Told'
  <2>1. "dead" \in Stage
    BY DEF Stage
  <2> QED
    BY <1>0, <1>1, <1>2, <1>23, <2>1 DEF Tellable
<1>24. ASSUME NEW e \in Entry, e \in dlq', Goes(Consumer, Working("answer", e)) PROVE Told'
  <2>1. "answer" \in Stage
    BY DEF Stage
  <2> QED
    BY <1>0, <1>1, <1>2, <1>24, <2>1 DEF Tellable
<1>3. ASSUME NEW w \in Worker, Goes(w, Idle) PROVE Told'
  <2>1. Idle \in Tx /\ Idle.at = "idle"
    BY WorkingIsTx DEF Idle, Stage
  <2> QED
    BY <1>1, <1>3, <2>1 DEF Tellable
<1>4. CASE UNCHANGED tx
  BY <1>0, <1>4 DEF Told, Tellable
<1>5. ASSUME NEW w \in Worker, Handle(w) PROVE Told'
  <2> DEFINE e == tx[w].entry
  <2>1. e \in Entry /\ tx[w] \in Tx
    BY <1>0, <1>5 DEF Handle, InsertLog, UpsertLedger, UpsertShard, Commit, FindFact, Handling, EntriesAreKnown
  <2>2. CASE InsertLog(w)
    <3>1. CASE e \in log
      <4>1. Goes(w, Working("duplicate", e)) /\ e \in facts'
        BY <1>0, <2>2, <3>1 DEF InsertLog, MovesTo
      <4> QED
        BY <1>22, <2>1, <4>1
    <3>2. CASE e \notin log
      <4>1. Goes(w, Working("logged", e))
        BY <2>2, <3>2 DEF InsertLog, MovesTo
      <4> QED
        BY <1>21, <2>1, <4>1
    <3> QED
      BY <3>1, <3>2
  <2>3. CASE UpsertLedger(w)
    <3> DEFINE t == [at |-> "ledger", entry |-> e, total |-> ledger[grainOf[e]], count |-> 0]
    <3>1. t \in Tx /\ t.at = "ledger"
      BY <1>0, <2>1 DEF Tx, Stage, TypeOK
    <3>2. Goes(w, t)
      BY <2>3 DEF UpsertLedger
    <3> QED
      BY <1>1, <3>1, <3>2 DEF Tellable
  <2>4. CASE UpsertShard(w)
    <3> DEFINE t == [at |-> "shard", entry |-> e, total |-> tx[w].total, count |-> counter[shardOf[e]]]
    <3>1. t \in Tx /\ t.at = "shard"
      BY <1>0, <2>1 DEF Tx, Stage, TypeOK
    <3>2. Goes(w, t)
      BY <2>4 DEF UpsertShard
    <3> QED
      BY <1>1, <3>1, <3>2 DEF Tellable
  <2>5. CASE Commit(w)
    <3>1. e \in facts' /\ Goes(w, Working("answer", e))
      BY <2>5 DEF Commit, MovesTo
    <3> QED
      BY <1>22, <2>1, <3>1
  <2>6. CASE FindFact(w)
    <3>1. e \in facts' /\ Goes(w, Working("answer", e))
      BY <1>0, <2>6 DEF FindFact, MovesTo
    <3> QED
      BY <1>22, <2>1, <3>1
  <2> QED
    BY <1>5, <2>2, <2>3, <2>4, <2>5, <2>6 DEF Handle
<1>6. CASE BuryMessage
  <2>1. tx[Consumer].entry \in Entry /\ tx[Consumer].entry \in dlq'
    BY <1>0, <1>6 DEF BuryMessage, EntriesAreKnown, Handling
  <2>2. Goes(Consumer, Working("answer", tx[Consumer].entry))
    BY <1>6 DEF BuryMessage, MovesTo
  <2> QED
    BY <1>24, <2>1, <2>2
<1>7. CASE Consume
  <2>1. topic[committed + 1] \in Entry
    BY <1>0, <1>7 DEF TypeOK, Consume
  <2>2. PICK at \in {"dead", "begin"} : Goes(Consumer, Working(at, topic[committed + 1]))
    BY <1>7 DEF Consume
  <2> QED
    BY <1>0, <1>21, <1>23, <2>1, <2>2
<1>8. ASSUME NEW h \in Handler, NEW e \in Entry, Receive(h, e) PROVE Told'
  BY <1>0, <1>8, <1>21 DEF Receive
<1>9. ASSUME NEW h \in Handler, Answer(h) PROVE Told'
  BY <1>0, <1>3, <1>9 DEF Answer
<1>10. CASE CommitOffset
  BY <1>0, <1>3, <1>10 DEF CommitOffset
<1>11. ASSUME NEW w \in Worker, Abort(w) PROVE Told'
  BY <1>3, <1>11 DEF Abort
<1>12. ASSUME NEW e \in Entry, Publish(e) PROVE Told'
  BY <1>4, <1>12 DEF Publish
<1>13. ASSUME NEW r \in Reader, Read(r) PROVE Told'
  BY <1>4, <1>13 DEF Read, StartFill, FinishFill, Respond
<1>14. ASSUME UNCHANGED vars PROVE Told'
  BY <1>4, <1>14 DEF vars
<1>15. ASSUME NEW h \in Handler, Process(h) PROVE Told'
  BY <1>0, <1>5, <1>9, <1>15 DEF Process
<1>16. ASSUME ConsumeStep PROVE Told'
  BY <1>0, <1>5, <1>6, <1>7, <1>10, <1>16 DEF ConsumeStep
<1>17. ASSUME Next PROVE Told'
  BY <1>8, <1>11, <1>12, <1>13, <1>15, <1>16, <1>17 DEF Next
<1> QED
  BY <1>14, <1>17

LEMMA DeliveredStep ==
  ASSUME TellInv, [Next]_vars
  PROVE DeliveredIsTracked'
<1>0. /\ TypeOK /\ EntriesAreKnown /\ Told /\ DeliveredIsTracked /\ ConsumerReads
      /\ facts \subseteq facts' /\ dlq \subseteq dlq' /\ topic \in Seq(Entry) /\ committed \in 0..Len(topic)
      /\ Consumer \in Worker /\ Handler \subseteq Worker /\ Consumer \notin Handler
  BY FactsGrow DEF TellInv, TrackInv, BaseInv, TypeOK, Worker
<1>1. answered' \subseteq facts'
  <2>1. ASSUME NEW h \in Handler, Answer(h) PROVE answered' \subseteq facts'
    BY <1>0, <2>1 DEF Answer, Told, Tellable, DeliveredIsTracked, Handling
  <2>2. (\E h \in Handler : Answer(h)) \/ answered' = answered
    BY DEF Next, vars, Publish, Receive, Process, Handle, InsertLog, UpsertLedger, UpsertShard,
      Commit, FindFact, ConsumeStep, Consume, BuryMessage, CommitOffset, Abort, Read,
      StartFill, FinishFill, Respond
  <2> QED
    BY <1>0, <2>1, <2>2 DEF DeliveredIsTracked
<1>2. \A i \in 1..committed' : topic'[i] \in facts' \cup dlq'
  <2>1. ASSUME CommitOffset PROVE \A i \in 1..committed' : topic'[i] \in facts' \cup dlq'
    <3>1. topic[committed + 1] \in facts \cup dlq
      BY <1>0, <2>1 DEF CommitOffset, ConsumerReads, Told, Tellable, Handling
    <3>2. topic' = topic /\ committed' = committed + 1
      BY <2>1 DEF CommitOffset
    <3> QED
      BY <1>0, <3>1, <3>2 DEF DeliveredIsTracked
  <2>2. ASSUME NEW e \in Entry, Publish(e) PROVE \A i \in 1..committed' : topic'[i] \in facts' \cup dlq'
    <3>1. committed' = committed /\ \A i \in 1..Len(topic) : topic'[i] = topic[i]
      BY <1>0, <2>2 DEF Publish
    <3> QED
      BY <1>0, <3>1 DEF DeliveredIsTracked
  <2>3. CommitOffset \/ (\E e \in Entry : Publish(e)) \/ (topic' = topic /\ committed' = committed)
    BY DEF Next, vars, inbox, Receive, Process, Handle, InsertLog, UpsertLedger, UpsertShard,
      Commit, FindFact, Answer, ConsumeStep, Consume, BuryMessage, Abort, Read,
      StartFill, FinishFill, Respond
  <2> QED
    BY <1>0, <2>1, <2>2, <2>3 DEF DeliveredIsTracked
<1>3. \A w \in Worker : Handling(w, "duplicate")' => tx'[w].entry \in facts'
  BY ToldStep DEF Told, Tellable, Handling
<1> QED
  BY <1>1, <1>2, <1>3 DEF DeliveredIsTracked

LEMMA TellInit == TrackingInit => TellInv
<1> SUFFICES ASSUME TrackingInit PROVE TellInv
  OBVIOUS
<1>1. \A w \in Worker : tx[w].at = "idle"
  BY DEF TrackingInit, Idle, Working
<1>2. answered = {} /\ committed = 0
  BY DEF TrackingInit
<1> QED
  BY <1>1, <1>2, TrackInit DEF TellInv, Told, Tellable, DeliveredIsTracked, Handling

\* No answer and no offset overtakes the transaction it stands for, and a duplicate always finds
\* its fact.
THEOREM DeliveriesAreTracked == Spec => []DeliveredIsTracked
<1>1. TellInv /\ [Next]_vars => TellInv'
  BY TrackStep, ToldStep, DeliveredStep DEF TellInv
<1>2. TellInv => DeliveredIsTracked
  BY DEF TellInv
<1> QED
  BY <1>1, <1>2, TellInit, PTL DEF Spec

----------------------------------------------------------------------------
\* The wallet view: what was due has a row, or is about to be given one by the same request.

Filling ==
  \A r \in Reader :
    reading[r].at = "filling" =>
      \A e \in reading[r].due : e \in Entry /\ (e \in reading[r].missing \/ balance[e] > 0)
ShownInv == TellInv /\ Filling /\ AnsweredIsShown

LEMMA ShownStep ==
  ASSUME ShownInv, [Next]_vars
  PROVE Filling' /\ AnsweredIsShown'
<1>0. /\ Filling /\ AnsweredIsShown /\ answered \subseteq facts /\ facts \subseteq Entry
      /\ balance \in [Entry -> Nat] /\ reading \in [Reader -> Request]
  BY DEF ShownInv, TellInv, TrackInv, BaseInv, TypeOK, DeliveredIsTracked
<1>1. ASSUME NEW r \in Reader, StartFill(r) PROVE Filling' /\ AnsweredIsShown'
  <2>1. /\ balance' = balance /\ reading'[r].at = "filling" /\ reading'[r].due = answered \cap Expiring
        /\ reading'[r].missing = {e \in facts \cap Expiring : balance[e] = 0}
        /\ \A k \in Reader \ {r} : reading'[k] = reading[k]
    BY <1>0, <1>1 DEF StartFill
  <2>2. \A e \in answered \cap Expiring :
          e \in Entry /\ (e \in {x \in facts \cap Expiring : balance[x] = 0} \/ balance[e] > 0)
    BY <1>0
  <2> QED
    BY <1>0, <2>1, <2>2 DEF Filling, AnsweredIsShown
<1>2. ASSUME NEW r \in Reader, FinishFill(r) PROVE Filling' /\ AnsweredIsShown'
  <2>1. /\ reading[r].at = "filling"
        /\ \A e \in Entry : balance'[e] = IF e \in reading[r].missing THEN balance[e] + 1 ELSE balance[e]
        /\ reading'[r].at = "reading" /\ reading'[r].due = reading[r].due
        /\ \A k \in Reader \ {r} : reading'[k] = reading[k]
    BY <1>0, <1>2 DEF FinishFill
  <2>2. \A e \in Entry : balance[e] > 0 \/ e \in reading[r].missing => balance'[e] > 0
    BY <1>0, <2>1
  <2>3. \A k \in Reader : reading[k].due \subseteq Entry
    BY <1>0 DEF Request
  <2> QED
    BY <1>0, <2>1, <2>2, <2>3 DEF Filling, AnsweredIsShown
<1>3. ASSUME NEW r \in Reader, Respond(r) PROVE Filling' /\ AnsweredIsShown'
  <2>1. /\ balance' = balance /\ reading'[r].at = "idle"
        /\ \A k \in Reader \ {r} : reading'[k] = reading[k]
    BY <1>0, <1>3 DEF Respond, NoRequest
  <2> QED
    BY <1>0, <2>1 DEF Filling, AnsweredIsShown
<1>4. ASSUME UNCHANGED wallet PROVE Filling' /\ AnsweredIsShown'
  BY <1>0, <1>4 DEF wallet, Filling, AnsweredIsShown
<1>5. (\E r \in Reader : Read(r)) \/ UNCHANGED wallet
  BY DEF Next, vars, Publish, Receive, Process, Handle, InsertLog, UpsertLedger, UpsertShard, Commit,
    FindFact, Answer, ConsumeStep, Consume, BuryMessage, CommitOffset, Abort
<1> QED
  BY <1>1, <1>2, <1>3, <1>4, <1>5 DEF Read

\* A delivery that was answered is shown to whoever asks after that, whatever is ingested meanwhile.
THEOREM ReadsFollowAnswers == Spec => []AnsweredIsShown
<1>1. TrackingInit => ShownInv
  BY TellInit DEF ShownInv, Filling, AnsweredIsShown, TrackingInit, NoRequest
<1>2. ShownInv /\ [Next]_vars => ShownInv'
  BY ShownStep, TrackStep, ToldStep, DeliveredStep DEF ShownInv, TellInv
<1>3. ShownInv => AnsweredIsShown
  BY DEF ShownInv
<1> QED
  BY <1>1, <1>2, <1>3, PTL DEF Spec
=============================================================================
