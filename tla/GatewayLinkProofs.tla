-------------------------- MODULE GatewayLinkProofs --------------------------
(***************************************************************************)
(* Proofs about GatewayLink, for every set of commands and every setting:  *)
(* the link implements GatewayCommands, so what is proved there holds of   *)
(* Core and the gateway together, and Kiwoom is called at most once for an *)
(* order.                                                                  *)
(***************************************************************************)
EXTENDS GatewayLink, GatewayCommandsProofs, SequenceTheorems

-----------------------------------------------------------------------------
\* The inductive invariant.

\* The events the gateway makes about a command, and those it really made: of
\* a delivered command, and ACKED only of one that Kiwoom accepted.
Reports(i) == {Started(i), Raised(i)} \cup {Ack(i, s) : s \in {"ACKED", "REJECTED", "FAILED"}}
Genuine ==
    {e \in Event : /\ e.id \in delivered
                   /\ e \in Reports(e.id)
                   /\ e = Ack(e.id, "ACKED") => e.id \in accepted}

GatewayTypes ==
    /\ local \in [Ids -> Nat]
    /\ current \in [id : Ids \cup {NoId}, report : SUBSET Event]
    /\ calls \in [Orders -> Nat]
    /\ accepted \subseteq Ids

\* Wherever an event or a command waits, it is a genuine one.
OnlyGenuine ==
    /\ outbox \in Seq(Genuine)
    /\ late \subseteq Genuine
    /\ current.report \subseteq Genuine
OnlyDelivered == \A i \in Ids : local[i] > 0 \/ current.id = i => i \in delivered

\* A command is delivered after it was accepted, and an order once.
SentIsIssued == \A i \in Ids : i \notin issued => sent[i] = 0
OrderSentOnce == \A i \in Orders : sent[i] <= 1

LinkInv ==
    /\ IInv
    /\ GatewayTypes
    /\ OnlyGenuine
    /\ OnlyDelivered
    /\ SentIsIssued
    /\ OrderSentOnce
    /\ CallsComeFromDeliveries
    /\ AckedMeansAccepted

-----------------------------------------------------------------------------
\* Which steps of Core may turn a record ACKED.

Acked(i) == "ACKED" \in {mem[i].status, store[i].status}
NoNewAcks == \A i \in Ids : "ACKED" \in {mem'[i].status, store'[i].status} => Acked(i)

LEMMA ExpireOldAcked ==
    ASSUME NEW recs \in [Ids -> Record], NEW open, NEW i \in Ids,
           ExpireOld(recs, open)[i].status = "ACKED"
    PROVE  recs[i].status = "ACKED"
  BY ExpireOldRecord

LEMMA DispatchAcks ==
    ASSUME TypeOK, NEW S \in SUBSET Ids, NEW kept \in SUBSET S, NEW limit,
           DispatchStep(S, kept, limit)
    PROVE  NoNewAcks
  <1> DEFINE swept == ExpireOld(mem, Active)
             rows  == ExpireOld(store, Active)
             recs  == AfterDispatch(swept, S, limit)
  <1>1. mem \in [Ids -> Record] /\ store \in [Ids -> Record]
    BY DEF TypeOK
  <1>2. swept \in [Ids -> Record] /\ rows \in [Ids -> Record]
    BY <1>1, ExpireOldType
  <1>3. ASSUME NEW i \in Ids, recs[i].status = "ACKED" PROVE mem[i].status = "ACKED"
    <2> HIDE DEF swept
    <2>1. swept[i] \in Record
      BY <1>2
    <2>2. recs[i] = swept[i]
      BY <1>3, <2>1 DEF AfterDispatch, WithStatus, Record
    <2> QED BY <1>1, <1>3, <2>2, ExpireOldAcked DEF swept
  <1>4. ASSUME NEW i \in Ids, rows[i].status = "ACKED" PROVE store[i].status = "ACKED"
    BY <1>1, <1>4, ExpireOldAcked
  <1>5. mem' = recs /\ store' = [i \in Ids |-> IF i \in kept THEN recs[i] ELSE rows[i]]
    BY DEF DispatchStep
  <1> HIDE DEF recs, rows
  <1> QED BY <1>3, <1>4, <1>5 DEF NoNewAcks, Acked

LEMMA ExpireAcks == ASSUME TypeOK, ExpireOldCommands PROVE NoNewAcks
  <1> DEFINE recs == ExpireOld(mem, Active)
             rows == ExpireOld(store, Active)
             S    == {i \in Ids : recs[i].status = "EXPIRED"}
  <1>1. mem \in [Ids -> Record] /\ store \in [Ids -> Record]
    BY DEF TypeOK
  <1>2. ASSUME NEW i \in Ids
        PROVE  /\ recs[i].status = "ACKED" => mem[i].status = "ACKED"
               /\ rows[i].status = "ACKED" => store[i].status = "ACKED"
    BY <1>1, ExpireOldAcked
  <1>3. mem' = recs /\ store' = [i \in Ids |-> IF i \in S THEN recs[i] ELSE rows[i]]
    BY DEF ExpireOldCommands
  <1> HIDE DEF recs, rows, S
  <1> QED BY <1>2, <1>3 DEF NoNewAcks, Acked

LEMMA RestartAcks == ASSUME TypeOK, Restart PROVE NoNewAcks
  <1> DEFINE rows == ExpireOld(store, IF ExpireStaleDispatched THEN Active ELSE {"QUEUED"})
  <1>1. store \in [Ids -> Record]
    BY DEF TypeOK
  <1>2. ASSUME NEW i \in Ids, rows[i].status = "ACKED" PROVE store[i].status = "ACKED"
    BY <1>1, <1>2, ExpireOldAcked
  <1>3. store' = rows /\ mem' = [i \in Ids |-> IF rows[i].status = "QUEUED" THEN rows[i] ELSE Absent]
    BY DEF Restart
  <1> HIDE DEF rows
  <1> QED BY <1>2, <1>3 DEF NoNewAcks, Acked, Absent

LEMMA AckAcks ==
    ASSUME TypeOK, NEW i \in Ids, NEW s \in Statuses, NEW ok \in BOOLEAN, AckCommand(i, s, ok)
    PROVE  \A j \in Ids : "ACKED" \in {mem'[j].status, store'[j].status} =>
               Acked(j) \/ (j = i /\ s = "ACKED")
  <1> TAKE j \in Ids
  <1>1. mem[i] \in Record /\ store[i] \in Record
    BY DEF TypeOK
  <1>2. mem'[j].status = "ACKED" => mem[j].status = "ACKED" \/ (j = i /\ s = "ACKED")
    <2>1. CASE mem' = mem
      BY <2>1
    <2>2. CASE mem' # mem
      <3>1. mem' = [mem EXCEPT ![i].status = s]
        BY <2>2 DEF AckCommand
      <3>2. j # i => mem'[j] = mem[j]
        BY <3>1 DEF TypeOK
      <3>3. mem'[i].status = s
        BY <1>1, <3>1 DEF TypeOK, Record
      <3> QED BY <3>2, <3>3
    <2> QED BY <2>1, <2>2
  <1>3. store'[j].status = "ACKED" => store[j].status = "ACKED" \/ (j = i /\ s = "ACKED")
    <2>1. CASE store' = store
      BY <2>1
    <2>2. CASE store' # store
      <3>1. store' = [store EXCEPT ![i].status = s,
                        ![i].attempts = IF s = "DISPATCHED" /\ @ = 0 THEN 1 ELSE @]
        BY <2>2 DEF AckCommand
      <3>2. j # i => store'[j] = store[j]
        BY <3>1 DEF TypeOK
      <3>3. store'[i].status = s
        BY <1>1, <3>1 DEF TypeOK, Record
      <3> QED BY <3>2, <3>3
    <2> QED BY <2>1, <2>2
  <1> QED BY <1>2, <1>3 DEF Acked

LEMMA FailAcks ==
    ASSUME TypeOK, NEW i \in Ids, NEW retryable, NEW ok, FailCommand(i, retryable, ok)
    PROVE  NoNewAcks
  <1> DEFINE r == Failed(i, mem[i], retryable)
  <1>1. mem[i] \in Record /\ store[i] \in Record
    BY DEF TypeOK
  <1>2. r.status # "ACKED"
    BY <1>1 DEF Failed, WithStatus, Record
  <1> HIDE DEF r
  <1>3. \A j \in Ids : mem'[j] = mem[j] \/ mem'[j] = r
    BY DEF FailCommand, TypeOK, r
  <1>4. \A j \in Ids : store'[j] = store[j] \/ store'[j] = r \/ store'[j].status = "FAILED"
    BY <1>1 DEF FailCommand, TypeOK, Record, r
  <1> QED BY <1>2, <1>3, <1>4 DEF NoNewAcks, Acked

LEMMA CancelAcks == ASSUME TypeOK, NEW i \in Ids, NEW ok, CancelCommand(i, ok) PROVE NoNewAcks
  <1> DEFINE r == WithStatus(mem[i], "CANCELLED")
  <1>1. mem[i] \in Record /\ store[i] \in Record
    BY DEF TypeOK
  <1>2. r.status # "ACKED"
    BY <1>1 DEF WithStatus, Record
  <1> HIDE DEF r
  <1>3. \A j \in Ids : mem'[j] = mem[j] \/ mem'[j] = r
    BY DEF CancelCommand, TypeOK, r
  <1>4. \A j \in Ids : store'[j] = store[j] \/ store'[j] = r \/ store'[j].status = "CANCELLED"
    BY <1>1 DEF CancelCommand, TypeOK, Record, r
  <1> QED BY <1>2, <1>3, <1>4 DEF NoNewAcks, Acked

LEMMA SweepAcks ==
    ASSUME TypeOK, NEW i \in Ids, SweepCommand(i)
    PROVE  NoNewAcks /\ UNCHANGED history
  <1>1. PICK s \in {"SKIPPED", "EXPIRED"}, ok \in BOOLEAN : AckCommand(i, s, ok)
    BY DEF SweepCommand
  <1> QED BY <1>1, AckAcks DEF NoNewAcks, Statuses, Finished, AckCommand

-----------------------------------------------------------------------------
\* Every step of the link is a step of Core or leaves Core alone.

LEMMA GenuineIsReport ==
    ASSUME NEW e \in Genuine
    PROVE  /\ e \in Event /\ e.id \in Ids /\ e.id \in delivered
           /\ \/ e = Started(e.id)
              \/ \E s \in {"ACKED", "REJECTED", "FAILED"} : e = Ack(e.id, s)
              \/ e = Raised(e.id)
  BY DEF Genuine, Event, Reports

LEMMA ApplyIsEvent ==
    ASSUME TypeOK, NEW e \in Genuine, NEW ok \in BOOLEAN, Apply(e, ok)
    PROVE  /\ GatewayEvent(e.id)
           /\ UNCHANGED history
           /\ \A j \in Ids : "ACKED" \in {mem'[j].status, store'[j].status} =>
                 Acked(j) \/ j \in accepted
  <1>1. e.id \in Ids /\ e.id \in delivered
    BY GenuineIsReport
  <1>2. CASE e = Started(e.id)
    <2>1. CommandStarted(e.id, ok)
      <3>1. e.type = "command_started"
        BY <1>2 DEF Started
      <3> QED BY <3>1 DEF Apply
    <2>2. AckCommand(e.id, "DISPATCHED", ok)
      BY <2>1 DEF CommandStarted
    <2>3. GatewayEvent(e.id)
      BY <1>1, <2>1 DEF GatewayEvent
    <2>4. UNCHANGED history
      BY <2>2 DEF AckCommand
    <2>5. "DISPATCHED" \in Statuses
      BY DEF Statuses, Active
    <2> QED BY <1>1, <2>2, <2>3, <2>4, <2>5, AckAcks
  <1>3. ASSUME NEW s \in {"ACKED", "REJECTED", "FAILED"}, e = Ack(e.id, s)
        PROVE  /\ GatewayEvent(e.id)
               /\ UNCHANGED history
               /\ \A j \in Ids : "ACKED" \in {mem'[j].status, store'[j].status} =>
                     Acked(j) \/ j \in accepted
    <2>1. CommandAcked(e.id, s, ok)
      <3>1. e.type = "command_ack" /\ e.status = s
        BY <1>3 DEF Ack
      <3> QED BY <3>1 DEF Apply
    <2>2. CASE s = "FAILED"
      <3>1. FailCommand(e.id, FALSE, ok)
        BY <2>1, <2>2 DEF CommandAcked
      <3> QED BY <1>1, <2>1, <3>1, FailAcks DEF GatewayEvent, FailCommand, NoNewAcks
    <2>3. CASE s # "FAILED"
      <3>1. AckCommand(e.id, s, ok)
        BY <2>1, <2>3 DEF CommandAcked
      <3>2. s = "ACKED" => e.id \in accepted
        BY <1>3 DEF Genuine
      <3>3. s \in Statuses
        BY DEF Statuses, Finished
      <3> QED BY <1>1, <2>1, <3>1, <3>2, <3>3, AckAcks DEF GatewayEvent, AckCommand
    <2> QED BY <2>2, <2>3
  <1>4. CASE e = Raised(e.id)
    <2>1. CommandFailed(e.id, e.id \notin Orders, ok)
      <3>1. e.type = "command_failed"
        BY <1>4 DEF Raised
      <3> QED BY <3>1 DEF Apply
    <2>2. FailCommand(e.id, (e.id \notin Orders) /\ e.id \notin Orders, ok)
      BY <2>1 DEF CommandFailed
    <2>3. UNCHANGED history /\ NoNewAcks
      BY <1>1, <2>2, FailAcks DEF FailCommand
    <2>4. GatewayEvent(e.id)
      <3>1. (e.id \notin Orders) \in BOOLEAN
        OBVIOUS
      <3> QED BY <1>1, <2>1, <3>1 DEF GatewayEvent
    <2> QED BY <2>3, <2>4 DEF NoNewAcks
  <1> QED BY <1>2, <1>3, <1>4, GenuineIsReport

\* The events still to be posted are genuine, the first and what is left when
\* some of them are dropped.
LEMMA OutboxFacts ==
    ASSUME OnlyGenuine
    PROVE  /\ outbox # <<>> => Head(outbox) \in Genuine /\ Tail(outbox) \in Seq(Genuine)
           /\ Len(outbox) \in Nat
           /\ \A n \in 1..Len(outbox) : Head(outbox) \in Genuine /\ Dropped(n) \in Seq(Genuine)
  <1>1. outbox \in Seq(Genuine) /\ Len(outbox) \in Nat
    BY LenProperties DEF OnlyGenuine
  <1>2. outbox # <<>> => Head(outbox) \in Genuine /\ Tail(outbox) \in Seq(Genuine)
    BY <1>1, HeadTailProperties
  <1>3. ASSUME NEW n \in 1..Len(outbox)
        PROVE  Head(outbox) \in Genuine /\ Dropped(n) \in Seq(Genuine)
    <2>1. outbox # <<>>
      BY <1>1, <1>3, EmptySeq
    <2>2. \A k \in n + 1..Len(outbox) : outbox[k] \in Genuine
      BY <1>1, ElementOfSeq
    <2> QED BY <1>1, <1>2, <2>1, <2>2, SubSeqProperties DEF Dropped
  <1> QED BY <1>1, <1>2, <1>3

LEMMA LinkStepIsCoreStep ==
    ASSUME LinkInv, [LinkNext]_linkVars
    PROVE  [Next]_vars
  <1>1. TypeOK /\ OnlyGenuine
    BY DEF LinkInv, IInv
  <1>2. CASE CoreStep
    BY <1>2 DEF CoreStep, Next
  <1>3. CASE CoreRestart
    BY <1>3 DEF CoreRestart, Next
  <1>4. CASE PollCommands
    <2>1. PICK limit \in Limits, S \in SUBSET Ids : Dispatch(S, limit)
      BY <1>4 DEF PollCommands
    <2> QED BY <2>1 DEF Poll, Next
  <1>5. CASE PostEvent
    <2>1. Head(outbox) \in Genuine /\ Apply(Head(outbox), TRUE)
      BY <1>1, <1>5, OutboxFacts DEF PostEvent
    <2>2. Head(outbox).id \in Ids /\ GatewayEvent(Head(outbox).id)
      BY <1>1, <2>1, ApplyIsEvent, GenuineIsReport
    <2> QED BY <2>2 DEF Next
  <1>6. CASE PostRejected
    <2>1. Head(outbox) \in Genuine /\ Apply(Head(outbox), FALSE)
      BY <1>1, <1>6, OutboxFacts DEF PostRejected
    <2>2. Head(outbox).id \in Ids /\ GatewayEvent(Head(outbox).id)
      BY <1>1, <2>1, ApplyIsEvent, GenuineIsReport
    <2> QED BY <2>2 DEF Next
  <1>7. CASE LateEvent
    <2>1. PICK e \in late, ok \in BOOLEAN : Apply(e, ok)
      BY <1>7 DEF LateEvent
    <2>2. e \in Genuine
      BY <1>1 DEF OnlyGenuine
    <2>3. e.id \in Ids /\ GatewayEvent(e.id)
      BY <1>1, <2>1, <2>2, ApplyIsEvent, GenuineIsReport
    <2> QED BY <2>3 DEF Next
  <1>8. CASE PostTimesOut \/ ReportResult \/ GatewayRestart \/ UNCHANGED linkVars
    BY <1>8 DEF PostTimesOut, ReportResult, GatewayRestart, linkVars
  <1>9. CASE \E i \in Ids : RejectCommand(i) \/ StartCommand(i) \/ CallKiwoom(i) \/ SkipKiwoom(i)
    BY <1>9 DEF RejectCommand, StartCommand, CallKiwoom, SkipKiwoom
  <1> QED BY <1>2, <1>3, <1>4, <1>5, <1>6, <1>7, <1>8, <1>9 DEF LinkNext

-----------------------------------------------------------------------------
\* Every step keeps the invariant.

\* More deliveries and more accepted commands leave a genuine event genuine.
LEMMA GenuineStays ==
    ASSUME delivered \subseteq delivered', accepted \subseteq accepted'
    PROVE  Genuine \subseteq Genuine'
  BY DEF Genuine

LEMMA SeqStays ==
    ASSUME NEW S, NEW T, S \subseteq T, NEW s \in Seq(S)
    PROVE  s \in Seq(T)
  BY SeqDef

\* A step of Core that delivers nothing, and acks only what Kiwoom accepted.
LEMMA QuietCoreStep ==
    ASSUME LinkInv, IInv', UNCHANGED <<local, current, outcomes>>,
           UNCHANGED <<issued, sent, delivered>>,
           outbox' \in Seq(Genuine), late' \subseteq Genuine,
           \A j \in Ids : "ACKED" \in {mem'[j].status, store'[j].status} => Acked(j) \/ j \in accepted
    PROVE  LinkInv'
  <1>1. GatewayTypes' /\ OnlyDelivered' /\ SentIsIssued' /\ OrderSentOnce'
    BY DEF LinkInv, GatewayTypes, OnlyDelivered, SentIsIssued, OrderSentOnce, outcomes
  <1>2. CallsComeFromDeliveries'
    BY DEF LinkInv, CallsComeFromDeliveries, outcomes
  <1>3. Genuine' = Genuine
    BY DEF Genuine, outcomes
  <1>4. OnlyGenuine'
    BY <1>3 DEF LinkInv, OnlyGenuine
  <1>5. AckedMeansAccepted'
    BY DEF LinkInv, AckedMeansAccepted, Acked, outcomes
  <1> QED BY <1>1, <1>2, <1>4, <1>5 DEF LinkInv

LEMMA EnqueueLink ==
    ASSUME LinkInv, IInv', NEW i \in Ids, EnqueueCommand(i), UNCHANGED <<gateway, outcomes>>
    PROVE  LinkInv'
  <1>1. TypeOK /\ GatewayTypes
    BY DEF LinkInv, IInv
  <1>2. /\ mem' = [mem EXCEPT ![i] = NewRecord(i)] /\ store' = [store EXCEPT ![i] = NewRecord(i)]
        /\ issued' = issued \cup {i} /\ sent' = [sent EXCEPT ![i] = 0]
        /\ delivered' = delivered
        /\ UNCHANGED <<local, current, outbox, late, calls, accepted>>
    BY DEF EnqueueCommand, gateway, outcomes
  <1>3. \A j \in Ids : sent'[j] = IF j = i THEN 0 ELSE sent[j]
    BY <1>1, <1>2 DEF TypeOK
  <1>4. i \in Orders => sent[i] = 0
    BY DEF EnqueueCommand, LinkInv, SentIsIssued
  <1>5. \A j \in Orders : sent'[j] = sent[j]
    BY <1>3, <1>4, OrdersAreIds
  <1>6. GatewayTypes' /\ OnlyDelivered' /\ SentIsIssued' /\ OrderSentOnce'
    <2>1. SentIsIssued'
      BY <1>2, <1>3 DEF LinkInv, SentIsIssued
    <2> QED BY <1>2, <1>5, <2>1 DEF LinkInv, GatewayTypes, OnlyDelivered, OrderSentOnce
  <1>7. CallsComeFromDeliveries'
    BY <1>2, <1>5 DEF LinkInv, CallsComeFromDeliveries
  <1>8. OnlyGenuine'
    <2>1. Genuine' = Genuine
      BY <1>2 DEF Genuine
    <2> QED BY <1>2, <2>1 DEF LinkInv, OnlyGenuine
  <1>9. AckedMeansAccepted'
    <2>1. NewRecord(i).status # "ACKED"
      BY DEF NewRecord
    <2>2. \A j \in Ids : /\ mem'[j] = mem[j] \/ mem'[j] = NewRecord(i)
                         /\ store'[j] = store[j] \/ store'[j] = NewRecord(i)
      BY <1>1, <1>2 DEF TypeOK
    <2> QED BY <1>2, <2>1, <2>2 DEF LinkInv, AckedMeansAccepted
  <1> QED BY <1>6, <1>7, <1>8, <1>9 DEF LinkInv

LEMMA CoreStepLink == ASSUME LinkInv, IInv', CoreStep PROVE LinkInv'
  <1>1. /\ TypeOK /\ UNCHANGED <<gateway, outcomes>> /\ UNCHANGED <<local, current, outbox, late>>
        /\ outbox' \in Seq(Genuine) /\ late' \subseteq Genuine
    BY DEF LinkInv, IInv, CoreStep, gateway, OnlyGenuine
  <1>2. ASSUME NoNewAcks, UNCHANGED <<issued, sent, delivered>> PROVE LinkInv'
    BY <1>1, <1>2, QuietCoreStep DEF NoNewAcks
  <1>3. CASE Tick
    BY <1>2, <1>3 DEF Tick, NoNewAcks, Acked, history
  <1>4. CASE PollLost
    <2>1. PICK limit \in Limits, S \in SUBSET Ids :
             \E kept \in SUBSET S : DispatchLost(S, kept, limit)
      BY <1>4 DEF PollLost
    <2>2. PICK kept \in SUBSET S : DispatchLost(S, kept, limit)
      BY <2>1
    <2>3. DispatchStep(S, kept, limit) /\ UNCHANGED <<issued, sent, delivered>>
      BY <2>2 DEF DispatchLost, DispatchStep
    <2> QED BY <1>1, <1>2, <2>3, DispatchAcks
  <1>5. CASE ExpireOldCommands
    BY <1>1, <1>2, <1>5, ExpireAcks DEF ExpireOldCommands, history
  <1>6. ASSUME NEW S \in SUBSET Ids, PruneCommands(S) PROVE LinkInv'
    <2>1. NoNewAcks
      BY <1>6 DEF PruneCommands, NoNewAcks, Acked, Absent
    <2> QED BY <1>2, <1>6, <2>1 DEF PruneCommands, history
  <1>7. ASSUME NEW i \in Ids, EnqueueCommand(i) PROVE LinkInv'
    BY <1>1, <1>7, EnqueueLink
  <1>8. ASSUME NEW i \in Ids, SweepCommand(i) PROVE LinkInv'
    BY <1>1, <1>2, <1>8, SweepAcks DEF history
  <1>9. ASSUME NEW i \in Ids, NEW ok \in BOOLEAN, CancelCommand(i, ok) PROVE LinkInv'
    BY <1>1, <1>2, <1>9, CancelAcks DEF CancelCommand, history
  <1> QED BY <1>3, <1>4, <1>5, <1>6, <1>7, <1>8, <1>9 DEF CoreStep

LEMMA CoreRestartLink == ASSUME LinkInv, IInv', CoreRestart PROVE LinkInv'
  <1>1. TypeOK /\ outbox' \in Seq(Genuine) /\ late' \subseteq Genuine
    BY DEF LinkInv, IInv, CoreRestart, OnlyGenuine
  <1>2. Restart /\ UNCHANGED <<issued, sent, delivered>> /\ UNCHANGED <<local, current, outcomes>>
    BY DEF CoreRestart, Restart, history
  <1> QED BY <1>1, <1>2, RestartAcks, QuietCoreStep DEF NoNewAcks

\* A poll delivers only orders that were not delivered before.
LEMMA PollCommandsLink == ASSUME LinkInv, IInv', PollCommands PROVE LinkInv'
  <1>1. TypeOK /\ GatewayTypes /\ IInv
    BY DEF LinkInv, IInv
  <1>2. PICK limit \in Limits, S \in SUBSET Ids :
           /\ Dispatch(S, limit)
           /\ local' = [i \in Ids |-> IF i \in S THEN local[i] + 1 ELSE local[i]]
           /\ UNCHANGED <<current, outbox, late, outcomes>>
    BY DEF PollCommands
  <1>3. /\ DispatchStep(S, S, limit) /\ issued' = issued
        /\ sent' = [i \in Ids |-> IF i \in S THEN sent[i] + 1 ELSE sent[i]]
        /\ delivered' = delivered \cup S
        /\ calls' = calls /\ accepted' = accepted
    BY <1>2 DEF Dispatch, DispatchStep, outcomes
  <1>4. \A i \in S : mem[i].status = "QUEUED" /\ i \in issued
    <2>1. \A i \in S : mem[i].status = "QUEUED"
      BY <1>1, <1>3, DispatchFacts
    <2> QED BY <1>1, <2>1 DEF IInv, OnlyIssued, Present
  <1>5. GatewayTypes'
    BY <1>1, <1>2, <1>3 DEF GatewayTypes
  <1>6. OnlyGenuine'
    <2>1. Genuine \subseteq Genuine'
      BY <1>3, GenuineStays
    <2> QED BY <1>2, <2>1, SeqStays DEF LinkInv, OnlyGenuine
  <1>7. OnlyDelivered'
    BY <1>1, <1>2, <1>3 DEF LinkInv, OnlyDelivered, GatewayTypes
  <1>8. SentIsIssued'
    BY <1>3, <1>4 DEF LinkInv, SentIsIssued
  <1>9. OrderSentOnce'
    <2> SUFFICES ASSUME NEW i \in Orders PROVE sent'[i] <= 1
      BY DEF OrderSentOnce
    <2>1. i \in Ids /\ sent[i] \in Nat /\ sent[i] <= 1
      BY <1>1, OrdersAreIds DEF TypeOK, LinkInv, OrderSentOnce
    <2>2. i \in S => sent[i] = 0
      BY <1>1, <1>4, <2>1 DEF IInv, DeliveredOrderNotQueued
    <2> QED BY <1>3, <2>1, <2>2
  <1>10. CallsComeFromDeliveries'
    <2> SUFFICES ASSUME NEW i \in Orders
                 PROVE  local'[i] + calls[i] + (IF current = [id |-> i, report |-> {}] THEN 1 ELSE 0)
                           <= sent'[i]
      BY <1>2, <1>3 DEF CallsComeFromDeliveries
    <2>1. i \in Ids /\ sent[i] \in Nat /\ local[i] \in Nat /\ calls[i] \in Nat
      BY <1>1, OrdersAreIds DEF TypeOK, GatewayTypes
    <2>2. local[i] + calls[i] + (IF current = [id |-> i, report |-> {}] THEN 1 ELSE 0) <= sent[i]
      BY DEF LinkInv, CallsComeFromDeliveries
    <2> DEFINE c == IF current = [id |-> i, report |-> {}] THEN 1 ELSE 0
    <2>3. c \in Nat
      OBVIOUS
    <2> HIDE DEF c
    <2>4. local[i] + calls[i] + c <= sent[i]
      BY <2>2 DEF c
    <2>5. local'[i] + calls[i] + c <= sent'[i]
      BY <1>2, <1>3, <2>1, <2>3, <2>4
    <2> QED BY <2>5 DEF c
  <1>11. AckedMeansAccepted'
    BY <1>1, <1>3, DispatchAcks DEF LinkInv, AckedMeansAccepted, NoNewAcks, Acked
  <1> QED BY <1>5, <1>6, <1>7, <1>8, <1>9, <1>10, <1>11 DEF LinkInv

LEMMA PostsLink ==
    ASSUME LinkInv, IInv', PostEvent \/ PostRejected \/ PostTimesOut \/ LateEvent
    PROVE  LinkInv'
  <1>1. TypeOK /\ OnlyGenuine
    BY DEF LinkInv, IInv
  <1>2. CASE PostEvent
    <2>1. /\ Head(outbox) \in Genuine /\ outbox' \in Seq(Genuine) /\ late' \subseteq Genuine
          /\ Apply(Head(outbox), TRUE) /\ UNCHANGED <<local, current, outcomes>>
      BY <1>1, <1>2, OutboxFacts DEF PostEvent, OnlyGenuine
    <2> QED BY <1>1, <2>1, ApplyIsEvent, QuietCoreStep DEF history
  <1>3. CASE PostRejected
    <2>1. /\ Head(outbox) \in Genuine /\ outbox' \in Seq(Genuine) /\ late' \subseteq Genuine
          /\ Apply(Head(outbox), FALSE) /\ UNCHANGED <<local, current, outcomes>>
      BY <1>1, <1>3, OutboxFacts DEF PostRejected, OnlyGenuine
    <2> QED BY <1>1, <2>1, ApplyIsEvent, QuietCoreStep DEF history
  <1>4. CASE PostTimesOut
    <2>1. /\ outbox' \in Seq(Genuine) /\ late' \subseteq Genuine
          /\ UNCHANGED vars /\ UNCHANGED <<local, current, outcomes>>
      BY <1>1, <1>4, OutboxFacts DEF PostTimesOut, OnlyGenuine
    <2> QED BY <2>1, QuietCoreStep DEF vars, Acked
  <1>5. CASE LateEvent
    <2>1. PICK e \in late, ok \in BOOLEAN :
             Apply(e, ok) /\ late' = late \ {e} /\ UNCHANGED <<local, current, outbox, outcomes>>
      BY <1>5 DEF LateEvent
    <2>2. e \in Genuine /\ outbox' \in Seq(Genuine) /\ late' \subseteq Genuine
      BY <1>1, <2>1 DEF OnlyGenuine
    <2> QED BY <1>1, <2>1, <2>2, ApplyIsEvent, QuietCoreStep DEF history
  <1> QED BY <1>2, <1>3, <1>4, <1>5

\* What a step of the Qt thread leaves alone: Core, and the deliveries.
LEMMA QtStep ==
    ASSUME LinkInv, IInv', UNCHANGED vars, late' = late, accepted \subseteq accepted'
    PROVE  /\ SentIsIssued' /\ OrderSentOnce' /\ AckedMeansAccepted'
           /\ Genuine \subseteq Genuine'
           /\ late' \subseteq Genuine'
           /\ outbox \in Seq(Genuine')
  <1>1. UNCHANGED <<mem, store, issued, sent, delivered>>
    BY DEF vars
  <1>2. Genuine \subseteq Genuine'
    BY <1>1, GenuineStays
  <1>3. outbox \in Seq(Genuine')
    BY <1>2, SeqStays DEF LinkInv, OnlyGenuine
  <1>4. late' \subseteq Genuine'
    BY <1>2 DEF LinkInv, OnlyGenuine
  <1>5. SentIsIssued' /\ OrderSentOnce' /\ AckedMeansAccepted'
    BY <1>1 DEF LinkInv, SentIsIssued, OrderSentOnce, AckedMeansAccepted
  <1> QED BY <1>2, <1>3, <1>4, <1>5

\* One copy of a command leaves the gateway's queue.
LEMMA TakenFacts ==
    ASSUME GatewayTypes, NEW i \in Ids, local[i] > 0, local' = Taken(i)
    PROVE  /\ local' \in [Ids -> Nat]
           /\ local'[i] = local[i] - 1
           /\ \A j \in Ids \ {i} : local'[j] = local[j]
           /\ \A j \in Ids : local'[j] <= local[j]
  <1>1. \A j \in Ids : local[j] \in Nat
    BY DEF GatewayTypes
  <1>2. /\ local'[i] = local[i] - 1
        /\ \A j \in Ids \ {i} : local'[j] = local[j]
    BY DEF Taken, GatewayTypes
  <1>3. local' = [j \in Ids |-> local'[j]]
    BY DEF Taken, GatewayTypes
  <1> QED BY <1>1, <1>2, <1>3

LEMMA ReportsAreEvents ==
    ASSUME NEW i \in Ids, NEW e \in Reports(i)
    PROVE  e \in Event /\ e.id = i
  BY DEF Reports, Event, Started, Raised, Ack

LEMMA RejectCommandLink ==
    ASSUME LinkInv, IInv', NEW i \in Ids, RejectCommand(i) PROVE LinkInv'
  <1>1. /\ GatewayTypes /\ local[i] > 0 /\ local' = Taken(i)
        /\ outbox' = Append(outbox, Ack(i, "REJECTED"))
        /\ UNCHANGED vars /\ UNCHANGED <<current, late, calls, accepted>>
    BY DEF LinkInv, RejectCommand, Emit, outcomes
  <1>2. /\ SentIsIssued' /\ OrderSentOnce' /\ AckedMeansAccepted'
        /\ Genuine \subseteq Genuine' /\ late' \subseteq Genuine' /\ outbox \in Seq(Genuine')
    BY <1>1, QtStep
  <1>3. Ack(i, "REJECTED") \in Genuine'
    <2>1. Ack(i, "REJECTED") \in Reports(i)
      BY DEF Reports
    <2>2. i \in delivered'
      BY <1>1 DEF LinkInv, OnlyDelivered, vars
    <2>3. Ack(i, "REJECTED") # Ack(i, "ACKED")
      BY DEF Ack
    <2> QED BY <2>1, <2>2, <2>3, ReportsAreEvents DEF Genuine
  <1>4. OnlyGenuine'
    BY <1>1, <1>2, <1>3, AppendProperties DEF LinkInv, OnlyGenuine
  <1>5. GatewayTypes'
    BY <1>1, TakenFacts DEF GatewayTypes
  <1>6. OnlyDelivered'
    <2>1. \A j \in Ids : local'[j] > 0 => local[j] > 0
      BY <1>1, <1>5, TakenFacts DEF GatewayTypes
    <2> QED BY <1>1, <2>1 DEF LinkInv, OnlyDelivered, vars
  <1>7. CallsComeFromDeliveries'
    <2> SUFFICES ASSUME NEW j \in Orders
                 PROVE  local'[j] + calls[j] + (IF current = [id |-> j, report |-> {}] THEN 1 ELSE 0)
                           <= sent[j]
      BY <1>1 DEF CallsComeFromDeliveries, vars
    <2> DEFINE c == IF current = [id |-> j, report |-> {}] THEN 1 ELSE 0
    <2>1. c \in Nat
      OBVIOUS
    <2>2. local[j] + calls[j] + c <= sent[j]
      BY DEF LinkInv, CallsComeFromDeliveries
    <2>3. /\ j \in Ids /\ local[j] \in Nat /\ local'[j] \in Nat /\ calls[j] \in Nat
          /\ sent[j] \in Nat /\ local'[j] <= local[j]
      BY <1>1, <1>5, TakenFacts, OrdersAreIds DEF GatewayTypes, LinkInv, IInv, TypeOK
    <2> HIDE DEF c
    <2>4. local'[j] + calls[j] + c <= sent[j]
      BY <2>1, <2>2, <2>3
    <2> QED BY <2>4 DEF c
  <1> QED BY <1>2, <1>4, <1>5, <1>6, <1>7 DEF LinkInv

LEMMA StartCommandLink ==
    ASSUME LinkInv, IInv', NEW i \in Ids, StartCommand(i) PROVE LinkInv'
  <1>1. /\ GatewayTypes /\ local[i] > 0 /\ local' = Taken(i) /\ current = Idle
        /\ current' = [id |-> i, report |-> {}]
        /\ outbox' = Append(outbox, Started(i))
        /\ UNCHANGED vars /\ UNCHANGED <<late, calls, accepted>>
    BY DEF LinkInv, StartCommand, Emit, outcomes
  <1>2. /\ SentIsIssued' /\ OrderSentOnce' /\ AckedMeansAccepted'
        /\ Genuine \subseteq Genuine' /\ late' \subseteq Genuine' /\ outbox \in Seq(Genuine')
    BY <1>1, QtStep
  <1>3. i \in delivered /\ delivered' = delivered
    BY <1>1 DEF LinkInv, OnlyDelivered, vars
  <1>4. Started(i) \in Genuine'
    <2>1. Started(i) \in Reports(i)
      BY DEF Reports
    <2>2. Started(i) # Ack(i, "ACKED")
      BY DEF Ack, Started
    <2> QED BY <1>3, <2>1, <2>2, ReportsAreEvents DEF Genuine
  <1>5. OnlyGenuine'
    <2>1. current'.report = {}
      BY <1>1
    <2> QED BY <1>1, <1>2, <1>4, <2>1, AppendProperties DEF OnlyGenuine
  <1>6. GatewayTypes'
    BY <1>1, TakenFacts DEF GatewayTypes
  <1>7. OnlyDelivered'
    <2>1. \A j \in Ids : local'[j] > 0 => local[j] > 0
      BY <1>1, <1>6, TakenFacts DEF GatewayTypes
    <2>2. current'.id = i
      BY <1>1
    <2> QED BY <1>3, <2>1, <2>2 DEF LinkInv, OnlyDelivered
  <1>8. CallsComeFromDeliveries'
    <2> SUFFICES ASSUME NEW j \in Orders
                 PROVE  local'[j] + calls[j] + (IF current' = [id |-> j, report |-> {}] THEN 1 ELSE 0)
                           <= sent[j]
      BY <1>1 DEF CallsComeFromDeliveries, vars
    <2>1. /\ j \in Ids /\ local[j] \in Nat /\ local'[j] \in Nat /\ calls[j] \in Nat
          /\ sent[j] \in Nat
      BY <1>1, <1>6, OrdersAreIds DEF GatewayTypes, LinkInv, IInv, TypeOK
    <2>2. local[j] + calls[j] <= sent[j]
      <3> DEFINE c == IF current = [id |-> j, report |-> {}] THEN 1 ELSE 0
      <3>1. c \in Nat
        OBVIOUS
      <3>2. local[j] + calls[j] + c <= sent[j]
        BY DEF LinkInv, CallsComeFromDeliveries
      <3> HIDE DEF c
      <3> QED BY <2>1, <3>1, <3>2
    <2>3. CASE j = i
      <3>1. local'[j] = local[j] - 1
        BY <1>1, <2>3, TakenFacts
      <3> QED BY <1>1, <2>1, <2>2, <2>3, <3>1
    <2>4. CASE j # i
      <3>1. local'[j] = local[j]
        BY <1>1, <2>1, <2>4, TakenFacts
      <3>2. current' # [id |-> j, report |-> {}]
        BY <1>1, <2>4
      <3> QED BY <2>1, <2>2, <3>1, <3>2
    <2> QED BY <2>3, <2>4
  <1> QED BY <1>2, <1>5, <1>6, <1>7, <1>8 DEF LinkInv

\* The command is done, with a report, after a call or without one.
LEMMA ExecutedLink ==
    ASSUME LinkInv, IInv', NEW i \in Ids, NEW e \in Reports(i),
           current = [id |-> i, report |-> {}], current' = [id |-> i, report |-> {e}],
           UNCHANGED vars, UNCHANGED <<local, outbox, late>>,
           calls' \in [Orders -> Nat],
           \A j \in Orders : calls'[j] <= IF j = i THEN calls[j] + 1 ELSE calls[j],
           accepted \subseteq accepted', accepted' \subseteq Ids,
           e = Ack(i, "ACKED") => i \in accepted'
    PROVE  LinkInv'
  <1>1. GatewayTypes /\ sent \in [Ids -> Nat] /\ UNCHANGED <<sent, delivered>>
    BY DEF LinkInv, IInv, TypeOK, vars
  <1>2. /\ SentIsIssued' /\ OrderSentOnce' /\ AckedMeansAccepted'
        /\ Genuine \subseteq Genuine' /\ late' \subseteq Genuine' /\ outbox \in Seq(Genuine')
    BY QtStep
  <1>3. current.id = i /\ current'.id = i /\ current'.report = {e}
    OBVIOUS
  <1>4. e \in Event /\ e.id = i
    BY ReportsAreEvents
  <1>5. e \in Genuine'
    BY <1>1, <1>3, <1>4 DEF Genuine, LinkInv, OnlyDelivered
  <1>6. OnlyGenuine'
    BY <1>2, <1>3, <1>5 DEF OnlyGenuine
  <1>7. GatewayTypes'
    BY <1>1, <1>4 DEF GatewayTypes
  <1>8. OnlyDelivered'
    BY <1>1, <1>3 DEF LinkInv, OnlyDelivered
  <1>9. CallsComeFromDeliveries'
    <2> SUFFICES ASSUME NEW j \in Orders
                 PROVE  local[j] + calls'[j] + (IF current' = [id |-> j, report |-> {}] THEN 1 ELSE 0)
                           <= sent[j]
      BY <1>1 DEF CallsComeFromDeliveries
    <2>1. j \in Ids /\ local[j] \in Nat /\ calls[j] \in Nat /\ calls'[j] \in Nat /\ sent[j] \in Nat
      BY <1>1, OrdersAreIds DEF GatewayTypes
    <2>2. current' # [id |-> j, report |-> {}]
      BY <1>3
    <2>3. CASE j = i
      <3>1. local[j] + calls[j] + 1 <= sent[j]
        BY <2>3 DEF LinkInv, CallsComeFromDeliveries
      <3> QED BY <2>1, <2>2, <2>3, <3>1
    <2>4. CASE j # i
      <3>1. current # [id |-> j, report |-> {}]
        BY <1>3, <2>4
      <3>2. local[j] + calls[j] + 0 <= sent[j]
        BY <3>1 DEF LinkInv, CallsComeFromDeliveries
      <3> QED BY <2>1, <2>2, <2>4, <3>2
    <2> QED BY <2>3, <2>4
  <1> QED BY <1>2, <1>6, <1>7, <1>8, <1>9 DEF LinkInv

LEMMA CallKiwoomLink ==
    ASSUME LinkInv, IInv', NEW i \in Ids, CallKiwoom(i) PROVE LinkInv'
  <1>1. PICK e \in {Ack(i, "ACKED"), Ack(i, "FAILED"), Raised(i)} :
           /\ current' = [id |-> i, report |-> {e}]
           /\ accepted' = IF e = Ack(i, "ACKED") THEN accepted \cup {i} ELSE accepted
    BY DEF CallKiwoom
  <1>2. /\ current = [id |-> i, report |-> {}]
        /\ calls' = [j \in Orders |-> IF j = i THEN calls[j] + 1 ELSE calls[j]]
        /\ UNCHANGED vars /\ UNCHANGED <<local, outbox, late>>
    BY DEF CallKiwoom
  <1>3. e \in Reports(i)
    BY DEF Reports
  <1>4. calls \in [Orders -> Nat] /\ accepted \subseteq Ids
    BY DEF LinkInv, GatewayTypes
  <1>5. /\ calls' \in [Orders -> Nat]
        /\ \A j \in Orders : calls'[j] <= IF j = i THEN calls[j] + 1 ELSE calls[j]
    BY <1>2, <1>4
  <1>6. /\ accepted \subseteq accepted' /\ accepted' \subseteq Ids
        /\ e = Ack(i, "ACKED") => i \in accepted'
    BY <1>1, <1>4
  <1> QED BY <1>1, <1>2, <1>3, <1>5, <1>6, ExecutedLink

LEMMA SkipKiwoomLink ==
    ASSUME LinkInv, IInv', NEW i \in Ids, SkipKiwoom(i) PROVE LinkInv'
  <1>1. PICK e \in {Ack(i, "REJECTED"), Ack(i, "FAILED"), Raised(i)} :
           current' = [id |-> i, report |-> {e}]
    BY DEF SkipKiwoom
  <1>2. /\ current = [id |-> i, report |-> {}]
        /\ UNCHANGED vars /\ UNCHANGED <<local, outbox, late>> /\ UNCHANGED <<calls, accepted>>
    BY DEF SkipKiwoom, outcomes
  <1>3. e \in Reports(i) /\ e # Ack(i, "ACKED")
    BY DEF Reports, Ack, Raised
  <1>4. /\ calls' \in [Orders -> Nat] /\ accepted' \subseteq Ids
        /\ \A j \in Orders : calls'[j] <= IF j = i THEN calls[j] + 1 ELSE calls[j]
    BY <1>2 DEF LinkInv, GatewayTypes
  <1> QED BY <1>1, <1>2, <1>3, <1>4, ExecutedLink

\* The gateway forgets: it is idle, and what still waits in it waited before.
LEMMA IdleLink ==
    ASSUME LinkInv, IInv', UNCHANGED vars, UNCHANGED <<late, calls, accepted>>,
           current' = Idle, outbox' \in Seq(Genuine),
           local' \in [Ids -> Nat], \A j \in Ids : local'[j] <= local[j]
    PROVE  LinkInv'
  <1>1. GatewayTypes /\ sent \in [Ids -> Nat] /\ UNCHANGED <<sent, delivered>>
    BY DEF LinkInv, IInv, TypeOK, vars
  <1>2. /\ SentIsIssued' /\ OrderSentOnce' /\ AckedMeansAccepted'
        /\ Genuine \subseteq Genuine' /\ late' \subseteq Genuine'
    BY QtStep
  <1>3. current'.id = NoId /\ current'.report = {} /\ NoId \notin Ids
    BY ConstantsAssumption DEF Idle
  <1>4. OnlyGenuine'
    BY <1>2, <1>3, SeqStays DEF OnlyGenuine
  <1>5. GatewayTypes'
    BY <1>1 DEF GatewayTypes, Idle
  <1>6. OnlyDelivered'
    <2>1. \A j \in Ids : local'[j] > 0 => local[j] > 0
      BY <1>1, <1>5 DEF GatewayTypes
    <2> QED BY <1>1, <1>3, <2>1 DEF LinkInv, OnlyDelivered
  <1>7. CallsComeFromDeliveries'
    <2> SUFFICES ASSUME NEW j \in Orders
                 PROVE  local'[j] + calls[j] + (IF current' = [id |-> j, report |-> {}] THEN 1 ELSE 0)
                           <= sent[j]
      BY <1>1 DEF CallsComeFromDeliveries
    <2>1. /\ j \in Ids /\ local[j] \in Nat /\ local'[j] \in Nat /\ calls[j] \in Nat
          /\ sent[j] \in Nat /\ local'[j] <= local[j]
      BY <1>1, OrdersAreIds DEF GatewayTypes
    <2>2. current' # [id |-> j, report |-> {}]
      BY <1>3, <2>1
    <2> DEFINE c == IF current = [id |-> j, report |-> {}] THEN 1 ELSE 0
    <2>3. c \in Nat
      OBVIOUS
    <2>4. local[j] + calls[j] + c <= sent[j]
      BY DEF LinkInv, CallsComeFromDeliveries
    <2> HIDE DEF c
    <2> QED BY <2>1, <2>2, <2>3, <2>4
  <1> QED BY <1>2, <1>4, <1>5, <1>6, <1>7 DEF LinkInv

LEMMA ReportResultLink == ASSUME LinkInv, IInv', ReportResult PROVE LinkInv'
  <1>1. PICK e \in current.report : outbox' = Append(outbox, e) /\ current' = Idle
    BY DEF ReportResult, Emit
  <1>2. UNCHANGED vars /\ UNCHANGED <<local, late, calls, accepted>>
    BY DEF ReportResult, outcomes
  <1>3. outbox' \in Seq(Genuine)
    BY <1>1, AppendProperties DEF LinkInv, OnlyGenuine
  <1>4. local' \in [Ids -> Nat] /\ \A j \in Ids : local'[j] <= local[j]
    BY <1>2 DEF LinkInv, GatewayTypes
  <1> QED BY <1>1, <1>2, <1>3, <1>4, IdleLink

LEMMA GatewayRestartLink == ASSUME LinkInv, IInv', GatewayRestart PROVE LinkInv'
  <1>1. /\ local' = [i \in Ids |-> 0] /\ current' = Idle /\ outbox' = <<>>
        /\ UNCHANGED vars /\ UNCHANGED <<late, calls, accepted>>
    BY DEF GatewayRestart, outcomes
  <1>2. outbox' \in Seq(Genuine)
    BY <1>1, EmptySeq
  <1>3. local' \in [Ids -> Nat] /\ \A j \in Ids : local'[j] <= local[j]
    BY <1>1 DEF LinkInv, GatewayTypes
  <1> QED BY <1>1, <1>2, <1>3, IdleLink

LEMMA LinkInvStep == ASSUME LinkInv, [LinkNext]_linkVars PROVE LinkInv'
  <1>1. IInv'
    BY LinkStepIsCoreStep, IInvStep DEF LinkInv
  <1>2. ASSUME NEW i \in Ids,
               RejectCommand(i) \/ StartCommand(i) \/ CallKiwoom(i) \/ SkipKiwoom(i)
        PROVE  LinkInv'
    BY <1>1, <1>2, RejectCommandLink, StartCommandLink, CallKiwoomLink, SkipKiwoomLink
  <1>3. CASE UNCHANGED linkVars
    <2>1. UNCHANGED <<local, current, outcomes>> /\ UNCHANGED <<mem, store, issued, sent, delivered>>
          /\ outbox' = outbox /\ late' = late
      BY <1>3 DEF linkVars, gateway, vars
    <2> QED BY <1>1, <2>1, QuietCoreStep DEF LinkInv, OnlyGenuine, Acked
  <1> QED BY <1>1, <1>2, <1>3, CoreStepLink, CoreRestartLink, PollCommandsLink, PostsLink,
             ReportResultLink, GatewayRestartLink DEF LinkNext

LEMMA LinkInvInit == LinkInit => LinkInv
  <1> SUFFICES ASSUME LinkInit PROVE LinkInv
    OBVIOUS
  <1>1. IInv
    BY IInvInit DEF LinkInit
  <1>2. GatewayTypes
    BY DEF LinkInit, GatewayTypes, Idle
  <1>3. OnlyGenuine
    BY EmptySeq DEF LinkInit, OnlyGenuine, Idle
  <1>4. OnlyDelivered
    BY ConstantsAssumption DEF LinkInit, OnlyDelivered, Idle
  <1>5. SentIsIssued /\ OrderSentOnce
    BY OrdersAreIds DEF LinkInit, Init, SentIsIssued, OrderSentOnce
  <1>6. CallsComeFromDeliveries
    <2>1. \A i \in Orders : local[i] = 0 /\ calls[i] = 0 /\ sent[i] = 0 /\ i # NoId
      BY OrdersAreIds, ConstantsAssumption DEF LinkInit, Init
    <2>2. \A i \in Orders : current # [id |-> i, report |-> {}]
      BY <2>1 DEF LinkInit, Idle
    <2> QED BY <2>1, <2>2 DEF CallsComeFromDeliveries
  <1>7. AckedMeansAccepted
    BY DEF LinkInit, Init, AckedMeansAccepted, Absent
  <1> QED BY <1>1, <1>2, <1>3, <1>4, <1>5, <1>6, <1>7 DEF LinkInv

-----------------------------------------------------------------------------
\* The theorems.

\* In every behaviour of the link, what is queued, in hand or on its way was
\* delivered by Core, and Core's records agree with what Kiwoom answered.
LEMMA LinkInvariant == LinkSpec => []LinkInv
  <1>1. LinkInv /\ [LinkNext]_linkVars => LinkInv'
    BY LinkInvStep
  <1> QED BY <1>1, LinkInvInit, PTL DEF LinkSpec

\* The gateway and the REST transport drive Core only through the operations
\* and events GatewayCommands allows, so the theorems about it hold of both.
THEOREM LinkRefinesCore == LinkSpec => LinkImplementsCore
  <1>1. LinkInit => Init
    BY DEF LinkInit
  <1>2. LinkInv /\ [LinkNext]_linkVars => [Next]_vars
    BY LinkStepIsCoreStep
  <1> QED BY <1>1, <1>2, LinkInvariant, PTL DEF LinkSpec, LinkImplementsCore, Spec

\* Each command waiting in the gateway's queue or in hand, and each call of
\* Kiwoom for an order, stems from a delivery by dispatch_commands of its own.
THEOREM CallsAreDeliveries == LinkSpec => []CallsComeFromDeliveries
  <1>1. LinkInv => CallsComeFromDeliveries
    BY DEF LinkInv
  <1> QED BY <1>1, LinkInvariant, PTL

\* _drain_real_commands calls Kiwoom at most once for an order, whatever is
\* lost, late or restarted, and whatever max_attempts the order was given.
THEOREM OrdersAreCalledOnce == LinkSpec => []OrderCalledOnce
  <1>1. LinkInv => OrderCalledOnce
    <2> SUFFICES ASSUME LinkInv, NEW i \in Orders PROVE calls[i] <= 1
      BY DEF OrderCalledOnce
    <2> DEFINE c == IF current = [id |-> i, report |-> {}] THEN 1 ELSE 0
    <2>1. c \in Nat
      OBVIOUS
    <2>2. local[i] + calls[i] + c <= sent[i] /\ sent[i] <= 1
      BY DEF LinkInv, CallsComeFromDeliveries, OrderSentOnce
    <2>3. local[i] \in Nat /\ calls[i] \in Nat /\ sent[i] \in Nat
      BY OrdersAreIds DEF LinkInv, GatewayTypes, IInv, TypeOK
    <2> HIDE DEF c
    <2> QED BY <2>1, <2>2, <2>3
  <1> QED BY <1>1, LinkInvariant, PTL

\* The row of an order that Kiwoom was called for is neither QUEUED, to be sent
\* again, nor CANCELLED, as if the user had withdrawn it in time.
THEOREM CalledOrdersAreSettled == LinkSpec => []CalledOrderIsSettled
  <1>1. LinkInv => CalledOrderIsSettled
    <2> SUFFICES ASSUME LinkInv, NEW i \in Orders, calls[i] > 0
                 PROVE  store[i].status \notin {"QUEUED", "CANCELLED"}
      BY DEF CalledOrderIsSettled
    <2> DEFINE c == IF current = [id |-> i, report |-> {}] THEN 1 ELSE 0
    <2>1. c \in Nat
      OBVIOUS
    <2>2. local[i] + calls[i] + c <= sent[i]
      BY DEF LinkInv, CallsComeFromDeliveries
    <2>3. local[i] \in Nat /\ calls[i] \in Nat /\ sent[i] \in Nat
      BY OrdersAreIds DEF LinkInv, GatewayTypes, IInv, TypeOK
    <2> HIDE DEF c
    <2>4. sent[i] > 0
      BY <2>1, <2>2, <2>3
    <2> QED BY <2>3, <2>4 DEF LinkInv, IInv, DeliveredOrderNotQueued, CancelledOrderNotSent
  <1> QED BY <1>1, LinkInvariant, PTL

\* Neither the queue nor SQLite shows ACKED for a command that Kiwoom did not
\* accept, although ack_command looks at nothing but the event.
THEOREM AcksAreTrue == LinkSpec => []AckedMeansAccepted
  <1>1. LinkInv => AckedMeansAccepted
    BY DEF LinkInv
  <1> QED BY <1>1, LinkInvariant, PTL
=============================================================================
