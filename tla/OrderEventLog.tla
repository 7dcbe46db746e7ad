---------------------------- MODULE OrderEventLog ----------------------------
(***************************************************************************)
(* How the Core consumes the order events of the gateway.  A POST records  *)
(* the event (GatewayStateStore.record_event), which appends it to the     *)
(* durable event log, persists it and hands it to the live consumer, one   *)
(* thread.  The replay worker, another thread, claims open log rows in     *)
(* batches.  Both run OrderLifecycleEventConsumer.dispatch: look for a     *)
(* receipt, apply the event to the managed order, save the receipt, and    *)
(* then GatewayEventDispatcher._finish_record closes the row.  Each of     *)
(* these is a transaction of its own, and the Core may stop between any    *)
(* two of them.                                                            *)
(*                                                                         *)
(* Applying the event is a single counted step here; ManagedOrders models  *)
(* what it does.  The configuration is the default one: log, replay,       *)
(* receipts, fail_closed and dead_letter_blocks_buy enabled.               *)
(***************************************************************************)
EXTENDS Integers, FiniteSets, Sequences

CONSTANTS
    Events,       \* event ids of order lifecycle events
    NoEvent,      \* the event of an idle worker
    Fills,        \* canonical dedupe keys
    FillOf,       \* _canonical_dedupe_key of each event
    Ignored,      \* events the codec ignores
    ReceivedAt,   \* rank of each event by received_at and id: the order of claims
    Batch,        \* TRADING_EVENT_REPLAY_BATCH_SIZE
    Lease,        \* TRADING_EVENT_PROCESSING_LEASE_SEC
    MaxAttempts,  \* TRADING_EVENT_MAX_ATTEMPTS
    RetryBase,    \* TRADING_EVENT_RETRY_BASE_SEC
    RetryMax,     \* TRADING_EVENT_RETRY_MAX_SEC
    MaxPosts,     \* bound: posts of one event by the gateway
    MaxFaults     \* bound: restarts of the Core and failed writes

ASSUME ConstantsAssumption ==
    /\ NoEvent \notin Events
    /\ FillOf \in [Events -> Fills]
    /\ Ignored \subseteq Events
    /\ ReceivedAt \in [Events -> Nat]
    /\ \A d, e \in Events : ReceivedAt[d] = ReceivedAt[e] => d = e
    /\ {Batch, Lease, MaxAttempts, RetryBase, RetryMax} \subseteq Nat \ {0}
    /\ MaxPosts \in Nat
    /\ MaxFaults \in Nat

\* Arithmetic the proofs take from here: the backoff is computed in Nat.
ASSUME PowersAssumption == \A n \in 0..MaxAttempts : 2^n \in Nat

Workers == {"live", "replay"}

VARIABLES
    posts,      \* how often the gateway posted each event
    faults,     \* faults so far
    seen,       \* GatewayStateStore._seen_event_ids (memory)
    persisting, \* events accepted and not yet persisted (request threads)
    inbox,      \* events submitted to the order event executor (memory)
    row,        \* table gateway_event_log, per event id
    stubs,      \* events whose row was stored without their payload
    batch,      \* records claimed by the replay worker: attempts, or 0
    worker,     \* what each consumer thread is doing
    receipts,   \* table order_gateway_event_receipts: source event ids
    stopNewBuy, \* whether _fail_closed has saved STOP_NEW_BUY
    applied,    \* history: applications of each fill to the order
    exposed     \* history: fills whose receipt window was shared or cut off

vars == <<posts, faults, seen, persisting, inbox, row, stubs, batch, worker,
          receipts, stopNewBuy, applied, exposed>>

-----------------------------------------------------------------------------
\* Rows and workers.

Terminal == {"PROCESSED", "IGNORED", "DEAD_LETTER"}
Statuses == Terminal \cup {"ABSENT", "PENDING", "FAILED", "PROCESSING", "RETRY_WAIT"}

\* due counts the seconds until next_retry_at: the end of the lease of a
\* PROCESSING row, the next attempt of a RETRY_WAIT row.
LongestWait == IF Lease > RetryMax THEN Lease ELSE RetryMax
Row == [status : Statuses, attempts : Nat, due : 0..LongestWait]

\* "stop" saves STOP_NEW_BUY, before the dispatch of an event that has no row
\* and after the row of a failed one became DEAD_LETTER.
Steps == {"idle", "look", "apply", "save", "finish", "stop"}
Results == {"none", "APPLIED", "IGNORED", "DUPLICATE_ALREADY_APPLIED",
            "RETRYABLE", "FAILED"}

Idle == [step |-> "idle", event |-> NoEvent, attempts |-> 0, logged |-> FALSE,
         result |-> "none"]
Worker == [step : Steps, event : Events \cup {NoEvent}, attempts : Nat,
           logged : BOOLEAN, result : Results]

\* The worker is between its look for a receipt of fill f and the receipt.
InWindow(w, f) ==
    /\ worker[w].step \in {"apply", "save"}
    /\ FillOf[worker[w].event] = f

\* find_order_gateway_event_receipt: by source event id, then by dedupe key.
Receipt(e) == \E r \in receipts : FillOf[r] = FillOf[e]

Fault == /\ faults < MaxFaults
         /\ faults' = faults + 1

Init ==
    /\ posts = [e \in Events |-> 0]
    /\ faults = 0
    /\ seen = {}
    /\ persisting = {}
    /\ inbox = <<>>
    /\ row = [e \in Events |-> [status |-> "ABSENT", attempts |-> 0, due |-> 0]]
    /\ stubs = {}
    /\ batch = [e \in Events |-> 0]
    /\ worker = [w \in Workers |-> Idle]
    /\ receipts = {}
    /\ stopNewBuy = FALSE
    /\ applied = [f \in Fills |-> 0]
    /\ exposed = {}

-----------------------------------------------------------------------------
\* The request threads.

\* append_gateway_event: a row with the same dedupe key ("event:<event_id>")
\* keeps its state, a new one is PENDING.  When the payload cannot be
\* serialized, the row is a stub without it and FAILED.
Appended(e, status) ==
    IF row[e].status = "ABSENT" THEN [row EXCEPT ![e].status = status] ELSE row

\* record_event: an event already seen by this process is refused; a failed
\* append is only a warning.
RecordEvent(e) ==
    /\ posts[e] < MaxPosts
    /\ posts' = [posts EXCEPT ![e] = @ + 1]
    /\ e \notin seen
    /\ seen' = seen \cup {e}
    /\ persisting' = persisting \cup {e}
    /\ \/ row' = Appended(e, "PENDING") /\ UNCHANGED <<faults, stubs>>
       \/ /\ row' = Appended(e, "FAILED") /\ Fault
          /\ stubs' = IF row' = row THEN stubs ELSE stubs \cup {e}
       \/ row' = row /\ UNCHANGED stubs /\ Fault
    /\ UNCHANGED <<inbox, batch, worker, receipts, stopNewBuy, applied, exposed>>

\* The rest of _process_gateway_event: when _persist_gateway_event raises, the
\* request ends there; otherwise the supervisor submits the event to the order
\* event executor.
PersistEvent(e) ==
    /\ e \in persisting
    /\ persisting' = persisting \ {e}
    /\ \/ inbox' = Append(inbox, e) /\ faults' = faults
       \/ inbox' = inbox /\ Fault
    /\ UNCHANGED <<posts, stubs, seen, row, batch, worker, receipts, stopNewBuy, applied, exposed>>

-----------------------------------------------------------------------------
\* Claims.

Claimed(r) == [status |-> "PROCESSING", attempts |-> r.attempts + 1, due |-> Lease]

Working(w, e, step, attempts) ==
    [worker EXCEPT ![w] = [step |-> step, event |-> e, attempts |-> attempts,
                           logged |-> step = "look", result |-> "none"]]

\* consume_live_event and claim_event: a row that is not closed is taken, the
\* one another worker is processing too; an event without a row is dispatched
\* directly, after STOP_NEW_BUY has been saved if the event is critical.
TakeLiveEvent ==
    /\ worker["live"].step = "idle"
    /\ inbox # <<>>
    /\ inbox' = Tail(inbox)
    /\ LET e == Head(inbox) IN
         \/ /\ row[e].status = "ABSENT"
            /\ worker' = IF e \in Ignored THEN worker ELSE Working("live", e, "stop", 0)
            /\ row' = row
         \/ /\ row[e].status \in Terminal
            /\ UNCHANGED <<row, worker>>
         \/ /\ row[e].status \notin Terminal \cup {"ABSENT"}
            /\ row' = [row EXCEPT ![e] = Claimed(row[e])]
            /\ worker' = Working("live", e, "look", row[e].attempts + 1)
    /\ UNCHANGED <<posts, stubs, faults, seen, persisting, batch, receipts, stopNewBuy, applied, exposed>>

\* recover_stale_claims: rows whose lease has run out.
Recovered_Bug == row
Recovered ==
    [e \in Events |->
       IF row[e].status = "PROCESSING" /\ row[e].due = 0
       THEN [row[e] EXCEPT !.status = "PENDING"] ELSE row[e]]

\* The rows claim_pending_events selects, the earliest first, at most Batch.
Due(r) ==
    {e \in Events : \/ r[e].status = "PENDING"
                    \/ (r[e].status = "RETRY_WAIT" /\ r[e].due = 0)}
FirstDue(r) ==
    {e \in Due(r) : Cardinality({d \in Due(r) : ReceivedAt[d] < ReceivedAt[e]}) < Batch}

\* One round of the replay loop: recover_stale_claims, then the claims of
\* replay_pending.  The two are one step: whatever the live thread does to a
\* row between them has the same effect before the recovery, because a claim
\* renews the lease and closing a row overwrites its status.
ClaimBatch ==
    /\ worker["replay"].step = "idle"
    /\ \A e \in Events : batch[e] = 0
    /\ LET r == Recovered
           claimed == FirstDue(r) IN
         /\ r # row \/ claimed # {}
         /\ row' = [e \in Events |-> IF e \in claimed THEN Claimed(r[e]) ELSE r[e]]
         /\ batch' = [e \in Events |-> IF e \in claimed THEN r[e].attempts + 1 ELSE 0]
    /\ UNCHANGED <<posts, stubs, faults, seen, persisting, inbox, worker, receipts, stopNewBuy, applied, exposed>>

\* replay_pending consumes the claimed records one after another, as they were
\* when they were claimed.
TakeClaimedRecord(e) ==
    /\ worker["replay"].step = "idle"
    /\ batch[e] # 0
    /\ \A d \in Events : batch[d] # 0 => ReceivedAt[e] <= ReceivedAt[d]
    /\ worker' = Working("replay", e, "look", batch[e])
    /\ batch' = [batch EXCEPT ![e] = 0]
    /\ UNCHANGED <<posts, stubs, faults, seen, persisting, inbox, row, receipts, stopNewBuy, applied, exposed>>

-----------------------------------------------------------------------------
\* dispatch.

\* The record is a stub: what is decoded from it concerns no fill.
IsStub(w) == worker[w].logged /\ worker[w].event \in stubs

\* Mutant: the receipt is not looked for.
LookForReceipt_Bug(w) ==
    /\ worker[w].step = "look"
    /\ worker' = [worker EXCEPT ![w].step = "apply"]
    /\ UNCHANGED <<posts, stubs, faults, seen, persisting, inbox, row, batch, receipts, stopNewBuy, applied, exposed>>
\* The receipt lookup.  A stub is applied to no order: its record is reported
\* as applied or to be reconciled, which close the row alike.
LookForReceipt(w) ==
    /\ worker[w].step = "look"
    /\ LET e == worker[w].event IN
         \/ /\ e \in Ignored
            /\ worker' = [worker EXCEPT ![w].step = "finish", ![w].result = "IGNORED"]
            /\ exposed' = exposed
         \/ /\ e \notin Ignored /\ IsStub(w)
            /\ worker' = [worker EXCEPT ![w].step = "finish", ![w].result = "APPLIED"]
            /\ exposed' = exposed
         \/ /\ e \notin Ignored /\ ~IsStub(w)
            /\ Receipt(e)
            /\ worker' = [worker EXCEPT ![w].step = "finish",
                                        ![w].result = "DUPLICATE_ALREADY_APPLIED"]
            /\ exposed' = exposed
         \/ /\ e \notin Ignored /\ ~IsStub(w)
            /\ ~Receipt(e)
            /\ worker' = [worker EXCEPT ![w].step = "apply"]
            /\ exposed' = IF \E v \in Workers \ {w} : InWindow(v, FillOf[e])
                          THEN exposed \cup {FillOf[e]} ELSE exposed
    /\ UNCHANGED <<posts, stubs, faults, seen, persisting, inbox, row, batch, receipts, stopNewBuy, applied>>

\* apply_canonical_order_event.
ApplyEvent(w) ==
    /\ worker[w].step = "apply"
    /\ applied' = [applied EXCEPT ![FillOf[worker[w].event]] = @ + 1]
    /\ worker' = [worker EXCEPT ![w].step = "save"]
    /\ UNCHANGED <<posts, stubs, faults, seen, persisting, inbox, row, batch, receipts, stopNewBuy, exposed>>

\* _update_projection and save_order_gateway_event_receipt: the upsert is on
\* the source event id, so the dedupe key of another event's receipt raises.
SaveReceipt(w) ==
    /\ worker[w].step = "save"
    /\ LET e == worker[w].event IN
         IF e \in receipts \/ ~Receipt(e)
         THEN /\ receipts' = receipts \cup {e}
              /\ worker' = [worker EXCEPT ![w].step = "finish", ![w].result = "APPLIED"]
         ELSE /\ receipts' = receipts
              /\ worker' = [worker EXCEPT ![w].step = "finish", ![w].result = "FAILED"]
    /\ UNCHANGED <<posts, stubs, faults, seen, persisting, inbox, row, batch, stopNewBuy, applied, exposed>>

\* An exception in dispatch, with a text _is_retryable_error knows or not.
\* After the order has changed it leaves the fill without a receipt.
DispatchFails(w) ==
    /\ worker[w].step \in {"look", "apply", "save"}
    /\ \E result \in {"RETRYABLE", "FAILED"} :
         worker' = [worker EXCEPT ![w].step = "finish", ![w].result = result]
    /\ exposed' = IF worker[w].step = "save"
                  THEN exposed \cup {FillOf[worker[w].event]} ELSE exposed
    /\ UNCHANGED <<posts, stubs, faults, seen, persisting, inbox, row, batch, receipts, stopNewBuy, applied>>

-----------------------------------------------------------------------------
\* _finish_record.

\* The worker's next step when the row has been closed.
After(w) == [worker EXCEPT ![w] = Idle]

Closed(e, status) == [row EXCEPT ![e] = [@ EXCEPT !.status = status, !.due = 0]]

\* Mutant: the delay has no limit.
RetryDelay_Bug(attempts) == RetryBase * 2^(attempts - 1)

\* retry_base_sec * 2 ** (attempts - 1), at most retry_max_sec.
RetryDelay(attempts) ==
    LET delay == RetryBase * 2^(attempts - 1)
    IN  IF delay < RetryMax THEN delay ELSE RetryMax

\* The row is written whatever its status is by now; attempts are those of
\* the worker's copy of the record.
FinishRecord_Bug(w) ==
    /\ worker[w].step = "finish" /\ worker[w].logged
    /\ LET e == worker[w].event IN
         \/ /\ worker[w].result = "IGNORED"
            /\ row' = Closed(e, "IGNORED")
            /\ worker' = After(w)
         \/ /\ worker[w].result \in {"APPLIED", "DUPLICATE_ALREADY_APPLIED", "FAILED"}
            /\ row' = Closed(e, "PROCESSED")
            /\ worker' = After(w)
         \/ /\ worker[w].result = "RETRYABLE"
            /\ row' = [row EXCEPT ![e].status = "RETRY_WAIT",
                                  ![e].due = RetryDelay(worker[w].attempts)]
            /\ worker' = After(w)
    /\ UNCHANGED <<posts, stubs, faults, seen, persisting, inbox, batch, receipts, stopNewBuy, applied, exposed>>
FinishRecord(w) ==
    /\ worker[w].step = "finish" /\ worker[w].logged
    /\ LET e == worker[w].event
           retry == /\ worker[w].result = "RETRYABLE"
                    /\ worker[w].attempts < MaxAttempts IN
         \/ /\ worker[w].result = "IGNORED"
            /\ row' = Closed(e, "IGNORED")
            /\ worker' = After(w)
         \/ /\ worker[w].result \in {"APPLIED", "DUPLICATE_ALREADY_APPLIED"}
            /\ row' = Closed(e, "PROCESSED")
            /\ worker' = After(w)
         \/ /\ worker[w].result \in {"RETRYABLE", "FAILED"} /\ ~retry
            /\ row' = Closed(e, "DEAD_LETTER")
            /\ worker' = [worker EXCEPT ![w].step = "stop"]
         \/ /\ retry
            /\ row' = [row EXCEPT ![e].status = "RETRY_WAIT",
                                  ![e].due = RetryDelay(worker[w].attempts)]
            /\ worker' = After(w)
    /\ UNCHANGED <<posts, stubs, faults, seen, persisting, inbox, batch, receipts, stopNewBuy, applied, exposed>>

\* A directly dispatched event has no row to close.
FinishUnlogged(w) ==
    /\ worker[w].step = "finish" /\ ~worker[w].logged
    /\ worker' = After(w)
    /\ UNCHANGED <<posts, stubs, faults, seen, persisting, inbox, row, batch, receipts, stopNewBuy, applied, exposed>>

\* _fail_closed, then the dispatch of an unlogged event.
FailClosed(w) ==
    /\ worker[w].step = "stop"
    /\ stopNewBuy' = TRUE
    /\ worker' = IF worker[w].logged THEN After(w) ELSE [worker EXCEPT ![w].step = "look"]
    /\ UNCHANGED <<posts, stubs, faults, seen, persisting, inbox, row, batch, receipts, applied, exposed>>

\* Writing the row or the kill switch raises: the live consumer logs a warning,
\* the replay worker drops the rest of its batch.
ConsumerFails(w) ==
    /\ worker[w].step \in {"finish", "stop"}
    /\ worker[w].step = "finish" => worker[w].logged
    /\ Fault
    /\ worker' = After(w)
    /\ batch' = IF w = "replay" THEN [e \in Events |-> 0] ELSE batch
    /\ UNCHANGED <<posts, stubs, seen, persisting, inbox, row, receipts, stopNewBuy, applied, exposed>>

-----------------------------------------------------------------------------
\* The environment.

\* A second goes by.
Tick ==
    /\ \E e \in Events : row[e].due > 0
    /\ row' = [e \in Events |->
                 [row[e] EXCEPT !.due = IF @ > 0 THEN @ - 1 ELSE 0]]
    /\ UNCHANGED <<posts, stubs, faults, seen, persisting, inbox, batch, worker, receipts,
                   stopNewBuy, applied, exposed>>

\* The Core process stops and starts again: the tables remain.
Restart ==
    /\ Fault
    /\ seen' = {}
    /\ persisting' = {}
    /\ inbox' = <<>>
    /\ batch' = [e \in Events |-> 0]
    /\ worker' = [w \in Workers |-> Idle]
    /\ exposed' = exposed \cup {FillOf[worker[w].event] :
                                 w \in {v \in Workers : worker[v].step = "save"}}
    /\ UNCHANGED <<posts, stubs, row, receipts, stopNewBuy, applied>>

Step(w) ==
    \/ LookForReceipt(w) \/ ApplyEvent(w) \/ SaveReceipt(w) \/ DispatchFails(w)
    \/ FinishRecord(w) \/ FinishUnlogged(w) \/ FailClosed(w) \/ ConsumerFails(w)

Next ==
    \/ \E e \in Events : RecordEvent(e) \/ PersistEvent(e) \/ TakeClaimedRecord(e)
    \/ TakeLiveEvent
    \/ ClaimBatch
    \/ \E w \in Workers : Step(w)
    \/ Tick
    \/ Restart

Spec == Init /\ [][Next]_vars

\* The threads run, the replay loop sleeps and goes on, the clock advances.
FairSpec ==
    /\ Spec
    /\ WF_vars(TakeLiveEvent)
    /\ WF_vars(ClaimBatch \/ \E e \in Events : TakeClaimedRecord(e))
    /\ \A w \in Workers : WF_vars(Step(w))
    /\ WF_vars(Tick)

-----------------------------------------------------------------------------
\* Properties.

\* The tables and the threads have their types; no lease and no retry is set
\* further away than the lease or retry_max_sec.
TypeOK ==
    /\ posts \in [Events -> Nat]
    /\ faults \in Nat
    /\ seen \subseteq Events
    /\ persisting \subseteq Events
    /\ inbox \in Seq(Events)
    /\ row \in [Events -> Row]
    /\ stubs \subseteq Events
    /\ batch \in [Events -> Nat]
    /\ worker \in [Workers -> Worker]
    /\ receipts \subseteq Events
    /\ stopNewBuy \in BOOLEAN
    /\ applied \in [Fills -> Nat]
    /\ exposed \subseteq Fills

\* critical_backlog_snapshot["order_lifecycle_ready"]: no row is open or dead;
\* FAILED rows are not looked at.
Ready == \A e \in Events : row[e].status \in {"ABSENT", "FAILED", "PROCESSED", "IGNORED"}

\* Readiness can be believed: when the log reports order_lifecycle_ready, every
\* event that was logged with its payload and that the codec does not ignore has
\* been applied and receipted, however workers with lost leases, failed
\* dispatches and restarts rewrote the rows (_finish_record,
\* critical_backlog_snapshot).
ReadyMeansApplied ==
    Ready => \A e \in Events \ Ignored :
                row[e].status # "ABSENT" /\ e \notin stubs => Receipt(e) /\ applied[FillOf[e]] > 0

\* A fill reaches the order at most once, under however many event ids, posts,
\* retries and restarts, unless its receipt window was cut off (dispatch failed
\* or the Core stopped between apply_canonical_order_event and the receipt) or
\* shared (the live consumer took a row the replay worker was processing).
AppliedOnceUnlessExposed ==
    \A f \in Fills : applied[f] > 1 => f \in exposed

\* The backlog drains: whatever the threads do, in the end every logged event
\* is closed for good, or was never open (FAILED), because stale claims are
\* recovered and a failing event ends as a dead letter.  An event whose
\* persisting raised is included: its second post is refused, the replay worker
\* still consumes it.
BacklogDrains ==
    <>[](\A e \in Events : row[e].status \in Terminal \cup {"ABSENT", "FAILED"})

-----------------------------------------------------------------------------
\* Statements of the repository's documents and tests that the code does not
\* keep.  README.md tells on which instance TLC refutes each.

\* docs/realtime_architecture_v2.md: a duplicate fill is a no-op because of
\* its receipt, so no fill is ever applied a second time.
AppliedOnce == \A f \in Fills : applied[f] <= 1

\* docs/runtime_reliability_qualification_runbook.md, F08: when appending a
\* critical event failed, STOP_NEW_BUY is set and order_lifecycle_ready is
\* false (once the live consumer has noticed).
AppendFailureNotReady ==
    (\E e \in seen \ Ignored : row[e].status \in {"ABSENT", "FAILED"}) /\ stopNewBuy => ~Ready

=============================================================================
