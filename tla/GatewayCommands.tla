--------------------------- MODULE GatewayCommands ---------------------------
(***************************************************************************)
(* The Core side of the command channel to the 32-bit Kiwoom gateway:      *)
(* GatewayStateStore (one lock around every operation) keeps an in-memory  *)
(* CommandQueue and writes through to SQLiteCommandStore, whose tables are *)
(* the command rows and the retained dedupe ledger.                        *)
(*                                                                         *)
(* Every operation below is one critical section of GatewayStateStore.     *)
(* Its memory half always happens; its SQLite half may raise ("ok" is      *)
(* FALSE, or only a prefix of a batch is stored), and the Core process may *)
(* restart between any two operations, losing the memory half.             *)
(*                                                                         *)
(* Gateway events are applied here in any order, late, or repeatedly, for  *)
(* any command that was ever delivered; GatewayLink says which of these    *)
(* sequences the real gateway and transport produce.                       *)
(***************************************************************************)
EXTENDS Integers, FiniteSets

CONSTANTS
    Ids,          \* command ids
    Keys,         \* dedupe keys
    NoId,         \* owner of an absent ledger row
    KeyOf,        \* dedupe_key_for_command: the key of each id
    Kind,         \* the command class of each id
    Rank,         \* (priority, class) rank of each id, lower goes first
    TTL,          \* seconds until expires_at, already clamped to at least 1
    MaxAttempts,  \* already clamped to at least 1
    Retention,    \* TRADING_COMMAND_DEDUPE_RETENTION_SEC
    Limits,       \* batch limits a poll may ask for
    ExpireStaleDispatched, \* TRADING_COMMAND_RECOVERY_EXPIRE_STALE_DISPATCHED
    MaxTime       \* bound: the clock stops here and no TTL reaches past it

Kinds == {"order", "register", "condition", "backfill", "other"}

ASSUME ConstantsAssumption ==
    /\ NoId \notin Ids
    /\ KeyOf \in [Ids -> Keys]
    /\ Kind \in [Ids -> Kinds]
    /\ Rank \in [Ids -> Nat]
    /\ TTL \in [Ids -> Nat \ {0}]
    /\ MaxAttempts \in [Ids -> Nat \ {0}]
    /\ Retention \in Nat \ {0}
    /\ Limits \subseteq Nat \ {0}
    /\ ExpireStaleDispatched \in BOOLEAN
    /\ MaxTime \in Nat

\* send_order, cancel_order and modify_order.
Orders == {i \in Ids : Kind[i] = "order"}

\* The keys of orders are built from order fields or from idempotency keys of
\* the order paths, and no other command uses them.
ASSUME OrderKeysAssumption ==
    \A i \in Orders, j \in Ids : KeyOf[i] = KeyOf[j] => j \in Orders

\* An order expires before its dedupe key does (30 seconds against a day).
ASSUME RetentionAssumption == \A i \in Orders : TTL[i] <= Retention

VARIABLES
    now,      \* wall clock, whole seconds
    mem,      \* CommandQueue._records
    store,    \* table gateway_commands
    ledger,   \* table gateway_command_dedupe_keys
    issued,   \* history: ids ever accepted
    sent,     \* history: deliveries of an id since it was last accepted
    delivered,\* history: ids ever delivered to the gateway
    lastSent  \* history: when an order with this key was last delivered, or 0

vars == <<now, mem, store, ledger, issued, sent, delivered, lastSent>>
history == <<issued, sent, delivered, lastSent>>

-----------------------------------------------------------------------------
\* Records and ledger rows.

Active == {"QUEUED", "DISPATCHED"}
\* SKIPPED stands for the SKIPPED_* family, EXPIRED_BEFORE_DISPATCH and
\* DUPLICATED_BUCKET, which no operation tells apart.
Finished == {"ACKED", "REJECTED", "FAILED", "EXPIRED", "CANCELLED", "SKIPPED"}
Statuses == Active \cup Finished

Record == [status : Statuses \cup {"ABSENT"}, attempts : Nat, expires : Nat]
Absent == [status |-> "ABSENT", attempts |-> 0, expires |-> 0]
Present(r) == r.status # "ABSENT"

NewRecord(i) == [status |-> "QUEUED", attempts |-> 0, expires |-> now + TTL[i]]
WithStatus(r, s) == [r EXCEPT !.status = s]
IsExpired(r) == now >= r.expires

LedgerRow == [owner : Ids \cup {NoId}, expires : Nat]
NoRow == [owner |-> NoId, expires |-> 0]

\* Mutants: the retention is subtracted; orders are not retained.
DedupeExpiresAt_Past(i, r) == now - Retention
DedupeExpiresAt_OwnTTL(i, r) == r.expires

DedupeExpiresAt(i, r) ==
    IF Kind[i] \in {"order", "register"} THEN now + Retention ELSE r.expires

\* Mutant: only commands that are still active in memory block a key.
HeldByOther_MemoryOnly(i) ==
    \E j \in Ids \ {i} : KeyOf[j] = KeyOf[i] /\ mem[j].status \in Active

\* The ledger row blocks i: it is unexpired and belongs to another command.
HeldByOther(i) ==
    /\ ledger[KeyOf[i]].expires > now
    /\ ledger[KeyOf[i]].owner # i

\* Upserting the ids of S one after the other leaves, on each key they touch,
\* the row of whichever was written last.
LastWriters(S) ==
    {w \in [Keys -> S \cup {NoId}] :
        \A k \in Keys :
            IF \E i \in S : KeyOf[i] = k
            THEN w[k] \in S /\ KeyOf[w[k]] = k
            ELSE w[k] = NoId}

LedgerAfter(w, recs) ==
    [k \in Keys |->
        IF w[k] = NoId
        THEN ledger[k]
        ELSE [owner |-> w[k], expires |-> DedupeExpiresAt(w[k], recs[w[k]])]]

\* Upsert of the single record r of command i.
Claimed(i, r) ==
    [ledger EXCEPT ![KeyOf[i]] = [owner |-> i, expires |-> DedupeExpiresAt(i, r)]]

ExpireOld(recs, open) ==
    [i \in Ids |->
        IF recs[i].status \in open /\ IsExpired(recs[i])
        THEN WithStatus(recs[i], "EXPIRED")
        ELSE recs[i]]

-----------------------------------------------------------------------------
Init ==
    /\ now = 1
    /\ mem = [i \in Ids |-> Absent]
    /\ store = [i \in Ids |-> Absent]
    /\ ledger = [k \in Keys |-> NoRow]
    /\ issued = {}
    /\ sent = [i \in Ids |-> 0]
    /\ delivered = {}
    /\ lastSent = [k \in Keys |-> 0]

Tick ==
    /\ now < MaxTime
    /\ now' = now + 1
    /\ UNCHANGED <<mem, store, ledger, history>>

\* enqueue_command, the accepted case: one SQLite transaction inserts the row
\* and the ledger row, then the record enters the memory queue. Orders carry a
\* fresh uuid; the REST endpoint lets a client repeat the id of other commands.
\* A refused command changes nothing.
EnqueueCommand(i) ==
    /\ i \in Orders => i \notin issued
    /\ now + TTL[i] <= MaxTime
    /\ ~Present(store[i])
    /\ ~HeldByOther(i)
    /\ mem' = [mem EXCEPT ![i] = NewRecord(i)]
    /\ store' = [store EXCEPT ![i] = NewRecord(i)]
    /\ ledger' = Claimed(i, NewRecord(i))
    /\ issued' = issued \cup {i}
    /\ sent' = [sent EXCEPT ![i] = 0]
    /\ UNCHANGED <<now, delivered, lastSent>>

\* created_at order within a rank; equal seconds fall back to insertion order,
\* which is left open.
Before(recs, i, j) ==
    \/ Rank[i] < Rank[j]
    \/ Rank[i] = Rank[j] /\ recs[i].expires - TTL[i] < recs[j].expires - TTL[j]

Queued(recs) == {i \in Ids : recs[i].status = "QUEUED"}
Ready(recs) == {i \in Queued(recs) : recs[i].attempts < MaxAttempts[i]}

\* The ids one call of dispatch may select from recs.
Selections(recs, limit) ==
    {S \in SUBSET Ready(recs) :
        /\ Cardinality(S) <= limit
        /\ Cardinality(S) < limit => S = Ready(recs)
        /\ \A i \in S, j \in Ready(recs) \ S : ~Before(recs, j, i)}

\* Queued records that ran out of attempts and come before the last selected.
Exhausted(recs, S, limit) ==
    {i \in Queued(recs) \ Ready(recs) :
        Cardinality(S) < limit \/ \E j \in S : Before(recs, i, j)}

\* Mutant: the attempt is not counted.
AfterDispatch_NoCount(recs, S, limit) ==
    [i \in Ids |-> IF i \in S THEN WithStatus(recs[i], "DISPATCHED") ELSE recs[i]]

AfterDispatch(recs, S, limit) ==
    [i \in Ids |->
        IF i \in S
        THEN [recs[i] EXCEPT !.status = "DISPATCHED", !.attempts = @ + 1]
        ELSE IF i \in Exhausted(recs, S, limit)
             THEN WithStatus(recs[i], "FAILED")
             ELSE recs[i]]

\* Mutant: only the memory queue is swept.
DispatchStep_NoRowSweep(S, kept, limit) ==
    LET swept == ExpireOld(mem, Active)
        recs  == AfterDispatch(swept, S, limit)
    IN  /\ S \in Selections(swept, limit)
        /\ kept \in SUBSET S
        /\ mem' = recs
        /\ store' = [i \in Ids |-> IF i \in kept THEN recs[i] ELSE store[i]]
        /\ \E w \in LastWriters(kept) : ledger' = LedgerAfter(w, recs)
        /\ UNCHANGED <<now, issued>>

\* dispatch_commands: expire the rows, expire and select in memory, then write
\* each selected record back. Only the ids of kept reach the store.
DispatchStep(S, kept, limit) ==
    LET swept == ExpireOld(mem, Active)
        rows  == ExpireOld(store, Active)
        recs  == AfterDispatch(swept, S, limit)
    IN  /\ S \in Selections(swept, limit)
        /\ kept \in SUBSET S
        /\ \A i \in kept, j \in S \ kept : ~Before(swept, j, i)
        /\ mem' = recs
        /\ store' = [i \in Ids |-> IF i \in kept THEN recs[i] ELSE rows[i]]
        /\ \E w \in LastWriters(kept) : ledger' = LedgerAfter(w, recs)
        /\ UNCHANGED <<now, issued>>

\* The whole batch is stored and the poll response reaches the gateway.
Dispatch(S, limit) ==
    /\ DispatchStep(S, S, limit)
    /\ sent' = [i \in Ids |-> IF i \in S THEN sent[i] + 1 ELSE sent[i]]
    /\ delivered' = delivered \cup S
    /\ lastSent' = [k \in Keys |->
                      IF \E i \in S \cap Orders : KeyOf[i] = k THEN now ELSE lastSent[k]]

\* A write-back raises after the ids of kept, or the response is lost: the
\* memory queue has moved on and nothing is delivered.
DispatchLost(S, kept, limit) ==
    /\ DispatchStep(S, kept, limit)
    /\ UNCHANGED <<sent, delivered, lastSent>>

\* ack_command: neither half looks at the current status, and either half may
\* not know the command.
AckCommand(i, s, ok) ==
    /\ mem' = IF Present(mem[i])
              THEN [mem EXCEPT ![i].status = s]
              ELSE mem
    /\ store' = IF ok /\ Present(store[i])
                THEN [store EXCEPT ![i].status = s,
                                   ![i].attempts = IF s = "DISPATCHED" /\ @ = 0 THEN 1 ELSE @]
                ELSE store
    /\ UNCHANGED <<now, ledger, history>>

\* Mutant: one retry too many.
Failed_OffByOne(i, r, retryable) ==
    WithStatus(r, IF retryable /\ r.attempts <= MaxAttempts[i] /\ ~IsExpired(r)
                  THEN "QUEUED" ELSE "FAILED")

\* CommandQueue.fail
Failed(i, r, retryable) ==
    WithStatus(r, IF retryable /\ r.attempts < MaxAttempts[i] /\ ~IsExpired(r)
                  THEN "QUEUED" ELSE "FAILED")

\* fail_command: a command the memory queue knows is written back whole, one
\* it has forgotten only gets its row marked.
FailCommand(i, retryable, ok) ==
    /\ \/ /\ Present(mem[i])
          /\ LET r == Failed(i, mem[i], retryable)
             IN  /\ mem' = [mem EXCEPT ![i] = r]
                 /\ store' = IF ok THEN [store EXCEPT ![i] = r] ELSE store
                 /\ ledger' = IF ok THEN Claimed(i, r) ELSE ledger
       \/ /\ ~Present(mem[i])
          /\ store' = IF ok /\ Present(store[i])
                      THEN [store EXCEPT ![i].status = "FAILED"]
                      ELSE store
          /\ UNCHANGED <<mem, ledger>>
    /\ UNCHANGED <<now, history>>

\* Mutant: the stored row is cancelled whatever its status.
CancelCommand_AnyRow(i, ok) ==
    /\ mem[i].status # "QUEUED"
    /\ Present(store[i])
    /\ store' = [store EXCEPT ![i].status = "CANCELLED"]
    /\ UNCHANGED <<now, mem, ledger, history>>

\* cancel_command: only what is still queued.
CancelCommand(i, ok) ==
    /\ \/ /\ mem[i].status = "QUEUED"
          /\ LET r == WithStatus(mem[i], "CANCELLED")
             IN  /\ mem' = [mem EXCEPT ![i] = r]
                 /\ store' = IF ok THEN [store EXCEPT ![i] = r] ELSE store
                 /\ ledger' = IF ok THEN Claimed(i, r) ELSE ledger
       \/ /\ mem[i].status # "QUEUED"
          /\ store[i].status = "QUEUED"
          /\ store' = [store EXCEPT ![i].status = "CANCELLED"]
          /\ UNCHANGED <<mem, ledger>>
    /\ UNCHANGED <<now, history>>

\* expire_old_commands: every EXPIRED record still in memory, old or new, is
\* written back whole.
ExpireOldCommands ==
    LET recs == ExpireOld(mem, Active)
        rows == ExpireOld(store, Active)
        S    == {i \in Ids : recs[i].status = "EXPIRED"}
    IN  /\ mem' = recs
        /\ store' = [i \in Ids |-> IF i \in S THEN recs[i] ELSE rows[i]]
        /\ \E w \in LastWriters(S) : ledger' = LedgerAfter(w, recs)
        /\ UNCHANGED <<now, history>>

\* prune_commands with a store: finished rows older than a cut-off the caller
\* chooses, then expired ledger rows. The memory queue is not pruned.
PruneCommands(S) ==
    /\ S \subseteq {i \in Ids : store[i].status \in Finished}
    /\ store' = [i \in Ids |-> IF i \in S THEN Absent ELSE store[i]]
    /\ ledger' = [k \in Keys |-> IF ledger[k].expires <= now THEN NoRow ELSE ledger[k]]
    /\ UNCHANGED <<now, mem, history>>

\* Mutant: dispatched rows are recovered as queued.
Restart_Redispatch ==
    LET rows == ExpireOld(store, Active)
    IN  /\ store' = rows
        /\ mem' = [i \in Ids |-> IF rows[i].status \in Active
                                 THEN WithStatus(rows[i], "QUEUED") ELSE Absent]
        /\ UNCHANGED <<now, ledger, history>>

\* The Core process restarts and recover_from_store rebuilds the queue.
Restart ==
    LET rows == ExpireOld(store, IF ExpireStaleDispatched THEN Active ELSE {"QUEUED"})
    IN  /\ store' = rows
        /\ mem' = [i \in Ids |-> IF rows[i].status = "QUEUED" THEN rows[i] ELSE Absent]
        /\ UNCHANGED <<now, ledger, history>>

-----------------------------------------------------------------------------
\* Gateway events as _persist_gateway_event applies them.

CommandStarted(i, ok) == AckCommand(i, "DISPATCHED", ok)

\* Mutant: the reported status is ignored.
CommandAcked_AlwaysAcked(i, s, ok) == AckCommand(i, "ACKED", ok)

CommandAcked(i, s, ok) ==
    IF s = "FAILED" THEN FailCommand(i, FALSE, ok) ELSE AckCommand(i, s, ok)

CommandFailed(i, retryable, ok) == FailCommand(i, retryable /\ i \notin Orders, ok)

GatewayEvent(i) ==
    /\ i \in delivered
    /\ \E ok \in BOOLEAN :
          \/ CommandStarted(i, ok)
          \/ \E s \in {"ACKED", "REJECTED", "FAILED"} : CommandAcked(i, s, ok)
          \/ \E retryable \in BOOLEAN : CommandFailed(i, retryable, ok)

\* Core's own sweeps close commands through the same ack_command: backfill
\* requests it no longer wants (listed as QUEUED), dispatched non-order commands
\* it gave up on (their timeout is left open), and condition acks of an old
\* session.  A sweep lists the records, leaves the lock and acknowledges what it
\* listed later, one by one: by then the command may have been dispatched, have
\* finished, been pruned or be forgotten.  When the list was taken is left open.
SweepCommand(i) ==
    /\ i \in issued
    /\ \E ok \in BOOLEAN :
          \/ Kind[i] = "backfill" /\ AckCommand(i, "SKIPPED", ok)
          \/ Kind[i] \in {"register", "condition", "backfill"} /\ AckCommand(i, "EXPIRED", ok)

Poll == \E limit \in Limits, S \in SUBSET Ids : Dispatch(S, limit)

PollLost ==
    \E limit \in Limits, S \in SUBSET Ids : \E kept \in SUBSET S : DispatchLost(S, kept, limit)

Next ==
    \/ Tick
    \/ Poll
    \/ PollLost
    \/ ExpireOldCommands
    \/ Restart
    \/ \E S \in SUBSET Ids : PruneCommands(S)
    \/ \E i \in Ids :
          \/ EnqueueCommand(i)
          \/ GatewayEvent(i)
          \/ SweepCommand(i)
          \/ \E ok \in BOOLEAN : CancelCommand(i, ok)

Spec == Init /\ [][Next]_vars

\* The gateway keeps polling and the clock keeps running; nothing else is fair.
FairSpec == Spec /\ WF_vars(Tick) /\ WF_vars(Poll)

-----------------------------------------------------------------------------
\* Properties.

\* Every variable stays in its type.
TypeOK ==
    /\ now \in Nat
    /\ mem \in [Ids -> Record]
    /\ store \in [Ids -> Record]
    /\ ledger \in [Keys -> LedgerRow]
    /\ issued \in SUBSET Ids
    /\ sent \in [Ids -> Nat]
    /\ delivered \in SUBSET Ids
    /\ lastSent \in [Keys -> Nat]

\* A queued command always has an attempt left, in memory and in its row, so
\* the MAX_ATTEMPTS_EXCEEDED branch of dispatch (whose FAILED is never written
\* back to SQLite) is never taken, whatever events arrive and across restarts.
QueuedHasAttemptLeft ==
    \A i \in Ids :
        /\ mem[i].status = "QUEUED" => mem[i].attempts < MaxAttempts[i]
        /\ store[i].status = "QUEUED" => store[i].attempts < MaxAttempts[i]

\* A command is delivered at most max_attempts times per acceptance, although
\* the attempt counter lives in memory, is copied to SQLite and is read back
\* after a restart.
DeliveriesBounded == \A i \in Ids : sent[i] <= MaxAttempts[i]

\* The record is an unexpired one.
Fresh(r) == Present(r) /\ now < r.expires
FreshId(i) == Fresh(mem[i]) \/ Fresh(store[i])

\* Two unexpired order commands never share a dedupe key, although the ledger
\* is rewritten by late failures, expiry sweeps and pruning.
OneFreshOrderPerKey ==
    \A i, j \in Orders : FreshId(i) /\ FreshId(j) /\ KeyOf[i] = KeyOf[j] => i = j

\* A delivered order is never queued again: no restart, late event or sweep
\* makes Core send it a second time.
DeliveredOrderNotQueued ==
    \A i \in Orders : sent[i] > 0 => mem[i].status # "QUEUED" /\ store[i].status # "QUEUED"

\* No command stays open forever: once queued or dispatched, in memory or in
\* its row, it is eventually closed in both, even when the acks are lost, the
\* memory queue has forgotten it, a write-back failed or events reopen it.
OpenCommand(i) == mem[i].status \in Active \/ store[i].status \in Active

OpenCommandsClose == \A i \in Ids : OpenCommand(i) ~> ~OpenCommand(i)

\* Once the cancellation of an order is stored it is out for good: it was not
\* delivered, and no later poll or restart delivers it.
CancelledOrderNotSent ==
    \A i \in Orders :
        store[i].status = "CANCELLED" => sent[i] = 0 /\ mem[i].status # "QUEUED"

\* The channel as the order paths see it. An order is pending while either copy
\* could still be dispatched, by this process or by the next one.
OrderPhase(i) ==
    IF i \notin issued THEN "none"
    ELSE IF sent[i] > 0 THEN "sent"
    ELSE IF "QUEUED" \in {mem[i].status, store[i].status} THEN "pending"
    ELSE "withdrawn"

Delivery == INSTANCE OrderDelivery
              WITH clock <- now, phase <- [i \in Orders |-> OrderPhase(i)], sentAt <- lastSent

\* The queue, its database, restarts, lost responses and late events implement
\* at-most-once delivery of orders.
ImplementsOrderDelivery == Delivery!Spec

-----------------------------------------------------------------------------
\* What the safety properties rest on, as one inductive invariant.

\* Both copies of the attempt counter count at least the deliveries.
AttemptsCoverDeliveries ==
    \A i \in Ids :
        /\ sent[i] <= MaxAttempts[i]
        /\ \A r \in {mem[i], store[i]} :
              Present(r) => sent[i] <= r.attempts /\ r.attempts <= MaxAttempts[i]

\* Only accepted commands have records or own keys.
OnlyIssued ==
    /\ \A i \in Ids : Present(mem[i]) \/ Present(store[i]) => i \in issued
    /\ \A k \in Keys : ledger[k].owner \in issued \cup {NoId}

\* No record outlives its TTL counted from now.
ExpiryBounded ==
    \A i \in Ids : \A r \in {mem[i], store[i]} : Present(r) => r.expires <= now + TTL[i]

\* The ledger keeps the key of an unexpired order at least as long as the order
\* lives, whichever command wrote the row last.
LedgerCoversFreshOrders ==
    \A i \in Orders : \A r \in {mem[i], store[i]} :
        Fresh(r) => r.expires <= ledger[KeyOf[i]].expires

\* The ledger keeps the key of a delivered order for the retention period, and
\* no unexpired order waits in the queue on such a key.
RecentlySent(k) == lastSent[k] > 0 /\ now < lastSent[k] + Retention

LedgerCoversSentOrders ==
    \A i \in Orders :
        LET k == KeyOf[i]
        IN  /\ lastSent[k] <= now
            /\ RecentlySent(k) => lastSent[k] + Retention <= ledger[k].expires
            /\ RecentlySent(k) =>
                  \A r \in {mem[i], store[i]} : ~(r.status = "QUEUED" /\ Fresh(r))

IInv ==
    /\ TypeOK
    /\ QueuedHasAttemptLeft
    /\ AttemptsCoverDeliveries
    /\ OnlyIssued
    /\ ExpiryBounded
    /\ LedgerCoversFreshOrders
    /\ OneFreshOrderPerKey
    /\ DeliveredOrderNotQueued
    /\ CancelledOrderNotSent
    /\ LedgerCoversSentOrders

-----------------------------------------------------------------------------
\* Statements of the repository's documents and tests that the code does not
\* keep.  README.md tells on which instance TLC refutes each.

\* An unexpired command is never on the queue while another unexpired command
\* with its dedupe key is on the queue too.
OneFreshActivePerKey ==
    \A i, j \in Ids :
        /\ KeyOf[i] = KeyOf[j]
        /\ \A h \in {i, j} : store[h].status \in Active /\ Fresh(store[h])
        => i = j

=============================================================================
