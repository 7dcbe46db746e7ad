------------------------ MODULE GatewayCommandsProofs ------------------------
(***************************************************************************)
(* Proofs about GatewayCommands, for every set of commands, keys, TTLs,    *)
(* attempt limits, retention period and recovery setting.                  *)
(***************************************************************************)
EXTENDS GatewayCommands, TLAPS

-----------------------------------------------------------------------------
\* The helpers stay in their types.

LEMMA WithStatusType ==
  ASSUME NEW r \in Record, NEW s \in Statuses
  PROVE  WithStatus(r, s) \in Record
  BY DEF WithStatus, Record

LEMMA ExpireOldType ==
  ASSUME NEW recs \in [Ids -> Record], NEW open
  PROVE  ExpireOld(recs, open) \in [Ids -> Record]
  BY DEF ExpireOld, WithStatus, Record, Statuses, Finished

LEMMA DedupeType ==
  ASSUME now \in Nat, NEW i \in Ids, NEW r \in Record
  PROVE  DedupeExpiresAt(i, r) \in Nat
  BY ConstantsAssumption DEF DedupeExpiresAt, Record

LEMMA ClaimedType ==
  ASSUME TypeOK, NEW i \in Ids, NEW r \in Record
  PROVE  Claimed(i, r) \in [Keys -> LedgerRow]
  BY DedupeType, ConstantsAssumption DEF TypeOK, Claimed, LedgerRow

LEMMA LedgerAfterType ==
  ASSUME TypeOK, NEW S \in SUBSET Ids, NEW w \in LastWriters(S),
         NEW recs \in [Ids -> Record]
  PROVE  LedgerAfter(w, recs) \in [Keys -> LedgerRow]
<1>1. ASSUME NEW k \in Keys, w[k] # NoId
      PROVE  w[k] \in Ids /\ recs[w[k]] \in Record
  BY <1>1 DEF LastWriters
<1>2. ASSUME NEW k \in Keys, w[k] # NoId
      PROVE  [owner |-> w[k], expires |-> DedupeExpiresAt(w[k], recs[w[k]])] \in LedgerRow
  BY <1>1, <1>2, DedupeType DEF TypeOK, LedgerRow
<1> QED BY <1>2 DEF LedgerAfter, TypeOK

LEMMA NewRecordType ==
  ASSUME now \in Nat, NEW i \in Ids
  PROVE  NewRecord(i) \in Record
  BY ConstantsAssumption DEF NewRecord, Record, Statuses, Active

LEMMA AfterDispatchType ==
  ASSUME NEW recs \in [Ids -> Record], NEW S, NEW limit
  PROVE  AfterDispatch(recs, S, limit) \in [Ids -> Record]
<1>1. ASSUME NEW r \in Record
      PROVE  [r EXCEPT !.status = "DISPATCHED", !.attempts = @ + 1] \in Record
  <2>1. r.attempts + 1 \in Nat BY DEF Record
  <2>2. "DISPATCHED" \in Statuses BY DEF Statuses, Active
  <2> QED BY <2>1, <2>2 DEF Record
<1>2. ASSUME NEW r \in Record PROVE WithStatus(r, "FAILED") \in Record
  BY WithStatusType DEF Statuses, Finished
<1> QED BY <1>1, <1>2 DEF AfterDispatch

LEMMA FailedType ==
  ASSUME NEW i \in Ids, NEW r \in Record, NEW retryable
  PROVE  Failed(i, r, retryable) \in Record
  BY WithStatusType DEF Failed, Statuses, Active, Finished

LEMMA AckType ==
  ASSUME TypeOK, NEW i \in Ids, NEW s \in Statuses, NEW ok, AckCommand(i, s, ok)
  PROVE  TypeOK'
<1>1. ASSUME NEW r \in Record
      PROVE  /\ [r EXCEPT !.status = s] \in Record
             /\ [r EXCEPT !.status = s,
                          !.attempts = IF s = "DISPATCHED" /\ @ = 0 THEN 1 ELSE @] \in Record
  BY DEF Record
<1>2. mem' \in [Ids -> Record] BY <1>1 DEF AckCommand, TypeOK
<1>3. store' \in [Ids -> Record] BY <1>1 DEF AckCommand, TypeOK
<1> QED BY <1>2, <1>3 DEF AckCommand, TypeOK, history

LEMMA FailType ==
  ASSUME TypeOK, NEW i \in Ids, NEW retryable, NEW ok, FailCommand(i, retryable, ok)
  PROVE  TypeOK'
<1> DEFINE r == Failed(i, mem[i], retryable)
<1>1. r \in Record BY FailedType DEF TypeOK
<1>2. Claimed(i, r) \in [Keys -> LedgerRow] BY <1>1, ClaimedType
<1>3. [store[i] EXCEPT !.status = "FAILED"] \in Record
  BY DEF TypeOK, Record, Statuses, Finished
<1> HIDE DEF r
<1>4. mem' \in [Ids -> Record] BY <1>1 DEF FailCommand, TypeOK, r
<1>5. store' \in [Ids -> Record] BY <1>1, <1>3 DEF FailCommand, TypeOK, r
<1>6. ledger' \in [Keys -> LedgerRow] BY <1>2 DEF FailCommand, TypeOK, r
<1> QED BY <1>4, <1>5, <1>6 DEF FailCommand, TypeOK, history

LEMMA DispatchStepType ==
  ASSUME TypeOK, NEW S \in SUBSET Ids, NEW kept \in SUBSET S, NEW limit,
         DispatchStep(S, kept, limit)
  PROVE  /\ mem' \in [Ids -> Record]
         /\ store' \in [Ids -> Record]
         /\ ledger' \in [Keys -> LedgerRow]
         /\ now' \in Nat
         /\ issued' \in SUBSET Ids
<1> DEFINE recs == AfterDispatch(ExpireOld(mem, Active), S, limit)
<1>1. recs \in [Ids -> Record] BY AfterDispatchType, ExpireOldType DEF TypeOK
<1>2. ExpireOld(store, Active) \in [Ids -> Record] BY ExpireOldType DEF TypeOK
<1> HIDE DEF recs
<1>3. PICK w \in LastWriters(kept) : ledger' = LedgerAfter(w, recs)
  BY DEF DispatchStep, recs
<1>4. ledger' \in [Keys -> LedgerRow] BY <1>1, <1>3, LedgerAfterType
<1>5. store' \in [Ids -> Record] BY <1>1, <1>2 DEF DispatchStep, recs
<1> QED BY <1>1, <1>4, <1>5 DEF DispatchStep, TypeOK, recs

-----------------------------------------------------------------------------
\* Type correctness.

LEMMA TypeOKStep ==
  ASSUME TypeOK, [Next]_vars
  PROVE  TypeOK'
<1>1. CASE Tick
  BY <1>1 DEF Tick, TypeOK, history
<1>2. CASE Poll
  <2>1. PICK limit \in Limits, S \in SUBSET Ids : Dispatch(S, limit)
    BY <1>2 DEF Poll
  <2>2. DispatchStep(S, S, limit) BY <2>1 DEF Dispatch
  <2>3. sent' \in [Ids -> Nat] BY <2>1 DEF Dispatch, TypeOK
  <2>4. delivered' \in SUBSET Ids BY <2>1 DEF Dispatch, TypeOK
  <2>5. lastSent' \in [Keys -> Nat] BY <2>1 DEF Dispatch, TypeOK
  <2> QED BY <2>2, <2>3, <2>4, <2>5, DispatchStepType DEF TypeOK
<1>3. CASE PollLost
  <2>1. PICK limit \in Limits, S \in SUBSET Ids :
           \E kept \in SUBSET S : DispatchLost(S, kept, limit)
    BY <1>3 DEF PollLost
  <2> QED BY <2>1, DispatchStepType DEF DispatchLost, TypeOK
<1>4. CASE ExpireOldCommands
  <2> DEFINE recs == ExpireOld(mem, Active)
             S    == {i \in Ids : recs[i].status = "EXPIRED"}
  <2>1. recs \in [Ids -> Record] BY ExpireOldType DEF TypeOK
  <2>2. ExpireOld(store, Active) \in [Ids -> Record] BY ExpireOldType DEF TypeOK
  <2> HIDE DEF recs
  <2>3. PICK w \in LastWriters(S) : ledger' = LedgerAfter(w, recs)
    BY <1>4 DEF ExpireOldCommands, recs
  <2>4. ledger' \in [Keys -> LedgerRow] BY <2>1, <2>3, LedgerAfterType
  <2>5. store' \in [Ids -> Record] BY <1>4, <2>1, <2>2 DEF ExpireOldCommands, recs
  <2> QED BY <1>4, <2>1, <2>4, <2>5 DEF ExpireOldCommands, TypeOK, recs, history
<1>5. CASE Restart
  <2>1. ASSUME NEW open PROVE ExpireOld(store, open) \in [Ids -> Record]
    BY ExpireOldType DEF TypeOK
  <2>2. Absent \in Record BY DEF Absent, Record
  <2> QED BY <1>5, <2>1, <2>2 DEF Restart, TypeOK, history
<1>6. CASE \E S \in SUBSET Ids : PruneCommands(S)
  <2>1. Absent \in Record /\ NoRow \in LedgerRow BY DEF Absent, Record, NoRow, LedgerRow
  <2> QED BY <1>6, <2>1 DEF PruneCommands, TypeOK, history
<1>7. ASSUME NEW i \in Ids, EnqueueCommand(i) PROVE TypeOK'
  <2>1. NewRecord(i) \in Record BY NewRecordType DEF TypeOK
  <2>2. Claimed(i, NewRecord(i)) \in [Keys -> LedgerRow] BY <2>1, ClaimedType
  <2> QED BY <1>7, <2>1, <2>2 DEF EnqueueCommand, TypeOK
<1>8. ASSUME NEW i \in Ids, GatewayEvent(i) PROVE TypeOK'
  <2>1. ASSUME NEW ok \in BOOLEAN, CommandStarted(i, ok) PROVE TypeOK'
    BY <2>1, AckType DEF CommandStarted, Statuses, Active
  <2>2. ASSUME NEW ok \in BOOLEAN, NEW s \in {"ACKED", "REJECTED", "FAILED"},
               CommandAcked(i, s, ok)
        PROVE  TypeOK'
    BY <2>2, AckType, FailType DEF CommandAcked, Statuses, Finished
  <2>3. ASSUME NEW ok \in BOOLEAN, NEW retryable \in BOOLEAN, CommandFailed(i, retryable, ok)
        PROVE  TypeOK'
    BY <2>3, FailType DEF CommandFailed
  <2> QED BY <1>8, <2>1, <2>2, <2>3 DEF GatewayEvent
<1>9. ASSUME NEW i \in Ids, SweepCommand(i) PROVE TypeOK'
  BY <1>9, AckType DEF SweepCommand, Statuses, Finished
<1>10. ASSUME NEW i \in Ids, NEW ok \in BOOLEAN, CancelCommand(i, ok) PROVE TypeOK'
  <2> DEFINE r == WithStatus(mem[i], "CANCELLED")
  <2>1. r \in Record BY WithStatusType DEF TypeOK, Statuses, Finished
  <2>2. Claimed(i, r) \in [Keys -> LedgerRow] BY <2>1, ClaimedType
  <2>3. [store[i] EXCEPT !.status = "CANCELLED"] \in Record
    BY DEF TypeOK, Record, Statuses, Finished
  <2> HIDE DEF r
  <2>4. mem' \in [Ids -> Record] BY <1>10, <2>1 DEF CancelCommand, TypeOK, r
  <2>5. store' \in [Ids -> Record] BY <1>10, <2>1, <2>3 DEF CancelCommand, TypeOK, r
  <2>6. ledger' \in [Keys -> LedgerRow] BY <1>10, <2>2 DEF CancelCommand, TypeOK, r
  <2> QED BY <1>10, <2>4, <2>5, <2>6 DEF CancelCommand, TypeOK, history
<1>11. CASE UNCHANGED vars
  BY <1>11 DEF vars, TypeOK
<1> QED BY <1>1, <1>2, <1>3, <1>4, <1>5, <1>6, <1>7, <1>8, <1>9, <1>10, <1>11 DEF Next

LEMMA InitType == Init => TypeOK
  BY DEF Init, TypeOK, Record, LedgerRow, Absent, NoRow

\* The memory queue, the rows, the ledger and the histories keep their types in
\* every behaviour of the command channel.
THEOREM TypeCorrect == Spec => []TypeOK
<1>1. Init => TypeOK BY InitType
<1>2. TypeOK /\ [Next]_vars => TypeOK' BY TypeOKStep
<1> QED BY <1>1, <1>2, PTL DEF Spec

-----------------------------------------------------------------------------
\* The inductive invariant. Every step but Tick, EnqueueCommand and a delivery
\* is quiet: each record it leaves behind descends from a copy of the same
\* command, and each ledger row is kept, pruned or claimed by an old command.

Descends(i, q, r) ==
    /\ Present(r)
    /\ q.expires = r.expires
    /\ r.attempts <= q.attempts
    /\ q.attempts <= MaxAttempts[i]
    /\ q.status = "QUEUED" => /\ q.attempts < MaxAttempts[i]
                              /\ i \in Orders => r.status = "QUEUED"

RecordsDescend ==
    \A i \in Ids : \A q \in {mem'[i], store'[i]} :
        Present(q) => \E r \in {mem[i], store[i]} : Descends(i, q, r)

LedgerKept(k) ==
    \/ ledger'[k] = ledger[k]
    \/ ledger'[k] = NoRow /\ ledger[k].expires <= now
    \/ \E i \in issued : /\ KeyOf[i] = k
                         /\ ledger'[k].owner = i
                         /\ i \in Orders => ledger'[k].expires = now + Retention

CancelledStayOut ==
    \A i \in Orders :
        store'[i].status = "CANCELLED" => mem'[i].status # "QUEUED" /\ sent[i] = 0

Effect ==
    /\ now' = now /\ issued' = issued
    /\ RecordsDescend
    /\ \A k \in Keys : LedgerKept(k)
    /\ CancelledStayOut

LEMMA OrdersAreIds == Orders \subseteq Ids
  BY DEF Orders

\* A record the step leaves alone descends from itself.
LEMMA SameDescends ==
  ASSUME IInv, NEW i \in Ids, NEW r \in {mem[i], store[i]}, Present(r)
  PROVE  Descends(i, r, r)
<1>1. r \in Record BY DEF IInv, TypeOK
<1>2. r.attempts <= MaxAttempts[i] BY DEF IInv, AttemptsCoverDeliveries
<1>3. r.status = "QUEUED" => r.attempts < MaxAttempts[i]
  BY DEF IInv, QueuedHasAttemptLeft
<1> QED BY <1>1, <1>2, <1>3 DEF Descends, Record

\* So does a record that was closed.
LEMMA ClosedDescends ==
  ASSUME IInv, NEW i \in Ids, NEW r \in {mem[i], store[i]}, Present(r),
         NEW s \in Statuses \ {"QUEUED"}
  PROVE  Descends(i, WithStatus(r, s), r)
<1>1. r \in Record BY DEF IInv, TypeOK
<1>2. Descends(i, r, r) BY SameDescends
<1>3. /\ WithStatus(r, s).status = s
      /\ WithStatus(r, s).attempts = r.attempts
      /\ WithStatus(r, s).expires = r.expires
  BY <1>1 DEF WithStatus, Record
<1> QED BY <1>2, <1>3 DEF Descends

LEMMA ClaimedKept ==
  ASSUME IInv, NEW i \in Ids, NEW r, i \in issued, ledger' = Claimed(i, r)
  PROVE  \A k \in Keys : LedgerKept(k)
<1>1. ASSUME NEW k \in Keys, k # KeyOf[i] PROVE ledger'[k] = ledger[k]
  BY <1>1, ConstantsAssumption DEF IInv, TypeOK, Claimed
<1>2. ledger'[KeyOf[i]] = [owner |-> i, expires |-> DedupeExpiresAt(i, r)]
  BY ConstantsAssumption DEF IInv, TypeOK, Claimed
<1>3. i \in Orders => DedupeExpiresAt(i, r) = now + Retention
  BY DEF DedupeExpiresAt, Orders
<1> QED BY <1>1, <1>2, <1>3 DEF LedgerKept

LEMMA LedgerAfterKept ==
  ASSUME IInv, NEW S \in SUBSET Ids, S \subseteq issued, NEW w \in LastWriters(S), NEW recs,
         ledger' = LedgerAfter(w, recs)
  PROVE  \A k \in Keys : LedgerKept(k)
<1> TAKE k \in Keys
<1>1. CASE w[k] = NoId BY <1>1 DEF LedgerAfter, LedgerKept
<1>2. CASE w[k] # NoId
  <2>1. w[k] \in S /\ KeyOf[w[k]] = k BY <1>2 DEF LastWriters
  <2>2. ledger'[k] = [owner |-> w[k], expires |-> DedupeExpiresAt(w[k], recs[w[k]])]
    BY <1>2 DEF LedgerAfter
  <2>3. w[k] \in Orders => DedupeExpiresAt(w[k], recs[w[k]]) = now + Retention
    BY DEF DedupeExpiresAt, Orders
  <2> QED BY <2>1, <2>2, <2>3 DEF LedgerKept
<1> QED BY <1>1, <1>2

LEMMA AckEffect ==
  ASSUME IInv, NEW i \in Ids, NEW s \in Statuses \ {"QUEUED", "CANCELLED"}, NEW ok,
         AckCommand(i, s, ok)
  PROVE  Effect
<1>1. ASSUME NEW j \in Ids, Present(mem'[j])
      PROVE  \E r \in {mem[j], store[j]} : Descends(j, mem'[j], r)
  <2>1. CASE mem'[j] = mem[j] BY <1>1, <2>1, SameDescends
  <2>2. CASE mem'[j] # mem[j]
    <3>1. j = i /\ Present(mem[i]) /\ mem'[i] = WithStatus(mem[i], s)
      BY <2>2 DEF AckCommand, IInv, TypeOK, WithStatus
    <3> QED BY <3>1, ClosedDescends
  <2> QED BY <2>1, <2>2
<1>2. ASSUME NEW j \in Ids, Present(store'[j])
      PROVE  \E r \in {mem[j], store[j]} : Descends(j, store'[j], r)
  <2>1. CASE store'[j] = store[j] BY <1>2, <2>1, SameDescends
  <2>2. CASE store'[j] # store[j]
    <3>1. /\ j = i /\ Present(store[i])
          /\ store'[i] = [store[i] EXCEPT !.status = s,
                            !.attempts = IF s = "DISPATCHED" /\ @ = 0 THEN 1 ELSE @]
      BY <2>2 DEF AckCommand, IInv, TypeOK
    <3>2. store[i] \in Record BY DEF IInv, TypeOK
    <3>3. /\ store'[i].status = s
          /\ store'[i].expires = store[i].expires
          /\ \/ store'[i].attempts = store[i].attempts
             \/ store[i].attempts = 0 /\ store'[i].attempts = 1
      BY <3>1, <3>2 DEF Record
    <3>4. Descends(i, store[i], store[i]) BY <3>1, SameDescends
    <3>5. MaxAttempts[i] \in Nat \ {0} BY ConstantsAssumption
    <3> QED BY <3>1, <3>2, <3>3, <3>4, <3>5 DEF Descends, Record
  <2> QED BY <2>1, <2>2
<1>3. CancelledStayOut
  <2> SUFFICES ASSUME NEW j \in Orders, store'[j].status = "CANCELLED"
               PROVE  mem'[j].status # "QUEUED" /\ sent[j] = 0
    BY DEF CancelledStayOut
  <2>1. store[j].status = "CANCELLED"
    BY OrdersAreIds DEF AckCommand, IInv, TypeOK, Record
  <2>2. sent[j] = 0 /\ mem[j].status # "QUEUED" BY <2>1 DEF IInv, CancelledOrderNotSent
  <2>3. mem'[j].status \in {mem[j].status, s}
    BY OrdersAreIds DEF AckCommand, IInv, TypeOK, Record
  <2> QED BY <2>2, <2>3
<1>4. \A k \in Keys : LedgerKept(k) BY DEF AckCommand, LedgerKept
<1> QED BY <1>1, <1>2, <1>3, <1>4 DEF Effect, RecordsDescend, AckCommand, history

LEMMA FailEffect ==
  ASSUME IInv, NEW i \in Ids, NEW retryable \in BOOLEAN, NEW ok, FailCommand(i, retryable, ok),
         i \in Orders => ~retryable
  PROVE  Effect
<1> DEFINE r == Failed(i, mem[i], retryable)
<1>1. mem[i] \in Record BY DEF IInv, TypeOK
<1>2. /\ r.expires = mem[i].expires
      /\ r.attempts = mem[i].attempts
      /\ r.status \in {"QUEUED", "FAILED"}
      /\ r.status = "QUEUED" => mem[i].attempts < MaxAttempts[i] /\ i \notin Orders
  BY <1>1 DEF Failed, WithStatus, Record
<1>3. ASSUME Present(mem[i]) PROVE Descends(i, r, mem[i])
  <2>1. Descends(i, mem[i], mem[i]) BY <1>3, SameDescends
  <2> QED BY <1>2, <2>1 DEF Descends
<1> HIDE DEF r
<1>4. ASSUME NEW j \in Ids, Present(mem'[j])
      PROVE  \E q \in {mem[j], store[j]} : Descends(j, mem'[j], q)
  <2>1. CASE mem'[j] = mem[j] BY <1>4, <2>1, SameDescends
  <2>2. CASE mem'[j] # mem[j]
    <3>1. j = i /\ Present(mem[i]) /\ mem'[i] = r
      BY <2>2 DEF FailCommand, IInv, TypeOK, r
    <3> QED BY <3>1, <1>3
  <2> QED BY <2>1, <2>2
<1>5. ASSUME NEW j \in Ids, Present(store'[j])
      PROVE  \E q \in {mem[j], store[j]} : Descends(j, store'[j], q)
  <2>1. CASE store'[j] = store[j] BY <1>5, <2>1, SameDescends
  <2>2. CASE store'[j] # store[j]
    <3>1. /\ j = i
          /\ \/ Present(mem[i]) /\ store'[i] = r
             \/ Present(store[i]) /\ store'[i] = WithStatus(store[i], "FAILED")
      BY <2>2 DEF FailCommand, IInv, TypeOK, r, WithStatus
    <3> QED BY <3>1, <1>3, ClosedDescends DEF Statuses, Finished
  <2> QED BY <2>1, <2>2
<1>6. CancelledStayOut
  <2> SUFFICES ASSUME NEW j \in Orders, store'[j].status = "CANCELLED"
               PROVE  mem'[j].status # "QUEUED" /\ sent[j] = 0
    BY DEF CancelledStayOut
  <2>1. store[j].status = "CANCELLED"
    BY <1>2, OrdersAreIds DEF FailCommand, IInv, TypeOK, Record, r
  <2>2. sent[j] = 0 /\ mem[j].status # "QUEUED" BY <2>1 DEF IInv, CancelledOrderNotSent
  <2>3. mem'[j] = mem[j] \/ mem'[j].status = "FAILED"
    BY <1>2, OrdersAreIds DEF FailCommand, IInv, TypeOK, r
  <2> QED BY <2>2, <2>3
<1>7. \A k \in Keys : LedgerKept(k)
  <2>1. CASE ledger' = ledger BY <2>1 DEF LedgerKept
  <2>2. CASE ledger' # ledger
    <3>1. Present(mem[i]) /\ ledger' = Claimed(i, r) BY <2>2 DEF FailCommand, r
    <3>2. i \in issued BY <3>1 DEF IInv, OnlyIssued
    <3> QED BY <3>1, <3>2, ClaimedKept
  <2> QED BY <2>1, <2>2
<1> QED BY <1>4, <1>5, <1>6, <1>7 DEF Effect, RecordsDescend, FailCommand, history

LEMMA CancelEffect ==
  ASSUME IInv, NEW i \in Ids, NEW ok, CancelCommand(i, ok)
  PROVE  Effect
<1> DEFINE r == WithStatus(mem[i], "CANCELLED")
<1>1. mem[i] \in Record /\ store[i] \in Record BY DEF IInv, TypeOK
<1>2. "CANCELLED" \in Statuses \ {"QUEUED"} BY DEF Statuses, Finished
<1>3. r.status = "CANCELLED" BY <1>1 DEF WithStatus, Record
<1>4. ASSUME Present(mem[i]) PROVE Descends(i, r, mem[i]) BY <1>2, <1>4, ClosedDescends
<1>5. ASSUME Present(store[i]) PROVE Descends(i, WithStatus(store[i], "CANCELLED"), store[i])
  BY <1>2, <1>5, ClosedDescends
<1> HIDE DEF r
<1>6. ASSUME NEW j \in Ids, Present(mem'[j])
      PROVE  \E q \in {mem[j], store[j]} : Descends(j, mem'[j], q)
  <2>1. CASE mem'[j] = mem[j] BY <1>6, <2>1, SameDescends
  <2>2. CASE mem'[j] # mem[j]
    <3>1. j = i /\ mem[i].status = "QUEUED" /\ mem'[i] = r
      BY <2>2 DEF CancelCommand, IInv, TypeOK, r
    <3> QED BY <3>1, <1>4 DEF Present
  <2> QED BY <2>1, <2>2
<1>7. ASSUME NEW j \in Ids, Present(store'[j])
      PROVE  \E q \in {mem[j], store[j]} : Descends(j, store'[j], q)
  <2>1. CASE store'[j] = store[j] BY <1>7, <2>1, SameDescends
  <2>2. CASE store'[j] # store[j]
    <3>1. /\ j = i
          /\ \/ mem[i].status = "QUEUED" /\ store'[i] = r
             \/ store[i].status = "QUEUED" /\ store'[i] = WithStatus(store[i], "CANCELLED")
      BY <2>2 DEF CancelCommand, IInv, TypeOK, r, WithStatus
    <3> QED BY <3>1, <1>4, <1>5 DEF Present
  <2> QED BY <2>1, <2>2
<1>8. CancelledStayOut
  <2> SUFFICES ASSUME NEW j \in Orders, store'[j].status = "CANCELLED"
               PROVE  mem'[j].status # "QUEUED" /\ sent[j] = 0
    BY DEF CancelledStayOut
  <2>1. CASE j = i
    <3>1. "QUEUED" \in {mem[i].status, store[i].status} BY DEF CancelCommand
    <3>2. sent[j] = 0
      BY <2>1, <3>1, OrdersAreIds DEF IInv, DeliveredOrderNotQueued, TypeOK
    <3>3. mem'[j].status # "QUEUED" BY <2>1, <1>3 DEF CancelCommand, IInv, TypeOK, r
    <3> QED BY <3>2, <3>3
  <2>2. CASE j # i
    <3>1. mem'[j] = mem[j] /\ store'[j] = store[j]
      BY <2>2, OrdersAreIds DEF CancelCommand, IInv, TypeOK
    <3> QED BY <3>1 DEF IInv, CancelledOrderNotSent
  <2> QED BY <2>1, <2>2
<1>9. \A k \in Keys : LedgerKept(k)
  <2>1. CASE ledger' = ledger BY <2>1 DEF LedgerKept
  <2>2. CASE ledger' # ledger
    <3>1. mem[i].status = "QUEUED" /\ ledger' = Claimed(i, r) BY <2>2 DEF CancelCommand, r
    <3>2. i \in issued BY <3>1 DEF IInv, OnlyIssued, Present
    <3> QED BY <3>1, <3>2, ClaimedKept
  <2> QED BY <2>1, <2>2
<1> QED BY <1>6, <1>7, <1>8, <1>9 DEF Effect, RecordsDescend, CancelCommand, history

\* What an expiry sweep leaves of one copy.
LEMMA ExpireOldRecord ==
  ASSUME NEW recs \in [Ids -> Record], NEW open, NEW i \in Ids
  PROVE  LET q == ExpireOld(recs, open)[i]
         IN  /\ "QUEUED" \in open /\ q.status = "QUEUED" => q = recs[i] /\ ~IsExpired(recs[i])
             /\ q.status # "EXPIRED" => q = recs[i]
  BY DEF ExpireOld, WithStatus, Record, Present, Statuses, Finished, Active

LEMMA ExpireOldDescends ==
  ASSUME IInv, NEW open \in SUBSET Active, NEW i \in Ids,
         NEW recs \in {mem, store}, Present(ExpireOld(recs, open)[i])
  PROVE  Present(recs[i]) /\ Descends(i, ExpireOld(recs, open)[i], recs[i])
<1>1. recs \in [Ids -> Record] BY DEF IInv, TypeOK
<1>2. recs[i] \in {mem[i], store[i]} OBVIOUS
<1>3. CASE recs[i].status \in open /\ IsExpired(recs[i])
  <2>1. ExpireOld(recs, open)[i] = WithStatus(recs[i], "EXPIRED") BY <1>3 DEF ExpireOld
  <2>2. Present(recs[i]) BY <1>3 DEF Present, Active
  <2>3. "EXPIRED" \in Statuses \ {"QUEUED"} BY DEF Statuses, Finished
  <2> QED BY <1>2, <2>1, <2>2, <2>3, ClosedDescends
<1>4. CASE ~(recs[i].status \in open /\ IsExpired(recs[i]))
  <2>1. ExpireOld(recs, open)[i] = recs[i] BY <1>4 DEF ExpireOld
  <2> QED BY <1>2, <2>1, SameDescends
<1> QED BY <1>3, <1>4

LEMMA ExpireEffect ==
  ASSUME IInv, ExpireOldCommands
  PROVE  Effect
<1> DEFINE recs == ExpireOld(mem, Active)
           rows == ExpireOld(store, Active)
           S    == {i \in Ids : recs[i].status = "EXPIRED"}
<1>1. mem \in [Ids -> Record] /\ store \in [Ids -> Record] BY DEF IInv, TypeOK
<1>2. recs \in [Ids -> Record] /\ rows \in [Ids -> Record] BY <1>1, ExpireOldType
<1>3. ASSUME NEW i \in Ids, Present(recs[i]) PROVE Present(mem[i]) /\ Descends(i, recs[i], mem[i])
  BY <1>3, ExpireOldDescends
<1>4. ASSUME NEW i \in Ids, Present(rows[i]) PROVE Present(store[i]) /\ Descends(i, rows[i], store[i])
  BY <1>4, ExpireOldDescends
<1>5. ASSUME NEW i \in Ids, recs[i].status = "QUEUED" PROVE recs[i] = mem[i]
  BY <1>1, <1>5, ExpireOldRecord
<1>6. ASSUME NEW i \in Ids, rows[i].status = "CANCELLED" PROVE rows[i] = store[i]
  BY <1>1, <1>6, ExpireOldRecord
<1> HIDE DEF recs, rows
<1>7. /\ mem' = recs
      /\ store' = [i \in Ids |-> IF i \in S THEN recs[i] ELSE rows[i]]
  BY DEF ExpireOldCommands, recs, rows
<1>8. RecordsDescend BY <1>3, <1>4, <1>7 DEF RecordsDescend
<1>9. CancelledStayOut
  <2> SUFFICES ASSUME NEW j \in Orders, store'[j].status = "CANCELLED"
               PROVE  mem'[j].status # "QUEUED" /\ sent[j] = 0
    BY DEF CancelledStayOut
  <2>1. rows[j].status = "CANCELLED" BY <1>7, OrdersAreIds
  <2>2. store[j].status = "CANCELLED" BY <1>6, <2>1, OrdersAreIds
  <2> QED BY <1>5, <1>7, <2>2, OrdersAreIds DEF IInv, CancelledOrderNotSent
<1>10. S \subseteq issued
  BY <1>3 DEF IInv, OnlyIssued, Present
<1>11. \A k \in Keys : LedgerKept(k)
  <2>1. PICK w \in LastWriters(S) : ledger' = LedgerAfter(w, recs)
    BY DEF ExpireOldCommands, recs
  <2> QED BY <1>10, <2>1, LedgerAfterKept
<1> QED BY <1>8, <1>9, <1>11 DEF Effect, ExpireOldCommands, history

LEMMA RestartEffect ==
  ASSUME IInv, Restart
  PROVE  Effect
<1> DEFINE open == IF ExpireStaleDispatched THEN Active ELSE {"QUEUED"}
           rows == ExpireOld(store, open)
<1>1. open \in SUBSET Active BY DEF Active
<1>2. store \in [Ids -> Record] BY DEF IInv, TypeOK
<1>3. ASSUME NEW i \in Ids, Present(rows[i]) PROVE Present(store[i]) /\ Descends(i, rows[i], store[i])
  BY <1>1, <1>3, ExpireOldDescends
<1>4. ASSUME NEW i \in Ids, rows[i].status = "CANCELLED" PROVE rows[i] = store[i]
  BY <1>2, <1>4, ExpireOldRecord
<1> HIDE DEF rows
<1>5. /\ store' = rows
      /\ mem' = [i \in Ids |-> IF rows[i].status = "QUEUED" THEN rows[i] ELSE Absent]
  BY DEF Restart, rows
<1>6. RecordsDescend BY <1>3, <1>5 DEF RecordsDescend, Present, Absent
<1>7. CancelledStayOut
  BY <1>4, <1>5, OrdersAreIds DEF CancelledStayOut, IInv, CancelledOrderNotSent, Absent
<1>8. \A k \in Keys : LedgerKept(k) BY DEF Restart, LedgerKept
<1> QED BY <1>6, <1>7, <1>8 DEF Effect, Restart, history

LEMMA PruneEffect ==
  ASSUME IInv, NEW S, PruneCommands(S)
  PROVE  Effect
<1>1. mem' = mem /\ \A i \in Ids : store'[i] \in {store[i], Absent}
  BY DEF PruneCommands
<1>2. RecordsDescend BY <1>1, SameDescends DEF RecordsDescend, Present, Absent
<1>3. CancelledStayOut
  BY <1>1, OrdersAreIds DEF CancelledStayOut, IInv, CancelledOrderNotSent, Absent
<1>4. \A k \in Keys : LedgerKept(k) BY DEF PruneCommands, LedgerKept
<1> QED BY <1>2, <1>3, <1>4 DEF Effect, PruneCommands, history

\* What a call of dispatch leaves: the selected records were queued and
\* unexpired and are now dispatched in memory, the stored ones in both copies.
LEMMA DispatchFacts ==
  ASSUME IInv, NEW S \in SUBSET Ids, NEW kept \in SUBSET S, NEW limit,
         DispatchStep(S, kept, limit)
  PROVE  /\ \A i \in S :
               /\ mem[i].status = "QUEUED" /\ Fresh(mem[i])
               /\ mem'[i].status = "DISPATCHED"
               /\ mem'[i].attempts = mem[i].attempts + 1
               /\ mem'[i].expires = mem[i].expires
               /\ mem'[i].attempts <= MaxAttempts[i]
         /\ \A i \in kept : store'[i] = mem'[i]
         /\ \A i \in Ids \ S : Present(mem'[i]) => Present(mem[i]) /\ Descends(i, mem'[i], mem[i])
         /\ \A i \in Ids \ kept :
               Present(store'[i]) => Present(store[i]) /\ Descends(i, store'[i], store[i])
         /\ \A i \in Ids : mem'[i].status = "QUEUED" => mem'[i] = mem[i]
         /\ \A i \in Ids : store'[i].status \in {"QUEUED", "CANCELLED"} => store'[i] = store[i]
         /\ \A i \in kept : i \in Orders => ledger'[KeyOf[i]].expires = now + Retention
<1> DEFINE swept == ExpireOld(mem, Active)
           rows  == ExpireOld(store, Active)
           recs  == AfterDispatch(swept, S, limit)
<1>1. mem \in [Ids -> Record] /\ store \in [Ids -> Record] BY DEF IInv, TypeOK
<1>2. swept \in [Ids -> Record] /\ rows \in [Ids -> Record] BY <1>1, ExpireOldType
<1>3. ASSUME NEW i \in Ids, Present(swept[i]) PROVE Present(mem[i]) /\ Descends(i, swept[i], mem[i])
  BY <1>3, ExpireOldDescends
<1>4. ASSUME NEW i \in Ids, Present(rows[i]) PROVE Present(store[i]) /\ Descends(i, rows[i], store[i])
  BY <1>4, ExpireOldDescends
<1>5. ASSUME NEW i \in Ids, swept[i].status = "QUEUED"
      PROVE  swept[i] = mem[i] /\ ~IsExpired(mem[i])
  BY <1>1, <1>5, ExpireOldRecord DEF Active
<1>6. ASSUME NEW i \in Ids, rows[i].status \in {"QUEUED", "CANCELLED"} PROVE rows[i] = store[i]
  BY <1>1, <1>6, ExpireOldRecord DEF Active
<1> HIDE DEF swept, rows
<1>7. \A i \in S : swept[i].status = "QUEUED" /\ swept[i].attempts < MaxAttempts[i]
  BY DEF DispatchStep, Selections, Ready, Queued, swept
<1>8. /\ mem' = recs
      /\ store' = [i \in Ids |-> IF i \in kept THEN recs[i] ELSE rows[i]]
  BY DEF DispatchStep, swept, rows
<1>9. ASSUME NEW i \in S
      PROVE  /\ mem[i].status = "QUEUED" /\ Fresh(mem[i])
             /\ mem'[i].status = "DISPATCHED"
             /\ mem'[i].attempts = mem[i].attempts + 1
             /\ mem'[i].expires = mem[i].expires
             /\ mem'[i].attempts <= MaxAttempts[i]
  <2>1. swept[i] = mem[i] /\ mem[i].status = "QUEUED" /\ ~IsExpired(mem[i]) BY <1>5, <1>7
  <2>2. mem[i] \in Record /\ MaxAttempts[i] \in Nat BY <1>1, ConstantsAssumption
  <2>3. now \in Nat BY DEF IInv, TypeOK
  <2>4. mem'[i] = [mem[i] EXCEPT !.status = "DISPATCHED", !.attempts = @ + 1]
    BY <1>8, <2>1 DEF AfterDispatch
  <2>5. /\ mem'[i].status = "DISPATCHED"
        /\ mem'[i].attempts = mem[i].attempts + 1
        /\ mem'[i].expires = mem[i].expires
    BY <2>2, <2>4 DEF Record
  <2>6. Fresh(mem[i]) BY <2>1, <2>2, <2>3 DEF Fresh, Present, IsExpired, Record
  <2>7. mem[i].attempts < MaxAttempts[i] BY <1>7, <2>1
  <2> QED BY <2>1, <2>2, <2>5, <2>6, <2>7 DEF Record
<1>10. ASSUME NEW i \in Ids \ S
       PROVE  /\ mem'[i] \in {swept[i], WithStatus(swept[i], "FAILED")}
              /\ mem'[i] # swept[i] => swept[i].status = "QUEUED"
  BY <1>8 DEF AfterDispatch, Exhausted, Queued
<1>11. ASSUME NEW i \in Ids \ S, Present(mem'[i])
       PROVE  Present(mem[i]) /\ Descends(i, mem'[i], mem[i])
  <2>1. CASE mem'[i] = swept[i] BY <1>3, <1>11, <2>1
  <2>2. CASE mem'[i] # swept[i]
    <3>1. swept[i] = mem[i] /\ Present(mem[i]) /\ mem'[i] = WithStatus(mem[i], "FAILED")
      BY <1>5, <1>10, <2>2 DEF Present
    <3> QED BY <3>1, ClosedDescends DEF Statuses, Finished
  <2> QED BY <2>1, <2>2
<1>12. ASSUME NEW i \in Ids, mem'[i].status = "QUEUED" PROVE mem'[i] = mem[i]
  <2>1. i \notin S BY <1>9, <1>12
  <2>2. CASE mem'[i] = swept[i] BY <1>5, <1>12, <2>2
  <2>3. CASE mem'[i] = WithStatus(swept[i], "FAILED")
    BY <1>2, <1>12, <2>3 DEF WithStatus, Record
  <2> QED BY <1>10, <2>1, <2>2, <2>3
<1>13. ASSUME NEW i \in kept, i \in Orders PROVE ledger'[KeyOf[i]].expires = now + Retention
  <2>1. PICK w \in LastWriters(kept) : ledger' = LedgerAfter(w, recs)
    BY DEF DispatchStep, swept
  <2>2. KeyOf[i] \in Keys BY ConstantsAssumption
  <2>3. w[KeyOf[i]] \in kept /\ KeyOf[w[KeyOf[i]]] = KeyOf[i] BY <2>1, <2>2 DEF LastWriters
  <2>4. w[KeyOf[i]] \in Orders BY <1>13, <2>3, OrderKeysAssumption
  <2>5. w[KeyOf[i]] # NoId BY <2>3, ConstantsAssumption
  <2>6. ledger'[KeyOf[i]].expires = DedupeExpiresAt(w[KeyOf[i]], recs[w[KeyOf[i]]])
    BY <2>1, <2>2, <2>5 DEF LedgerAfter
  <2> QED BY <2>4, <2>6 DEF DedupeExpiresAt, Orders
<1>14. ASSUME NEW i \in Ids, store'[i].status \in {"QUEUED", "CANCELLED"} PROVE store'[i] = store[i]
  <2>1. i \notin kept BY <1>8, <1>9, <1>14
  <2> QED BY <1>6, <1>8, <1>14, <2>1
<1>15. ASSUME NEW i \in Ids \ kept, Present(store'[i])
       PROVE  Present(store[i]) /\ Descends(i, store'[i], store[i])
  BY <1>4, <1>8, <1>15
<1>16. \A i \in kept : store'[i] = mem'[i] BY <1>8
<1> QED BY <1>9, <1>11, <1>12, <1>13, <1>14, <1>15, <1>16

LEMMA DispatchEffect ==
  ASSUME IInv, NEW S \in SUBSET Ids, NEW kept \in SUBSET S, NEW limit,
         DispatchStep(S, kept, limit)
  PROVE  Effect
<1>1. ASSUME NEW i \in S PROVE Descends(i, mem'[i], mem[i])
  <2>1. mem[i] \in Record BY DEF IInv, TypeOK
  <2>2. /\ mem[i].status = "QUEUED"
        /\ mem'[i].status = "DISPATCHED"
        /\ mem'[i].attempts = mem[i].attempts + 1
        /\ mem'[i].expires = mem[i].expires
        /\ mem'[i].attempts <= MaxAttempts[i]
    BY DispatchFacts
  <2>3. mem[i].attempts <= mem'[i].attempts BY <2>1, <2>2 DEF Record
  <2> QED BY <2>2, <2>3 DEF Descends, Present
<1>2. RecordsDescend
  <2>1. ASSUME NEW i \in Ids, Present(mem'[i])
        PROVE  \E r \in {mem[i], store[i]} : Descends(i, mem'[i], r)
    <3>1. i \in S => Descends(i, mem'[i], mem[i]) BY <1>1
    <3>2. i \notin S => Descends(i, mem'[i], mem[i]) BY <2>1, DispatchFacts
    <3> QED BY <3>1, <3>2
  <2>2. ASSUME NEW i \in Ids, Present(store'[i])
        PROVE  \E r \in {mem[i], store[i]} : Descends(i, store'[i], r)
    <3>1. i \in kept => store'[i] = mem'[i] /\ Descends(i, mem'[i], mem[i])
      BY <1>1, DispatchFacts
    <3>2. i \notin kept => Descends(i, store'[i], store[i]) BY <2>2, DispatchFacts
    <3> QED BY <3>1, <3>2
  <2> QED BY <2>1, <2>2 DEF RecordsDescend
<1>3. CancelledStayOut
  <2> SUFFICES ASSUME NEW j \in Orders, store'[j].status = "CANCELLED"
               PROVE  mem'[j].status # "QUEUED" /\ sent[j] = 0
    BY DEF CancelledStayOut
  <2>1. store'[j] = store[j] BY DispatchFacts, OrdersAreIds
  <2>2. mem[j].status # "QUEUED" /\ sent[j] = 0 BY <2>1 DEF IInv, CancelledOrderNotSent
  <2> QED BY <2>2, DispatchFacts, OrdersAreIds
<1>4. kept \subseteq issued
  BY DispatchFacts DEF IInv, OnlyIssued, Present
<1>5. \A k \in Keys : LedgerKept(k)
  <2> DEFINE recs == AfterDispatch(ExpireOld(mem, Active), S, limit)
  <2>1. PICK w \in LastWriters(kept) : ledger' = LedgerAfter(w, recs)
    BY DEF DispatchStep
  <2> HIDE DEF recs
  <2> QED BY <1>4, <2>1, LedgerAfterKept
<1> QED BY <1>2, <1>3, <1>5 DEF Effect, DispatchStep

-----------------------------------------------------------------------------
\* Steps preserve the inductive invariant.

\* The parts that do not mention deliveries, for every step with an Effect.
LEMMA EffectKeeps ==
  ASSUME IInv, TypeOK', Effect
  PROVE  /\ QueuedHasAttemptLeft'
         /\ OnlyIssued'
         /\ ExpiryBounded'
         /\ LedgerCoversFreshOrders'
         /\ OneFreshOrderPerKey'
<1>1. ASSUME NEW i \in Ids, NEW q \in {mem'[i], store'[i]}, Present(q)
      PROVE  \E r \in {mem[i], store[i]} : Descends(i, q, r)
  BY <1>1 DEF Effect, RecordsDescend
<1>2. QueuedHasAttemptLeft'
  <2>1. ASSUME NEW i \in Ids, NEW q \in {mem'[i], store'[i]}, q.status = "QUEUED"
        PROVE  q.attempts < MaxAttempts[i]
    BY <1>1, <2>1 DEF Present, Descends
  <2> QED BY <2>1 DEF QueuedHasAttemptLeft
<1>3. OnlyIssued'
  <2>1. ASSUME NEW i \in Ids, Present(mem'[i]) \/ Present(store'[i]) PROVE i \in issued'
    <3>1. Present(mem[i]) \/ Present(store[i]) BY <1>1, <2>1 DEF Descends
    <3> QED BY <3>1 DEF IInv, OnlyIssued, Effect
  <2>2. ASSUME NEW k \in Keys PROVE ledger'[k].owner \in issued' \cup {NoId}
    <3>1. LedgerKept(k) /\ issued' = issued BY DEF Effect
    <3>2. ledger[k].owner \in issued \cup {NoId} BY DEF IInv, OnlyIssued
    <3> QED BY <3>1, <3>2 DEF LedgerKept, NoRow
  <2> QED BY <2>1, <2>2 DEF OnlyIssued, Present
<1>4. ExpiryBounded'
  <2>1. ASSUME NEW i \in Ids, NEW q \in {mem'[i], store'[i]}, Present(q)
        PROVE  q.expires <= now' + TTL[i]
    <3>1. PICK r \in {mem[i], store[i]} : Descends(i, q, r) BY <1>1, <2>1
    <3>2. r.expires <= now + TTL[i] BY <3>1 DEF Descends, IInv, ExpiryBounded
    <3> QED BY <3>1, <3>2 DEF Descends, Effect
  <2> QED BY <2>1 DEF ExpiryBounded, Present
<1>5. ASSUME NEW i \in Ids, NEW q \in {mem'[i], store'[i]}, Present(q), now' < q.expires
      PROVE  \E r \in {mem[i], store[i]} : Fresh(r) /\ r.expires = q.expires
  <2>1. PICK r \in {mem[i], store[i]} : Descends(i, q, r) BY <1>1, <1>5
  <2> QED BY <1>5, <2>1 DEF Descends, Fresh, Effect
<1>6. LedgerCoversFreshOrders'
  <2>1. ASSUME NEW i \in Orders, NEW q \in {mem'[i], store'[i]}, Present(q), now' < q.expires
        PROVE  q.expires <= ledger'[KeyOf[i]].expires
    <3>1. i \in Ids BY OrdersAreIds
    <3>2. PICK r \in {mem[i], store[i]} : Fresh(r) /\ r.expires = q.expires BY <1>5, <2>1, <3>1
    <3>3. r \in Record /\ now \in Nat BY <3>1 DEF IInv, TypeOK
    <3>4. KeyOf[i] \in Keys /\ TTL[i] \in Nat /\ Retention \in Nat BY <3>1, ConstantsAssumption
    <3>5. ledger[KeyOf[i]] \in LedgerRow BY <3>4 DEF IInv, TypeOK
    <3>6. r.expires <= ledger[KeyOf[i]].expires BY <3>2 DEF IInv, LedgerCoversFreshOrders
    <3>7. r.expires <= now + TTL[i] BY <3>1, <3>2 DEF IInv, ExpiryBounded, Fresh
    <3>8. TTL[i] <= Retention BY RetentionAssumption
    <3>9. CASE ledger'[KeyOf[i]] = ledger[KeyOf[i]] BY <3>2, <3>6, <3>9
    <3>10. CASE ledger[KeyOf[i]].expires <= now
      BY <3>2, <3>3, <3>5, <3>6, <3>10 DEF Fresh, Record, LedgerRow
    <3>11. ASSUME NEW j \in issued, KeyOf[j] = KeyOf[i],
                  j \in Orders => ledger'[KeyOf[i]].expires = now + Retention
           PROVE  q.expires <= ledger'[KeyOf[i]].expires
      <4>1. j \in Ids BY DEF IInv, TypeOK
      <4>2. j \in Orders BY <3>11, <4>1, OrderKeysAssumption
      <4>3. ledger'[KeyOf[i]].expires = now + Retention BY <3>11, <4>2
      <4> QED BY <3>2, <3>3, <3>4, <3>7, <3>8, <4>3 DEF Record
    <3>12. LedgerKept(KeyOf[i]) BY <3>4 DEF Effect
    <3> QED BY <3>9, <3>10, <3>11, <3>12 DEF LedgerKept
  <2> QED BY <2>1 DEF LedgerCoversFreshOrders, Fresh, Present
<1>7. OneFreshOrderPerKey'
  <2>1. ASSUME NEW i \in Orders, FreshId(i)' PROVE FreshId(i)
    BY <1>5, <2>1, OrdersAreIds DEF FreshId, Fresh, Present
  <2> QED BY <2>1 DEF IInv, OneFreshOrderPerKey
<1> QED BY <1>2, <1>3, <1>4, <1>6, <1>7

\* A quiet step: no delivery.
LEMMA QuietStep ==
  ASSUME IInv, TypeOK', Effect, sent' = sent, lastSent' = lastSent
  PROVE  IInv'
<1>1. ASSUME NEW i \in Ids, NEW q \in {mem'[i], store'[i]}, Present(q)
      PROVE  \E r \in {mem[i], store[i]} : Descends(i, q, r)
  BY <1>1 DEF Effect, RecordsDescend
<1>2. AttemptsCoverDeliveries'
  <2>1. ASSUME NEW i \in Ids, NEW q \in {mem'[i], store'[i]}, Present(q)
        PROVE  sent'[i] <= q.attempts /\ q.attempts <= MaxAttempts[i]
    <3>1. PICK r \in {mem[i], store[i]} : Descends(i, q, r) BY <1>1, <2>1
    <3>2. sent[i] <= r.attempts BY <3>1 DEF Descends, IInv, AttemptsCoverDeliveries
    <3>3. sent[i] \in Nat /\ r.attempts \in Nat /\ q.attempts \in Nat
      BY DEF IInv, TypeOK, Record
    <3> QED BY <3>1, <3>2, <3>3 DEF Descends
  <2> QED BY <2>1 DEF AttemptsCoverDeliveries, IInv, Present
<1>3. ASSUME NEW i \in Orders, NEW q \in {mem'[i], store'[i]}, q.status = "QUEUED"
      PROVE  \E r \in {mem[i], store[i]} : r.status = "QUEUED" /\ r.expires = q.expires
  BY <1>1, <1>3, OrdersAreIds DEF Descends, Present
<1>4. DeliveredOrderNotQueued'
  <2> SUFFICES ASSUME NEW i \in Orders, sent'[i] > 0, NEW q \in {mem'[i], store'[i]},
                      q.status = "QUEUED"
               PROVE  FALSE
    BY DEF DeliveredOrderNotQueued
  <2> QED BY <1>3 DEF IInv, DeliveredOrderNotQueued
<1>5. CancelledOrderNotSent'
  BY DEF CancelledOrderNotSent, Effect, CancelledStayOut
<1>6. LedgerCoversSentOrders'
  <2> SUFFICES ASSUME NEW i \in Orders
               PROVE  /\ lastSent'[KeyOf[i]] <= now'
                      /\ RecentlySent(KeyOf[i])' =>
                            /\ lastSent'[KeyOf[i]] + Retention <= ledger'[KeyOf[i]].expires
                            /\ \A q \in {mem'[i], store'[i]} :
                                  ~(q.status = "QUEUED" /\ Present(q) /\ now' < q.expires)
    BY DEF LedgerCoversSentOrders, Fresh, Present
  <2> DEFINE k == KeyOf[i]
  <2>1. i \in Ids BY OrdersAreIds
  <2>2. k \in Keys /\ Retention \in Nat BY <2>1, ConstantsAssumption
  <2>3. now \in Nat /\ lastSent[k] \in Nat /\ ledger[k] \in LedgerRow BY <2>2 DEF IInv, TypeOK
  <2>4. now' = now BY DEF Effect
  <2>5. lastSent[k] <= now BY DEF IInv, LedgerCoversSentOrders
  <2>6. ASSUME RecentlySent(k)
        PROVE  lastSent[k] + Retention <= ledger'[k].expires
    <3>1. lastSent[k] + Retention <= ledger[k].expires
      BY <2>6 DEF IInv, LedgerCoversSentOrders
    <3>2. CASE ledger'[k] = ledger[k] BY <3>1, <3>2
    <3>3. CASE ledger[k].expires <= now
      BY <2>2, <2>3, <2>6, <3>1, <3>3 DEF RecentlySent, LedgerRow
    <3>4. ASSUME NEW j \in issued, KeyOf[j] = k,
                 j \in Orders => ledger'[k].expires = now + Retention
          PROVE  lastSent[k] + Retention <= ledger'[k].expires
      <4>1. j \in Ids BY DEF IInv, TypeOK
      <4>2. j \in Orders BY <3>4, <4>1, OrderKeysAssumption
      <4>3. ledger'[k].expires = now + Retention BY <3>4, <4>2
      <4> QED BY <2>2, <2>3, <2>5, <4>3
    <3>5. LedgerKept(k) BY <2>2 DEF Effect
    <3> QED BY <3>2, <3>3, <3>4, <3>5 DEF LedgerKept
  <2>7. ASSUME RecentlySent(k), NEW q \in {mem'[i], store'[i]},
               q.status = "QUEUED", now < q.expires
        PROVE  FALSE
    <3>1. PICK r \in {mem[i], store[i]} : r.status = "QUEUED" /\ r.expires = q.expires
      BY <1>3, <2>7
    <3> QED BY <2>7, <3>1 DEF IInv, LedgerCoversSentOrders, Fresh, Present
  <2> QED BY <2>4, <2>5, <2>6, <2>7 DEF RecentlySent
<1> QED BY <1>2, <1>4, <1>5, <1>6, EffectKeeps DEF IInv

LEMMA TickStep ==
  ASSUME IInv, TypeOK', Tick
  PROVE  IInv'
<1>1. /\ now' = now + 1 /\ now \in Nat
      /\ mem' = mem /\ store' = store /\ ledger' = ledger
      /\ issued' = issued /\ sent' = sent /\ lastSent' = lastSent
  BY DEF Tick, history, IInv, TypeOK
<1>3. \A i \in Ids : mem[i] \in Record /\ store[i] \in Record BY DEF IInv, TypeOK
<1>4. QueuedHasAttemptLeft' BY <1>1 DEF IInv, QueuedHasAttemptLeft
<1>5. AttemptsCoverDeliveries' BY <1>1 DEF IInv, AttemptsCoverDeliveries, Present
<1>6. OnlyIssued' BY <1>1 DEF IInv, OnlyIssued, Present
<1>7. ExpiryBounded'
  <2>1. ASSUME NEW i \in Ids, NEW r \in {mem[i], store[i]}, Present(r)
        PROVE  r.expires <= now' + TTL[i]
    <3>1. r.expires <= now + TTL[i] BY <2>1 DEF IInv, ExpiryBounded
    <3>2. r.expires \in Nat /\ TTL[i] \in Nat BY <1>3, ConstantsAssumption DEF Record
    <3> QED BY <1>1, <3>1, <3>2
  <2> QED BY <1>1, <2>1 DEF ExpiryBounded, Present
<1>8. LedgerCoversFreshOrders'
  <2>1. ASSUME NEW i \in Orders, NEW r \in {mem[i], store[i]}, Present(r), now' < r.expires
        PROVE  r.expires <= ledger[KeyOf[i]].expires
    <3>1. r \in Record BY <1>3, OrdersAreIds
    <3>2. Fresh(r) BY <1>1, <2>1, <3>1 DEF Fresh, Record
    <3> QED BY <3>2 DEF IInv, LedgerCoversFreshOrders
  <2> QED BY <1>1, <2>1 DEF LedgerCoversFreshOrders, Fresh, Present
<1>9. OneFreshOrderPerKey'
  <2>1. ASSUME NEW i \in Orders, FreshId(i)' PROVE FreshId(i)
    BY <1>1, <1>3, <2>1, OrdersAreIds DEF FreshId, Fresh, Present, Record
  <2> QED BY <2>1 DEF IInv, OneFreshOrderPerKey
<1>10. DeliveredOrderNotQueued' BY <1>1 DEF IInv, DeliveredOrderNotQueued
<1>11. CancelledOrderNotSent' BY <1>1 DEF IInv, CancelledOrderNotSent
<1>12. LedgerCoversSentOrders'
  <2> SUFFICES ASSUME NEW i \in Orders
               PROVE  /\ lastSent[KeyOf[i]] <= now'
                      /\ RecentlySent(KeyOf[i])' =>
                            /\ lastSent[KeyOf[i]] + Retention <= ledger[KeyOf[i]].expires
                            /\ \A r \in {mem[i], store[i]} :
                                  ~(r.status = "QUEUED" /\ Present(r) /\ now' < r.expires)
    BY <1>1 DEF LedgerCoversSentOrders, Fresh, Present
  <2>1. KeyOf[i] \in Keys /\ Retention \in Nat BY OrdersAreIds, ConstantsAssumption
  <2>2. lastSent[KeyOf[i]] \in Nat BY <2>1 DEF IInv, TypeOK
  <2>3. RecentlySent(KeyOf[i])' => RecentlySent(KeyOf[i])
    BY <1>1, <2>1, <2>2 DEF RecentlySent
  <2>4. \A r \in {mem[i], store[i]} : now' < r.expires => now < r.expires
    BY <1>1, <1>3, OrdersAreIds DEF Record
  <2>5. lastSent[KeyOf[i]] <= now' BY <1>1, <2>2 DEF IInv, LedgerCoversSentOrders
  <2> QED BY <2>3, <2>4, <2>5 DEF IInv, LedgerCoversSentOrders, Fresh
<1> QED BY <1>4, <1>5, <1>6, <1>7, <1>8, <1>9, <1>10, <1>11, <1>12 DEF IInv

LEMMA EnqueueStep ==
  ASSUME IInv, TypeOK', NEW i \in Ids, EnqueueCommand(i)
  PROVE  IInv'
<1> DEFINE n == NewRecord(i)
           k == KeyOf[i]
<1>1. /\ now' = now /\ now \in Nat /\ lastSent' = lastSent
      /\ issued' = issued \cup {i}
      /\ sent' = [sent EXCEPT ![i] = 0]
  BY DEF EnqueueCommand, IInv, TypeOK
<1>2. TTL[i] \in Nat \ {0} /\ MaxAttempts[i] \in Nat \ {0} /\ Retention \in Nat /\ k \in Keys
  BY ConstantsAssumption
<1>3. /\ n.status = "QUEUED" /\ n.attempts = 0
      /\ n.expires = now + TTL[i]
  BY DEF NewRecord
<1>4. mem'[i] = n /\ store'[i] = n BY DEF EnqueueCommand, IInv, TypeOK
<1>5. ASSUME NEW j \in Ids, j # i PROVE mem'[j] = mem[j] /\ store'[j] = store[j] /\ sent'[j] = sent[j]
  BY <1>5 DEF EnqueueCommand, IInv, TypeOK
<1>6. /\ sent'[i] = 0
      /\ \A h \in Keys : h # k => ledger'[h] = ledger[h]
      /\ ledger'[k].owner = i
      /\ i \in Orders => ledger'[k].expires = now + Retention
  BY <1>2 DEF EnqueueCommand, IInv, TypeOK, Claimed, DedupeExpiresAt, Orders
<1> HIDE DEF n, k
\* An order is only accepted on a key the ledger no longer holds.
<1>7. i \in Orders => ledger[k].expires <= now
  <2>1. ledger[k] \in LedgerRow BY <1>2 DEF IInv, TypeOK
  <2>2. i \in Orders => ledger[k].owner # i
    BY <1>2, ConstantsAssumption DEF EnqueueCommand, IInv, OnlyIssued
  <2> QED BY <1>1, <2>1, <2>2 DEF EnqueueCommand, HeldByOther, LedgerRow, k
<1>8. QueuedHasAttemptLeft'
  BY <1>2, <1>3, <1>4, <1>5 DEF IInv, QueuedHasAttemptLeft
<1>9. AttemptsCoverDeliveries'
  <2>1. ASSUME NEW j \in Ids, j # i
        PROVE  /\ sent'[j] <= MaxAttempts[j]
               /\ \A r \in {mem'[j], store'[j]} :
                     r.status # "ABSENT" => sent'[j] <= r.attempts /\ r.attempts <= MaxAttempts[j]
    BY <1>5, <2>1 DEF IInv, AttemptsCoverDeliveries, Present
  <2>2. /\ sent'[i] <= MaxAttempts[i]
        /\ \A r \in {mem'[i], store'[i]} : sent'[i] <= r.attempts /\ r.attempts <= MaxAttempts[i]
    BY <1>2, <1>3, <1>4, <1>6
  <2> QED BY <2>1, <2>2 DEF AttemptsCoverDeliveries, Present
<1>10. OnlyIssued'
  <2>1. ASSUME NEW j \in Ids, j # i, mem'[j].status # "ABSENT" \/ store'[j].status # "ABSENT"
        PROVE  j \in issued
    BY <1>5, <2>1 DEF IInv, OnlyIssued, Present
  <2>2. \A h \in Keys : ledger'[h].owner \in issued \cup {i, NoId}
    BY <1>6 DEF IInv, OnlyIssued
  <2> QED BY <1>1, <2>1, <2>2 DEF OnlyIssued, Present
<1>11. ExpiryBounded'
  <2>1. ASSUME NEW j \in Ids, j # i, NEW r \in {mem'[j], store'[j]}, r.status # "ABSENT"
        PROVE  r.expires <= now + TTL[j]
    BY <1>5, <2>1 DEF IInv, ExpiryBounded, Present
  <2>2. n.expires <= now + TTL[i] BY <1>1, <1>2, <1>3
  <2> QED BY <1>1, <1>4, <2>1, <2>2 DEF ExpiryBounded, Present
<1>12. ASSUME NEW j \in Orders, j # i, KeyOf[j] = k, NEW r \in {mem'[j], store'[j]},
              r.status # "ABSENT", now < r.expires
       PROVE  FALSE
  <2>1. j \in Ids BY OrdersAreIds
  <2>2. r \in {mem[j], store[j]} /\ Fresh(r) BY <1>5, <1>12, <2>1 DEF Fresh, Present
  <2>3. r.expires <= ledger[k].expires BY <1>12, <2>2 DEF IInv, LedgerCoversFreshOrders
  <2>4. i \in Orders BY <1>12, OrderKeysAssumption DEF k
  <2>5. r \in Record /\ ledger[k] \in LedgerRow BY <1>2, <2>1, <2>2 DEF IInv, TypeOK
  <2> QED BY <1>1, <1>7, <1>12, <2>3, <2>4, <2>5 DEF Record, LedgerRow
<1>13. LedgerCoversFreshOrders'
  <2>1. ASSUME NEW j \in Orders, NEW r \in {mem'[j], store'[j]}, r.status # "ABSENT", now < r.expires
        PROVE  r.expires <= ledger'[KeyOf[j]].expires
    <3>1. j \in Ids /\ KeyOf[j] \in Keys BY OrdersAreIds, ConstantsAssumption
    <3>2. CASE j = i
      <4>1. r = n /\ KeyOf[j] = k BY <1>4, <3>2 DEF k
      <4>2. TTL[i] <= Retention BY <3>2, RetentionAssumption
      <4> QED BY <1>1, <1>2, <1>3, <1>6, <3>2, <4>1, <4>2
    <3>3. CASE j # i /\ KeyOf[j] = k BY <1>12, <2>1, <3>3
    <3>4. CASE j # i /\ KeyOf[j] # k
      <4>1. r \in {mem[j], store[j]} /\ Fresh(r) BY <1>5, <2>1, <3>1, <3>4 DEF Fresh, Present
      <4>2. ledger'[KeyOf[j]] = ledger[KeyOf[j]] BY <1>6, <3>1, <3>4
      <4> QED BY <4>1, <4>2 DEF IInv, LedgerCoversFreshOrders
    <3> QED BY <3>2, <3>3, <3>4
  <2> QED BY <1>1, <2>1 DEF LedgerCoversFreshOrders, Fresh, Present
<1>14. OneFreshOrderPerKey'
  <2>1. ASSUME NEW j \in Orders, j # i, FreshId(j)' PROVE FreshId(j) /\ KeyOf[j] # k
    <3>1. PICK r \in {mem'[j], store'[j]} : r.status # "ABSENT" /\ now < r.expires
      BY <1>1, <2>1 DEF FreshId, Fresh, Present
    <3>2. KeyOf[j] # k BY <1>12, <2>1, <3>1
    <3>3. FreshId(j) BY <1>5, <2>1, <3>1, OrdersAreIds DEF FreshId, Fresh, Present
    <3> QED BY <3>2, <3>3
  <2> QED BY <2>1 DEF IInv, OneFreshOrderPerKey, k
<1>15. DeliveredOrderNotQueued'
  <2>1. ASSUME NEW j \in Orders, sent'[j] > 0
        PROVE  mem'[j].status # "QUEUED" /\ store'[j].status # "QUEUED"
    <3>1. j # i BY <1>6, <2>1
    <3> QED BY <1>5, <2>1, <3>1, OrdersAreIds DEF IInv, DeliveredOrderNotQueued
  <2> QED BY <2>1 DEF DeliveredOrderNotQueued
<1>16. CancelledOrderNotSent'
  <2>1. ASSUME NEW j \in Orders, store'[j].status = "CANCELLED"
        PROVE  sent'[j] = 0 /\ mem'[j].status # "QUEUED"
    <3>1. j # i BY <1>3, <1>4, <2>1
    <3> QED BY <1>5, <2>1, <3>1, OrdersAreIds DEF IInv, CancelledOrderNotSent
  <2> QED BY <2>1 DEF CancelledOrderNotSent
<1>17. LedgerCoversSentOrders'
  <2> SUFFICES ASSUME NEW j \in Orders
               PROVE  /\ lastSent[KeyOf[j]] <= now
                      /\ RecentlySent(KeyOf[j]) =>
                            /\ lastSent[KeyOf[j]] + Retention <= ledger'[KeyOf[j]].expires
                            /\ \A r \in {mem'[j], store'[j]} :
                                  ~(r.status = "QUEUED" /\ now < r.expires)
    BY <1>1 DEF LedgerCoversSentOrders, RecentlySent, Fresh, Present
  <2>1. j \in Ids /\ KeyOf[j] \in Keys BY OrdersAreIds, ConstantsAssumption
  <2>2. lastSent[KeyOf[j]] <= now BY DEF IInv, LedgerCoversSentOrders
  <2>3. RecentlySent(KeyOf[j]) => lastSent[KeyOf[j]] + Retention <= ledger[KeyOf[j]].expires
    BY DEF IInv, LedgerCoversSentOrders
  <2>4. CASE KeyOf[j] = k
    <3>1. i \in Orders BY <2>4, OrderKeysAssumption DEF k
    <3>2. lastSent[k] \in Nat /\ ledger[k] \in LedgerRow BY <1>2 DEF IInv, TypeOK
    <3>3. ~RecentlySent(k)
      BY <1>1, <1>2, <1>7, <2>3, <2>4, <3>1, <3>2 DEF RecentlySent, LedgerRow
    <3> QED BY <2>2, <2>4, <3>3
  <2>5. CASE KeyOf[j] # k
    <3>1. j # i BY <2>5 DEF k
    <3>2. mem'[j] = mem[j] /\ store'[j] = store[j] /\ ledger'[KeyOf[j]] = ledger[KeyOf[j]]
      BY <1>5, <1>6, <2>1, <2>5, <3>1
    <3> QED BY <2>2, <2>3, <3>2 DEF IInv, LedgerCoversSentOrders, Fresh, Present
  <2> QED BY <2>4, <2>5
<1> QED BY <1>8, <1>9, <1>10, <1>11, <1>13, <1>14, <1>15, <1>16, <1>17 DEF IInv

LEMMA DeliveryStep ==
  ASSUME IInv, TypeOK', NEW S \in SUBSET Ids, NEW limit, Dispatch(S, limit)
  PROVE  IInv'
<1>1. DispatchStep(S, S, limit) BY DEF Dispatch
<1>2. Effect BY <1>1, DispatchEffect
<1>3. now' = now BY <1>2 DEF Effect
\* DispatchFacts with the whole batch stored.
<1>4. ASSUME NEW i \in S
      PROVE  /\ mem[i].status = "QUEUED" /\ Fresh(mem[i])
             /\ mem'[i].status = "DISPATCHED" /\ store'[i] = mem'[i]
             /\ mem'[i].attempts = mem[i].attempts + 1
             /\ mem'[i].attempts <= MaxAttempts[i]
             /\ i \in Orders => ledger'[KeyOf[i]].expires = now + Retention
  BY <1>1, DispatchFacts
<1>5. ASSUME NEW i \in Ids \ S
      PROVE  /\ Present(mem'[i]) => Descends(i, mem'[i], mem[i])
             /\ Present(store'[i]) => Descends(i, store'[i], store[i])
             /\ sent'[i] = sent[i]
  <2>1. sent'[i] = sent[i] BY DEF Dispatch
  <2> QED BY <1>1, <2>1, DispatchFacts
<1>6. ASSUME NEW i \in S PROVE sent'[i] = sent[i] + 1 BY DEF Dispatch
<1>7. AttemptsCoverDeliveries'
  <2> SUFFICES ASSUME NEW i \in Ids
               PROVE  /\ sent'[i] <= MaxAttempts[i]
                      /\ \A q \in {mem'[i], store'[i]} :
                            Present(q) => sent'[i] <= q.attempts /\ q.attempts <= MaxAttempts[i]
    BY DEF AttemptsCoverDeliveries, Present
  <2>1. /\ sent[i] \in Nat /\ MaxAttempts[i] \in Nat
        /\ mem[i] \in Record /\ store[i] \in Record
        /\ mem'[i] \in Record /\ store'[i] \in Record
    BY ConstantsAssumption DEF IInv, TypeOK
  <2>2. CASE i \in S
    <3>1. sent[i] <= mem[i].attempts
      BY <1>4, <2>2 DEF IInv, AttemptsCoverDeliveries, Present
    <3> QED BY <1>4, <1>6, <2>1, <2>2, <3>1 DEF Record
  <2>3. CASE i \notin S
    <3>1. ASSUME NEW r \in {mem[i], store[i]}, NEW q \in {mem'[i], store'[i]}, Descends(i, q, r)
          PROVE  sent[i] <= q.attempts /\ q.attempts <= MaxAttempts[i]
      <4>1. sent[i] <= r.attempts BY <3>1 DEF Descends, IInv, AttemptsCoverDeliveries
      <4> QED BY <2>1, <3>1, <4>1 DEF Descends, Record
    <3>2. sent[i] <= MaxAttempts[i] BY DEF IInv, AttemptsCoverDeliveries
    <3> QED BY <1>5, <2>3, <3>1, <3>2
  <2> QED BY <2>2, <2>3
<1>8. ASSUME NEW i \in Ids, NEW q \in {mem'[i], store'[i]}, q.status = "QUEUED"
      PROVE  i \notin S /\ q \in {mem[i], store[i]}
  <2>1. i \notin S BY <1>4, <1>8
  <2> QED BY <1>1, <1>8, <2>1, DispatchFacts
<1>9. DeliveredOrderNotQueued'
  <2>1. ASSUME NEW i \in Orders, sent'[i] > 0, NEW q \in {mem'[i], store'[i]}, q.status = "QUEUED"
        PROVE  FALSE
    BY <1>5, <1>8, <2>1, OrdersAreIds DEF IInv, DeliveredOrderNotQueued
  <2> QED BY <2>1 DEF DeliveredOrderNotQueued
<1>10. CancelledOrderNotSent'
  <2>1. ASSUME NEW i \in Orders, store'[i].status = "CANCELLED"
        PROVE  sent'[i] = 0 /\ mem'[i].status # "QUEUED"
    <3>1. i \notin S BY <1>4, <2>1
    <3>2. sent[i] = 0 /\ mem'[i].status # "QUEUED" BY <1>2, <2>1 DEF Effect, CancelledStayOut
    <3> QED BY <1>5, <3>1, <3>2, OrdersAreIds
  <2> QED BY <2>1 DEF CancelledOrderNotSent
<1>11. LedgerCoversSentOrders'
  <2> SUFFICES ASSUME NEW i \in Orders
               PROVE  /\ lastSent'[KeyOf[i]] <= now
                      /\ RecentlySent(KeyOf[i])' =>
                            /\ lastSent'[KeyOf[i]] + Retention <= ledger'[KeyOf[i]].expires
                            /\ \A q \in {mem'[i], store'[i]} :
                                  ~(q.status = "QUEUED" /\ Present(q) /\ now < q.expires)
    BY <1>3 DEF LedgerCoversSentOrders, Fresh, Present
  <2> DEFINE k == KeyOf[i]
  <2>1. i \in Ids /\ k \in Keys /\ Retention \in Nat BY OrdersAreIds, ConstantsAssumption
  <2>2. now \in Nat /\ lastSent[k] \in Nat /\ ledger[k] \in LedgerRow BY <2>1 DEF IInv, TypeOK
  <2>3. CASE \E j \in S \cap Orders : KeyOf[j] = k
    <3>1. PICK j \in S \cap Orders : KeyOf[j] = k BY <2>3
    <3>2. lastSent'[k] = now BY <2>1, <2>3 DEF Dispatch
    <3>3. ledger'[k].expires = now + Retention BY <1>4, <3>1
    <3>4. ASSUME NEW q \in {mem'[i], store'[i]}, q.status = "QUEUED", now < q.expires
          PROVE  FALSE
      <4>1. i \notin S /\ q \in {mem[i], store[i]} BY <1>8, <2>1, <3>4
      <4>2. FreshId(i) BY <3>4, <4>1 DEF FreshId, Fresh, Present
      <4>3. FreshId(j) BY <1>4 DEF FreshId
      <4>4. i = j BY <3>1, <4>2, <4>3 DEF IInv, OneFreshOrderPerKey
      <4> QED BY <4>1, <4>4
    <3>5. lastSent'[k] <= now BY <2>2, <3>2
    <3>6. lastSent'[k] + Retention <= ledger'[k].expires BY <2>1, <2>2, <3>2, <3>3
    <3> QED BY <3>4, <3>5, <3>6
  <2>4. CASE ~\E j \in S \cap Orders : KeyOf[j] = k
    <3>1. lastSent'[k] = lastSent[k] BY <2>1, <2>4 DEF Dispatch
    <3>2. lastSent[k] <= now BY DEF IInv, LedgerCoversSentOrders
    <3>3. ASSUME RecentlySent(k) PROVE lastSent[k] + Retention <= ledger'[k].expires
      <4>1. lastSent[k] + Retention <= ledger[k].expires
        BY <3>3 DEF IInv, LedgerCoversSentOrders
      <4>2. CASE ledger'[k] = ledger[k] BY <4>1, <4>2
      <4>3. CASE ledger[k].expires <= now
        BY <2>1, <2>2, <3>3, <4>1, <4>3 DEF RecentlySent, LedgerRow
      <4>4. ASSUME NEW j \in issued, KeyOf[j] = k,
                   j \in Orders => ledger'[k].expires = now + Retention
            PROVE  lastSent[k] + Retention <= ledger'[k].expires
        <5>1. j \in Orders BY <4>4, OrderKeysAssumption DEF IInv, TypeOK
        <5> QED BY <2>1, <2>2, <3>2, <4>4, <5>1
      <4>5. LedgerKept(k) BY <1>2, <2>1 DEF Effect
      <4> QED BY <4>2, <4>3, <4>4, <4>5 DEF LedgerKept
    <3>4. ASSUME RecentlySent(k), NEW q \in {mem'[i], store'[i]}, q.status = "QUEUED", now < q.expires
          PROVE  FALSE
      BY <1>8, <2>1, <3>4 DEF IInv, LedgerCoversSentOrders, Fresh, Present
    <3>5. RecentlySent(k)' => RecentlySent(k) BY <1>3, <3>1 DEF RecentlySent
    <3> QED BY <3>1, <3>2, <3>3, <3>4, <3>5
  <2> QED BY <2>3, <2>4
<1> QED BY <1>2, <1>7, <1>9, <1>10, <1>11, EffectKeeps DEF IInv

LEMMA EventEffect ==
  ASSUME IInv, NEW i \in Ids, GatewayEvent(i)
  PROVE  Effect
<1>1. ASSUME NEW ok \in BOOLEAN, CommandStarted(i, ok) PROVE Effect
  BY <1>1, AckEffect DEF CommandStarted, Statuses, Active
<1>2. ASSUME NEW ok \in BOOLEAN, NEW s \in {"ACKED", "REJECTED", "FAILED"}, CommandAcked(i, s, ok)
      PROVE  Effect
  <2>1. CASE s = "FAILED" BY <1>2, <2>1, FailEffect DEF CommandAcked
  <2>2. CASE s # "FAILED" BY <1>2, <2>2, AckEffect DEF CommandAcked, Statuses, Finished
  <2> QED BY <2>1, <2>2
<1>3. ASSUME NEW ok \in BOOLEAN, NEW retryable \in BOOLEAN, CommandFailed(i, retryable, ok)
      PROVE  Effect
  <2>1. FailCommand(i, retryable /\ i \notin Orders, ok) BY <1>3 DEF CommandFailed
  <2> QED BY <2>1, FailEffect
<1> QED BY <1>1, <1>2, <1>3 DEF GatewayEvent

LEMMA IInvStep ==
  ASSUME IInv, [Next]_vars
  PROVE  IInv'
<1>1. TypeOK' BY TypeOKStep DEF IInv
<1>2. CASE Tick BY <1>1, <1>2, TickStep
<1>3. CASE Poll BY <1>1, <1>3, DeliveryStep DEF Poll
<1>4. CASE PollLost
  <2>1. PICK limit \in Limits, S \in SUBSET Ids :
           \E kept \in SUBSET S : DispatchLost(S, kept, limit)
    BY <1>4 DEF PollLost
  <2>2. PICK kept \in SUBSET S : DispatchLost(S, kept, limit) BY <2>1
  <2>3. Effect BY <2>2, DispatchEffect DEF DispatchLost
  <2> QED BY <1>1, <2>2, <2>3, QuietStep DEF DispatchLost
<1>5. CASE ExpireOldCommands
  BY <1>1, <1>5, ExpireEffect, QuietStep DEF ExpireOldCommands, history
<1>6. CASE Restart
  BY <1>1, <1>6, RestartEffect, QuietStep DEF Restart, history
<1>7. ASSUME NEW S \in SUBSET Ids, PruneCommands(S) PROVE IInv'
  BY <1>1, <1>7, PruneEffect, QuietStep DEF PruneCommands, history
<1>8. ASSUME NEW i \in Ids, EnqueueCommand(i) PROVE IInv'
  BY <1>1, <1>8, EnqueueStep
<1>9. ASSUME NEW i \in Ids, GatewayEvent(i) PROVE IInv'
  <2>1. sent' = sent /\ lastSent' = lastSent
    BY <1>9 DEF GatewayEvent, CommandStarted, CommandAcked, CommandFailed, AckCommand,
                FailCommand, history
  <2> QED BY <1>1, <1>9, <2>1, EventEffect, QuietStep
<1>10. ASSUME NEW i \in Ids, SweepCommand(i) PROVE IInv'
  <2>1. Effect BY <1>10, AckEffect DEF SweepCommand, Statuses, Finished
  <2>2. sent' = sent /\ lastSent' = lastSent BY <1>10 DEF SweepCommand, AckCommand, history
  <2> QED BY <1>1, <2>1, <2>2, QuietStep
<1>11. ASSUME NEW i \in Ids, NEW ok \in BOOLEAN, CancelCommand(i, ok) PROVE IInv'
  <2>1. sent' = sent /\ lastSent' = lastSent BY <1>11 DEF CancelCommand, history
  <2> QED BY <1>1, <1>11, <2>1, CancelEffect, QuietStep
<1>12. CASE UNCHANGED vars
  <2>1. Effect
    <3>1. RecordsDescend BY <1>12, SameDescends DEF vars, RecordsDescend
    <3>2. CancelledStayOut BY <1>12 DEF vars, CancelledStayOut, IInv, CancelledOrderNotSent
    <3> QED BY <1>12, <3>1, <3>2 DEF vars, Effect, LedgerKept
  <2> QED BY <1>1, <1>12, <2>1, QuietStep DEF vars
<1> QED BY <1>2, <1>3, <1>4, <1>5, <1>6, <1>7, <1>8, <1>9, <1>10, <1>11, <1>12 DEF Next

LEMMA IInvInit == Init => IInv
<1> SUFFICES ASSUME Init PROVE IInv OBVIOUS
<1>1. TypeOK BY InitType
<1>2. \A i \in Ids : mem[i] = Absent /\ store[i] = Absent /\ sent[i] = 0 BY DEF Init
<1>3. \A k \in Keys : ledger[k] = NoRow /\ lastSent[k] = 0 BY DEF Init
<1>4. QueuedHasAttemptLeft /\ DeliveredOrderNotQueued /\ CancelledOrderNotSent
  BY <1>2, OrdersAreIds
  DEF QueuedHasAttemptLeft, DeliveredOrderNotQueued, CancelledOrderNotSent, Absent
<1>5. AttemptsCoverDeliveries
  BY <1>2, ConstantsAssumption DEF AttemptsCoverDeliveries, Present, Absent
<1>6. OnlyIssued BY <1>2, <1>3 DEF OnlyIssued, Present, Absent, NoRow
<1>7. ExpiryBounded BY <1>2 DEF ExpiryBounded, Present, Absent
<1>8. LedgerCoversFreshOrders /\ OneFreshOrderPerKey
  BY <1>2, OrdersAreIds
  DEF LedgerCoversFreshOrders, OneFreshOrderPerKey, FreshId, Fresh, Present, Absent
<1>9. LedgerCoversSentOrders
  <2>1. now = 1 BY DEF Init
  <2>2. \A i \in Orders : KeyOf[i] \in Keys BY OrdersAreIds, ConstantsAssumption
  <2> QED BY <1>3, <2>1, <2>2 DEF LedgerCoversSentOrders, RecentlySent
<1> QED BY <1>1, <1>4, <1>5, <1>6, <1>7, <1>8, <1>9 DEF IInv

\* The inductive invariant holds in every reachable state.
THEOREM Invariant == Spec => []IInv
<1>1. Init => IInv BY IInvInit
<1>2. IInv /\ [Next]_vars => IInv' BY IInvStep
<1> QED BY <1>1, <1>2, PTL DEF Spec

\* A queued command always has an attempt left, so the MAX_ATTEMPTS_EXCEEDED
\* branch of CommandQueue.dispatch is dead for every attempt limit.
THEOREM QueuedAlwaysHasAttemptLeft == Spec => []QueuedHasAttemptLeft
<1>1. IInv => QueuedHasAttemptLeft BY DEF IInv
<1> QED BY <1>1, Invariant, PTL

\* No acceptance of a command is delivered more often than its max_attempts.
THEOREM DeliveriesAreBounded == Spec => []DeliveriesBounded
<1>1. IInv => DeliveriesBounded BY DEF IInv, AttemptsCoverDeliveries, DeliveriesBounded
<1> QED BY <1>1, Invariant, PTL

\* Two unexpired orders never share a dedupe key.
THEOREM OrdersKeepTheirKeys == Spec => []OneFreshOrderPerKey
<1>1. IInv => OneFreshOrderPerKey BY DEF IInv
<1> QED BY <1>1, Invariant, PTL

\* A stored cancellation of an order is final.
THEOREM CancelledOrdersStayOut == Spec => []CancelledOrderNotSent
<1>1. IInv => CancelledOrderNotSent BY DEF IInv
<1> QED BY <1>1, Invariant, PTL

-----------------------------------------------------------------------------
\* The command channel implements OrderDelivery.

phases == [i \in Orders |-> OrderPhase(i)]

\* A quiet step sends nothing and at most withdraws pending orders.
LEMMA QuietImplements ==
  ASSUME IInv, IInv', Effect, sent' = sent, lastSent' = lastSent
  PROVE  Delivery!Next \/ UNCHANGED Delivery!vars
<1> DEFINE W == {i \in Orders : OrderPhase(i) = "pending" /\ OrderPhase(i)' = "withdrawn"}
<1>1. ASSUME NEW i \in Orders
      PROVE  OrderPhase(i)' = IF i \in W THEN "withdrawn" ELSE OrderPhase(i)
  <2>1. i \in Ids BY OrdersAreIds
  <2>2. issued' = issued BY DEF Effect
  <2>3. ASSUME "QUEUED" \in {mem'[i].status, store'[i].status}
        PROVE  "QUEUED" \in {mem[i].status, store[i].status}
    <3>1. PICK q \in {mem'[i], store'[i]} : q.status = "QUEUED" BY <2>3
    <3>2. PICK r \in {mem[i], store[i]} : Descends(i, q, r)
      BY <2>1, <3>1 DEF Effect, RecordsDescend, Present
    <3> QED BY <3>1, <3>2 DEF Descends
  <2> QED BY <2>2, <2>3 DEF OrderPhase
<1>2. W \in SUBSET Orders /\ {} \in SUBSET Orders OBVIOUS
<1>3. \A i \in {} \cup W : phases[i] = "pending" BY DEF phases
<1>4. phases' = [i \in Orders |-> IF i \in {} THEN "sent"
                                  ELSE IF i \in W THEN "withdrawn" ELSE phases[i]]
  BY <1>1 DEF phases
<1>5. lastSent' = [k \in Keys |-> IF \E i \in {} : KeyOf[i] = k THEN now ELSE lastSent[k]]
  BY DEF IInv, TypeOK
<1>6. now' = now BY DEF Effect
<1> HIDE DEF W
<1>7. Delivery!Settle({}, W)
  BY <1>2, <1>3, <1>4, <1>5, <1>6 DEF Delivery!Settle, phases
<1> QED BY <1>2, <1>7 DEF Delivery!Next

\* A delivery sends the orders of the batch, each on a rested key of its own.
LEMMA DeliveryImplements ==
  ASSUME IInv, IInv', NEW S \in SUBSET Ids, NEW limit, Dispatch(S, limit)
  PROVE  Delivery!Next
<1> DEFINE D == S \cap Orders
           W == {i \in Orders \ S : OrderPhase(i) = "pending" /\ OrderPhase(i)' = "withdrawn"}
<1>1. DispatchStep(S, S, limit) BY DEF Dispatch
<1>2. Effect BY <1>1, DispatchEffect
<1>3. now' = now /\ issued' = issued BY <1>2 DEF Effect
<1>4. ASSUME NEW i \in D
      PROVE  /\ mem[i].status = "QUEUED" /\ Fresh(mem[i])
             /\ OrderPhase(i) = "pending" /\ OrderPhase(i)' = "sent"
  <2>1. i \in Ids BY OrdersAreIds
  <2>2. mem[i].status = "QUEUED" /\ Fresh(mem[i]) BY <1>1, DispatchFacts
  <2>3. i \in issued BY <2>1, <2>2 DEF IInv, OnlyIssued, Present
  <2>4. sent[i] \in Nat /\ ~(sent[i] > 0) BY <2>1, <2>2 DEF IInv, DeliveredOrderNotQueued, TypeOK
  <2>5. sent'[i] = sent[i] + 1 BY <2>1 DEF Dispatch
  <2>6. sent'[i] > 0 BY <2>4, <2>5
  <2> QED BY <1>3, <2>2, <2>3, <2>4, <2>6 DEF OrderPhase
<1>5. ASSUME NEW i \in Orders \ S
      PROVE  OrderPhase(i)' = IF i \in W THEN "withdrawn" ELSE OrderPhase(i)
  <2>1. i \in Ids /\ sent'[i] = sent[i] BY OrdersAreIds DEF Dispatch
  <2>2. ASSUME "QUEUED" \in {mem'[i].status, store'[i].status}
        PROVE  "QUEUED" \in {mem[i].status, store[i].status}
    <3>1. PICK q \in {mem'[i], store'[i]} : q.status = "QUEUED" BY <2>2
    <3>2. PICK r \in {mem[i], store[i]} : Descends(i, q, r)
      BY <1>2, <2>1, <3>1 DEF Effect, RecordsDescend, Present
    <3> QED BY <3>1, <3>2 DEF Descends
  <2> QED BY <1>3, <2>1, <2>2 DEF OrderPhase
<1>6. ASSUME NEW i \in D PROVE lastSent[KeyOf[i]] = 0 \/ now >= lastSent[KeyOf[i]] + Retention
  <2>1. KeyOf[i] \in Keys /\ Retention \in Nat BY OrdersAreIds, ConstantsAssumption
  <2>2. lastSent[KeyOf[i]] \in Nat /\ now \in Nat BY <2>1 DEF IInv, TypeOK
  <2>3. ~RecentlySent(KeyOf[i]) BY <1>4 DEF IInv, LedgerCoversSentOrders
  <2> QED BY <2>1, <2>2, <2>3 DEF RecentlySent
<1>7. ASSUME NEW i \in D, NEW j \in D, KeyOf[i] = KeyOf[j] PROVE i = j
  BY <1>4, <1>7 DEF IInv, OneFreshOrderPerKey, FreshId
<1>8. D \in SUBSET Orders /\ W \in SUBSET Orders OBVIOUS
<1>9. \A i \in D \cup W : phases[i] = "pending" BY <1>4 DEF phases
<1>10. phases' = [i \in Orders |-> IF i \in D THEN "sent"
                                   ELSE IF i \in W THEN "withdrawn" ELSE phases[i]]
  BY <1>4, <1>5 DEF phases
<1>11. lastSent' = [k \in Keys |-> IF \E i \in D : KeyOf[i] = k THEN now ELSE lastSent[k]]
  BY DEF Dispatch
<1> HIDE DEF D, W
<1>12. Delivery!Settle(D, W)
  BY <1>3, <1>6, <1>7, <1>8, <1>9, <1>10, <1>11 DEF Delivery!Settle, Delivery!Rested, phases
<1> QED BY <1>8, <1>12 DEF Delivery!Next

\* An accepted order becomes pending; accepting anything else is invisible.
LEMMA EnqueueImplements ==
  ASSUME IInv, IInv', NEW i \in Ids, EnqueueCommand(i)
  PROVE  Delivery!Next \/ UNCHANGED Delivery!vars
<1>1. /\ now' = now /\ lastSent' = lastSent
      /\ issued' = issued \cup {i}
      /\ sent'[i] = 0 /\ mem'[i].status = "QUEUED"
  BY DEF EnqueueCommand, IInv, TypeOK, NewRecord
<1>2. ASSUME NEW j \in Ids, j # i PROVE OrderPhase(j)' = OrderPhase(j)
  BY <1>2 DEF EnqueueCommand, OrderPhase, IInv, TypeOK
<1>3. CASE i \in Orders
  <2>1. OrderPhase(i) = "none" BY <1>3 DEF EnqueueCommand, OrderPhase
  <2>2. OrderPhase(i)' = "pending" BY <1>1 DEF OrderPhase
  <2>3. phases[i] = "none" BY <1>3, <2>1 DEF phases
  <2>4. phases' = [phases EXCEPT ![i] = "pending"]
    BY <1>2, <1>3, <2>2, OrdersAreIds DEF phases
  <2>5. Delivery!Accept(i) BY <1>1, <2>3, <2>4 DEF Delivery!Accept, phases
  <2> QED BY <1>3, <2>5 DEF Delivery!Next
<1>4. CASE i \notin Orders
  <2>1. phases' = phases BY <1>2, <1>4, OrdersAreIds DEF phases
  <2> QED BY <1>1, <2>1 DEF Delivery!vars, phases
<1> QED BY <1>3, <1>4

LEMMA StepImplements ==
  ASSUME IInv, IInv', [Next]_vars
  PROVE  Delivery!Next \/ UNCHANGED Delivery!vars
<1>1. CASE Tick
  <2>1. now' = now + 1 /\ lastSent' = lastSent /\ phases' = phases
    BY <1>1 DEF Tick, history, phases, OrderPhase
  <2> QED BY <2>1 DEF Delivery!Next, Delivery!Advance, phases
<1>2. CASE Poll BY <1>2, DeliveryImplements DEF Poll
<1>3. CASE PollLost
  <2>1. PICK limit \in Limits, S \in SUBSET Ids :
           \E kept \in SUBSET S : DispatchLost(S, kept, limit)
    BY <1>3 DEF PollLost
  <2>2. PICK kept \in SUBSET S : DispatchLost(S, kept, limit) BY <2>1
  <2>3. Effect BY <2>2, DispatchEffect DEF DispatchLost
  <2> QED BY <2>2, <2>3, QuietImplements DEF DispatchLost
<1>4. CASE ExpireOldCommands
  BY <1>4, ExpireEffect, QuietImplements DEF ExpireOldCommands, history
<1>5. CASE Restart
  BY <1>5, RestartEffect, QuietImplements DEF Restart, history
<1>6. ASSUME NEW S \in SUBSET Ids, PruneCommands(S) PROVE Delivery!Next \/ UNCHANGED Delivery!vars
  BY <1>6, PruneEffect, QuietImplements DEF PruneCommands, history
<1>7. ASSUME NEW i \in Ids, EnqueueCommand(i) PROVE Delivery!Next \/ UNCHANGED Delivery!vars
  BY <1>7, EnqueueImplements
<1>8. ASSUME NEW i \in Ids, GatewayEvent(i) PROVE Delivery!Next \/ UNCHANGED Delivery!vars
  <2>1. sent' = sent /\ lastSent' = lastSent
    BY <1>8 DEF GatewayEvent, CommandStarted, CommandAcked, CommandFailed, AckCommand,
                FailCommand, history
  <2> QED BY <1>8, <2>1, EventEffect, QuietImplements
<1>9. ASSUME NEW i \in Ids, SweepCommand(i) PROVE Delivery!Next \/ UNCHANGED Delivery!vars
  <2>1. Effect BY <1>9, AckEffect DEF SweepCommand, Statuses, Finished
  <2>2. sent' = sent /\ lastSent' = lastSent BY <1>9 DEF SweepCommand, AckCommand, history
  <2> QED BY <2>1, <2>2, QuietImplements
<1>10. ASSUME NEW i \in Ids, NEW ok \in BOOLEAN, CancelCommand(i, ok)
       PROVE  Delivery!Next \/ UNCHANGED Delivery!vars
  <2>1. sent' = sent /\ lastSent' = lastSent BY <1>10 DEF CancelCommand, history
  <2> QED BY <1>10, <2>1, CancelEffect, QuietImplements
<1>11. CASE UNCHANGED vars
  BY <1>11 DEF vars, Delivery!vars, OrderPhase
<1> QED BY <1>1, <1>2, <1>3, <1>4, <1>5, <1>6, <1>7, <1>8, <1>9, <1>10, <1>11 DEF Next

LEMMA InitImplements == Init => Delivery!Init
  BY OrdersAreIds DEF Init, Delivery!Init, OrderPhase

\* The command channel gives every order path the at-most-once delivery that
\* OrderDelivery promises, through restarts, lost responses, failed writes,
\* sweeps and late events.
THEOREM ChannelImplementsOrderDelivery == Spec => ImplementsOrderDelivery
<1>1. Init => Delivery!Init BY InitImplements
<1>2. IInv /\ IInv' /\ [Next]_vars => [Delivery!Next]_(Delivery!vars) BY StepImplements
<1> QED BY <1>1, <1>2, Invariant, PTL DEF Spec, ImplementsOrderDelivery, Delivery!Spec

=============================================================================
