------------------------- MODULE OrderEventLogProofs -------------------------
(***************************************************************************)
(* Proofs about OrderEventLog, for any number of events, fills, attempts   *)
(* and faults.                                                             *)
(***************************************************************************)
EXTENDS OrderEventLog, SequenceTheorems, TLAPS

-----------------------------------------------------------------------------
\* The inductive invariant.

On(w, f) == FillOf[worker[w].event] = f

\* There is nothing to apply any more: the fill has its receipt, or it is not in
\* the log.
Settled(e) == Receipt(e) \/ e \in stubs

\* A thread that does something does it for an event, and what it found out of
\* that event is so: it saves a receipt after it applied the event, it reports
\* success when there is a receipt or the record is a stub.
Knows(w) ==
    /\ worker[w].step # "idle" => worker[w].event \in Events
    /\ worker[w].logged => worker[w].attempts # 0
    /\ worker[w].step = "save" => applied[FillOf[worker[w].event]] > 0
    /\ worker[w].result \in {"APPLIED", "DUPLICATE_ALREADY_APPLIED"} =>
          worker[w].event \in Events /\ Settled(worker[w].event)
    /\ worker[w].result = "IGNORED" => worker[w].event \in Ignored

\* A receipt is of a fill that was applied, and a closed row of an event that
\* has a receipt, that is a stub or that the codec ignores.
ReceiptsAreTrue == \A r \in receipts : applied[FillOf[r]] > 0
RowsAreTrue ==
    \A e \in Events :
        /\ row[e].status = "PROCESSED" => Settled(e)
        /\ row[e].status = "IGNORED" => e \in Ignored
        /\ row[e].status = "FAILED" => e \in stubs

\* A fill whose receipt window was neither shared nor cut off: one thread at
\* most is in the window, an application is still to come only when there was
\* none, and one that was made has its receipt or will have it.
OneWindow(f) == \A v, w \in Workers : InWindow(v, f) /\ InWindow(w, f) => v = w
NotYetApplied(f) == \A w \in Workers : worker[w].step = "apply" /\ On(w, f) => applied[f] = 0
ReceiptFollows(f) ==
    applied[f] > 0 => \/ \E r \in receipts : FillOf[r] = f
                      \/ \E w \in Workers : worker[w].step = "save" /\ On(w, f)
FillGuarded(f) ==
    f \notin exposed => OneWindow(f) /\ NotYetApplied(f) /\ ReceiptFollows(f) /\ applied[f] <= 1

LogInv ==
    /\ TypeOK
    /\ \A w \in Workers : Knows(w)
    /\ ReceiptsAreTrue
    /\ RowsAreTrue
    /\ \A f \in Fills : FillGuarded(f)

-----------------------------------------------------------------------------
\* Facts about threads and rows.

LEMMA FillType == \A e \in Events : FillOf[e] \in Fills
  BY ConstantsAssumption

LEMMA WorkerExcept ==
    ASSUME TypeOK, NEW w \in Workers, NEW new \in Worker, worker' = [worker EXCEPT ![w] = new]
    PROVE  /\ worker' \in [Workers -> Worker]
           /\ worker'[w] = new
           /\ \A v \in Workers \ {w} : worker'[v] = worker[v]
  BY DEF TypeOK

LEMMA IdleType == Idle \in Worker /\ Idle.step = "idle" /\ ~Idle.logged /\ Idle.result = "none"
  BY DEF Idle, Worker, Steps, Results

LEMMA LongestWaitType == LongestWait \in Nat /\ Lease \in 0..LongestWait /\ RetryMax \in 0..LongestWait
  BY ConstantsAssumption DEF LongestWait

LEMMA RowType ==
    ASSUME NEW r \in Row
    PROVE  /\ Claimed(r) \in Row
           /\ \A s \in Statuses : [r EXCEPT !.status = s] \in Row
           /\ \A s \in Statuses : [r EXCEPT !.status = s, !.due = 0] \in Row
  <1>1. Lease \in 0..LongestWait /\ 0 \in 0..LongestWait /\ r.attempts + 1 \in Nat
    BY LongestWaitType DEF Row
  <1>2. Claimed(r) \in Row
    BY <1>1 DEF Row, Claimed, Statuses
  <1>3. /\ \A s \in Statuses : [r EXCEPT !.status = s] \in Row
        /\ \A s \in Statuses : [r EXCEPT !.status = s, !.due = 0] \in Row
    BY <1>1 DEF Row
  <1> QED BY <1>2, <1>3

LEMMA DelayType ==
    ASSUME NEW a \in Nat, a # 0, a < MaxAttempts
    PROVE  RetryDelay(a) \in 0..LongestWait
  <1>1. MaxAttempts \in Nat /\ RetryBase \in Nat /\ RetryMax \in Nat
    BY ConstantsAssumption
  <1>2. a - 1 \in 0..MaxAttempts
    BY <1>1
  <1> DEFINE p == 2^(a - 1)
  <1>3. p \in Nat
    BY <1>2, PowersAssumption
  <1> HIDE DEF p
  <1>4. RetryBase * p \in Nat
    BY <1>1, <1>3
  <1>5. (IF RetryBase * p < RetryMax THEN RetryBase * p ELSE RetryMax) \in 0..RetryMax
    BY <1>1, <1>4
  <1> QED BY <1>5, LongestWaitType DEF RetryDelay, p

\* What a thread knows stays so while receipts and applications only grow.
LEMMA KnowsStays ==
    ASSUME LogInv, NEW v \in Workers, worker'[v] = worker[v], receipts \subseteq receipts',
           stubs \subseteq stubs',
           applied' \in [Fills -> Nat], \A f \in Fills : applied[f] <= applied'[f]
    PROVE  Knows(v)'
  <1>1. Knows(v) /\ TypeOK
    BY DEF LogInv
  <1>2. ASSUME worker[v].step = "save" PROVE applied'[FillOf[worker[v].event]] > 0
    <2>1. FillOf[worker[v].event] \in Fills /\ applied[FillOf[worker[v].event]] > 0
      BY <1>1, <1>2, FillType DEF Knows
    <2> QED BY <1>1, <2>1 DEF TypeOK
  <1>3. ASSUME NEW e, Settled(e) PROVE Settled(e)'
    BY <1>3 DEF Settled, Receipt
  <1> QED BY <1>1, <1>2, <1>3 DEF Knows, Settled, Receipt

\* No row is closed by the step, and only a stub becomes FAILED.
RowsOpen ==
    \A e \in Events :
        row'[e].status \in {"PROCESSED", "IGNORED", "FAILED"} =>
            \/ row'[e].status = row[e].status
            \/ row'[e].status = "FAILED" /\ e \in stubs'

LEMMA RowsStayTrue ==
    ASSUME LogInv, receipts \subseteq receipts', stubs \subseteq stubs', RowsOpen
    PROVE  RowsAreTrue'
  BY DEF LogInv, RowsAreTrue, RowsOpen, Settled, Receipt

-----------------------------------------------------------------------------
\* The kinds of steps.

\* No thread moves.
LEMMA QuietLog ==
    ASSUME LogInv, TypeOK', RowsOpen, stubs \subseteq stubs',
           UNCHANGED <<worker, receipts, applied, exposed>>
    PROVE  LogInv'
  <1>1. RowsAreTrue'
    BY RowsStayTrue
  <1>2. \A w \in Workers : Knows(w)'
    BY DEF LogInv, Knows, Settled, Receipt
  <1>3. ReceiptsAreTrue'
    BY DEF LogInv, ReceiptsAreTrue
  <1>4. \A f \in Fills : FillGuarded(f)'
    BY DEF LogInv, FillGuarded, OneWindow, NotYetApplied, ReceiptFollows, InWindow, On
  <1> QED BY <1>1, <1>2, <1>3, <1>4 DEF LogInv

\* No thread enters the window; one that leaves it after the application leaves
\* a receipt or an exposed fill behind.
LEMMA GuardKept ==
    ASSUME LogInv, TypeOK', NEW f \in Fills, FillGuarded(f), exposed \subseteq exposed',
           receipts \subseteq receipts', applied' = applied,
           \A v \in Workers : worker'[v].step \in {"apply", "save"} => worker'[v] = worker[v],
           \A v \in Workers : worker[v].step = "save" =>
               \/ worker'[v] = worker[v]
               \/ FillOf[worker[v].event] \in exposed'
               \/ \E r \in receipts' : FillOf[r] = FillOf[worker[v].event]
    PROVE  FillGuarded(f)'
  <1> SUFFICES ASSUME f \notin exposed'
               PROVE  (OneWindow(f) /\ NotYetApplied(f) /\ ReceiptFollows(f) /\ applied[f] <= 1)'
    BY DEF FillGuarded
  <1>1. f \notin exposed /\ OneWindow(f) /\ NotYetApplied(f) /\ ReceiptFollows(f) /\ applied[f] <= 1
    BY DEF FillGuarded
  <1>2. OneWindow(f)'
    BY <1>1 DEF OneWindow, InWindow
  <1>3. NotYetApplied(f)'
    BY <1>1 DEF NotYetApplied, On
  <1>4. ReceiptFollows(f)'
    <2> SUFFICES ASSUME applied[f] > 0
                 PROVE  \/ \E r \in receipts' : FillOf[r] = f
                        \/ \E w \in Workers : worker'[w].step = "save" /\ FillOf[worker'[w].event] = f
      BY DEF ReceiptFollows, On
    <2>1. CASE \E r \in receipts : FillOf[r] = f
      BY <2>1
    <2>2. CASE \E w \in Workers : worker[w].step = "save" /\ FillOf[worker[w].event] = f
      BY <2>2
    <2> QED BY <1>1, <2>1, <2>2 DEF ReceiptFollows, On
  <1> QED BY <1>1, <1>2, <1>3, <1>4

\* One thread takes a step that does not enter the window.
LEMMA WorkerStep ==
    ASSUME LogInv, TypeOK', NEW w \in Workers, NEW new \in Worker,
           worker' = [worker EXCEPT ![w] = new],
           receipts \subseteq receipts', stubs \subseteq stubs', exposed \subseteq exposed',
           applied' = applied, ReceiptsAreTrue', RowsAreTrue',
           new.step \notin {"apply", "save"},
           new.step # "idle" => new.event \in Events,
           new.logged => new.attempts # 0,
           new.result \in {"APPLIED", "DUPLICATE_ALREADY_APPLIED"} =>
               /\ new.event \in Events
               /\ new.event \in stubs' \/ \E r \in receipts' : FillOf[r] = FillOf[new.event],
           new.result = "IGNORED" => new.event \in Ignored,
           worker[w].step = "save" =>
               \/ FillOf[worker[w].event] \in exposed'
               \/ \E r \in receipts' : FillOf[r] = FillOf[worker[w].event]
    PROVE  LogInv'
  <1>1. TypeOK
    BY DEF LogInv
  <1>2. worker'[w] = new /\ \A v \in Workers \ {w} : worker'[v] = worker[v]
    BY <1>1, WorkerExcept
  <1>3. \A f \in Fills : FillGuarded(f)'
    <2> TAKE f \in Fills
    <2>1. FillGuarded(f)
      BY DEF LogInv
    <2> QED BY <1>2, <2>1, GuardKept
  <1>4. ASSUME NEW v \in Workers PROVE Knows(v)'
    <2>1. CASE v = w
      BY <1>2, <2>1 DEF Knows, Settled, Receipt
    <2>2. CASE v # w
      <3>1. worker'[v] = worker[v]
        BY <1>2, <2>2
      <3>2. applied' \in [Fills -> Nat] /\ \A f \in Fills : applied[f] <= applied'[f]
        BY <1>1 DEF TypeOK
      <3> QED BY <3>1, <3>2, KnowsStays
    <2> QED BY <2>1, <2>2
  <1> QED BY <1>3, <1>4 DEF LogInv

-----------------------------------------------------------------------------
\* Every step keeps the invariant.

LEMMA RecordEventInv == ASSUME LogInv, NEW e \in Events, RecordEvent(e) PROVE LogInv'
  <1>1. TypeOK /\ UNCHANGED <<inbox, batch, worker, receipts, stopNewBuy, applied, exposed>>
    BY DEF LogInv, RecordEvent
  <1>2. /\ row' \in [Events -> Row] /\ RowsOpen
        /\ stubs \subseteq stubs' /\ stubs' \subseteq Events
    <2>1. CASE row' = row /\ stubs' = stubs
      BY <1>1, <2>1 DEF TypeOK, RowsOpen
    <2>2. ASSUME NEW s \in {"PENDING", "FAILED"}, row' = [row EXCEPT ![e].status = s],
                 stubs \subseteq stubs', stubs' \subseteq stubs \cup {e}, s = "FAILED" => e \in stubs'
          PROVE  row' \in [Events -> Row] /\ RowsOpen /\ stubs' \subseteq Events
      <3>1. row[e] \in Row
        BY <1>1 DEF TypeOK
      <3>2. [row[e] EXCEPT !.status = s] \in Row
        BY <3>1, RowType DEF Statuses
      <3>3. row' = [row EXCEPT ![e] = [row[e] EXCEPT !.status = s]]
        BY <1>1, <2>2 DEF TypeOK
      <3>4. [row[e] EXCEPT !.status = s].status = s
        BY <3>1 DEF Row
      <3>5. row' \in [Events -> Row]
        BY <1>1, <3>2, <3>3 DEF TypeOK
      <3>6. row'[e].status = s /\ \A d \in Events \ {e} : row'[d] = row[d]
        BY <1>1, <3>3, <3>4 DEF TypeOK
      <3>7. RowsOpen
        BY <2>2, <3>6 DEF RowsOpen
      <3>8. stubs' \subseteq Events
        BY <1>1, <2>2 DEF TypeOK
      <3> QED BY <3>5, <3>7, <3>8
    <2>3. CASE row' = Appended(e, "PENDING") /\ stubs' = stubs
      BY <2>1, <2>2, <2>3 DEF Appended
    <2>4. CASE row' = Appended(e, "FAILED") /\ stubs' = IF row' = row THEN stubs ELSE stubs \cup {e}
      <3>1. CASE row' = row
        BY <2>1, <2>4, <3>1
      <3>2. CASE row' # row
        BY <2>2, <2>4, <3>2 DEF Appended
      <3> QED BY <3>1, <3>2
    <2> QED BY <2>1, <2>3, <2>4 DEF RecordEvent
  <1>3. /\ posts' \in [Events -> Nat] /\ faults' \in Nat
        /\ seen' \subseteq Events /\ persisting' \subseteq Events
    BY <1>1 DEF TypeOK, RecordEvent, Fault
  <1>4. TypeOK'
    BY <1>1, <1>2, <1>3 DEF TypeOK
  <1> QED BY <1>1, <1>2, <1>4, QuietLog

LEMMA PersistEventInv == ASSUME LogInv, NEW e \in Events, PersistEvent(e) PROVE LogInv'
  <1>1. /\ TypeOK
        /\ UNCHANGED <<posts, stubs, seen, row, batch, worker, receipts, stopNewBuy, applied, exposed>>
    BY DEF LogInv, PersistEvent
  <1>2. faults' \in Nat /\ persisting' \subseteq Events /\ inbox' \in Seq(Events)
    <2>1. Append(inbox, e) \in Seq(Events)
      BY <1>1, AppendProperties DEF TypeOK
    <2>2. inbox' \in Seq(Events)
      BY <1>1, <2>1 DEF TypeOK, PersistEvent
    <2>3. faults' \in Nat /\ persisting' \subseteq Events
      BY <1>1 DEF TypeOK, PersistEvent, Fault
    <2> QED BY <2>2, <2>3
  <1>3. TypeOK'
    BY <1>1, <1>2 DEF TypeOK
  <1> QED BY <1>1, <1>3, QuietLog DEF RowsOpen

LEMMA TickInv == ASSUME LogInv, Tick PROVE LogInv'
  <1>1. /\ TypeOK
        /\ row' = [e \in Events |-> [row[e] EXCEPT !.due = IF @ > 0 THEN @ - 1 ELSE 0]]
        /\ UNCHANGED <<posts, stubs, faults, seen, persisting, inbox, batch, worker, receipts, stopNewBuy,
                       applied, exposed>>
    BY DEF LogInv, Tick
  <1>2. ASSUME NEW e \in Events PROVE row'[e] \in Row /\ row'[e].status = row[e].status
    <2>1. row[e] \in Row
      BY <1>1 DEF TypeOK
    <2>2. row'[e] = [row[e] EXCEPT !.due = IF row[e].due > 0 THEN row[e].due - 1 ELSE 0]
      BY <1>1
    <2>3. (IF row[e].due > 0 THEN row[e].due - 1 ELSE 0) \in 0..LongestWait
      BY <2>1, LongestWaitType DEF Row
    <2> QED BY <2>1, <2>2, <2>3 DEF Row
  <1>3. TypeOK'
    <2>1. row' \in [Events -> Row]
      BY <1>1, <1>2
    <2> QED BY <1>1, <2>1 DEF TypeOK
  <1> QED BY <1>1, <1>2, <1>3, QuietLog DEF RowsOpen

LEMMA ClaimBatchInv == ASSUME LogInv, ClaimBatch PROVE LogInv'
  <1> DEFINE r == Recovered
             claimed == FirstDue(r)
  <1>1. /\ TypeOK
        /\ row' = [e \in Events |-> IF e \in claimed THEN Claimed(r[e]) ELSE r[e]]
        /\ batch' = [e \in Events |-> IF e \in claimed THEN r[e].attempts + 1 ELSE 0]
        /\ UNCHANGED <<posts, stubs, faults, seen, persisting, inbox, worker, receipts, stopNewBuy, applied,
                       exposed>>
    BY DEF LogInv, ClaimBatch
  <1>2. ASSUME NEW e \in Events
        PROVE  /\ r[e] \in Row
               /\ r[e].status # "PENDING" => r[e].status = row[e].status
    <2>1. row[e] \in Row
      BY <1>1 DEF TypeOK
    <2>2. [row[e] EXCEPT !.status = "PENDING"] \in Row
      BY <2>1, RowType DEF Statuses
    <2>3. [row[e] EXCEPT !.status = "PENDING"].status = "PENDING"
      BY <2>1 DEF Row
    <2> QED BY <2>1, <2>2, <2>3 DEF Recovered
  <1> HIDE DEF r, claimed
  <1>3. ASSUME NEW e \in Events
        PROVE  row'[e] \in Row /\ batch'[e] \in Nat
    <2>1. r[e].attempts + 1 \in Nat
      BY <1>2 DEF Row
    <2> QED BY <1>1, <1>2, <2>1, RowType
  <1>4. RowsOpen
    BY <1>1, <1>2 DEF RowsOpen, Claimed
  <1>5. TypeOK'
    <2>1. row' \in [Events -> Row] /\ batch' \in [Events -> Nat]
      BY <1>1, <1>3
    <2> QED BY <1>1, <2>1 DEF TypeOK
  <1> QED BY <1>1, <1>4, <1>5, QuietLog

LEMMA WorkingFacts ==
    ASSUME TypeOK, NEW w \in Workers, NEW e \in Events, NEW step \in {"look", "stop"},
           NEW a \in Nat
    PROVE  LET new == [step |-> step, event |-> e, attempts |-> a, logged |-> step = "look",
                       result |-> "none"]
           IN  new \in Worker /\ Working(w, e, step, a) = [worker EXCEPT ![w] = new]
  BY DEF Working, Worker, Steps, Results

LEMMA TakeLiveEventInv == ASSUME LogInv, TakeLiveEvent PROVE LogInv'
  <1> DEFINE e == Head(inbox)
  <1>1. /\ TypeOK /\ worker["live"].step = "idle" /\ inbox # <<>> /\ inbox' = Tail(inbox)
        /\ UNCHANGED <<posts, stubs, faults, seen, persisting, batch, receipts, stopNewBuy, applied, exposed>>
    BY DEF LogInv, TakeLiveEvent
  <1>2. e \in Events /\ inbox' \in Seq(Events)
    BY <1>1, HeadTailProperties DEF TypeOK
  <1>3. row[e] \in Row /\ row[e].attempts + 1 \in Nat /\ row[e].attempts + 1 # 0
    BY <1>1, <1>2 DEF TypeOK, Row
  <1>4. ReceiptsAreTrue' /\ "live" \in Workers
    BY <1>1 DEF LogInv, ReceiptsAreTrue, Workers
  <1>5. CASE row' = row /\ worker' = worker
    <2>1. TypeOK'
      BY <1>1, <1>2, <1>5 DEF TypeOK
    <2> QED BY <1>1, <1>5, <2>1, QuietLog DEF RowsOpen
  <1>6. CASE row' = row /\ worker' = Working("live", e, "stop", 0)
    <2> DEFINE new == [step |-> "stop", event |-> e, attempts |-> 0, logged |-> "stop" = "look",
                       result |-> "none"]
    <2>1. new \in Worker /\ worker' = [worker EXCEPT !["live"] = new]
      BY <1>1, <1>2, <1>4, <1>6, WorkingFacts
    <2>2. TypeOK'
      BY <1>1, <1>2, <1>4, <1>6, <2>1, WorkerExcept DEF TypeOK
    <2>3. RowsAreTrue'
      BY <1>1, <1>6, RowsStayTrue DEF RowsOpen
    <2>4. /\ new.step = "stop" /\ new.event = e /\ ~new.logged /\ new.result = "none"
      OBVIOUS
    <2> HIDE DEF new, e
    <2> QED BY <1>1, <1>2, <1>4, <2>1, <2>2, <2>3, <2>4, WorkerStep
  <1>7. CASE /\ row' = [row EXCEPT ![e] = Claimed(row[e])]
             /\ worker' = Working("live", e, "look", row[e].attempts + 1)
    <2> DEFINE a == row[e].attempts + 1
               new == [step |-> "look", event |-> e, attempts |-> a, logged |-> "look" = "look",
                       result |-> "none"]
    <2> HIDE DEF a
    <2>1. a \in Nat /\ a # 0
      BY <1>3 DEF a
    <2>2. new \in Worker /\ worker' = [worker EXCEPT !["live"] = new]
      BY <1>1, <1>2, <1>4, <1>7, <2>1, WorkingFacts DEF a
    <2>3. row' \in [Events -> Row]
      BY <1>1, <1>2, <1>3, <1>7, RowType DEF TypeOK
    <2>4. TypeOK'
      BY <1>1, <1>2, <1>4, <2>2, <2>3, WorkerExcept DEF TypeOK
    <2>5. RowsAreTrue'
      <3>1. RowsOpen
        BY <1>1, <1>2, <1>7 DEF RowsOpen, Claimed, TypeOK
      <3> QED BY <1>1, <3>1, RowsStayTrue
    <2>6. new.step = "look" /\ new.event = e /\ new.attempts = a /\ new.result = "none"
      OBVIOUS
    <2> HIDE DEF new, e
    <2> QED BY <1>1, <1>2, <1>4, <2>1, <2>2, <2>4, <2>5, <2>6, WorkerStep
  <1> QED BY <1>5, <1>6, <1>7 DEF TakeLiveEvent

LEMMA TakeClaimedRecordInv ==
    ASSUME LogInv, NEW e \in Events, TakeClaimedRecord(e) PROVE LogInv'
  <1>1. /\ TypeOK /\ worker["replay"].step = "idle" /\ batch[e] # 0
        /\ worker' = Working("replay", e, "look", batch[e])
        /\ batch' = [batch EXCEPT ![e] = 0]
        /\ UNCHANGED <<posts, stubs, faults, seen, persisting, inbox, row, receipts, stopNewBuy, applied,
                       exposed>>
    BY DEF LogInv, TakeClaimedRecord
  <1>2. batch[e] \in Nat /\ batch' \in [Events -> Nat]
    BY <1>1 DEF TypeOK
  <1> DEFINE new == [step |-> "look", event |-> e, attempts |-> batch[e], logged |-> "look" = "look",
                     result |-> "none"]
  <1>3. new \in Worker /\ worker' = [worker EXCEPT !["replay"] = new] /\ "replay" \in Workers
    BY <1>1, <1>2, WorkingFacts DEF Workers
  <1>4. TypeOK'
    BY <1>1, <1>2, <1>3, WorkerExcept DEF TypeOK
  <1>5. RowsAreTrue' /\ ReceiptsAreTrue'
    BY <1>1, RowsStayTrue DEF RowsOpen, LogInv, ReceiptsAreTrue
  <1>6. new.step = "look" /\ new.event = e /\ new.attempts = batch[e] /\ new.result = "none"
    OBVIOUS
  <1> HIDE DEF new
  <1> QED BY <1>1, <1>3, <1>4, <1>5, <1>6, WorkerStep

\* The thread enters the window, alone unless its fill is exposed; without a
\* receipt and with nobody about to save one, the fill has not been applied.
LEMMA EnterWindowInv ==
    ASSUME LogInv, NEW w \in Workers, worker[w].step = "look",
           ~Receipt(worker[w].event),
           worker' = [worker EXCEPT ![w].step = "apply"],
           exposed' = IF \E v \in Workers \ {w} : InWindow(v, FillOf[worker[w].event])
                      THEN exposed \cup {FillOf[worker[w].event]} ELSE exposed,
           UNCHANGED <<posts, stubs, faults, seen, persisting, inbox, row, batch, receipts, stopNewBuy,
                       applied>>
    PROVE  LogInv'
  <1> DEFINE e == worker[w].event
             new == [worker[w] EXCEPT !.step = "apply"]
  <1>1. TypeOK /\ Knows(w) /\ worker[w] \in Worker
    BY DEF LogInv, TypeOK
  <1>2. e \in Events /\ FillOf[e] \in Fills
    BY <1>1, FillType DEF Knows
  <1>3. new \in Worker /\ worker' = [worker EXCEPT ![w] = new]
    BY <1>1 DEF Worker, Steps, TypeOK
  <1>4. /\ worker' \in [Workers -> Worker]
        /\ worker'[w] = new
        /\ \A v \in Workers \ {w} : worker'[v] = worker[v]
    BY <1>1, <1>3, WorkerExcept
  <1>5. /\ new.step = "apply" /\ new.event = e /\ new.attempts = worker[w].attempts
        /\ new.logged = worker[w].logged /\ new.result = worker[w].result
    BY <1>1 DEF Worker
  <1> HIDE DEF e, new
  <1>6. TypeOK'
    <2>1. exposed' \subseteq Fills
      BY <1>1, <1>2 DEF TypeOK, e
    <2> QED BY <1>1, <1>4, <2>1 DEF TypeOK
  <1>7. ReceiptsAreTrue' /\ RowsAreTrue'
    BY RowsStayTrue DEF LogInv, ReceiptsAreTrue, RowsOpen
  <1>8. ASSUME NEW v \in Workers PROVE Knows(v)'
    <2>1. CASE v = w
      BY <1>1, <1>2, <1>4, <1>5, <2>1 DEF Knows, Settled, Receipt, e
    <2>2. CASE v # w
      <3>1. worker'[v] = worker[v]
        BY <1>4, <2>2
      <3>2. applied' \in [Fills -> Nat] /\ \A f \in Fills : applied[f] <= applied'[f]
        BY <1>1 DEF TypeOK
      <3> QED BY <3>1, <3>2, KnowsStays
    <2> QED BY <2>1, <2>2
  <1>9. ASSUME NEW f \in Fills PROVE FillGuarded(f)'
    <2>1. FillGuarded(f) /\ exposed \subseteq exposed'
      BY DEF LogInv
    <2>2. SUFFICES ASSUME f \notin exposed'
                   PROVE  (OneWindow(f) /\ NotYetApplied(f) /\ ReceiptFollows(f) /\ applied[f] <= 1)'
      BY DEF FillGuarded
    <2>3. OneWindow(f) /\ NotYetApplied(f) /\ ReceiptFollows(f) /\ applied[f] <= 1
      BY <2>1, <2>2 DEF FillGuarded
    <2>4. ReceiptFollows(f)'
      <3>1. \A v \in Workers : worker[v].step = "save" => v # w
        OBVIOUS
      <3> QED BY <1>4, <2>3, <3>1 DEF ReceiptFollows, On
    <2>5. CASE f # FillOf[e]
      <3>1. \A v \in Workers : InWindow(v, f)' => v # w /\ InWindow(v, f)
        BY <1>4, <1>5, <2>5 DEF InWindow
      <3>2. OneWindow(f)'
        BY <2>3, <3>1 DEF OneWindow
      <3>3. NotYetApplied(f)'
        BY <1>4, <1>5, <2>3, <2>5 DEF NotYetApplied, On
      <3> QED BY <2>3, <2>4, <3>2, <3>3
    <2>6. CASE f = FillOf[e]
      <3>1. \A v \in Workers \ {w} : ~InWindow(v, f)
        BY <2>2, <2>6 DEF e
      <3>2. \A v \in Workers \ {w} : ~InWindow(v, f)'
        BY <1>4, <3>1 DEF InWindow
      <3>3. OneWindow(f)'
        BY <3>2 DEF OneWindow
      <3>4. \A v \in Workers : ~(worker[v].step = "save" /\ On(v, f))
        BY <3>1 DEF InWindow, On
      <3>5. ~\E r \in receipts : FillOf[r] = f
        BY <2>6 DEF Receipt, e
      <3>6. ~(applied[f] > 0)
        BY <2>3, <3>4, <3>5 DEF ReceiptFollows
      <3>7. applied[f] = 0
        BY <1>1, <3>6 DEF TypeOK
      <3> QED BY <2>3, <2>4, <3>3, <3>7 DEF NotYetApplied
    <2> QED BY <2>5, <2>6
  <1> QED BY <1>6, <1>7, <1>8, <1>9 DEF LogInv

\* The thread leaves dispatch or a claim with a result.
LEMMA FinishFacts ==
    ASSUME LogInv, NEW w \in Workers, worker[w].step # "idle", NEW result \in Results,
           worker' = [worker EXCEPT ![w].step = "finish", ![w].result = result]
    PROVE  LET new == [worker[w] EXCEPT !.step = "finish", !.result = result]
           IN  /\ new \in Worker /\ worker' = [worker EXCEPT ![w] = new]
               /\ worker' \in [Workers -> Worker]
               /\ new.step = "finish" /\ new.result = result
               /\ new.event = worker[w].event /\ new.event \in Events
               /\ new.logged => new.attempts # 0
  <1> DEFINE new == [worker[w] EXCEPT !.step = "finish", !.result = result]
  <1>1. TypeOK /\ Knows(w) /\ worker[w] \in Worker
    BY DEF LogInv, TypeOK
  <1>2. new \in Worker /\ worker' = [worker EXCEPT ![w] = new]
    BY <1>1 DEF Worker, Steps, TypeOK
  <1>3. /\ new.step = "finish" /\ new.result = result /\ new.event = worker[w].event
        /\ new.logged = worker[w].logged /\ new.attempts = worker[w].attempts
    BY <1>1 DEF Worker
  <1> HIDE DEF new
  <1>4. worker' \in [Workers -> Worker]
    BY <1>1, <1>2, WorkerExcept
  <1>5. new.event \in Events /\ (new.logged => new.attempts # 0)
    BY <1>1, <1>3 DEF Knows
  <1> QED BY <1>2, <1>3, <1>4, <1>5 DEF new

LEMMA LookForReceiptInv == ASSUME LogInv, NEW w \in Workers, LookForReceipt(w) PROVE LogInv'
  <1> DEFINE e == worker[w].event
  <1>1. /\ TypeOK /\ worker[w].step = "look"
        /\ UNCHANGED <<posts, stubs, faults, seen, persisting, inbox, row, batch, receipts, stopNewBuy,
                       applied>>
    BY DEF LogInv, LookForReceipt
  <1>2. ReceiptsAreTrue' /\ RowsAreTrue'
    BY <1>1, RowsStayTrue DEF LogInv, ReceiptsAreTrue, RowsOpen
  <1>3. ASSUME NEW result \in Results, exposed' = exposed,
               worker' = [worker EXCEPT ![w].step = "finish", ![w].result = result],
               \/ result = "IGNORED" /\ e \in Ignored
               \/ result \in {"APPLIED", "DUPLICATE_ALREADY_APPLIED"} /\ Settled(e)
        PROVE  LogInv'
    <2> DEFINE new == [worker[w] EXCEPT !.step = "finish", !.result = result]
    <2>1. /\ new \in Worker /\ worker' = [worker EXCEPT ![w] = new]
          /\ worker' \in [Workers -> Worker]
          /\ new.step = "finish" /\ new.result = result
          /\ new.event = worker[w].event /\ new.event \in Events
          /\ new.logged => new.attempts # 0
      BY <1>1, <1>3, FinishFacts
    <2> HIDE DEF new
    <2>2. TypeOK'
      BY <1>1, <1>3, <2>1 DEF TypeOK
    <2>3. new.result \in {"APPLIED", "DUPLICATE_ALREADY_APPLIED"} =>
             new.event \in stubs' \/ \E r \in receipts' : FillOf[r] = FillOf[new.event]
      BY <1>1, <1>3, <2>1 DEF Settled, Receipt
    <2>4. new.result = "IGNORED" => new.event \in Ignored
      BY <1>3, <2>1
    <2> QED BY <1>1, <1>2, <1>3, <2>1, <2>2, <2>3, <2>4, WorkerStep
  <1>4. CASE e \in Ignored
    <2>1. "IGNORED" \in Results /\ "DUPLICATE_ALREADY_APPLIED" \in Results
      BY DEF Results
    <2> QED BY <1>3, <1>4, <2>1 DEF LookForReceipt
  <1>5. CASE e \notin Ignored /\ IsStub(w)
    <2>1. "APPLIED" \in Results /\ Settled(e)
      BY <1>5 DEF Results, Settled, IsStub
    <2> QED BY <1>3, <1>5, <2>1 DEF LookForReceipt
  <1>6. CASE e \notin Ignored /\ ~IsStub(w) /\ Receipt(e)
    <2>1. "DUPLICATE_ALREADY_APPLIED" \in Results /\ Settled(e)
      BY <1>6 DEF Results, Settled
    <2> QED BY <1>3, <1>6, <2>1 DEF LookForReceipt
  <1>7. CASE e \notin Ignored /\ ~IsStub(w) /\ ~Receipt(e)
    BY <1>1, <1>7, EnterWindowInv DEF LookForReceipt
  <1> QED BY <1>4, <1>5, <1>6, <1>7

LEMMA SaveReceiptInv == ASSUME LogInv, NEW w \in Workers, SaveReceipt(w) PROVE LogInv'
  <1> DEFINE e == worker[w].event
  <1>1. /\ TypeOK /\ Knows(w) /\ worker[w].step = "save"
        /\ UNCHANGED <<posts, stubs, faults, seen, persisting, inbox, row, batch, stopNewBuy, applied, exposed>>
    BY DEF LogInv, SaveReceipt
  <1>2. e \in Events /\ applied[FillOf[e]] > 0
    BY <1>1 DEF Knows
  <1>3. receipts \subseteq receipts' /\ receipts' \subseteq receipts \cup {e}
        /\ \E r \in receipts' : FillOf[r] = FillOf[e]
    BY DEF SaveReceipt, Receipt
  <1>4. PICK result \in {"APPLIED", "FAILED"} :
           worker' = [worker EXCEPT ![w].step = "finish", ![w].result = result]
    BY DEF SaveReceipt
  <1> DEFINE new == [worker[w] EXCEPT !.step = "finish", !.result = result]
  <1>5. /\ new \in Worker /\ worker' = [worker EXCEPT ![w] = new]
        /\ worker' \in [Workers -> Worker]
        /\ new.step = "finish" /\ new.result = result
        /\ new.event = worker[w].event /\ new.event \in Events
        /\ new.logged => new.attempts # 0
    <2>1. result \in Results /\ worker[w].step # "idle"
      BY <1>1 DEF Results
    <2> QED BY <1>4, <2>1, FinishFacts
  <1> HIDE DEF new, e
  <1>6. ReceiptsAreTrue'
    BY <1>1, <1>2, <1>3 DEF LogInv, ReceiptsAreTrue
  <1>7. RowsAreTrue'
    BY <1>1, <1>3, RowsStayTrue DEF RowsOpen
  <1>8. TypeOK'
    BY <1>1, <1>2, <1>3, <1>5 DEF TypeOK
  <1>9. FillOf[worker[w].event] = FillOf[e] /\ new.event = e
    BY <1>5 DEF e
  <1> QED BY <1>1, <1>3, <1>5, <1>6, <1>7, <1>8, <1>9, WorkerStep

LEMMA DispatchFailsInv == ASSUME LogInv, NEW w \in Workers, DispatchFails(w) PROVE LogInv'
  <1>1. /\ TypeOK /\ Knows(w) /\ worker[w].step \in {"look", "apply", "save"}
        /\ exposed' = IF worker[w].step = "save"
                      THEN exposed \cup {FillOf[worker[w].event]} ELSE exposed
        /\ UNCHANGED <<posts, stubs, faults, seen, persisting, inbox, row, batch, receipts, stopNewBuy,
                       applied>>
    BY DEF LogInv, DispatchFails
  <1>2. PICK result \in {"RETRYABLE", "FAILED"} :
           worker' = [worker EXCEPT ![w].step = "finish", ![w].result = result]
    BY DEF DispatchFails
  <1> DEFINE new == [worker[w] EXCEPT !.step = "finish", !.result = result]
  <1>3. /\ new \in Worker /\ worker' = [worker EXCEPT ![w] = new]
        /\ worker' \in [Workers -> Worker]
        /\ new.step = "finish" /\ new.result = result
        /\ new.event = worker[w].event /\ new.event \in Events
        /\ new.logged => new.attempts # 0
    <2>1. result \in Results /\ worker[w].step # "idle"
      BY <1>1 DEF Results
    <2> QED BY <1>2, <2>1, FinishFacts
  <1> HIDE DEF new
  <1>4. ReceiptsAreTrue' /\ RowsAreTrue'
    BY <1>1, RowsStayTrue DEF LogInv, ReceiptsAreTrue, RowsOpen
  <1>5. TypeOK'
    <2>1. exposed' \subseteq Fills
      BY <1>1, <1>3, FillType DEF TypeOK
    <2> QED BY <1>1, <1>3, <2>1 DEF TypeOK
  <1>6. exposed \subseteq exposed' /\ (worker[w].step = "save" => FillOf[worker[w].event] \in exposed')
    BY <1>1
  <1> QED BY <1>1, <1>3, <1>4, <1>5, <1>6, WorkerStep

\* The application: the thread is alone in the window and the fill was not
\* applied yet, unless it is exposed.
LEMMA ApplyEventInv == ASSUME LogInv, NEW w \in Workers, ApplyEvent(w) PROVE LogInv'
  <1> DEFINE e == worker[w].event
             g == FillOf[e]
             new == [worker[w] EXCEPT !.step = "save"]
  <1>1. /\ TypeOK /\ Knows(w) /\ worker[w] \in Worker /\ worker[w].step = "apply"
        /\ applied' = [applied EXCEPT ![g] = @ + 1]
        /\ worker' = [worker EXCEPT ![w].step = "save"]
        /\ UNCHANGED <<posts, stubs, faults, seen, persisting, inbox, row, batch, receipts, stopNewBuy,
                       exposed>>
    BY DEF LogInv, TypeOK, ApplyEvent
  <1>2. e \in Events /\ g \in Fills
    BY <1>1, FillType DEF Knows
  <1>3. new \in Worker /\ worker' = [worker EXCEPT ![w] = new]
    BY <1>1 DEF Worker, Steps, TypeOK
  <1>4. /\ new.step = "save" /\ new.event = e /\ new.attempts = worker[w].attempts
        /\ new.logged = worker[w].logged /\ new.result = worker[w].result
    BY <1>1 DEF Worker
  <1>5. On(w, g)
    BY DEF On
  <1>6. e = worker[w].event /\ g = FillOf[e]
    OBVIOUS
  <1> HIDE DEF e, g, new
  <1>7. /\ worker' \in [Workers -> Worker]
        /\ worker'[w] = new
        /\ \A v \in Workers \ {w} : worker'[v] = worker[v]
    BY <1>1, <1>3, WorkerExcept
  <1>8. /\ applied' \in [Fills -> Nat]
        /\ applied'[g] = applied[g] + 1 /\ applied'[g] > 0
        /\ \A f \in Fills \ {g} : applied'[f] = applied[f]
        /\ \A f \in Fills : applied[f] <= applied'[f]
    BY <1>1, <1>2 DEF TypeOK
  <1>9. TypeOK'
    BY <1>1, <1>7, <1>8 DEF TypeOK
  <1>10. RowsAreTrue'
    BY <1>1, RowsStayTrue DEF RowsOpen
  <1>11. ReceiptsAreTrue'
    <2> SUFFICES ASSUME NEW r \in receipts PROVE applied'[FillOf[r]] > 0
      BY <1>1 DEF ReceiptsAreTrue
    <2>1. FillOf[r] \in Fills /\ applied[FillOf[r]] > 0
      BY <1>1, FillType DEF LogInv, ReceiptsAreTrue, TypeOK
    <2> QED BY <1>1, <1>8, <2>1 DEF TypeOK
  <1>12. ASSUME NEW v \in Workers PROVE Knows(v)'
    <2>1. CASE v = w
      BY <1>1, <1>2, <1>4, <1>6, <1>7, <1>8, <2>1 DEF Knows, Settled, Receipt
    <2>2. CASE v # w
      BY <1>1, <1>7, <1>8, <2>2, KnowsStays
    <2> QED BY <2>1, <2>2
  <1>13. ASSUME NEW f \in Fills PROVE FillGuarded(f)'
    <2>1. SUFFICES ASSUME f \notin exposed
                   PROVE  (OneWindow(f) /\ NotYetApplied(f) /\ ReceiptFollows(f) /\ applied[f] <= 1)'
      BY <1>1 DEF FillGuarded
    <2>2. OneWindow(f) /\ NotYetApplied(f) /\ ReceiptFollows(f) /\ applied[f] <= 1
      BY <2>1 DEF FillGuarded, LogInv
    <2>3. \A v \in Workers : InWindow(v, f)' <=> InWindow(v, f)
      BY <1>1, <1>4, <1>6, <1>7 DEF InWindow
    <2>4. OneWindow(f)'
      BY <2>2, <2>3 DEF OneWindow
    <2>5. CASE f # g
      <3>1. applied'[f] = applied[f]
        BY <1>8, <2>5
      <3>2. NotYetApplied(f)'
        BY <1>4, <1>7, <2>2, <3>1 DEF NotYetApplied, On
      <3>3. ReceiptFollows(f)'
        BY <1>1, <1>7, <2>2, <3>1 DEF ReceiptFollows, On
      <3> QED BY <2>2, <2>4, <3>1, <3>2, <3>3
    <2>6. CASE f = g
      <3>1. InWindow(w, f) /\ applied[f] = 0
        BY <1>1, <1>5, <1>6, <2>2, <2>6 DEF InWindow, NotYetApplied
      <3>2. NotYetApplied(f)'
        <4> SUFFICES ASSUME NEW v \in Workers, worker'[v].step = "apply", FillOf[worker'[v].event] = f
                     PROVE  FALSE
          BY DEF NotYetApplied, On
        <4>1. v # w
          BY <1>4, <1>7
        <4>2. InWindow(v, f)
          BY <1>7, <4>1 DEF InWindow
        <4> QED BY <2>2, <3>1, <4>1, <4>2 DEF OneWindow
      <3>3. ReceiptFollows(f)'
        BY <1>4, <1>6, <1>7, <2>6 DEF ReceiptFollows, On
      <3>4. applied'[f] <= 1
        BY <1>8, <2>6, <3>1
      <3> QED BY <2>4, <3>2, <3>3, <3>4
    <2> QED BY <2>5, <2>6
  <1> QED BY <1>9, <1>10, <1>11, <1>12, <1>13 DEF LogInv

\* The thread goes back to waiting; nothing but rows may have changed.
LEMMA BackToIdle ==
    ASSUME LogInv, NEW w \in Workers, worker[w].step # "save", worker' = After(w),
           UNCHANGED <<stubs, receipts, applied, exposed>>, RowsAreTrue',
           posts' \in [Events -> Nat], faults' \in Nat, seen' \subseteq Events,
           persisting' \subseteq Events, inbox' \in Seq(Events), row' \in [Events -> Row],
           batch' \in [Events -> Nat], stopNewBuy' \in BOOLEAN
    PROVE  LogInv'
  <1>1. TypeOK /\ worker' = [worker EXCEPT ![w] = Idle]
    BY DEF LogInv, After
  <1>2. worker' \in [Workers -> Worker]
    BY <1>1, IdleType, WorkerExcept
  <1>3. TypeOK'
    BY <1>1, <1>2 DEF TypeOK
  <1>4. ReceiptsAreTrue'
    BY DEF LogInv, ReceiptsAreTrue
  <1> QED BY <1>1, <1>3, <1>4, IdleType, WorkerStep

\* A row is written: whether it is closed, and as what, is for the thread to
\* know.
LEMMA RowWritten ==
    ASSUME LogInv, NEW e \in Events, NEW new \in Row, row' = [row EXCEPT ![e] = new],
           UNCHANGED <<stubs, receipts>>,
           new.status = "PROCESSED" => Settled(e),
           new.status = "IGNORED" => e \in Ignored,
           new.status # "FAILED"
    PROVE  row' \in [Events -> Row] /\ RowsAreTrue'
  <1>1. TypeOK /\ RowsAreTrue
    BY DEF LogInv
  <1>2. row' \in [Events -> Row]
    BY <1>1 DEF TypeOK
  <1>3. ASSUME NEW d \in Events
        PROVE  /\ row'[d].status = "PROCESSED" => Settled(d)
               /\ row'[d].status = "IGNORED" => d \in Ignored
               /\ row'[d].status = "FAILED" => d \in stubs
    <2>1. CASE d = e
      BY <1>1, <2>1 DEF TypeOK
    <2>2. CASE d # e
      BY <1>1, <2>2 DEF TypeOK, RowsAreTrue
    <2> QED BY <2>1, <2>2
  <1> QED BY <1>2, <1>3 DEF RowsAreTrue, Settled, Receipt

LEMMA FinishRecordInv == ASSUME LogInv, NEW w \in Workers, FinishRecord(w) PROVE LogInv'
  <1> DEFINE e == worker[w].event
             retry == worker[w].result = "RETRYABLE" /\ worker[w].attempts < MaxAttempts
  <1>1. /\ TypeOK /\ Knows(w) /\ worker[w] \in Worker
        /\ worker[w].step = "finish" /\ worker[w].logged
        /\ UNCHANGED <<posts, stubs, faults, seen, persisting, inbox, batch, receipts, stopNewBuy, applied,
                       exposed>>
    BY DEF LogInv, TypeOK, FinishRecord
  <1>2. e \in Events /\ row[e] \in Row
    BY <1>1 DEF Knows, TypeOK
  <1>3. /\ posts' \in [Events -> Nat] /\ faults' \in Nat /\ seen' \subseteq Events
        /\ persisting' \subseteq Events /\ inbox' \in Seq(Events)
        /\ batch' \in [Events -> Nat] /\ stopNewBuy' \in BOOLEAN
    BY <1>1 DEF TypeOK
  <1>4. ASSUME NEW status \in {"PROCESSED", "IGNORED", "DEAD_LETTER"}, row' = Closed(e, status),
               status = "PROCESSED" => Settled(e),
               status = "IGNORED" => e \in Ignored
        PROVE  row' \in [Events -> Row] /\ RowsAreTrue'
    <2> DEFINE new == [row[e] EXCEPT !.status = status, !.due = 0]
    <2>1. new \in Row /\ new.status = status
      BY <1>2, RowType DEF Row, Statuses, Terminal
    <2>2. row' = [row EXCEPT ![e] = new]
      BY <1>1, <1>2, <1>4 DEF Closed, TypeOK
    <2> HIDE DEF new, e
    <2> QED BY <1>1, <1>2, <1>4, <2>1, <2>2, RowWritten
  <1>5. CASE worker[w].result = "IGNORED" /\ row' = Closed(e, "IGNORED") /\ worker' = After(w)
    <2>1. e \in Ignored
      BY <1>1, <1>5 DEF Knows
    <2>2. row' \in [Events -> Row] /\ RowsAreTrue'
      BY <1>4, <1>5, <2>1
    <2> QED BY <1>1, <1>3, <1>5, <2>2, BackToIdle
  <1>6. CASE /\ worker[w].result \in {"APPLIED", "DUPLICATE_ALREADY_APPLIED"}
             /\ row' = Closed(e, "PROCESSED") /\ worker' = After(w)
    <2>1. Settled(e)
      BY <1>1, <1>6 DEF Knows
    <2>2. row' \in [Events -> Row] /\ RowsAreTrue'
      BY <1>4, <1>6, <2>1
    <2> QED BY <1>1, <1>3, <1>6, <2>2, BackToIdle
  <1>7. CASE /\ worker[w].result \in {"RETRYABLE", "FAILED"} /\ row' = Closed(e, "DEAD_LETTER")
             /\ worker' = [worker EXCEPT ![w].step = "stop"]
    <2> DEFINE new == [worker[w] EXCEPT !.step = "stop"]
    <2>1. row' \in [Events -> Row] /\ RowsAreTrue'
      BY <1>4, <1>7
    <2>2. new \in Worker /\ worker' = [worker EXCEPT ![w] = new]
      BY <1>1, <1>7 DEF Worker, Steps, TypeOK
    <2>3. /\ new.step = "stop" /\ new.event = e /\ new.result = worker[w].result
          /\ new.attempts = worker[w].attempts
      BY <1>1 DEF Worker
    <2> HIDE DEF new, e
    <2>4. TypeOK'
      <3>1. worker' \in [Workers -> Worker]
        BY <1>1, <2>2, WorkerExcept
      <3> QED BY <1>1, <2>1, <3>1 DEF TypeOK
    <2>5. ReceiptsAreTrue'
      BY <1>1 DEF LogInv, ReceiptsAreTrue
    <2>6. new.attempts # 0 /\ new.result \notin {"APPLIED", "DUPLICATE_ALREADY_APPLIED", "IGNORED"}
      BY <1>1, <1>7, <2>3 DEF Knows
    <2> QED BY <1>1, <1>2, <2>1, <2>2, <2>3, <2>4, <2>5, <2>6, WorkerStep
  <1>8. CASE /\ retry
             /\ row' = [row EXCEPT ![e].status = "RETRY_WAIT",
                                   ![e].due = RetryDelay(worker[w].attempts)]
             /\ worker' = After(w)
    <2> DEFINE delay == RetryDelay(worker[w].attempts)
               new == [row[e] EXCEPT !.status = "RETRY_WAIT", !.due = delay]
    <2>1. delay \in 0..LongestWait
      <3>1. worker[w].attempts \in Nat /\ worker[w].attempts # 0
        BY <1>1 DEF Knows, Worker
      <3> QED BY <1>8, <3>1, DelayType
    <2>2. row' = [row EXCEPT ![e] = new]
      BY <1>1, <1>2, <1>8 DEF TypeOK
    <2> HIDE DEF delay
    <2>3. new \in Row /\ new.status = "RETRY_WAIT"
      BY <1>2, <2>1 DEF Row, Statuses
    <2> HIDE DEF new, e
    <2>4. row' \in [Events -> Row] /\ RowsAreTrue'
      BY <1>1, <1>2, <2>2, <2>3, RowWritten
    <2> QED BY <1>1, <1>3, <1>8, <2>4, BackToIdle
  <1> QED BY <1>5, <1>6, <1>7, <1>8 DEF FinishRecord

LEMMA FinishUnloggedInv == ASSUME LogInv, NEW w \in Workers, FinishUnlogged(w) PROVE LogInv'
  <1>1. /\ TypeOK /\ worker[w].step = "finish" /\ worker' = After(w)
        /\ UNCHANGED <<posts, stubs, faults, seen, persisting, inbox, row, batch, receipts, stopNewBuy,
                       applied, exposed>>
    BY DEF LogInv, FinishUnlogged
  <1>2. RowsAreTrue'
    BY <1>1, RowsStayTrue DEF RowsOpen
  <1>3. /\ posts' \in [Events -> Nat] /\ faults' \in Nat /\ seen' \subseteq Events
        /\ persisting' \subseteq Events /\ inbox' \in Seq(Events) /\ row' \in [Events -> Row]
        /\ batch' \in [Events -> Nat] /\ stopNewBuy' \in BOOLEAN
    BY <1>1 DEF TypeOK
  <1> QED BY <1>1, <1>2, <1>3, BackToIdle

LEMMA FailClosedInv == ASSUME LogInv, NEW w \in Workers, FailClosed(w) PROVE LogInv'
  <1>1. /\ TypeOK /\ Knows(w) /\ worker[w] \in Worker /\ worker[w].step = "stop"
        /\ stopNewBuy' = TRUE
        /\ UNCHANGED <<posts, stubs, faults, seen, persisting, inbox, row, batch, receipts, applied, exposed>>
    BY DEF LogInv, TypeOK, FailClosed
  <1>2. RowsAreTrue' /\ ReceiptsAreTrue'
    BY <1>1, RowsStayTrue DEF RowsOpen, LogInv, ReceiptsAreTrue
  <1>3. CASE worker' = After(w)
    <2>1. /\ posts' \in [Events -> Nat] /\ faults' \in Nat /\ seen' \subseteq Events
          /\ persisting' \subseteq Events /\ inbox' \in Seq(Events) /\ row' \in [Events -> Row]
          /\ batch' \in [Events -> Nat] /\ stopNewBuy' \in BOOLEAN
      BY <1>1 DEF TypeOK
    <2> QED BY <1>1, <1>2, <1>3, <2>1, BackToIdle
  <1>4. CASE worker' = [worker EXCEPT ![w].step = "look"]
    <2> DEFINE new == [worker[w] EXCEPT !.step = "look"]
    <2>1. new \in Worker /\ worker' = [worker EXCEPT ![w] = new]
      BY <1>1, <1>4 DEF Worker, Steps, TypeOK
    <2>2. /\ new.step = "look" /\ new.event = worker[w].event /\ new.result = worker[w].result
          /\ new.attempts = worker[w].attempts /\ new.logged = worker[w].logged
      BY <1>1 DEF Worker
    <2> HIDE DEF new
    <2>3. TypeOK'
      <3>1. worker' \in [Workers -> Worker]
        BY <1>1, <2>1, WorkerExcept
      <3> QED BY <1>1, <3>1 DEF TypeOK
    <2>4. /\ new.event \in Events
          /\ new.logged => new.attempts # 0
          /\ new.result \in {"APPLIED", "DUPLICATE_ALREADY_APPLIED"} =>
                new.event \in stubs' \/ \E r \in receipts' : FillOf[r] = FillOf[new.event]
          /\ new.result = "IGNORED" => new.event \in Ignored
      BY <1>1, <2>2 DEF Knows, Settled, Receipt
    <2> QED BY <1>1, <1>2, <2>1, <2>2, <2>3, <2>4, WorkerStep
  <1> QED BY <1>3, <1>4 DEF FailClosed

LEMMA ConsumerFailsInv == ASSUME LogInv, NEW w \in Workers, ConsumerFails(w) PROVE LogInv'
  <1>1. /\ TypeOK /\ worker[w].step # "save" /\ worker' = After(w)
        /\ UNCHANGED <<posts, stubs, seen, persisting, inbox, row, receipts, stopNewBuy, applied, exposed>>
    BY DEF LogInv, ConsumerFails
  <1>2. RowsAreTrue'
    BY <1>1, RowsStayTrue DEF RowsOpen
  <1>3. batch' \in [Events -> Nat] /\ faults' \in Nat
    BY <1>1 DEF TypeOK, ConsumerFails, Fault
  <1>4. /\ posts' \in [Events -> Nat] /\ seen' \subseteq Events
        /\ persisting' \subseteq Events /\ inbox' \in Seq(Events) /\ row' \in [Events -> Row]
        /\ stopNewBuy' \in BOOLEAN
    BY <1>1 DEF TypeOK
  <1> QED BY <1>1, <1>2, <1>3, <1>4, BackToIdle

\* A restart cuts off the windows in which the event was applied already.
LEMMA RestartInv == ASSUME LogInv, Restart PROVE LogInv'
  <1>1. /\ TypeOK /\ seen' = {} /\ persisting' = {} /\ inbox' = <<>>
        /\ batch' = [e \in Events |-> 0] /\ worker' = [w \in Workers |-> Idle]
        /\ exposed' = exposed \cup {FillOf[worker[w].event] :
                                     w \in {v \in Workers : worker[v].step = "save"}}
        /\ UNCHANGED <<posts, stubs, row, receipts, stopNewBuy, applied>>
    BY DEF LogInv, Restart
  <1>2. \A v \in Workers : worker'[v] = Idle
    BY <1>1
  <1>3. TypeOK'
    <2>1. worker' \in [Workers -> Worker]
      BY <1>1, IdleType
    <2>2. batch' \in [Events -> Nat] /\ faults' \in Nat /\ inbox' \in Seq(Events)
      BY <1>1 DEF TypeOK, Restart, Fault
    <2>3. exposed' \subseteq Fills
      <3>1. ASSUME NEW w \in Workers, worker[w].step = "save" PROVE FillOf[worker[w].event] \in Fills
        BY <3>1, FillType DEF LogInv, Knows
      <3> QED BY <1>1, <3>1 DEF TypeOK
    <2> QED BY <1>1, <2>1, <2>2, <2>3 DEF TypeOK
  <1>4. RowsAreTrue' /\ ReceiptsAreTrue'
    BY <1>1, RowsStayTrue DEF RowsOpen, LogInv, ReceiptsAreTrue
  <1>5. \A w \in Workers : Knows(w)'
    BY <1>2, IdleType DEF Knows
  <1>6. \A v \in Workers : worker[v].step = "save" => FillOf[worker[v].event] \in exposed'
    BY <1>1
  <1>7. ASSUME NEW f \in Fills PROVE FillGuarded(f)'
    <2>1. FillGuarded(f)
      BY DEF LogInv
    <2>2. exposed \subseteq exposed'
      BY <1>1
    <2>3. \A v \in Workers : worker'[v].step \in {"apply", "save"} => worker'[v] = worker[v]
      BY <1>2, IdleType
    <2> QED BY <1>1, <1>3, <1>6, <2>1, <2>2, <2>3, GuardKept
  <1> QED BY <1>3, <1>4, <1>5, <1>7 DEF LogInv

-----------------------------------------------------------------------------
\* The theorems.

LEMMA InitInv == Init => LogInv
  <1> SUFFICES ASSUME Init PROVE LogInv
    OBVIOUS
  <1>1. TypeOK
    <2>1. row \in [Events -> Row] /\ worker \in [Workers -> Worker]
      BY IdleType, LongestWaitType DEF Init, Row, Statuses
    <2>2. inbox \in Seq(Events)
      BY DEF Init
    <2> QED BY <2>1, <2>2 DEF Init, TypeOK
  <1>2. \A w \in Workers : worker[w] = Idle
    BY DEF Init
  <1>3. \A w \in Workers : Knows(w)
    BY <1>2, IdleType DEF Knows
  <1>4. ReceiptsAreTrue /\ RowsAreTrue
    BY DEF Init, ReceiptsAreTrue, RowsAreTrue
  <1>5. ASSUME NEW f \in Fills PROVE FillGuarded(f)
    <2>1. applied[f] = 0
      BY DEF Init
    <2> QED BY <1>2, <2>1, IdleType
            DEF FillGuarded, OneWindow, NotYetApplied, ReceiptFollows, InWindow
  <1> QED BY <1>1, <1>3, <1>4, <1>5 DEF LogInv

LEMMA StepInv == LogInv /\ [Next]_vars => LogInv'
  <1> SUFFICES ASSUME LogInv, [Next]_vars PROVE LogInv'
    OBVIOUS
  <1>1. CASE Next
    <2>1. ASSUME NEW w \in Workers, Step(w) PROVE LogInv'
      BY <2>1, LookForReceiptInv, ApplyEventInv, SaveReceiptInv, DispatchFailsInv, FinishRecordInv,
         FinishUnloggedInv, FailClosedInv, ConsumerFailsInv DEF Step
    <2> QED BY <1>1, <2>1, RecordEventInv, PersistEventInv, TakeClaimedRecordInv, TakeLiveEventInv,
               ClaimBatchInv, TickInv, RestartInv DEF Next
  <1>2. CASE UNCHANGED vars
    <2>1. TypeOK'
      BY <1>2 DEF LogInv, TypeOK, vars
    <2> QED BY <1>2, <2>1, QuietLog DEF vars, RowsOpen
  <1> QED BY <1>1, <1>2

\* In every behaviour of the log, receipts and PROCESSED rows that are no stubs
\* tell the truth, and
\* a fill applied without a receipt has a worker about to save it or is exposed.
THEOREM LogInvariant == Spec => []LogInv
  BY InitInv, StepInv, PTL DEF Spec

\* The log, the receipts and the threads keep their types whatever the threads
\* and the faults do.
THEOREM TypeCorrect == Spec => []TypeOK
  <1>1. LogInv => TypeOK
    BY DEF LogInv
  <1> QED BY <1>1, LogInvariant, PTL

\* order_lifecycle_ready can be believed of the events logged with their payload
\* (a stub stands for none of the fills, append_gateway_event): a row leaves the backlog as
\* PROCESSED only through a worker that found or saved the receipt of its fill
\* (_finish_record after dispatch), and a receipt is only saved after the
\* application, however the rows of lost leases are rewritten.
THEOREM ReadyCanBeBelieved == Spec => []ReadyMeansApplied
  <1>1. ASSUME LogInv PROVE ReadyMeansApplied
    <2> SUFFICES ASSUME Ready, NEW e \in Events \ Ignored, row[e].status # "ABSENT", e \notin stubs
                 PROVE  Receipt(e) /\ applied[FillOf[e]] > 0
      BY DEF ReadyMeansApplied
    <2>1. Receipt(e)
      BY <1>1 DEF LogInv, RowsAreTrue, Ready, Settled
    <2> QED BY <1>1, <2>1 DEF LogInv, ReceiptsAreTrue, Receipt
  <1> QED BY <1>1, LogInvariant, PTL

\* A fill is applied to its order once, whatever is posted, replayed and
\* restarted, unless its window between the application and the receipt was
\* cut off or shared: these are the only two ways to a second application.
THEOREM FillsAreAppliedOnce == Spec => []AppliedOnceUnlessExposed
  <1>1. ASSUME LogInv PROVE AppliedOnceUnlessExposed
    <2> SUFFICES ASSUME NEW f \in Fills, applied[f] > 1, f \notin exposed PROVE FALSE
      BY DEF AppliedOnceUnlessExposed
    <2>1. applied[f] <= 1 /\ applied[f] \in Nat
      BY <1>1 DEF LogInv, FillGuarded, TypeOK
    <2> QED BY <2>1
  <1> QED BY <1>1, LogInvariant, PTL
=============================================================================
