------------------------ MODULE BrokerReconcileProofs ------------------------
(***************************************************************************)
(* Proofs about BrokerReconcile, for any number of runs, attempts, changes *)
(* at the broker and faults, and any quantities.                           *)
(***************************************************************************)
EXTENDS BrokerReconcile, TLAPS

-----------------------------------------------------------------------------
\* The inductive invariant.

Decided == {"CLEAN", "RECONCILE_REQUIRED"}

\* A run that has not begun has no requests, answers or verdict.
NotBegun ==
    \A r \in Runs : status[r] = "none" =>
        /\ completed[r] = {}
        /\ answered[r] = {}
        /\ ~ready[r]
        /\ \A s \in Sources : left[r][s] = 0 /\ rows[r][s] = NoRow
        /\ \A m \in results : m.run # r

\* What the broker has now is something it had since the run began.
Tracked ==
    \A r \in Runs : status[r] # "none" =>
        \A s \in Sources : Row(truth[s]) \in since[r][s]

\* Only required sources are asked for.
AskedIsRequired ==
    \A r \in Runs, s \in Sources : left[r][s] > 0 => s \in Required

\* An answer shows what the broker had since its run began; a partial one may
\* miss the row.
ResultsAreReal ==
    \A m \in results : m.row \in since[m.run][m.source] \/ (~m.complete /\ m.row = NoRow)

RowsAreReal ==
    \A r \in Runs, s \in Sources : rows[r][s] \in since[r][s] \cup {NoRow}

ReadyIsCompleted == \A r \in Runs : ready[r] => Required \subseteq completed[r]

\* A source captured completely is completed or its answer is on its way.
AnsweredIsKnown ==
    \A r \in Runs : \A s \in answered[r] :
        s \in completed[r] \/ \E m \in results : m.run = r /\ m.source = s /\ m.complete

\* A run whose sources are completed is decided, unless a handler raised or
\* another answer is to come.
CompletedIsDecided ==
    \A r \in Runs : Required \subseteq completed[r] =>
        \/ status[r] \in Decided
        \/ ~(Required \subseteq answered[r])
        \/ \E m \in results : m.run = r

ReconcileInv ==
    /\ TypeOK
    /\ NotBegun
    /\ Tracked
    /\ AskedIsRequired
    /\ ResultsAreReal
    /\ RowsAreReal
    /\ ReadyIsCompleted
    /\ AnsweredIsKnown
    /\ CompletedIsDecided

\* The snapshot of a completed source shows what the broker had since the run
\* began, unless a partial answer came after the complete one.
CompletedIsReal ==
    \A r \in Runs : \A s \in completed[r] :
        <<r, s>> \in overwritten \/ rows[r][s] \in since[r][s]

-----------------------------------------------------------------------------
\* Helpers.

LEMMA RowType ==
  ASSUME NEW q \in Qty
  PROVE  Row(q) \in 1..NoRow
  BY ConstantsAssumption DEF Row, Qty, NoRow

LEMMA NoRowType == NoRow \in 1..NoRow /\ NoRow \in Nat
  BY ConstantsAssumption DEF NoRow

\* The answers of a step, and what follows of the one that is taken.
LEMMA TakenResult ==
  ASSUME TypeOK, NEW m \in results
  PROVE  /\ m.run \in Runs /\ m.source \in Required /\ m.source \in Sources
         /\ m.complete \in BOOLEAN /\ m.row \in 1..NoRow
         /\ CompletedBy(m) \in SUBSET Required
         /\ completed[m.run] \subseteq CompletedBy(m)
         /\ Replaced(m) \in [Runs -> [Sources -> 1..NoRow]]
         /\ \A r \in Runs, s \in Sources :
               Replaced(m)[r][s] = IF r = m.run /\ s = m.source THEN m.row ELSE rows[r][s]
<1>1. /\ m.run \in Runs /\ m.source \in Required
      /\ m.complete \in BOOLEAN /\ m.row \in 1..NoRow
  BY DEF TypeOK
<1>2. m.source \in Sources BY <1>1, ConstantsAssumption
<1>3. CompletedBy(m) \in SUBSET Required /\ completed[m.run] \subseteq CompletedBy(m)
  BY <1>1 DEF TypeOK, CompletedBy
<1>4. Replaced(m) \in [Runs -> [Sources -> 1..NoRow]]
  BY <1>1, <1>2 DEF TypeOK, Replaced
<1>5. \A r \in Runs, s \in Sources :
         Replaced(m)[r][s] = IF r = m.run /\ s = m.source THEN m.row ELSE rows[r][s]
  BY <1>1, <1>2 DEF TypeOK, Replaced
<1> QED BY <1>1, <1>2, <1>3, <1>4, <1>5

LEMMA OverwrittenType ==
  ASSUME TypeOK, NEW m \in results
  PROVE  OverwrittenBy(m) \subseteq Runs \X Required
  BY TakenResult DEF OverwrittenBy, TypeOK

LEMMA DiscrepanciesType ==
  ASSUME NEW snapshot
  PROVE  Discrepancies(snapshot) \in SUBSET {"STOP_NEW_BUY", "REDUCE_ONLY"}
  BY DEF Discrepancies

-----------------------------------------------------------------------------
\* Each action keeps the invariant.

LEMMA InitInv == Init => ReconcileInv /\ CompletedIsReal
<1> SUFFICES ASSUME Init PROVE ReconcileInv /\ CompletedIsReal
  OBVIOUS
<1>1. TypeOK
  <2>0. Qty \subseteq 0..NoRow
    BY ConstantsAssumption DEF Qty, NoRow
  <2>1. truth \in [Sources -> Qty] /\ truth \in [Sources -> 0..NoRow]
    BY <2>0, ConstantsAssumption DEF Init
  <2>2. local \in [Sources -> 0..NoRow]
    BY <2>1, NoRowType DEF Init
  <2>3. 0 \in 0..MaxChanges /\ 0 \in 0..MaxFaults /\ 0 \in 0..MaxAttempts
    BY ConstantsAssumption
  <2>4. rows \in [Runs -> [Sources -> 1..NoRow]] BY NoRowType DEF Init
  <2> QED BY <2>1, <2>2, <2>3, <2>4 DEF Init, TypeOK
<1>2. CompletedIsDecided
  BY ConstantsAssumption DEF Init, CompletedIsDecided
<1>3. NotBegun /\ Tracked /\ AskedIsRequired /\ ResultsAreReal /\ RowsAreReal
      /\ ReadyIsCompleted /\ AnsweredIsKnown
  BY DEF Init, NotBegun, Tracked, AskedIsRequired, ResultsAreReal, RowsAreReal,
         ReadyIsCompleted, AnsweredIsKnown
<1>4. CompletedIsReal
  BY DEF Init, CompletedIsReal
<1> QED BY <1>1, <1>2, <1>3, <1>4 DEF ReconcileInv

LEMMA StartRunInv ==
  ASSUME ReconcileInv, NEW r \in Runs, NEW enqueued \in SUBSET Required,
         StartRun(r, enqueued), requested' \in BOOLEAN
  PROVE  ReconcileInv'
<1> USE DEF ReconcileInv
<1>1. TypeOK'
  <2>1. \A s \in Sources : Row(truth[s]) \in 1..NoRow
    BY RowType DEF TypeOK
  <2>2. left' \in [Runs -> [Sources -> 0..MaxAttempts]]
    BY ConstantsAssumption DEF StartRun, TypeOK
  <2>3. since' \in [Runs -> [Sources -> SUBSET (1..NoRow)]]
    BY <2>1 DEF StartRun, TypeOK
  <2>4. status' \in [Runs -> {"none", "RUNNING", "FAILED", "PARTIAL", "COMPLETE", "CLEAN",
                              "RECONCILE_REQUIRED"}]
    BY DEF StartRun, TypeOK
  <2> QED BY <2>2, <2>3, <2>4 DEF StartRun, TypeOK
<1>2. NotBegun' BY DEF StartRun, NotBegun, TypeOK
<1>3. Tracked' BY DEF StartRun, Tracked, TypeOK
<1>4. AskedIsRequired' BY DEF StartRun, AskedIsRequired, TypeOK
<1>5. ResultsAreReal'
  BY DEF StartRun, ResultsAreReal, NotBegun, TypeOK
<1>6. RowsAreReal'
  <2>1. ASSUME NEW q \in Runs, NEW s \in Sources
        PROVE  rows[q][s] \in since'[q][s] \cup {NoRow}
    <3>1. CASE q = r
      BY <3>1 DEF StartRun, NotBegun
    <3> QED BY <3>1 DEF StartRun, RowsAreReal, TypeOK
  <2> QED BY <2>1 DEF StartRun, RowsAreReal
<1>7. ReadyIsCompleted' BY DEF StartRun, ReadyIsCompleted
<1>8. AnsweredIsKnown' BY DEF StartRun, AnsweredIsKnown
<1>9. CompletedIsDecided'
  <2>1. ~(Required \subseteq completed[r])
    BY ConstantsAssumption DEF StartRun, NotBegun
  <2> QED BY <2>1 DEF StartRun, CompletedIsDecided, TypeOK
<1> QED BY <1>1, <1>2, <1>3, <1>4, <1>5, <1>6, <1>7, <1>8, <1>9

LEMMA ExecuteInv ==
  ASSUME ReconcileInv, NEW r \in Runs, NEW s \in Sources, NEW complete \in BOOLEAN,
         Execute(r, s, complete)
  PROVE  ReconcileInv'
<1> USE DEF ReconcileInv
<1>1. PICK row \in (IF complete THEN {Row(truth[s])} ELSE {NoRow, Row(truth[s])}) :
         results' = results \cup {Result(r, s, left[r][s], complete, row)}
  BY DEF Execute
<1> DEFINE m == Result(r, s, left[r][s], complete, row)
<1>2. /\ s \in Required /\ left[r][s] \in 1..MaxAttempts
      /\ row \in 1..NoRow
      /\ status[r] # "none"
  <2>1. s \in Required BY DEF Execute, AskedIsRequired
  <2>2. left[r][s] \in 1..MaxAttempts BY DEF Execute, TypeOK
  <2>3. row \in 1..NoRow BY <1>1, RowType, NoRowType DEF TypeOK
  <2>4. status[r] # "none" BY DEF Execute, NotBegun
  <2> QED BY <2>1, <2>2, <2>3, <2>4
<1>3. /\ m.run = r /\ m.source = s /\ m.complete = complete /\ m.row = row
      /\ m \in [run : Runs, source : Required, attempt : 1..MaxAttempts,
                complete : BOOLEAN, row : 1..NoRow]
  BY <1>2 DEF Result
<1>4. results' = results \cup {m} BY <1>1
<1> HIDE DEF m
<1>5. /\ answered' \in [Runs -> SUBSET Required]
      /\ answered'[r] \subseteq answered[r] \cup {s}
      /\ complete \/ answered'[r] = answered[r]
      /\ \A q \in Runs : q # r => answered'[q] = answered[q]
  BY <1>2 DEF Execute, TypeOK
<1>6. /\ left' \in [Runs -> [Sources -> 0..MaxAttempts]]
      /\ \A q \in Runs, t \in Sources :
            left'[q][t] = IF q = r /\ t = s THEN left[r][s] - 1 ELSE left[q][t]
  <2>1. left[r][s] - 1 \in 0..MaxAttempts BY <1>2, ConstantsAssumption
  <2>2. left' = [left EXCEPT ![r] = [left[r] EXCEPT ![s] = left[r][s] - 1]] BY DEF Execute
  <2> QED BY <2>1, <2>2 DEF TypeOK
<1>7. TypeOK'
  <2>1. faults' \in 0..MaxFaults BY ConstantsAssumption DEF Execute, TypeOK
  <2> QED BY <1>3, <1>4, <1>5, <1>6, <2>1 DEF Execute, runVars, TypeOK
<1>8. NotBegun' BY <1>2, <1>3, <1>4, <1>5, <1>6 DEF Execute, runVars, NotBegun
<1>9. Tracked' BY DEF Execute, runVars, Tracked
<1>10. AskedIsRequired' BY <1>2, <1>6 DEF AskedIsRequired
<1>11. ResultsAreReal'
  <2>1. m.row \in since[r][s] \/ (~m.complete /\ m.row = NoRow)
    BY <1>1, <1>2, <1>3 DEF Tracked
  <2> QED BY <1>3, <1>4, <2>1 DEF Execute, ResultsAreReal
<1>12. RowsAreReal' BY DEF Execute, runVars, RowsAreReal
<1>13. ReadyIsCompleted' BY DEF Execute, runVars, ReadyIsCompleted
<1>14. AnsweredIsKnown'
  BY <1>3, <1>4, <1>5 DEF Execute, runVars, AnsweredIsKnown
<1>15. CompletedIsDecided'
  BY <1>3, <1>4, <1>5 DEF Execute, runVars, CompletedIsDecided
<1> QED BY <1>7, <1>8, <1>9, <1>10, <1>11, <1>12, <1>13, <1>14, <1>15

\* What every handler of an answer does to its run, whether it raises or not.
LEMMA TakenInv ==
  ASSUME ReconcileInv, NEW m \in results, results' = results \ {m},
         rows' \in {rows, Replaced(m)},
         NEW c \in {completed[m.run], CompletedBy(m)},
         completed' = [completed EXCEPT ![m.run] = c],
         NEW st \in {status[m.run], "PARTIAL", "COMPLETE", "CLEAN", "RECONCILE_REQUIRED"},
         status' = [status EXCEPT ![m.run] = st],
         UNCHANGED <<left, truth, since>>
  PROVE  /\ status[m.run] # "none" /\ status'[m.run] # "none"
         /\ \A r \in Runs : completed[r] \subseteq completed'[r]
         /\ completed' \in [Runs -> SUBSET Required]
         /\ status' \in [Runs -> {"none", "RUNNING", "FAILED", "PARTIAL", "COMPLETE", "CLEAN",
                                  "RECONCILE_REQUIRED"}]
         /\ rows' \in [Runs -> [Sources -> 1..NoRow]]
         /\ Tracked' /\ AskedIsRequired' /\ ResultsAreReal' /\ RowsAreReal'
<1> USE DEF ReconcileInv
<1>1. m.run \in Runs /\ m.source \in Sources BY TakenResult
<1>2. status[m.run] # "none" BY <1>1 DEF NotBegun
<1>3. /\ completed' \in [Runs -> SUBSET Required]
      /\ \A r \in Runs : completed[r] \subseteq completed'[r]
  BY <1>1, TakenResult DEF TypeOK
<1>4. /\ status'[m.run] # "none"
      /\ status' \in [Runs -> {"none", "RUNNING", "FAILED", "PARTIAL", "COMPLETE", "CLEAN",
                               "RECONCILE_REQUIRED"}]
  BY <1>1, <1>2 DEF TypeOK
<1>5. rows' \in [Runs -> [Sources -> 1..NoRow]] BY TakenResult DEF TypeOK
<1>6. Tracked' BY <1>1, <1>2 DEF Tracked, TypeOK
<1>7. AskedIsRequired' BY DEF AskedIsRequired
<1>8. ResultsAreReal' BY DEF ResultsAreReal
<1>9. RowsAreReal' BY <1>1, TakenResult DEF RowsAreReal, ResultsAreReal
<1> QED BY <1>2, <1>3, <1>4, <1>5, <1>6, <1>7, <1>8, <1>9

LEMMA ApplyInv ==
  ASSUME ReconcileInv, NEW m \in results, ApplySourceResult(m)
  PROVE  ReconcileInv'
<1> DEFINE r == m.run
           differs == Discrepancies(rows'[r])
           st == IF Required \subseteq CompletedBy(m)
                 THEN IF differs = {} THEN "CLEAN" ELSE "RECONCILE_REQUIRED"
                 ELSE "PARTIAL"
<1> USE DEF ReconcileInv
<1>1. /\ r \in Runs /\ m.source \in Required
      /\ CompletedBy(m) \in SUBSET Required
      /\ m.complete => m.source \in CompletedBy(m)
  BY TakenResult DEF CompletedBy
<1>2. /\ results' = results \ {m} /\ rows' = Replaced(m)
      /\ overwritten' = OverwrittenBy(m)
      /\ UNCHANGED <<current, requested, left, truth, local, since, answered, changes, faults>>
  BY DEF ApplySourceResult
<1>3. completed' = [completed EXCEPT ![r] = CompletedBy(m)]
  BY DEF ApplySourceResult, UpdateRun
<1>4. status' = [status EXCEPT ![r] = st]
  BY DEF ApplySourceResult, UpdateRun
<1>5. IF Required \subseteq CompletedBy(m)
      THEN found' = [found EXCEPT ![r] = differs] /\ ready' = [ready EXCEPT ![r] = (differs = {})]
      ELSE found' = found /\ ready' = ready
  BY DEF ApplySourceResult, UpdateRun
<1>6. differs \in SUBSET {"STOP_NEW_BUY", "REDUCE_ONLY"} BY DiscrepanciesType
<1>7. st \in {status[r], "PARTIAL", "COMPLETE", "CLEAN", "RECONCILE_REQUIRED"} OBVIOUS
<1>8. Required \subseteq CompletedBy(m) => st \in Decided BY DEF Decided
<1> HIDE DEF st, differs
<1>9. /\ status[r] # "none" /\ status'[r] # "none"
      /\ \A q \in Runs : completed[q] \subseteq completed'[q]
      /\ completed' \in [Runs -> SUBSET Required]
      /\ status' \in [Runs -> {"none", "RUNNING", "FAILED", "PARTIAL", "COMPLETE", "CLEAN",
                               "RECONCILE_REQUIRED"}]
      /\ rows' \in [Runs -> [Sources -> 1..NoRow]]
      /\ Tracked' /\ AskedIsRequired' /\ ResultsAreReal' /\ RowsAreReal'
  BY <1>2, <1>3, <1>4, <1>7, TakenInv
<1>10. found' \in [Runs -> SUBSET {"STOP_NEW_BUY", "REDUCE_ONLY"}] /\ ready' \in [Runs -> BOOLEAN]
  <2>1. (differs = {}) \in BOOLEAN OBVIOUS
  <2>2. found' \in [Runs -> SUBSET {"STOP_NEW_BUY", "REDUCE_ONLY"}]
    BY <1>1, <1>5, <1>6 DEF TypeOK
  <2>3. ready' \in [Runs -> BOOLEAN]
    BY <1>1, <1>5, <2>1 DEF TypeOK
  <2> QED BY <2>2, <2>3
<1>11. TypeOK' BY <1>2, <1>9, <1>10, OverwrittenType DEF TypeOK
<1>12. NotBegun'
  BY <1>1, <1>2, <1>3, <1>4, <1>5, <1>9, TakenResult DEF NotBegun, TypeOK
<1>13. ReadyIsCompleted'
  BY <1>1, <1>3, <1>5, <1>9 DEF ReadyIsCompleted, TypeOK
<1>14. AnsweredIsKnown'
  BY <1>1, <1>2, <1>3, <1>9 DEF AnsweredIsKnown, TypeOK
<1>15. CompletedIsDecided'
  BY <1>1, <1>2, <1>3, <1>4, <1>8 DEF CompletedIsDecided, TypeOK
<1> QED BY <1>9, <1>11, <1>12, <1>13, <1>14, <1>15

LEMMA ApplyFailsInv ==
  ASSUME ReconcileInv, NEW m \in results, ApplyFails(m)
  PROVE  ReconcileInv'
<1> DEFINE r == m.run
<1> USE DEF ReconcileInv
<1>1. /\ r \in Runs /\ m.source \in Required /\ CompletedBy(m) \in SUBSET Required
  BY TakenResult
<1>2. /\ results' = results \ {m} /\ rows' \in {rows, Replaced(m)}
      /\ answered' = [answered EXCEPT ![r] = @ \ {m.source}]
      /\ overwritten' \in {overwritten, OverwrittenBy(m)}
      /\ UNCHANGED <<ready, current, requested, left, truth, local, since, changes>>
  BY DEF ApplyFails
<1>3. faults' \in 0..MaxFaults
  BY ConstantsAssumption DEF ApplyFails, TypeOK
<1>4. PICK c \in {completed[r], CompletedBy(m)},
           st \in {status[r], "PARTIAL", "COMPLETE", "CLEAN", "RECONCILE_REQUIRED"} :
         completed' = [completed EXCEPT ![r] = c] /\ status' = [status EXCEPT ![r] = st]
  BY <1>1 DEF ApplyFails, TypeOK
<1>5. found' \in [Runs -> SUBSET {"STOP_NEW_BUY", "REDUCE_ONLY"}]
  <2> DEFINE d == Discrepancies(rows'[r])
  <2>1. d \in SUBSET {"STOP_NEW_BUY", "REDUCE_ONLY"} BY DiscrepanciesType
  <2>2. found' \in {found, [found EXCEPT ![r] = d]} BY DEF ApplyFails
  <2> HIDE DEF d
  <2> QED BY <1>1, <2>1, <2>2 DEF TypeOK
<1>6. /\ status[r] # "none" /\ status'[r] # "none"
      /\ \A q \in Runs : completed[q] \subseteq completed'[q]
      /\ completed' \in [Runs -> SUBSET Required]
      /\ status' \in [Runs -> {"none", "RUNNING", "FAILED", "PARTIAL", "COMPLETE", "CLEAN",
                               "RECONCILE_REQUIRED"}]
      /\ rows' \in [Runs -> [Sources -> 1..NoRow]]
      /\ Tracked' /\ AskedIsRequired' /\ ResultsAreReal' /\ RowsAreReal'
  BY <1>2, <1>4, TakenInv
<1>7. /\ answered' \in [Runs -> SUBSET Required]
      /\ m.source \notin answered'[r]
      /\ \A q \in Runs : answered'[q] \subseteq answered[q]
  BY <1>1, <1>2 DEF TypeOK
<1>8. TypeOK' BY <1>2, <1>3, <1>5, <1>6, <1>7, OverwrittenType DEF TypeOK
<1>9. NotBegun'
  BY <1>1, <1>2, <1>4, <1>6, <1>7, TakenResult DEF NotBegun, TypeOK
<1>10. ReadyIsCompleted' BY <1>2, <1>6 DEF ReadyIsCompleted
<1>11. AnsweredIsKnown'
  BY <1>1, <1>2, <1>6, <1>7 DEF AnsweredIsKnown
<1>12. CompletedIsDecided'
  BY <1>1, <1>2, <1>4, <1>7 DEF CompletedIsDecided, TypeOK
<1> QED BY <1>6, <1>8, <1>9, <1>10, <1>11, <1>12

LEMMA BrokerChangesInv ==
  ASSUME ReconcileInv, NEW s \in Sources, NEW q \in Qty, BrokerChanges(s, q)
  PROVE  ReconcileInv'
<1> USE DEF ReconcileInv
<1>1. Row(q) \in 1..NoRow BY RowType
<1>2. /\ since' \in [Runs -> [Sources -> SUBSET (1..NoRow)]]
      /\ \A r \in Runs, t \in Sources :
           /\ since[r][t] \subseteq since'[r][t]
           /\ status[r] # "none" /\ t = s => Row(q) \in since'[r][t]
  BY <1>1 DEF BrokerChanges, TypeOK
<1>3. /\ truth' \in [Sources -> Qty]
      /\ \A t \in Sources : truth'[t] = IF t = s THEN q ELSE truth[t]
  BY DEF BrokerChanges, TypeOK
<1>4. changes' \in 0..MaxChanges BY ConstantsAssumption DEF BrokerChanges, TypeOK
<1>5. UNCHANGED <<runVars, current, requested, left, results, local, answered, overwritten, faults>>
  BY DEF BrokerChanges
<1>6. TypeOK' BY <1>2, <1>3, <1>4, <1>5 DEF TypeOK, runVars
<1>7. Tracked' BY <1>2, <1>3, <1>5 DEF Tracked, runVars
<1>8. ResultsAreReal'
  <2>1. \A m \in results : m.run \in Runs /\ m.source \in Sources
    BY TakenResult
  <2> QED BY <1>2, <1>5, <2>1 DEF ResultsAreReal
<1>9. RowsAreReal' BY <1>2, <1>5 DEF RowsAreReal, runVars
<1>10. NotBegun' /\ AskedIsRequired' /\ ReadyIsCompleted' /\ AnsweredIsKnown'
       /\ CompletedIsDecided'
  BY <1>5 DEF runVars, NotBegun, AskedIsRequired, ReadyIsCompleted, AnsweredIsKnown,
              CompletedIsDecided
<1> QED BY <1>6, <1>7, <1>8, <1>9, <1>10

\* Steps that change neither runs, requests, answers nor the broker.
LEMMA QuietInv ==
  ASSUME ReconcileInv, TypeOK',
         UNCHANGED <<runVars, left, results, truth, since, answered>>
  PROVE  ReconcileInv'
  BY DEF ReconcileInv, runVars, NotBegun, Tracked, AskedIsRequired, ResultsAreReal,
         RowsAreReal, ReadyIsCompleted, AnsweredIsKnown, CompletedIsDecided

LEMMA NextInv ==
  ASSUME ReconcileInv, [Next]_vars
  PROVE  ReconcileInv'
<1>1. ASSUME NEW r \in Runs, NEW enqueued \in SUBSET Required,
             StartupReconcile(r, enqueued) \/ ReconnectReconcile(r, enqueued)
      PROVE  ReconcileInv'
  <2>1. requested' \in BOOLEAN
    BY <1>1 DEF StartupReconcile, ReconnectReconcile, ReconcileInv, TypeOK
  <2>2. StartRun(r, enqueued)
    BY <1>1 DEF StartupReconcile, ReconnectReconcile
  <2> QED BY <2>1, <2>2, StartRunInv
<1>3. ASSUME NEW r \in Runs, NEW s \in Sources, NEW complete \in BOOLEAN,
             Execute(r, s, complete)
      PROVE  ReconcileInv'
  BY <1>3, ExecuteInv
<1>4. ASSUME NEW m \in results, ApplySourceResult(m) PROVE ReconcileInv'
  BY <1>4, ApplyInv
<1>5. ASSUME NEW m \in results, ApplyFails(m) PROVE ReconcileInv'
  BY <1>5, ApplyFailsInv
<1>6. ASSUME NEW s \in Sources, NEW q \in Qty, BrokerChanges(s, q) PROVE ReconcileInv'
  BY <1>6, BrokerChangesInv
<1>7. ASSUME NEW s \in Sources, UpdateProjection(s) PROVE ReconcileInv'
  <2>1. truth[s] \in 0..NoRow
    BY ConstantsAssumption DEF ReconcileInv, TypeOK, Qty, NoRow
  <2>2. TypeOK' BY <1>7, <2>1 DEF UpdateProjection, ReconcileInv, TypeOK, runVars
  <2> QED BY <1>7, <2>2, QuietInv DEF UpdateProjection
<1>8. CASE Restart
  <2>1. faults' \in 0..MaxFaults BY <1>8, ConstantsAssumption DEF Restart, ReconcileInv, TypeOK
  <2>2. TypeOK' BY <1>8, <2>1 DEF Restart, ReconcileInv, TypeOK, runVars
  <2> QED BY <1>8, <2>2, QuietInv DEF Restart
<1>9. CASE UNCHANGED vars
  <2>1. TypeOK' BY <1>9 DEF vars, ReconcileInv, TypeOK, runVars
  <2> QED BY <1>9, <2>1, QuietInv DEF vars
<1> QED BY <1>1, <1>3, <1>4, <1>5, <1>6, <1>7, <1>8, <1>9 DEF Next

LEMMA Invariance == Spec => []ReconcileInv
<1>1. Init => ReconcileInv BY InitInv
<1>2. ReconcileInv /\ [Next]_vars => ReconcileInv' BY NextInv
<1> QED BY <1>1, <1>2, PTL DEF Spec

-----------------------------------------------------------------------------
\* What a completed source shows.

LEMMA TakenReal ==
  ASSUME ReconcileInv, CompletedIsReal, NEW m \in results,
         rows' = Replaced(m), overwritten' = OverwrittenBy(m),
         NEW c \in {completed[m.run], CompletedBy(m)},
         completed' = [completed EXCEPT ![m.run] = c],
         UNCHANGED since
  PROVE  CompletedIsReal'
<1> USE DEF ReconcileInv
<1>1. /\ m.run \in Runs /\ m.source \in Sources /\ m.complete \in BOOLEAN
      /\ \A r \in Runs, s \in Sources :
            Replaced(m)[r][s] = IF r = m.run /\ s = m.source THEN m.row ELSE rows[r][s]
  BY TakenResult
<1>2. /\ c \subseteq completed[m.run] \cup {m.source}
      /\ m.complete \/ c = completed[m.run]
  BY DEF CompletedBy
<1>3. /\ completed'[m.run] = c
      /\ \A r \in Runs : r # m.run => completed'[r] = completed[r]
  BY <1>1 DEF TypeOK
<1> SUFFICES ASSUME NEW r \in Runs, NEW s \in completed'[r]
             PROVE  <<r, s>> \in overwritten' \/ rows'[r][s] \in since[r][s]
  BY DEF CompletedIsReal
<1>4. s \in Sources
  BY <1>1, <1>2, <1>3, ConstantsAssumption DEF TypeOK
<1>5. CASE r = m.run /\ s = m.source /\ m.complete
  <2>1. rows'[r][s] = m.row BY <1>1, <1>5
  <2>2. m.row \in since[m.run][m.source] BY <1>5 DEF ResultsAreReal
  <2> QED BY <1>5, <2>1, <2>2
<1>6. CASE r = m.run /\ s = m.source /\ ~m.complete
  <2>1. m.source \in completed[m.run] BY <1>2, <1>3, <1>6
  <2> QED BY <1>6, <2>1 DEF OverwrittenBy, Overwrites
<1>7. CASE ~(r = m.run /\ s = m.source)
  <2>1. rows'[r][s] = rows[r][s] BY <1>1, <1>4, <1>7
  <2>2. s \in completed[r] BY <1>2, <1>3, <1>7
  <2>3. <<r, s>> \in overwritten => <<r, s>> \in overwritten' BY <1>7 DEF OverwrittenBy
  <2> QED BY <2>1, <2>2, <2>3 DEF CompletedIsReal
<1> QED BY <1>1, <1>5, <1>6, <1>7

LEMMA RealStep ==
  ASSUME ReconcileInv, CompletedIsReal, [Next]_vars
  PROVE  CompletedIsReal'
<1> USE DEF ReconcileInv
<1>1. ASSUME NEW r \in Runs, NEW enqueued \in SUBSET Required, StartRun(r, enqueued)
      PROVE  CompletedIsReal'
  <2>1. completed[r] = {} BY <1>1 DEF StartRun, NotBegun
  <2>2. UNCHANGED <<completed, rows, overwritten>> BY <1>1 DEF StartRun
  <2>3. \A q \in Runs : q # r => since'[q] = since[q]
    BY <1>1 DEF StartRun, TypeOK
  <2> QED BY <2>1, <2>2, <2>3 DEF CompletedIsReal
<1>2. ASSUME NEW m \in results, ApplySourceResult(m) PROVE CompletedIsReal'
  <2>1. completed' = [completed EXCEPT ![m.run] = CompletedBy(m)]
    BY <1>2 DEF ApplySourceResult, UpdateRun
  <2> QED BY <1>2, <2>1, TakenReal DEF ApplySourceResult
<1>3. ASSUME NEW m \in results, ApplyFails(m) PROVE CompletedIsReal'
  <2>1. CASE UNCHANGED <<rows, completed, overwritten>>
    BY <1>3, <2>1 DEF ApplyFails, CompletedIsReal
  <2>2. CASE rows' = Replaced(m) /\ overwritten' = OverwrittenBy(m)
    <3>1. PICK c \in {completed[m.run], CompletedBy(m)} :
             completed' = [completed EXCEPT ![m.run] = c]
      BY <1>3, TakenResult DEF ApplyFails, TypeOK
    <3> QED BY <1>3, <2>2, <3>1, TakenReal DEF ApplyFails
  <2> QED BY <1>3, <2>1, <2>2 DEF ApplyFails
<1>4. ASSUME NEW s \in Sources, NEW q \in Qty, BrokerChanges(s, q) PROVE CompletedIsReal'
  <2>1. \A r \in Runs, t \in Sources : since[r][t] \subseteq since'[r][t]
    BY <1>4 DEF BrokerChanges, TypeOK
  <2>2. UNCHANGED <<completed, rows, overwritten>> BY <1>4 DEF BrokerChanges, runVars
  <2>3. \A r \in Runs : completed[r] \subseteq Sources BY ConstantsAssumption DEF TypeOK
  <2> QED BY <2>1, <2>2, <2>3 DEF CompletedIsReal
<1>5. CASE UNCHANGED <<completed, rows, since, overwritten>>
  BY <1>5 DEF CompletedIsReal
<1> QED
  BY <1>1, <1>2, <1>3, <1>4, <1>5
     DEF Next, vars, runVars, StartupReconcile, ReconnectReconcile, Execute, UpdateProjection,
         Restart

-----------------------------------------------------------------------------
\* Theorems.

\* The stored runs, the requests and the answers keep their types.
THEOREM TypeCorrect == Spec => []TypeOK
  BY Invariance, PTL DEF ReconcileInv

\* A run whose required sources have all been captured, with every answer
\* handled, has its verdict: for any number of attempts, runs and restarts and
\* in any order of the answers (_update_run_after_source_result).
THEOREM AnsweredRunsAreDecided == Spec => []AnsweredIsDecided
<1>1. ReconcileInv => AnsweredIsDecided
  BY DEF ReconcileInv, AnsweredIsKnown, CompletedIsDecided, AnsweredIsDecided, Decided
<1> QED BY <1>1, Invariance, PTL

\* Whatever the number of attempts, a run's snapshot shows what the broker had
\* since that run began or, of a page that was not fetched, no row: never an
\* answer to another run (apply_source_result).
THEOREM SnapshotsBelongToTheirRun == Spec => []RowsAreReal
  BY Invariance, PTL DEF ReconcileInv

\* What makes broker_truth_ready true is what the broker had since the run began,
\* and neither a partial answer nor one to another run, for any number of
\* executions of a request: unless a partial answer replaced a complete one
\* (apply_source_result).
THEOREM ReadyRunsHaveTheTruth == Spec => []ReadyUnlessOverwritten
<1>1. Init => CompletedIsReal BY InitInv
<1>2. ReconcileInv /\ CompletedIsReal /\ [Next]_vars => CompletedIsReal' BY RealStep
<1>3. ReconcileInv /\ CompletedIsReal => ReadyUnlessOverwritten
  BY DEF ReconcileInv, ReadyIsCompleted, CompletedIsReal, ReadyUnlessOverwritten
<1> QED BY <1>1, <1>2, <1>3, Invariance, PTL DEF Spec
=============================================================================
