--------------------------- MODULE BrokerReconcile ---------------------------
(***************************************************************************)
(* BrokerReconcileOrchestrator: a run asks the gateway, by one tr_request  *)
(* for each required source, for the broker's open orders and positions,   *)
(* stores the answers as the run's snapshot, and once every source has     *)
(* answered completely compares the snapshot with the local projection of  *)
(* the broker's events.  A run without a discrepancy is CLEAN and makes    *)
(* broker_truth_ready true.                                                *)
(*                                                                         *)
(* There is one order, or one stock, for each source, known by its         *)
(* remaining or held quantity; NoRow is a snapshot or projection without   *)
(* a row for it.  Requests are executed when the broker is in a later      *)
(* state than at their creation, may be executed again when their first    *)
(* execution was not acknowledged in time, and their results arrive in     *)
(* any order.  Methods of the orchestrator hold its lock, so each is one   *)
(* step.                                                                   *)
(***************************************************************************)
EXTENDS Naturals, FiniteSets

CONSTANTS
    Required,    \* required_sources of a run
    MaxAttempts, \* max_attempts of a tr_request
    MaxRuns,     \* bound: runs
    MaxQty,      \* bound: quantity of the order and of the position
    FirstQty,    \* bound: quantities before the first run
    MaxChanges,  \* bound: changes at the broker
    MaxFaults    \* bound: restarts, failures of a handler and second executions

Runs == 1..MaxRuns
Sources == {"OPEN_ORDERS", "ACCOUNT_POSITIONS"}
Qty == 0..MaxQty
NoRow == MaxQty + 1

ASSUME ConstantsAssumption ==
    /\ Required \subseteq Sources /\ Required # {}
    /\ {MaxAttempts, MaxRuns, MaxQty, MaxChanges, MaxFaults} \subseteq Nat
    /\ MaxAttempts # 0
    /\ FirstQty \subseteq Qty

VARIABLES
    status,    \* broker_reconcile_runs: status, completed_sources, broker_truth_ready
    completed,
    ready,
    rows,      \* the run's snapshot of each source
    found,     \* broker_reconcile_discrepancies: the severities of the run's
    current,   \* current_run_id, 0 for ""
    requested, \* _broker_reconcile_startup_requested
    left,      \* executions each request may still have
    results,   \* command_ack events on their way
    truth,     \* quantities at the broker
    local,     \* broker_order_state, broker_position_state
    since,     \* history: quantities at the broker since the run began
    answered,  \* history: sources captured completely whose answer is on its
               \* way or was handled without an exception
    overwritten, \* history: <<run, source>> whose complete rows a partial answer replaced
    changes,
    faults

runVars == <<status, completed, ready, rows, found>>
vars == <<runVars, current, requested, left, results, truth, local, since, answered,
          overwritten, changes, faults>>

-----------------------------------------------------------------------------

\* A quantity as the broker lists it: nothing is open or held without a row.
Row(q) == IF q = 0 THEN NoRow ELSE q

\* A page that was not fetched may be the one with the row.
Result(r, s, n, complete, row) == [run |-> r, source |-> s, attempt |-> n, complete |-> complete, row |-> row]

Init ==
    /\ status = [r \in Runs |-> "none"]
    /\ completed = [r \in Runs |-> {}]
    /\ ready = [r \in Runs |-> FALSE]
    /\ rows = [r \in Runs |-> [s \in Sources |-> NoRow]]
    /\ found = [r \in Runs |-> {}]
    /\ current = 0
    /\ requested = FALSE
    /\ left = [r \in Runs |-> [s \in Sources |-> 0]]
    /\ results = {}
    /\ truth \in [Sources -> FirstQty]
    /\ local \in {[s \in Sources |-> NoRow], truth}
    /\ since = [r \in Runs |-> [s \in Sources |-> {}]]
    /\ answered = [r \in Runs |-> {}]
    /\ overwritten = {}
    /\ changes = 0
    /\ faults = 0

-----------------------------------------------------------------------------
\* _start_run: enqueued are the sources whose request the queue took.

StartRun(r, enqueued) ==
    /\ status[r] = "none"
    /\ \A q \in Runs : q < r => status[q] # "none"
    /\ current' = r
    /\ status' = [status EXCEPT ![r] = IF enqueued = Required THEN "RUNNING" ELSE "FAILED"]
    /\ left' = [left EXCEPT ![r] = [s \in Sources |-> IF s \in enqueued THEN MaxAttempts ELSE 0]]
    /\ since' = [since EXCEPT ![r] = [s \in Sources |-> {Row(truth[s])}]]
    /\ UNCHANGED <<completed, ready, rows, found, results, truth, local, answered, overwritten, changes, faults>>

\* The first heartbeat with a login asks for a run, and one with a new
\* reconnect count.
StartupReconcile(r, enqueued) == ~requested /\ requested' = TRUE /\ StartRun(r, enqueued)
ReconnectReconcile(r, enqueued) == requested /\ requested' = requested /\ StartRun(r, enqueued)

-----------------------------------------------------------------------------
\* compare_snapshots: the severities of what differs.

OrderDiffers(row, own) ==
    IF row = NoRow THEN own \notin {NoRow, 0} ELSE own # row
PositionDiffers(row, own) == row # NoRow /\ own # row

Discrepancies(snapshot) ==
    (IF OrderDiffers(snapshot["OPEN_ORDERS"], local["OPEN_ORDERS"])
     THEN {"STOP_NEW_BUY"} ELSE {})
    \cup (IF PositionDiffers(snapshot["ACCOUNT_POSITIONS"], local["ACCOUNT_POSITIONS"])
          THEN {"REDUCE_ONLY"} ELSE {})

-----------------------------------------------------------------------------
\* handle_gateway_event.

\* The rows of an answer replace those the run has of its source.
Replaced_Bug(m) == [rows EXCEPT ![IF current = 0 THEN m.run ELSE current][m.source] = m.row]
Replaced_Zero(m) == [rows EXCEPT ![m.run][m.source] = IF m.row = NoRow THEN 0 ELSE m.row]
Replaced(m) == [rows EXCEPT ![m.run][m.source] = m.row]

CompletedBy_Bug(m) == IF m.complete THEN {m.source} ELSE completed[m.run]
CompletedBy(m) == completed[m.run] \cup IF m.complete THEN {m.source} ELSE {}

\* The request was executed twice, and its first execution got every page.
Overwrites(m) == ~m.complete /\ m.source \in completed[m.run]
OverwrittenBy(m) ==
    IF Overwrites(m) THEN overwritten \cup {<<m.run, m.source>>}
    ELSE overwritten \ {<<m.run, m.source>>}

\* _update_run_after_source_result, and finalize_run once every required
\* source is complete.
UpdateRun(m) ==
    LET r == m.run
        differs == Discrepancies(rows'[r])
    IN  /\ completed' = [completed EXCEPT ![r] = CompletedBy(m)]
        /\ IF Required \subseteq CompletedBy(m)
           THEN /\ found' = [found EXCEPT ![r] = differs]
                /\ ready' = [ready EXCEPT ![r] = differs = {}]
                /\ status' = [status EXCEPT ![r] = IF differs = {} THEN "CLEAN" ELSE "RECONCILE_REQUIRED"]
           ELSE /\ status' = [status EXCEPT ![r] = "PARTIAL"]
                /\ UNCHANGED <<found, ready>>

ApplySourceResult(m) ==
    /\ m \in results
    /\ results' = results \ {m}
    /\ rows' = Replaced(m)
    /\ UpdateRun(m)
    /\ overwritten' = OverwrittenBy(m)
    /\ UNCHANGED <<current, requested, left, truth, local, since, answered, changes, faults>>

\* A save raised, or Core stopped: before the run was updated, with the rows
\* of the source replaced or not, or after its sources were saved and before
\* its verdict was, with the discrepancies saved or not.
ApplyFails(m) ==
    /\ faults < MaxFaults
    /\ m \in results
    /\ results' = results \ {m}
    /\ \/ UNCHANGED <<rows, status, completed, found, overwritten>>
       \/ /\ rows' = Replaced(m)
          /\ overwritten' = OverwrittenBy(m)
          /\ UNCHANGED <<status, completed, found>>
       \/ /\ Required \subseteq CompletedBy(m)
          /\ rows' = Replaced(m)
          /\ overwritten' = OverwrittenBy(m)
          /\ completed' = [completed EXCEPT ![m.run] = CompletedBy(m)]
          /\ status' = [status EXCEPT ![m.run] = "COMPLETE"]
          /\ found' \in {found, [found EXCEPT ![m.run] = Discrepancies(rows'[m.run])]}
    /\ answered' = [answered EXCEPT ![m.run] = @ \ {m.source}]
    /\ faults' = faults + 1
    /\ UNCHANGED <<ready, current, requested, left, truth, local, since, changes>>

\* Core starts again: the runs are in the database, the current one is not.
Restart ==
    /\ faults < MaxFaults
    /\ faults' = faults + 1
    /\ current' = 0
    /\ requested' = FALSE
    /\ UNCHANGED <<runVars, left, results, truth, local, since, answered, overwritten, changes>>

-----------------------------------------------------------------------------
\* The gateway and the broker.

\* _execute_broker_reconcile_tr_capture; again, when the ack of an execution did
\* not come in time.  A request whose ttl is over is one not executed any more.
Execute(r, s, complete) ==
    /\ left[r][s] > 0
    /\ IF left[r][s] = MaxAttempts THEN faults' = faults
       ELSE faults < MaxFaults /\ faults' = faults + 1
    /\ left' = [left EXCEPT ![r][s] = @ - 1]
    /\ \E row \in IF complete THEN {Row(truth[s])} ELSE {NoRow, Row(truth[s])} :
        results' = results \cup {Result(r, s, left[r][s], complete, row)}
    /\ answered' = [answered EXCEPT ![r] = IF complete THEN @ \cup {s} ELSE @]
    /\ UNCHANGED <<runVars, current, requested, truth, local, since, overwritten, changes>>

BrokerChanges(s, q) ==
    /\ changes < MaxChanges
    /\ changes' = changes + 1
    /\ q # truth[s]
    /\ truth' = [truth EXCEPT ![s] = q]
    /\ since' = [r \in Runs |-> IF status[r] = "none" THEN since[r]
                                ELSE [since[r] EXCEPT ![s] = @ \cup {Row(q)}]]
    /\ UNCHANGED <<runVars, current, requested, left, results, local, answered, overwritten, faults>>

\* _update_projection: an event of the broker about s is consumed.
UpdateProjection(s) ==
    /\ local[s] # truth[s]
    /\ local' = [local EXCEPT ![s] = truth[s]]
    /\ UNCHANGED <<runVars, current, requested, left, results, truth, since, answered, overwritten,
                   changes, faults>>

-----------------------------------------------------------------------------

Next ==
    \/ \E r \in Runs : \E enqueued \in SUBSET Required :
        StartupReconcile(r, enqueued) \/ ReconnectReconcile(r, enqueued)
    \/ \E r \in Runs, s \in Sources, complete \in BOOLEAN : Execute(r, s, complete)
    \/ \E m \in results : ApplySourceResult(m) \/ ApplyFails(m)
    \/ \E s \in Sources, q \in Qty : BrokerChanges(s, q)
    \/ \E s \in Sources : UpdateProjection(s)
    \/ Restart

Spec == Init /\ [][Next]_vars

-----------------------------------------------------------------------------
\* Properties.

\* The stored runs, the requests and the answers have their types.
TypeOK ==
    /\ status \in [Runs -> {"none", "RUNNING", "FAILED", "PARTIAL", "COMPLETE", "CLEAN",
                            "RECONCILE_REQUIRED"}]
    /\ completed \in [Runs -> SUBSET Required]
    /\ ready \in [Runs -> BOOLEAN]
    /\ rows \in [Runs -> [Sources -> 1..NoRow]]
    /\ found \in [Runs -> SUBSET {"STOP_NEW_BUY", "REDUCE_ONLY"}]
    /\ current \in Runs \cup {0}
    /\ requested \in BOOLEAN
    /\ left \in [Runs -> [Sources -> 0..MaxAttempts]]
    /\ results \subseteq [run : Runs, source : Required, attempt : 1..MaxAttempts,
                          complete : BOOLEAN, row : 1..NoRow]
    /\ truth \in [Sources -> Qty]
    /\ local \in [Sources -> 0..NoRow]
    /\ since \in [Runs -> [Sources -> SUBSET (1..NoRow)]]
    /\ answered \in [Runs -> SUBSET Required]
    /\ overwritten \subseteq Runs \X Required
    /\ changes \in 0..MaxChanges
    /\ faults \in 0..MaxFaults

\* What a run that makes broker_truth_ready true compared is what the broker had
\* at some time after the run began, and neither a partial answer nor one to an
\* earlier run: whatever order the answers of requests executed once or twice
\* come in, and whichever handler raised.  Only the partial answer to the second
\* execution of a request, after the complete one to its first, may be the
\* snapshot instead (apply_source_result, ReadyIsBrokerTruth below).
ReadyUnlessOverwritten ==
    \A r \in Runs : ready[r] => \A s \in Required :
        <<r, s>> \in overwritten \/ rows[r][s] \in since[r][s]

\* A run whose sources have all been captured completely and whose answers have
\* all arrived has its verdict, in whatever order they came, partial ones among
\* them, and whatever run or restart came in between; only a handler that raised
\* leaves it open (_update_run_after_source_result).
AnsweredIsDecided ==
    \A r \in Runs :
        /\ status[r] # "none" /\ Required \subseteq answered[r]
        /\ \A m \in results : m.run # r
        => status[r] \in {"CLEAN", "RECONCILE_REQUIRED"}

-----------------------------------------------------------------------------
\* Statements of the repository's documents and tests that the code does not
\* keep.  README.md tells on which instance TLC refutes each.

\* docs/realtime_architecture_v2.md, "partial page failure는 broker truth publish
\* 대상이 아니다": what a run that makes broker_truth_ready true compared is what the
\* broker had at some time after the run began.
ReadyIsBrokerTruth ==
    \A r \in Runs : ready[r] => \A s \in Required : rows[r][s] \in since[r][s]

\* docs/kiwoom_reconcile_tr_pilot_runbook.md, "CLEAN: TR snapshot과 local/Chejan
\* projection이 일치한다": a run becomes CLEAN only when its snapshot and the
\* projection agree.
CleanMeansAgreed ==
    [][\A r \in Runs : ready'[r] /\ ~ready[r] =>
        \A s \in Required : rows'[r][s] = Row(local[s])]_vars

\* health_snapshot: stop_new_buy.
StopNewBuy == current # 0 /\ "STOP_NEW_BUY" \in found[current]

\* docs/kiwoom_reconcile_tr_pilot_runbook.md, "Never Do: STOP_NEW_BUY 자동 해제":
\* stop_new_buy is not cleared by what the program does by itself.
StopNewBuyStays == [][StopNewBuy => StopNewBuy']_vars

=============================================================================
