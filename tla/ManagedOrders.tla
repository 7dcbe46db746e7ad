---------------------------- MODULE ManagedOrders ----------------------------
(***************************************************************************)
(* The managed orders of one stock code.  OrderManagerRuntimePipeline.run, *)
(* one cycle at a time, evaluates the kill switch, gives up on orders that *)
(* were never acknowledged, turns decisions into orders and commands, and  *)
(* cancels what stays unfilled.  Meanwhile the gateway's reports change    *)
(* the same rows: the request threads of the Core (_persist_gateway_event) *)
(* and the event consumer (apply_canonical_order_event) both give them to  *)
(* ManagedOrderReconciler.                                                 *)
(*                                                                         *)
(* Everyone loads a row, computes, and saves the whole row: save_managed_  *)
(* order has no version check.  So a load and its save are two steps here, *)
(* and "copy" is what was loaded.                                          *)
(*                                                                         *)
(* The broker and the gateway are modelled from how the code uses them:    *)
(* commands are placed or refused, filled in parts, cancelled some time    *)
(* after the cancel was acknowledged; reports reach the Core in any order. *)
(***************************************************************************)
EXTENDS Integers, FiniteSets, Functions

CONSTANTS
    N,           \* bound: orders that may be created; ids are 1..N
    Sides,       \* sides the decision engines ask for
    Qty,         \* order quantity
    Held,        \* position at the start
    MaxPerCode,  \* max_daily_orders_per_code
    Recommended, \* kill switch states the portfolio snapshots lead to
    Numbered,    \* whether acknowledgements of a send_order may carry the order_no
    CancelGuard, \* whether _cancel_guard_passes
    MaxRestarts  \* bound: restarts of the Core

ASSUME ConstantsAssumption ==
    /\ N \in Nat
    /\ Sides \subseteq {"BUY", "SELL"}
    /\ Qty \in Nat \ {0}
    /\ Held \in Nat
    /\ MaxPerCode \in Nat
    /\ Recommended \subseteq {"NORMAL", "STOP_NEW_BUY", "REDUCE_ONLY", "KILL_SWITCH_ACTIVE"}
    /\ Numbered \subseteq BOOLEAN
    /\ CancelGuard \in BOOLEAN
    /\ MaxRestarts \in Nat

Orders == 1..N
Handlers == {"request", "consumer"}

VARIABLES
    order,     \* table managed_orders
    position,  \* current_qty of the position of the code
    kill,      \* latest row of order_kill_switch_state
    cycle,     \* the manager's cycle
    handler,   \* what each thread that applies reports is doing
    aged,      \* orders sent longer than ack_timeout_sec ago
    commands,  \* commands in the gateway queue
    everQueued,\* commands ever accepted: their dedupe keys are kept
    broker,    \* external: the orders at the broker
    todo,      \* reports each handler has yet to apply
    restarts,
    unmatched, \* history: kinds of reports that found no order: STOP_NEW_BUY was saved
    raced      \* history: orders saved from a copy that was no longer the row

vars == <<order, position, kill, cycle, handler, aged, commands, everQueued,
          broker, todo, restarts, unmatched, raced>>
external == <<commands, broker>>

-----------------------------------------------------------------------------
\* Rows, reports and threads.

Pending == {"PENDING_LOCAL", "QUEUED_TO_GATEWAY", "ACKED_BY_GATEWAY", "PARTIALLY_FILLED",
            "CANCEL_PENDING"}
Statuses == Pending \cup {"ABSENT", "COMMAND_BLOCKED_OBSERVE_ONLY", "FILLED", "CANCELLED",
                         "REJECTED_BY_GATEWAY", "RECONCILE_REQUIRED"}

\* The broker gives the order of row n the number n.  no is the order_no of a
\* row, which may be another row's, or 0.  command is what command_id names:
\* the send_order, the cancel_order of a number, or nothing.
NoCommand == -1
Send == 0
Row == [side : {"BUY", "SELL"}, status : Statuses, command : NoCommand..N,
        no : 0..N, filled : 0..Qty, remaining : 0..Qty]
NoRow == [side |-> "BUY", status |-> "ABSENT", command |-> NoCommand, no |-> 0,
          filled |-> 0, remaining |-> 0]

\* A command_ack (of a send or a cancel, with or without order_no), its
\* failure, or an execution_event with the cumulative quantity.
Report == [kind : {"ack", "reject"}, order : Orders, command : Send..N,
           numbered : BOOLEAN]
    \cup [kind : {"fill"}, order : Orders, filled : 1..Qty]

IdleHandler == [step |-> "idle"]
IdleCycle == [step |-> "idle", kill |-> "NORMAL", order |-> 0, copy |-> NoRow, stale |-> <<>>]

Init ==
    /\ order = [o \in Orders |-> NoRow]
    /\ position = Held
    /\ kill = "NORMAL"
    /\ cycle = IdleCycle
    /\ handler = [h \in Handlers |-> IdleHandler]
    /\ aged = {}
    /\ commands = {}
    /\ everQueued = {}
    /\ broker = [o \in Orders |-> [live |-> FALSE, filled |-> 0]]
    /\ todo = [h \in Handlers |-> {}]
    /\ restarts = 0
    /\ unmatched = {}
    /\ raced = {}

\* The manager goes on with the cycle, no row in its hands.
Proceed(step) == cycle' = [IdleCycle EXCEPT !.step = step, !.kill = cycle.kill]

\* It has some of the rows yet to deal with, or goes on with the next part.
GoOn(step, rows, next) ==
    cycle' = IF DOMAIN rows = {} THEN [IdleCycle EXCEPT !.step = next, !.kill = cycle.kill]
             ELSE [IdleCycle EXCEPT !.step = step, !.kill = cycle.kill, !.stale = rows]
Without(rows, o) == Restrict(rows, DOMAIN rows \ {o})

\* save_managed_order: the whole row is written, whatever is there by now.
Save(o, copy, new) ==
    /\ order' = [order EXCEPT ![o] = new]
    /\ raced' = IF order[o] = copy THEN raced ELSE raced \cup {o}

-----------------------------------------------------------------------------
\* run: the kill switch and the orders without an acknowledgement.

\* kill_switch.evaluate starts from NORMAL and looks at the portfolio; what
\* was saved before does not count.
StartCycle ==
    /\ cycle.step = "idle"
    /\ \E state \in Recommended :
         /\ kill' = state
         /\ cycle' = [IdleCycle EXCEPT !.step = "reconcile", !.kill = state]
    /\ UNCHANGED <<order, position, handler, aged, external, everQueued, todo, restarts, unmatched, raced>>

Unacknowledged_Bug == {}
Unacknowledged == {o \in aged : order[o].status = "QUEUED_TO_GATEWAY"}

\* reconcile_open_orders reads them ...
LoadUnacknowledged ==
    /\ cycle.step = "reconcile"
    /\ GoOn("timeout", [o \in Unacknowledged |-> order[o]], "intents")
    /\ UNCHANGED <<order, position, kill, handler, aged, external, everQueued, todo, restarts, unmatched, raced>>

\* ... and saves one after another as RECONCILE_REQUIRED, with STOP_NEW_BUY.
TimeOutOrder(o) ==
    /\ cycle.step = "timeout"
    /\ o \in DOMAIN cycle.stale
    /\ Save(o, cycle.stale[o], [cycle.stale[o] EXCEPT !.status = "RECONCILE_REQUIRED"])
    /\ kill' = "STOP_NEW_BUY"
    /\ GoOn("timeout", Without(cycle.stale, o), "intents")
    /\ UNCHANGED <<position, handler, aged, external, everQueued, todo, restarts, unmatched>>

-----------------------------------------------------------------------------
\* _process_intent.

\* OrderRiskManager.evaluate, the checks that read the order state.  A sell is
\* limited by the position it was sized by, not by other sells.
RiskApproves_Bug(side) ==
    side = "BUY" =>
        /\ cycle.kill = "NORMAL"
        /\ position = 0
        /\ \A o \in Orders : order[o].status \notin (Pending \ {"PENDING_LOCAL"})
                                                   \cup {"RECONCILE_REQUIRED"}
        /\ Cardinality({o \in Orders : order[o].status # "ABSENT"}) < MaxPerCode
RiskApproves(side) ==
    side = "BUY" =>
        /\ cycle.kill = "NORMAL"
        /\ position = 0
        /\ \A o \in Orders : order[o].status \notin Pending \cup {"RECONCILE_REQUIRED"}
        /\ Cardinality({o \in Orders : order[o].status # "ABSENT"}) < MaxPerCode

\* The next row id.
NewId ==
    CHOOSE o \in Orders :
        /\ order[o].status = "ABSENT"
        /\ \A p \in Orders : order[p].status = "ABSENT" => o <= p

\* A rejected intent leaves no order; an approved one is persisted.
CreateOrder(side) ==
    /\ cycle.step = "intents"
    /\ \E o \in Orders : order[o].status = "ABSENT"
    /\ side = "SELL" => position >= Qty
    /\ RiskApproves(side)
    /\ LET row == [NoRow EXCEPT !.side = side, !.status = "PENDING_LOCAL",
                                !.remaining = Qty] IN
         /\ order' = [order EXCEPT ![NewId] = row]
         /\ cycle' = [cycle EXCEPT !.step = "created", !.order = NewId, !.copy = row]
    /\ UNCHANGED <<position, kill, handler, aged, external, everQueued, todo, restarts, unmatched, raced>>

\* _gateway_command_guard: KILL_SWITCH_ACTIVE, or the broker's state.
BlockOrder ==
    /\ cycle.step = "created"
    /\ Save(cycle.order, cycle.copy, [cycle.copy EXCEPT !.status = "COMMAND_BLOCKED_OBSERVE_ONLY"])
    /\ Proceed("intents")
    /\ UNCHANGED <<position, kill, handler, aged, external, everQueued, todo, restarts, unmatched>>

Command(o, c) == [order |-> o, command |-> c]

\* enqueue_command accepts a key once, or refuses.
Enqueue(c, accepted) ==
    /\ accepted => c \notin everQueued
    /\ commands' = IF accepted THEN commands \cup {c} ELSE commands
    /\ everQueued' = IF accepted THEN everQueued \cup {c} ELSE everQueued

EnqueueOrder(accepted) ==
    /\ cycle.step = "created"
    /\ kill # "KILL_SWITCH_ACTIVE"
    /\ Enqueue(Command(cycle.order, Send), accepted)
    /\ cycle' = [cycle EXCEPT !.step = IF accepted THEN "queued" ELSE "refused"]
    /\ UNCHANGED <<order, position, kill, handler, aged, broker, todo, restarts, unmatched, raced>>

\* Only now does the row name the command.
SaveOrder ==
    /\ cycle.step \in {"queued", "refused"}
    /\ Save(cycle.order, cycle.copy,
            [cycle.copy EXCEPT !.command = Send,
                               !.status = IF cycle.step = "queued" THEN "QUEUED_TO_GATEWAY"
                                          ELSE "REJECTED_BY_GATEWAY"])
    /\ Proceed("intents")
    /\ UNCHANGED <<position, kill, handler, aged, external, everQueued, todo, restarts, unmatched>>

-----------------------------------------------------------------------------
\* UnfilledCancelScheduler.run_if_due decides about all orders first ...

\* Of the orders that may be cancelled, those old enough.
Cancellable ==
    {o \in Orders : /\ order[o].status \in {"ACKED_BY_GATEWAY", "PARTIALLY_FILLED"}
                    /\ order[o].remaining > 0
                    /\ order[o].no # 0
                    /\ CancelGuard}

DecideCancels ==
    /\ cycle.step = "intents"
    /\ \E due \in SUBSET Cancellable :
         GoOn("cancel", [o \in due |-> order[o]], "idle")
    /\ UNCHANGED <<order, position, kill, handler, aged, external, everQueued, todo, restarts, unmatched, raced>>

\* ... then, for one after another, loads the row again, enqueues a cancel of the
\* number the decision was about, and saves the row.
EnqueueCancel(o, accepted) ==
    /\ cycle.step = "cancel"
    /\ o \in DOMAIN cycle.stale
    /\ Enqueue(Command(o, cycle.stale[o].no), accepted)
    /\ cycle' = [cycle EXCEPT !.step = IF accepted THEN "cancelQueued" ELSE "cancelRefused",
                              !.order = o, !.copy = order[o]]
    /\ UNCHANGED <<order, position, kill, handler, aged, broker, todo, restarts, unmatched, raced>>

SaveCancel ==
    /\ cycle.step \in {"cancelQueued", "cancelRefused"}
    /\ Save(cycle.order, cycle.copy,
            IF cycle.step = "cancelQueued"
            THEN [cycle.copy EXCEPT !.status = "CANCEL_PENDING",
                                    !.command = cycle.stale[cycle.order].no]
            ELSE [cycle.copy EXCEPT !.status = "RECONCILE_REQUIRED"])
    /\ GoOn("cancel", Without(cycle.stale, cycle.order), "idle")
    /\ UNCHANGED <<position, kill, handler, aged, external, everQueued, todo, restarts, unmatched>>

-----------------------------------------------------------------------------
\* ManagedOrderReconciler, run by both handlers.

\* _find_by_command_id; for a fill _find_execution_order: by order_no, then
\* the latest order of that side that is waiting for fills.
LatestOf(S) == {o \in S : \A p \in S : p <= o}
Matches_Bug(r) ==
    IF r.kind # "fill"
    THEN {o \in Orders : o = r.order /\ order[o].command = r.command}
    ELSE LatestOf({o \in Orders : /\ order[o].side = order[r.order].side
                                  /\ order[o].status \in {"QUEUED_TO_GATEWAY", "ACKED_BY_GATEWAY",
                                                          "PARTIALLY_FILLED"}})
Matches(r) ==
    IF r.kind # "fill"
    THEN {o \in Orders : o = r.order /\ order[o].command = r.command}
    ELSE LET named == {o \in Orders : order[o].no = r.order}
             open == {o \in Orders :
                        /\ order[o].side = order[r.order].side
                        /\ order[o].status \in {"QUEUED_TO_GATEWAY", "ACKED_BY_GATEWAY",
                                                "PARTIALLY_FILLED"}}
         IN  LatestOf(IF named # {} THEN named ELSE open)

\* The codec makes an acknowledgement without order_no a COMMAND_ACK, which
\* the consumer does not match at all.
Unknown(h, r) == h = "consumer" /\ r.kind = "ack" /\ ~r.numbered

LoadOrder(h, r) ==
    /\ handler[h].step = "idle"
    /\ r \in todo[h]
    /\ ~Unknown(h, r)
    /\ \E o \in Matches(r) :
         handler' = [handler EXCEPT ![h] = [step |-> "save", report |-> r, order |-> o,
                                            copy |-> order[o]]]
    /\ todo' = [todo EXCEPT ![h] = @ \ {r}]
    /\ UNCHANGED <<order, position, kill, cycle, aged, external, everQueued, restarts, unmatched, raced>>

\* Without an order the consumer saves STOP_NEW_BUY; the request thread
\* only leaves an event row.
NoOrderFound(h, r) ==
    /\ handler[h].step = "idle"
    /\ r \in todo[h]
    /\ Unknown(h, r) \/ Matches(r) = {}
    /\ todo' = [todo EXCEPT ![h] = @ \ {r}]
    /\ IF h = "consumer" THEN kill' = "STOP_NEW_BUY" /\ unmatched' = unmatched \cup {r.kind}
                         ELSE UNCHANGED <<kill, unmatched>>
    /\ UNCHANGED <<order, position, cycle, handler, aged, external, everQueued, restarts, raced>>

\* handle_command_ack.
AfterAck_Bug(r, row) ==
    IF r.command # Send /\ r.kind = "ack"
    THEN [row EXCEPT !.status = "CANCELLED", !.filled = 0]
    ELSE [row EXCEPT !.status = "ACKED_BY_GATEWAY", !.no = IF r.numbered THEN r.order ELSE @]
AfterAck(r, row) ==
    LET next == IF r.command # Send
                THEN IF r.kind = "ack" THEN "CANCELLED" ELSE "RECONCILE_REQUIRED"
                ELSE IF r.kind = "reject" THEN "REJECTED_BY_GATEWAY"
                ELSE IF row.status \in {"PARTIALLY_FILLED", "FILLED", "CANCELLED"}
                THEN row.status ELSE "ACKED_BY_GATEWAY"
    IN  [row EXCEPT !.status = next, !.no = IF r.numbered THEN r.order ELSE @]

Smaller(a, b) == IF a < b THEN a ELSE b
Larger(a, b) == IF a > b THEN a ELSE b

\* handle_execution: reports are cumulative and may be old or repeated.
AfterFill_Bug(r, row) ==
    LET filled == Smaller(Qty, row.filled + r.filled)
    IN  [row EXCEPT !.status = IF filled = Qty THEN "FILLED" ELSE "PARTIALLY_FILLED",
                    !.no = r.order, !.filled = filled, !.remaining = Qty - filled]
AfterFill_Less(r, row) ==
    LET filled == Larger(row.filled, r.filled)
    IN  [row EXCEPT !.status = IF filled = Qty THEN "FILLED" ELSE "PARTIALLY_FILLED",
                    !.no = r.order, !.filled = filled, !.remaining = @ - r.filled]
AfterFill_Last(r, row) ==
    [row EXCEPT !.status = IF r.filled = Qty THEN "FILLED" ELSE "PARTIALLY_FILLED",
                !.no = r.order, !.filled = r.filled, !.remaining = Qty - r.filled]
AfterFill(r, row) ==
    LET filled == Larger(row.filled, r.filled)
        reported == IF r.filled < Qty THEN Qty - r.filled ELSE Larger(0, Qty - filled)
        known == IF row.filled > 0 \/ row.status = "PARTIALLY_FILLED"
                 THEN Smaller(row.remaining, reported) ELSE reported
        remaining == Smaller(known, Larger(0, Qty - filled))
    IN  [row EXCEPT !.status = IF remaining = 0 THEN "FILLED" ELSE "PARTIALLY_FILLED",
                    !.no = r.order, !.filled = filled, !.remaining = remaining]

After(r, row) == IF r.kind = "fill" THEN AfterFill(r, row) ELSE AfterAck(r, row)

SaveReport(h) ==
    /\ handler[h].step = "save"
    /\ LET r == handler[h].report
           o == handler[h].order IN
         /\ Save(o, handler[h].copy, After(r, handler[h].copy))
         /\ handler' = [handler EXCEPT ![h] =
              IF r.kind = "fill"
              THEN [step |-> "position", report |-> r, side |-> handler[h].copy.side]
              ELSE IdleHandler]
    /\ UNCHANGED <<position, kill, cycle, aged, external, everQueued, todo, restarts, unmatched>>

\* _sync_live_sim_position reads the position ...
LoadPosition(h) ==
    /\ handler[h].step = "position"
    /\ handler' = [handler EXCEPT ![h] = [step |-> "savePosition", report |-> @.report,
                                          side |-> @.side, held |-> position]]
    /\ UNCHANGED <<order, position, kill, cycle, aged, external, everQueued, todo, restarts, unmatched, raced>>

\* ... and saves it: a buy raises it to the cumulative quantity, a sell
\* reduces it by the cumulative quantity.
NewPosition_Bug(side, held, filled) ==
    IF side = "BUY" THEN held + filled ELSE Larger(0, held - filled)
NewPosition(side, held, filled) ==
    IF side = "BUY" THEN Larger(held, filled) ELSE Larger(0, held - filled)

SavePosition(h) ==
    /\ handler[h].step = "savePosition"
    /\ position' = NewPosition(handler[h].side, handler[h].held, handler[h].report.filled)
    /\ handler' = [handler EXCEPT ![h] = IdleHandler]
    /\ UNCHANGED <<order, kill, cycle, aged, external, everQueued, todo, restarts, unmatched, raced>>

-----------------------------------------------------------------------------
\* Gateway and broker (external).

Publish(r) == todo' = [h \in Handlers |-> todo[h] \cup {r}]

PlaceOrder(o) ==
    /\ Command(o, Send) \in commands
    /\ commands' = commands \ {Command(o, Send)}
    /\ \E kind \in {"ack", "reject"}, numbered \in Numbered :
         /\ Publish([kind |-> kind, order |-> o, command |-> Send, numbered |-> numbered])
         /\ broker' = [broker EXCEPT ![o].live = (kind = "ack")]
    /\ UNCHANGED <<order, position, kill, cycle, handler, aged, everQueued, restarts, unmatched, raced>>

FillOrder(o) ==
    /\ broker[o].live
    /\ LET filled == broker[o].filled + 1 IN
         /\ broker' = [broker EXCEPT ![o] = [live |-> filled < Qty, filled |-> filled]]
         /\ Publish([kind |-> "fill", order |-> o, filled |-> filled])
    /\ UNCHANGED <<order, position, kill, cycle, handler, aged, commands, everQueued, restarts, unmatched, raced>>

\* The cancel is acknowledged, without order_no, when it is submitted; fills
\* may still follow.
SubmitCancel(o, no) ==
    /\ Command(o, no) \in commands
    /\ commands' = commands \ {Command(o, no)}
    /\ \E kind \in {"ack", "reject"} :
         Publish([kind |-> kind, order |-> o, command |-> no, numbered |-> FALSE])
    /\ UNCHANGED <<order, position, kill, cycle, handler, aged, everQueued, broker, restarts, unmatched, raced>>

CancelOrder(no) ==
    /\ broker[no].live
    /\ \E o \in Orders : Command(o, no) \in everQueued \ commands
    /\ broker' = [broker EXCEPT ![no].live = FALSE]
    /\ UNCHANGED <<order, position, kill, cycle, handler, aged, commands, everQueued, todo, restarts, unmatched, raced>>

\* ack_timeout_sec goes by.
Age(o) ==
    /\ order[o].status = "QUEUED_TO_GATEWAY"
    /\ o \notin aged
    /\ aged' = aged \cup {o}
    /\ UNCHANGED <<order, position, kill, cycle, handler, external, everQueued, todo, restarts, unmatched, raced>>

\* The Core restarts: the tables, the command queue and the event log stay, so
\* the consumer sees the report it was applying again.
Restart ==
    /\ restarts < MaxRestarts
    /\ restarts' = restarts + 1
    /\ cycle' = IdleCycle
    /\ handler' = [h \in Handlers |-> IdleHandler]
    /\ todo' = [request |-> todo["request"],
                consumer |-> todo["consumer"] \cup
                   (IF handler["consumer"].step = "idle" THEN {} ELSE {handler["consumer"].report})]
    /\ UNCHANGED <<order, position, kill, aged, external, everQueued, unmatched, raced>>

Manager ==
    \/ StartCycle \/ LoadUnacknowledged
    \/ \E side \in Sides : CreateOrder(side)
    \/ BlockOrder \/ SaveOrder \/ DecideCancels \/ SaveCancel
    \/ \E accepted \in BOOLEAN : EnqueueOrder(accepted)
    \/ \E o \in Orders, accepted \in BOOLEAN : EnqueueCancel(o, accepted)
    \/ \E o \in Orders : TimeOutOrder(o)

Handle(h) ==
    \/ \E r \in todo[h] : LoadOrder(h, r) \/ NoOrderFound(h, r)
    \/ SaveReport(h) \/ LoadPosition(h) \/ SavePosition(h)

Next ==
    \/ Manager
    \/ \E h \in Handlers : Handle(h)
    \/ \E o \in Orders : \/ PlaceOrder(o) \/ FillOrder(o) \/ CancelOrder(o) \/ Age(o)
                         \/ \E no \in Orders : SubmitCancel(o, no)
    \/ Restart

Spec == Init /\ [][Next]_vars

\* The runtime loop and the consumer go on, time passes; nothing is assumed of
\* the broker, the gateway or the request threads.
FairSpec ==
    /\ Spec
    /\ WF_vars(Manager)
    /\ WF_vars(Handle("consumer"))
    /\ \A o \in Orders : WF_vars(Age(o))

-----------------------------------------------------------------------------
\* Properties.

\* The tables and the broker have their types.
TypeOK ==
    /\ order \in [Orders -> Row]
    /\ position \in Nat
    /\ kill \in {"NORMAL", "STOP_NEW_BUY", "REDUCE_ONLY", "KILL_SWITCH_ACTIVE"}
    /\ aged \subseteq Orders
    /\ broker \in [Orders -> [live : BOOLEAN, filled : 0..Qty]]
    /\ todo \in [Handlers -> SUBSET Report]
    /\ unmatched \subseteq {"ack", "reject", "fill"}
    /\ raced \subseteq Orders

\* FILLED can be believed: whatever reports were repeated, reordered, applied
\* by two threads or to a stale copy, a row shows no more than the broker filled
\* of an order of its side, and FILLED only when it filled one completely.
FillsAreReal ==
    \A o \in Orders : order[o].filled > 0 \/ order[o].status = "FILLED" =>
        \E p \in Orders : /\ order[p].status # "ABSENT"
                          /\ order[p].side = order[o].side
                          /\ order[o].filled <= broker[p].filled
                          /\ order[o].status = "FILLED" => broker[p].filled = Qty

\* A position is never larger than what was held and bought: a buy report that
\* two threads apply, or that comes again after a restart, adds nothing.
PositionIsHeld ==
    position <= Held +
        (IF \E o \in Orders : order[o].side = "BUY" /\ broker[o].filled > 0 THEN Qty ELSE 0)

\* Nothing is being applied and no report is outstanding.
Quiet == \A h \in Handlers : handler[h].step = "idle" /\ todo[h] = {}

\* No fill is lost in silence: once all reports have been applied, what the
\* broker filled of an order shows on a row of its side, unless a fill found no
\* order (and buying was stopped) or a row of the side was overwritten from a
\* stale copy.
NoSilentLoss ==
    Quiet /\ "fill" \notin unmatched =>
        \A o \in Orders :
            \E p \in Orders : /\ order[p].side = order[o].side
                              /\ p \in raced \/ order[p].filled >= broker[o].filled

\* At most one buy of the code is at the broker or on its way there, apart from
\* those a cancel was queued for: an order counts as pending from its first save
\* on (find_active_managed_order_by_code), so a Core that stops between
\* enqueue_command and the save that names the command does not buy again.
OneLiveBuy ==
    Cardinality({o \in Orders :
        /\ order[o].side = "BUY"
        /\ broker[o].live \/ Command(o, Send) \in commands
        /\ \A p \in Orders : Command(p, o) \notin everQueued}) <= 1

\* The row of a buy gets no fill of another buy, although a report whose number
\* is on no row goes to the latest open order of its side: buys follow one
\* another, and one that is done has its number, unless a stale copy took it.
BuysAreTheirOwn ==
    raced = {} => \A o \in Orders : order[o].side = "BUY" =>
        order[o].filled <= broker[o].filled /\ order[o].no \in {0, o}

\* No order waits for its acknowledgement forever: it is acknowledged, filled,
\* refused, or reconcile_open_orders gives it up to reconciliation.
AckOrTimeout ==
    \A o \in Orders : (order[o].status = "QUEUED_TO_GATEWAY") ~>
                      (order[o].status # "QUEUED_TO_GATEWAY")

-----------------------------------------------------------------------------
\* Statements of the repository's documents and tests that the code does not
\* keep.  README.md tells on which instance TLC refutes each.

\* docs/live_sim_order_manager_runbook.md, conditions of a BUY: no open position
\* and no pending order of the code.  So no buy is created while a row shows a
\* buy that was filled and nothing was sold.
NoBuyOnTop ==
    [][\A o, p \in Orders :
         (order[o].status = "ABSENT" /\ order'[o].status # "ABSENT" /\ order'[o].side = "BUY") =>
            ~(order[p].side = "BUY" /\ order[p].filled > 0)]_vars

\* docs/realtime_architecture_v2.md: a late ack does not take FILLED or
\* PARTIALLY_FILLED back to ACKED.
LateAckKeepsFill ==
    [][\A o \in Orders : order[o].status \in {"PARTIALLY_FILLED", "FILLED"} =>
                         order'[o].status # "ACKED_BY_GATEWAY"]_vars

\* docs/runtime_reliability_qualification_runbook.md, F02: an execution counts
\* once however often it comes, so the position is what the broker holds.
SellCountsOnce ==
    Quiet /\ (\A o \in Orders : order[o].side = "SELL") =>
        position >= Held - broker[1].filled

\* docs/realtime_architecture_v2.md: an unmatched fill leaves STOP_NEW_BUY.
StopNewBuyKept == "fill" \in unmatched => kill # "NORMAL"

=============================================================================
