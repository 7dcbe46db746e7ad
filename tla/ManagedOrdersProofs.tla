------------------------- MODULE ManagedOrdersProofs -------------------------
(***************************************************************************)
(* Proofs about ManagedOrders, for any number of orders, quantity, holding *)
(* and number of restarts.                                                 *)
(***************************************************************************)
EXTENDS ManagedOrders, WellFoundedInduction, TLAPS

-----------------------------------------------------------------------------
\* The inductive invariant.

AckReport == [kind : {"ack", "reject"}, order : Orders, command : Send..N,
              numbered : BOOLEAN]
FillReport == [kind : {"fill"}, order : Orders, filled : 1..Qty]
KillStates == {"NORMAL", "STOP_NEW_BUY", "REDUCE_ONLY", "KILL_SWITCH_ACTIVE"}
BothSides == {"BUY", "SELL"}

\* An order has a row.
Made(o) == o \in Orders /\ order[o].status # "ABSENT"

\* The broker filled that much of some order of the side.
FilledOn(side, qty) == \E p \in Orders : Made(p) /\ order[p].side = side /\ broker[p].filled >= qty

\* What a row of order o, or a copy of it that somebody holds, may say.
Sound(o, copy) ==
    /\ copy \in Row
    /\ copy.status # "ABSENT"
    /\ copy.side = order[o].side
    /\ copy.remaining = Qty - copy.filled
    /\ copy.status = "FILLED" => copy.filled = Qty
    /\ copy.filled > 0 => FilledOn(copy.side, copy.filled)
    /\ copy.no # 0 => Made(copy.no) /\ order[copy.no].side = copy.side

RowsOK == \A o \in Orders : IF Made(o) THEN Sound(o, order[o]) ELSE order[o] = NoRow

\* The copies the manager holds during a cycle.
Steps == {"idle", "reconcile", "timeout", "intents", "created", "queued", "refused", "cancel",
          "cancelQueued", "cancelRefused"}
Cycle == [step : Steps, kill : KillStates, order : 0..N, copy : Row,
          stale : UNION {[S -> Row] : S \in SUBSET Orders}]
InHand == {"created", "queued", "refused", "cancelQueued", "cancelRefused"}
CycleOK ==
    /\ cycle \in Cycle
    /\ cycle.step \in InHand => Made(cycle.order) /\ Sound(cycle.order, cycle.copy)
    /\ cycle.step \in {"cancelQueued", "cancelRefused"} => cycle.order \in DOMAIN cycle.stale
    /\ \A o \in DOMAIN cycle.stale : Made(o) /\ Sound(o, cycle.stale[o])

\* A report of a fill does not exceed what the broker filled.
ReportOK(r) == r.kind = "fill" => r.filled <= broker[r.order].filled
TodoOK == \A h \in Handlers : \A r \in todo[h] : ReportOK(r)

\* What was held and bought.
Bought == \E o \in Orders : order[o].side = "BUY" /\ broker[o].filled > 0
Limit == Held + (IF Bought THEN Qty ELSE 0)

\* What the threads that apply reports hold; an acknowledgement is of the row it
\* was matched with, a fill of an order of the row's side.
SavingRow == [step : {"save"}, report : Report, order : Orders, copy : Row]
AtPosition == [step : {"position"}, report : FillReport, side : BothSides]
SavingPosition == [step : {"savePosition"}, report : FillReport, side : BothSides, held : Nat]
Handler == {IdleHandler} \cup SavingRow \cup AtPosition \cup SavingPosition

Fits(r, o, copy) ==
    IF r.kind = "fill" THEN order[r.order].side = copy.side ELSE r.order = o
SavesRow(h) ==
    LET s == handler[h] IN
    /\ s \in SavingRow /\ ReportOK(s.report) /\ Made(s.order) /\ Sound(s.order, s.copy)
    /\ Fits(s.report, s.order, s.copy)
ReadsPosition(h) ==
    LET s == handler[h] IN
    s \in AtPosition /\ ReportOK(s.report) /\ order[s.report.order].side = s.side
SavesPosition(h) ==
    LET s == handler[h] IN
    /\ s \in SavingPosition /\ ReportOK(s.report) /\ order[s.report.order].side = s.side
    /\ s.held <= Limit
HandlerOK(h) == handler[h] = IdleHandler \/ SavesRow(h) \/ ReadsPosition(h) \/ SavesPosition(h)

\* An order is sent to the broker once, after it got its row.
Untouched(o) == ~broker[o].live /\ broker[o].filled = 0
BrokerOK ==
    /\ commands \subseteq everQueued
    /\ \A o \in Orders :
         LET send == Command(o, Send) IN
         /\ ~Made(o) => send \notin everQueued
         /\ send \notin everQueued \/ send \in commands => Untouched(o)
         /\ broker[o].live => broker[o].filled < Qty

OrdersInv ==
    /\ TypeOK
    /\ RowsOK
    /\ CycleOK
    /\ handler \in [Handlers -> Handler]
    /\ \A h \in Handlers : HandlerOK(h)
    /\ TodoOK
    /\ BrokerOK
    /\ position <= Limit

\* The latest report of an order's fills.
Latest(o) == [kind |-> "fill", order |-> o, filled |-> broker[o].filled]

\* What was filled of o shows on a row of its side, or one of these was
\* overwritten from a stale copy.
Shown(o) ==
    \E p \in Orders : /\ Made(p) /\ order[p].side = order[o].side
                      /\ p \in raced \/ order[p].filled >= broker[o].filled

\* Until it shows, the consumer has the report before it or in its hands.
Awaited(o) ==
    \/ Latest(o) \in todo["consumer"]
    \/ handler["consumer"].step = "save" /\ handler["consumer"].report = Latest(o)
Outstanding(o) == broker[o].filled = 0 \/ Shown(o) \/ Awaited(o)
NothingLost == "fill" \notin unmatched => \A o \in Orders : Outstanding(o)

-----------------------------------------------------------------------------
\* Facts about rows and reports.

LEMMA Constants ==
    /\ N \in Nat /\ Qty \in Nat /\ Qty >= 1 /\ Held \in Nat
    /\ Sides \subseteq BothSides /\ Recommended \subseteq KillStates /\ Numbered \subseteq BOOLEAN
  BY ConstantsAssumption DEF BothSides, KillStates

LEMMA ReportKinds ==
    ASSUME NEW r \in Report
    PROVE  /\ r.order \in Orders
           /\ r.kind = "fill" => r \in FillReport
           /\ r.kind # "fill" => r \in AckReport
  BY DEF Report, FillReport, AckReport

LEMMA FillIsReport == FillReport \subseteq Report /\ AckReport \subseteq Report
  BY DEF Report, FillReport, AckReport

LEMMA NoRowType == NoRow \in Row /\ NoRow.status = "ABSENT" /\ NoRow.filled = 0
                   /\ NoRow.command \notin Send..N /\ NoRow.no = 0 /\ NoRow.side = "BUY"
  BY Constants DEF NoRow, Row, Statuses, Pending, NoCommand, Send

LEMMA NoRowExcept ==
    ASSUME NEW side \in BothSides
    PROVE  LET row == [NoRow EXCEPT !.side = side, !.status = "PENDING_LOCAL", !.remaining = Qty]
           IN  /\ row \in Row /\ row.side = side /\ row.status = "PENDING_LOCAL"
               /\ row.filled = 0 /\ row.remaining = Qty /\ row.no = 0
  <1>1. Qty \in 0..Qty /\ "PENDING_LOCAL" \in Statuses
    BY Constants DEF Statuses, Pending
  <1> QED BY <1>1, NoRowType DEF Row, BothSides

LEMMA RowOf == ASSUME OrdersInv, NEW o \in Orders PROVE order[o] \in Row
  BY DEF OrdersInv, TypeOK

LEMMA BrokerOf ==
    ASSUME OrdersInv, NEW o \in Orders
    PROVE  /\ broker[o] \in [live : BOOLEAN, filled : 0..Qty]
           /\ broker[o].filled \in 0..Qty /\ broker[o].filled \in Nat /\ broker[o].live \in BOOLEAN
  <1>1. broker[o] \in [live : BOOLEAN, filled : 0..Qty]
    BY DEF OrdersInv, TypeOK
  <1> QED BY <1>1, Constants

\* What the broker filled has a row.
LEMMA FilledIsMade == ASSUME OrdersInv, NEW o \in Orders, broker[o].filled > 0 PROVE Made(o)
  BY BrokerOf DEF OrdersInv, BrokerOK, Untouched

LEMMA ReportedIsMade ==
    ASSUME OrdersInv, NEW r \in FillReport, ReportOK(r)
    PROVE  /\ Made(r.order) /\ r.order \in Orders /\ r.filled \in 1..Qty
           /\ broker[r.order].filled > 0
           /\ FilledOn(order[r.order].side, r.filled)
  <1>1. r.kind = "fill" /\ r.order \in Orders /\ r.filled \in 1..Qty
    BY DEF FillReport
  <1>2. r.filled <= broker[r.order].filled
    BY <1>1 DEF ReportOK
  <1>3. broker[r.order].filled > 0
    BY <1>1, <1>2, BrokerOf, Constants
  <1>4. Made(r.order)
    BY <1>1, <1>3, FilledIsMade
  <1>5. broker[r.order].filled >= r.filled
    BY <1>1, <1>2, BrokerOf, Constants
  <1> QED BY <1>1, <1>3, <1>4, <1>5 DEF FilledOn

\* handle_execution: the quantities of the new row are those of the larger of
\* what the row and the report say.
LEMMA AfterFillFacts ==
    ASSUME NEW row \in Row, NEW r \in FillReport, row.remaining = Qty - row.filled
    PROVE  LET new == AfterFill(r, row)
               filled == Larger(row.filled, r.filled)
           IN  /\ new \in Row /\ new.side = row.side
               /\ new.filled = filled /\ new.remaining = Qty - filled
               /\ new.status \in {"FILLED", "PARTIALLY_FILLED"}
               /\ new.status = "FILLED" => filled = Qty
               /\ filled \in Nat /\ filled >= row.filled /\ filled >= r.filled
               /\ filled = row.filled \/ filled = r.filled
               /\ new.no = r.order
  <1> DEFINE filled == Larger(row.filled, r.filled)
             reported == IF r.filled < Qty THEN Qty - r.filled ELSE Larger(0, Qty - filled)
             known == IF row.filled > 0 \/ row.status = "PARTIALLY_FILLED"
                      THEN Smaller(row.remaining, reported) ELSE reported
             remaining == Smaller(known, Larger(0, Qty - filled))
             status == IF remaining = 0 THEN "FILLED" ELSE "PARTIALLY_FILLED"
  <1>1. row.filled \in 0..Qty /\ row.remaining \in 0..Qty /\ r.filled \in 1..Qty /\ Qty \in Nat
    BY Constants DEF Row, FillReport
  <1>2. /\ filled \in 0..Qty /\ filled >= row.filled /\ filled >= r.filled
        /\ filled = row.filled \/ filled = r.filled
    BY <1>1 DEF Larger
  <1>3. remaining = Qty - filled
    <2>1. Larger(0, Qty - filled) = Qty - filled
      BY <1>1, <1>2 DEF Larger
    <2>2. reported \in Nat /\ reported >= Qty - filled /\ reported <= Qty
      BY <1>1, <1>2, <2>1
    <2>3. known \in Nat /\ known >= Qty - filled
      BY <1>1, <1>2, <2>2 DEF Smaller
    <2> HIDE DEF known, filled
    <2> QED BY <1>1, <1>2, <2>1, <2>3 DEF Smaller
  <1>4. AfterFill(r, row) = [row EXCEPT !.status = status, !.no = r.order, !.filled = filled,
                                        !.remaining = remaining]
    BY DEF AfterFill
  <1> HIDE DEF remaining, filled
  <1>5. remaining \in 0..Qty
    BY <1>1, <1>2, <1>3
  <1>6. status = "FILLED" => filled = Qty
    BY <1>1, <1>2, <1>3
  <1>7. status \in {"FILLED", "PARTIALLY_FILLED"} /\ status \in Statuses
    BY DEF Statuses, Pending
  <1> HIDE DEF status
  <1>8. /\ AfterFill(r, row) \in Row
        /\ AfterFill(r, row).side = row.side
        /\ AfterFill(r, row).filled = filled
        /\ AfterFill(r, row).remaining = remaining
        /\ AfterFill(r, row).status = status
        /\ AfterFill(r, row).no = r.order
    <2>1. r.order \in 0..N
      BY Constants DEF FillReport, Orders
    <2> QED BY <1>2, <1>4, <1>5, <1>7, <2>1 DEF Row
  <1> QED BY <1>1, <1>2, <1>3, <1>6, <1>7, <1>8 DEF filled

\* handle_command_ack leaves the quantities alone.
LEMMA AfterAckFacts ==
    ASSUME NEW row \in Row, NEW r \in AckReport
    PROVE  LET new == AfterAck(r, row)
           IN  /\ new \in Row /\ new.side = row.side
               /\ new.filled = row.filled /\ new.remaining = row.remaining
               /\ new.status # "ABSENT"
               /\ new.status = "FILLED" => row.status = "FILLED"
               /\ new.no \in {row.no, r.order}
  <1> DEFINE next == IF r.command # Send
                     THEN IF r.kind = "ack" THEN "CANCELLED" ELSE "RECONCILE_REQUIRED"
                     ELSE IF r.kind = "reject" THEN "REJECTED_BY_GATEWAY"
                     ELSE IF row.status \in {"PARTIALLY_FILLED", "FILLED", "CANCELLED"}
                     THEN row.status ELSE "ACKED_BY_GATEWAY"
  <1>1. next \in Statuses /\ next # "ABSENT" /\ (next = "FILLED" => row.status = "FILLED")
    BY DEF Row, Statuses, Pending
  <1> DEFINE no == IF r.numbered THEN r.order ELSE row.no
  <1>2. AfterAck(r, row) = [row EXCEPT !.status = next, !.no = no]
    BY DEF AfterAck
  <1>3. no \in 0..N /\ no \in {row.no, r.order}
    BY Constants DEF Row, AckReport, Orders
  <1> HIDE DEF next, no
  <1> QED BY <1>1, <1>2, <1>3 DEF Row

\* A row saved with another status and another command.
LEMMA StatusFacts ==
    ASSUME NEW row \in Row, NEW s \in Statuses \ {"ABSENT", "FILLED"},
           NEW c \in NoCommand..N
    PROVE  LET new == [row EXCEPT !.status = s]
               named == [row EXCEPT !.command = c, !.status = s]
               swapped == [row EXCEPT !.status = s, !.command = c]
           IN  /\ swapped = named
               /\ new \in Row /\ new.side = row.side /\ new.status = s
               /\ new.filled = row.filled /\ new.remaining = row.remaining /\ new.no = row.no
               /\ named \in Row /\ named.side = row.side /\ named.status = s
               /\ named.filled = row.filled /\ named.remaining = row.remaining
               /\ named.no = row.no
  BY DEF Row

-----------------------------------------------------------------------------
\* What stays so while orders keep their rows and sides and the broker only
\* fills.

Grows ==
    /\ \A o \in Orders : Made(o) => Made(o)' /\ order'[o].side = order[o].side
    /\ \A o \in Orders : broker[o].filled <= broker'[o].filled
    /\ broker' \in [Orders -> [live : BOOLEAN, filled : 0..Qty]]

LEMMA FilledGrows ==
    ASSUME OrdersInv, Grows, NEW o \in Orders
    PROVE  /\ broker'[o].filled \in Nat
           /\ \A q \in Nat : q <= broker[o].filled => q <= broker'[o].filled
           /\ \A q \in Nat : broker[o].filled >= q => broker'[o].filled >= q
           /\ broker[o].filled > 0 => broker'[o].filled > 0
  <1>1. broker[o].filled \in Nat
    BY BrokerOf
  <1>2. broker'[o].filled \in 0..Qty
    BY DEF Grows
  <1>3. broker[o].filled <= broker'[o].filled
    BY DEF Grows
  <1> QED BY <1>1, <1>2, <1>3, Constants

LEMMA FilledOnStays ==
    ASSUME OrdersInv, Grows, NEW side, NEW q \in Nat, FilledOn(side, q)
    PROVE  FilledOn(side, q)'
  <1>1. PICK p \in Orders : Made(p) /\ order[p].side = side /\ broker[p].filled >= q
    BY DEF FilledOn
  <1>2. Made(p)' /\ order'[p].side = side
    BY <1>1 DEF Grows
  <1>3. broker'[p].filled >= q
    BY <1>1, FilledGrows
  <1> QED BY <1>2, <1>3 DEF FilledOn

LEMMA SoundStays ==
    ASSUME OrdersInv, Grows, NEW o, Made(o), NEW copy, Sound(o, copy)
    PROVE  Made(o)' /\ Sound(o, copy)'
  <1>1. Made(o)' /\ order'[o].side = order[o].side
    BY DEF Made, Grows
  <1>2. copy.filled \in Nat
    BY Constants DEF Sound, Row
  <1>3. copy.filled > 0 => FilledOn(copy.side, copy.filled)'
    BY <1>2, FilledOnStays DEF Sound
  <1>4. copy.no # 0 => Made(copy.no)' /\ order'[copy.no].side = copy.side
    BY DEF Sound, Made, Grows
  <1> QED BY <1>1, <1>3, <1>4 DEF Sound

LEMMA CycleStays == ASSUME OrdersInv, Grows, cycle' = cycle PROVE CycleOK'
  <1>1. CycleOK
    BY DEF OrdersInv
  <1>3. \A o \in DOMAIN cycle.stale : Made(o)' /\ Sound(o, cycle.stale[o])'
    BY <1>1, SoundStays DEF CycleOK
  <1>4. cycle.step \in InHand => Made(cycle.order)' /\ Sound(cycle.order, cycle.copy)'
    BY <1>1, SoundStays DEF CycleOK
  <1> QED BY <1>1, <1>3, <1>4 DEF CycleOK

\* A new state of the cycle without rows in hand.
LEMMA IdleCycleType == IdleCycle \in Cycle /\ DOMAIN IdleCycle.stale = {}
  <1> DEFINE none == <<>>
  <1>1. DOMAIN none = {} /\ none \in [{} -> Row]
    OBVIOUS
  <1>2. IdleCycle = [step |-> "idle", kill |-> "NORMAL", order |-> 0, copy |-> NoRow, stale |-> none]
    BY DEF IdleCycle
  <1> HIDE DEF none
  <1>3. none \in UNION {[S -> Row] : S \in SUBSET Orders}
    BY <1>1
  <1>4. 0 \in 0..N
    BY Constants
  <1> QED BY <1>1, <1>2, <1>3, <1>4, NoRowType DEF Cycle, Steps, KillStates

LEMMA CycleEmpty ==
    ASSUME NEW step \in {"idle", "reconcile", "intents"}, NEW k \in KillStates,
           cycle' = [IdleCycle EXCEPT !.step = step, !.kill = k]
    PROVE  CycleOK'
  <1>1. cycle' \in Cycle /\ cycle'.step = step /\ cycle'.stale = IdleCycle.stale
    BY IdleCycleType DEF Cycle, Steps
  <1>2. DOMAIN cycle'.stale = {}
    BY <1>1, IdleCycleType
  <1> QED BY <1>1, <1>2 DEF CycleOK, InHand

\* The manager goes on with the rows it has loaded.
LEMMA GoOnOK ==
    ASSUME OrdersInv, NEW step \in {"timeout", "cancel"}, NEW next \in {"intents", "idle"},
           NEW rows \in UNION {[S -> Row] : S \in SUBSET Orders}, GoOn(step, rows, next),
           \A o \in DOMAIN rows : Made(o)' /\ Sound(o, rows[o])'
    PROVE  CycleOK'
  <1>1. cycle.kill \in KillStates
    BY DEF OrdersInv, CycleOK, Cycle
  <1>2. CASE DOMAIN rows = {}
    <2>1. cycle' = [IdleCycle EXCEPT !.step = next, !.kill = cycle.kill]
      BY <1>2 DEF GoOn
    <2> QED BY <1>1, <2>1, CycleEmpty
  <1>3. CASE DOMAIN rows # {}
    <2>1. cycle' = [IdleCycle EXCEPT !.step = step, !.kill = cycle.kill, !.stale = rows]
      BY <1>3 DEF GoOn
    <2>2. cycle' \in Cycle /\ cycle'.step = step /\ cycle'.stale = rows
      BY <1>1, <2>1, IdleCycleType DEF Cycle, Steps
    <2> QED BY <2>2 DEF CycleOK, InHand
  <1> QED BY <1>2, <1>3

LEMMA ReportStays ==
    ASSUME OrdersInv, Grows, NEW r \in Report, ReportOK(r)
    PROVE  ReportOK(r)'
  <1>1. CASE r.kind = "fill"
    <2>1. r.order \in Orders /\ r.filled \in Nat
      BY <1>1, ReportKinds, Constants DEF FillReport
    <2> QED BY <1>1, <2>1, FilledGrows DEF ReportOK
  <1>2. CASE r.kind # "fill"
    BY <1>2 DEF ReportOK
  <1> QED BY <1>1, <1>2

LEMMA ReportSideStays ==
    ASSUME OrdersInv, Grows, NEW r \in FillReport, ReportOK(r)
    PROVE  order'[r.order].side = order[r.order].side
  BY ReportedIsMade DEF Grows

LEMMA LimitFacts ==
    ASSUME OrdersInv, Grows
    PROVE  /\ Limit \in Nat /\ Limit' \in Nat /\ Limit <= Limit'
           /\ \A q \in Nat : q <= Limit => q <= Limit'
  <1>1. Bought => Bought'
    <2> SUFFICES ASSUME NEW o \in Orders, order[o].side = "BUY", broker[o].filled > 0
                 PROVE  order'[o].side = "BUY" /\ broker'[o].filled > 0
      BY DEF Bought
    <2> QED BY FilledIsMade, FilledGrows DEF Grows
  <1>2. Limit = Held + (IF Bought THEN Qty ELSE 0) /\ Limit' = Held + (IF Bought' THEN Qty ELSE 0)
    BY DEF Limit
  <1>3. Limit \in Nat /\ Limit' \in Nat
    BY <1>2, Constants
  <1>4. Limit <= Limit'
    BY <1>1, <1>2, Constants
  <1> QED BY <1>3, <1>4

LEMMA HandlerStays ==
    ASSUME OrdersInv, Grows, NEW h \in Handlers, handler'[h] = handler[h]
    PROVE  HandlerOK(h)'
  <1> DEFINE s == handler[h]
  <1>1. HandlerOK(h)
    BY DEF OrdersInv
  <1>2. CASE handler[h] = IdleHandler
    BY <1>2 DEF HandlerOK
  <1>3. CASE SavesRow(h)
    <2>1. /\ s \in SavingRow /\ ReportOK(s.report) /\ Made(s.order) /\ Sound(s.order, s.copy)
          /\ s.report \in Report /\ Fits(s.report, s.order, s.copy)
      BY <1>3 DEF SavesRow, SavingRow
    <2> HIDE DEF s
    <2>2. ReportOK(s.report)'
      BY <2>1, ReportStays DEF s
    <2>3. Made(s.order)' /\ Sound(s.order, s.copy)'
      BY <2>1, SoundStays DEF s
    <2>4. Fits(s.report, s.order, s.copy)'
      BY <2>1, ReportKinds, ReportSideStays DEF s, Fits
    <2> QED BY <2>1, <2>2, <2>3, <2>4 DEF s, HandlerOK, SavesRow
  <1>4. CASE ReadsPosition(h)
    <2>1. s \in AtPosition /\ ReportOK(s.report) /\ order[s.report.order].side = s.side
          /\ s.report \in FillReport /\ s.report \in Report
      BY <1>4, FillIsReport DEF ReadsPosition, AtPosition
    <2> HIDE DEF s
    <2>2. ReportOK(s.report)' /\ order'[s.report.order].side = s.side
      BY <2>1, ReportStays, ReportSideStays DEF s
    <2> QED BY <2>1, <2>2 DEF s, HandlerOK, ReadsPosition
  <1>5. CASE SavesPosition(h)
    <2>1. /\ s \in SavingPosition /\ ReportOK(s.report) /\ order[s.report.order].side = s.side
          /\ s.report \in FillReport /\ s.report \in Report /\ s.held \in Nat
          /\ s.held <= Limit
      BY <1>5, FillIsReport DEF SavesPosition, SavingPosition
    <2> HIDE DEF s
    <2>2. ReportOK(s.report)' /\ order'[s.report.order].side = s.side
      BY <2>1, ReportStays, ReportSideStays DEF s
    <2>3. s.held <= Limit'
      BY <2>1, LimitFacts
    <2> QED BY <2>1, <2>2, <2>3 DEF s, HandlerOK, SavesPosition
  <1> QED BY <1>1, <1>2, <1>3, <1>4, <1>5 DEF HandlerOK

-----------------------------------------------------------------------------
\* The kinds of steps.

LEMMA SameRows ==
    ASSUME OrdersInv, UNCHANGED <<order, broker>>
    PROVE  Grows /\ RowsOK' /\ order' \in [Orders -> Row]
  <1>1. Grows
    BY BrokerOf DEF Grows, Made, OrdersInv, TypeOK
  <1>2. ASSUME NEW o \in Orders PROVE IF Made(o)' THEN Sound(o, order[o])' ELSE order'[o] = NoRow
    <2>1. IF Made(o) THEN Sound(o, order[o]) ELSE order[o] = NoRow
      BY DEF OrdersInv, RowsOK
    <2>2. Made(o)' <=> Made(o)
      BY DEF Made
    <2>3. CASE Made(o)
      <3>1. Sound(o, order[o])
        BY <2>1, <2>3
      <3>2. \A copy : Sound(o, copy) => Sound(o, copy)'
        BY <1>1, <2>3, SoundStays
      <3> QED BY <2>2, <2>3, <3>1, <3>2
    <2> QED BY <2>1, <2>2, <2>3
  <1> QED BY <1>1, <1>2 DEF RowsOK, OrdersInv, TypeOK

\* A row is saved.
LEMMA SavedRow ==
    ASSUME OrdersInv, NEW o, Made(o), NEW copy, NEW new, Save(o, copy, new), Sound(o, new),
           broker' = broker
    PROVE  /\ Grows /\ RowsOK' /\ order' \in [Orders -> Row] /\ raced' \subseteq Orders
           /\ order'[o] = new /\ \A p \in Orders \ {o} : order'[p] = order[p]
  <1>1. /\ TypeOK /\ o \in Orders /\ new \in Row /\ new.status # "ABSENT" /\ new.side = order[o].side
        /\ order' = [order EXCEPT ![o] = new]
        /\ raced' \subseteq raced \cup {o}
    BY DEF OrdersInv, Made, Sound, Save
  <1>2. order' \in [Orders -> Row] /\ raced' \subseteq Orders
    BY <1>1 DEF TypeOK
  <1>3. order'[o] = new /\ \A p \in Orders \ {o} : order'[p] = order[p]
    BY <1>1 DEF TypeOK
  <1>4. \A p \in Orders : (Made(p)' <=> Made(p)) /\ order'[p].side = order[p].side
    BY <1>1, <1>3 DEF Made
  <1>5. Grows
    <2>1. \A p \in Orders : broker[p].filled <= broker'[p].filled
      BY BrokerOf
    <2> QED BY <1>1, <1>4, <2>1 DEF Grows, TypeOK
  <1>6. ASSUME NEW p \in Orders PROVE IF Made(p)' THEN Sound(p, order[p])' ELSE order'[p] = NoRow
    <2>1. IF Made(p) THEN Sound(p, order[p]) ELSE order[p] = NoRow
      BY DEF OrdersInv, RowsOK
    <2>2. \A c : Made(p) /\ Sound(p, c) => Sound(p, c)'
      BY <1>5, SoundStays
    <2>3. CASE p = o
      BY <1>3, <1>4, <2>2, <2>3
    <2>4. CASE p # o
      BY <1>3, <1>4, <2>1, <2>2, <2>4
    <2> QED BY <2>3, <2>4
  <1> QED BY <1>2, <1>3, <1>5, <1>6 DEF RowsOK

LEMMA SameBroker ==
    ASSUME OrdersInv, Grows, UNCHANGED <<broker, commands, everQueued>>
    PROVE  BrokerOK'
  <1>1. \A o \in Orders : ~Made(o)' => ~Made(o)
    BY DEF Grows
  <1> QED BY <1>1 DEF OrdersInv, BrokerOK, Untouched

LEMMA FewerReports ==
    ASSUME OrdersInv, Grows, \A h \in Handlers : todo'[h] \subseteq todo[h]
    PROVE  TodoOK'
  <1>1. \A h \in Handlers : \A r \in todo[h] : r \in Report /\ ReportOK(r)
    BY DEF OrdersInv, TypeOK, TodoOK
  <1> QED BY <1>1, ReportStays DEF TodoOK

\* A step of the manager.
LEMMA ManagerKeeps ==
    ASSUME OrdersInv, Grows, RowsOK', BrokerOK', CycleOK', order' \in [Orders -> Row],
           kill' \in KillStates, raced' \subseteq Orders, broker' = broker,
           UNCHANGED <<position, handler, aged, todo, unmatched>>
    PROVE  OrdersInv'
  <1>1. TypeOK'
    BY DEF OrdersInv, TypeOK, KillStates
  <1>2. \A h \in Handlers : HandlerOK(h)'
    BY HandlerStays
  <1>3. TodoOK'
    BY FewerReports
  <1>4. position' <= Limit'
    BY LimitFacts DEF OrdersInv, TypeOK
  <1> QED BY <1>1, <1>2, <1>3, <1>4 DEF OrdersInv

\* A step of a thread that applies reports: nothing else of the cycle, the
\* gateway and the broker changes.
LEMMA HandlerKeeps ==
    ASSUME OrdersInv, Grows, RowsOK', order' \in [Orders -> Row], raced' \subseteq Orders,
           kill' \in KillStates, unmatched' \subseteq {"ack", "reject", "fill"},
           NEW h \in Handlers, NEW new \in Handler, handler' = [handler EXCEPT ![h] = new],
           handler'[h] = new => HandlerOK(h)',
           todo' \in [Handlers -> SUBSET Report], \A g \in Handlers : todo'[g] \subseteq todo[g],
           position' \in Nat, position' <= Limit',
           UNCHANGED <<cycle, aged, broker, commands, everQueued>>
    PROVE  OrdersInv'
  <1>1. TypeOK'
    BY DEF OrdersInv, TypeOK, KillStates
  <1>2. /\ handler' \in [Handlers -> Handler] /\ handler'[h] = new
        /\ \A g \in Handlers \ {h} : handler'[g] = handler[g]
    BY DEF OrdersInv
  <1>3. \A g \in Handlers : HandlerOK(g)'
    BY <1>2, HandlerStays
  <1> QED BY <1>1, <1>2, <1>3, CycleStays, SameBroker, FewerReports DEF OrdersInv

\* A step of the gateway, the broker or the clock.
LEMMA EnvironmentKeeps ==
    ASSUME OrdersInv, Grows, RowsOK', BrokerOK', TodoOK', todo' \in [Handlers -> SUBSET Report],
           aged' \subseteq Orders,
           UNCHANGED <<order, position, kill, cycle, handler, unmatched, raced>>
    PROVE  OrdersInv'
  <1>1. TypeOK'
    BY DEF OrdersInv, TypeOK, Grows
  <1>2. \A h \in Handlers : HandlerOK(h)'
    BY HandlerStays
  <1>3. position' <= Limit'
    BY LimitFacts DEF OrdersInv, TypeOK
  <1> QED BY <1>1, <1>2, <1>3, CycleStays DEF OrdersInv

-----------------------------------------------------------------------------
\* The manager's steps keep the invariant.

LEMMA StartCycleInv == ASSUME OrdersInv, StartCycle PROVE OrdersInv'
  <1>1. PICK state \in Recommended :
           kill' = state /\ cycle' = [IdleCycle EXCEPT !.step = "reconcile", !.kill = state]
    BY DEF StartCycle
  <1>2. UNCHANGED <<order, position, handler, aged, commands, broker, everQueued, todo, unmatched, raced>>
    BY DEF StartCycle, external
  <1>3. state \in KillStates
    BY Constants
  <1>4. CycleOK'
    BY <1>1, <1>3, CycleEmpty
  <1>5. Grows /\ RowsOK' /\ order' \in [Orders -> Row] /\ BrokerOK' /\ raced' \subseteq Orders
    BY <1>2, SameRows, SameBroker DEF OrdersInv, TypeOK
  <1> QED BY <1>1, <1>2, <1>3, <1>4, <1>5, ManagerKeeps

\* A step of the manager that only changes what it has in hand.
LEMMA OnlyCycle ==
    ASSUME OrdersInv, CycleOK',
           UNCHANGED <<order, position, kill, handler, aged, commands, broker, everQueued, todo,
                       unmatched, raced>>
    PROVE  OrdersInv'
  <1>1. Grows /\ RowsOK' /\ order' \in [Orders -> Row] /\ BrokerOK'
    BY SameRows, SameBroker
  <1>2. raced' \subseteq Orders /\ kill' \in KillStates
    BY DEF OrdersInv, TypeOK, KillStates
  <1> QED BY <1>1, <1>2, ManagerKeeps

\* The manager loads rows.
LEMMA LoadedRows ==
    ASSUME OrdersInv, NEW S \in SUBSET Orders, \A o \in S : Made(o), UNCHANGED <<order, broker>>
    PROVE  LET rows == [o \in S |-> order[o]]
           IN  /\ rows \in UNION {[Z -> Row] : Z \in SUBSET Orders}
               /\ \A o \in DOMAIN rows : Made(o)' /\ Sound(o, rows[o])'
  <1> DEFINE rows == [o \in S |-> order[o]]
  <1>1. rows \in [S -> Row] /\ DOMAIN rows = S /\ \A o \in S : rows[o] = order[o]
    BY DEF OrdersInv, TypeOK
  <1> HIDE DEF rows
  <1>2. Grows
    BY SameRows
  <1>3. ASSUME NEW o \in S PROVE Made(o)' /\ Sound(o, rows[o])'
    <2>1. o \in Orders /\ Made(o) /\ Sound(o, order[o]) /\ rows[o] = order[o]
      BY <1>1 DEF OrdersInv, RowsOK
    <2>2. \A copy : Sound(o, copy) => Made(o)' /\ Sound(o, copy)'
      BY <1>2, <2>1, SoundStays
    <2>3. rows' = rows
      BY DEF rows
    <2> QED BY <2>1, <2>2, <2>3
  <1> QED BY <1>1, <1>3 DEF rows

LEMMA LoadUnacknowledgedInv == ASSUME OrdersInv, LoadUnacknowledged PROVE OrdersInv'
  <1>1. /\ GoOn("timeout", [o \in Unacknowledged |-> order[o]], "intents")
        /\ UNCHANGED <<order, position, kill, handler, aged, commands, broker, everQueued, todo,
                       unmatched, raced>>
    BY DEF LoadUnacknowledged, external
  <1>2. Unacknowledged \in SUBSET Orders /\ \A o \in Unacknowledged : Made(o)
    BY DEF OrdersInv, TypeOK, Unacknowledged, Made
  <1>3. CycleOK'
    BY <1>1, <1>2, LoadedRows, GoOnOK
  <1> QED BY <1>1, <1>3, OnlyCycle

\* NewId is the smallest absent id: there is one.
LEMMA SmallestExists ==
    ASSUME NEW T \in SUBSET Nat, T # {}
    PROVE  \E x \in T : \A y \in T : x <= y
  <1> DEFINE R == OpToRel(<, Nat)
  <1>1. IsWellFoundedOn(R, Nat)
    BY NatLessThanWellFounded
  <1>2. \A x, y \in Nat : y < x => <<y, x>> \in R
    BY DEF OpToRel
  <1> HIDE DEF R
  <1>3. PICK x \in T : \A y \in T : ~(<<y, x>> \in R)
    BY <1>1, WFMin
  <1>4. \A y \in T : ~(y < x)
    BY <1>2, <1>3
  <1>5. \A y \in T : x <= y
    BY <1>4
  <1> QED BY <1>5

LEMMA NewIdFacts ==
    ASSUME OrdersInv, \E o \in Orders : order[o].status = "ABSENT"
    PROVE  NewId \in Orders /\ order[NewId].status = "ABSENT"
  <1> DEFINE T == {o \in Orders : order[o].status = "ABSENT"}
  <1>1. T \in SUBSET Nat /\ T # {}
    BY Constants DEF Orders
  <1>2. \E o \in T : \A p \in T : o <= p
    BY <1>1, SmallestExists
  <1>3. \E o \in Orders : /\ order[o].status = "ABSENT"
                          /\ \A p \in Orders : order[p].status = "ABSENT" => o <= p
    BY <1>2
  <1> QED BY <1>3 DEF NewId

\* A row in the manager's hands is saved with another status.
LEMMA StatusSound ==
    ASSUME OrdersInv, NEW o, Made(o), NEW copy, Sound(o, copy), NEW new \in Row,
           new.side = copy.side, new.filled = copy.filled, new.remaining = copy.remaining,
           new.no \in {copy.no, o}, new.status # "ABSENT", new.status = "FILLED" => copy.status = "FILLED"
    PROVE  Sound(o, new)
  <1>1. copy.side = order[o].side /\ (copy.no # 0 => Made(copy.no) /\ order[copy.no].side = copy.side)
    BY DEF Sound
  <1> QED BY <1>1 DEF Sound

\* One of the loaded rows is done with.
LEMMA FewerRows ==
    ASSUME OrdersInv, Grows, NEW o, NEW rows, rows = Without(cycle.stale, o)
    PROVE  /\ rows \in UNION {[Z -> Row] : Z \in SUBSET Orders}
           /\ \A p \in DOMAIN rows : Made(p)' /\ Sound(p, rows[p])'
  <1>1. PICK S \in SUBSET Orders : cycle.stale \in [S -> Row]
    BY DEF OrdersInv, CycleOK, Cycle
  <1>2. /\ rows \in [S \ {o} -> Row] /\ DOMAIN rows = S \ {o} /\ DOMAIN cycle.stale = S
        /\ \A p \in S \ {o} : rows[p] = cycle.stale[p]
    BY <1>1 DEF Restrict, Without
  <1>3. ASSUME NEW p \in DOMAIN rows PROVE Made(p)' /\ Sound(p, rows[p])'
    <2>1. Made(p) /\ Sound(p, rows[p])
      BY <1>2, <1>3 DEF OrdersInv, CycleOK
    <2> QED BY <2>1, SoundStays
  <1> QED BY <1>1, <1>2, <1>3

LEMMA TimeOutOrderInv == ASSUME OrdersInv, NEW o \in Orders, TimeOutOrder(o) PROVE OrdersInv'
  <1> DEFINE copy == cycle.stale[o]
             new == [copy EXCEPT !.status = "RECONCILE_REQUIRED"]
  <1> PICK rows : rows = Without(cycle.stale, o)
    OBVIOUS
  <1>1. /\ CycleOK /\ o \in DOMAIN cycle.stale
        /\ Save(o, copy, new)
        /\ kill' = "STOP_NEW_BUY"
        /\ GoOn("timeout", rows, "intents")
        /\ UNCHANGED <<position, handler, aged, commands, broker, everQueued, todo, unmatched>>
    BY DEF OrdersInv, TimeOutOrder, external
  <1>2. Made(o) /\ Sound(o, copy) /\ copy \in Row
    BY <1>1 DEF CycleOK, Sound
  <1>3. Sound(o, new)
    <2> HIDE DEF copy
    <2>1. "RECONCILE_REQUIRED" \in Statuses \ {"ABSENT", "FILLED"} /\ NoCommand \in NoCommand..N
      BY Constants DEF Statuses, NoCommand
    <2>2. /\ new \in Row /\ new.side = copy.side /\ new.status = "RECONCILE_REQUIRED"
          /\ new.filled = copy.filled /\ new.remaining = copy.remaining /\ new.no = copy.no
      BY <1>2, <2>1, StatusFacts
    <2> QED BY <1>2, <2>2, StatusSound
  <1> HIDE DEF copy, new
  <1>4. /\ Grows /\ RowsOK' /\ order' \in [Orders -> Row] /\ raced' \subseteq Orders
    BY <1>1, <1>2, <1>3, SavedRow
  <1>5. /\ rows \in UNION {[Z -> Row] : Z \in SUBSET Orders}
        /\ \A p \in DOMAIN rows : Made(p)' /\ Sound(p, rows[p])'
    BY <1>4, FewerRows
  <1>6. CycleOK'
    BY <1>1, <1>5, GoOnOK
  <1>7. BrokerOK' /\ kill' \in KillStates
    BY <1>1, <1>4, SameBroker DEF KillStates
  <1> QED BY <1>1, <1>4, <1>6, <1>7, ManagerKeeps

LEMMA ProceedOK ==
    ASSUME OrdersInv, NEW step \in {"idle", "reconcile", "intents"}, Proceed(step)
    PROVE  CycleOK'
  <1>1. cycle.kill \in KillStates
    BY DEF OrdersInv, CycleOK, Cycle
  <1> QED BY <1>1, CycleEmpty DEF Proceed

LEMMA DecideCancelsInv == ASSUME OrdersInv, DecideCancels PROVE OrdersInv'
  <1>1. PICK due \in SUBSET Cancellable : GoOn("cancel", [o \in due |-> order[o]], "idle")
    BY DEF DecideCancels
  <1>2. UNCHANGED <<order, position, kill, handler, aged, commands, broker, everQueued, todo,
                    unmatched, raced>>
    BY DEF DecideCancels, external
  <1>3. due \in SUBSET Orders /\ \A o \in due : Made(o)
    BY DEF Cancellable, Made
  <1>4. CycleOK'
    BY <1>1, <1>2, <1>3, LoadedRows, GoOnOK
  <1> QED BY <1>2, <1>4, OnlyCycle

\* The manager takes a row in hand or goes on with it.
LEMMA CycleMoves ==
    ASSUME OrdersInv, Grows, cycle' \in Cycle, cycle'.stale = cycle.stale,
           Made(cycle.order)', Sound(cycle.order, cycle.copy)',
           cycle'.step \in {"cancelQueued", "cancelRefused"} => cycle'.order \in DOMAIN cycle.stale
    PROVE  CycleOK'
  <1>1. ASSUME NEW p \in DOMAIN cycle'.stale PROVE (Made(p) /\ Sound(p, cycle.stale[p]))'
    <2>1. Made(p) /\ Sound(p, cycle.stale[p])
      BY <1>1 DEF CycleOK, OrdersInv
    <2>2. \A c : Sound(p, c) => Made(p)' /\ Sound(p, c)'
      BY <2>1, SoundStays
    <2> QED BY <2>1, <2>2
  <1> QED BY <1>1 DEF CycleOK

LEMMA CreateOrderInv == ASSUME OrdersInv, NEW side \in Sides, CreateOrder(side) PROVE OrdersInv'
  <1> PICK o : o = NewId
    OBVIOUS
  <1> DEFINE row == [NoRow EXCEPT !.side = side, !.status = "PENDING_LOCAL",
                                  !.remaining = Qty]
  <1>1. /\ TypeOK /\ RowsOK /\ cycle \in Cycle
        /\ order' = [order EXCEPT ![o] = row]
        /\ cycle' = [cycle EXCEPT !.step = "created", !.order = o, !.copy = row]
        /\ UNCHANGED <<position, kill, handler, aged, commands, broker, everQueued, todo, unmatched,
                       raced>>
    BY DEF OrdersInv, CycleOK, CreateOrder, external
  <1>2. o \in Orders /\ order[o].status = "ABSENT" /\ o \in 0..N
    <2>1. o \in Orders /\ order[o].status = "ABSENT"
      BY NewIdFacts DEF CreateOrder
    <2> QED BY <2>1, Constants DEF Orders
  <1>3. /\ row \in Row /\ row.side = side /\ row.status = "PENDING_LOCAL" /\ row.filled = 0
        /\ row.remaining = Qty /\ row.no = 0
    BY Constants, NoRowExcept
  <1> HIDE DEF row
  <1>4. /\ order' \in [Orders -> Row] /\ order'[o] = row
        /\ \A p \in Orders \ {o} : order'[p] = order[p]
    BY <1>1, <1>2, <1>3 DEF TypeOK
  <1>5. Grows
    <2>1. \A p \in Orders : Made(p) => p # o
      BY <1>2 DEF Made
    <2>2. \A p \in Orders : Made(p) => Made(p)' /\ order'[p].side = order[p].side
      BY <1>4, <2>1 DEF Made
    <2>3. \A p \in Orders : broker[p].filled <= broker'[p].filled
      BY <1>1, BrokerOf
    <2> QED BY <1>1, <2>2, <2>3 DEF Grows, TypeOK
  <1>6. Made(o)' /\ Sound(o, row)'
    <2>1. Made(o)'
      BY <1>2, <1>3, <1>4 DEF Made
    <2>2. row.remaining = Qty - row.filled
      BY <1>3, Constants
    <2> QED BY <1>3, <1>4, <2>1, <2>2 DEF Sound
  <1>7. RowsOK'
    <2> SUFFICES ASSUME NEW p \in Orders
                 PROVE  IF Made(p)' THEN Sound(p, order[p])' ELSE order'[p] = NoRow
      BY DEF RowsOK
    <2>1. CASE p = o
      BY <1>4, <1>6, <2>1
    <2>2. CASE p # o
      <3>1. IF Made(p) THEN Sound(p, order[p]) ELSE order[p] = NoRow
        BY <1>1 DEF RowsOK
      <3>2. \A c : Made(p) /\ Sound(p, c) => Sound(p, c)'
        BY <1>5, SoundStays
      <3>3. (Made(p)' <=> Made(p)) /\ order'[p] = order[p]
        BY <1>4, <2>2 DEF Made
      <3> QED BY <3>1, <3>2, <3>3
    <2> QED BY <2>1, <2>2
  <1>8. CycleOK'
    <2>1. /\ cycle' \in Cycle /\ cycle'.stale = cycle.stale
          /\ cycle'.order = o /\ cycle'.copy = row /\ cycle'.step = "created"
      BY <1>1, <1>2, <1>3 DEF Cycle, Steps
    <2> QED BY <1>5, <1>6, <2>1, CycleMoves
  <1>9. BrokerOK' /\ kill' \in KillStates /\ raced' \subseteq Orders
    BY <1>1, <1>5, SameBroker DEF TypeOK, KillStates
  <1> QED BY <1>1, <1>4, <1>5, <1>7, <1>8, <1>9, ManagerKeeps

\* enqueue_command: a send key is accepted once, before the broker has it.
LEMMA EnqueueOK ==
    ASSUME OrdersInv, NEW o, Made(o), NEW type \in Send..N, NEW accepted \in BOOLEAN,
           Enqueue(Command(o, type), accepted), UNCHANGED <<order, broker>>
    PROVE  BrokerOK'
  <1>1. CASE ~accepted
    BY <1>1, SameRows, SameBroker DEF Enqueue
  <1>2. CASE accepted
    <2> DEFINE c == Command(o, type)
    <2>1. c \notin everQueued /\ commands' = commands \cup {c} /\ everQueued' = everQueued \cup {c}
      BY <1>2 DEF Enqueue
    <2>2. commands' \subseteq everQueued'
      BY <2>1 DEF OrdersInv, BrokerOK
    <2>3. ASSUME NEW p \in Orders
          PROVE  LET send == Command(p, Send) IN
                 /\ ~Made(p)' => send \notin everQueued'
                 /\ send \notin everQueued' \/ send \in commands' => Untouched(p)'
                 /\ broker'[p].live => broker'[p].filled < Qty
      <3> DEFINE send == Command(p, Send)
      <3>1. /\ ~Made(p) => send \notin everQueued
            /\ send \notin everQueued \/ send \in commands => Untouched(p)
            /\ broker[p].live => broker[p].filled < Qty
        BY DEF OrdersInv, BrokerOK
      <3>2. send = c => p = o
        BY DEF Command
      <3>3. (Made(p)' <=> Made(p)) /\ (Untouched(p)' <=> Untouched(p))
        BY DEF Made, Untouched
      <3> HIDE DEF send, c
      <3>4. ~Made(p)' => send \notin everQueued'
        BY <2>1, <3>1, <3>2, <3>3
      <3>5. send \notin everQueued' \/ send \in commands' => Untouched(p)'
        BY <2>1, <3>1, <3>3
      <3> QED BY <3>1, <3>4, <3>5 DEF send
    <2> QED BY <2>2, <2>3 DEF BrokerOK
  <1> QED BY <1>1, <1>2

LEMMA EnqueueOrderInv ==
    ASSUME OrdersInv, NEW accepted \in BOOLEAN, EnqueueOrder(accepted) PROVE OrdersInv'
  <1> DEFINE next == IF accepted THEN "queued" ELSE "refused"
  <1>1. /\ TypeOK /\ CycleOK /\ cycle \in Cycle /\ cycle.step = "created"
        /\ Enqueue(Command(cycle.order, Send), accepted)
        /\ cycle' = [cycle EXCEPT !.step = next]
        /\ UNCHANGED <<order, position, kill, handler, aged, broker, todo, unmatched, raced>>
    BY DEF OrdersInv, CycleOK, EnqueueOrder
  <1>2. Made(cycle.order) /\ Sound(cycle.order, cycle.copy) /\ Send \in Send..N
    BY <1>1, Constants DEF CycleOK, InHand, Send
  <1>3. Grows /\ RowsOK' /\ order' \in [Orders -> Row]
    BY <1>1, SameRows
  <1>4. BrokerOK'
    BY <1>1, <1>2, EnqueueOK
  <1>5. next \in Steps /\ next \notin {"cancelQueued", "cancelRefused"}
    BY DEF Steps
  <1> HIDE DEF next
  <1>6. /\ cycle' \in Cycle /\ cycle'.stale = cycle.stale /\ cycle'.order = cycle.order
        /\ cycle'.copy = cycle.copy /\ cycle'.step = next
    BY <1>1, <1>5 DEF Cycle
  <1>7. CycleOK'
    <2>1. \A o, c : Made(o) /\ Sound(o, c) => Made(o)' /\ Sound(o, c)'
      BY <1>3, SoundStays
    <2> QED BY <1>2, <1>3, <1>5, <1>6, <2>1, CycleMoves
  <1>8. kill' \in KillStates /\ raced' \subseteq Orders
    BY <1>1 DEF TypeOK, KillStates
  <1> QED BY <1>1, <1>3, <1>4, <1>7, <1>8, ManagerKeeps

LEMMA EnqueueCancelInv ==
    ASSUME OrdersInv, NEW o \in Orders, NEW accepted \in BOOLEAN, EnqueueCancel(o, accepted)
    PROVE  OrdersInv'
  <1> DEFINE next == IF accepted THEN "cancelQueued" ELSE "cancelRefused"
             no == cycle.stale[o].no
  <1>1. /\ TypeOK /\ RowsOK /\ CycleOK /\ cycle \in Cycle /\ o \in DOMAIN cycle.stale
        /\ Enqueue(Command(o, no), accepted)
        /\ cycle' = [cycle EXCEPT !.step = next, !.order = o, !.copy = order[o]]
        /\ UNCHANGED <<order, position, kill, handler, aged, broker, todo, unmatched, raced>>
    BY DEF OrdersInv, CycleOK, EnqueueCancel
  <1>2. Made(o) /\ o \in 0..N /\ no \in Send..N
    <2>1. Made(o) /\ cycle.stale[o] \in Row
      BY <1>1 DEF CycleOK, Sound
    <2> QED BY <2>1, Constants DEF Row, Orders, Send
  <1>3. Sound(o, order[o]) /\ order[o] \in Row
    BY <1>1, <1>2 DEF RowsOK, Sound
  <1>4. Grows /\ RowsOK' /\ order' \in [Orders -> Row]
    BY <1>1, SameRows
  <1> HIDE DEF no
  <1>5. BrokerOK'
    BY <1>1, <1>2, EnqueueOK
  <1>6. next \in Steps
    BY DEF Steps
  <1> HIDE DEF next
  <1>7. /\ cycle' \in Cycle /\ cycle'.stale = cycle.stale /\ cycle'.order = o
        /\ cycle'.copy = order[o]
    BY <1>1, <1>2, <1>3, <1>6 DEF Cycle
  <1>8. CycleOK'
    <2>1. \A p, c : Made(p) /\ Sound(p, c) => Made(p)' /\ Sound(p, c)'
      BY <1>4, SoundStays
    <2> QED BY <1>1, <1>2, <1>3, <1>4, <1>7, <2>1, CycleMoves
  <1>9. kill' \in KillStates /\ raced' \subseteq Orders
    BY <1>1 DEF TypeOK, KillStates
  <1> QED BY <1>1, <1>4, <1>5, <1>8, <1>9, ManagerKeeps

\* The manager saves the row it has in hand.
LEMMA CycleSaves ==
    ASSUME OrdersInv, NEW new \in Row, Save(cycle.order, cycle.copy, new), cycle.step \in InHand,
           new.side = cycle.copy.side, new.filled = cycle.copy.filled, new.no = cycle.copy.no,
           new.remaining = cycle.copy.remaining, new.status \notin {"ABSENT", "FILLED"},
           Grows => CycleOK',
           UNCHANGED <<position, kill, handler, aged, commands, broker, everQueued, todo, unmatched>>
    PROVE  OrdersInv'
  <1>1. Made(cycle.order) /\ Sound(cycle.order, cycle.copy)
    BY DEF OrdersInv, CycleOK
  <1>2. Sound(cycle.order, new)
    BY <1>1, StatusSound
  <1>3. /\ Grows /\ RowsOK' /\ order' \in [Orders -> Row] /\ raced' \subseteq Orders
    BY <1>1, <1>2, SavedRow
  <1>4. BrokerOK' /\ kill' \in KillStates
    BY <1>3, SameBroker DEF OrdersInv, TypeOK, KillStates
  <1> QED BY <1>3, <1>4, ManagerKeeps

LEMMA CopyType == ASSUME OrdersInv, cycle.step \in InHand PROVE cycle.copy \in Row
  BY DEF OrdersInv, CycleOK, Sound

\* What the manager makes of the row it has in hand.
LEMMA OrderSaves ==
    ASSUME OrdersInv, cycle.step \in InHand
    PROVE  LET blocked == [cycle.copy EXCEPT !.status = "COMMAND_BLOCKED_OBSERVE_ONLY"]
               sent == [cycle.copy EXCEPT !.command = Send,
                                          !.status = IF cycle.step = "queued" THEN "QUEUED_TO_GATEWAY"
                                                     ELSE "REJECTED_BY_GATEWAY"]
           IN  \A new \in {blocked, sent} :
                 /\ new \in Row /\ new.side = cycle.copy.side /\ new.status \notin {"ABSENT", "FILLED"}
                 /\ new.filled = cycle.copy.filled /\ new.remaining = cycle.copy.remaining
                 /\ new.no = cycle.copy.no
  <1> DEFINE s == IF cycle.step = "queued" THEN "QUEUED_TO_GATEWAY" ELSE "REJECTED_BY_GATEWAY"
  <1>1. /\ "COMMAND_BLOCKED_OBSERVE_ONLY" \in Statuses \ {"ABSENT", "FILLED"}
        /\ s \in Statuses \ {"ABSENT", "FILLED"}
    BY DEF Statuses, Pending
  <1>2. Send \in NoCommand..N /\ cycle.copy \in Row
    BY Constants, CopyType DEF Send, NoCommand
  <1> HIDE DEF s
  <1> DEFINE blocked == [cycle.copy EXCEPT !.status = "COMMAND_BLOCKED_OBSERVE_ONLY"]
             sent == [cycle.copy EXCEPT !.command = Send, !.status = s]
  <1>3. /\ blocked \in Row /\ blocked.side = cycle.copy.side
        /\ blocked.status = "COMMAND_BLOCKED_OBSERVE_ONLY"
        /\ blocked.filled = cycle.copy.filled /\ blocked.remaining = cycle.copy.remaining
        /\ blocked.no = cycle.copy.no
    BY <1>1, <1>2 DEF Row
  <1>4. /\ sent \in Row /\ sent.side = cycle.copy.side /\ sent.status = s
        /\ sent.filled = cycle.copy.filled /\ sent.remaining = cycle.copy.remaining
        /\ sent.no = cycle.copy.no
    <2>1. s \in Statuses /\ cycle.copy \in Row /\ Send \in NoCommand..N
      BY <1>1, <1>2
    <2> QED BY <2>1 DEF Row
  <1>5. sent = [cycle.copy EXCEPT !.command = Send,
                                  !.status = IF cycle.step = "queued" THEN "QUEUED_TO_GATEWAY"
                                             ELSE "REJECTED_BY_GATEWAY"]
    BY DEF s
  <1> HIDE DEF sent, blocked
  <1> QED BY <1>1, <1>3, <1>4, <1>5 DEF blocked

LEMMA CancelSaves ==
    ASSUME OrdersInv, cycle.step \in {"cancelQueued", "cancelRefused"}
    PROVE  LET new == IF cycle.step = "cancelQueued"
                      THEN [cycle.copy EXCEPT !.status = "CANCEL_PENDING",
                                              !.command = cycle.stale[cycle.order].no]
                      ELSE [cycle.copy EXCEPT !.status = "RECONCILE_REQUIRED"]
           IN  /\ new \in Row /\ new.side = cycle.copy.side /\ new.status \notin {"ABSENT", "FILLED"}
               /\ new.filled = cycle.copy.filled /\ new.remaining = cycle.copy.remaining
               /\ new.no = cycle.copy.no
  <1> DEFINE no == cycle.stale[cycle.order].no
  <1>1. /\ "CANCEL_PENDING" \in Statuses \ {"ABSENT", "FILLED"}
        /\ "RECONCILE_REQUIRED" \in Statuses \ {"ABSENT", "FILLED"}
    BY DEF Statuses, Pending
  <1>2. cycle.copy \in Row
    BY CopyType DEF InHand
  <1>3. no \in NoCommand..N
    <2>1. cycle.stale[cycle.order] \in Row
      BY DEF OrdersInv, CycleOK, Sound
    <2> QED BY <2>1, Constants DEF Row, NoCommand
  <1> HIDE DEF no
  <1> DEFINE asked == [cycle.copy EXCEPT !.status = "CANCEL_PENDING", !.command = no]
             refused == [cycle.copy EXCEPT !.status = "RECONCILE_REQUIRED"]
  <1>4. /\ asked \in Row /\ asked.side = cycle.copy.side /\ asked.status = "CANCEL_PENDING"
        /\ asked.filled = cycle.copy.filled /\ asked.remaining = cycle.copy.remaining
        /\ asked.no = cycle.copy.no
    BY <1>1, <1>2, <1>3 DEF Row
  <1>5. /\ refused \in Row /\ refused.side = cycle.copy.side
        /\ refused.status = "RECONCILE_REQUIRED"
        /\ refused.filled = cycle.copy.filled /\ refused.remaining = cycle.copy.remaining
        /\ refused.no = cycle.copy.no
    BY <1>1, <1>2 DEF Row
  <1>6. asked = [cycle.copy EXCEPT !.status = "CANCEL_PENDING",
                                   !.command = cycle.stale[cycle.order].no]
    BY DEF no
  <1> HIDE DEF asked
  <1>7. CASE cycle.step = "cancelQueued"
    BY <1>1, <1>4, <1>6, <1>7
  <1>8. CASE cycle.step # "cancelQueued"
    BY <1>1, <1>5, <1>8
  <1> QED BY <1>7, <1>8

LEMMA BlockOrderInv == ASSUME OrdersInv, BlockOrder PROVE OrdersInv'
  <1> DEFINE new == [cycle.copy EXCEPT !.status = "COMMAND_BLOCKED_OBSERVE_ONLY"]
  <1>1. /\ cycle.step = "created" /\ Save(cycle.order, cycle.copy, new) /\ Proceed("intents")
        /\ UNCHANGED <<position, kill, handler, aged, commands, broker, everQueued, todo, unmatched>>
    BY DEF BlockOrder, external
  <1>2. cycle.step \in InHand /\ CycleOK'
    BY <1>1, ProceedOK DEF InHand
  <1>3. /\ new \in Row /\ new.side = cycle.copy.side /\ new.status \notin {"ABSENT", "FILLED"}
        /\ new.filled = cycle.copy.filled /\ new.remaining = cycle.copy.remaining
        /\ new.no = cycle.copy.no
    BY <1>2, OrderSaves
  <1> HIDE DEF new
  <1> QED BY <1>1, <1>2, <1>3, CycleSaves

LEMMA SaveOrderInv == ASSUME OrdersInv, SaveOrder PROVE OrdersInv'
  <1> DEFINE s == IF cycle.step = "queued" THEN "QUEUED_TO_GATEWAY" ELSE "REJECTED_BY_GATEWAY"
             new == [cycle.copy EXCEPT !.command = Send, !.status = s]
  <1>1. /\ cycle.step \in {"queued", "refused"} /\ Save(cycle.order, cycle.copy, new)
        /\ Proceed("intents")
        /\ UNCHANGED <<position, kill, handler, aged, commands, broker, everQueued, todo, unmatched>>
    BY DEF SaveOrder, external
  <1>2. cycle.step \in InHand /\ CycleOK'
    BY <1>1, ProceedOK DEF InHand
  <1>3. /\ new \in Row /\ new.side = cycle.copy.side /\ new.status \notin {"ABSENT", "FILLED"}
        /\ new.filled = cycle.copy.filled /\ new.remaining = cycle.copy.remaining
        /\ new.no = cycle.copy.no
    BY <1>2, OrderSaves
  <1> HIDE DEF new
  <1> QED BY <1>1, <1>2, <1>3, CycleSaves

LEMMA SaveCancelInv == ASSUME OrdersInv, SaveCancel PROVE OrdersInv'
  <1> DEFINE new == IF cycle.step = "cancelQueued"
                    THEN [cycle.copy EXCEPT !.status = "CANCEL_PENDING",
                                            !.command = cycle.stale[cycle.order].no]
                    ELSE [cycle.copy EXCEPT !.status = "RECONCILE_REQUIRED"]
  <1> PICK rows : rows = Without(cycle.stale, cycle.order)
    OBVIOUS
  <1>1. /\ cycle.step \in {"cancelQueued", "cancelRefused"} /\ Save(cycle.order, cycle.copy, new)
        /\ GoOn("cancel", rows, "idle")
        /\ UNCHANGED <<position, kill, handler, aged, commands, broker, everQueued, todo, unmatched>>
    BY DEF SaveCancel, external
  <1>2. /\ new \in Row /\ new.side = cycle.copy.side /\ new.status \notin {"ABSENT", "FILLED"}
        /\ new.filled = cycle.copy.filled /\ new.remaining = cycle.copy.remaining
        /\ new.no = cycle.copy.no
    BY <1>1, CancelSaves
  <1>3. cycle.step \in InHand
    BY <1>1 DEF InHand
  <1>4. ASSUME Grows PROVE CycleOK'
    <2>1. /\ rows \in UNION {[Z -> Row] : Z \in SUBSET Orders}
          /\ \A p \in DOMAIN rows : Made(p)' /\ Sound(p, rows[p])'
      BY <1>4, FewerRows
    <2> QED BY <1>1, <2>1, GoOnOK
  <1> HIDE DEF new
  <1> QED BY <1>1, <1>2, <1>3, <1>4, CycleSaves

-----------------------------------------------------------------------------
\* The threads that apply reports keep the invariant.

\* A report is matched with an order that has a row; a fill with an order of
\* the side of its own order.
LEMMA MatchFacts ==
    ASSUME OrdersInv, NEW r \in Report, ReportOK(r), NEW o \in Matches(r)
    PROVE  Made(o) /\ o \in Orders /\ Sound(o, order[o]) /\ Fits(r, o, order[o])
  <1> DEFINE named == {p \in Orders : order[p].no = r.order}
             open == {p \in Orders :
                        /\ order[p].side = order[r.order].side
                        /\ order[p].status \in {"QUEUED_TO_GATEWAY", "ACKED_BY_GATEWAY",
                                                "PARTIALLY_FILLED"}}
  <1>1. r.order \in Orders /\ r.order # 0
    BY ReportKinds, Constants DEF Orders
  <1>2. ASSUME NEW p \in Orders, order[p] # NoRow PROVE Made(p) /\ Sound(p, order[p])
    BY <1>2 DEF OrdersInv, RowsOK
  <1>3. CASE r.kind # "fill"
    <2>1. o \in Orders /\ o = r.order /\ order[o].command = r.command /\ r.command \in Send..N
      BY <1>3, ReportKinds DEF Matches, AckReport
    <2>2. order[o] # NoRow
      BY <2>1, NoRowType
    <2> QED BY <1>2, <1>3, <2>1, <2>2 DEF Fits
  <1>4. CASE r.kind = "fill"
    <2>1. o \in named \cup open
      BY <1>4 DEF Matches, LatestOf
    <2>2. CASE o \in named
      <3>1. o \in Orders /\ order[o].no = r.order
        BY <2>2
      <3>2. Made(o) /\ Sound(o, order[o])
        BY <1>1, <1>2, <3>1, NoRowType
      <3> QED BY <1>1, <1>4, <3>1, <3>2 DEF Sound, Fits
    <2>3. CASE o \in open
      <3>1. o \in Orders /\ order[o].side = order[r.order].side /\ order[o] # NoRow
        BY <2>3, NoRowType
      <3> QED BY <1>2, <1>4, <3>1 DEF Fits
    <2> QED BY <2>1, <2>2, <2>3
  <1> QED BY <1>3, <1>4

LEMMA SameHandlerFacts ==
    ASSUME OrdersInv, UNCHANGED <<order, broker, position, kill, unmatched, raced>>
    PROVE  /\ Grows /\ RowsOK' /\ order' \in [Orders -> Row] /\ raced' \subseteq Orders
           /\ kill' \in KillStates /\ unmatched' \subseteq {"ack", "reject", "fill"}
           /\ position' \in Nat /\ position' <= Limit'
  <1>1. Grows /\ RowsOK' /\ order' \in [Orders -> Row]
    BY SameRows
  <1>2. /\ raced' \subseteq Orders /\ kill' \in KillStates
        /\ unmatched' \subseteq {"ack", "reject", "fill"} /\ position' \in Nat /\ position <= Limit
    BY DEF OrdersInv, TypeOK, KillStates
  <1>3. position' <= Limit'
    BY <1>1, <1>2, LimitFacts
  <1> QED BY <1>1, <1>2, <1>3

LEMMA TakenReport ==
    ASSUME OrdersInv, NEW h \in Handlers, NEW r \in todo[h], todo' = [todo EXCEPT ![h] = @ \ {r}]
    PROVE  /\ r \in Report /\ ReportOK(r)
           /\ todo' \in [Handlers -> SUBSET Report]
           /\ \A g \in Handlers : todo'[g] \subseteq todo[g]
  BY DEF OrdersInv, TypeOK, TodoOK

LEMMA LoadOrderInv ==
    ASSUME OrdersInv, NEW h \in Handlers, NEW r \in todo[h], LoadOrder(h, r) PROVE OrdersInv'
  <1>1. /\ todo' = [todo EXCEPT ![h] = @ \ {r}]
        /\ UNCHANGED <<order, position, kill, cycle, aged, commands, broker, everQueued, unmatched,
                       raced>>
    BY DEF LoadOrder, external
  <1>2. PICK o \in Matches(r) :
           handler' = [handler EXCEPT ![h] = [step |-> "save", report |-> r, order |-> o,
                                              copy |-> order[o]]]
    BY DEF LoadOrder
  <1>3. /\ r \in Report /\ ReportOK(r) /\ todo' \in [Handlers -> SUBSET Report]
        /\ \A g \in Handlers : todo'[g] \subseteq todo[g]
    BY <1>1, TakenReport
  <1>4. Made(o) /\ o \in Orders /\ Sound(o, order[o]) /\ Fits(r, o, order[o])
    BY <1>3, MatchFacts
  <1> DEFINE new == [step |-> "save", report |-> r, order |-> o, copy |-> order[o]]
  <1>5. new \in SavingRow /\ new \in Handler
    <2>1. order[o] \in Row
      BY <1>4 DEF Sound
    <2> QED BY <1>3, <1>4, <2>1 DEF SavingRow, Handler
  <1>6. new.report = r /\ new.order = o /\ new.copy = order[o]
    OBVIOUS
  <1> HIDE DEF new
  <1>7. /\ Grows /\ RowsOK' /\ order' \in [Orders -> Row] /\ raced' \subseteq Orders
        /\ kill' \in KillStates /\ unmatched' \subseteq {"ack", "reject", "fill"}
        /\ position' \in Nat /\ position' <= Limit'
    BY <1>1, SameHandlerFacts
  <1>8. ASSUME handler'[h] = new PROVE HandlerOK(h)'
    <2>1. ReportOK(r)'
      BY <1>3, <1>7, ReportStays
    <2>2. \A c : Sound(o, c) => Made(o)' /\ Sound(o, c)'
      BY <1>4, <1>7, SoundStays
    <2>4. Fits(r, o, order[o])'
      BY <1>1, <1>4 DEF Fits
    <2>5. SavesRow(h)'
      BY <1>1, <1>4, <1>5, <1>6, <1>8, <2>1, <2>2, <2>4 DEF SavesRow
    <2> QED BY <2>5 DEF HandlerOK
  <1>9. handler' = [handler EXCEPT ![h] = new]
    BY <1>2 DEF new
  <1> QED BY <1>1, <1>3, <1>5, <1>7, <1>8, <1>9, HandlerKeeps

LEMMA NoOrderFoundInv ==
    ASSUME OrdersInv, NEW h \in Handlers, NEW r \in todo[h], NoOrderFound(h, r) PROVE OrdersInv'
  <1>1. /\ TypeOK /\ handler \in [Handlers -> Handler] /\ position <= Limit
        /\ todo' = [todo EXCEPT ![h] = @ \ {r}]
        /\ UNCHANGED <<order, position, cycle, handler, aged, commands, broker, everQueued, raced>>
    BY DEF NoOrderFound, external, OrdersInv
  <1>2. /\ r \in Report /\ todo' \in [Handlers -> SUBSET Report]
        /\ \A g \in Handlers : todo'[g] \subseteq todo[g]
    BY <1>1, TakenReport
  <1>3. r.kind \in {"ack", "reject", "fill"}
    BY <1>2 DEF Report
  <1>4. kill' \in KillStates /\ unmatched' \subseteq {"ack", "reject", "fill"}
    BY <1>1, <1>3 DEF NoOrderFound, TypeOK, KillStates
  <1>5. Grows /\ RowsOK' /\ order' \in [Orders -> Row]
    BY <1>1, SameRows
  <1>6. position' \in Nat /\ position' <= Limit' /\ raced' \subseteq Orders
    BY <1>1, <1>5, LimitFacts DEF TypeOK
  <1>7. handler[h] \in Handler /\ handler' = [handler EXCEPT ![h] = handler[h]] /\ HandlerOK(h)'
    BY <1>1, <1>5, HandlerStays
  <1> QED BY <1>1, <1>2, <1>4, <1>5, <1>6, <1>7, HandlerKeeps

\* What the row becomes says no more than row and report did.
LEMMA AfterSound ==
    ASSUME OrdersInv, NEW o, Made(o), NEW copy, Sound(o, copy), NEW r \in Report, ReportOK(r),
           Fits(r, o, copy)
    PROVE  Sound(o, After(r, copy)) /\ After(r, copy).filled >= copy.filled
  <1>1. copy \in Row /\ copy.remaining = Qty - copy.filled /\ copy.filled \in Nat
    BY Constants DEF Sound, Row
  <1>2. CASE r.kind # "fill"
    <2> DEFINE new == AfterAck(r, copy)
    <2>1. r \in AckReport /\ r.order = o
      BY <1>2, ReportKinds DEF Fits
    <2>2. /\ new \in Row /\ new.side = copy.side
          /\ new.filled = copy.filled /\ new.remaining = copy.remaining
          /\ new.status # "ABSENT"
          /\ new.status = "FILLED" => copy.status = "FILLED"
          /\ new.no \in {copy.no, o}
      BY <1>1, <2>1, AfterAckFacts
    <2>3. After(r, copy) = new
      BY <1>2 DEF After
    <2> HIDE DEF new
    <2>4. Sound(o, new)
      BY <2>2, StatusSound
    <2> QED BY <1>1, <2>2, <2>3, <2>4
  <1>3. CASE r.kind = "fill"
    <2> DEFINE new == AfterFill(r, copy)
               filled == Larger(copy.filled, r.filled)
    <2>1. r \in FillReport /\ order[r.order].side = copy.side
      BY <1>3, ReportKinds DEF Fits
    <2>2. /\ new \in Row /\ new.side = copy.side
          /\ new.filled = filled /\ new.remaining = Qty - filled
          /\ new.status \in {"FILLED", "PARTIALLY_FILLED"}
          /\ new.status = "FILLED" => filled = Qty
          /\ filled \in Nat /\ filled >= copy.filled /\ filled >= r.filled
          /\ filled = copy.filled \/ filled = r.filled
          /\ new.no = r.order
      BY <1>1, <2>1, AfterFillFacts
    <2>3. After(r, copy) = new
      BY <1>3 DEF After
    <2> HIDE DEF new, filled
    <2>4. FilledOn(copy.side, r.filled) /\ Made(r.order)
      BY <2>1, ReportedIsMade
    <2>5. new.filled > 0 => FilledOn(new.side, new.filled)
      BY <2>2, <2>4 DEF Sound
    <2>6. Sound(o, new)
      BY <2>1, <2>2, <2>4, <2>5 DEF Sound
    <2> QED BY <2>2, <2>3, <2>6
  <1> QED BY <1>2, <1>3

LEMMA SaveReportInv == ASSUME OrdersInv, NEW h \in Handlers, SaveReport(h) PROVE OrdersInv'
  <1> PICK s : s = handler[h]
    OBVIOUS
  <1> DEFINE new == IF s.report.kind = "fill"
                    THEN [step |-> "position", report |-> s.report, side |-> s.copy.side]
                    ELSE IdleHandler
  <1>1. /\ s.step = "save" /\ Save(s.order, s.copy, After(s.report, s.copy))
        /\ handler' = [handler EXCEPT ![h] = new]
        /\ UNCHANGED <<position, kill, cycle, aged, commands, broker, everQueued, todo, unmatched>>
    BY DEF SaveReport, external
  <1>2. SavesRow(h)
    <2>1. HandlerOK(h)
      BY DEF OrdersInv
    <2> QED BY <1>1, <2>1 DEF HandlerOK, IdleHandler, ReadsPosition, SavesPosition, AtPosition,
                              SavingPosition
  <1>3. /\ s \in SavingRow /\ s.report \in Report /\ ReportOK(s.report)
        /\ Made(s.order) /\ Sound(s.order, s.copy) /\ s.copy \in Row
        /\ Fits(s.report, s.order, s.copy)
    BY <1>2 DEF SavesRow, SavingRow
  <1>4. Sound(s.order, After(s.report, s.copy))
    BY <1>3, AfterSound
  <1>5. Grows /\ RowsOK' /\ order' \in [Orders -> Row] /\ raced' \subseteq Orders
    BY <1>1, <1>3, <1>4, SavedRow
  <1>6. /\ TypeOK /\ position <= Limit /\ handler \in [Handlers -> Handler]
    BY DEF OrdersInv
  <1>7. /\ position' \in Nat /\ position' <= Limit' /\ kill' \in KillStates
        /\ unmatched' \subseteq {"ack", "reject", "fill"} /\ todo' \in [Handlers -> SUBSET Report]
        /\ \A g \in Handlers : todo'[g] \subseteq todo[g]
    BY <1>1, <1>5, <1>6, LimitFacts DEF TypeOK, KillStates
  <1>8. new \in Handler /\ (handler'[h] = new => HandlerOK(h)')
    <2>1. CASE s.report.kind # "fill"
      BY <2>1 DEF Handler, HandlerOK
    <2>2. CASE s.report.kind = "fill"
      <3>1. s.report \in FillReport /\ s.copy.side \in BothSides
        BY <1>3, <2>2, ReportKinds DEF Row, BothSides
      <3>2. new \in AtPosition /\ new.report = s.report /\ new.side = s.copy.side
        BY <2>2, <3>1 DEF AtPosition
      <3>3. ReportOK(s.report)' /\ order'[s.report.order].side = s.copy.side
        BY <1>3, <1>5, <2>2, <3>1, ReportStays, ReportSideStays DEF Fits
      <3> HIDE DEF new
      <3>4. handler'[h] = new => ReadsPosition(h)'
        BY <3>2, <3>3 DEF ReadsPosition
      <3> QED BY <3>2, <3>4 DEF Handler, HandlerOK
    <2> QED BY <2>1, <2>2
  <1> HIDE DEF new
  <1> QED BY <1>1, <1>5, <1>7, <1>8, HandlerKeeps

LEMMA LoadPositionInv == ASSUME OrdersInv, NEW h \in Handlers, LoadPosition(h) PROVE OrdersInv'
  <1> PICK s : s = handler[h]
    OBVIOUS
  <1> DEFINE new == [step |-> "savePosition", report |-> s.report, side |-> s.side, held |-> position]
  <1>1. /\ TypeOK /\ position <= Limit /\ handler \in [Handlers -> Handler] /\ HandlerOK(h)
        /\ s.step = "position"
        /\ UNCHANGED <<order, position, kill, cycle, aged, commands, broker, everQueued, todo,
                       unmatched, raced>>
    BY DEF LoadPosition, external, OrdersInv
  <1>2. handler' = [handler EXCEPT ![h] = new]
    BY <1>1 DEF LoadPosition
  <1>3. ReadsPosition(h)
    BY <1>1 DEF HandlerOK, IdleHandler, SavesRow, SavesPosition, SavingRow, SavingPosition
  <1>4. /\ s.report \in FillReport /\ s.report \in Report /\ ReportOK(s.report) /\ s.side \in BothSides
        /\ order[s.report.order].side = s.side
    BY <1>3, FillIsReport DEF ReadsPosition, AtPosition
  <1>5. /\ Grows /\ RowsOK' /\ order' \in [Orders -> Row] /\ raced' \subseteq Orders
        /\ kill' \in KillStates /\ unmatched' \subseteq {"ack", "reject", "fill"}
        /\ position' \in Nat /\ position' <= Limit'
    BY <1>1, SameHandlerFacts
  <1>6. /\ new \in SavingPosition /\ new.report = s.report /\ new.side = s.side /\ new.held = position
    BY <1>1, <1>4 DEF SavingPosition, TypeOK
  <1>7. ReportOK(s.report)' /\ order'[s.report.order].side = s.side
    BY <1>1, <1>4, <1>5, ReportStays
  <1>8. new.held <= Limit'
    BY <1>1, <1>5, <1>6
  <1>9. new \in Handler
    BY <1>6 DEF Handler
  <1> HIDE DEF new
  <1>10. ASSUME handler'[h] = new PROVE HandlerOK(h)'
    <2>1. SavesPosition(h)'
      BY <1>6, <1>7, <1>10, <1>5, <1>1 DEF SavesPosition
    <2> QED BY <2>1 DEF HandlerOK
  <1>11. todo' \in [Handlers -> SUBSET Report] /\ \A g \in Handlers : todo'[g] \subseteq todo[g]
    BY <1>1 DEF TypeOK
  <1> QED BY <1>1, <1>2, <1>5, <1>9, <1>10, <1>11, HandlerKeeps

LEMMA SavePositionInv == ASSUME OrdersInv, NEW h \in Handlers, SavePosition(h) PROVE OrdersInv'
  <1> PICK s : s = handler[h]
    OBVIOUS
  <1>1. /\ TypeOK /\ HandlerOK(h) /\ handler \in [Handlers -> Handler]
        /\ s.step = "savePosition"
        /\ position' = NewPosition(s.side, s.held, s.report.filled)
        /\ handler' = [handler EXCEPT ![h] = IdleHandler]
        /\ UNCHANGED <<order, kill, cycle, aged, commands, broker, everQueued, todo, unmatched, raced>>
    BY DEF SavePosition, external, OrdersInv
  <1>2. SavesPosition(h)
    BY <1>1 DEF HandlerOK, IdleHandler, SavesRow, ReadsPosition, SavingRow, AtPosition
  <1>3. /\ s.report \in FillReport /\ ReportOK(s.report) /\ s.side \in BothSides
        /\ order[s.report.order].side = s.side /\ s.held \in Nat /\ s.held <= Limit
    BY <1>2 DEF SavesPosition, SavingPosition
  <1>4. /\ s.report.order \in Orders /\ s.report.filled \in 1..Qty
        /\ broker[s.report.order].filled > 0
    BY <1>3, ReportedIsMade
  <1>5. Grows /\ RowsOK' /\ order' \in [Orders -> Row]
    BY <1>1, SameRows
  <1>6. Limit \in Nat /\ Limit' \in Nat /\ Limit <= Limit'
    BY <1>5, LimitFacts
  <1>7. position' \in Nat /\ position' <= Limit
    <2>1. CASE s.side = "BUY"
      <3>1. Bought
        BY <1>3, <1>4, <2>1 DEF Bought
      <3>2. Limit = Held + Qty
        BY <3>1 DEF Limit
      <3>3. position' = Larger(s.held, s.report.filled)
        BY <1>1, <2>1 DEF NewPosition
      <3> QED BY <1>3, <1>4, <3>2, <3>3, Constants DEF Larger
    <2>2. CASE s.side # "BUY"
      <3>1. position' = Larger(0, s.held - s.report.filled)
        BY <1>1, <2>2 DEF NewPosition
      <3> QED BY <1>3, <1>4, <1>6, <3>1, Constants DEF Larger
    <2> QED BY <2>1, <2>2
  <1>8. position' <= Limit'
    BY <1>6, <1>7
  <1>9. /\ raced' \subseteq Orders /\ kill' \in KillStates
        /\ unmatched' \subseteq {"ack", "reject", "fill"} /\ todo' \in [Handlers -> SUBSET Report]
        /\ \A g \in Handlers : todo'[g] \subseteq todo[g]
    BY <1>1 DEF TypeOK, KillStates
  <1>10. IdleHandler \in Handler /\ (handler'[h] = IdleHandler => HandlerOK(h)')
    BY DEF Handler, HandlerOK
  <1> QED BY <1>1, <1>5, <1>7, <1>8, <1>9, <1>10, HandlerKeeps

-----------------------------------------------------------------------------
\* The environment's steps keep the invariant.

LEMMA PublishFacts ==
    ASSUME OrdersInv, Grows, NEW r \in Report, ReportOK(r)', Publish(r)
    PROVE  TodoOK' /\ todo' \in [Handlers -> SUBSET Report]
  <1>1. todo \in [Handlers -> SUBSET Report] /\ todo' = [h \in Handlers |-> todo[h] \cup {r}]
    BY DEF OrdersInv, TypeOK, Publish
  <1>2. todo' \in [Handlers -> SUBSET Report]
    BY <1>1
  <1>3. ASSUME NEW h \in Handlers, NEW x \in todo'[h] PROVE ReportOK(x)'
    <2>1. CASE x = r
      BY <2>1
    <2>2. CASE x # r
      <3>1. x \in todo[h] /\ x \in Report
        BY <1>1, <1>3, <2>2
      <3>2. ReportOK(x)
        BY <3>1 DEF OrdersInv, TodoOK
      <3> QED BY <3>1, <3>2, ReportStays
    <2> QED BY <2>1, <2>2
  <1> QED BY <1>2, <1>3 DEF TodoOK

\* The rows stay sound when only the broker changes.
LEMMA RowsStay == ASSUME OrdersInv, Grows, order' = order PROVE RowsOK'
  <1> SUFFICES ASSUME NEW p \in Orders
               PROVE  IF Made(p)' THEN Sound(p, order[p])' ELSE order'[p] = NoRow
    BY DEF RowsOK
  <1>1. IF Made(p) THEN Sound(p, order[p]) ELSE order[p] = NoRow
    BY DEF OrdersInv, RowsOK
  <1>2. \A c : Made(p) /\ Sound(p, c) => Sound(p, c)'
    BY SoundStays
  <1>3. (Made(p)' <=> Made(p)) /\ order'[p] = order[p]
    BY DEF Made
  <1> QED BY <1>1, <1>2, <1>3

LEMMA PlaceOrderInv == ASSUME OrdersInv, NEW o \in Orders, PlaceOrder(o) PROVE OrdersInv'
  <1> DEFINE send == Command(o, Send)
  <1>1. /\ TypeOK /\ BrokerOK /\ send \in commands /\ commands' = commands \ {send}
        /\ UNCHANGED <<order, position, kill, cycle, handler, aged, everQueued, unmatched, raced>>
    BY DEF PlaceOrder, OrdersInv
  <1>2. PICK kind \in {"ack", "reject"}, numbered \in Numbered :
           /\ Publish([kind |-> kind, order |-> o, command |-> Send, numbered |-> numbered])
           /\ broker' = [broker EXCEPT ![o].live = (kind = "ack")]
    BY DEF PlaceOrder
  <1> DEFINE r == [kind |-> kind, order |-> o, command |-> Send, numbered |-> numbered]
  <1>3. r \in Report /\ r.kind # "fill"
    <2>1. numbered \in BOOLEAN /\ Send \in Send..N
      BY Constants DEF Send
    <2> QED BY <2>1 DEF Report
  <1> HIDE DEF r, send
  <1>4. /\ broker' \in [Orders -> [live : BOOLEAN, filled : 0..Qty]]
        /\ \A p \in Orders : broker'[p].filled = broker[p].filled
        /\ \A p \in Orders \ {o} : broker'[p] = broker[p]
    <2>1. broker[o] \in [live : BOOLEAN, filled : 0..Qty] /\ (kind = "ack") \in BOOLEAN
      BY BrokerOf
    <2>2. [broker[o] EXCEPT !.live = (kind = "ack")] \in [live : BOOLEAN, filled : 0..Qty]
          /\ [broker[o] EXCEPT !.live = (kind = "ack")].filled = broker[o].filled
      BY <2>1
    <2> QED BY <1>1, <1>2, <2>1, <2>2 DEF TypeOK
  <1>5. Grows
    BY <1>1, <1>4, BrokerOf DEF Grows, Made
  <1>6. RowsOK'
    BY <1>1, <1>5, RowsStay
  <1>7. TodoOK' /\ todo' \in [Handlers -> SUBSET Report]
    <2>1. ReportOK(r)' /\ Publish(r)
      BY <1>2, <1>3 DEF ReportOK, r
    <2> QED BY <1>3, <1>5, <2>1, PublishFacts
  <1>8. BrokerOK'
    <2>1. commands' \subseteq everQueued'
      BY <1>1 DEF BrokerOK
    <2>2. ASSUME NEW p \in Orders
          PROVE  /\ ~Made(p)' => Command(p, Send) \notin everQueued'
                 /\ \/ Command(p, Send) \notin everQueued'
                    \/ Command(p, Send) \in commands'
                    => Untouched(p)'
                 /\ broker'[p].live => broker'[p].filled < Qty
      <3>1. /\ ~Made(p) => Command(p, Send) \notin everQueued
            /\ Command(p, Send) \notin everQueued \/ Command(p, Send) \in commands => Untouched(p)
            /\ broker[p].live => broker[p].filled < Qty
        BY <1>1 DEF BrokerOK
      <3>2. Made(p)' <=> Made(p)
        BY <1>1 DEF Made
      <3>3. CASE p = o
        <4>1. send \in everQueued /\ send \notin commands' /\ broker[o].filled = 0 /\ Made(o)
          BY <1>1, <3>1, <3>3 DEF BrokerOK, Untouched, send
        <4>2. broker'[o].filled < Qty
          BY <1>4, <4>1, Constants
        <4> QED BY <1>1, <3>2, <3>3, <4>1, <4>2 DEF send
      <3>4. CASE p # o
        <4>1. broker'[p] = broker[p]
          BY <1>4, <3>4
        <4>2. Untouched(p)' <=> Untouched(p)
          BY <4>1 DEF Untouched
        <4> QED BY <1>1, <3>1, <3>2, <4>1, <4>2
      <3> QED BY <3>3, <3>4
    <2> QED BY <2>1, <2>2 DEF BrokerOK
  <1>9. aged' \subseteq Orders
    BY <1>1 DEF TypeOK
  <1> QED BY <1>1, <1>5, <1>6, <1>7, <1>8, <1>9, EnvironmentKeeps

\* The broker changes an order that was sent.
LEMMA LiveOrderChanges ==
    ASSUME OrdersInv, NEW o \in Orders, broker[o].live, order' = order,
           NEW new \in [live : BOOLEAN, filled : 0..Qty], broker' = [broker EXCEPT ![o] = new],
           new.filled >= broker[o].filled, new.live => new.filled < Qty,
           UNCHANGED <<commands, everQueued>>
    PROVE  Grows /\ BrokerOK' /\ broker'[o] = new
  <1>1. TypeOK /\ BrokerOK
    BY DEF OrdersInv
  <1>2. broker'[o] = new /\ \A p \in Orders \ {o} : broker'[p] = broker[p]
    BY <1>1 DEF TypeOK
  <1>3. Grows
    <2>1. \A p \in Orders : broker[p].filled <= broker'[p].filled
      BY <1>2, BrokerOf, Constants
    <2>2. broker' \in [Orders -> [live : BOOLEAN, filled : 0..Qty]]
      BY <1>1 DEF TypeOK
    <2> QED BY <2>1, <2>2 DEF Grows, Made
  <1>4. ASSUME NEW p \in Orders
        PROVE  /\ ~Made(p)' => Command(p, Send) \notin everQueued'
               /\ \/ Command(p, Send) \notin everQueued'
                  \/ Command(p, Send) \in commands'
                  => Untouched(p)'
               /\ broker'[p].live => broker'[p].filled < Qty
    <2>1. /\ ~Made(p) => Command(p, Send) \notin everQueued
          /\ Command(p, Send) \notin everQueued \/ Command(p, Send) \in commands => Untouched(p)
          /\ broker[p].live => broker[p].filled < Qty
          /\ Made(p)' <=> Made(p)
      BY <1>1 DEF BrokerOK, Made
    <2>2. CASE p = o
      BY <1>2, <2>1, <2>2 DEF Untouched
    <2>3. CASE p # o
      BY <1>2, <2>1, <2>3 DEF Untouched
    <2> QED BY <2>2, <2>3
  <1> QED BY <1>1, <1>2, <1>3, <1>4 DEF BrokerOK

LEMMA FillOrderInv == ASSUME OrdersInv, NEW o \in Orders, FillOrder(o) PROVE OrdersInv'
  <1> PICK filled : filled = broker[o].filled + 1
    OBVIOUS
  <1> DEFINE live == filled < Qty
             new == [live |-> live, filled |-> filled]
             r == [kind |-> "fill", order |-> o, filled |-> filled]
  <1>1. /\ TypeOK /\ BrokerOK /\ broker[o].live /\ broker' = [broker EXCEPT ![o] = new]
        /\ Publish(r)
        /\ UNCHANGED <<order, position, kill, cycle, handler, aged, commands, everQueued, unmatched,
                       raced>>
    BY DEF FillOrder, OrdersInv
  <1>2. filled \in 1..Qty /\ filled \in 0..Qty /\ filled >= broker[o].filled /\ filled <= filled
    BY <1>1, BrokerOf, Constants DEF BrokerOK
  <1>3. /\ new \in [live : BOOLEAN, filled : 0..Qty] /\ new.filled = filled
        /\ new.live => new.filled < Qty
    <2>1. live \in BOOLEAN /\ (live => filled < Qty)
      OBVIOUS
    <2> HIDE DEF live
    <2>2. new \in [live : BOOLEAN, filled : 0..Qty] /\ new.filled = filled /\ new.live = live
      BY <1>2, <2>1
    <2> QED BY <2>1, <2>2
  <1>4. r \in Report /\ r.order = o /\ r.filled = filled
    BY <1>2 DEF Report
  <1> HIDE DEF new, r
  <1>5. Grows /\ BrokerOK' /\ broker'[o] = new
    BY <1>1, <1>2, <1>3, LiveOrderChanges
  <1>6. ReportOK(r)'
    BY <1>2, <1>3, <1>4, <1>5 DEF ReportOK
  <1>7. TodoOK' /\ todo' \in [Handlers -> SUBSET Report]
    BY <1>1, <1>4, <1>5, <1>6, PublishFacts
  <1>8. RowsOK' /\ aged' \subseteq Orders
    BY <1>1, <1>5, RowsStay DEF TypeOK
  <1> QED BY <1>1, <1>5, <1>7, <1>8, EnvironmentKeeps

LEMMA CancelOrderInv == ASSUME OrdersInv, NEW o \in Orders, CancelOrder(o) PROVE OrdersInv'
  <1> DEFINE new == [broker[o] EXCEPT !.live = FALSE]
  <1>1. /\ TypeOK /\ broker[o].live /\ broker' = [broker EXCEPT ![o].live = FALSE]
        /\ UNCHANGED <<order, position, kill, cycle, handler, aged, commands, everQueued, todo,
                       unmatched, raced>>
    BY DEF CancelOrder, OrdersInv
  <1>2. broker[o] \in [live : BOOLEAN, filled : 0..Qty] /\ broker[o].filled \in Nat
    BY BrokerOf
  <1>3. /\ new \in [live : BOOLEAN, filled : 0..Qty] /\ new.filled = broker[o].filled /\ ~new.live
        /\ broker' = [broker EXCEPT ![o] = new]
    BY <1>1, <1>2 DEF TypeOK
  <1> HIDE DEF new
  <1>4. new.filled >= broker[o].filled
    BY <1>2, <1>3
  <1>5. Grows /\ BrokerOK'
    BY <1>1, <1>3, <1>4, LiveOrderChanges
  <1>6. TodoOK' /\ todo' \in [Handlers -> SUBSET Report]
    BY <1>1, <1>5, FewerReports DEF TypeOK
  <1>7. RowsOK' /\ aged' \subseteq Orders
    BY <1>1, <1>5, RowsStay DEF TypeOK
  <1> QED BY <1>1, <1>5, <1>6, <1>7, EnvironmentKeeps

LEMMA SubmitCancelInv ==
    ASSUME OrdersInv, NEW o \in Orders, NEW no \in Orders, SubmitCancel(o, no) PROVE OrdersInv'
  <1>1. /\ TypeOK /\ BrokerOK /\ commands' \subseteq commands
        /\ UNCHANGED <<order, position, kill, cycle, handler, aged, everQueued, broker, unmatched, raced>>
    BY DEF SubmitCancel, OrdersInv
  <1>2. PICK kind \in {"ack", "reject"} :
           Publish([kind |-> kind, order |-> o, command |-> no, numbered |-> FALSE])
    BY DEF SubmitCancel
  <1> DEFINE r == [kind |-> kind, order |-> o, command |-> no, numbered |-> FALSE]
  <1>3. r \in Report /\ r.kind # "fill"
    <2>1. no \in Send..N
      BY Constants DEF Orders, Send
    <2> QED BY <2>1 DEF Report
  <1> HIDE DEF r
  <1>4. Grows /\ RowsOK'
    BY <1>1, SameRows
  <1>5. TodoOK' /\ todo' \in [Handlers -> SUBSET Report]
    <2>1. ReportOK(r)' /\ Publish(r)
      BY <1>2, <1>3 DEF ReportOK, r
    <2> QED BY <1>3, <1>4, <2>1, PublishFacts
  <1>6. BrokerOK'
    BY <1>1 DEF BrokerOK, Untouched, Made
  <1>7. aged' \subseteq Orders
    BY <1>1 DEF TypeOK
  <1> QED BY <1>1, <1>4, <1>5, <1>6, <1>7, EnvironmentKeeps

LEMMA AgeInv == ASSUME OrdersInv, NEW o \in Orders, Age(o) PROVE OrdersInv'
  <1>1. /\ TypeOK /\ aged' = aged \cup {o}
        /\ UNCHANGED <<order, position, kill, cycle, handler, commands, broker, everQueued, todo,
                       unmatched, raced>>
    BY DEF Age, external, OrdersInv
  <1>2. Grows /\ RowsOK'
    BY <1>1, SameRows
  <1>3. TodoOK' /\ todo' \in [Handlers -> SUBSET Report] /\ BrokerOK' /\ aged' \subseteq Orders
    BY <1>1, <1>2, FewerReports, SameBroker DEF TypeOK
  <1> QED BY <1>1, <1>2, <1>3, EnvironmentKeeps

\* A restart: the consumer's report goes back to the log.
LEMMA RestartInv == ASSUME OrdersInv, Restart PROVE OrdersInv'
  <1> DEFINE again == IF handler["consumer"].step = "idle" THEN {} ELSE {handler["consumer"].report}
  <1>1. /\ TypeOK /\ cycle' = IdleCycle /\ handler' = [h \in Handlers |-> IdleHandler]
        /\ todo' = [request |-> todo["request"], consumer |-> todo["consumer"] \cup again]
        /\ UNCHANGED <<order, position, kill, aged, commands, broker, everQueued, unmatched, raced>>
    BY DEF Restart, external, OrdersInv
  <1>2. \A r \in again : r \in Report /\ ReportOK(r)
    <2> SUFFICES ASSUME handler["consumer"].step # "idle"
                 PROVE  handler["consumer"].report \in Report /\ ReportOK(handler["consumer"].report)
      OBVIOUS
    <2>1. HandlerOK("consumer")
      BY DEF OrdersInv, Handlers
    <2>2. handler["consumer"] # IdleHandler
      BY DEF IdleHandler
    <2>3. CASE SavesRow("consumer")
      BY <2>3 DEF SavesRow, SavingRow
    <2>4. CASE ReadsPosition("consumer")
      BY <2>4, FillIsReport DEF ReadsPosition, AtPosition
    <2>5. CASE SavesPosition("consumer")
      BY <2>5, FillIsReport DEF SavesPosition, SavingPosition
    <2> QED BY <2>1, <2>2, <2>3, <2>4, <2>5 DEF HandlerOK
  <1> HIDE DEF again
  <1>3. Grows /\ RowsOK'
    BY <1>1, SameRows
  <1>4. /\ DOMAIN todo' = Handlers
        /\ todo'["request"] = todo["request"] /\ todo'["consumer"] = todo["consumer"] \cup again
    BY <1>1 DEF Handlers
  <1>5. \A h \in Handlers : \A r \in todo'[h] : r \in Report /\ ReportOK(r)
    <2>1. \A h \in Handlers : \A r \in todo[h] : r \in Report /\ ReportOK(r)
      BY <1>1 DEF TypeOK, OrdersInv, TodoOK
    <2> QED BY <1>2, <1>4, <2>1 DEF Handlers
  <1>6. TodoOK'
    BY <1>3, <1>5, ReportStays DEF TodoOK
  <1>7. todo' \in [Handlers -> SUBSET Report]
    <2>1. todo' = [h \in Handlers |-> todo'[h]]
      BY <1>1, <1>4
    <2>2. \A h \in Handlers : todo'[h] \in SUBSET Report
      BY <1>5
    <2> HIDE DEF Handlers
    <2> QED BY <2>1, <2>2
  <1>8. TypeOK'
    BY <1>1, <1>7 DEF TypeOK
  <1>9. CycleOK'
    <2>1. IdleCycle.step = "idle"
      BY DEF IdleCycle
    <2> QED BY <1>1, <2>1, IdleCycleType DEF CycleOK, InHand
  <1>10. handler' \in [Handlers -> Handler] /\ \A h \in Handlers : HandlerOK(h)'
    BY <1>1 DEF Handler, HandlerOK
  <1>11. BrokerOK' /\ position' <= Limit'
    BY <1>1, <1>3, SameBroker, LimitFacts DEF OrdersInv, TypeOK
  <1> QED BY <1>3, <1>6, <1>8, <1>9, <1>10, <1>11 DEF OrdersInv

-----------------------------------------------------------------------------
\* The theorems.

LEMMA InitInv == Init => OrdersInv
  <1> SUFFICES ASSUME Init PROVE OrdersInv
    OBVIOUS
  <1>1. \A o \in Orders : order[o] = NoRow /\ broker[o] = [live |-> FALSE, filled |-> 0]
    BY DEF Init
  <1>2. TypeOK
    <2>1. order \in [Orders -> Row]
      BY NoRowType DEF Init
    <2>2. broker \in [Orders -> [live : BOOLEAN, filled : 0..Qty]]
      BY Constants DEF Init
    <2>3. todo \in [Handlers -> SUBSET Report] /\ position \in Nat
      BY Constants DEF Init
    <2> QED BY <2>1, <2>2, <2>3 DEF Init, TypeOK
  <1>3. \A o \in Orders : ~Made(o)
    BY <1>1, NoRowType DEF Made
  <1>4. RowsOK
    BY <1>1, <1>3 DEF RowsOK
  <1>5. CycleOK
    <2>1. IdleCycle.step = "idle"
      BY DEF IdleCycle
    <2> QED BY <2>1, IdleCycleType DEF Init, CycleOK, InHand
  <1>6. handler \in [Handlers -> Handler] /\ (\A h \in Handlers : HandlerOK(h)) /\ TodoOK
    BY DEF Init, Handler, HandlerOK, TodoOK
  <1>7. BrokerOK
    BY <1>1, Constants DEF Init, BrokerOK, Untouched
  <1>8. position <= Limit
    <2>1. ~Bought
      BY <1>1, Constants DEF Bought
    <2> QED BY <2>1, Constants DEF Init, Limit
  <1> QED BY <1>2, <1>4, <1>5, <1>6, <1>7, <1>8 DEF OrdersInv

LEMMA StepInv == OrdersInv /\ [Next]_vars => OrdersInv'
  <1> SUFFICES ASSUME OrdersInv, [Next]_vars PROVE OrdersInv'
    OBVIOUS
  <1>1. CASE Manager
    BY <1>1, StartCycleInv, LoadUnacknowledgedInv, CreateOrderInv, BlockOrderInv, SaveOrderInv,
       DecideCancelsInv, SaveCancelInv, EnqueueOrderInv, EnqueueCancelInv, TimeOutOrderInv
       DEF Manager
  <1>2. ASSUME NEW h \in Handlers, Handle(h) PROVE OrdersInv'
    BY <1>2, LoadOrderInv, NoOrderFoundInv, SaveReportInv, LoadPositionInv, SavePositionInv DEF Handle
  <1>3. ASSUME NEW o \in Orders,
               \/ PlaceOrder(o) \/ FillOrder(o) \/ CancelOrder(o) \/ Age(o)
               \/ \E no \in Orders : SubmitCancel(o, no)
        PROVE  OrdersInv'
    BY <1>3, PlaceOrderInv, FillOrderInv, SubmitCancelInv, CancelOrderInv, AgeInv
  <1>4. CASE Restart
    BY <1>4, RestartInv
  <1>5. CASE UNCHANGED vars
    <2>1. CycleOK'
      BY <1>5, SameRows, CycleStays DEF vars
    <2> QED BY <1>5, <2>1, OnlyCycle DEF vars
  <1> QED BY <1>1, <1>2, <1>3, <1>4, <1>5 DEF Next

\* In every behaviour of the orders, each row, each copy of a row that a thread
\* is about to save (save_managed_order) and each report on its way shows no more
\* than the broker filled of some order of its side.
THEOREM OrdersInvariant == Spec => []OrdersInv
  BY InitInv, StepInv, PTL DEF Spec

\* The rows, the position and the reports keep their types, in particular the
\* quantities of an order stay between 0 and what was ordered.
THEOREM TypeCorrect == Spec => []TypeOK
  <1>1. OrdersInv => TypeOK
    BY DEF OrdersInv
  <1> QED BY <1>1, OrdersInvariant, PTL

\* The position never exceeds what was held and bought, for any number of
\* orders of both sides: _sync_live_sim_position raises it to a cumulative
\* quantity some buy order really got, whoever applies the report how often.
THEOREM PositionsAreHeld == Spec => []PositionIsHeld
  <1>1. OrdersInv => PositionIsHeld
    BY DEF OrdersInv, PositionIsHeld, Limit, Bought
  <1> QED BY <1>1, OrdersInvariant, PTL

LEMMA InvGivesReal == OrdersInv => FillsAreReal
  <1> SUFFICES ASSUME OrdersInv, NEW o \in Orders, order[o].filled > 0 \/ order[o].status = "FILLED"
               PROVE  \E p \in Orders : /\ order[p].status # "ABSENT"
                                        /\ order[p].side = order[o].side
                                        /\ order[o].filled <= broker[p].filled
                                        /\ order[o].status = "FILLED" => broker[p].filled = Qty
    BY DEF FillsAreReal
  <1>1. Made(o) /\ Sound(o, order[o])
    BY NoRowType DEF OrdersInv, RowsOK
  <1>2. order[o].filled \in Nat /\ (order[o].status = "FILLED" => order[o].filled = Qty)
    BY <1>1, Constants DEF Sound, Row
  <1>3. FilledOn(order[o].side, order[o].filled)
    BY <1>1, <1>2, Constants DEF Sound
  <1>4. PICK p \in Orders : /\ Made(p) /\ order[p].side = order[o].side
                            /\ broker[p].filled >= order[o].filled
    BY <1>3 DEF FilledOn
  <1>5. /\ order[o].filled <= broker[p].filled
        /\ order[o].status = "FILLED" => broker[p].filled = Qty
    BY <1>2, <1>4, BrokerOf, Constants
  <1> QED BY <1>4, <1>5 DEF Made

\* FILLED can be believed, for any number of orders: handle_execution shows no
\* more than the broker filled of an order of the row's side, whatever is
\* repeated, reordered, applied by two threads or to a stale copy, and although
\* _find_execution_order may choose another order of the side.
THEOREM ShownFillsAreReal == Spec => []FillsAreReal
  BY InvGivesReal, OrdersInvariant, PTL

-----------------------------------------------------------------------------
\* No fill is lost in silence.

\* Orders keep their rows and sides, and a row that is not overwritten from a
\* stale copy only gains.
RowsGain ==
    /\ raced \subseteq raced'
    /\ \A o \in Orders \ raced' : order'[o].filled >= order[o].filled
    /\ \A o \in Orders : Made(o) => Made(o)' /\ order'[o].side = order[o].side

LEMMA SameRowsGain == ASSUME OrdersInv, UNCHANGED <<order, raced>> PROVE RowsGain
  <1>1. \A o \in Orders : order[o].filled \in Nat
    BY RowOf, Constants DEF Row
  <1> QED BY <1>1 DEF RowsGain, Made

LEMMA SaveGains ==
    ASSUME OrdersInv, NEW o \in Orders, NEW copy, NEW new, Save(o, copy, new),
           new.filled >= copy.filled, new.side = order[o].side, new.status # "ABSENT"
    PROVE  RowsGain
  <1>1. /\ order' = [order EXCEPT ![o] = new] /\ raced \subseteq raced'
        /\ o \notin raced' => order[o] = copy
    BY DEF Save
  <1>2. \A p \in Orders : order[p].filled \in Nat
    BY RowOf, Constants DEF Row
  <1>3. order'[o] = new /\ \A p \in Orders \ {o} : order'[p] = order[p]
    BY <1>1 DEF OrdersInv, TypeOK
  <1>4. ASSUME NEW p \in Orders \ raced' PROVE order'[p].filled >= order[p].filled
    <2>1. CASE p = o
      BY <1>1, <1>3, <2>1
    <2>2. CASE p # o
      BY <1>2, <1>3, <2>2
    <2> QED BY <2>1, <2>2
  <1>5. \A p \in Orders : Made(p) => Made(p)' /\ order'[p].side = order[p].side
    BY <1>3 DEF Made
  <1> QED BY <1>1, <1>4, <1>5 DEF RowsGain

\* The manager's saves keep the quantities of the copy.
LEMMA CycleSaveGains ==
    ASSUME OrdersInv, cycle.step \in InHand, NEW new, Save(cycle.order, cycle.copy, new),
           new.filled = cycle.copy.filled, new.side = cycle.copy.side, new.status # "ABSENT"
    PROVE  RowsGain
  <1>1. cycle.order \in Orders /\ cycle.copy \in Row /\ cycle.copy.side = order[cycle.order].side
    BY DEF OrdersInv, CycleOK, Made, Sound
  <1>2. new.filled >= cycle.copy.filled
    BY <1>1, Constants DEF Row
  <1> QED BY <1>1, <1>2, SaveGains

LEMMA ManagerGains ==
    ASSUME OrdersInv, Manager
    PROVE  RowsGain /\ UNCHANGED <<handler, todo, broker, unmatched>>
  <1>1. CASE StartCycle \/ LoadUnacknowledged \/ DecideCancels
    BY <1>1, SameRowsGain DEF StartCycle, LoadUnacknowledged, DecideCancels, external
  <1>2. ASSUME NEW side \in Sides, CreateOrder(side)
        PROVE  RowsGain /\ UNCHANGED <<handler, todo, broker, unmatched>>
    <2> PICK o : o = NewId
      OBVIOUS
    <2> DEFINE row == [NoRow EXCEPT !.side = side, !.status = "PENDING_LOCAL",
                                    !.remaining = Qty]
    <2>1. /\ order' = [order EXCEPT ![o] = row]
          /\ UNCHANGED <<handler, todo, broker, unmatched, raced>>
      BY <1>2 DEF CreateOrder, external
    <2>2. o \in Orders /\ ~Made(o)
      BY <1>2, NewIdFacts DEF CreateOrder, Made
    <2>3. order[o].filled = 0
      BY <2>2, NoRowType DEF OrdersInv, RowsOK
    <2>4. row.filled = 0
      BY Constants, NoRowExcept
    <2> HIDE DEF row
    <2>5. \A p \in Orders : order[p].filled \in Nat
      BY RowOf, Constants DEF Row
    <2>6. \A p \in Orders : order'[p].filled >= order[p].filled
      BY <2>1, <2>2, <2>3, <2>4, <2>5 DEF OrdersInv, TypeOK
    <2>7. \A p \in Orders : Made(p) => Made(p)' /\ order'[p].side = order[p].side
      BY <2>1, <2>2 DEF OrdersInv, TypeOK, Made
    <2> QED BY <2>1, <2>6, <2>7 DEF RowsGain
  <1>3. CASE BlockOrder
    <2>1. /\ cycle.step \in InHand
          /\ Save(cycle.order, cycle.copy, [cycle.copy EXCEPT !.status = "COMMAND_BLOCKED_OBSERVE_ONLY"])
          /\ UNCHANGED <<handler, todo, broker, unmatched>>
      BY <1>3 DEF BlockOrder, external, InHand
    <2> QED BY <2>1, OrderSaves, CycleSaveGains
  <1>4. CASE SaveOrder
    <2> DEFINE new == [cycle.copy EXCEPT !.command = Send,
                                         !.status = IF cycle.step = "queued" THEN "QUEUED_TO_GATEWAY"
                                                    ELSE "REJECTED_BY_GATEWAY"]
    <2>1. /\ cycle.step \in InHand /\ Save(cycle.order, cycle.copy, new)
          /\ UNCHANGED <<handler, todo, broker, unmatched>>
      BY <1>4 DEF SaveOrder, external, InHand
    <2>2. new.filled = cycle.copy.filled /\ new.side = cycle.copy.side /\ new.status # "ABSENT"
      BY <2>1, OrderSaves
    <2> HIDE DEF new
    <2> QED BY <2>1, <2>2, CycleSaveGains
  <1>5. CASE SaveCancel
    <2> DEFINE new == IF cycle.step = "cancelQueued"
                      THEN [cycle.copy EXCEPT !.status = "CANCEL_PENDING",
                                              !.command = cycle.stale[cycle.order].no]
                      ELSE [cycle.copy EXCEPT !.status = "RECONCILE_REQUIRED"]
    <2>1. /\ cycle.step \in {"cancelQueued", "cancelRefused"} /\ cycle.step \in InHand
          /\ Save(cycle.order, cycle.copy, new)
          /\ UNCHANGED <<handler, todo, broker, unmatched>>
      BY <1>5 DEF SaveCancel, external, InHand
    <2>2. new.filled = cycle.copy.filled /\ new.side = cycle.copy.side /\ new.status # "ABSENT"
      BY <2>1, CancelSaves
    <2> HIDE DEF new
    <2> QED BY <2>1, <2>2, CycleSaveGains
  <1>6. ASSUME NEW o \in Orders, NEW accepted \in BOOLEAN,
               EnqueueOrder(accepted) \/ EnqueueCancel(o, accepted)
        PROVE  RowsGain /\ UNCHANGED <<handler, todo, broker, unmatched>>
    BY <1>6, SameRowsGain DEF EnqueueOrder, EnqueueCancel
  <1>7. ASSUME NEW accepted \in BOOLEAN, EnqueueOrder(accepted)
        PROVE  RowsGain /\ UNCHANGED <<handler, todo, broker, unmatched>>
    BY <1>7, SameRowsGain DEF EnqueueOrder
  <1>8. ASSUME NEW o \in Orders, TimeOutOrder(o)
        PROVE  RowsGain /\ UNCHANGED <<handler, todo, broker, unmatched>>
    <2> DEFINE copy == cycle.stale[o]
               new == [copy EXCEPT !.status = "RECONCILE_REQUIRED"]
    <2>1. /\ o \in DOMAIN cycle.stale /\ Save(o, copy, new)
          /\ UNCHANGED <<handler, todo, broker, unmatched>>
      BY <1>8 DEF TimeOutOrder, external
    <2>2. copy \in Row /\ copy.side = order[o].side
      BY <2>1 DEF OrdersInv, CycleOK, Sound
    <2> HIDE DEF copy
    <2>3. /\ new.filled = copy.filled /\ new.filled >= copy.filled
          /\ new.side = copy.side /\ new.status # "ABSENT"
      BY <2>2, Constants DEF Row
    <2> HIDE DEF new
    <2> QED BY <2>1, <2>2, <2>3, SaveGains
  <1> QED BY <1>1, <1>2, <1>3, <1>4, <1>5, <1>6, <1>7, <1>8 DEF Manager

\* What shows stays, and what is awaited is awaited until it shows.
LEMMA OutstandingStays ==
    ASSUME OrdersInv, OrdersInv', RowsGain, NEW o \in Orders,
           broker'[o].filled = broker[o].filled, Outstanding(o), Awaited(o) => Awaited(o)' \/ Shown(o)'
    PROVE  Outstanding(o)'
  <1>1. CASE broker[o].filled = 0
    BY <1>1 DEF Outstanding
  <1>2. CASE broker[o].filled # 0 /\ Shown(o)
    <2>1. PICK p \in Orders : /\ Made(p) /\ order[p].side = order[o].side
                              /\ p \in raced \/ order[p].filled >= broker[o].filled
      BY <1>2 DEF Shown
    <2>2. Made(o)
      BY <1>2, BrokerOf, FilledIsMade
    <2>3. Made(p)' /\ order'[p].side = order'[o].side
      BY <2>1, <2>2 DEF RowsGain
    <2>4. order[p].filled \in Nat /\ order'[p].filled \in Nat /\ broker[o].filled \in Nat
      BY Constants, BrokerOf DEF OrdersInv, TypeOK, Row
    <2>5. p \in raced' \/ order'[p].filled >= broker'[o].filled
      BY <2>1, <2>4 DEF RowsGain
    <2> QED BY <2>3, <2>5 DEF Outstanding, Shown
  <1>3. CASE Awaited(o)
    BY <1>3 DEF Outstanding
  <1> QED BY <1>1, <1>2, <1>3 DEF Outstanding

\* A step that leaves the consumer and what it has yet to apply alone.
LEMMA LossStays ==
    ASSUME OrdersInv, OrdersInv', NothingLost, RowsGain, unmatched \subseteq unmatched',
           \A o \in Orders : broker'[o].filled = broker[o].filled,
           todo["consumer"] \subseteq todo'["consumer"],
           handler'["consumer"] = handler["consumer"]
    PROVE  NothingLost'
  <1> SUFFICES ASSUME "fill" \notin unmatched', NEW o \in Orders PROVE Outstanding(o)'
    BY DEF NothingLost
  <1>1. Outstanding(o)
    BY DEF NothingLost
  <1>2. Latest(o)' = Latest(o)
    BY DEF Latest
  <1>3. Awaited(o) => Awaited(o)'
    BY <1>2 DEF Awaited
  <1> QED BY <1>1, <1>3, OutstandingStays

LEMMA OtherHandler ==
    ASSUME OrdersInv, NEW h \in Handlers, h # "consumer", NEW new,
           handler' = [handler EXCEPT ![h] = new]
    PROVE  handler'["consumer"] = handler["consumer"]
  BY DEF OrdersInv, Handlers

\* A row saved from a report shows no less than the copy did.
LEMMA SaveReportGains ==
    ASSUME OrdersInv, NEW h \in Handlers, SaveReport(h)
    PROVE  /\ RowsGain /\ SavesRow(h)
           /\ Save(handler[h].order, handler[h].copy, After(handler[h].report, handler[h].copy))
           /\ Sound(handler[h].order, After(handler[h].report, handler[h].copy))
  <1> DEFINE s == handler[h]
  <1>1. s.step = "save" /\ Save(s.order, s.copy, After(s.report, s.copy)) /\ HandlerOK(h)
    BY DEF SaveReport, OrdersInv
  <1>2. SavesRow(h)
    BY <1>1 DEF HandlerOK, IdleHandler, ReadsPosition, SavesPosition, AtPosition, SavingPosition
  <1>3. /\ s.report \in Report /\ ReportOK(s.report) /\ s.order \in Orders
        /\ Made(s.order) /\ Sound(s.order, s.copy) /\ Fits(s.report, s.order, s.copy)
    BY <1>2 DEF SavesRow, SavingRow
  <1> HIDE DEF s
  <1>4. After(s.report, s.copy).filled >= s.copy.filled /\ Sound(s.order, After(s.report, s.copy))
    BY <1>3, AfterSound
  <1>5. /\ After(s.report, s.copy).side = order[s.order].side
        /\ After(s.report, s.copy).status # "ABSENT"
    BY <1>4 DEF Sound
  <1> QED BY <1>1, <1>2, <1>3, <1>4, <1>5, SaveGains DEF s

\* The request thread.
LEMMA RequestLoss ==
    ASSUME OrdersInv, OrdersInv', NothingLost, Handle("request") PROVE NothingLost'
  <1>1. "request" \in Handlers /\ "request" # "consumer" /\ "consumer" \in Handlers
    BY DEF Handlers
  <1>2. broker' = broker /\ unmatched \subseteq unmatched'
    BY DEF Handle, LoadOrder, NoOrderFound, SaveReport, LoadPosition, SavePosition, external
  <1>3. handler'["consumer"] = handler["consumer"]
    <2>1. handler' = handler \/ \E new : handler' = [handler EXCEPT !["request"] = new]
      BY DEF Handle, LoadOrder, NoOrderFound, SaveReport, LoadPosition, SavePosition
    <2> QED BY <1>1, <2>1, OtherHandler
  <1>4. todo'["consumer"] = todo["consumer"]
    <2>1. todo' = todo \/ \E T : todo' = [todo EXCEPT !["request"] = T]
      BY DEF Handle, LoadOrder, NoOrderFound, SaveReport, LoadPosition, SavePosition
    <2> QED BY <1>1, <2>1 DEF OrdersInv, TypeOK
  <1>5. RowsGain
    <2>1. CASE SaveReport("request")
      BY <1>1, <2>1, SaveReportGains
    <2>2. CASE ~SaveReport("request")
      BY <2>2, SameRowsGain DEF Handle, LoadOrder, NoOrderFound, LoadPosition, SavePosition
    <2> QED BY <2>1, <2>2
  <1> QED BY <1>2, <1>3, <1>4, <1>5, LossStays

\* The consumer: a report it takes is in its hands until a row shows it, one
\* that it cannot place is counted.
LEMMA ConsumerLoss ==
    ASSUME OrdersInv, OrdersInv', NothingLost, Handle("consumer") PROVE NothingLost'
  <1> SUFFICES ASSUME "fill" \notin unmatched', NEW p \in Orders PROVE Outstanding(p)'
    BY DEF NothingLost
  <1>1. "consumer" \in Handlers
    BY DEF Handlers
  <1>2. broker' = broker /\ unmatched \subseteq unmatched'
    BY DEF Handle, LoadOrder, NoOrderFound, SaveReport, LoadPosition, SavePosition, external
  <1>3. Outstanding(p) /\ Latest(p)' = Latest(p) /\ Latest(p).kind = "fill"
    BY <1>2 DEF NothingLost, Latest
  <1>4. ASSUME NEW r \in todo["consumer"], LoadOrder("consumer", r) PROVE Outstanding(p)'
    <2>1. PICK o \in Matches(r) :
             handler' = [handler EXCEPT !["consumer"] = [step |-> "save", report |-> r, order |-> o,
                                                         copy |-> order[o]]]
      BY <1>4 DEF LoadOrder
    <2> DEFINE new == [step |-> "save", report |-> r, order |-> o, copy |-> order[o]]
    <2>2. handler'["consumer"] = new
      BY <1>1, <2>1 DEF OrdersInv
    <2>3. handler'["consumer"].step = "save" /\ handler'["consumer"].report = r
      BY <2>2
    <2>4. /\ todo'["consumer"] = todo["consumer"] \ {r} /\ handler["consumer"].step = "idle"
          /\ UNCHANGED <<order, raced>>
      BY <1>1, <1>4 DEF LoadOrder, OrdersInv, TypeOK
    <2>5. Awaited(p) => Awaited(p)'
      BY <1>3, <2>3, <2>4 DEF Awaited
    <2> QED BY <1>2, <1>3, <2>4, <2>5, SameRowsGain, OutstandingStays
  <1>5. ASSUME NEW r \in todo["consumer"], NoOrderFound("consumer", r) PROVE Outstanding(p)'
    <2>1. /\ todo'["consumer"] = todo["consumer"] \ {r} /\ unmatched' = unmatched \cup {r.kind}
          /\ UNCHANGED <<order, handler, raced>>
      BY <1>1, <1>5 DEF NoOrderFound, OrdersInv, TypeOK
    <2>2. Latest(p) # r
      BY <1>3, <2>1
    <2>3. Awaited(p) => Awaited(p)'
      BY <1>3, <2>1, <2>2 DEF Awaited
    <2> QED BY <1>2, <1>3, <2>1, <2>3, SameRowsGain, OutstandingStays
  <1>6. CASE SaveReport("consumer")
    <2> PICK s : s = handler["consumer"]
      OBVIOUS
    <2> DEFINE new == After(s.report, s.copy)
    <2>1. RowsGain /\ SavesRow("consumer") /\ Save(s.order, s.copy, new) /\ Sound(s.order, new)
      BY <1>1, <1>6, SaveReportGains
    <2>2. todo' = todo
      BY <1>6 DEF SaveReport
    <2>3. /\ s.copy \in Row /\ s.report \in Report /\ s.order \in Orders /\ Made(s.order)
          /\ s.copy.remaining = Qty - s.copy.filled /\ Fits(s.report, s.order, s.copy)
          /\ s.copy.side = order[s.order].side
      BY <2>1 DEF SavesRow, SavingRow, Sound
    <2>4. ASSUME s.report = Latest(p) PROVE Shown(p)'
      <3>1. s.report.kind = "fill" /\ s.report.filled = broker[p].filled /\ s.report.order = p
        BY <2>4 DEF Latest
      <3>2. s.report \in FillReport /\ order[p].side = order[s.order].side
        BY <2>3, <3>1, ReportKinds DEF Fits
      <3>3. new = AfterFill(s.report, s.copy)
        BY <3>1 DEF After
      <3>4. new.filled >= broker[p].filled
        BY <2>3, <3>1, <3>2, <3>3, AfterFillFacts
      <3>5. order'[s.order] = new
        BY <2>1, <2>3 DEF Save, OrdersInv, TypeOK
      <3>6. order'[s.order].filled >= broker'[p].filled
        BY <1>2, <3>4, <3>5
      <3>7. Made(p)
        <4>1. ReportOK(s.report)
          BY <2>1 DEF SavesRow
        <4> QED BY <3>1, <3>2, <4>1, ReportedIsMade
      <3>8. Made(s.order)' /\ order'[s.order].side = order'[p].side
        BY <2>1, <2>3, <3>2, <3>7 DEF RowsGain
      <3> QED BY <2>3, <3>6, <3>8 DEF Shown
    <2>5. Awaited(p) => Awaited(p)' \/ Shown(p)'
      BY <1>3, <2>2, <2>4 DEF Awaited
    <2> QED BY <1>2, <1>3, <2>1, <2>5, OutstandingStays
  <1>7. CASE LoadPosition("consumer") \/ SavePosition("consumer")
    <2>1. UNCHANGED <<order, todo, raced>> /\ handler["consumer"].step # "save"
      BY <1>7 DEF LoadPosition, SavePosition
    <2>2. Awaited(p) => Awaited(p)'
      BY <1>3, <2>1 DEF Awaited
    <2> QED BY <1>2, <1>3, <2>1, <2>2, SameRowsGain, OutstandingStays
  <1> QED BY <1>4, <1>5, <1>6, <1>7 DEF Handle

\* The broker fills: the report is new to everybody.
LEMMA FillLoss ==
    ASSUME OrdersInv, OrdersInv', NothingLost, NEW o \in Orders, FillOrder(o) PROVE NothingLost'
  <1> SUFFICES ASSUME "fill" \notin unmatched', NEW p \in Orders PROVE Outstanding(p)'
    BY DEF NothingLost
  <1>1. /\ broker'[o].filled = broker[o].filled + 1
        /\ \A q \in Orders \ {o} : broker'[q] = broker[q]
        /\ UNCHANGED <<order, handler, unmatched, raced>>
    BY DEF FillOrder, OrdersInv, TypeOK
  <1>2. todo'["consumer"] = todo["consumer"] \cup {Latest(o)'}
    BY <1>1 DEF FillOrder, Publish, Latest, Handlers
  <1>3. CASE p = o
    BY <1>2, <1>3 DEF Outstanding, Awaited
  <1>4. CASE p # o
    <2>1. Outstanding(p) /\ broker'[p].filled = broker[p].filled /\ Latest(p)' = Latest(p)
      BY <1>1, <1>4 DEF NothingLost, Latest
    <2>2. Awaited(p) => Awaited(p)'
      BY <1>1, <1>2, <2>1 DEF Awaited
    <2> QED BY <1>1, <2>1, <2>2, SameRowsGain, OutstandingStays
  <1> QED BY <1>3, <1>4

\* A restart: the report in the consumer's hands comes again.
LEMMA RestartLoss == ASSUME OrdersInv, OrdersInv', NothingLost, Restart PROVE NothingLost'
  <1>1. /\ todo["consumer"] \subseteq todo'["consumer"]
        /\ handler["consumer"].step # "idle" => handler["consumer"].report \in todo'["consumer"]
        /\ UNCHANGED <<order, broker, unmatched, raced>>
    BY DEF Restart, external
  <1>2. ASSUME NEW p \in Orders, Outstanding(p) PROVE Outstanding(p)'
    <2>1. Latest(p)' = Latest(p)
      BY <1>1 DEF Latest
    <2>2. Awaited(p) => Awaited(p)'
      BY <1>1, <2>1 DEF Awaited
    <2> QED BY <1>1, <1>2, <2>2, SameRowsGain, OutstandingStays
  <1> QED BY <1>1, <1>2 DEF NothingLost

LEMMA LossStep == OrdersInv /\ OrdersInv' /\ NothingLost /\ [Next]_vars => NothingLost'
  <1> SUFFICES ASSUME OrdersInv, OrdersInv', NothingLost, [Next]_vars PROVE NothingLost'
    OBVIOUS
  <1>1. CASE Manager
    BY <1>1, ManagerGains, LossStays
  <1>2. ASSUME NEW h \in Handlers, Handle(h) PROVE NothingLost'
    BY <1>2, RequestLoss, ConsumerLoss DEF Handlers
  <1>3. ASSUME NEW o \in Orders, NEW no \in Orders,
               PlaceOrder(o) \/ SubmitCancel(o, no) \/ CancelOrder(o) \/ Age(o)
        PROVE  NothingLost'
    <2>1. UNCHANGED <<order, handler, unmatched, raced>>
      BY <1>3 DEF PlaceOrder, SubmitCancel, CancelOrder, Age
    <2>2. \A p \in Orders : broker'[p].filled = broker[p].filled
      <3>1. \/ broker' = broker
            \/ \E b \in BOOLEAN : broker' = [broker EXCEPT ![o].live = b]
        BY <1>3 DEF PlaceOrder, SubmitCancel, CancelOrder, Age, external
      <3> QED BY <3>1 DEF OrdersInv, TypeOK
    <2>3. todo["consumer"] \subseteq todo'["consumer"]
      BY <1>3 DEF PlaceOrder, SubmitCancel, CancelOrder, Age, Publish, Handlers
    <2> QED BY <2>1, <2>2, <2>3, SameRowsGain, LossStays
  <1>4. ASSUME NEW o \in Orders, FillOrder(o) PROVE NothingLost'
    BY <1>4, FillLoss
  <1>5. CASE Restart
    BY <1>5, RestartLoss
  <1>6. CASE UNCHANGED vars
    BY <1>6 DEF vars, NothingLost, Outstanding, Shown, Awaited, Latest, Made
  <1> QED BY <1>1, <1>2, <1>3, <1>4, <1>5, <1>6 DEF Next

\* No fill is lost in silence, for any number of orders of both sides: when all
\* reports have been applied (apply_canonical_order_event) a row of the side
\* shows at least what the broker filled of an order, across restarts and two
\* threads applying each report, unless a fill found no order (STOP_NEW_BUY) or
\* save_managed_order overwrote a row of the side from a stale copy.
THEOREM NothingIsLostInSilence == Spec => []NoSilentLoss
  <1>1. Init => NothingLost
    BY DEF Init, NothingLost, Outstanding
  <1>2. OrdersInv /\ OrdersInv' /\ NothingLost /\ [Next]_vars => NothingLost'
    BY LossStep
  <1>3. OrdersInv /\ NothingLost => NoSilentLoss
    <2> SUFFICES ASSUME OrdersInv, NothingLost, Quiet, "fill" \notin unmatched, NEW o \in Orders
                 PROVE  \E p \in Orders : /\ order[p].side = order[o].side
                                          /\ p \in raced \/ order[p].filled >= broker[o].filled
      BY DEF NoSilentLoss
    <2>1. Outstanding(o) /\ todo["consumer"] = {} /\ handler["consumer"].step = "idle"
      BY DEF NothingLost, Quiet, Handlers
    <2>2. CASE broker[o].filled = 0
      <3>1. order[o].filled >= broker[o].filled
        BY <2>2, RowOf, Constants DEF Row
      <3> QED BY <3>1
    <2>3. CASE Shown(o)
      BY <2>3 DEF Shown
    <2> QED BY <2>1, <2>2, <2>3 DEF Outstanding, Awaited
  <1> QED BY <1>1, <1>2, <1>3, OrdersInvariant, PTL DEF Spec
=============================================================================
