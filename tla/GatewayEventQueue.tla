-------------------------- MODULE GatewayEventQueue --------------------------
(***************************************************************************)
(* The queue between the Kiwoom callbacks of the gateway and its network   *)
(* thread.  Callbacks emit events, put under the queue's lock; the network *)
(* thread drains a batch, also under the lock, and posts its events one by *)
(* one.  A tick replaces the queued tick of its code, a condition event    *)
(* the queued one of the same code and action, each in place.  A full      *)
(* queue drops its oldest tick, or its oldest event when it has no tick.   *)
(* When a post raises, the rest of the batch is gone.                      *)
(***************************************************************************)
EXTENDS Integers, SequencesExt

CONSTANTS
    Codes,      \* stock codes
    Kinds,      \* kinds of events that are emitted
    MaxSize,    \* TRADING_GATEWAY_EVENT_QUEUE_SIZE
    DrainLimit, \* TRADING_GATEWAY_EVENT_DRAIN_LIMIT
    MaxEvents   \* bound: events emitted

ASSUME ConstantsAssumption ==
    /\ Kinds \subseteq {"tick", "include", "remove", "control", "execution"}
    /\ MaxSize \in Nat \ {0}
    /\ DrainLimit \in Nat \ {0}
    /\ MaxEvents \in Nat

VARIABLES
    queue,   \* GatewayEventQueue._events
    batch,   \* the drained events the network thread has yet to post
    emitted, \* history: all events, in the order of the callbacks
    posted,  \* history: what reached the Core, in order
    dropped, \* history: events a full queue gave up
    lost     \* history: events of batches whose post raised

vars == <<queue, batch, emitted, posted, dropped, lost>>

-----------------------------------------------------------------------------
\* Events.

\* "control" stands for command_started, command_ack, command_failed and the
\* like, "execution" for execution_event, order_result and the chejan events.
\* at is the time of the emission.
Event == [kind : Kinds, code : Codes, at : 1..MaxEvents]

\* HIGH_PRIORITY_EVENT_TYPES, equal to CONTROL_EVENT_TYPES of the gateway.
HighPriority(e) == e.kind \in {"control", "include", "remove"}
LowPriority(e) == e.kind = "tick"

\* _price_tick_code and _condition_event_key, whose fields include the action.
SameKey(d, e) ==
    /\ e.kind \in {"tick", "include", "remove"}
    /\ d.kind = e.kind
    /\ d.code = e.code

Init ==
    /\ queue = <<>>
    /\ batch = <<>>
    /\ emitted = <<>>
    /\ posted = <<>>
    /\ dropped = {}
    /\ lost = {}

-----------------------------------------------------------------------------
\* put.

\* The newest event with the same key is replaced where it stands.
Coalesced_Bug(q, e) ==
    IF \E i \in DOMAIN q : SameKey(q[i], e) THEN q ELSE Append(q, e)
Coalesced(q, e) ==
    LET i == SelectLastInSeq(q, LAMBDA d : SameKey(d, e))
    IN  IF i = 0 THEN Append(q, e) ELSE ReplaceAt(q, i, e)

\* _drop_oldest_low_priority_event_from: the place of its victim.
Victim_Bug(q) == 1
Victim(q) ==
    LET i == SelectInSeq(q, LowPriority)
    IN  IF i = 0 THEN 1 ELSE i

Overfull_Bug(q) == Len(q) > MaxSize + 1
Overfull(q) == Len(q) > MaxSize

Put(q, e) ==
    LET c == Coalesced(q, e)
    IN  IF Overfull(c) THEN RemoveAt(c, Victim(c)) ELSE c

Emit(kind, code) ==
    /\ Len(emitted) < MaxEvents
    /\ LET e == [kind |-> kind, code |-> code, at |-> Len(emitted) + 1] IN
         /\ emitted' = Append(emitted, e)
         /\ queue' = Put(queue, e)
         /\ dropped' = dropped \cup (ToSet(Coalesced(queue, e)) \ ToSet(queue'))
    /\ UNCHANGED <<batch, posted, lost>>

-----------------------------------------------------------------------------
\* _network_loop.

\* The sequence of a set's elements in an order, as a set of one.
Listing(S, Less(_, _)) ==
    {p \in Bijection(1..Cardinality(S), S) :
        \A k, l \in DOMAIN p : k < l => Less(p[k], p[l])}

\* High priority events come first, events of one priority from the left.
Ahead(s, i, j) ==
    IF HighPriority(s[i]) <=> HighPriority(s[j]) THEN i < j ELSE HighPriority(s[i])

\* The places of the queue, in the order in which drain empties them.
Drained_Bug(q) ==
    LET Less(i, j) == IF HighPriority(q[i]) \/ HighPriority(q[j]) THEN Ahead(q, i, j) ELSE i > j
    IN  Listing(DOMAIN q, Less)
Drained(q) ==
    LET Less(i, j) == Ahead(q, i, j)
    IN  Listing(DOMAIN q, Less)

\* _coalesce_condition_events and _coalesce_ticks within the batch, where the
\* newest event with a key takes the place of the first, and the stable sort of
\* _prioritize_gateway_events.
Prepared(b) ==
    LET first == {i \in DOMAIN b : \A j \in DOMAIN b : j < i => ~SameKey(b[j], b[i])}
        Newest(i) == CHOOSE j \in DOMAIN b :
                        /\ j = i \/ SameKey(b[j], b[i])
                        /\ \A k \in DOMAIN b : k > j => ~SameKey(b[k], b[i])
        Less(i, j) == Ahead(b, i, j)
    IN  {[k \in DOMAIN p |-> b[Newest(p[k])]] : p \in Listing(first, Less)}

\* At most DrainLimit events leave the queue, the others keep their order.
Drain ==
    /\ batch = <<>>
    /\ queue # <<>>
    /\ \E p \in Drained(queue) :
         LET n == IF Len(queue) < DrainLimit THEN Len(queue) ELSE DrainLimit
             left == DOMAIN queue \ {p[k] : k \in 1..n}
             Less(i, j) == i < j
         IN  /\ batch' \in Prepared([k \in 1..n |-> queue[p[k]]])
             /\ \E r \in Listing(left, Less) : queue' = [k \in DOMAIN r |-> queue[r[k]]]
    /\ UNCHANGED <<emitted, posted, dropped, lost>>

PostEvent ==
    /\ batch # <<>>
    /\ posted' = Append(posted, Head(batch))
    /\ batch' = Tail(batch)
    /\ UNCHANGED <<queue, emitted, dropped, lost>>

\* post_event raises: the loop starts over with the next drain.
PostFails ==
    /\ batch # <<>>
    /\ lost' = lost \cup ToSet(batch)
    /\ batch' = <<>>
    /\ UNCHANGED <<queue, emitted, posted, dropped>>

Next ==
    \/ \E kind \in Kinds, code \in Codes : Emit(kind, code)
    \/ Drain \/ PostEvent \/ PostFails

Spec == Init /\ [][Next]_vars

-----------------------------------------------------------------------------
\* Properties.

\* Everything is an event, and the queue respects its limit.
TypeOK ==
    /\ \A s \in {queue, batch, emitted, posted} : s \in Seq(Event)
    /\ Len(queue) <= MaxSize
    /\ dropped \cup lost \subseteq Event

\* The Core never goes back in time, although putting replaces in place, and
\* drain and the sort of the network loop reorder the batch: the ticks of a
\* code, the condition events of a code and action, the acknowledgements
\* (command_started before command_ack) and the executions each arrive in the
\* order of the callbacks.
InOrder ==
    \A i, j \in DOMAIN posted :
        /\ i < j
        /\ posted[i].kind = posted[j].kind
        /\ posted[i].kind \in {"control", "execution"} \/ SameKey(posted[i], posted[j])
        => posted[i].at < posted[j].at

\* Coalescing keeps the newest: when nothing is on its way, the last tick of a
\* code and every report have arrived, unless they were dropped or lost.
NothingForgotten ==
    queue \o batch = <<>> =>
        \A i \in DOMAIN emitted :
            (\A j \in i+1 .. Len(emitted) : ~SameKey(emitted[i], emitted[j])) =>
                emitted[i] \in ToSet(posted) \cup dropped \cup lost

\* A report is given up only when the queue holds nothing but reports: as long
\* as a tick is queued, or is the event being put, a tick makes room.
TicksGoFirst ==
    [][\A e \in dropped' \ dropped :
          ~LowPriority(e) => SelectInSeq(queue \o queue', LowPriority) = 0]_vars

-----------------------------------------------------------------------------
\* Statements of the repository's documents and tests that the code does not
\* keep.  README.md tells on which instance TLC refutes each.

\* tests/test_broker_models.py, test_gateway_event_queue_preserves_non_price_
\* events_when_full: only ticks are dropped.
NonPriceEventsPreserved == \A e \in dropped : LowPriority(e)

\* tests/test_broker_models.py, test_gateway_event_queue_keeps_distinct_condition_
\* event_actions: include and remove of a code arrive in the order they happened,
\* so that the last one posted is the last one emitted.
LastConditionWins ==
    LET Condition(e) == e.kind \in {"include", "remove"}
        last(s, c) == SelectLastInSeq(s, LAMBDA e : Condition(e) /\ e.code = c)
    IN  queue \o batch = <<>> /\ lost = {} /\ dropped = {} =>
            \A c \in Codes : last(emitted, c) # 0 =>
                posted[last(posted, c)] = emitted[last(emitted, c)]

=============================================================================
