----------------------------- MODULE GatewayLink -----------------------------
(***************************************************************************)
(* GatewayCommands together with the gateway process and the REST          *)
(* transport between them.                                                 *)
(*                                                                         *)
(* The gateway has two threads. The network thread posts the queued events *)
(* and polls for commands; the Qt thread takes a polled command, announces *)
(* it, calls Kiwoom and reports the result. Neither looks at expires_at.   *)
(* A post is never repeated: one that raises is given up together with the *)
(* rest of its drained batch, although Core may still process it later.    *)
(***************************************************************************)
EXTENDS GatewayCommands, Sequences

CONSTANTS
    MaxWaiting, \* bound: how often one id may wait in the gateway
    MaxOutbox   \* bound: how many command events may wait there

ASSUME BoundsAssumption == MaxWaiting \in Nat \ {0} /\ MaxOutbox \in Nat \ {0}

VARIABLES
    local,    \* GatewayRuntime.commands: how often each id waits there
    current,  \* what _drain_real_commands is doing
    outbox,   \* GatewayRuntime.events, the command events only, oldest first
    late,     \* events whose post timed out while Core was still busy with them
    calls,    \* history: calls made to Kiwoom for each order
    accepted  \* history: ids for which Kiwoom reported success

gateway == <<local, current, outbox, late>>
outcomes == <<calls, accepted>>
linkVars == <<vars, gateway, outcomes>>

Event == [type : {"command_started", "command_ack", "command_failed"},
          id : Ids,
          status : {"DISPATCHED", "ACKED", "REJECTED", "FAILED"}]

Started(i) == [type |-> "command_started", id |-> i, status |-> "DISPATCHED"]
Ack(i, s) == [type |-> "command_ack", id |-> i, status |-> s]
Raised(i) == [type |-> "command_failed", id |-> i, status |-> "FAILED"]

Idle == [id |-> NoId, report |-> {}]

LinkInit ==
    /\ Init
    /\ local = [i \in Ids |-> 0]
    /\ current = Idle
    /\ outbox = <<>>
    /\ late = {}
    /\ calls = [i \in Orders |-> 0]
    /\ accepted = {}

-----------------------------------------------------------------------------
\* Core on its own.

CoreStep ==
    /\ \/ Tick
       \/ PollLost
       \/ ExpireOldCommands
       \/ \E S \in SUBSET Ids : PruneCommands(S)
       \/ \E i \in Ids :
             \/ EnqueueCommand(i)
             \/ SweepCommand(i)
             \/ \E ok \in BOOLEAN : CancelCommand(i, ok)
    /\ UNCHANGED <<gateway, outcomes>>

\* A restart ends the requests Core was still working on.
CoreRestart ==
    /\ Restart
    /\ late' = {}
    /\ UNCHANGED <<local, current, outbox, outcomes>>

-----------------------------------------------------------------------------
\* The network thread.

\* Mutant: commands are handed out although their delivery is not recorded.
PollCommands_Unrecorded ==
    \E limit \in Limits, S \in SUBSET Ids :
        /\ \A i \in S : local[i] < MaxWaiting
        /\ DispatchLost(S, S, limit)
        /\ local' = [i \in Ids |-> IF i \in S THEN local[i] + 1 ELSE local[i]]
        /\ UNCHANGED <<current, outbox, late, outcomes>>

PollCommands ==
    \E limit \in Limits, S \in SUBSET Ids :
        /\ \A i \in S : local[i] < MaxWaiting
        /\ Dispatch(S, limit)
        /\ local' = [i \in Ids |-> IF i \in S THEN local[i] + 1 ELSE local[i]]
        /\ UNCHANGED <<current, outbox, late, outcomes>>

\* _persist_gateway_event for the command events.
Apply(e, ok) ==
    CASE e.type = "command_started" -> CommandStarted(e.id, ok)
      [] e.type = "command_ack"     -> CommandAcked(e.id, e.status, ok)
      [] e.type = "command_failed"  -> CommandFailed(e.id, e.id \notin Orders, ok)

Dropped(n) == SubSeq(outbox, n + 1, Len(outbox))

PostEvent ==
    /\ outbox # <<>>
    /\ Apply(Head(outbox), TRUE)
    /\ outbox' = Tail(outbox)
    /\ UNCHANGED <<local, current, late, outcomes>>

\* Core answers with an error after the memory half, and the rest of the
\* drained batch is gone.
PostRejected ==
    \E n \in 1 .. Len(outbox) :
        /\ Apply(Head(outbox), FALSE)
        /\ outbox' = Dropped(n)
        /\ UNCHANGED <<local, current, late, outcomes>>

\* The post times out, before Core has seen the event or while it is at it.
PostTimesOut ==
    \E n \in 1 .. Len(outbox) :
        /\ outbox' = Dropped(n)
        /\ late' \in {late, late \cup {Head(outbox)}}
        /\ UNCHANGED <<vars, local, current, outcomes>>

\* Core gets round to an event whose sender has given up.
LateEvent ==
    \E e \in late, ok \in BOOLEAN :
        /\ Apply(e, ok)
        /\ late' = late \ {e}
        /\ UNCHANGED <<local, current, outbox, outcomes>>

-----------------------------------------------------------------------------
\* The Qt thread: _drain_real_commands. The rate limiter puts a command back
\* at the end of the queue; the order of the queue is left open.

Emit(e) == Len(outbox) < MaxOutbox /\ outbox' = Append(outbox, e)

\* Mutant: the command is looked at but not removed.
Taken_Peek(i) == local

Taken(i) == [local EXCEPT ![i] = @ - 1]

\* The WebSocket pilot refuses commands it does not allow without a call.
RejectCommand(i) ==
    /\ current = Idle /\ local[i] > 0
    /\ local' = Taken(i)
    /\ Emit(Ack(i, "REJECTED"))
    /\ UNCHANGED <<vars, current, late, outcomes>>

StartCommand(i) ==
    /\ current = Idle /\ local[i] > 0
    /\ local' = Taken(i)
    /\ current' = [id |-> i, report |-> {}]
    /\ Emit(Started(i))
    /\ UNCHANGED <<vars, late, outcomes>>

\* _execute_command reaches Kiwoom and has a result, or raises.
CallKiwoom(i) ==
    /\ current = [id |-> i, report |-> {}]
    /\ \E e \in {Ack(i, "ACKED"), Ack(i, "FAILED"), Raised(i)} :
          /\ current' = [id |-> i, report |-> {e}]
          /\ accepted' = IF e = Ack(i, "ACKED") THEN accepted \cup {i} ELSE accepted
    /\ calls' = [j \in Orders |-> IF j = i THEN calls[j] + 1 ELSE calls[j]]
    /\ UNCHANGED <<vars, local, outbox, late>>

\* _execute_command gives up before the call: a malformed or an unsupported
\* command.
SkipKiwoom(i) ==
    /\ current = [id |-> i, report |-> {}]
    /\ \E e \in {Ack(i, "REJECTED"), Ack(i, "FAILED"), Raised(i)} :
          current' = [id |-> i, report |-> {e}]
    /\ UNCHANGED <<vars, local, outbox, late, outcomes>>

ReportResult ==
    \E e \in current.report :
        /\ Emit(e)
        /\ current' = Idle
        /\ UNCHANGED <<vars, local, late, outcomes>>

\* The gateway process is restarted; its queues are in memory only.
GatewayRestart ==
    /\ local' = [i \in Ids |-> 0]
    /\ current' = Idle
    /\ outbox' = <<>>
    /\ UNCHANGED <<vars, late, outcomes>>

LinkNext ==
    \/ CoreStep
    \/ CoreRestart
    \/ PollCommands
    \/ PostEvent
    \/ PostRejected
    \/ PostTimesOut
    \/ LateEvent
    \/ \E i \in Ids : RejectCommand(i) \/ StartCommand(i) \/ CallKiwoom(i) \/ SkipKiwoom(i)
    \/ ReportResult
    \/ GatewayRestart

LinkSpec == LinkInit /\ [][LinkNext]_linkVars

-----------------------------------------------------------------------------
\* Properties.

\* Kiwoom is called at most once for an order, although neither thread keeps
\* track of what it has executed.
OrderCalledOnce == \A i \in Orders : calls[i] <= 1

\* Every copy of a delivery is accounted for: what waits at the gateway and
\* what it has called Kiwoom for was delivered by Core, each delivery once.
CallsComeFromDeliveries ==
    \A i \in Orders :
        local[i] + calls[i] + (IF current = [id |-> i, report |-> {}] THEN 1 ELSE 0) <= sent[i]

\* Core says ACKED only of a command Kiwoom accepted.
AckedMeansAccepted ==
    \A i \in Ids : "ACKED" \in {mem[i].status, store[i].status} => i \in accepted

\* Core's row of an order that reached Kiwoom is never one it would send again
\* or report as withdrawn by the user.
CalledOrderIsSettled ==
    \A i \in Orders : calls[i] > 0 => store[i].status \notin {"QUEUED", "CANCELLED"}

\* The link drives Core only through the events GatewayCommands allows.
LinkImplementsCore == Spec

-----------------------------------------------------------------------------
\* Statements of the repository's documents and tests that the code does not
\* keep.  README.md tells on which instance TLC refutes each.

\* A finished command is not taken up again: its row becomes active only
\* through a new acceptance after it was pruned.
FinishedNotReopened ==
    [][\A i \in Ids : store[i].status \in Finished => store'[i].status \notin Active]_linkVars

=============================================================================
