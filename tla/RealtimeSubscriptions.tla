------------------------ MODULE RealtimeSubscriptions ------------------------
(***************************************************************************)
(* RealTimeSubscriptionManager with its command client: each runtime cycle *)
(* selects the codes to watch, releases the active ones that were not      *)
(* selected and registers the selected ones that are neither active nor    *)
(* pending, by commands the gateway executes at Kiwoom one after another,  *)
(* in an order its rate limiter has a part in.                             *)
(* A code is active only once the acknowledgement of its registration has  *)
(* been handled.  The opening burst pipeline registers codes of its own,   *)
(* on a screen of its own, and the manager handles those acknowledgements  *)
(* too.                                                                    *)
(*                                                                         *)
(* Cycles and event handlers run on the strategy executor's only thread,   *)
(* so each is one step; the steps in between are the gateway's, the Core's *)
(* and Kiwoom's.  This is the runtime with a lifecycle tracker; what the   *)
(* tracker records is left out.  A code's number is its priority.          *)
(***************************************************************************)
EXTENDS Naturals, Sequences, SequencesExt, FiniteSets

CONSTANTS
    Codes,      \* stock codes, numbers
    Protected,  \* codes that may be watched by a protected source
    Opening,    \* codes the opening burst pipeline registers
    MaxCodes,   \* max_codes
    ScreenSize, \* screen_size
    Changes,    \* bound: cycles that change what is wanted
    MaxFaults   \* bound: lost messages and sessions, repairs, expired commands,
                \* cycles that raise, and registrations Kiwoom refuses

ASSUME ConstantsAssumption ==
    /\ Codes \subseteq Nat /\ IsFiniteSet(Codes)
    /\ Protected \subseteq Codes /\ Opening \subseteq Codes
    /\ {MaxCodes, ScreenSize, Changes, MaxFaults} \subseteq Nat
    /\ ScreenSize # 0

VARIABLES
    wanted,    \* records: no record, a record, or a protected record
    active,    \* code_to_screen, 0 for no entry
    slots,     \* screen_to_codes
    pending,   \* pending_register_by_code
    gen,       \* subscription_generation of the client
    queue,     \* commands that were not executed, at Core or at the gateway
    kept,      \* retained dedupe keys of registrations
    open,      \* those whose command Core has as QUEUED or DISPATCHED
    removes,   \* dedupe keys under which remove_realtime was enqueued
    events,    \* events in the gateway's queue
    late,      \* events whose post timed out and that Core may still apply
    jobs,      \* events waiting for the strategy executor
    served,    \* registrations at Kiwoom
    resetDue,  \* the next heartbeat shows another reconnect count or login
    released,  \* history: codes the manager has released
    belated,   \* history: codes whose last registration came by a late event
    changes,
    faults,
    refusals

managerVars == <<active, slots, pending, gen>>
coreVars == <<queue, kept, open, removes>>
gatewayVars == <<events, late, served, resetDue>>
histories == <<released, belated>>
counters == <<changes, faults, refusals>>
vars == <<wanted, managerVars, coreVars, gatewayVars, jobs, histories, counters>>

-----------------------------------------------------------------------------

\* Screens the manager may use, and the screen of the opening burst pipeline.
Screens == 1..(Cardinality(Codes) + 1)
OpeningScreen == Cardinality(Codes) + 2
AllScreens == Screens \cup {OpeningScreen}

RegisterCmd(screen, codes, g, tries) ==
    [type |-> "register", screen |-> screen, codes |-> codes, gen |-> g, tries |-> tries]
RemoveCmd(screen, code) ==
    [type |-> "remove", screen |-> screen, codes |-> <<code>>, gen |-> 0, tries |-> 0]
RemoveAllCmd(g) == [type |-> "remove_all", screen |-> 0, codes |-> <<>>, gen |-> g, tries |-> 0]
Key(cmd) == [screen |-> cmd.screen, codes |-> cmd.codes, gen |-> cmd.gen]

\* An acknowledgement or failure of a command, or a heartbeat of a new session.
Event(kind, cmd) == [kind |-> kind, cmd |-> cmd, late |-> FALSE]
Heartbeat == Event("reset", RemoveAllCmd(0))

Fault == faults + refusals < MaxFaults /\ faults' = faults + 1

Init ==
    /\ wanted = [c \in Codes |-> "no"]
    /\ active = [c \in Codes |-> 0]
    /\ slots = [s \in AllScreens |-> {}]
    /\ pending = [c \in Codes |-> 0]
    /\ gen = 0
    /\ queue = {} /\ kept = {} /\ open = {} /\ removes = {}
    /\ events = <<>> /\ late = {} /\ jobs = <<>>
    /\ served = {}
    /\ resetDue = FALSE
    /\ released = {} /\ belated = {}
    /\ changes = 0
    /\ faults = 0
    /\ refusals = 0

-----------------------------------------------------------------------------
(* A cycle: watch_candidates, ensure_subscription, remove_subscription and  *)
(* sync.                                                                    *)

\* Mutant: the limit cuts protected records off too.
TargetRecords_Bug(w) ==
    LET regular == {c \in Codes : w[c] # "no"}
    IN  {c \in regular : Cardinality({d \in regular : d > c}) < MaxCodes}

\* All protected records, then the others up to the limit.
TargetRecords(w) ==
    LET protected == {c \in Codes : w[c] = "protected"}
        regular == {c \in Codes : w[c] = "regular"}
    IN  protected \cup
        {c \in regular : Cardinality(protected) + Cardinality({d \in regular : d > c}) < MaxCodes}

\* Mutant: only codes that still have a record are looked at.
Gone_Bug(w) == {c \in Codes : active[c] # 0 /\ w[c] # "no" /\ c \notin TargetRecords(w)}

\* Active codes that were not selected.
Gone(w) == {c \in Codes : active[c] # 0 /\ c \notin TargetRecords(w)}

\* _registration_sort_key; the order of the sources, which comes first and only
\* decides over screens, is left out.
Before(w, c, d) ==
    \/ w[c] = "protected" /\ w[d] # "protected"
    \/ (w[c] = "protected" <=> w[d] = "protected") /\ c > d

\* The first screen with room for another code.
ScreenForNewCode(occupied) ==
    CHOOSE s \in Screens :
        /\ Cardinality(occupied[s]) < ScreenSize
        /\ \A r \in Screens : r < s => Cardinality(occupied[r]) >= ScreenSize

\* The screens of the codes, chosen one code after another in the order of the
\* sort: each sees its screens with the codes before it.
Placements(w, codes, occupied) ==
    {at \in [codes -> Screens] : \A c \in codes :
        at[c] = ScreenForNewCode(
            [s \in Screens |-> occupied[s] \cup {d \in codes : Before(w, d, c) /\ at[d] = s}])}

\* The sequence of a set's elements in an order, as a set of one.
Sorted(S, Less(_, _)) ==
    {q \in [1..Cardinality(S) -> S] : \A i, j \in DOMAIN q : i < j => Less(q[i], q[j])}

\* A registration for each screen, of its codes in the order of the sort.
RegisterCmds(w, codes, at) ==
    LET Earlier(c, d) == Before(w, c, d)
        Batch(s) == {c \in codes : at[c] = s}
    IN  UNION {{RegisterCmd(s, batch, gen, 2) : batch \in Sorted(Batch(s), Earlier)} :
                   s \in {at[c] : c \in codes}}

\* The registrations of a cycle.
Registrations(w) ==
    LET new == {c \in TargetRecords(w) : active[c] = 0 /\ pending[c] = 0}
        left == [s \in AllScreens |-> slots[s] \ {c \in Gone(w) : active[c] = s}]
        occupied == [s \in AllScreens |-> left[s] \cup {c \in Codes : pending[c] = s}]
    IN  {RegisterCmds(w, new, at) : at \in Placements(w, new, occupied)}

\* sync, as far as it gets: the popped codes have left code_to_screen, of those
\* done a release was enqueued, and cmds were.  A release under a key that is
\* still retained is refused and forgotten all the same; the key lasts at least
\* as long as its command may be queued.  A registration is pending when it was
\* accepted or is a duplicate of one that has not finished.
SyncUpTo(w, popped, done, cmds) ==
    LET releases == {<<active[c], c>> : c \in done}
        expired == {r \in removes : RemoveCmd(r[1], r[2]) \notin queue}
        accepted == {cmd \in cmds : Key(cmd) \notin kept}
        trackable == accepted \cup {cmd \in cmds : Key(cmd) \in open}
    IN  /\ wanted' = w
        /\ active' = [c \in Codes |-> IF c \in popped THEN 0 ELSE active[c]]
        /\ slots' = [s \in AllScreens |-> slots[s] \ {c \in done : active[c] = s}]
        /\ pending' = [c \in Codes |->
               IF \E cmd \in trackable : c \in Range(cmd.codes)
               THEN (CHOOSE cmd \in trackable : c \in Range(cmd.codes)).screen
               ELSE pending[c]]
        /\ \E again \in SUBSET (releases \cap expired) :
               queue' = queue \cup accepted \cup
                        {RemoveCmd(r[1], r[2]) : r \in (releases \ removes) \cup again}
        /\ kept' = kept \cup {Key(cmd) : cmd \in accepted}
        /\ open' = open \cup {Key(cmd) : cmd \in accepted}
        /\ removes' = removes \cup releases
        /\ released' = released \cup popped

Sync(w) == \E cmds \in Registrations(w) : SyncUpTo(w, Gone(w), Gone(w), cmds)

\* An enqueue raises, at the release of a code or at a registration.
SyncRaises(w) ==
    \/ \E c \in Gone(w) : \E done \in SUBSET (Gone(w) \ {c}) :
           SyncUpTo(w, done \cup {c}, done, {})
    \/ \E all \in Registrations(w) : \E cmds \in SUBSET all :
           cmds # all /\ SyncUpTo(w, Gone(w), Gone(w), cmds)

\* What may be wanted in a cycle.
Wants(w) ==
    /\ \A c \in Codes : w[c] = "protected" => c \in Protected
    /\ w # wanted => changes < Changes
    /\ changes' = IF w = wanted THEN changes ELSE changes + 1

Cycle ==
    /\ \E w \in [Codes -> {"no", "regular", "protected"}] : Wants(w) /\ Sync(w)
    /\ UNCHANGED <<gen, gatewayVars, jobs, belated, faults, refusals>>

CycleRaises ==
    /\ Fault
    /\ \E w \in [Codes -> {"no", "regular", "protected"}] : Wants(w) /\ SyncRaises(w)
    /\ UNCHANGED <<gen, gatewayVars, jobs, belated, refusals>>

\* The opening burst pipeline registers its codes once a day, for one attempt.
OpeningCmd == RegisterCmd(OpeningScreen, SetToSeq(Opening), 0, 1)

RegisterOpening ==
    /\ Opening # {}
    /\ Key(OpeningCmd) \notin kept
    /\ kept' = kept \cup {Key(OpeningCmd)}
    /\ open' = open \cup {Key(OpeningCmd)}
    /\ queue' = queue \cup {OpeningCmd}
    /\ UNCHANGED <<wanted, managerVars, removes, gatewayVars, jobs, histories, counters>>

-----------------------------------------------------------------------------
(* Core and gateway.                                                        *)

\* A command that nobody polls in time expires without an event.
ExpireQueued ==
    \E cmd \in queue :
        /\ Fault
        /\ queue' = queue \ {cmd}
        /\ open' = open \ (IF cmd.type = "register" THEN {Key(cmd)} ELSE {})
        /\ UNCHANGED <<wanted, managerVars, kept, removes, gatewayVars, jobs, histories,
                       changes, refusals>>

\* So does a dispatched registration, in the end when it or its event was lost,
\* and too early when the gateway is slow.
ExpireDispatched ==
    \E k \in open :
        /\ IF \/ \E cmd \in queue : Key(cmd) = k
              \/ \E i \in DOMAIN events : Key(events[i].cmd) = k
           THEN Fault ELSE UNCHANGED faults
        /\ open' = open \ {k}
        /\ UNCHANGED <<wanted, managerVars, queue, kept, removes, gatewayVars, jobs, histories,
                       changes, refusals>>

\* SetRealReg and SetRealRemove at Kiwoom.
After(cmd) ==
    CASE cmd.type = "register" -> served \cup {<<cmd.screen, c>> : c \in Range(cmd.codes)}
      [] cmd.type = "remove" -> served \ {<<cmd.screen, c>> : c \in Range(cmd.codes)}
      [] cmd.type = "remove_all" -> {}

\* The gateway polls a command and executes it.  Its rate limiter puts one whose
\* type was executed a moment ago at the end of the gateway's queue, so that the
\* commands come in any order.  Only a registration looks at Kiwoom's result.  An
\* exception in the poll loses the command and counts as a reconnect.
ExecuteCommand ==
    \E cmd \in queue :
        /\ queue' = queue \ {cmd}
        /\ \/ /\ served' = After(cmd)
              /\ events' = Append(events, Event("ack", cmd))
              /\ UNCHANGED <<resetDue, faults, refusals>>
           \/ /\ cmd.type = "register"
              /\ faults + refusals < MaxFaults
              /\ refusals' = refusals + 1
              /\ events' = Append(events, Event("failed", cmd))
              /\ UNCHANGED <<served, resetDue, faults>>
           \/ /\ Fault
              /\ resetDue' = TRUE
              /\ UNCHANGED <<events, served, refusals>>
        /\ UNCHANGED <<wanted, managerVars, kept, open, removes, late, jobs, histories, changes>>

\* Core receives an event: an acknowledgement finishes the command, a failure
\* queues it again while it is open with attempts left, and the event goes to
\* the strategy executor.
Receive(e) ==
    LET again == e.kind = "failed" /\ e.cmd.tries > 1 /\ Key(e.cmd) \in open
    IN  /\ jobs' = Append(jobs, e)
        /\ queue' = queue \cup IF again THEN {[e.cmd EXCEPT !.tries = @ - 1]} ELSE {}
        /\ open' = IF again THEN open ELSE open \ {Key(e.cmd)}
        /\ UNCHANGED <<wanted, managerVars, kept, removes, served, histories, counters>>

PostEvent ==
    /\ events # <<>>
    /\ events' = Tail(events)
    /\ Receive(Head(events))
    /\ UNCHANGED <<late, resetDue>>

\* An exception while events are posted loses the rest of the drained batch; when
\* it was a timeout, Core may go on with the event that was being posted.
LoseEvents ==
    /\ Fault
    /\ \E n \in 1..Len(events) : events' = SubSeq(events, n + 1, Len(events))
    /\ late' \in {late, late \cup {[Head(events) EXCEPT !.late = TRUE]}}
    /\ resetDue' = TRUE
    /\ UNCHANGED <<wanted, managerVars, coreVars, served, jobs, histories, changes, refusals>>

\* Core goes on, after events that were posted later.  After a heartbeat of an
\* earlier session the next one shows another reconnect count again.
ReceiveLate ==
    \E e \in late :
        /\ late' = late \ {e}
        /\ Receive(e)
        /\ resetDue' = (resetDue \/ (e.kind = "reset" /\ \A i \in DOMAIN events : events[i] # Heartbeat))
        /\ UNCHANGED events

\* Kiwoom drops the session with its registrations and is logged in again, which
\* login_status and the heartbeats in between report.
LoseSession ==
    /\ Fault
    /\ served' = {}
    /\ resetDue' = TRUE
    /\ UNCHANGED <<wanted, managerVars, coreVars, events, late, jobs, histories, changes, refusals>>

SendHeartbeat ==
    /\ resetDue
    /\ resetDue' = FALSE
    /\ events' = Append(events, Heartbeat)
    /\ UNCHANGED <<wanted, managerVars, coreVars, late, served, jobs, histories, counters>>

-----------------------------------------------------------------------------
(* The strategy executor.                                                   *)

\* Mutant: the mappings of the old session are kept.
MarkAllStale_Bug ==
    /\ pending' = [c \in Codes |-> 0]
    /\ UNCHANGED <<gen, queue, active, slots>>

\* mark_all_stale: a new generation and a remove_all_realtime, but only when
\* something is active.
MarkAllStale ==
    LET had == (\E c \in Codes : active[c] # 0) \/ (\E s \in AllScreens : slots[s] # {})
    IN  /\ gen' = IF had THEN gen + 1 ELSE gen
        /\ queue' = IF had THEN queue \cup {RemoveAllCmd(gen + 1)} ELSE queue
        /\ active' = [c \in Codes |-> 0]
        /\ slots' = [s \in AllScreens |-> {}]
        /\ pending' = [c \in Codes |-> 0]

\* Mutant: the screen's codes are not updated with the code's screen.
ApplyAck_Bug(cmd) ==
    LET screen == IF cmd.type = "register" THEN cmd.screen ELSE 0
        codes == Range(cmd.codes)
    IN  /\ active' = [c \in Codes |-> IF c \in codes THEN screen ELSE active[c]]
        /\ pending' = [c \in Codes |-> IF c \in codes THEN 0 ELSE pending[c]]
        /\ UNCHANGED slots

\* _apply_realtime_command_ack: a registration makes its codes active, wanted or
\* not and whatever screen they were on; a release forgets them on any screen.
ApplyAck(cmd) ==
    IF cmd.type = "register"
    THEN LET codes == Range(cmd.codes)
         IN  /\ active' = [c \in Codes |-> IF c \in codes THEN cmd.screen ELSE active[c]]
             /\ slots' = [slots EXCEPT ![cmd.screen] = @ \cup codes]
             /\ pending' = [c \in Codes |-> IF c \in codes THEN 0 ELSE pending[c]]
    ELSE LET codes == IF cmd.type = "remove" THEN Range(cmd.codes)
                      ELSE {c \in Codes : active[c] # 0}
         IN  /\ active' = [c \in Codes |-> IF c \in codes THEN 0 ELSE active[c]]
             /\ slots' = [s \in AllScreens |-> slots[s] \ {c \in codes : active[c] = s}]
             /\ pending' = [c \in Codes |-> IF c \in codes THEN 0 ELSE pending[c]]

\* _apply_realtime_command_failed, of a registration
ApplyFailed(cmd) ==
    /\ pending' = [c \in Codes |-> IF c \in Range(cmd.codes) THEN 0 ELSE pending[c]]
    /\ UNCHANGED <<active, slots>>

BelatedBy(e) ==
    LET codes == IF e.kind = "ack" /\ e.cmd.type = "register" THEN Range(e.cmd.codes) ELSE {}
    IN  IF e.late THEN belated \cup codes ELSE belated \ codes

HandleEvent ==
    /\ jobs # <<>>
    /\ jobs' = Tail(jobs)
    /\ LET e == Head(jobs)
       IN  \/ e.kind = "reset" /\ MarkAllStale
           \/ e.kind = "ack" /\ ApplyAck(e.cmd) /\ UNCHANGED <<gen, queue>>
           \/ e.kind = "failed" /\ ApplyFailed(e.cmd) /\ UNCHANGED <<gen, queue>>
    /\ belated' = BelatedBy(Head(jobs))
    /\ UNCHANGED <<wanted, kept, open, removes, gatewayVars, released, counters>>

\* After a cycle without a price tick although something is active.
RepairNoTicks ==
    /\ \E c \in Codes : active[c] # 0
    /\ Fault
    /\ MarkAllStale
    /\ UNCHANGED <<wanted, kept, open, removes, gatewayVars, jobs, histories, changes, refusals>>

Next ==
    \/ Cycle \/ CycleRaises \/ RegisterOpening
    \/ ExpireQueued \/ ExpireDispatched \/ ExecuteCommand
    \/ PostEvent \/ LoseEvents \/ ReceiveLate \/ LoseSession \/ SendHeartbeat
    \/ HandleEvent \/ RepairNoTicks

Spec == Init /\ [][Next]_vars

\* Cycles go on, the gateway polls, executes, posts and sends heartbeats on
\* timers, and the executor runs what it is given.
Fairness ==
    /\ WF_vars(Cycle) /\ WF_vars(ExecuteCommand)
    /\ WF_vars(PostEvent) /\ WF_vars(SendHeartbeat) /\ WF_vars(HandleEvent)

FairSpec == Spec /\ Fairness

-----------------------------------------------------------------------------
(* Properties.                                                              *)

TypeOK ==
    /\ wanted \in [Codes -> {"no", "regular", "protected"}]
    /\ active \in [Codes -> AllScreens \cup {0}]
    /\ slots \in [AllScreens -> SUBSET Codes]
    /\ pending \in [Codes -> Screens \cup {0}]
    /\ \A c \in Codes : active[c] # 0 => c \in slots[active[c]]
    /\ open \subseteq kept
    /\ served \subseteq AllScreens \X Codes
    /\ belated \subseteq Codes

\* The commands that wait at Core or at the gateway, or of which a report waits.
OnTheirWay ==
    queue \cup {events[i].cmd : i \in DOMAIN events} \cup {jobs[i].cmd : i \in DOMAIN jobs}

\* The code's release, a remove_all_realtime or the news of a lost session is on
\* its way.
Withdrawn(c) ==
    \/ resetDue
    \/ \E cmd \in OnTheirWay :
           cmd.type = "remove_all" \/ (cmd.type = "remove" /\ c \in Range(cmd.codes))

\* A code in code_to_screen is registered at Kiwoom on that very screen, unless
\* its release, a remove_all_realtime or the news of a lost session is still on
\* its way, or the acknowledgement that made it active was applied late, after
\* its post had timed out: commands in any order, resets, repairs and lost
\* acknowledgements leave no code that counts as active and gets no ticks.
ActiveIsServedUnlessLate ==
    \A c \in Codes : active[c] # 0 =>
        <<active[c], c>> \in served \/ Withdrawn(c) \/ c \in belated

\* A code that stays protected and was never released becomes and stays active,
\* although others have a higher priority, the limit is reached, Kiwoom refuses
\* it once, or the opening burst registers it as well; as long as no message,
\* command or session is lost.
ProtectedGetsServed ==
    \A c \in Protected :
        <>[](wanted[c] = "protected" /\ c \notin released /\ faults = 0 /\ refusals <= 1)
            => <>[](active[c] # 0)

\* A code that nobody wants any more leaves code_to_screen for good, also when
\* the acknowledgement of its registration comes after it was given up.
UnwantedGoes == \A c \in Codes : <>[](wanted[c] = "no") => <>[](active[c] = 0)

-----------------------------------------------------------------------------
(* What the code does not keep.  README.md tells on which instance TLC       *)
(* refutes each.                                                            *)

Quiet == queue = {} /\ events = <<>> /\ jobs = <<>> /\ ~resetDue

\* ActiveIsServedUnlessLate, for every code: an acknowledgement that is applied
\* after the heartbeat of the next session makes its codes active, since
\* _apply_realtime_command_ack does not look at the subscription generation.
ActiveIsServed ==
    \A c \in Codes : active[c] # 0 => <<active[c], c>> \in served \/ Withdrawn(c)

\* tests/test_realtime_subscription.py:163 asserts that a code whose subscription
\* is removed is not registered any more after the sync.
DroppedIsReleased == Quiet /\ (\A c \in Codes : active[c] = 0) => served = {}

\* A protected code that was released before is registered again.
WantedGetsServed ==
    \A c \in Codes :
        <>[](wanted[c] = "protected" /\ faults = 0) => <>[](active[c] # 0)

\* No screen gets more codes than screen_size.
ScreenFits ==
    \A s \in Screens : Cardinality({c \in Codes : <<s, c>> \in served}) <= ScreenSize
=============================================================================
