-------------------------- MODULE RuntimeSupervisor --------------------------
(***************************************************************************)
(* RuntimeSupervisor: start, stop, restart and manual cycles come as       *)
(* requests to the Core's event loop, where they and the periodic loop     *)
(* task interleave at every await.  What they have done to the runtime     *)
(* runs on an executor with one thread, first in first out.  A cycle that  *)
(* takes longer than runtime_cycle_timeout_sec is given up by its waiter   *)
(* and goes on in the executor; stopping cancels the loop task but not     *)
(* the cycle it waits for.                                                 *)
(*                                                                         *)
(* A step of the event loop is what happens between two awaits.  The       *)
(* continuations of start and stop run in the order their jobs finished    *)
(* (call_soon_threadsafe keeps it); a cycle's waiter, behind wait_for and  *)
(* shield, may run later.                                                  *)
(*                                                                         *)
(* Each request, and each cycle of the loop, ends with status(), which     *)
(* reads the command table and may raise: a restart whose stop raises does *)
(* not come to its start, and the loop task ends.                          *)
(***************************************************************************)
EXTENDS Naturals, Sequences

CONSTANTS
    Clients,  \* requests that are handled at the same time
    LoopTask, \* the owner of the loop's cycles
    Futures   \* bound: cycle futures not yet consumed; a cycle starts when one is free

ASSUME ConstantsAssumption ==
    /\ LoopTask \notin Clients
    /\ Futures \subseteq Nat \ {0}

VARIABLES
    running,  \* self.running
    bundle,   \* whether self._bundle is built
    loop,     \* loop_task: none, sleep, cycle, done, or failed (done, by an exception
              \*   while running, and not stopped since)
    cancelled,\* whether the loop task has been cancelled
    step,     \* what each client's request awaits
    restart,  \* clients whose request is a restart
    waits,    \* the future each task is waiting for
    jobs,     \* the executor: its head is being run when busy
    busy,
    results,  \* finished start and stop jobs whose continuation has not run
    future,   \* self._cycle_future, or 0
    lock,     \* whether _cycle_lock is held
    late      \* futures with a _consume_late_cycle_future callback

vars == <<running, bundle, loop, cancelled, step, restart, waits, jobs, busy,
          results, future, lock, late>>

-----------------------------------------------------------------------------

Tasks == Clients \cup {LoopTask}

\* A future is done when its job has left the executor.
Outstanding(f) == \E i \in DOMAIN jobs : jobs[i].kind = "cycle" /\ jobs[i].future = f
InUse(f) == Outstanding(f) \/ f = future \/ f \in late \/ \E t \in Tasks : waits[t] = f

Submit(job) == jobs' = Append(jobs, job)
Job(kind, owner) == [kind |-> kind, owner |-> owner, future |-> 0]

Init ==
    /\ running = FALSE
    /\ bundle = FALSE
    /\ loop = "none"
    /\ cancelled = FALSE
    /\ step = [c \in Clients |-> "idle"]
    /\ restart = {}
    /\ waits = [t \in Tasks |-> 0]
    /\ jobs = <<>>
    /\ busy = FALSE
    /\ results = <<>>
    /\ future = 0
    /\ lock = FALSE
    /\ late = {}

-----------------------------------------------------------------------------
\* start.

\* Up to its await: nothing to do when the runtime is running.
BeginStart(c) ==
    IF running
    THEN step' = [step EXCEPT ![c] = "idle"] /\ jobs' = jobs
    ELSE step' = [step EXCEPT ![c] = "start"] /\ Submit(Job("start", c))

Start(c) ==
    /\ step[c] = "idle"
    /\ BeginStart(c)
    /\ UNCHANGED <<running, bundle, loop, cancelled, restart, waits, busy, results, future, lock, late>>

\* After it: running is set and there is a loop task, unless it failed.
LoopStarted_Bug == loop = "none"
LoopStarted == loop \in {"none", "done", "failed"}

StartDone(c) ==
    /\ results # <<>>
    /\ Head(results).kind = "start" /\ Head(results).owner = c
    /\ results' = Tail(results)
    /\ step' = [step EXCEPT ![c] = "idle"]
    /\ IF Head(results).ok
       THEN /\ running' = TRUE
            /\ loop' = IF LoopStarted THEN "sleep" ELSE loop
            /\ cancelled' = IF LoopStarted THEN FALSE ELSE cancelled
       ELSE UNCHANGED <<running, loop, cancelled>>
    /\ UNCHANGED <<bundle, restart, waits, jobs, busy, future, lock, late>>

-----------------------------------------------------------------------------
\* stop and restart.

LoopAlive == loop \in {"sleep", "cycle"}

\* A task that failed is, once stopped, one that is done.
LoopStopped == IF loop = "failed" THEN "done" ELSE loop

\* stop, up to its first await; a restart goes on with start when there was
\* nothing to stop, unless status() raised.
Stop(c, again) ==
    /\ step[c] = "idle"
    /\ IF ~running /\ ~bundle
       THEN /\ (again /\ BeginStart(c)) \/ UNCHANGED <<step, jobs>>
            /\ UNCHANGED <<running, loop, cancelled, restart>>
       ELSE /\ running' = FALSE
            /\ loop' = LoopStopped
            /\ restart' = IF again THEN restart \cup {c} ELSE restart
            /\ IF LoopAlive
               THEN /\ cancelled' = TRUE
                    /\ step' = [step EXCEPT ![c] = "loopEnd"]
                    /\ jobs' = jobs
               ELSE /\ cancelled' = cancelled
                    /\ step' = [step EXCEPT ![c] = "stop"]
                    /\ Submit(Job("stop", c))
    /\ UNCHANGED <<bundle, waits, busy, results, future, lock, late>>

\* The cancelled loop task ends and wakes who awaits it; the cycle it waits
\* for does not end, and stays in _cycle_future.
CancelLoop ==
    /\ cancelled
    /\ LoopAlive
    /\ loop' = "done"
    /\ cancelled' = FALSE
    /\ lock' = IF loop = "cycle" THEN FALSE ELSE lock
    /\ waits' = [waits EXCEPT ![LoopTask] = 0]
    /\ step' = [c \in Clients |-> IF step[c] = "loopEnd" THEN "loopEnded" ELSE step[c]]
    /\ UNCHANGED <<running, bundle, restart, jobs, busy, results, future, late>>

LoopEnded(c) ==
    /\ step[c] = "loopEnded"
    /\ step' = [step EXCEPT ![c] = "stop"]
    /\ Submit(Job("stop", c))
    /\ UNCHANGED <<running, bundle, loop, cancelled, restart, waits, busy, results, future, lock, late>>

\* A restart goes on with its start, unless status() raised.
StopDone(c) ==
    /\ results # <<>>
    /\ Head(results).kind = "stop" /\ Head(results).owner = c
    /\ results' = Tail(results)
    /\ running' = FALSE
    /\ loop' = LoopStopped
    /\ restart' = restart \ {c}
    /\ \/ /\ c \in restart
          /\ step' = [step EXCEPT ![c] = "start"]
          /\ Submit(Job("start", c))
       \/ step' = [step EXCEPT ![c] = "idle"] /\ jobs' = jobs
    /\ UNCHANGED <<bundle, cancelled, waits, busy, future, lock, late>>

-----------------------------------------------------------------------------
\* run_once.

\* _cycle_worker_pending.
Pending_Bug == FALSE
Pending_Late == future # 0
Pending == future # 0 /\ Outstanding(future)

\* The cycle is skipped when one is in the executor or being waited for.
Admits == running /\ ~Pending /\ ~lock

BeginCycle(t) ==
    \E f \in Futures :
        /\ ~InUse(f)
        /\ \A g \in Futures : g < f => InUse(g)
        /\ Submit([kind |-> "cycle", owner |-> t, future |-> f])
        /\ future' = f
        /\ lock' = TRUE
        /\ waits' = [waits EXCEPT ![t] = f]

RunManually(c) ==
    /\ step[c] = "idle"
    /\ Admits
    /\ step' = [step EXCEPT ![c] = "cycle"]
    /\ BeginCycle(c)
    /\ UNCHANGED <<running, bundle, loop, cancelled, restart, busy, results, late>>

\* loop_forever: the sleep is over.
LoopWakes ==
    /\ loop = "sleep" /\ ~cancelled
    /\ \/ /\ ~running
          /\ loop' = "done"
          /\ UNCHANGED <<jobs, future, lock, waits>>
       \/ /\ Admits
          /\ loop' = "cycle"
          /\ BeginCycle(LoopTask)
    /\ UNCHANGED <<running, bundle, cancelled, step, restart, busy, results, late>>

\* The cycle was skipped and status() raised: loop_forever logs it and ends.
LoopFails ==
    /\ loop = "sleep" /\ ~cancelled
    /\ running /\ ~Admits
    /\ loop' = "failed"
    /\ UNCHANGED <<running, bundle, cancelled, step, restart, waits, jobs, busy, results, future, lock, late>>

\* The waiter of a cycle goes on, with the lock released; the loop ends when
\* status() raised.
Resume(t) ==
    /\ waits[t] # 0
    /\ waits' = [waits EXCEPT ![t] = 0]
    /\ lock' = FALSE
    /\ IF t = LoopTask
       THEN /\ ~cancelled
            /\ loop' \in IF running THEN {"sleep", "failed"} ELSE {"done"}
            /\ step' = step
       ELSE step' = [step EXCEPT ![t] = "idle"] /\ loop' = loop
    /\ UNCHANGED <<running, bundle, cancelled, restart, jobs, busy, results>>

CycleReturns(t) ==
    /\ ~Outstanding(waits[t])
    /\ Resume(t)
    /\ future' = IF future = waits[t] THEN 0 ELSE future
    /\ late' = late

CycleTimesOut(t) ==
    /\ Outstanding(waits[t])
    /\ Resume(t)
    /\ late' = late \cup {waits[t]}
    /\ future' = future

\* _consume_late_cycle_future.
LateCycleDone(f) ==
    /\ f \in late
    /\ ~Outstanding(f)
    /\ late' = late \ {f}
    /\ future' = IF future = f THEN 0 ELSE future
    /\ UNCHANGED <<running, bundle, loop, cancelled, step, restart, waits, jobs, busy, results, lock>>

-----------------------------------------------------------------------------
\* The executor's thread.

\* _start_in_worker builds the runtime first, if there is none.
BeginJob ==
    /\ jobs # <<>> /\ ~busy
    /\ busy' = TRUE
    /\ bundle' = (bundle \/ Head(jobs).kind = "start")
    /\ UNCHANGED <<running, loop, cancelled, step, restart, waits, jobs, results, future, lock, late>>

\* _stop_in_worker drops the runtime in the end, whether its stop raised or not.
EndJob_Bug(ok) ==
    /\ busy
    /\ busy' = FALSE
    /\ jobs' = Tail(jobs)
    /\ bundle' = (bundle /\ Head(jobs).kind # "stop")
    /\ results' = Append(results, [kind |-> Head(jobs).kind, owner |-> Head(jobs).owner, ok |-> ok])
    /\ UNCHANGED <<running, loop, cancelled, step, restart, waits, future, lock, late>>
EndJob(ok) ==
    /\ busy
    /\ busy' = FALSE
    /\ jobs' = Tail(jobs)
    /\ bundle' = (bundle /\ Head(jobs).kind # "stop")
    /\ results' = IF Head(jobs).kind = "cycle" THEN results
                  ELSE Append(results, [kind |-> Head(jobs).kind, owner |-> Head(jobs).owner,
                                        ok |-> ok])
    /\ UNCHANGED <<running, loop, cancelled, step, restart, waits, future, lock, late>>

\* Building the runtime raised.
BuildFails ==
    /\ jobs # <<>> /\ ~busy
    /\ Head(jobs).kind = "start" /\ ~bundle
    /\ jobs' = Tail(jobs)
    /\ results' = Append(results, [kind |-> "start", owner |-> Head(jobs).owner, ok |-> FALSE])
    /\ UNCHANGED <<running, bundle, loop, cancelled, step, restart, waits, busy, future, lock, late>>

Work == BeginJob \/ (\E ok \in BOOLEAN : EndJob(ok)) \/ BuildFails

EventLoop ==
    \/ \E c \in Clients : StartDone(c) \/ LoopEnded(c) \/ StopDone(c)
    \/ CancelLoop
    \/ \E f \in Futures : LateCycleDone(f)

Request(c) == Start(c) \/ Stop(c, FALSE) \/ Stop(c, TRUE) \/ RunManually(c)

Next ==
    \/ \E c \in Clients : Request(c)
    \/ EventLoop
    \/ LoopWakes \/ LoopFails
    \/ \E t \in Tasks : CycleReturns(t) \/ CycleTimesOut(t)
    \/ Work

Spec == Init /\ [][Next]_vars

\* The event loop and the thread run; jobs end.  Nothing is assumed of the
\* requests, a cycle may always time out and status() need not raise.
FairSpec ==
    /\ Spec
    /\ WF_vars(EventLoop)
    /\ WF_vars(LoopWakes)
    /\ \A t \in Tasks : WF_vars(CycleReturns(t))
    /\ WF_vars(Work)

-----------------------------------------------------------------------------
\* Properties.

\* The supervisor's fields have their types.
TypeOK ==
    /\ {running, bundle, cancelled, busy, lock} \subseteq BOOLEAN
    /\ loop \in {"none", "sleep", "cycle", "done", "failed"}
    /\ step \in [Clients -> {"idle", "start", "loopEnd", "loopEnded", "stop", "cycle"}]
    /\ restart \subseteq Clients
    /\ waits \in [Tasks -> Futures \cup {0}]
    /\ jobs \in Seq([kind : {"start", "stop", "cycle"}, owner : Tasks, future : Futures \cup {0}])
    /\ results \in Seq([kind : {"start", "stop"}, owner : Clients, ok : BOOLEAN])
    /\ future \in Futures \cup {0}
    /\ late \subseteq Futures

\* docs/core_strategy_runtime_loop_runbook.md, "prevents overlapping cycles":
\* the executor never holds two cycles, although a cycle outlives the waiter
\* that timed out or was cancelled by a stop, and the lock it held.
NoOverlap ==
    \A i, j \in DOMAIN jobs : jobs[i].kind = "cycle" /\ jobs[j].kind = "cycle" => i = j

\* When no start or stop is under way.
Settled == \A c \in Clients : step[c] \in {"idle", "cycle"}

\* What running says is true: once starts and stops that overlapped in any way
\* have all returned, a running supervisor has its runtime, and a loop task that
\* is alive and not being cancelled unless an exception has ended it since the
\* last stop.  A restart therefore revives a loop that failed.
RunningIsAlive ==
    Settled /\ running => bundle /\ (loop = "failed" \/ (LoopAlive /\ ~cancelled))

\* The periodic cycles go on: while the supervisor stays up and no exception
\* ends its loop, whatever timed out, was cancelled or came late before, another
\* cycle is run.
CyclesGoOn ==
    <>[](Settled /\ running /\ loop # "failed") =>
        []<>(\E i \in DOMAIN jobs : jobs[i].kind = "cycle")

=============================================================================
