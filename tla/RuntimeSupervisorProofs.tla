----------------------- MODULE RuntimeSupervisorProofs -----------------------
(***************************************************************************)
(* Proofs about RuntimeSupervisor, for any number of clients and futures.  *)
(***************************************************************************)
EXTENDS RuntimeSupervisor, SequenceTheorems, TLAPS

-----------------------------------------------------------------------------
\* The inductive invariant.

JobKinds == [kind : {"start", "stop", "cycle"}, owner : Tasks, future : Futures \cup {0}]
ResultKinds == [kind : {"start", "stop"}, owner : Clients, ok : BOOLEAN]

\* A cycle in the executor is the one in _cycle_future, so there is only one.
CycleIsKnown ==
    \A i \in 1..Len(jobs) : jobs[i].kind = "cycle" =>
        future # 0 /\ jobs[i].future = future

BusyHasJob == busy => jobs # <<>>

\* Each start and stop in the executor, or finished there, is awaited by its
\* client, and each client awaits one.
JobIsAwaited ==
    \A i \in 1..Len(jobs) : jobs[i].kind # "cycle" =>
        jobs[i].owner \in Clients /\ step[jobs[i].owner] = jobs[i].kind
ResultIsAwaited ==
    \A i \in 1..Len(results) : step[results[i].owner] = results[i].kind
OneJob ==
    \A i, j \in 1..Len(jobs) :
        jobs[i].kind # "cycle" /\ jobs[j].kind # "cycle" /\ jobs[i].owner = jobs[j].owner => i = j
OneResult ==
    \A i, j \in 1..Len(results) : results[i].owner = results[j].owner => i = j
JobOrResult ==
    \A i \in 1..Len(jobs), j \in 1..Len(results) :
        jobs[i].kind # "cycle" => jobs[i].owner # results[j].owner

\* A start being run has built the runtime.
StartBuilds == busy /\ jobs[1].kind = "start" => bundle

\* Without a runtime the supervisor is not running, or will not be when the
\* results have been handled: a stop follows every successful start.
NoBundleEnds ==
    ~bundle =>
        /\ running => \E i \in 1..Len(results) : results[i].kind = "stop"
        /\ \A j \in 1..Len(results) : results[j].kind = "start" /\ results[j].ok =>
              \E i \in 1..Len(results) : j < i /\ results[i].kind = "stop"

\* The loop task is cancelled for a stop that awaits its end, and a supervisor
\* that runs without a loop task is being stopped, or its loop failed.
CancelIsAwaited == cancelled => LoopAlive /\ \E c \in Clients : step[c] = "loopEnd"
DeadLoopIsStopped ==
    running /\ ~LoopAlive /\ loop # "failed" => \E c \in Clients : step[c] \in {"loopEnded", "stop"}

\* A client that waits for a cycle's future asked for that cycle.
WaiterAsked == \A c \in Clients : waits[c] # 0 => step[c] = "cycle"

SupervisorInv ==
    /\ TypeOK
    /\ WaiterAsked
    /\ CycleIsKnown
    /\ NoOverlap
    /\ BusyHasJob
    /\ JobIsAwaited /\ ResultIsAwaited /\ OneJob /\ OneResult /\ JobOrResult
    /\ StartBuilds
    /\ NoBundleEnds
    /\ CancelIsAwaited
    /\ DeadLoopIsStopped

-----------------------------------------------------------------------------
\* Facts about the two queues.

LEMMA AppendFacts ==
    ASSUME NEW S, NEW s \in Seq(S), NEW e \in S
    PROVE  /\ Append(s, e) \in Seq(S)
           /\ Len(Append(s, e)) = Len(s) + 1
           /\ \A i \in 1..Len(s) : Append(s, e)[i] = s[i]
           /\ Append(s, e)[Len(s) + 1] = e
           /\ Append(s, e) # <<>>
           /\ Len(s) \in Nat
           /\ s # <<>> => 1 \in 1..Len(s)
  BY AppendProperties, LenProperties, EmptySeq

LEMMA TailFacts ==
    ASSUME NEW S, NEW s \in Seq(S), s # <<>>
    PROVE  /\ Tail(s) \in Seq(S)
           /\ Len(Tail(s)) = Len(s) - 1
           /\ \A i \in 1..Len(Tail(s)) : i + 1 \in 1..Len(s) /\ Tail(s)[i] = s[i + 1]
           /\ \A i \in 2..Len(s) : i - 1 \in 1..Len(Tail(s)) /\ Tail(s)[i - 1] = s[i]
           /\ Head(s) = s[1] /\ Head(s) \in S
           /\ 1 \in 1..Len(s)
           /\ Len(s) \in Nat
  <1>1. Len(s) \in Nat /\ Len(s) # 0
    BY LenProperties, EmptySeq
  <1>2. Tail(s) \in Seq(S) /\ Head(s) \in S /\ Len(Tail(s)) = Len(s) - 1
    BY HeadTailProperties
  <1>3. \A i \in 1..Len(Tail(s)) : Tail(s)[i] = s[i + 1]
    BY HeadTailProperties
  <1>4. Head(s) = s[1]
    OBVIOUS
  <1> QED
    BY <1>1, <1>2, <1>3, <1>4

\* The elements of the two queues have the types TypeOK gives them.
LEMMA Elements ==
    ASSUME TypeOK
    PROVE  /\ Len(jobs) \in Nat /\ Len(results) \in Nat
           /\ DOMAIN jobs = 1..Len(jobs)
           /\ jobs \in Seq(JobKinds) /\ results \in Seq(ResultKinds)
           /\ \A i \in 1..Len(jobs) : jobs[i] \in JobKinds
           /\ \A i \in 1..Len(results) : results[i] \in ResultKinds
  <1>1. jobs \in Seq(JobKinds) /\ results \in Seq(ResultKinds)
    BY DEF TypeOK, JobKinds, ResultKinds
  <1> QED
    BY <1>1, ElementOfSeq, LenProperties

\* A client that is idle, or waits for a cycle or for the end of the loop task,
\* has no start or stop in the executor and none finished there.
LEMMA NothingAwaited ==
    ASSUME SupervisorInv, NEW c \in Clients, step[c] \notin {"start", "stop"}
    PROVE  /\ \A i \in 1..Len(jobs) : jobs[i].kind # "cycle" => jobs[i].owner # c
           /\ \A i \in 1..Len(results) : results[i].owner # c
  <1>1. TypeOK /\ JobIsAwaited /\ ResultIsAwaited
    BY DEF SupervisorInv
  <1>2. ASSUME NEW i \in 1..Len(jobs), jobs[i].kind # "cycle" PROVE jobs[i].owner # c
    <2>1. jobs[i].kind \in {"start", "stop"}
      BY <1>1, <1>2, Elements DEF JobKinds
    <2> QED BY <1>1, <1>2, <2>1 DEF JobIsAwaited
  <1>3. ASSUME NEW i \in 1..Len(results) PROVE results[i].owner # c
    BY <1>1, Elements DEF ResultIsAwaited, ResultKinds
  <1> QED BY <1>2, <1>3

\* The part of the invariant about the executor's queue.
JobsInv ==
    /\ CycleIsKnown /\ NoOverlap
    /\ JobIsAwaited /\ OneJob
    /\ BusyHasJob

\* What the executor holds when a client submits a start or a stop.
LEMMA Submitting ==
    ASSUME SupervisorInv, NEW c \in Clients, NEW k \in {"start", "stop"},
           \A i \in 1..Len(jobs) : jobs[i].kind # "cycle" => jobs[i].owner # c,
           \A i \in 1..Len(results') : results'[i].owner # c,
           \A i \in 1..Len(results') :
               \E j \in 1..Len(results) : results'[i] = results[j],
           step' = [step EXCEPT ![c] = k],
           jobs' = Append(jobs, Job(k, c)),
           UNCHANGED <<busy, future, bundle>>
    PROVE  /\ jobs' \in Seq(JobKinds)
           /\ JobsInv'
           /\ JobOrResult'
           /\ StartBuilds'
  <1> DEFINE n == Len(jobs)
  <1>1. Job(k, c) \in JobKinds /\ Job(k, c).kind = k /\ Job(k, c).owner = c
    BY DEF Job, JobKinds, Tasks
  <1>2. TypeOK
    BY DEF SupervisorInv
  <1>3. /\ jobs' \in Seq(JobKinds) /\ Len(jobs') = n + 1 /\ n \in Nat
        /\ \A i \in 1..n : jobs'[i] = jobs[i]
        /\ jobs'[n + 1] = Job(k, c)
        /\ jobs' # <<>>
        /\ jobs # <<>> => 1 \in 1..n
    BY <1>1, <1>2, Elements, AppendFacts
  <1>4. \A i \in 1..Len(jobs') : i \in 1..n \/ i = n + 1
    BY <1>3
  <1> HIDE DEF n
  <1>5. CycleIsKnown'
    BY <1>1, <1>3, <1>4 DEF SupervisorInv, CycleIsKnown, n
  <1>6. NoOverlap'
    <2>1. DOMAIN jobs' = 1..Len(jobs') /\ DOMAIN jobs = 1..n
      BY <1>2, <1>3, Elements, LenProperties DEF n
    <2> QED BY <1>1, <1>3, <1>4, <2>1 DEF SupervisorInv, NoOverlap
  <1>7. JobIsAwaited'
    <2> SUFFICES ASSUME NEW i \in 1..Len(jobs'), jobs'[i].kind # "cycle"
                 PROVE  jobs'[i].owner \in Clients /\ step'[jobs'[i].owner] = jobs'[i].kind
      BY DEF JobIsAwaited
    <2>1. step \in [Clients -> {"idle", "start", "loopEnd", "loopEnded", "stop", "cycle"}]
      BY <1>2 DEF TypeOK
    <2>2. CASE i = n + 1
      BY <1>1, <1>3, <2>1, <2>2
    <2>3. CASE i \in 1..n
      <3>1. jobs'[i] = jobs[i] /\ jobs[i].owner \in Clients /\ step[jobs[i].owner] = jobs[i].kind
        BY <1>3, <2>3 DEF SupervisorInv, JobIsAwaited, n
      <3>2. jobs[i].owner # c
        BY <1>3, <2>3 DEF n
      <3> QED BY <2>1, <3>1, <3>2
    <2> QED BY <1>4, <2>2, <2>3
  <1>8. OneJob'
    BY <1>1, <1>3, <1>4 DEF SupervisorInv, OneJob, n
  <1>9. JobOrResult'
    BY <1>1, <1>3, <1>4 DEF SupervisorInv, JobOrResult, n
  <1>10. BusyHasJob'
    BY <1>3 DEF BusyHasJob
  <1>11. StartBuilds'
    <2>1. busy => jobs # <<>>
      BY DEF SupervisorInv, BusyHasJob
    <2> QED BY <1>3, <2>1 DEF SupervisorInv, StartBuilds
  <1> QED BY <1>3, <1>5, <1>6, <1>7, <1>8, <1>9, <1>10, <1>11 DEF JobsInv

\* What the executor holds, and what has left it, is awaited as before when a
\* client that awaits none of it goes on.
LEMMA GoingOn ==
    ASSUME SupervisorInv, NEW c \in Clients, NEW k,
           \A i \in 1..Len(jobs) : jobs[i].kind # "cycle" => jobs[i].owner # c,
           step' = [step EXCEPT ![c] = k], jobs' = jobs
    PROVE  JobIsAwaited'
  <1>1. step \in [Clients -> {"idle", "start", "loopEnd", "loopEnded", "stop", "cycle"}]
    BY DEF SupervisorInv, TypeOK
  <1> QED BY <1>1 DEF SupervisorInv, JobIsAwaited

LEMMA GoingOnResults ==
    ASSUME SupervisorInv, NEW c \in Clients, NEW k,
           \A i \in 1..Len(results) : results[i].owner # c,
           step' = [step EXCEPT ![c] = k], results' = results
    PROVE  ResultIsAwaited'
  <1>1. step \in [Clients -> {"idle", "start", "loopEnd", "loopEnded", "stop", "cycle"}]
    BY DEF SupervisorInv, TypeOK
  <1>2. \A i \in 1..Len(results) : results[i].owner \in Clients
    BY Elements DEF SupervisorInv, ResultKinds
  <1> QED BY <1>1, <1>2 DEF SupervisorInv, ResultIsAwaited

LEMMA FewerResults ==
    ASSUME SupervisorInv, jobs' = jobs,
           \A i \in 1..Len(results') : \E j \in 1..Len(results) : results'[i] = results[j]
    PROVE  JobOrResult'
  <1> SUFFICES ASSUME NEW i \in 1..Len(jobs), NEW j \in 1..Len(results'), jobs[i].kind # "cycle"
               PROVE  jobs[i].owner # results'[j].owner
    BY DEF JobOrResult
  <1>1. PICK k \in 1..Len(results) : results'[j] = results[k]
    OBVIOUS
  <1> QED BY <1>1 DEF SupervisorInv, JobOrResult

LEMMA WaitersStay ==
    ASSUME SupervisorInv, waits' = waits,
           \A c \in Clients : step[c] = "cycle" => step'[c] = "cycle"
    PROVE  WaiterAsked'
  BY DEF SupervisorInv, WaiterAsked

-----------------------------------------------------------------------------
\* Every step keeps the invariant.

LEMMA InitInv == Init => SupervisorInv
  <1> SUFFICES ASSUME Init PROVE SupervisorInv
    OBVIOUS
  <1>1. jobs = <<>> /\ results = <<>> /\ Len(jobs) = 0 /\ Len(results) = 0 /\ DOMAIN jobs = {}
    BY DEF Init
  <1>2. jobs \in Seq(JobKinds) /\ results \in Seq(ResultKinds)
    BY <1>1, EmptySeq
  <1>3. TypeOK
    BY <1>2, ConstantsAssumption DEF Init, TypeOK, JobKinds, ResultKinds
  <1>4. JobsInv
    BY <1>1 DEF Init, JobsInv, CycleIsKnown, NoOverlap, JobIsAwaited, OneJob, BusyHasJob
  <1>5. WaiterAsked
    BY DEF Init, WaiterAsked, Tasks
  <1> QED
    BY <1>1, <1>3, <1>4, <1>5 DEF Init, SupervisorInv, JobsInv, ResultIsAwaited, OneResult, JobOrResult,
       StartBuilds, NoBundleEnds, CancelIsAwaited, DeadLoopIsStopped

\* BeginStart, which Start and a Stop that goes on with a start both take.
LEMMA BeginStartInv ==
    ASSUME SupervisorInv, NEW c \in Clients, step[c] = "idle", BeginStart(c),
           UNCHANGED <<running, bundle, loop, cancelled, restart, waits, busy, results, future,
                       lock, late>>
    PROVE  SupervisorInv'
  <1>1. TypeOK
    BY DEF SupervisorInv
  <1>2. /\ \A i \in 1..Len(jobs) : jobs[i].kind # "cycle" => jobs[i].owner # c
        /\ \A i \in 1..Len(results) : results[i].owner # c
    BY NothingAwaited
  <1>3. PICK k \in {"idle", "start"} : step' = [step EXCEPT ![c] = k]
    BY DEF BeginStart
  <1>4. jobs' \in Seq(JobKinds) /\ JobsInv' /\ JobOrResult' /\ StartBuilds'
    <2>1. CASE running
      <3>1. jobs' = jobs /\ step' = [step EXCEPT ![c] = "idle"]
        BY <2>1 DEF BeginStart
      <3>2. JobIsAwaited'
        BY <1>2, <3>1, GoingOn
      <3> QED BY <1>1, <3>1, <3>2, Elements DEF SupervisorInv, JobsInv, CycleIsKnown, NoOverlap,
                 OneJob, BusyHasJob, JobOrResult, StartBuilds
    <2>2. CASE ~running
      <3>1. jobs' = Append(jobs, Job("start", c)) /\ step' = [step EXCEPT ![c] = "start"]
        BY <2>2 DEF BeginStart, Submit
      <3> QED BY <1>2, <3>1, Submitting
    <2> QED BY <2>1, <2>2
  <1>5. ResultIsAwaited'
    BY <1>2, <1>3, GoingOnResults
  <1>6. TypeOK'
    BY <1>1, <1>3, <1>4 DEF TypeOK, JobKinds
  <1>7. CancelIsAwaited' /\ DeadLoopIsStopped'
    BY <1>1, <1>3 DEF SupervisorInv, CancelIsAwaited, DeadLoopIsStopped, LoopAlive, TypeOK
  <1>8. OneResult' /\ NoBundleEnds'
    BY DEF SupervisorInv, OneResult, NoBundleEnds
  <1>9. WaiterAsked'
    BY <1>1, <1>3, WaitersStay DEF TypeOK
  <1> QED BY <1>4, <1>5, <1>6, <1>7, <1>8, <1>9 DEF SupervisorInv, JobsInv

LEMMA StartInv == ASSUME SupervisorInv, NEW c \in Clients, Start(c) PROVE SupervisorInv'
  BY BeginStartInv DEF Start

LEMMA StartDoneInv == ASSUME SupervisorInv, NEW c \in Clients, StartDone(c) PROVE SupervisorInv'
  <1>1. TypeOK /\ results # <<>> /\ Head(results).kind = "start" /\ Head(results).owner = c
    BY DEF SupervisorInv, StartDone
  <1>2. /\ results' \in Seq(ResultKinds)
        /\ Len(results) \in Nat /\ 1 \in 1..Len(results) /\ Head(results) = results[1]
        /\ Len(results') = Len(results) - 1
        /\ \A i \in 1..Len(results') : i + 1 \in 1..Len(results) /\ results'[i] = results[i + 1]
        /\ \A i \in 2..Len(results) : i - 1 \in 1..Len(results') /\ results'[i - 1] = results[i]
    BY <1>1, Elements, TailFacts DEF StartDone
  <1>3. /\ \A i \in 1..Len(jobs) : jobs[i].kind # "cycle" => jobs[i].owner # c
        /\ \A i \in 1..Len(results') : results'[i].owner # c
    BY <1>1, <1>2 DEF SupervisorInv, JobOrResult, OneResult
  <1>4. step' = [step EXCEPT ![c] = "idle"] /\ step[c] = "start"
        /\ UNCHANGED <<bundle, restart, waits, jobs, busy, future, lock, late>>
    BY <1>1, <1>2 DEF StartDone, SupervisorInv, ResultIsAwaited
  <1>5. JobsInv' /\ StartBuilds'
    BY <1>3, <1>4, GoingOn DEF SupervisorInv, JobsInv, CycleIsKnown, NoOverlap, OneJob, BusyHasJob,
       StartBuilds
  <1>6. JobOrResult' /\ OneResult' /\ WaiterAsked'
    <2>1. OneResult'
      BY <1>2 DEF SupervisorInv, OneResult
    <2>2. \A i \in 1..Len(results') : \E j \in 1..Len(results) : results'[i] = results[j]
      BY <1>2
    <2>3. WaiterAsked'
      BY <1>1, <1>4, WaitersStay DEF TypeOK
    <2> QED BY <1>4, <2>1, <2>2, <2>3, FewerResults
  <1>7. ResultIsAwaited'
    <2>1. \A i \in 1..Len(results) : results[i].owner \in Clients
      BY <1>1, Elements DEF ResultKinds
    <2> QED BY <1>1, <1>2, <1>3, <1>4, <2>1 DEF SupervisorInv, ResultIsAwaited, TypeOK
  <1>8. TypeOK'
    <2>1. step' \in [Clients -> {"idle", "start", "loopEnd", "loopEnded", "stop", "cycle"}]
      BY <1>1, <1>4 DEF TypeOK
    <2>2. {running', bundle', cancelled', busy', lock'} \subseteq BOOLEAN
          /\ loop' \in {"none", "sleep", "cycle", "done", "failed"}
      BY <1>1, <1>4 DEF TypeOK, StartDone
    <2> QED BY <1>1, <1>2, <1>4, <2>1, <2>2 DEF TypeOK, ResultKinds
  <1>9. CancelIsAwaited' /\ DeadLoopIsStopped'
    BY <1>1, <1>4 DEF SupervisorInv, CancelIsAwaited, DeadLoopIsStopped, LoopAlive, LoopStarted,
       TypeOK, StartDone
  <1>10. NoBundleEnds'
    <2> SUFFICES ASSUME ~bundle
                 PROVE  /\ running' => \E i \in 1..Len(results') : results'[i].kind = "stop"
                        /\ \A j \in 1..Len(results') : results'[j].kind = "start" /\ results'[j].ok =>
                              \E i \in 1..Len(results') : j < i /\ results'[i].kind = "stop"
      BY <1>4 DEF NoBundleEnds
    <2>1. running' => \E i \in 2..Len(results) : results[i].kind = "stop"
      <3>1. CASE Head(results).ok
        <4>1. PICK i \in 1..Len(results) : 1 < i /\ results[i].kind = "stop"
          BY <1>1, <1>2, <3>1 DEF SupervisorInv, NoBundleEnds
        <4> QED BY <1>2, <4>1
      <3>2. CASE ~Head(results).ok
        <4>1. running' = running
          BY <3>2 DEF StartDone
        <4> QED BY <1>1, <1>2, <4>1 DEF SupervisorInv, NoBundleEnds
      <3> QED BY <3>1, <3>2
    <2>2. ASSUME NEW j \in 1..Len(results'), results'[j].kind = "start", results'[j].ok
          PROVE  \E i \in 1..Len(results') : j < i /\ results'[i].kind = "stop"
      <3>1. PICK i \in 1..Len(results) : j + 1 < i /\ results[i].kind = "stop"
        BY <1>2, <2>2 DEF SupervisorInv, NoBundleEnds
      <3>2. i - 1 \in 1..Len(results') /\ results'[i - 1] = results[i]
        BY <1>2, <3>1
      <3> QED BY <1>2, <3>1, <3>2
    <2> QED BY <1>2, <2>1, <2>2
  <1> QED BY <1>5, <1>6, <1>7, <1>8, <1>9, <1>10 DEF SupervisorInv, JobsInv

LEMMA StopInv ==
    ASSUME SupervisorInv, NEW c \in Clients, NEW again \in BOOLEAN, Stop(c, again)
    PROVE  SupervisorInv'
  <1>1. TypeOK /\ step[c] = "idle"
        /\ UNCHANGED <<bundle, waits, busy, results, future, lock, late>>
    BY DEF SupervisorInv, Stop
  <1>2. /\ \A i \in 1..Len(jobs) : jobs[i].kind # "cycle" => jobs[i].owner # c
        /\ \A i \in 1..Len(results) : results[i].owner # c
    BY <1>1, NothingAwaited
  <1>3. CASE ~running /\ ~bundle /\ BeginStart(c)
    BY <1>1, <1>3, BeginStartInv DEF Stop
  <1>4. CASE ~running /\ ~bundle /\ UNCHANGED <<step, jobs>>
    <2>1. UNCHANGED vars
      BY <1>4 DEF Stop, vars
    <2> QED BY <2>1 DEF vars, SupervisorInv, TypeOK, WaiterAsked, CycleIsKnown, NoOverlap, BusyHasJob,
          JobIsAwaited, ResultIsAwaited, OneJob, OneResult, JobOrResult, StartBuilds, NoBundleEnds,
          CancelIsAwaited, DeadLoopIsStopped, LoopAlive
  <1>5. CASE running \/ bundle
    <2>1. /\ running' = FALSE /\ restart' \subseteq Clients
          /\ loop' \in {"none", "sleep", "cycle", "done"}
          /\ LoopAlive' = LoopAlive
      BY <1>1, <1>5 DEF Stop, TypeOK, LoopStopped, LoopAlive
    <2>2. PICK k \in {"loopEnd", "stop"} : step' = [step EXCEPT ![c] = k]
      BY <1>5 DEF Stop
    <2>3. jobs' \in Seq(JobKinds) /\ JobsInv' /\ JobOrResult' /\ StartBuilds'
      <3>1. CASE LoopAlive
        <4>1. jobs' = jobs /\ step' = [step EXCEPT ![c] = "loopEnd"]
          BY <1>5, <3>1 DEF Stop
        <4>2. JobIsAwaited'
          BY <1>2, <4>1, GoingOn
        <4> QED BY <1>1, <4>1, <4>2, Elements DEF SupervisorInv, JobsInv, CycleIsKnown, NoOverlap,
                   OneJob, BusyHasJob, JobOrResult, StartBuilds
      <3>2. CASE ~LoopAlive
        <4>1. jobs' = Append(jobs, Job("stop", c)) /\ step' = [step EXCEPT ![c] = "stop"]
          BY <1>5, <3>2 DEF Stop, Submit
        <4> QED BY <1>1, <1>2, <4>1, Submitting
      <3> QED BY <3>1, <3>2
    <2>4. ResultIsAwaited'
      BY <1>1, <1>2, <2>2, GoingOnResults
    <2>5. TypeOK'
      <3>1. cancelled' \in BOOLEAN
        BY <1>1, <1>5 DEF Stop, TypeOK
      <3> QED BY <1>1, <2>1, <2>2, <2>3, <3>1 DEF TypeOK, JobKinds
    <2>6. CancelIsAwaited'
      <3>1. CASE LoopAlive
        BY <1>1, <1>5, <2>1, <3>1 DEF Stop, CancelIsAwaited, TypeOK
      <3>2. CASE ~LoopAlive
        BY <1>1, <1>5, <3>2 DEF Stop, SupervisorInv, CancelIsAwaited
      <3> QED BY <3>1, <3>2
    <2>7. DeadLoopIsStopped' /\ OneResult' /\ NoBundleEnds'
      BY <1>1, <2>1 DEF SupervisorInv, DeadLoopIsStopped, OneResult, NoBundleEnds
    <2>8. WaiterAsked'
      BY <1>1, <2>2, WaitersStay DEF TypeOK
    <2> QED BY <2>3, <2>4, <2>5, <2>6, <2>7, <2>8 DEF SupervisorInv, JobsInv
  <1> QED BY <1>3, <1>4, <1>5 DEF Stop

LEMMA CancelLoopInv == ASSUME SupervisorInv, CancelLoop PROVE SupervisorInv'
  <1>1. /\ TypeOK /\ loop' = "done" /\ cancelled' = FALSE
        /\ step' = [c \in Clients |-> IF step[c] = "loopEnd" THEN "loopEnded" ELSE step[c]]
        /\ UNCHANGED <<running, bundle, restart, jobs, busy, results, future, late>>
    BY DEF SupervisorInv, CancelLoop
  <1>2. \A c \in Clients : step[c] \in {"start", "stop"} => step'[c] = step[c]
    BY <1>1
  <1>3. JobIsAwaited'
    <2>1. \A i \in 1..Len(jobs) : jobs[i].kind # "cycle" => jobs[i].kind \in {"start", "stop"}
      BY <1>1, Elements DEF JobKinds
    <2> QED BY <1>1, <1>2, <2>1 DEF SupervisorInv, JobIsAwaited
  <1>4. ResultIsAwaited'
    BY <1>1, <1>2, Elements DEF SupervisorInv, ResultIsAwaited, ResultKinds
  <1>5. TypeOK'
    <2>1. step' \in [Clients -> {"idle", "start", "loopEnd", "loopEnded", "stop", "cycle"}]
      BY <1>1 DEF TypeOK
    <2>2. lock' \in BOOLEAN /\ waits' \in [Tasks -> Futures \cup {0}]
      BY <1>1 DEF TypeOK, CancelLoop
    <2> QED BY <1>1, <2>1, <2>2 DEF TypeOK
  <1>6. DeadLoopIsStopped'
    BY <1>1 DEF CancelLoop, SupervisorInv, CancelIsAwaited, DeadLoopIsStopped
  <1>7. /\ CycleIsKnown' /\ NoOverlap' /\ OneJob' /\ BusyHasJob' /\ StartBuilds'
        /\ JobOrResult' /\ OneResult' /\ NoBundleEnds' /\ CancelIsAwaited'
    BY <1>1 DEF SupervisorInv, CycleIsKnown, NoOverlap, OneJob, BusyHasJob, StartBuilds,
       JobOrResult, OneResult, NoBundleEnds, CancelIsAwaited
  <1>8. WaiterAsked'
    <2>1. \A c \in Clients : waits'[c] = waits[c]
      BY <1>1, ConstantsAssumption DEF CancelLoop, TypeOK, Tasks
    <2> QED BY <1>1, <2>1 DEF SupervisorInv, WaiterAsked
  <1> QED BY <1>3, <1>4, <1>5, <1>6, <1>7, <1>8 DEF SupervisorInv

LEMMA LoopEndedInv == ASSUME SupervisorInv, NEW c \in Clients, LoopEnded(c) PROVE SupervisorInv'
  <1>1. /\ TypeOK /\ step[c] = "loopEnded" /\ step' = [step EXCEPT ![c] = "stop"]
        /\ jobs' = Append(jobs, Job("stop", c))
        /\ UNCHANGED <<running, bundle, loop, cancelled, restart, waits, busy, results, future,
                       lock, late>>
    BY DEF SupervisorInv, LoopEnded, Submit
  <1>2. /\ \A i \in 1..Len(jobs) : jobs[i].kind # "cycle" => jobs[i].owner # c
        /\ \A i \in 1..Len(results) : results[i].owner # c
    BY <1>1, NothingAwaited
  <1>3. jobs' \in Seq(JobKinds) /\ JobsInv' /\ JobOrResult' /\ StartBuilds'
    BY <1>1, <1>2, Submitting
  <1>4. ResultIsAwaited'
    BY <1>1, <1>2, GoingOnResults
  <1>5. TypeOK'
    BY <1>1, <1>3 DEF TypeOK, JobKinds
  <1>6. CancelIsAwaited' /\ DeadLoopIsStopped'
    BY <1>1 DEF SupervisorInv, CancelIsAwaited, DeadLoopIsStopped, LoopAlive, TypeOK
  <1>7. OneResult' /\ NoBundleEnds'
    BY <1>1 DEF SupervisorInv, OneResult, NoBundleEnds
  <1>8. WaiterAsked'
    BY <1>1, WaitersStay DEF TypeOK
  <1> QED BY <1>3, <1>4, <1>5, <1>6, <1>7, <1>8 DEF SupervisorInv, JobsInv

LEMMA StopDoneInv == ASSUME SupervisorInv, NEW c \in Clients, StopDone(c) PROVE SupervisorInv'
  <1>1. TypeOK /\ results # <<>> /\ Head(results).kind = "stop" /\ Head(results).owner = c
    BY DEF SupervisorInv, StopDone
  <1>2. /\ results' \in Seq(ResultKinds)
        /\ Len(results) \in Nat /\ 1 \in 1..Len(results) /\ Head(results) = results[1]
        /\ Len(results') = Len(results) - 1
        /\ \A i \in 1..Len(results') : i + 1 \in 1..Len(results) /\ results'[i] = results[i + 1]
        /\ \A i \in 2..Len(results) : i - 1 \in 1..Len(results') /\ results'[i - 1] = results[i]
    BY <1>1, Elements, TailFacts DEF StopDone
  <1>3. /\ \A i \in 1..Len(jobs) : jobs[i].kind # "cycle" => jobs[i].owner # c
        /\ \A i \in 1..Len(results') : results'[i].owner # c
    BY <1>1, <1>2 DEF SupervisorInv, JobOrResult, OneResult
  <1>4. /\ running' = FALSE /\ restart' \subseteq Clients /\ step[c] = "stop"
        /\ loop' \in {"none", "sleep", "cycle", "done"} /\ LoopAlive' = LoopAlive
        /\ UNCHANGED <<bundle, cancelled, waits, busy, future, lock, late>>
    BY <1>1, <1>2 DEF StopDone, SupervisorInv, ResultIsAwaited, TypeOK, LoopStopped, LoopAlive
  <1>5. PICK k \in {"idle", "start"} : step' = [step EXCEPT ![c] = k]
    BY DEF StopDone
  <1>6. jobs' \in Seq(JobKinds) /\ JobsInv' /\ JobOrResult' /\ StartBuilds'
    <2>1. CASE jobs' = Append(jobs, Job("start", c)) /\ step' = [step EXCEPT ![c] = "start"]
      <3>2. \A i \in 1..Len(results') : \E j \in 1..Len(results) : results'[i] = results[j]
        BY <1>2
      <3> QED BY <1>3, <1>4, <2>1, <3>2, Submitting
    <2>2. CASE jobs' = jobs /\ step' = [step EXCEPT ![c] = "idle"]
      <3>2. JobIsAwaited'
        BY <1>3, <2>2, GoingOn
      <3>3. JobOrResult'
        <4>1. \A i \in 1..Len(results') : \E j \in 1..Len(results) : results'[i] = results[j]
          BY <1>2
        <4> QED BY <2>2, <4>1, FewerResults
      <3> QED BY <1>1, <1>4, <2>2, <3>2, <3>3, Elements DEF SupervisorInv, JobsInv, CycleIsKnown,
                 NoOverlap, OneJob, BusyHasJob, StartBuilds
    <2> QED BY <2>1, <2>2 DEF StopDone, Submit
  <1>7. ResultIsAwaited'
    <2>1. \A i \in 1..Len(results) : results[i].owner \in Clients
      BY <1>1, Elements DEF ResultKinds
    <2> QED BY <1>1, <1>2, <1>3, <1>5, <2>1 DEF SupervisorInv, ResultIsAwaited, TypeOK
  <1>8. OneResult'
    BY <1>2 DEF SupervisorInv, OneResult
  <1>9. TypeOK'
    BY <1>1, <1>2, <1>4, <1>5, <1>6 DEF TypeOK, JobKinds, ResultKinds
  <1>10. CancelIsAwaited' /\ DeadLoopIsStopped'
    BY <1>1, <1>4, <1>5 DEF SupervisorInv, CancelIsAwaited, DeadLoopIsStopped, TypeOK
  <1>11. NoBundleEnds'
    <2> SUFFICES ASSUME ~bundle, NEW j \in 1..Len(results'), results'[j].kind = "start",
                        results'[j].ok
                 PROVE  \E i \in 1..Len(results') : j < i /\ results'[i].kind = "stop"
      BY <1>4 DEF NoBundleEnds
    <2>1. PICK i \in 1..Len(results) : j + 1 < i /\ results[i].kind = "stop"
      BY <1>2 DEF SupervisorInv, NoBundleEnds
    <2>2. i - 1 \in 1..Len(results') /\ results'[i - 1] = results[i]
      BY <1>2, <2>1
    <2> QED BY <1>2, <2>1, <2>2
  <1>12. WaiterAsked'
    BY <1>1, <1>4, <1>5, WaitersStay DEF TypeOK
  <1> QED BY <1>6, <1>7, <1>8, <1>9, <1>10, <1>11, <1>12 DEF SupervisorInv, JobsInv

\* A cycle is submitted only when the executor holds none: the one it might
\* hold is in _cycle_future, and Admits has found that one done.
LEMMA BeginCycleInv ==
    ASSUME SupervisorInv, NEW t \in Tasks, Admits, BeginCycle(t),
           UNCHANGED <<busy, bundle, results>>,
           \A c \in Clients : step[c] \in {"start", "stop"} => step'[c] = step[c]
    PROVE  /\ jobs' \in Seq(JobKinds) /\ JobsInv' /\ JobOrResult' /\ StartBuilds'
           /\ ResultIsAwaited'
           /\ future' \in Futures /\ lock' = TRUE /\ waits' \in [Tasks -> Futures \cup {0}]
           /\ \A u \in Tasks : u # t => waits'[u] = waits[u]
  <1> DEFINE n == Len(jobs)
  <1>1. TypeOK
    BY DEF SupervisorInv
  <1>2. PICK f \in Futures : /\ jobs' = Append(jobs, [kind |-> "cycle", owner |-> t, future |-> f])
                             /\ future' = f /\ lock' = TRUE
                             /\ waits' = [waits EXCEPT ![t] = f]
    BY DEF BeginCycle, Submit
  <1> DEFINE job == [kind |-> "cycle", owner |-> t, future |-> f]
  <1>3. job \in JobKinds /\ job.kind = "cycle" /\ job.future = f /\ f # 0
    BY ConstantsAssumption DEF JobKinds
  <1>4. /\ jobs' \in Seq(JobKinds) /\ Len(jobs') = n + 1 /\ n \in Nat
        /\ \A i \in 1..n : jobs'[i] = jobs[i]
        /\ jobs'[n + 1] = job
        /\ jobs' # <<>>
        /\ jobs # <<>> => 1 \in 1..n
    BY <1>1, <1>2, <1>3, Elements, AppendFacts
  <1>5. \A i \in 1..Len(jobs') : i \in 1..n \/ i = n + 1
    BY <1>4
  <1>6. \A i \in 1..n : jobs[i].kind # "cycle"
    BY <1>1, Elements DEF SupervisorInv, CycleIsKnown, Admits, Pending, Outstanding
  <1> HIDE DEF n, job
  <1>7. CycleIsKnown'
    BY <1>2, <1>3, <1>4, <1>5, <1>6 DEF CycleIsKnown
  <1>8. NoOverlap'
    <2>1. DOMAIN jobs' = 1..Len(jobs')
      BY <1>4, LenProperties
    <2> QED BY <1>4, <1>5, <1>6, <2>1 DEF NoOverlap
  <1>9. JobIsAwaited'
    <2>1. \A i \in 1..n : jobs[i].kind \in {"start", "stop"}
      BY <1>1, <1>6, Elements DEF JobKinds, n
    <2> QED BY <1>3, <1>4, <1>5, <2>1 DEF SupervisorInv, JobIsAwaited, n
  <1>10. OneJob'
    BY <1>3, <1>4, <1>5 DEF SupervisorInv, OneJob, n
  <1>11. JobOrResult'
    <2>1. results' = results
      OBVIOUS
    <2>2. \A i \in 1..n, j \in 1..Len(results) : jobs[i].owner # results[j].owner
      BY <1>6 DEF SupervisorInv, JobOrResult, n
    <2>3. \A i \in 1..Len(jobs') : jobs'[i].kind # "cycle" => i \in 1..n /\ jobs'[i] = jobs[i]
      BY <1>3, <1>4, <1>5
    <2>4. ASSUME NEW i \in 1..Len(jobs'), NEW j \in 1..Len(results), jobs'[i].kind # "cycle"
          PROVE  jobs'[i].owner # results[j].owner
      <3>1. i \in 1..n /\ jobs'[i] = jobs[i]
        BY <2>3, <2>4
      <3> QED BY <2>2, <3>1
    <2>5. \A i \in 1..Len(jobs'), j \in 1..Len(results) :
             jobs'[i].kind # "cycle" => jobs'[i].owner # results[j].owner
      BY <2>4
    <2> QED BY <2>1, <2>5 DEF JobOrResult
  <1>12. ResultIsAwaited'
    BY <1>1, Elements DEF SupervisorInv, ResultIsAwaited, ResultKinds
  <1>13. StartBuilds'
    <2>1. busy => jobs # <<>>
      BY DEF SupervisorInv, BusyHasJob
    <2> QED BY <1>4, <2>1 DEF SupervisorInv, StartBuilds
  <1>14. /\ future' \in Futures /\ lock' = TRUE /\ waits' \in [Tasks -> Futures \cup {0}]
         /\ \A u \in Tasks : u # t => waits'[u] = waits[u]
    BY <1>1, <1>2 DEF TypeOK
  <1> QED BY <1>4, <1>7, <1>8, <1>9, <1>10, <1>11, <1>12, <1>13, <1>14 DEF JobsInv, BusyHasJob

LEMMA RunManuallyInv ==
    ASSUME SupervisorInv, NEW c \in Clients, RunManually(c) PROVE SupervisorInv'
  <1>1. /\ TypeOK /\ step[c] = "idle" /\ Admits /\ BeginCycle(c)
        /\ step' = [step EXCEPT ![c] = "cycle"]
        /\ UNCHANGED <<running, bundle, loop, cancelled, restart, busy, results, late>>
    BY DEF SupervisorInv, RunManually
  <1>2. \A d \in Clients : step[d] # "idle" => step'[d] = step[d]
    BY <1>1 DEF TypeOK
  <1>3. /\ jobs' \in Seq(JobKinds) /\ JobsInv' /\ JobOrResult' /\ StartBuilds'
        /\ ResultIsAwaited'
        /\ future' \in Futures /\ lock' = TRUE /\ waits' \in [Tasks -> Futures \cup {0}]
        /\ \A u \in Tasks : u # c => waits'[u] = waits[u]
    <2>1. c \in Tasks
      BY DEF Tasks
    <2> QED BY <1>1, <1>2, <2>1, BeginCycleInv
  <1>4. TypeOK'
    <2>1. step' \in [Clients -> {"idle", "start", "loopEnd", "loopEnded", "stop", "cycle"}]
      BY <1>1 DEF TypeOK
    <2> QED BY <1>1, <1>3, <2>1 DEF TypeOK, JobKinds
  <1>5. CancelIsAwaited' /\ DeadLoopIsStopped'
    BY <1>1, <1>2 DEF SupervisorInv, CancelIsAwaited, DeadLoopIsStopped, LoopAlive
  <1>6. OneResult' /\ NoBundleEnds'
    BY <1>1 DEF SupervisorInv, OneResult, NoBundleEnds
  <1>7. WaiterAsked'
    BY <1>1, <1>3 DEF SupervisorInv, WaiterAsked, Tasks, TypeOK
  <1> QED BY <1>3, <1>4, <1>5, <1>6, <1>7 DEF SupervisorInv, JobsInv

LEMMA LoopWakesInv == ASSUME SupervisorInv, LoopWakes PROVE SupervisorInv'
  <1>1. /\ TypeOK /\ loop = "sleep" /\ ~cancelled
        /\ UNCHANGED <<running, bundle, cancelled, step, restart, busy, results, late>>
    BY DEF SupervisorInv, LoopWakes
  <1>2. OneResult' /\ NoBundleEnds'
    BY <1>1 DEF SupervisorInv, OneResult, NoBundleEnds
  <1>3. CASE ~running /\ loop' = "done" /\ UNCHANGED <<jobs, future, lock, waits>>
    <2>1. TypeOK'
      BY <1>1, <1>3 DEF TypeOK
    <2> QED BY <1>1, <1>2, <1>3, <2>1 DEF SupervisorInv, WaiterAsked, CycleIsKnown, NoOverlap, BusyHasJob,
          JobIsAwaited, ResultIsAwaited, OneJob, JobOrResult, StartBuilds, CancelIsAwaited,
          DeadLoopIsStopped
  <1>4. CASE Admits /\ loop' = "cycle" /\ BeginCycle(LoopTask)
    <2>1. /\ jobs' \in Seq(JobKinds) /\ JobsInv' /\ JobOrResult' /\ StartBuilds'
          /\ ResultIsAwaited'
          /\ future' \in Futures /\ lock' = TRUE /\ waits' \in [Tasks -> Futures \cup {0}]
          /\ \A u \in Tasks : u # LoopTask => waits'[u] = waits[u]
      <3>1. LoopTask \in Tasks /\ \A c \in Clients : step'[c] = step[c]
        BY <1>1 DEF Tasks
      <3> QED BY <1>1, <1>4, <3>1, BeginCycleInv
    <2>2. TypeOK'
      BY <1>1, <1>4, <2>1 DEF TypeOK, JobKinds
    <2>3. WaiterAsked'
      BY <1>1, <2>1, ConstantsAssumption DEF SupervisorInv, WaiterAsked, Tasks
    <2> QED BY <1>1, <1>2, <1>4, <2>1, <2>2, <2>3 DEF SupervisorInv, JobsInv, CancelIsAwaited,
          DeadLoopIsStopped, LoopAlive
  <1> QED BY <1>3, <1>4 DEF LoopWakes

LEMMA LoopFailsInv == ASSUME SupervisorInv, LoopFails PROVE SupervisorInv'
  <1>1. /\ TypeOK /\ loop = "sleep" /\ ~cancelled /\ loop' = "failed"
        /\ UNCHANGED <<running, bundle, cancelled, step, restart, waits, jobs, busy, results,
                       future, lock, late>>
    BY DEF SupervisorInv, LoopFails
  <1>2. TypeOK'
    BY <1>1 DEF TypeOK
  <1> QED BY <1>1, <1>2 DEF SupervisorInv, WaiterAsked, CycleIsKnown, NoOverlap, BusyHasJob,
        JobIsAwaited, ResultIsAwaited, OneJob, OneResult, JobOrResult, StartBuilds, NoBundleEnds,
        CancelIsAwaited, DeadLoopIsStopped

\* A waiter that goes on leaves the executor and its results alone.
LEMMA ResumeInv ==
    ASSUME SupervisorInv, NEW t \in Tasks, Resume(t),
           CycleIsKnown', future' \in Futures \cup {0}, late' \subseteq Futures
    PROVE  SupervisorInv'
  <1>1. TypeOK /\ UNCHANGED <<running, bundle, cancelled, restart, jobs, busy, results>>
    BY DEF SupervisorInv, Resume
  <1>2. \A c \in Clients : step[c] # "cycle" => step'[c] = step[c]
    BY <1>1 DEF Resume, TypeOK, Tasks, SupervisorInv, WaiterAsked
  <1>3. JobIsAwaited' /\ ResultIsAwaited'
    <2>1. \A i \in 1..Len(jobs) : jobs[i].kind # "cycle" => jobs[i].kind \in {"start", "stop"}
      BY <1>1, Elements DEF JobKinds
    <2>2. \A i \in 1..Len(results) : /\ results[i].owner \in Clients
                                     /\ results[i].kind \in {"start", "stop"}
      BY <1>1, Elements DEF ResultKinds
    <2>3. JobIsAwaited'
      BY <1>1, <1>2, <2>1 DEF SupervisorInv, JobIsAwaited
    <2>4. ResultIsAwaited'
      BY <1>1, <1>2, <2>2 DEF SupervisorInv, ResultIsAwaited
    <2> QED BY <2>3, <2>4
  <1>4. TypeOK'
    <2>1. step' \in [Clients -> {"idle", "start", "loopEnd", "loopEnded", "stop", "cycle"}]
      BY <1>1 DEF TypeOK, Resume, Tasks
    <2>2. loop' \in {"none", "sleep", "cycle", "done", "failed"} /\ lock' = FALSE
      BY <1>1 DEF TypeOK, Resume
    <2>3. waits' \in [Tasks -> Futures \cup {0}]
      BY <1>1 DEF TypeOK, Resume
    <2> QED BY <1>1, <2>1, <2>2, <2>3 DEF TypeOK
  <1>5. CancelIsAwaited' /\ DeadLoopIsStopped'
    BY <1>1, <1>2 DEF SupervisorInv, CancelIsAwaited, DeadLoopIsStopped, LoopAlive, Resume
  <1>6. /\ NoOverlap' /\ OneJob' /\ BusyHasJob' /\ StartBuilds'
        /\ JobOrResult' /\ OneResult' /\ NoBundleEnds'
    BY <1>1 DEF SupervisorInv, NoOverlap, OneJob, BusyHasJob, StartBuilds, JobOrResult, OneResult,
       NoBundleEnds
  <1>7. WaiterAsked'
    BY <1>1 DEF SupervisorInv, WaiterAsked, Resume, Tasks, TypeOK
  <1> QED BY <1>3, <1>4, <1>5, <1>6, <1>7 DEF SupervisorInv

LEMMA CycleReturnsInv ==
    ASSUME SupervisorInv, NEW t \in Tasks, CycleReturns(t) PROVE SupervisorInv'
  <1>1. TypeOK /\ Resume(t) /\ ~Outstanding(waits[t]) /\ late' = late
        /\ future' = IF future = waits[t] THEN 0 ELSE future
    BY DEF SupervisorInv, CycleReturns
  <1>2. CycleIsKnown'
    BY <1>1, Elements DEF SupervisorInv, CycleIsKnown, Resume, Outstanding
  <1> QED BY <1>1, <1>2, ResumeInv DEF TypeOK

LEMMA CycleTimesOutInv ==
    ASSUME SupervisorInv, NEW t \in Tasks, CycleTimesOut(t) PROVE SupervisorInv'
  <1>1. TypeOK /\ Resume(t) /\ waits[t] # 0 /\ future' = future /\ late' = late \cup {waits[t]}
    BY DEF SupervisorInv, CycleTimesOut, Resume
  <1>2. CycleIsKnown'
    BY <1>1 DEF SupervisorInv, CycleIsKnown, Resume
  <1>3. waits[t] \in Futures
    BY <1>1 DEF TypeOK
  <1> QED BY <1>1, <1>2, <1>3, ResumeInv DEF TypeOK

LEMMA LateCycleDoneInv ==
    ASSUME SupervisorInv, NEW f \in Futures, LateCycleDone(f) PROVE SupervisorInv'
  <1>1. /\ TypeOK /\ ~Outstanding(f) /\ late' = late \ {f}
        /\ future' = IF future = f THEN 0 ELSE future
        /\ UNCHANGED <<running, bundle, loop, cancelled, step, restart, waits, jobs, busy, results,
                       lock>>
    BY DEF SupervisorInv, LateCycleDone
  <1>2. CycleIsKnown'
    BY <1>1, Elements DEF SupervisorInv, CycleIsKnown, Outstanding
  <1>3. TypeOK'
    BY <1>1 DEF TypeOK
  <1>4. /\ NoOverlap' /\ BusyHasJob' /\ JobIsAwaited' /\ ResultIsAwaited' /\ OneJob' /\ OneResult'
        /\ JobOrResult' /\ StartBuilds' /\ NoBundleEnds' /\ CancelIsAwaited' /\ DeadLoopIsStopped'
        /\ WaiterAsked'
    BY <1>1 DEF SupervisorInv, NoOverlap, BusyHasJob, JobIsAwaited, ResultIsAwaited, OneJob,
       OneResult, JobOrResult, StartBuilds, NoBundleEnds, CancelIsAwaited, DeadLoopIsStopped,
       LoopAlive, WaiterAsked
  <1> QED BY <1>2, <1>3, <1>4 DEF SupervisorInv

LEMMA BeginJobInv == ASSUME SupervisorInv, BeginJob PROVE SupervisorInv'
  <1>1. /\ TypeOK /\ jobs # <<>> /\ busy' = TRUE /\ bundle' = (bundle \/ Head(jobs).kind = "start")
        /\ UNCHANGED <<running, loop, cancelled, step, restart, waits, jobs, results, future, lock,
                       late>>
    BY DEF SupervisorInv, BeginJob
  <1>2. Head(jobs) = jobs[1]
    BY <1>1, Elements, TailFacts
  <1>3. StartBuilds'
    BY <1>1, <1>2 DEF StartBuilds
  <1>4. NoBundleEnds'
    BY <1>1 DEF SupervisorInv, NoBundleEnds
  <1>5. TypeOK'
    BY <1>1 DEF TypeOK
  <1>6. /\ CycleIsKnown' /\ NoOverlap' /\ BusyHasJob' /\ JobIsAwaited' /\ ResultIsAwaited'
        /\ OneJob' /\ OneResult' /\ JobOrResult' /\ CancelIsAwaited' /\ DeadLoopIsStopped'
        /\ WaiterAsked'
    BY <1>1 DEF SupervisorInv, CycleIsKnown, NoOverlap, BusyHasJob, JobIsAwaited, ResultIsAwaited,
       OneJob, OneResult, JobOrResult, CancelIsAwaited, DeadLoopIsStopped, LoopAlive, WaiterAsked
  <1> QED BY <1>3, <1>4, <1>5, <1>6 DEF SupervisorInv

\* What the executor holds when its head has left it.
LEMMA Leaving ==
    ASSUME SupervisorInv, jobs # <<>>, jobs' = Tail(jobs), step' = step, future' = future
    PROVE  /\ jobs' \in Seq(JobKinds)
           /\ CycleIsKnown' /\ NoOverlap' /\ JobIsAwaited' /\ OneJob'
           /\ \A i \in 1..Len(jobs') : \E j \in 1..Len(jobs) : jobs'[i] = jobs[j]
           /\ \A i \in 1..Len(jobs') : jobs'[i].kind # "cycle" /\ jobs[1].kind # "cycle" =>
                 jobs'[i].owner # jobs[1].owner
           /\ Head(jobs) = jobs[1] /\ 1 \in 1..Len(jobs) /\ jobs[1] \in JobKinds
  <1>1. TypeOK
    BY DEF SupervisorInv
  <1>2. /\ jobs' \in Seq(JobKinds)
        /\ Len(jobs) \in Nat /\ 1 \in 1..Len(jobs) /\ Head(jobs) = jobs[1] /\ jobs[1] \in JobKinds
        /\ \A i \in 1..Len(jobs') : i + 1 \in 1..Len(jobs) /\ jobs'[i] = jobs[i + 1]
    BY <1>1, Elements, TailFacts
  <1>3. CycleIsKnown'
    BY <1>2 DEF SupervisorInv, CycleIsKnown
  <1>4. NoOverlap'
    <2> SUFFICES ASSUME NEW i \in DOMAIN jobs', NEW j \in DOMAIN jobs',
                        jobs'[i].kind = "cycle", jobs'[j].kind = "cycle"
                 PROVE  i = j
      BY DEF NoOverlap
    <2>1. i \in 1..Len(jobs') /\ j \in 1..Len(jobs')
      BY <1>2, LenProperties
    <2>2. i + 1 \in DOMAIN jobs /\ j + 1 \in DOMAIN jobs
      BY <1>1, <1>2, <2>1, Elements
    <2>3. i + 1 = j + 1
      BY <1>2, <2>1, <2>2 DEF SupervisorInv, NoOverlap
    <2> QED BY <2>1, <2>3
  <1>5. JobIsAwaited'
    BY <1>2 DEF SupervisorInv, JobIsAwaited
  <1>6. OneJob'
    <2> SUFFICES ASSUME NEW i \in 1..Len(jobs'), NEW j \in 1..Len(jobs'),
                        jobs'[i].kind # "cycle", jobs'[j].kind # "cycle",
                        jobs'[i].owner = jobs'[j].owner
                 PROVE  i = j
      BY DEF OneJob
    <2>1. i + 1 = j + 1
      BY <1>2 DEF SupervisorInv, OneJob
    <2> QED BY <2>1
  <1>7. ASSUME NEW i \in 1..Len(jobs'), jobs'[i].kind # "cycle", jobs[1].kind # "cycle"
        PROVE  jobs'[i].owner # jobs[1].owner
    <2>1. i + 1 \in 1..Len(jobs) /\ jobs'[i] = jobs[i + 1] /\ i + 1 # 1
      BY <1>2
    <2> QED BY <1>2, <1>7, <2>1 DEF SupervisorInv, OneJob
  <1> QED BY <1>2, <1>3, <1>4, <1>5, <1>6, <1>7

\* The results when a start or stop at the executor's head has become one.
LEMMA Finishing ==
    ASSUME SupervisorInv, jobs # <<>>, jobs' = Tail(jobs), step' = step, future' = future,
           jobs[1].kind # "cycle", NEW ok \in BOOLEAN,
           results' = Append(results, [kind |-> jobs[1].kind, owner |-> jobs[1].owner, ok |-> ok])
    PROVE  /\ results' \in Seq(ResultKinds)
           /\ ResultIsAwaited' /\ OneResult' /\ JobOrResult'
           /\ Len(results) \in Nat /\ Len(results') = Len(results) + 1
           /\ \A i \in 1..Len(results) : results'[i] = results[i]
           /\ results'[Len(results) + 1].kind = jobs[1].kind
           /\ results'[Len(results) + 1].ok = ok
  <1> DEFINE n == Len(results)
             new == [kind |-> jobs[1].kind, owner |-> jobs[1].owner, ok |-> ok]
  <1>1. TypeOK
    BY DEF SupervisorInv
  <1>2. /\ \A i \in 1..Len(jobs') : \E j \in 1..Len(jobs) : jobs'[i] = jobs[j]
        /\ \A i \in 1..Len(jobs') : jobs'[i].kind # "cycle" => jobs'[i].owner # jobs[1].owner
        /\ 1 \in 1..Len(jobs) /\ jobs[1] \in JobKinds
    BY Leaving
  <1>3. jobs[1].kind \in {"start", "stop"} /\ jobs[1].owner \in Clients
        /\ step[jobs[1].owner] = jobs[1].kind
    BY <1>2 DEF SupervisorInv, JobIsAwaited, JobKinds
  <1>4. new \in ResultKinds /\ new.kind = jobs[1].kind /\ new.owner = jobs[1].owner /\ new.ok = ok
    BY <1>3 DEF ResultKinds
  <1>5. /\ results' \in Seq(ResultKinds) /\ n \in Nat /\ Len(results') = n + 1
        /\ \A i \in 1..n : results'[i] = results[i]
        /\ results'[n + 1] = new
    BY <1>1, <1>4, Elements, AppendFacts
  <1>6. \A i \in 1..Len(results') : i \in 1..n \/ i = n + 1
    BY <1>5
  <1>7. \A i \in 1..n : results[i].owner # jobs[1].owner
    BY <1>2 DEF SupervisorInv, JobOrResult
  <1> HIDE DEF n, new
  <1>8. ResultIsAwaited'
    BY <1>3, <1>4, <1>5, <1>6 DEF SupervisorInv, ResultIsAwaited, n
  <1>9. OneResult'
    BY <1>4, <1>5, <1>6, <1>7 DEF SupervisorInv, OneResult, n
  <1>10. JobOrResult'
    <2> SUFFICES ASSUME NEW i \in 1..Len(jobs'), NEW j \in 1..Len(results'),
                        jobs'[i].kind # "cycle"
                 PROVE  jobs'[i].owner # results'[j].owner
      BY DEF JobOrResult
    <2>1. CASE j = n + 1
      BY <1>2, <1>4, <1>5, <2>1
    <2>2. CASE j \in 1..n
      <3>1. PICK k \in 1..Len(jobs) : jobs'[i] = jobs[k]
        BY <1>2
      <3> QED BY <1>5, <2>2, <3>1 DEF SupervisorInv, JobOrResult, n
    <2> QED BY <1>6, <2>1, <2>2
  <1> QED BY <1>4, <1>5, <1>8, <1>9, <1>10 DEF n

LEMMA FewerJobs ==
    ASSUME SupervisorInv, results' = results,
           \A i \in 1..Len(jobs') : \E j \in 1..Len(jobs) : jobs'[i] = jobs[j]
    PROVE  JobOrResult'
  <1> SUFFICES ASSUME NEW i \in 1..Len(jobs'), NEW j \in 1..Len(results), jobs'[i].kind # "cycle"
               PROVE  jobs'[i].owner # results[j].owner
    BY DEF JobOrResult
  <1>1. PICK k \in 1..Len(jobs) : jobs'[i] = jobs[k]
    OBVIOUS
  <1> QED BY <1>1 DEF SupervisorInv, JobOrResult

LEMMA EndJobInv == ASSUME SupervisorInv, NEW ok \in BOOLEAN, EndJob(ok) PROVE SupervisorInv'
  <1>1. /\ TypeOK /\ busy /\ jobs # <<>> /\ busy' = FALSE /\ jobs' = Tail(jobs)
        /\ UNCHANGED <<running, loop, cancelled, step, restart, waits, future, lock, late>>
    BY DEF SupervisorInv, EndJob, BusyHasJob
  <1>2. /\ jobs' \in Seq(JobKinds)
        /\ CycleIsKnown' /\ NoOverlap' /\ JobIsAwaited' /\ OneJob'
        /\ \A i \in 1..Len(jobs') : \E j \in 1..Len(jobs) : jobs'[i] = jobs[j]
        /\ Head(jobs) = jobs[1] /\ 1 \in 1..Len(jobs) /\ jobs[1] \in JobKinds
    BY <1>1, Leaving
  <1>3. bundle' = (bundle /\ jobs[1].kind # "stop")
    BY <1>2 DEF EndJob
  <1>4. /\ results' \in Seq(ResultKinds) /\ ResultIsAwaited' /\ OneResult' /\ JobOrResult'
        /\ NoBundleEnds'
    <2>1. CASE jobs[1].kind = "cycle"
      <3>1. results' = results /\ bundle' = bundle
        BY <1>1, <1>2, <1>3, <2>1 DEF EndJob, TypeOK
      <3>2. JobOrResult'
        BY <1>2, <3>1, FewerJobs
      <3> QED BY <1>1, <3>1, <3>2, Elements DEF SupervisorInv, ResultIsAwaited, OneResult,
                 NoBundleEnds
    <2>2. CASE jobs[1].kind # "cycle"
      <3> DEFINE n == Len(results)
      <3>1. results' = Append(results, [kind |-> jobs[1].kind, owner |-> jobs[1].owner, ok |-> ok])
        BY <1>2, <2>2 DEF EndJob
      <3>2. /\ results' \in Seq(ResultKinds) /\ ResultIsAwaited' /\ OneResult' /\ JobOrResult'
            /\ n \in Nat /\ Len(results') = n + 1
            /\ \A i \in 1..n : results'[i] = results[i]
            /\ results'[n + 1].kind = jobs[1].kind
        BY <1>1, <2>2, <3>1, Finishing
      <3> HIDE DEF n
      <3>3. CASE jobs[1].kind = "stop"
        <4>1. n + 1 \in 1..Len(results') /\ results'[n + 1].kind = "stop"
          BY <3>2, <3>3
        <4>2. \A j \in 1..Len(results') : results'[j].kind = "start" => j < n + 1
          <5>1. \A j \in 1..Len(results') : j \in 1..n \/ j = n + 1
            BY <3>2
          <5> QED BY <3>2, <4>1, <5>1
        <4> QED BY <3>2, <4>1, <4>2 DEF NoBundleEnds
      <3>4. CASE jobs[1].kind = "start"
        <4>1. bundle' = TRUE
          BY <1>1, <1>3, <3>4 DEF SupervisorInv, StartBuilds, TypeOK
        <4> QED BY <3>2, <4>1 DEF NoBundleEnds
      <3> QED BY <1>2, <2>2, <3>3, <3>4 DEF JobKinds
    <2> QED BY <2>1, <2>2
  <1>5. TypeOK'
    <2>1. bundle' \in BOOLEAN
      BY <1>3
    <2> QED BY <1>1, <1>2, <1>4, <2>1 DEF TypeOK, JobKinds, ResultKinds
  <1>6. BusyHasJob' /\ StartBuilds' /\ CancelIsAwaited' /\ DeadLoopIsStopped' /\ WaiterAsked'
    BY <1>1 DEF SupervisorInv, BusyHasJob, StartBuilds, CancelIsAwaited, DeadLoopIsStopped,
       LoopAlive, WaiterAsked
  <1> QED BY <1>2, <1>4, <1>5, <1>6 DEF SupervisorInv

LEMMA BuildFailsInv == ASSUME SupervisorInv, BuildFails PROVE SupervisorInv'
  <1> DEFINE n == Len(results)
  <1>1. /\ TypeOK /\ jobs # <<>> /\ ~busy /\ jobs' = Tail(jobs)
        /\ UNCHANGED <<running, bundle, loop, cancelled, step, restart, waits, busy, future, lock,
                       late>>
    BY DEF SupervisorInv, BuildFails
  <1>2. /\ jobs' \in Seq(JobKinds)
        /\ CycleIsKnown' /\ NoOverlap' /\ JobIsAwaited' /\ OneJob'
        /\ Head(jobs) = jobs[1]
    BY <1>1, Leaving
  <1>3. /\ jobs[1].kind = "start"
        /\ results' = Append(results, [kind |-> jobs[1].kind, owner |-> jobs[1].owner, ok |-> FALSE])
    BY <1>2 DEF BuildFails
  <1>4. /\ results' \in Seq(ResultKinds) /\ ResultIsAwaited' /\ OneResult' /\ JobOrResult'
        /\ n \in Nat /\ Len(results') = n + 1
        /\ \A i \in 1..n : results'[i] = results[i]
        /\ results'[n + 1].ok = FALSE
    BY <1>1, <1>3, Finishing
  <1> HIDE DEF n
  <1>5. NoBundleEnds'
    <2>1. \A i \in 1..n : i \in 1..Len(results')
      BY <1>4
    <2>2. \A i \in 1..Len(results') : i \in 1..n \/ i = n + 1
      BY <1>4
    <2>3. running' /\ ~bundle' => \E i \in 1..Len(results') : results'[i].kind = "stop"
      BY <1>1, <1>4, <2>1 DEF SupervisorInv, NoBundleEnds, n
    <2>4. ASSUME ~bundle', NEW j \in 1..Len(results'), results'[j].kind = "start", results'[j].ok
          PROVE  \E i \in 1..Len(results') : j < i /\ results'[i].kind = "stop"
      <3>1. j \in 1..n /\ results'[j] = results[j]
        BY <1>4, <2>2, <2>4
      <3>2. PICK i \in 1..n : j < i /\ results[i].kind = "stop"
        BY <1>1, <2>4, <3>1 DEF SupervisorInv, NoBundleEnds, n
      <3> QED BY <1>4, <2>1, <3>2
    <2> QED BY <2>3, <2>4 DEF NoBundleEnds
  <1>6. TypeOK'
    BY <1>1, <1>2, <1>4 DEF TypeOK, JobKinds, ResultKinds
  <1>7. BusyHasJob' /\ StartBuilds' /\ CancelIsAwaited' /\ DeadLoopIsStopped' /\ WaiterAsked'
    BY <1>1 DEF SupervisorInv, BusyHasJob, StartBuilds, CancelIsAwaited, DeadLoopIsStopped,
       LoopAlive, WaiterAsked
  <1> QED BY <1>2, <1>4, <1>5, <1>6, <1>7 DEF SupervisorInv

-----------------------------------------------------------------------------
\* The theorems.

LEMMA StepInv == SupervisorInv /\ [Next]_vars => SupervisorInv'
  <1> SUFFICES ASSUME SupervisorInv, [Next]_vars PROVE SupervisorInv'
    OBVIOUS
  <1>1. CASE \E c \in Clients : Request(c)
    <2>1. PICK c \in Clients : Start(c) \/ Stop(c, FALSE) \/ Stop(c, TRUE) \/ RunManually(c)
      BY <1>1 DEF Request
    <2> QED BY <2>1, StartInv, StopInv, RunManuallyInv
  <1>2. CASE EventLoop
    BY <1>2, StartDoneInv, LoopEndedInv, StopDoneInv, CancelLoopInv, LateCycleDoneInv DEF EventLoop
  <1>3. CASE LoopWakes \/ LoopFails
    BY <1>3, LoopWakesInv, LoopFailsInv
  <1>4. CASE \E t \in Tasks : CycleReturns(t) \/ CycleTimesOut(t)
    BY <1>4, CycleReturnsInv, CycleTimesOutInv
  <1>5. CASE Work
    BY <1>5, BeginJobInv, EndJobInv, BuildFailsInv DEF Work
  <1>6. CASE UNCHANGED vars
    BY <1>6 DEF vars, SupervisorInv, TypeOK, WaiterAsked, CycleIsKnown, NoOverlap, BusyHasJob,
       JobIsAwaited, ResultIsAwaited, OneJob, OneResult, JobOrResult, StartBuilds, NoBundleEnds,
       CancelIsAwaited, DeadLoopIsStopped, LoopAlive
  <1> QED BY <1>1, <1>2, <1>3, <1>4, <1>5, <1>6 DEF Next

\* The supervisor's invariant holds in every state of every behaviour.
THEOREM SupervisorInvariant == Spec => []SupervisorInv
  BY InitInv, StepInv, PTL DEF Spec

\* The fields of RuntimeSupervisor keep their types, whatever the clients ask.
THEOREM TypeCorrect == Spec => []TypeOK
  <1>1. SupervisorInv => TypeOK
    BY DEF SupervisorInv
  <1> QED BY <1>1, SupervisorInvariant, PTL

\* run_once: no two cycles are ever in the executor, although a cycle outlives
\* a waiter that timed out or was cancelled, and the lock that waiter held.
THEOREM CyclesDoNotOverlap == Spec => []NoOverlap
  <1>1. SupervisorInv => NoOverlap
    BY DEF SupervisorInv
  <1> QED BY <1>1, SupervisorInvariant, PTL

\* start, stop and restart: when those that overlapped have all returned, a
\* supervisor that says it runs has its runtime and a live loop task, unless an
\* exception has ended that task since the last stop.
THEOREM RunningMeansAlive == Spec => []RunningIsAlive
  <1>1. SupervisorInv => RunningIsAlive
    <2> SUFFICES ASSUME SupervisorInv, Settled, running
                 PROVE  bundle /\ (loop = "failed" \/ (LoopAlive /\ ~cancelled))
      BY DEF RunningIsAlive
    <2>1. TypeOK
      BY DEF SupervisorInv
    <2>2. \A i \in 1..Len(results) : results[i].kind # "stop"
      BY <2>1, Elements DEF SupervisorInv, ResultIsAwaited, Settled, ResultKinds
    <2>3. bundle
      BY <2>2 DEF SupervisorInv, NoBundleEnds
    <2>4. loop = "failed" \/ LoopAlive
      BY DEF SupervisorInv, DeadLoopIsStopped, Settled
    <2>5. ~cancelled
      BY DEF SupervisorInv, CancelIsAwaited, Settled
    <2> QED BY <2>3, <2>4, <2>5
  <1> QED BY <1>1, SupervisorInvariant, PTL
=============================================================================
