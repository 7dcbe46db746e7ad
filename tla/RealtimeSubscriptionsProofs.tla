--------------------- MODULE RealtimeSubscriptionsProofs ---------------------
(***************************************************************************)
(* Proofs about RealtimeSubscriptions, for any finite set of codes, any    *)
(* limits and any number of changes and faults.                            *)
(***************************************************************************)
EXTENDS RealtimeSubscriptions, FiniteSetTheorems, SequenceTheorems, TLAPS

-----------------------------------------------------------------------------
\* The inductive invariant.

Registration == [type : {"register"}, screen : AllScreens, codes : Seq(Codes), gen : Nat,
                 tries : Nat]
Release == [type : {"remove", "remove_all"}, screen : AllScreens \cup {0}, codes : Seq(Codes),
            gen : Nat, tries : Nat]
Command == Registration \cup Release

\* What the gateway reports: heartbeats of a new session, outcomes of commands.
Report == [kind : {"reset"}, cmd : {RemoveAllCmd(0)}, late : BOOLEAN]
              \cup [kind : {"ack"}, cmd : Command, late : BOOLEAN]
              \cup [kind : {"failed"}, cmd : Registration, late : BOOLEAN]

Channels ==
    /\ gen \in Nat
    /\ queue \subseteq Command
    /\ events \in Seq(Report)
    /\ late \subseteq {e \in Report : e.late}
    /\ jobs \in Seq(Report)
    /\ resetDue \in BOOLEAN

\* A report whose handling makes the code inactive, whatever its screen.
Clears(e, c) ==
    \/ e.kind = "reset"
    \/ e.kind = "ack" /\ e.cmd.type = "remove_all"
    \/ e.kind = "ack" /\ e.cmd.type = "remove" /\ c \in Range(e.cmd.codes)

\* A report in time whose handling makes the code active on the screen.
Claims(e, s, c) ==
    /\ e.kind = "ack" /\ ~e.late
    /\ e.cmd.type = "register" /\ e.cmd.screen = s /\ c \in Range(e.cmd.codes)

ClearsIn(reports, i, c) == \E j \in DOMAIN reports : j > i /\ Clears(reports[j], c)

\* The code is registered at Kiwoom, or a heartbeat of a new session is due.
Backed(s, c) == <<s, c>> \in served \/ resetDue

\* Whoever claims that a code is served, code_to_screen or a report in time that
\* waits, is right or will be contradicted by a report behind it.
ActiveBacked ==
    \A c \in Codes \ belated : active[c] # 0 =>
        Backed(active[c], c) \/ ClearsIn(jobs, 0, c) \/ ClearsIn(events, 0, c)
JobsBacked ==
    \A i \in DOMAIN jobs : \A s \in AllScreens, c \in Codes : Claims(jobs[i], s, c) =>
        Backed(s, c) \/ ClearsIn(jobs, i, c) \/ ClearsIn(events, 0, c)
EventsBacked ==
    \A i \in DOMAIN events : \A s \in AllScreens, c \in Codes : Claims(events[i], s, c) =>
        Backed(s, c) \/ ClearsIn(events, i, c)

Backing == ActiveBacked /\ JobsBacked /\ EventsBacked

SubscriptionInv == TypeOK /\ Channels /\ Backing

-----------------------------------------------------------------------------
(* Finite sets and sequences.                                               *)

\* Listing a finite set.
LEMMA SetToSeqLists ==
  ASSUME NEW S, IsFiniteSet(S)
  PROVE  SetToSeq(S) \in Seq(S)
<1>1. Cardinality(S) \in Nat /\ \E f \in [1..Cardinality(S) -> S] : IsInjective(f)
  BY FS_CardinalityType DEF ExistsBijection, Bijection, Injection
<1>2. SetToSeq(S) \in [1..Cardinality(S) -> S]
  BY <1>1 DEF SetToSeq
<1> QED BY <1>1, <1>2, SeqDef

LEMMA SortedLists ==
  ASSUME NEW S, IsFiniteSet(S), NEW q \in [1..Cardinality(S) -> S]
  PROVE  q \in Seq(S)
BY FS_CardinalityType, SeqDef

\* Screens are numbers from 1.
LEMMA ScreensAreNumbers ==
  /\ Cardinality(Codes) \in Nat
  /\ Screens \subseteq AllScreens
  /\ AllScreens \subseteq Nat \ {0}
  /\ OpeningScreen \in AllScreens
<1>1. Cardinality(Codes) \in Nat
  BY ConstantsAssumption, FS_CardinalityType
<1> QED BY <1>1 DEF AllScreens, Screens, OpeningScreen

-----------------------------------------------------------------------------
(* Commands and reports.                                                    *)

\* A cycle asks for registrations on the manager's screens.
LEMMA CycleRegisters ==
  ASSUME NEW w, NEW codes \in SUBSET Codes, NEW at \in [codes -> Screens], gen \in Nat
  PROVE  RegisterCmds(w, codes, at) \subseteq {cmd \in Registration : cmd.screen \in Screens}
<1> DEFINE Batch(s) == {c \in codes : at[c] = s}
           Batches(s) == {q \in [1..Cardinality(Batch(s)) -> Batch(s)] :
                            \A i, j \in DOMAIN q : i < j => Before(w, q[i], q[j])}
<1>1. RegisterCmds(w, codes, at) =
        UNION {{RegisterCmd(s, q, gen, 2) : q \in Batches(s)} : s \in {at[c] : c \in codes}}
  BY DEF RegisterCmds, Sorted
<1>2. ASSUME NEW s \in {at[c] : c \in codes}, NEW q \in Batches(s)
      PROVE  /\ RegisterCmd(s, q, gen, 2) \in Registration
             /\ RegisterCmd(s, q, gen, 2).screen \in Screens
  <2>1. IsFiniteSet(Codes) /\ Batch(s) \in SUBSET Codes
    BY ConstantsAssumption
  <2>2. IsFiniteSet(Batch(s))
    BY <2>1, FS_Subset
  <2>3. q \in Seq(Batch(s))
    BY <2>2, SortedLists
  <2>4. q \in Seq(Codes)
    BY <2>1, <2>3, SeqMonotonic
  <2>5. s \in Screens
    OBVIOUS
  <2> QED BY <2>4, <2>5, ScreensAreNumbers DEF RegisterCmd, Registration
<1> HIDE DEF Batches
<1> QED BY <1>1, <1>2

LEMMA RegistrationsOfCycle ==
  ASSUME gen \in Nat, NEW w, NEW cmds \in Registrations(w)
  PROVE  cmds \subseteq {cmd \in Registration : cmd.screen \in Screens}
<1> DEFINE new == {c \in TargetRecords(w) : active[c] = 0 /\ pending[c] = 0}
           left == [s \in AllScreens |-> slots[s] \ {c \in Gone(w) : active[c] = s}]
           occupied == [s \in AllScreens |-> left[s] \cup {c \in Codes : pending[c] = s}]
<1>1. PICK at \in Placements(w, new, occupied) : cmds = RegisterCmds(w, new, at)
  BY DEF Registrations
<1>2. new \in SUBSET Codes /\ at \in [new -> Screens]
  BY DEF Placements, TargetRecords
<1> HIDE DEF new
<1> QED BY <1>1, <1>2, CycleRegisters

\* What a release, and the registration of the opening burst, are.
LEMMA ReleasesAreCommands ==
  ASSUME NEW s \in AllScreens, NEW c \in Codes
  PROVE  RemoveCmd(s, c) \in Command
<1>1. <<c>> \in Seq(Codes)
  OBVIOUS
<1> QED BY <1>1 DEF RemoveCmd, Release, Command

LEMMA RemoveAllIsCommand ==
  ASSUME NEW g \in Nat
  PROVE  RemoveAllCmd(g) \in Command
<1>1. <<>> \in Seq(Codes)
  OBVIOUS
<1> QED BY <1>1 DEF RemoveAllCmd, Release, Command

LEMMA OpeningRegisters == OpeningCmd \in Registration
<1>1. IsFiniteSet(Opening) /\ Opening \subseteq Codes
  BY ConstantsAssumption, FS_Subset
<1>2. SetToSeq(Opening) \in Seq(Opening)
  BY <1>1, SetToSeqLists
<1>3. SetToSeq(Opening) \in Seq(Codes)
  BY <1>1, <1>2, SeqMonotonic
<1> QED BY <1>3, ScreensAreNumbers DEF OpeningCmd, RegisterCmd, Registration

\* A command is known by its type.
LEMMA CommandsByType ==
  ASSUME NEW cmd \in Command
  PROVE  /\ cmd.type \in {"register", "remove", "remove_all"}
         /\ cmd.type = "register" => cmd \in Registration
         /\ Range(cmd.codes) \subseteq Codes
<1>1. cmd.codes \in Seq(Codes)
  BY DEF Command, Registration, Release
<1>2. Range(cmd.codes) \subseteq Codes
  BY <1>1, LenProperties DEF Range
<1> QED BY <1>2 DEF Command, Registration, Release

LEMMA RegistrationFields ==
  ASSUME NEW cmd \in Registration
  PROVE  /\ cmd \in Command
         /\ cmd.type = "register" /\ cmd.screen \in AllScreens /\ cmd.screen # 0
         /\ cmd.codes \in Seq(Codes) /\ cmd.tries \in Nat
         /\ Range(cmd.codes) \subseteq Codes
<1>1. cmd.codes \in Seq(Codes)
  BY DEF Registration
<1>2. Range(cmd.codes) \subseteq Codes
  BY <1>1, LenProperties DEF Range
<1> QED BY <1>2, ScreensAreNumbers DEF Registration, Command

\* A report is known by its kind.
LEMMA ReportsByKind ==
  ASSUME NEW e \in Report
  PROVE  /\ e.kind \in {"reset", "ack", "failed"}
         /\ e.cmd \in Command
         /\ e.kind = "reset" => e.cmd.type = "remove_all"
         /\ e.kind = "failed" => e.cmd \in Registration
<1>1. RemoveAllCmd(0) \in Command /\ RemoveAllCmd(0).type = "remove_all"
  BY RemoveAllIsCommand DEF RemoveAllCmd
<1> QED BY <1>1, RegistrationFields DEF Report

LEMMA EventsAreReports ==
  ASSUME NEW cmd \in Command
  PROVE  /\ Event("ack", cmd) \in Report
         /\ cmd \in Registration => Event("failed", cmd) \in Report
BY DEF Event, Report

LEMMA HeartbeatIsReport == Heartbeat \in Report
BY DEF Heartbeat, Event, Report

-----------------------------------------------------------------------------
(* Every claim stays backed.                                                *)

\* A report goes to the end of a sequence.
LEMMA AppendedReport ==
  ASSUME NEW q \in Seq(Report), NEW e \in Report
  PROVE  /\ Append(q, e) \in Seq(Report)
         /\ DOMAIN Append(q, e) = DOMAIN q \cup {Len(q) + 1}
         /\ DOMAIN q = 1..Len(q) /\ Len(q) \in Nat
         /\ \A i \in DOMAIN q : Append(q, e)[i] = q[i]
         /\ Append(q, e)[Len(q) + 1] = e
BY LenProperties

LEMMA AppendedClears ==
  ASSUME NEW q \in Seq(Report), NEW e \in Report, NEW i, NEW c
  PROVE  /\ ClearsIn(q, i, c) => ClearsIn(Append(q, e), i, c)
         /\ i \in 0..Len(q) /\ Clears(e, c) => ClearsIn(Append(q, e), i, c)
<1>1. ASSUME ClearsIn(q, i, c) PROVE ClearsIn(Append(q, e), i, c)
  <2> PICK j \in DOMAIN q : j > i /\ Clears(q[j], c)
    BY <1>1 DEF ClearsIn
  <2>1. j \in DOMAIN Append(q, e) /\ Append(q, e)[j] = q[j]
    BY AppendedReport
  <2> QED BY <2>1 DEF ClearsIn
<1>2. ASSUME i \in 0..Len(q), Clears(e, c) PROVE ClearsIn(Append(q, e), i, c)
  <2>1. Len(q) + 1 > i /\ Len(q) + 1 \in DOMAIN Append(q, e) /\ Append(q, e)[Len(q) + 1] = e
    BY <1>2, AppendedReport
  <2> QED BY <1>2, <2>1 DEF ClearsIn
<1> QED BY <1>1, <1>2

\* A report leaves the front of a sequence.
LEMMA FirstReport ==
  ASSUME NEW q \in Seq(Report), q # <<>>
  PROVE  /\ Head(q) \in Report /\ Head(q) = q[1]
         /\ Tail(q) \in Seq(Report)
         /\ DOMAIN q = 1..Len(q) /\ Len(q) \in Nat \ {0}
         /\ \A i \in DOMAIN Tail(q) : i + 1 \in DOMAIN q /\ i > 0 /\ Tail(q)[i] = q[i + 1]
         /\ \A i \in DOMAIN q : i > 1 => i - 1 \in DOMAIN Tail(q)
<1>1. /\ Tail(q) \in Seq(Report) /\ Len(Tail(q)) = Len(q) - 1
      /\ \A i \in 1..Len(Tail(q)) : Tail(q)[i] = q[i + 1]
      /\ Head(q) \in Report
  BY HeadTailProperties
<1>2. Len(q) \in Nat /\ DOMAIN q = 1..Len(q) /\ DOMAIN Tail(q) = 1..Len(Tail(q))
  BY <1>1, LenProperties
<1>3. Len(q) # 0
  BY EmptySeq
<1> QED BY <1>1, <1>2, <1>3

LEMMA RestClears ==
  ASSUME NEW q \in Seq(Report), q # <<>>, NEW i \in Nat, NEW c
  PROVE  /\ ClearsIn(q, i + 1, c) => ClearsIn(Tail(q), i, c)
         /\ ClearsIn(q, 0, c) => Clears(Head(q), c) \/ ClearsIn(Tail(q), 0, c)
<1>1. ASSUME NEW k \in Nat, NEW j \in DOMAIN q, j > k + 1, Clears(q[j], c)
      PROVE  ClearsIn(Tail(q), k, c)
  <2>1. j \in Nat /\ j - 1 > k /\ j - 1 \in DOMAIN Tail(q)
    BY <1>1, FirstReport
  <2>2. Tail(q)[j - 1] = q[j]
    BY <2>1, FirstReport
  <2> QED BY <1>1, <2>1, <2>2 DEF ClearsIn
<1>2. ClearsIn(q, i + 1, c) => ClearsIn(Tail(q), i, c)
  BY <1>1 DEF ClearsIn
<1>3. ASSUME ClearsIn(q, 0, c), ~Clears(Head(q), c) PROVE ClearsIn(Tail(q), 0, c)
  <2> PICK j \in DOMAIN q : j > 0 /\ Clears(q[j], c)
    BY <1>3 DEF ClearsIn
  <2>1. j \in Nat /\ j # 1
    BY <1>3, FirstReport
  <2>2. j > 0 + 1
    BY <2>1
  <2> QED BY <1>1, <2>2
<1> QED BY <1>2, <1>3

\* Steps that touch neither Kiwoom nor a report, and at most give codes up.
LEMMA SilentStep ==
  ASSUME Backing, UNCHANGED <<jobs, events, served, resetDue, belated>>,
         \A c \in Codes : active'[c] = active[c] \/ active'[c] = 0
  PROVE  Backing'
<1>1. ActiveBacked'
  BY DEF Backing, ActiveBacked, Backed, ClearsIn
<1>2. JobsBacked' /\ EventsBacked'
  BY DEF Backing, JobsBacked, EventsBacked, Backed, ClearsIn
<1> QED BY <1>1, <1>2 DEF Backing

\* A reset that is due backs every claim.
LEMMA DueStep == resetDue => Backing
BY DEF Backing, ActiveBacked, JobsBacked, EventsBacked, Backed

\* A report is emitted: whatever it takes away from Kiwoom it clears, and what
\* it claims is true.
LEMMA EmitStep ==
  ASSUME TypeOK, Channels, Backing, NEW e \in Report,
         events' = Append(events, e), UNCHANGED <<active, jobs, belated>>,
         \A s \in AllScreens, c \in Codes : Backed(s, c) => Backed(s, c)' \/ Clears(e, c),
         \A s \in AllScreens, c \in Codes : Claims(e, s, c) => Backed(s, c)'
  PROVE  Backing'
<1>1. events \in Seq(Report)
  BY DEF Channels
<1>2. ASSUME NEW i, NEW c \in Codes, ClearsIn(events, i, c)
      PROVE  ClearsIn(events', i, c)
  BY <1>1, <1>2, AppendedClears
<1>3. ASSUME NEW i \in 0..Len(events), NEW c \in Codes, Clears(e, c)
      PROVE  ClearsIn(events', i, c)
  BY <1>1, <1>3, AppendedClears
<1>4. DOMAIN events = 1..Len(events) /\ Len(events) \in Nat
  BY <1>1, LenProperties
<1>5. ActiveBacked'
  <2> SUFFICES ASSUME NEW c \in Codes \ belated, active[c] # 0
               PROVE  \/ Backed(active[c], c)' \/ ClearsIn(jobs, 0, c)
                      \/ ClearsIn(events', 0, c)
    BY DEF ActiveBacked, Backed, ClearsIn
  <2>1. active[c] \in AllScreens
    BY DEF TypeOK
  <2>2. Backed(active[c], c) \/ ClearsIn(jobs, 0, c) \/ ClearsIn(events, 0, c)
    BY DEF Backing, ActiveBacked
  <2>3. Backed(active[c], c) => Backed(active[c], c)' \/ Clears(e, c)
    BY <2>1
  <2> QED BY <1>2, <1>3, <1>4, <2>2, <2>3
<1>6. JobsBacked'
  <2> SUFFICES ASSUME NEW i \in DOMAIN jobs, NEW s \in AllScreens, NEW c \in Codes,
                      Claims(jobs[i], s, c)
               PROVE  Backed(s, c)' \/ ClearsIn(jobs, i, c) \/ ClearsIn(events', 0, c)
    BY DEF JobsBacked, Backed, ClearsIn
  <2>1. Backed(s, c) \/ ClearsIn(jobs, i, c) \/ ClearsIn(events, 0, c)
    BY DEF Backing, JobsBacked
  <2> QED BY <1>2, <1>3, <1>4, <2>1
<1>7. EventsBacked'
  <2> SUFFICES ASSUME NEW i \in DOMAIN events', NEW s \in AllScreens, NEW c \in Codes,
                      Claims(events'[i], s, c)
               PROVE  Backed(s, c)' \/ ClearsIn(events', i, c)
    BY DEF EventsBacked, Backed, ClearsIn
  <2>1. CASE i \in DOMAIN events
    <3>1. events'[i] = events[i]
      BY <1>1, <2>1, AppendedReport
    <3>2. Backed(s, c) \/ ClearsIn(events, i, c)
      BY <2>1, <3>1 DEF Backing, EventsBacked
    <3> QED BY <1>2, <1>3, <1>4, <2>1, <3>2
  <2>2. CASE i = Len(events) + 1
    BY <1>1, <2>2, AppendedReport
  <2> QED BY <1>1, <2>1, <2>2, AppendedReport
<1> QED BY <1>5, <1>6, <1>7 DEF Backing

\* Core passes the first event on to the executor.
LEMMA PostStep ==
  ASSUME Channels, Backing, events # <<>>, events' = Tail(events),
         jobs' = Append(jobs, Head(events)), UNCHANGED <<active, served, resetDue, belated>>
  PROVE  Backing'
<1> PICK e \in Report : e = Head(events)
  BY FirstReport DEF Channels
<1>1. events \in Seq(Report) /\ jobs \in Seq(Report) /\ jobs' = Append(jobs, e)
  BY DEF Channels
<1>2. /\ DOMAIN jobs = 1..Len(jobs) /\ Len(jobs) \in Nat
      /\ DOMAIN events = 1..Len(events) /\ Len(events) \in Nat \ {0}
      /\ e = events[1]
  BY <1>1, FirstReport, LenProperties
<1>3. ASSUME NEW i \in 0..Len(jobs), NEW c \in Codes,
             ClearsIn(jobs, i, c) \/ ClearsIn(events, 0, c)
      PROVE  ClearsIn(jobs', i, c) \/ ClearsIn(events', 0, c)
  <2>1. ClearsIn(jobs, i, c) => ClearsIn(jobs', i, c)
    BY <1>1, AppendedClears
  <2>2. ClearsIn(events, 0, c) => Clears(e, c) \/ ClearsIn(events', 0, c)
    BY <1>1, RestClears
  <2>3. Clears(e, c) => ClearsIn(jobs', i, c)
    BY <1>1, AppendedClears
  <2> QED BY <1>3, <2>1, <2>2, <2>3
<1>4. ActiveBacked'
  <2> SUFFICES ASSUME NEW c \in Codes \ belated, active[c] # 0
               PROVE  Backed(active[c], c) \/ ClearsIn(jobs', 0, c) \/ ClearsIn(events', 0, c)
    BY DEF ActiveBacked, Backed, ClearsIn
  <2> QED BY <1>2, <1>3 DEF Backing, ActiveBacked
<1>5. JobsBacked'
  <2> SUFFICES ASSUME NEW i \in DOMAIN jobs', NEW s \in AllScreens, NEW c \in Codes,
                      Claims(jobs'[i], s, c)
               PROVE  Backed(s, c) \/ ClearsIn(jobs', i, c) \/ ClearsIn(events', 0, c)
    BY DEF JobsBacked, Backed, ClearsIn
  <2>1. CASE i \in DOMAIN jobs
    <3>1. jobs'[i] = jobs[i]
      BY <1>1, <2>1, AppendedReport
    <3>2. Backed(s, c) \/ ClearsIn(jobs, i, c) \/ ClearsIn(events, 0, c)
      BY <2>1, <3>1 DEF Backing, JobsBacked
    <3> QED BY <1>2, <1>3, <2>1, <3>2
  <2>2. CASE i = Len(jobs) + 1
    <3>1. Claims(events[1], s, c) /\ 1 \in DOMAIN events
      BY <1>1, <1>2, <2>2, AppendedReport
    <3>2. Backed(s, c) \/ ClearsIn(events, 0 + 1, c)
      BY <3>1 DEF Backing, EventsBacked
    <3> QED BY <1>1, <3>2, RestClears
  <2> QED BY <1>1, <2>1, <2>2, AppendedReport
<1>6. EventsBacked'
  <2> SUFFICES ASSUME NEW i \in DOMAIN events', NEW s \in AllScreens, NEW c \in Codes,
                      Claims(events'[i], s, c)
               PROVE  Backed(s, c) \/ ClearsIn(events', i, c)
    BY DEF EventsBacked, Backed, ClearsIn
  <2>1. i \in Nat /\ i + 1 \in DOMAIN events /\ events'[i] = events[i + 1]
    <3>1. i + 1 \in DOMAIN events /\ events'[i] = events[i + 1]
      BY <1>1, FirstReport
    <3>2. DOMAIN events' = 1..Len(events')
      BY <1>1, FirstReport, LenProperties
    <3> QED BY <3>1, <3>2
  <2>2. Backed(s, c) \/ ClearsIn(events, i + 1, c)
    BY <2>1 DEF Backing, EventsBacked
  <2> QED BY <1>1, <2>1, <2>2, RestClears
<1> QED BY <1>4, <1>5, <1>6 DEF Backing

\* Core goes on with an event whose post timed out: it claims nothing.
LEMMA LateStep ==
  ASSUME Channels, Backing, NEW e \in Report, e.late, jobs' = Append(jobs, e),
         resetDue => resetDue', UNCHANGED <<active, events, served, belated>>
  PROVE  Backing'
<1>1. jobs \in Seq(Report)
  BY DEF Channels
<1>2. ASSUME NEW i, NEW c \in Codes, ClearsIn(jobs, i, c)
      PROVE  ClearsIn(jobs', i, c)
  BY <1>1, <1>2, AppendedClears
<1>3. \A s, c : Backed(s, c) => Backed(s, c)'
  BY DEF Backed
<1>4. ActiveBacked'
  <2> SUFFICES ASSUME NEW c \in Codes \ belated, active[c] # 0
               PROVE  Backed(active[c], c)' \/ ClearsIn(jobs', 0, c) \/ ClearsIn(events, 0, c)
    BY DEF ActiveBacked, Backed, ClearsIn
  <2> QED BY <1>2, <1>3 DEF Backing, ActiveBacked
<1>5. JobsBacked'
  <2> SUFFICES ASSUME NEW i \in DOMAIN jobs', NEW s \in AllScreens, NEW c \in Codes,
                      Claims(jobs'[i], s, c)
               PROVE  Backed(s, c)' \/ ClearsIn(jobs', i, c) \/ ClearsIn(events, 0, c)
    BY DEF JobsBacked, Backed, ClearsIn
  <2>1. jobs'[i] # e
    BY DEF Claims
  <2>2. i \in DOMAIN jobs /\ jobs'[i] = jobs[i]
    BY <1>1, <2>1, AppendedReport
  <2>3. Backed(s, c) \/ ClearsIn(jobs, i, c) \/ ClearsIn(events, 0, c)
    BY <2>2 DEF Backing, JobsBacked
  <2> QED BY <1>2, <1>3, <2>3
<1>6. EventsBacked'
  BY <1>3 DEF Backing, EventsBacked, Backed, ClearsIn
<1> QED BY <1>4, <1>5, <1>6 DEF Backing

\* The executor handles the first job: it makes a code active only where the
\* job claims it, and a job that clears a code makes it inactive.
LEMMA HandleStep ==
  ASSUME Channels, Backing, jobs # <<>>, jobs' = Tail(jobs),
         UNCHANGED <<events, served, resetDue>>,
         active' \in [Codes -> AllScreens \cup {0}],
         \A c \in Codes : \/ /\ active'[c] = active[c] /\ ~Clears(Head(jobs), c)
                             /\ c \in belated => c \in belated'
                          \/ active'[c] = 0
                          \/ c \in belated'
                          \/ Claims(Head(jobs), active'[c], c)
  PROVE  Backing'
<1>1. jobs \in Seq(Report)
  BY DEF Channels
<1>2. DOMAIN jobs = 1..Len(jobs) /\ Len(jobs) \in Nat \ {0} /\ Head(jobs) = jobs[1]
  BY <1>1, FirstReport
<1>3. ActiveBacked'
  <2> SUFFICES ASSUME NEW c \in Codes \ belated', active'[c] # 0
               PROVE  Backed(active'[c], c) \/ ClearsIn(jobs', 0, c) \/ ClearsIn(events, 0, c)
    BY DEF ActiveBacked, Backed, ClearsIn
  <2>1. CASE active'[c] = active[c] /\ ~Clears(Head(jobs), c) /\ c \notin belated
    <3>1. Backed(active[c], c) \/ ClearsIn(jobs, 0, c) \/ ClearsIn(events, 0, c)
      BY <2>1 DEF Backing, ActiveBacked
    <3>2. ClearsIn(jobs, 0, c) => ClearsIn(jobs', 0, c)
      BY <1>1, <2>1, RestClears
    <3> QED BY <2>1, <3>1, <3>2
  <2>2. CASE Claims(Head(jobs), active'[c], c)
    <3>1. active'[c] \in AllScreens /\ 1 \in DOMAIN jobs
      BY <1>2
    <3>2. Backed(active'[c], c) \/ ClearsIn(jobs, 0 + 1, c) \/ ClearsIn(events, 0, c)
      BY <1>2, <2>2, <3>1 DEF Backing, JobsBacked
    <3>3. ClearsIn(jobs, 0 + 1, c) => ClearsIn(jobs', 0, c)
      BY <1>1, RestClears
    <3> QED BY <3>2, <3>3
  <2> QED BY <2>1, <2>2
<1>4. JobsBacked'
  <2> SUFFICES ASSUME NEW i \in DOMAIN jobs', NEW s \in AllScreens, NEW c \in Codes,
                      Claims(jobs'[i], s, c)
               PROVE  Backed(s, c) \/ ClearsIn(jobs', i, c) \/ ClearsIn(events, 0, c)
    BY DEF JobsBacked, Backed, ClearsIn
  <2>1. i \in Nat /\ i + 1 \in DOMAIN jobs /\ jobs'[i] = jobs[i + 1]
    <3>1. i + 1 \in DOMAIN jobs /\ jobs'[i] = jobs[i + 1]
      BY <1>1, FirstReport
    <3>2. DOMAIN jobs' = 1..Len(jobs')
      BY <1>1, FirstReport, LenProperties
    <3> QED BY <3>1, <3>2
  <2>2. Backed(s, c) \/ ClearsIn(jobs, i + 1, c) \/ ClearsIn(events, 0, c)
    BY <2>1 DEF Backing, JobsBacked
  <2>3. ClearsIn(jobs, i + 1, c) => ClearsIn(jobs', i, c)
    BY <1>1, <2>1, RestClears
  <2> QED BY <2>2, <2>3
<1>5. EventsBacked'
  BY DEF Backing, EventsBacked, Backed, ClearsIn
<1> QED BY <1>3, <1>4, <1>5 DEF Backing

-----------------------------------------------------------------------------
(* The steps.                                                               *)

LEMMA InitKeeps == Init => SubscriptionInv
<1> SUFFICES ASSUME Init PROVE SubscriptionInv
  OBVIOUS
<1>1. TypeOK
  BY DEF Init, TypeOK
<1>2. Channels
  <2>1. gen \in Nat /\ queue \subseteq Command /\ late \subseteq {e \in Report : e.late}
    BY DEF Init
  <2>2. events \in Seq(Report) /\ jobs \in Seq(Report) /\ resetDue \in BOOLEAN
    BY EmptySeq DEF Init
  <2> QED BY <2>1, <2>2 DEF Channels
<1>3. Backing
  BY DEF Init, Backing, ActiveBacked, JobsBacked, EventsBacked
<1> QED BY <1>1, <1>2, <1>3 DEF SubscriptionInv

\* A cycle, as far as it gets.
LEMMA SyncKeeps ==
  ASSUME SubscriptionInv, NEW w \in [Codes -> {"no", "regular", "protected"}],
         NEW popped \in SUBSET Gone(w), NEW done \in SUBSET popped,
         NEW cmds \in SUBSET {cmd \in Registration : cmd.screen \in Screens},
         SyncUpTo(w, popped, done, cmds), UNCHANGED <<gen, gatewayVars, jobs, belated>>
  PROVE  SubscriptionInv'
<1> DEFINE releases == {<<active[c], c>> : c \in done}
           expired == {r \in removes : RemoveCmd(r[1], r[2]) \notin queue}
           accepted == {cmd \in cmds : Key(cmd) \notin kept}
           trackable == accepted \cup {cmd \in cmds : Key(cmd) \in open}
<1>1. TypeOK /\ Channels /\ Backing
  BY DEF SubscriptionInv
<1>2. popped \subseteq {c \in Codes : active[c] # 0} /\ done \subseteq popped
  BY DEF Gone
<1>3. /\ wanted' = w
      /\ active' = [c \in Codes |-> IF c \in popped THEN 0 ELSE active[c]]
      /\ slots' = [s \in AllScreens |-> slots[s] \ {c \in done : active[c] = s}]
      /\ pending' = [c \in Codes |->
             IF \E cmd \in trackable : c \in Range(cmd.codes)
             THEN (CHOOSE cmd \in trackable : c \in Range(cmd.codes)).screen
             ELSE pending[c]]
      /\ \E again \in SUBSET (releases \cap expired) :
             queue' = queue \cup accepted \cup
                      {RemoveCmd(r[1], r[2]) : r \in (releases \ removes) \cup again}
      /\ kept' = kept \cup {Key(cmd) : cmd \in accepted}
      /\ open' = open \cup {Key(cmd) : cmd \in accepted}
  BY DEF SyncUpTo
<1>4. \A c \in Codes : active'[c] = active[c] \/ active'[c] = 0
  BY <1>3
<1>5. TypeOK'
  <2>1. wanted' \in [Codes -> {"no", "regular", "protected"}]
    BY <1>3
  <2>2. active' \in [Codes -> AllScreens \cup {0}]
    BY <1>1, <1>3 DEF TypeOK
  <2>3. slots' \in [AllScreens -> SUBSET Codes]
    BY <1>1, <1>3 DEF TypeOK
  <2>4. pending' \in [Codes -> Screens \cup {0}]
    <3>1. \A c \in Codes : (\E cmd \in trackable : c \in Range(cmd.codes))
            => (CHOOSE cmd \in trackable : c \in Range(cmd.codes)) \in trackable
      OBVIOUS
    <3>2. \A cmd \in trackable : cmd.screen \in Screens
      OBVIOUS
    <3> HIDE DEF trackable
    <3> QED BY <1>1, <1>3, <3>1, <3>2 DEF TypeOK, trackable
  <2>5. ASSUME NEW c \in Codes, active'[c] # 0 PROVE c \in slots'[active'[c]]
    <3>1. c \notin done /\ active'[c] = active[c] /\ active[c] \in AllScreens
      BY <1>1, <1>2, <1>3, <2>5 DEF TypeOK
    <3>2. c \in slots[active[c]]
      BY <1>1, <2>5, <3>1 DEF TypeOK
    <3> QED BY <1>3, <3>1, <3>2
  <2>6. open' \subseteq kept'
    BY <1>1, <1>3 DEF TypeOK
  <2>7. served' \subseteq AllScreens \X Codes /\ belated' \subseteq Codes
    BY <1>1 DEF TypeOK, gatewayVars
  <2> QED BY <2>1, <2>2, <2>3, <2>4, <2>5, <2>6, <2>7 DEF TypeOK
<1>6. Channels'
  <2>1. ASSUME NEW r \in releases PROVE RemoveCmd(r[1], r[2]) \in Command
    <3>1. PICK c \in done : r = <<active[c], c>>
      OBVIOUS
    <3>2. c \in Codes /\ active[c] \in AllScreens
      BY <1>1, <1>2 DEF TypeOK
    <3> QED BY <3>1, <3>2, ReleasesAreCommands
  <2>2. accepted \subseteq Command
    BY DEF Command
  <2>3. PICK again \in SUBSET releases :
          queue' = queue \cup accepted \cup
                   {RemoveCmd(r[1], r[2]) : r \in (releases \ removes) \cup again}
    BY <1>3
  <2>4. {RemoveCmd(r[1], r[2]) : r \in (releases \ removes) \cup again} \subseteq Command
    <3> HIDE DEF releases
    <3> QED BY <2>1
  <2>5. queue' \subseteq Command
    <3>1. queue \subseteq Command
      BY <1>1 DEF Channels
    <3> HIDE DEF accepted, releases
    <3> QED BY <2>2, <2>3, <2>4, <3>1
  <2> QED BY <1>1, <2>5 DEF Channels, gatewayVars
<1>7. Backing'
  BY <1>1, <1>4, SilentStep DEF gatewayVars
<1> QED BY <1>5, <1>6, <1>7 DEF SubscriptionInv

LEMMA CycleKeeps ==
  ASSUME SubscriptionInv, Cycle \/ CycleRaises
  PROVE  SubscriptionInv'
<1>1. gen \in Nat
  BY DEF SubscriptionInv, Channels
<1>2. UNCHANGED <<gen, gatewayVars, jobs, belated>>
  BY DEF Cycle, CycleRaises
<1>3. PICK w \in [Codes -> {"no", "regular", "protected"}] : Sync(w) \/ SyncRaises(w)
  BY DEF Cycle, CycleRaises
<1>4. CASE Sync(w)
  <2>1. PICK cmds \in Registrations(w) : SyncUpTo(w, Gone(w), Gone(w), cmds)
    BY <1>4 DEF Sync
  <2> QED BY <1>1, <1>2, <2>1, RegistrationsOfCycle, SyncKeeps
<1>5. CASE SyncRaises(w)
  <2>1. CASE \E c \in Gone(w) : \E done \in SUBSET (Gone(w) \ {c}) :
               SyncUpTo(w, done \cup {c}, done, {})
    <3>1. PICK c \in Gone(w), done \in SUBSET Gone(w) :
            SyncUpTo(w, done \cup {c}, done, {})
      BY <2>1
    <3>2. PICK popped \in SUBSET Gone(w) : popped = done \cup {c}
      OBVIOUS
    <3>3. SyncUpTo(w, popped, done, {}) /\ done \in SUBSET popped
      BY <3>1, <3>2
    <3> QED BY <1>2, <3>3, SyncKeeps
  <2>2. CASE \E all \in Registrations(w) : \E cmds \in SUBSET all :
               cmds # all /\ SyncUpTo(w, Gone(w), Gone(w), cmds)
    <3> PICK all \in Registrations(w) : \E cmds \in SUBSET all :
               SyncUpTo(w, Gone(w), Gone(w), cmds)
      BY <2>2
    <3>1. PICK cmds \in SUBSET all : SyncUpTo(w, Gone(w), Gone(w), cmds)
      OBVIOUS
    <3>2. all \subseteq {cmd \in Registration : cmd.screen \in Screens}
      BY <1>1, RegistrationsOfCycle
    <3>3. cmds \in SUBSET {cmd \in Registration : cmd.screen \in Screens}
      BY <3>1, <3>2
    <3> QED BY <1>2, <3>1, <3>3, SyncKeeps
  <2> QED BY <1>5, <2>1, <2>2 DEF SyncRaises
<1> QED BY <1>3, <1>4, <1>5

\* Steps on Core's commands alone.
LEMMA CoreStep ==
  ASSUME SubscriptionInv, queue' \subseteq Command, open' \subseteq kept',
         UNCHANGED <<wanted, managerVars, gatewayVars, jobs, belated>>
  PROVE  SubscriptionInv'
<1>1. TypeOK'
  BY DEF SubscriptionInv, TypeOK, managerVars, gatewayVars
<1>2. Channels'
  BY DEF SubscriptionInv, Channels, managerVars, gatewayVars
<1>3. Backing'
  BY SilentStep DEF SubscriptionInv, managerVars, gatewayVars
<1> QED BY <1>1, <1>2, <1>3 DEF SubscriptionInv

LEMMA CoreKeeps ==
  ASSUME SubscriptionInv, RegisterOpening \/ ExpireQueued \/ ExpireDispatched
  PROVE  SubscriptionInv'
<1>1. queue \subseteq Command /\ open \subseteq kept
  BY DEF SubscriptionInv, Channels, TypeOK
<1>2. OpeningCmd \in Command
  BY OpeningRegisters, RegistrationFields
<1>3. queue' \subseteq Command
  BY <1>1, <1>2 DEF RegisterOpening, ExpireQueued, ExpireDispatched
<1>4. open' \subseteq kept'
  BY <1>1 DEF RegisterOpening, ExpireQueued, ExpireDispatched
<1>5. UNCHANGED <<wanted, managerVars, gatewayVars, jobs, belated>>
  BY DEF RegisterOpening, ExpireQueued, ExpireDispatched, histories
<1> QED BY <1>3, <1>4, <1>5, CoreStep

\* The gateway executes a command: a release takes away the code it clears, and
\* a registration claims what it has just made true.
LEMMA ExecuteKeeps ==
  ASSUME SubscriptionInv, ExecuteCommand
  PROVE  SubscriptionInv'
<1>1. TypeOK /\ Channels /\ Backing
  BY DEF SubscriptionInv
<1>2. UNCHANGED <<wanted, managerVars, kept, open, late, jobs, belated>>
  BY DEF ExecuteCommand, histories
<1>3. PICK cmd \in queue :
        /\ queue' = queue \ {cmd}
        /\ \/ /\ served' = After(cmd)
              /\ events' = Append(events, Event("ack", cmd))
              /\ UNCHANGED resetDue
           \/ /\ cmd.type = "register"
              /\ events' = Append(events, Event("failed", cmd))
              /\ UNCHANGED <<served, resetDue>>
           \/ resetDue' = TRUE /\ UNCHANGED <<events, served>>
  BY DEF ExecuteCommand
<1>4. cmd \in Command /\ queue' \subseteq Command
  BY <1>1, <1>3 DEF Channels
<1>5. ASSUME served' \subseteq AllScreens \X Codes, events' \in Seq(Report), resetDue' \in BOOLEAN
      PROVE  TypeOK' /\ Channels'
  <2>1. TypeOK'
    BY <1>1, <1>2, <1>5 DEF TypeOK, managerVars
  <2>2. Channels'
    BY <1>1, <1>2, <1>4, <1>5 DEF Channels, managerVars
  <2> QED BY <2>1, <2>2
<1>6. CASE /\ served' = After(cmd)
           /\ events' = Append(events, Event("ack", cmd))
           /\ UNCHANGED resetDue
  <2> PICK e \in Report : e = Event("ack", cmd)
    BY <1>4, EventsAreReports
  <2>1. e.kind = "ack" /\ e.cmd = cmd
    BY DEF Event
  <2>2. events' \in Seq(Report) /\ resetDue' \in BOOLEAN
    BY <1>1, <1>6, AppendedReport DEF Channels
  <2>3. served' \subseteq AllScreens \X Codes
    <3>1. CASE cmd.type = "register"
      <4>1. /\ cmd.screen \in AllScreens /\ Range(cmd.codes) \subseteq Codes
            /\ served' = served \cup {<<cmd.screen, c>> : c \in Range(cmd.codes)}
        BY <1>4, <1>6, <3>1, CommandsByType, RegistrationFields DEF After
      <4> QED BY <1>1, <4>1 DEF TypeOK
    <3>2. CASE cmd.type = "remove"
      BY <1>1, <1>6, <3>2 DEF After, TypeOK
    <3>3. CASE cmd.type = "remove_all"
      BY <1>6, <3>3 DEF After
    <3> QED BY <1>4, <3>1, <3>2, <3>3, CommandsByType
  <2>4. \A s \in AllScreens, c \in Codes : Backed(s, c) => Backed(s, c)' \/ Clears(e, c)
    <3>1. CASE cmd.type = "register"
      BY <1>6, <3>1 DEF After, Backed
    <3>2. CASE cmd.type = "remove"
      <4>1. served' = served \ {<<cmd.screen, c>> : c \in Range(cmd.codes)}
        BY <1>6, <3>2 DEF After
      <4> QED BY <1>6, <2>1, <3>2, <4>1 DEF Backed, Clears
    <3>3. CASE cmd.type = "remove_all"
      BY <2>1, <3>3 DEF Clears
    <3> QED BY <1>4, <3>1, <3>2, <3>3, CommandsByType
  <2>5. \A s \in AllScreens, c \in Codes : Claims(e, s, c) => Backed(s, c)'
    <3>1. ASSUME cmd.type = "register"
          PROVE  served' = served \cup {<<cmd.screen, c>> : c \in Range(cmd.codes)}
      BY <1>6, <3>1 DEF After
    <3> QED BY <2>1, <3>1 DEF Claims, Backed
  <2>6. Backing'
    BY <1>1, <1>2, <1>6, <2>4, <2>5, EmitStep DEF managerVars
  <2> QED BY <1>5, <2>2, <2>3, <2>6 DEF SubscriptionInv
<1>7. CASE /\ cmd.type = "register"
           /\ events' = Append(events, Event("failed", cmd))
           /\ UNCHANGED <<served, resetDue>>
  <2> PICK e \in Report : e = Event("failed", cmd)
    BY <1>4, <1>7, CommandsByType, EventsAreReports
  <2>1. events' \in Seq(Report) /\ resetDue' \in BOOLEAN
    BY <1>1, <1>7, AppendedReport DEF Channels
  <2>2. served' \subseteq AllScreens \X Codes
    BY <1>1, <1>7 DEF TypeOK
  <2>3. \A s \in AllScreens, c \in Codes : Backed(s, c) => Backed(s, c)'
    BY <1>7 DEF Backed
  <2>4. \A s \in AllScreens, c \in Codes : ~Claims(e, s, c)
    BY DEF Claims, Event
  <2>5. Backing'
    BY <1>1, <1>2, <1>7, <2>3, <2>4, EmitStep DEF managerVars
  <2> QED BY <1>5, <2>1, <2>2, <2>5 DEF SubscriptionInv
<1>8. CASE resetDue' = TRUE /\ UNCHANGED <<events, served>>
  <2>1. Backing'
    <3>1. resetDue'
      BY <1>8
    <3> QED BY <3>1, DueStep, PTL
  <2>2. TypeOK' /\ Channels'
    BY <1>1, <1>5, <1>8 DEF TypeOK, Channels
  <2> QED BY <2>1, <2>2 DEF SubscriptionInv
<1> QED BY <1>3, <1>6, <1>7, <1>8

\* Core receives an event.
LEMMA ReceiveKeeps ==
  ASSUME SubscriptionInv, NEW e \in Report, Receive(e)
  PROVE  /\ queue' \subseteq Command /\ open' \subseteq kept'
         /\ jobs' = Append(jobs, e) /\ jobs' \in Seq(Report)
         /\ UNCHANGED <<wanted, managerVars, kept, served, belated>>
<1> DEFINE again == e.kind = "failed" /\ e.cmd.tries > 1 /\ Key(e.cmd) \in open
<1>1. /\ queue' = queue \cup IF again THEN {[e.cmd EXCEPT !.tries = @ - 1]} ELSE {}
      /\ open' = IF again THEN open ELSE open \ {Key(e.cmd)}
      /\ jobs' = Append(jobs, e)
      /\ UNCHANGED <<wanted, managerVars, kept, served, belated>>
  BY DEF Receive, histories
<1>2. (IF again THEN {[e.cmd EXCEPT !.tries = @ - 1]} ELSE {}) \subseteq Command
  <2>1. CASE again
    <3>1. e.cmd \in Registration /\ e.cmd.tries \in Nat /\ e.cmd.tries > 1
      BY <2>1, ReportsByKind, RegistrationFields
    <3>2. [e.cmd EXCEPT !.tries = @ - 1] \in Registration
      BY <3>1 DEF Registration
    <3>3. [e.cmd EXCEPT !.tries = @ - 1] \in Command
      BY <3>2 DEF Command
    <3> QED BY <2>1, <3>3
  <2>2. CASE ~again
    BY <2>2
  <2> QED BY <2>1, <2>2
<1>3. queue' \subseteq Command
  BY <1>1, <1>2 DEF SubscriptionInv, Channels
<1>4. open' \subseteq kept'
  BY <1>1 DEF SubscriptionInv, TypeOK
<1>5. jobs' \in Seq(Report)
  BY <1>1, AppendedReport DEF SubscriptionInv, Channels
<1> QED BY <1>1, <1>3, <1>4, <1>5

LEMMA PostKeeps ==
  ASSUME SubscriptionInv, PostEvent
  PROVE  SubscriptionInv'
<1>1. TypeOK /\ Channels /\ Backing
  BY DEF SubscriptionInv
<1>2. events # <<>> /\ events' = Tail(events) /\ UNCHANGED <<late, resetDue>>
  BY DEF PostEvent
<1>3. Head(events) \in Report /\ events' \in Seq(Report)
  BY <1>1, <1>2, FirstReport DEF Channels
<1>4. /\ queue' \subseteq Command /\ open' \subseteq kept'
      /\ jobs' = Append(jobs, Head(events)) /\ jobs' \in Seq(Report)
      /\ UNCHANGED <<wanted, managerVars, kept, served, belated>>
  BY <1>3, ReceiveKeeps DEF PostEvent
<1>5. TypeOK'
  BY <1>1, <1>4 DEF TypeOK, managerVars
<1>6. Channels'
  BY <1>1, <1>2, <1>3, <1>4 DEF Channels, managerVars
<1>7. Backing'
  BY <1>1, <1>2, <1>4, PostStep DEF managerVars
<1> QED BY <1>5, <1>6, <1>7 DEF SubscriptionInv

LEMMA LateKeeps ==
  ASSUME SubscriptionInv, ReceiveLate
  PROVE  SubscriptionInv'
<1>1. TypeOK /\ Channels /\ Backing
  BY DEF SubscriptionInv
<1>2. PICK e \in late :
        /\ late' = late \ {e} /\ Receive(e) /\ UNCHANGED events
        /\ resetDue' = (resetDue \/ (e.kind = "reset" /\ \A i \in DOMAIN events : events[i] # Heartbeat))
  BY DEF ReceiveLate
<1>3. e \in Report /\ e.late
  BY <1>1 DEF Channels
<1>4. /\ queue' \subseteq Command /\ open' \subseteq kept'
      /\ jobs' = Append(jobs, e) /\ jobs' \in Seq(Report)
      /\ UNCHANGED <<wanted, managerVars, kept, served, belated>>
  BY <1>2, <1>3, ReceiveKeeps
<1>5. TypeOK'
  BY <1>1, <1>4 DEF TypeOK, managerVars
<1>6. Channels'
  <2>1. resetDue' \in BOOLEAN
    BY <1>2
  <2>2. late' \subseteq {r \in Report : r.late}
    BY <1>1, <1>2 DEF Channels
  <2> QED BY <1>1, <1>2, <1>4, <2>1, <2>2 DEF Channels, managerVars
<1>7. Backing'
  BY <1>1, <1>2, <1>3, <1>4, LateStep DEF managerVars
<1> QED BY <1>5, <1>6, <1>7 DEF SubscriptionInv

LEMMA LossKeeps ==
  ASSUME SubscriptionInv, LoseEvents \/ LoseSession
  PROVE  SubscriptionInv'
<1>1. TypeOK /\ Channels /\ Backing
  BY DEF SubscriptionInv
<1>2. UNCHANGED <<wanted, managerVars, coreVars, jobs, belated>> /\ resetDue' = TRUE
  BY DEF LoseEvents, LoseSession, histories
<1>3. served' \subseteq AllScreens \X Codes
  BY <1>1 DEF LoseEvents, LoseSession, TypeOK
<1>4. events' \in Seq(Report) /\ late' \subseteq {e \in Report : e.late}
  <2>1. CASE LoseEvents
    <3>1. PICK n \in 1..Len(events) : events' = SubSeq(events, n + 1, Len(events))
      BY <2>1 DEF LoseEvents
    <3>2. Len(events) \in Nat /\ \A j \in 1..Len(events) : events[j] \in Report
      BY <1>1, LenProperties, ElementOfSeq DEF Channels
    <3>3. n + 1 \in Int /\ \A j \in (n + 1)..Len(events) : events[j] \in Report
      BY <3>2
    <3>4. events' \in Seq(Report)
      BY <3>1, <3>2, <3>3, SubSeqProperties
    <3>5. PICK e \in Report : e = Head(events)
      <4>1. events # <<>>
        BY <3>1, <3>2
      <4> QED BY <1>1, <4>1, FirstReport DEF Channels
    <3>6. [e EXCEPT !.late = TRUE] \in Report /\ [e EXCEPT !.late = TRUE].late
      BY DEF Report
    <3>7. late' \in {late, late \cup {[e EXCEPT !.late = TRUE]}}
      BY <2>1, <3>5 DEF LoseEvents
    <3> QED BY <1>1, <3>4, <3>6, <3>7 DEF Channels
  <2>2. CASE LoseSession
    BY <1>1, <2>2 DEF LoseSession, Channels
  <2> QED BY <2>1, <2>2
<1>5. TypeOK'
  BY <1>1, <1>2, <1>3 DEF TypeOK, managerVars, coreVars
<1>6. Channels'
  BY <1>1, <1>2, <1>4 DEF Channels, managerVars, coreVars
<1>7. Backing'
  <2>1. resetDue'
    BY <1>2
  <2> QED BY <2>1, DueStep, PTL
<1> QED BY <1>5, <1>6, <1>7 DEF SubscriptionInv

LEMMA HeartbeatKeeps ==
  ASSUME SubscriptionInv, SendHeartbeat
  PROVE  SubscriptionInv'
<1>1. TypeOK /\ Channels /\ Backing
  BY DEF SubscriptionInv
<1>2. /\ events' = Append(events, Heartbeat) /\ resetDue' = FALSE
      /\ UNCHANGED <<wanted, managerVars, coreVars, late, served, jobs, belated>>
  BY DEF SendHeartbeat, histories
<1>3. Heartbeat \in Report
  BY HeartbeatIsReport
<1>4. events' \in Seq(Report)
  BY <1>1, <1>2, <1>3, AppendedReport DEF Channels
<1>5. TypeOK'
  BY <1>1, <1>2 DEF TypeOK, managerVars, coreVars
<1>6. Channels'
  BY <1>1, <1>2, <1>4 DEF Channels, managerVars, coreVars
<1>7. Heartbeat.kind = "reset"
  BY DEF Heartbeat, Event
<1>8. \A s \in AllScreens, c \in Codes : Clears(Heartbeat, c) /\ ~Claims(Heartbeat, s, c)
  BY <1>7 DEF Clears, Claims
<1>9. Backing'
  BY <1>1, <1>2, <1>3, <1>8, EmitStep DEF managerVars
<1> QED BY <1>5, <1>6, <1>9 DEF SubscriptionInv

\* The executor.
LEMMA StaleKeeps ==
  ASSUME SubscriptionInv, MarkAllStale
  PROVE  /\ queue' \subseteq Command /\ gen' \in Nat
         /\ active' = [c \in Codes |-> 0]
         /\ slots' = [s \in AllScreens |-> {}]
         /\ pending' = [c \in Codes |-> 0]
<1>1. queue \subseteq Command /\ gen \in Nat
  BY DEF SubscriptionInv, Channels
<1>2. RemoveAllCmd(gen + 1) \in Command
  BY <1>1, RemoveAllIsCommand
<1>3. queue' = queue \/ queue' = queue \cup {RemoveAllCmd(gen + 1)}
  BY DEF MarkAllStale
<1>4. gen' = gen \/ gen' = gen + 1
  BY DEF MarkAllStale
<1>5. queue' \subseteq Command
  BY <1>1, <1>2, <1>3
<1> QED BY <1>1, <1>4, <1>5 DEF MarkAllStale

LEMMA RepairKeeps ==
  ASSUME SubscriptionInv, RepairNoTicks
  PROVE  SubscriptionInv'
<1>1. TypeOK /\ Channels /\ Backing
  BY DEF SubscriptionInv
<1>2. MarkAllStale /\ UNCHANGED <<wanted, kept, open, gatewayVars, jobs, belated>>
  BY DEF RepairNoTicks, histories
<1>3. TypeOK'
  BY <1>1, <1>2, StaleKeeps DEF TypeOK, gatewayVars
<1>4. Channels'
  BY <1>1, <1>2, StaleKeeps DEF Channels, gatewayVars
<1>5. \A c \in Codes : active'[c] = 0
  BY <1>2, StaleKeeps
<1>6. Backing'
  BY <1>1, <1>2, <1>5, SilentStep DEF gatewayVars
<1> QED BY <1>3, <1>4, <1>6 DEF SubscriptionInv

\* The acknowledgement of a command: a registration makes active what it
\* claims, and a release makes inactive what it clears.
LEMMA AckKeeps ==
  ASSUME TypeOK, NEW e \in Report, e.kind = "ack", ApplyAck(e.cmd)
  PROVE  /\ active' \in [Codes -> AllScreens \cup {0}]
         /\ slots' \in [AllScreens -> SUBSET Codes]
         /\ pending' \in [Codes -> Screens \cup {0}]
         /\ \A c \in Codes : active'[c] # 0 => c \in slots'[active'[c]]
         /\ \A c \in Codes : \/ /\ active'[c] = active[c] /\ ~Clears(e, c)
                                /\ c \in belated => c \in BelatedBy(e)
                             \/ active'[c] = 0
                             \/ c \in BelatedBy(e)
                             \/ Claims(e, active'[c], c)
<1> PICK cmd \in Command : cmd = e.cmd
  BY ReportsByKind
<1>1. CASE cmd.type = "register"
  <2> PICK codes : codes = Range(cmd.codes)
    OBVIOUS
  <2>1. /\ active' = [c \in Codes |-> IF c \in codes THEN cmd.screen ELSE active[c]]
        /\ slots' = [slots EXCEPT ![cmd.screen] = @ \cup codes]
        /\ pending' = [c \in Codes |-> IF c \in codes THEN 0 ELSE pending[c]]
    BY <1>1 DEF ApplyAck
  <2>2. cmd.screen \in AllScreens /\ codes \subseteq Codes
    BY <1>1, CommandsByType, RegistrationFields
  <2>3. /\ active' \in [Codes -> AllScreens \cup {0}]
        /\ slots' \in [AllScreens -> SUBSET Codes]
        /\ pending' \in [Codes -> Screens \cup {0}]
    BY <2>1, <2>2 DEF TypeOK
  <2>4. ASSUME NEW c \in Codes, active'[c] # 0 PROVE c \in slots'[active'[c]]
    <3>1. CASE c \in codes
      BY <2>1, <2>2, <3>1 DEF TypeOK
    <3>2. CASE c \notin codes
      <4>1. active'[c] = active[c] /\ active[c] \in AllScreens /\ c \in slots[active[c]]
        BY <2>1, <2>4, <3>2 DEF TypeOK
      <4>2. slots[active[c]] \subseteq slots'[active[c]]
        BY <2>1, <2>2, <4>1 DEF TypeOK
      <4> QED BY <4>1, <4>2
    <3> QED BY <3>1, <3>2
  <2>5. \A c \in Codes : ~Clears(e, c)
    BY <1>1 DEF Clears
  <2>6. BelatedBy(e) = IF e.late THEN belated \cup codes ELSE belated \ codes
    BY <1>1 DEF BelatedBy
  <2>7. ASSUME NEW c \in Codes
        PROVE  \/ /\ active'[c] = active[c] /\ ~Clears(e, c)
                  /\ c \in belated => c \in BelatedBy(e)
               \/ c \in BelatedBy(e)
               \/ Claims(e, active'[c], c)
    <3>1. CASE c \notin codes
      BY <2>1, <2>5, <2>6, <3>1
    <3>2. CASE c \in codes /\ e.late
      BY <2>6, <3>2
    <3>3. CASE c \in codes /\ ~e.late
      BY <1>1, <2>1, <3>3 DEF Claims
    <3> QED BY <3>1, <3>2, <3>3
  <2> QED BY <2>3, <2>4, <2>7
<1>2. CASE cmd.type # "register"
  <2> PICK codes : codes = IF cmd.type = "remove" THEN Range(cmd.codes)
                           ELSE {c \in Codes : active[c] # 0}
    OBVIOUS
  <2>1. /\ active' = [c \in Codes |-> IF c \in codes THEN 0 ELSE active[c]]
        /\ slots' = [s \in AllScreens |-> slots[s] \ {c \in codes : active[c] = s}]
        /\ pending' = [c \in Codes |-> IF c \in codes THEN 0 ELSE pending[c]]
    BY <1>2 DEF ApplyAck
  <2>2. /\ active' \in [Codes -> AllScreens \cup {0}]
        /\ slots' \in [AllScreens -> SUBSET Codes]
        /\ pending' \in [Codes -> Screens \cup {0}]
    BY <2>1 DEF TypeOK
  <2>3. ASSUME NEW c \in Codes, active'[c] # 0 PROVE c \in slots'[active'[c]]
    <3>1. c \notin codes /\ active'[c] = active[c] /\ active[c] \in AllScreens
      BY <2>1, <2>3 DEF TypeOK
    <3>2. c \in slots[active[c]]
      BY <2>3, <3>1 DEF TypeOK
    <3> QED BY <2>1, <3>1, <3>2
  <2>4. ASSUME NEW c \in Codes, Clears(e, c), active[c] # 0 PROVE c \in codes
    BY <2>4 DEF Clears
  <2>5. \A c \in Codes : (active'[c] = active[c] /\ ~Clears(e, c)) \/ active'[c] = 0
    BY <2>1, <2>4
  <2>6. BelatedBy(e) = belated
    BY <1>2 DEF BelatedBy
  <2> QED BY <2>2, <2>3, <2>5, <2>6
<1> QED BY <1>1, <1>2

LEMMA HandleKeeps ==
  ASSUME SubscriptionInv, HandleEvent
  PROVE  SubscriptionInv'
<1>1. TypeOK /\ Channels /\ Backing
  BY DEF SubscriptionInv
<1>2. jobs # <<>> /\ jobs' = Tail(jobs) /\ UNCHANGED <<wanted, kept, open, gatewayVars>>
  BY DEF HandleEvent
<1> PICK e \in Report : e = Head(jobs)
  BY <1>1, <1>2, FirstReport DEF Channels
<1>3. /\ belated' = BelatedBy(e)
      /\ \/ e.kind = "reset" /\ MarkAllStale
         \/ e.kind = "ack" /\ ApplyAck(e.cmd) /\ UNCHANGED <<gen, queue>>
         \/ e.kind = "failed" /\ ApplyFailed(e.cmd) /\ UNCHANGED <<gen, queue>>
  BY DEF HandleEvent
<1>4. /\ active' \in [Codes -> AllScreens \cup {0}]
      /\ slots' \in [AllScreens -> SUBSET Codes]
      /\ pending' \in [Codes -> Screens \cup {0}]
      /\ \A c \in Codes : active'[c] # 0 => c \in slots'[active'[c]]
      /\ \A c \in Codes : \/ /\ active'[c] = active[c] /\ ~Clears(e, c)
                             /\ c \in belated => c \in belated'
                          \/ active'[c] = 0
                          \/ c \in belated'
                          \/ Claims(e, active'[c], c)
      /\ queue' \subseteq Command /\ gen' \in Nat
  <2>1. CASE e.kind = "reset" /\ MarkAllStale
    BY <2>1, StaleKeeps
  <2>2. CASE e.kind = "ack" /\ ApplyAck(e.cmd) /\ UNCHANGED <<gen, queue>>
    <3>1. queue' \subseteq Command /\ gen' \in Nat
      BY <1>1, <2>2 DEF Channels
    <3> QED BY <1>1, <1>3, <2>2, <3>1, AckKeeps
  <2>3. CASE e.kind = "failed" /\ ApplyFailed(e.cmd) /\ UNCHANGED <<gen, queue>>
    <3>1. \A c \in Codes : ~Clears(e, c)
      BY <2>3 DEF Clears
    <3>2. queue' \subseteq Command /\ gen' \in Nat
      BY <1>1, <2>3 DEF Channels
    <3>3. UNCHANGED <<active, slots>> /\ pending' \in [Codes -> Screens \cup {0}]
      BY <1>1, <2>3 DEF ApplyFailed, TypeOK
    <3>4. belated' = belated
      BY <1>3, <2>3 DEF BelatedBy
    <3> QED BY <1>1, <3>1, <3>2, <3>3, <3>4 DEF TypeOK
  <2> QED BY <1>3, <2>1, <2>2, <2>3
<1>5. belated' \subseteq Codes
  <2>1. Range(e.cmd.codes) \subseteq Codes /\ belated \subseteq Codes
    BY <1>1, ReportsByKind, CommandsByType DEF TypeOK
  <2> QED BY <1>3, <2>1 DEF BelatedBy
<1>6. TypeOK'
  BY <1>1, <1>2, <1>4, <1>5 DEF TypeOK, gatewayVars
<1>7. Channels'
  <2>1. jobs' \in Seq(Report)
    BY <1>1, <1>2, FirstReport DEF Channels
  <2> QED BY <1>1, <1>2, <1>4, <2>1 DEF Channels, gatewayVars
<1>8. Backing'
  BY <1>1, <1>2, <1>4, HandleStep DEF gatewayVars
<1> QED BY <1>6, <1>7, <1>8 DEF SubscriptionInv

LEMMA NextKeeps == SubscriptionInv /\ [Next]_vars => SubscriptionInv'
<1> SUFFICES ASSUME SubscriptionInv, [Next]_vars PROVE SubscriptionInv'
  OBVIOUS
<1>1. CASE Next
  BY <1>1, CycleKeeps, CoreKeeps, ExecuteKeeps, PostKeeps, LateKeeps, LossKeeps,
     HeartbeatKeeps, HandleKeeps, RepairKeeps DEF Next
<1>2. CASE UNCHANGED vars
  <2>1. queue' \subseteq Command /\ open' \subseteq kept'
    BY <1>2 DEF vars, coreVars, SubscriptionInv, Channels, TypeOK
  <2>2. UNCHANGED <<wanted, managerVars, gatewayVars, jobs, belated>>
    BY <1>2 DEF vars, histories
  <2> QED BY <2>1, <2>2, CoreStep
<1> QED BY <1>1, <1>2

-----------------------------------------------------------------------------
(* The theorems.                                                            *)

\* In every behaviour of the subscriptions the types hold, the queues hold
\* well-formed commands and reports, and every claim that a code is served, by
\* code_to_screen or by an acknowledgement not handled yet, is true or followed
\* by a report that withdraws it.
THEOREM SubscriptionInvariant == Spec => []SubscriptionInv
BY InitKeeps, NextKeeps, PTL DEF Spec

\* The mappings of RealTimeSubscriptionManager keep their types and agree with
\* each other, whatever acknowledgements, failures and resets are handled.
THEOREM TypeCorrect == Spec => []TypeOK
<1>1. SubscriptionInv => TypeOK
  BY DEF SubscriptionInv
<1> QED BY <1>1, SubscriptionInvariant, PTL

\* What the subscription manager takes for active is registered at Kiwoom on
\* that screen, or its release, a remove_all_realtime or the news of a lost
\* session is on its way, or its acknowledgement came after its post had timed
\* out; for any codes, limits and number of faults.
THEOREM ActiveCodesAreServed == Spec => []ActiveIsServedUnlessLate
<1>1. ASSUME SubscriptionInv PROVE ActiveIsServedUnlessLate
  <2> SUFFICES ASSUME NEW c \in Codes \ belated, active[c] # 0
               PROVE  <<active[c], c>> \in served \/ Withdrawn(c)
    BY DEF ActiveIsServedUnlessLate
  <2>1. Backed(active[c], c) \/ ClearsIn(jobs, 0, c) \/ ClearsIn(events, 0, c)
    BY <1>1 DEF SubscriptionInv, Backing, ActiveBacked
  <2>2. ASSUME NEW e \in Report, Clears(e, c), e.cmd \in OnTheirWay PROVE Withdrawn(c)
    BY <2>2, ReportsByKind DEF Clears, Withdrawn
  <2>3. CASE Backed(active[c], c)
    BY <2>3 DEF Backed, Withdrawn
  <2>4. CASE ClearsIn(jobs, 0, c)
    <3>1. PICK i \in DOMAIN jobs : Clears(jobs[i], c)
      BY <2>4 DEF ClearsIn
    <3>2. jobs[i] \in Report
      BY <1>1, LenProperties, ElementOfSeq DEF SubscriptionInv, Channels
    <3> QED BY <2>2, <3>1, <3>2 DEF OnTheirWay
  <2>5. CASE ClearsIn(events, 0, c)
    <3>1. PICK i \in DOMAIN events : Clears(events[i], c)
      BY <2>5 DEF ClearsIn
    <3>2. events[i] \in Report
      BY <1>1, LenProperties, ElementOfSeq DEF SubscriptionInv, Channels
    <3> QED BY <2>2, <3>1, <3>2 DEF OnTheirWay
  <2> QED BY <2>1, <2>3, <2>4, <2>5
<1> QED BY <1>1, SubscriptionInvariant, PTL
=============================================================================
