---------------------------- MODULE UpkeepProofs ----------------------------
(***************************************************************************)
(* Theorems about what runs beside the assessments: the automation         *)
(* scheduler, for every set of schedules, fan-outs, user ingests and       *)
(* uploads and any number of edits; the desktop shell and its sidecar, for *)
(* any number of launches; the plans of action, for every set of findings  *)
(* and clusters and any number of edits and imports; and the CRM overlays  *)
(* over one row, for all contents of CRM files, any number of baselines    *)
(* and any number of steps.                                                *)
(***************************************************************************)
EXTENDS Scheduler, Shell, Poams, Overlays, SequenceTheorems, FiniteSetTheorems, TLAPS

-----------------------------------------------------------------------------
(* The scheduler *)

Asleep == loop \in {"off", "sleep"}

\* The thread fires a queue of distinct schedules, or sleeps and has none.
QueueFits == /\ Asleep <=> queue = <<>>
             /\ \A h, i \in 1..Len(queue) : queue[h] = queue[i] => h = i

\* Every listed schedule that nobody edited since is still due.
ListedAreDue == \A i \in 1..Len(queue) :
                   row[queue[i]] # NoRow /\ queue[i] \notin touched
                   => row[queue[i]].next = "due"

\* A polled pull is counted as pending.
PolledIsPending == loop = "poll" => fire.pending > 0 /\ fire.job \in Pulls

\* A pull runs while the thread polls it, or was given up.
RunningIsPolled == \A j \in Pulls : status[j] = "running" /\ j \notin late
                                    => loop = "poll" /\ fire.job = j

\* What makes the two safety properties inductive.
SchedulerInv == TypeOK /\ QueueFits /\ ListedAreDue /\ PolledIsPending /\ RunningIsPolled

LEMMA InvIsSafe == SchedulerInv => SchedulerSafe
<1> SUFFICES ASSUME SchedulerInv PROVE SchedulerSafe
  OBVIOUS
<1>1. OnePullAtATime
  BY DEF SchedulerInv, RunningIsPolled, OnePullAtATime
<1>2. InFlightStaysDue
  <2> SUFFICES ASSUME Firing, Present, Current \notin touched
               PROVE  row[Current].next = "due"
    BY DEF InFlightStaysDue
  <2>1. queue \in Seq(Schedules) /\ queue # <<>>
    BY DEF SchedulerInv, TypeOK, QueueFits, Asleep, Firing
  <2>2. 1 \in 1..Len(queue) /\ Current = queue[1]
    BY <2>1 DEF Current
  <2> QED
    BY <2>2 DEF SchedulerInv, ListedAreDue, Present
<1> QED
  BY <1>1, <1>2 DEF SchedulerSafe

-----------------------------------------------------------------------------
(* The queue *)

LEMMA TailFacts ==
  ASSUME NEW q \in Seq(Schedules), q # <<>>
  PROVE  /\ Tail(q) \in Seq(Schedules)
         /\ Len(Tail(q)) = Len(q) - 1
         /\ Len(q) \in Nat \ {0}
         /\ \A i \in 1..Len(Tail(q)) : Tail(q)[i] = q[i + 1]
         /\ \A i \in 1..Len(q) : q[i] \in Schedules
         /\ Head(q) = q[1]
  BY HeadTailProperties, ElementOfSeq, EmptySeq

\* Whatever the order the rows are listed in, they are distinct schedules.
LEMMA OrdersFacts ==
  ASSUME NEW S \in SUBSET Schedules, S # {}, NEW q \in Orders(S)
  PROVE  /\ q \in Seq(Schedules)
         /\ q # <<>>
         /\ \A i \in 1..Len(q) : q[i] \in S
         /\ \A h, i \in 1..Len(q) : q[h] = q[i] => h = i
<1>1. IsFiniteSet(S) /\ Cardinality(S) \in Nat /\ Cardinality(S) # 0
  BY SchedulerAssumption, FS_Subset, FS_CardinalityType, FS_EmptySet
<1>2. q \in [1..Cardinality(S) -> S] /\ \A i, j \in DOMAIN q : q[i] = q[j] => i = j
  BY DEF Orders
<1>3. q \in Seq(S) /\ Len(q) = Cardinality(S)
  BY <1>1, <1>2, SeqDef, LenProperties
<1> QED
  BY <1>1, <1>2, <1>3, SeqMonotonic, EmptySeq

-----------------------------------------------------------------------------
(* Steps *)

LEMMA InitSchedulerInv == Init => SchedulerInv
<1> SUFFICES ASSUME Init PROVE SchedulerInv
  OBVIOUS
<1>1. TypeOK
  BY SchedulerAssumption DEF Init, TypeOK, Registry!Init, Registry!TypeOK, Registry!Threads,
     Registry!JobPc, Registry!UploadPc, Row, Fire, NoFire, NewRow, Labels
<1> QED
  BY <1>1 DEF Init, SchedulerInv, QueueFits, Asleep, ListedAreDue, PolledIsPending,
     RunningIsPolled, Registry!Init

\* Going on to the next due schedule, with at most the row of this one written.
LEMMA NextScheduleInv ==
  ASSUME SchedulerInv, ~Asleep, loop # "poll", NextSchedule,
         UNCHANGED <<registryVars, automation, edits, late>>,
         row' \in [Schedules -> Row \cup {NoRow}],
         \A s \in Schedules : s # Current => row'[s] = row[s]
  PROVE  SchedulerInv'
<1> DEFINE rest == Tail(queue)
<1>1. /\ queue \in Seq(Schedules) /\ queue # <<>>
      /\ rest \in Seq(Schedules) /\ Len(rest) = Len(queue) - 1 /\ Len(queue) \in Nat \ {0}
      /\ \A i \in 1..Len(rest) : rest[i] = queue[i + 1]
      /\ \A i \in 1..Len(queue) : queue[i] \in Schedules
      /\ Current = queue[1]
  BY TailFacts DEF SchedulerInv, TypeOK, QueueFits, Current
<1>2. queue' = rest /\ fire' = NoFire
  BY DEF NextSchedule
<1>3. \A h, i \in 1..Len(rest) : rest[h] = rest[i] => h = i
  BY <1>1 DEF SchedulerInv, QueueFits
<1>4. \A i \in 1..Len(rest) : rest[i] # Current
  BY <1>1 DEF SchedulerInv, QueueFits
<1>5. loop' \in {"sleep", "load"} /\ (loop' = "sleep" <=> rest = <<>>)
  BY DEF NextSchedule
<1>6. TypeOK'
  BY <1>1, <1>2, <1>5 DEF SchedulerInv, TypeOK, registryVars, NoFire, Fire, Labels,
     Registry!TypeOK, NextSchedule
<1>7. QueueFits'
  BY <1>2, <1>3, <1>5 DEF QueueFits, Asleep
<1>8. ListedAreDue'
  <2> SUFFICES ASSUME NEW i \in 1..Len(rest), row'[rest[i]] # NoRow, rest[i] \notin touched'
               PROVE  row'[rest[i]].next = "due"
    BY <1>2 DEF ListedAreDue
  <2>1. rest # <<>>
    BY <1>1
  <2>2. touched' = touched
    BY <2>1 DEF NextSchedule
  <2> QED
    BY <1>1, <1>4, <2>2 DEF SchedulerInv, ListedAreDue
<1>9. PolledIsPending' /\ RunningIsPolled'
  BY <1>5 DEF SchedulerInv, PolledIsPending, RunningIsPolled, registryVars
<1> QED
  BY <1>6, <1>7, <1>8, <1>9 DEF SchedulerInv

LEMMA WakeInv == SchedulerInv /\ Wake => SchedulerInv'
<1> SUFFICES ASSUME SchedulerInv, Wake PROVE SchedulerInv'
  OBVIOUS
<1>1. /\ Due \subseteq Schedules
      /\ queue' \in Seq(Schedules) /\ queue' # <<>>
      /\ \A i \in 1..Len(queue') : queue'[i] \in Due
      /\ \A h, i \in 1..Len(queue') : queue'[h] = queue'[i] => h = i
  BY OrdersFacts DEF Wake, Due
<1>2. TypeOK'
  BY <1>1 DEF SchedulerInv, TypeOK, Wake, registryVars, Registry!TypeOK, Labels
<1>3. QueueFits' /\ PolledIsPending' /\ RunningIsPolled'
  BY <1>1 DEF SchedulerInv, Wake, QueueFits, Asleep, PolledIsPending, RunningIsPolled,
     registryVars
<1>4. ListedAreDue'
  BY <1>1 DEF ListedAreDue, Wake, Due
<1> QED
  BY <1>2, <1>3, <1>4 DEF SchedulerInv

LEMMA LoadInv == SchedulerInv /\ Load => SchedulerInv'
<1> SUFFICES ASSUME SchedulerInv, Load PROVE SchedulerInv'
  OBVIOUS
<1>1. CASE ~Present /\ NextSchedule
  BY <1>1, NextScheduleInv DEF Load, SchedulerInv, TypeOK, Asleep
<1>2. CASE Present /\ loop' = "check" /\ UNCHANGED <<queue, fire, touched>>
  <2>1. TypeOK'
    BY <1>2 DEF SchedulerInv, TypeOK, Load, registryVars, Registry!TypeOK, Labels
  <2>2. QueueFits' /\ ListedAreDue' /\ PolledIsPending' /\ RunningIsPolled'
    BY <1>2 DEF SchedulerInv, Load, QueueFits, Asleep, ListedAreDue, PolledIsPending,
       RunningIsPolled, registryVars
  <2> QED
    BY <2>1, <2>2 DEF SchedulerInv
<1> QED
  BY <1>1, <1>2 DEF Load

\* Setting the next run of the schedule that is being fired.
LEMMA SetNextFacts ==
  ASSUME SchedulerInv, ~Asleep, NEW next \in {"due", "soon", "later"}, SetNext(Current, next)
  PROVE  /\ row' \in [Schedules -> Row \cup {NoRow}]
         /\ \A s \in Schedules : s # Current => row'[s] = row[s]
<1>1. Current \in Schedules
  BY TailFacts, 1 \in 1..1 DEF SchedulerInv, TypeOK, QueueFits, Current
<1> QED
  BY <1>1 DEF SetNext, SchedulerInv, TypeOK, Row

LEMMA CheckRegistryInv == SchedulerInv /\ CheckRegistry => SchedulerInv'
<1> SUFFICES ASSUME SchedulerInv, CheckRegistry PROVE SchedulerInv'
  OBVIOUS
<1>1. CASE SetNext(Current, "soon") /\ NextSchedule
  BY <1>1, SetNextFacts, NextScheduleInv DEF CheckRegistry, Asleep
<1>2. CASE loop' = "build" /\ UNCHANGED <<row, queue, fire, touched>>
  <2>1. TypeOK'
    BY <1>2 DEF SchedulerInv, TypeOK, CheckRegistry, registryVars, Registry!TypeOK, Labels
  <2>2. QueueFits' /\ ListedAreDue' /\ PolledIsPending' /\ RunningIsPolled'
    BY <1>2 DEF SchedulerInv, CheckRegistry, QueueFits, Asleep, ListedAreDue, PolledIsPending,
       RunningIsPolled, registryVars
  <2> QED
    BY <2>1, <2>2 DEF SchedulerInv
<1> QED
  BY <1>1, <1>2 DEF CheckRegistry

LEMMA PatchInv == SchedulerInv /\ Patch => SchedulerInv'
  BY SetNextFacts, NextScheduleInv DEF Patch, Asleep

\* The steps of a fire between the check of the registry and the write-back: they
\* leave rows and queue alone.
LEMMA FireInv ==
  ASSUME SchedulerInv, \/ BuildSources \/ PullRefused \/ PollPull \/ EndPulls \/ RunChain
  PROVE  SchedulerInv'
<1>1. ~Asleep /\ loop' \notin {"off", "sleep", "poll"} /\ loop' \in Labels
  BY DEF BuildSources, PullRefused, PollPull, EndPulls, RunChain, Asleep, Labels
<1>2. Current \in Schedules
  BY <1>1, TailFacts DEF SchedulerInv, TypeOK, QueueFits, Current
<1>3. /\ UNCHANGED <<registryVars, row, queue, automation, edits, touched>>
      /\ late' \subseteq Pulls
  BY DEF SchedulerInv, TypeOK, PolledIsPending, BuildSources, PullRefused, PollPull,
      EndPulls, RunChain
<1>4. fire' \in Fire
  <2>1. CASE BuildSources
    BY <1>2, <2>1 DEF BuildSources, SchedulerInv, TypeOK, Fire
  <2>2. CASE \E ok \in BOOLEAN : Outcome(ok) /\ fire.pending > 0
    <3>1. fire.pending \in Nat \ {0} /\ fire.pending - 1 \in {0}
        \cup UNION {0..Sources[s] : s \in Schedules}
      BY <2>2, SchedulerAssumption DEF SchedulerInv, TypeOK, Fire
    <3> QED
      BY <2>2, <3>1 DEF Outcome, SchedulerInv, TypeOK, Fire
  <2>3. CASE UNCHANGED fire
    BY <2>3 DEF SchedulerInv, TypeOK
  <2> QED
    BY <2>1, <2>2, <2>3 DEF PullRefused, PollPull, EndPulls, RunChain, SchedulerInv,
        PolledIsPending
<1>5. TypeOK'
  BY <1>1, <1>3, <1>4 DEF SchedulerInv, TypeOK, registryVars, Registry!TypeOK
<1>6. QueueFits' /\ ListedAreDue' /\ PolledIsPending'
  BY <1>1, <1>3 DEF SchedulerInv, QueueFits, Asleep, ListedAreDue, PolledIsPending
<1>7. RunningIsPolled'
  BY <1>1, <1>3 DEF SchedulerInv, RunningIsPolled, registryVars, BuildSources, PullRefused,
     PollPull, EndPulls, RunChain
<1> QED
  BY <1>5, <1>6, <1>7 DEF SchedulerInv

\* The thread starts a pull only when no other one runs that it has not given up.
LEMMA StartPullInv ==
  ASSUME SchedulerInv, NEW j \in Pulls, StartPull(j)
  PROVE  SchedulerInv'
<1>1. TypeOK'
  BY SchedulerAssumption DEF SchedulerInv, TypeOK, StartPull, Registry!Register,
      Registry!Goto, Registry!TypeOK,
     Registry!Threads, Registry!JobPc, Registry!UploadPc, Fire, Labels
<1>2. QueueFits' /\ ListedAreDue' /\ PolledIsPending'
  BY DEF SchedulerInv, TypeOK, Fire, StartPull, QueueFits, Asleep, ListedAreDue,
      PolledIsPending
<1>3. RunningIsPolled'
  BY DEF SchedulerInv, TypeOK, Fire, StartPull, RunningIsPolled, Registry!Register,
      Registry!TypeOK
<1> QED
  BY <1>1, <1>2, <1>3 DEF SchedulerInv

\* The threads of the registry, and a user who starts an ingest, start no pull.
LEMMA RegistryInv ==
  ASSUME SchedulerInv, UNCHANGED <<row, loop, queue, fire, automation, edits, touched>>,
         Registry!TypeOK', late' \subseteq Pulls,
         \A j \in Pulls : status'[j] = "running" /\ j \notin late'
                         => status[j] = "running" /\ j \notin late
  PROVE  SchedulerInv'
  BY DEF SchedulerInv, TypeOK, QueueFits, Asleep, ListedAreDue, PolledIsPending,
      RunningIsPolled

LEMMA JobStepInv ==
  ASSUME SchedulerInv, NEW j \in Pulls \cup Manual, JobStep(j)
  PROVE  SchedulerInv'
<1> USE DEF Registry!Threads, Registry!JobPc, Registry!UploadPc, Registry!TypeOK, Registry!Goto
<1>1. Registry!TypeOK' /\ \A k \in Pulls : status'[k] = "running" => status[k] = "running"
  <2>1. CASE Registry!AcquireForWalk(j)
    BY <2>1, SchedulerAssumption DEF SchedulerInv, TypeOK, Registry!AcquireForWalk
  <2>2. CASE Registry!EndWalk(j)
    BY <2>2, SchedulerAssumption DEF SchedulerInv, TypeOK, Registry!EndWalk
  <2>3. CASE Registry!ReleaseAfterWalk(j)
    BY <2>3, SchedulerAssumption DEF SchedulerInv, TypeOK, Registry!ReleaseAfterWalk
  <2>4. CASE Registry!FinishJob(j)
    BY <2>4, SchedulerAssumption
       DEF SchedulerInv, TypeOK, Registry!FinishJob, Registry!ClearActive
  <2> QED
    BY <2>1, <2>2, <2>3, <2>4 DEF JobStep, Registry!JobStep
<1>2. late' \subseteq Pulls
  BY DEF JobStep, SchedulerInv, TypeOK
<1>3. ASSUME NEW k \in Pulls, status'[k] = "running", k \notin late' PROVE k \notin late
  BY <1>3 DEF JobStep
<1> QED
  BY <1>1, <1>2, <1>3, RegistryInv DEF JobStep, tickVars

LEMMA UploadStepInv ==
  ASSUME SchedulerInv, NEW u \in Uploads, UNCHANGED others,
         Registry!UploadStep(u) \/ Registry!CheckClaim(u)
  PROVE  SchedulerInv'
<1> USE DEF Registry!Threads, Registry!JobPc, Registry!UploadPc, Registry!TypeOK, Registry!Goto
<1>1. Registry!TypeOK' /\ UNCHANGED status
  <2>1. CASE Registry!AcquireForFile(u)
    BY <2>1, SchedulerAssumption DEF SchedulerInv, TypeOK, Registry!AcquireForFile
  <2>2. CASE Registry!SetSentinel(u)
    BY <2>2, SchedulerAssumption DEF SchedulerInv, TypeOK, Registry!SetSentinel
  <2>3. CASE Registry!EndFile(u)
    BY <2>3, SchedulerAssumption
       DEF SchedulerInv, TypeOK, Registry!EndFile, Registry!ClearActive
  <2>4. CASE Registry!ReleaseAfterFile(u)
    BY <2>4, SchedulerAssumption DEF SchedulerInv, TypeOK, Registry!ReleaseAfterFile
  <2>5. CASE Registry!CheckClaim(u)
    BY <2>5, SchedulerAssumption DEF SchedulerInv, TypeOK, Registry!CheckClaim
  <2> QED
    BY <2>1, <2>2, <2>3, <2>4, <2>5 DEF Registry!UploadStep
<1> QED
  BY <1>1, RegistryInv DEF others, tickVars, SchedulerInv, TypeOK

LEMMA StartJobInv ==
  ASSUME SchedulerInv, NEW j \in Manual, Registry!StartJob(j), UNCHANGED others
  PROVE  SchedulerInv'
<1>1. Registry!TypeOK' /\ \A k \in Pulls : status'[k] = status[k]
  BY SchedulerAssumption DEF SchedulerInv, TypeOK, Registry!StartJob, Registry!Register,
     Registry!Goto, Registry!TypeOK, Registry!Threads, Registry!JobPc, Registry!UploadPc
<1> QED
  BY <1>1, RegistryInv DEF others, tickVars, SchedulerInv, TypeOK

\* A user changes one schedule, which the thread will no longer vouch for.
LEMMA EditInv ==
  ASSUME SchedulerInv, NEW s \in Schedules, Edit(s),
         row' \in [Schedules -> Row \cup {NoRow}],
         \A t \in Schedules : t # s => row'[t] = row[t]
  PROVE  SchedulerInv'
<1>1. TypeOK'
  BY SchedulerAssumption
     DEF SchedulerInv, TypeOK, Edit, registryVars, tickVars, Registry!TypeOK
<1>2. QueueFits' /\ PolledIsPending' /\ RunningIsPolled'
  BY DEF SchedulerInv, Edit, registryVars, tickVars, QueueFits, Asleep, PolledIsPending,
     RunningIsPolled
<1>3. ListedAreDue'
  <2>1. CASE Asleep
    BY <2>1 DEF SchedulerInv, Edit, tickVars, ListedAreDue, QueueFits
  <2>2. CASE ~Asleep
    <3>1. touched' = touched \cup {s} /\ queue' = queue
      BY <2>2 DEF Edit, tickVars, Asleep
    <3>2. \A i \in 1..Len(queue) : queue[i] \in Schedules
      BY ElementOfSeq DEF SchedulerInv, TypeOK
    <3> QED
      BY <3>1, <3>2 DEF SchedulerInv, ListedAreDue
  <2> QED
    BY <2>1, <2>2
<1> QED
  BY <1>1, <1>2, <1>3 DEF SchedulerInv

LEMMA UserEditInv == SchedulerInv /\ UserEdit => SchedulerInv'
<1> SUFFICES ASSUME SchedulerInv, UserEdit PROVE SchedulerInv'
  OBVIOUS
<1>1. ASSUME NEW s \in Schedules,
             Create(s) \/ Delete(s) \/ RunNow(s) \/ SetEnabled(s) \/ SetInterval(s)
      PROVE  SchedulerInv'
  <2>1. Edit(s)
    BY <1>1 DEF Create, Delete, RunNow, SetEnabled, SetInterval
  <2>2. row \in [Schedules -> Row \cup {NoRow}]
    BY DEF SchedulerInv, TypeOK
  <2>3. \A e \in BOOLEAN : NewRow(e) \in Row
    BY DEF NewRow, Row
  <2>4. /\ row' \in [Schedules -> Row \cup {NoRow}]
        /\ \A t \in Schedules : t # s => row'[t] = row[t]
    <3>1. CASE Create(s)
      BY <2>2, <2>3, <3>1 DEF Create
    <3>2. CASE Delete(s)
      BY <2>2, <3>2 DEF Delete
    <3>3. CASE SetEnabled(s)
      BY <2>2, <2>3, <3>3 DEF SetEnabled, Row
    <3>4. CASE RunNow(s) \/ SetInterval(s)
      BY <2>2, <3>4 DEF RunNow, SetInterval, SetNext, Row
    <3> QED
      BY <1>1, <3>1, <3>2, <3>3, <3>4
  <2> QED
    BY <2>1, <2>4, EditInv
<1>2. CASE SetAutomation
  <2>1. TypeOK'
    BY <1>2, SchedulerAssumption
       DEF SchedulerInv, TypeOK, SetAutomation, registryVars, tickVars, Registry!TypeOK
  <2> QED
    BY <1>2, <2>1 DEF SchedulerInv, QueueFits, Asleep, ListedAreDue, PolledIsPending,
       RunningIsPolled, SetAutomation, registryVars, tickVars
<1>3. CASE Restart
  <2>1. TypeOK'
    BY <1>3, SchedulerAssumption, EmptySeq DEF SchedulerInv, TypeOK, Restart, Boot,
        Registry!TypeOK, Registry!Threads,
       Registry!JobPc, Registry!UploadPc, NoFire, Fire, Labels
  <2> QED
    BY <1>3, <2>1 DEF SchedulerInv, QueueFits, Asleep, ListedAreDue, PolledIsPending,
       RunningIsPolled, Restart, Boot
<1> QED
  BY <1>1, <1>2, <1>3 DEF UserEdit

LEMMA TimePassesInv ==
  ASSUME SchedulerInv, NEW s \in Schedules, TimePasses(s)
  PROVE  SchedulerInv'
<1>1. row' = [row EXCEPT ![s].next = "due"]
  BY DEF TimePasses, SetNext
<1>2. TypeOK'
  BY <1>1 DEF SchedulerInv, TypeOK, TimePasses, registryVars, tickVars, Registry!TypeOK, Row
<1>3. QueueFits' /\ PolledIsPending' /\ RunningIsPolled'
  BY DEF SchedulerInv, TimePasses, registryVars, tickVars, QueueFits, Asleep, PolledIsPending,
     RunningIsPolled
<1>4. ListedAreDue'
  <2>1. \A i \in 1..Len(queue) : queue[i] \in Schedules
    BY ElementOfSeq DEF SchedulerInv, TypeOK
  <2>2. \A t \in Schedules : row'[t] # NoRow =>
           row[t] # NoRow /\ (row'[t].next = "due" \/ row'[t] = row[t])
    BY <1>1, NoRowAssumption DEF SchedulerInv, TypeOK, TimePasses, Row
  <2> QED
    BY <2>1, <2>2 DEF SchedulerInv, ListedAreDue, TimePasses, tickVars
<1> QED
  BY <1>2, <1>3, <1>4 DEF SchedulerInv

-----------------------------------------------------------------------------
LEMMA NextSchedulerInv == SchedulerInv /\ [Next]_vars => SchedulerInv'
<1> SUFFICES ASSUME SchedulerInv, [Next]_vars PROVE SchedulerInv'
  OBVIOUS
<1>1. CASE Tick
  BY <1>1, WakeInv, LoadInv, CheckRegistryInv, FireInv, PatchInv, StartPullInv DEF Tick
<1>2. CASE UserIngest
  BY <1>2, StartJobInv, UploadStepInv DEF UserIngest
<1>3. CASE UNCHANGED vars
  BY <1>3 DEF vars, registryVars, tickVars, SchedulerInv, TypeOK, Registry!TypeOK, QueueFits,
     Asleep, ListedAreDue, PolledIsPending, RunningIsPolled
<1>4. ASSUME NEW j \in Pulls \cup Manual, JobStep(j) PROVE SchedulerInv'
  BY <1>4, JobStepInv
<1>5. ASSUME NEW u \in Uploads, UploadStep(u) PROVE SchedulerInv'
  BY <1>5, UploadStepInv DEF UploadStep
<1>6. ASSUME NEW s \in Schedules, TimePasses(s) PROVE SchedulerInv'
  BY <1>6, TimePassesInv
<1> QED
  BY <1>1, <1>2, <1>3, <1>4, <1>5, <1>6, UserEditInv DEF Next

LEMMA SchedulerInvHolds == Spec => []SchedulerInv
<1> QED
  BY InitSchedulerInv, NextSchedulerInv, PTL DEF Spec

\* The rows, the queue and the locals of the tick thread keep their types; no more
\* pulls are pending than the schedule has sources (evidence/scheduler.py).
THEOREM SchedulerTypeCorrect == Spec => []TypeOK
<1>1. SchedulerInv => TypeOK
  BY DEF SchedulerInv
<1> QED
  BY <1>1, SchedulerInvHolds, PTL

\* Whatever users edit and however often the process restarts, two pulls of the
\* scheduler run at once only if one was given up, and a schedule stays due until
\* its run is written back (evidence/scheduler.py, _fire_schedule).
THEOREM SchedulerIsSafe == Spec => []SchedulerSafe
<1> QED
  BY InvIsSafe, SchedulerInvHolds, PTL

-----------------------------------------------------------------------------
(* The shell and its sidecar *)

ShellTyped ==
    /\ ShellTypeOK
    /\ platform \in {"win32", "darwin"} /\ wrapped \in BOOLEAN /\ shielded \in BOOLEAN
    /\ platform = "darwin" => ~wrapped /\ ~shielded

\* Which parts of a launch there are at each of its stages.
StagesFit ==
    \A a \in Apps :
        /\ stage[a] \in {"off", "reap", "clear", "spawn"} =>
              python[a] = "none" /\ a \notin held
        /\ stage[a] \in {"off", "reap", "clear", "spawn", "record"} => a \notin noticed
        /\ stage[a] \in Launching \cup {"off"} => a \notin address
        /\ a \in held => stage[a] \in Running /\ a \notin noticed
        /\ a \in crashed => stage[a] = "gone"
        /\ a \in shims => python[a] # "none"
        /\ a \in childPids => stage[a] = "gone" \/ a \in noticed
        /\ stage[a] = "background" => platform = "darwin"

\* A sidecar that can be killed is its launch's to kill, or its launch crashed.
AliveIsHeld ==
    ~shielded => \A a \in Apps : python[a] \in Alive =>
        /\ wrapped => a \in shims
        /\ \/ stage[a] \in {"record", "wait", "up"} /\ a \in held
           \/ stage[a] = "gone" /\ a \in crashed

\* Whose pid the file and the reaping launches have.
FileFits ==
    /\ \A a \in Apps : /\ stage[a] = "reap" => victim[a] # NoApp
                       /\ victim[a] # NoApp => stage[a] \in {"reap", "clear"}
    /\ pidFile # NoApp =>
          /\ pidFile \notin noticed
          /\ \/ stage[pidFile] \in {"wait", "up"}
             \/ stage[pidFile] = "gone" /\ pidFile \in crashed

\* Launches that never met run one after another, and reap the crashed only.
OneByOne ==
    ~met => /\ \A a, b \in Apps : stage[a] \in Running /\ stage[b] \in Running => a = b
            /\ \A a \in Apps : victim[a] # NoApp => victim[a] \in crashed \ noticed

\* A live sidecar is its running launch's, or the one the file names and the next
\* launch is about to reap.
LiveIsWritten ==
    ~met /\ ~shielded /\ unrecorded = {} =>
        \A a \in Apps : python[a] \in Alive =>
            /\ stage[a] # "record" => pidFile = a
            /\ stage[a] = "gone" => \A b \in Apps : stage[b] \in Running =>
                                        stage[b] = "reap" /\ victim[b] = a

\* What makes ShellSafe inductive.
ShellInv == /\ ShellTyped /\ StagesFit /\ AliveIsHeld /\ FileFits /\ OneByOne
            /\ LiveIsWritten /\ StrangersAreSafe /\ BackendLossIsKnown

LEMMA NoAppIsNone == NoApp \notin Apps /\ Apps \subseteq Nat
  BY ShellAssumption DEF Apps, NoApp

\* A state with this invariant is safe.
LEMMA ShellInvIsSafe == ShellInv => ShellSafe
<1> SUFFICES ASSUME ShellInv PROVE ShellSafe
  OBVIOUS
<1>1. OneSidecar
  <2> DEFINE live == {a \in Apps : python[a] \in Alive}
  <2> SUFFICES ASSUME ~met, ~shielded, unrecorded = {}
               PROVE  Cardinality(live) <= 1
    BY DEF OneSidecar
  <2>1. \A a, b \in live : a = b
    <3> SUFFICES ASSUME NEW a \in live, NEW b \in live PROVE a = b
      OBVIOUS
    <3>1. /\ stage[a] \in {"record", "wait", "up", "gone"}
          /\ stage[b] \in {"record", "wait", "up", "gone"}
      BY DEF ShellInv, AliveIsHeld
    <3>2. CASE stage[a] = "gone" /\ stage[b] = "gone"
      BY <3>2 DEF ShellInv, LiveIsWritten
    <3>3. CASE stage[a] # "gone" /\ stage[b] # "gone"
      BY <3>1, <3>3 DEF ShellInv, OneByOne, Running, Launching
    <3>4. CASE (stage[a] = "gone") # (stage[b] = "gone")
      BY <3>1, <3>4 DEF ShellInv, LiveIsWritten, Running, Launching
    <3> QED
      BY <3>2, <3>3, <3>4
  <2>2. CASE live = {}
    BY <2>2, FS_EmptySet
  <2>3. CASE live # {}
    <3>1. PICK a \in live : TRUE
      BY <2>3
    <3>2. live = {a}
      BY <2>1, <3>1
    <3>3. Cardinality({a}) = 1
      BY FS_Singleton
    <3> QED
      BY <3>2, <3>3
  <2> QED
    BY <2>2, <2>3
<1>2. QuitLeavesNothing
  BY DEF ShellInv, AliveIsHeld, QuitLeavesNothing
<1> QED
  BY <1>1, <1>2 DEF ShellInv, ShellTyped, ShellSafe

LEMMA InitShellInv == ShellInit => ShellInv
<1> SUFFICES ASSUME ShellInit PROVE ShellInv
  OBVIOUS
<1>1. ShellTyped
  BY DEF ShellInit, ShellTyped, ShellTypeOK, Alive, Running, Launching
<1> QED
  BY <1>1, NoAppIsNone DEF ShellInit, ShellInv, StagesFit, AliveIsHeld, FileFits, OneByOne,
     LiveIsWritten, StrangersAreSafe, BackendLossIsKnown, Alive, Running, Launching

LEMMA LaunchInv ==
  ASSUME ShellInv, NEW a \in Apps, Launch(a)
  PROVE  ShellInv'
<1> USE NoAppIsNone DEF Launch, GoTo, kinds, processes, histories, ChildLives
<1>1. ShellTyped'
  BY DEF ShellInv, ShellTyped, ShellTypeOK, Alive, Running, Launching
<1>2. StagesFit'
  BY DEF ShellInv, StagesFit
<1>3. AliveIsHeld'
  BY DEF ShellInv, AliveIsHeld
<1>4. FileFits'
  BY DEF ShellInv, ShellTyped, ShellTypeOK, FileFits
<1>5. OneByOne'
  <2> SUFFICES ASSUME ~met' PROVE OneByOne'
    BY DEF OneByOne
  <2>1. ~met /\ \A b \in Apps \ {a} : stage[b] \notin Running
    BY DEF ShellInv, ShellTyped, ShellTypeOK
  <2>2. pidFile # NoApp => pidFile \in crashed \ noticed
    BY <2>1 DEF ShellInv, ShellTyped, ShellTypeOK, FileFits, Launching
  <2>3. /\ \A b \in Apps \ {a} : stage'[b] = stage[b] /\ victim'[b] = victim[b]
        /\ victim'[a] = pidFile
    BY DEF ShellInv, ShellTyped, ShellTypeOK
  <2> QED
    BY <2>1, <2>2, <2>3 DEF ShellInv, OneByOne
<1>6. LiveIsWritten'
  BY DEF ShellInv, ShellTyped, ShellTypeOK, LiveIsWritten
<1>7. StrangersAreSafe'
  BY DEF ShellInv, StrangersAreSafe
<1>8. BackendLossIsKnown'
  BY DEF ShellInv, ShellTyped, ShellTypeOK, BackendLossIsKnown
<1> QED
  BY <1>1, <1>2, <1>3, <1>4, <1>5, <1>6, <1>7, <1>8 DEF ShellInv

LEMMA ReapInv ==
  ASSUME ShellInv, NEW a \in Apps, Reap(a)
  PROVE  ShellInv'
<1> USE NoAppIsNone DEF Reap, GoTo, KillTree, kinds, processes, histories, ChildLives
<1>0. victim[a] \in Apps /\ stage[a] = "reap"
  BY DEF ShellInv, ShellTyped, ShellTypeOK, FileFits
<1>a. /\ python' \in [Apps -> Alive \cup {"none", "stopping", "dead"}]
      /\ \A b \in Apps : python'[b] = python[b] \/ (python[b] # "none" /\ python'[b] # "none")
  <2>1. ChildLives(victim[a]) => python[victim[a]] # "none"
    BY <1>0 DEF ShellInv, StagesFit, Alive
  <2>2. PICK q \in {python[victim[a]], "stopping", "dead"} :
            /\ python' = [python EXCEPT ![victim[a]] = q]
            /\ q = python[victim[a]] \/ (python[victim[a]] # "none" /\ q # "none")
    BY <1>0, <2>1
  <2> QED
    BY <1>0, <2>2 DEF ShellInv, ShellTyped, ShellTypeOK
<1>b. /\ stage' \in [Apps -> Running \cup {"off", "gone"}]
      /\ \A b \in Apps : stage'[b] = IF b = a THEN "clear" ELSE stage[b]
  BY <1>0 DEF ShellInv, ShellTyped, ShellTypeOK, Running, Launching
<1>1. ShellTyped'
  <2>1. struck' \subseteq Apps /\ shims' \subseteq Apps
    BY <1>0 DEF ShellInv, ShellTyped, ShellTypeOK
  <2> QED
    BY <1>a, <1>b, <2>1 DEF ShellInv, ShellTyped, ShellTypeOK
<1>2. StagesFit'
  <2>1. shims' \subseteq shims /\ UNCHANGED <<held, address, noticed, crashed, childPids,
                                              platform>>
    OBVIOUS
  <2> QED
    BY <1>0, <1>a, <1>b, <2>1 DEF ShellInv, StagesFit, Launching
<1>3. AliveIsHeld'
  BY DEF ShellInv, ShellTyped, ShellTypeOK, Alive, Running, Launching, AliveIsHeld
<1>4. FileFits'
  BY DEF ShellInv, FileFits
<1>5. OneByOne'
  BY DEF ShellInv, ShellTyped, ShellTypeOK, OneByOne
<1>6. LiveIsWritten'
  BY DEF ShellInv, ShellTyped, ShellTypeOK, Alive, Running, Launching, StagesFit,
      AliveIsHeld, LiveIsWritten
<1>7. StrangersAreSafe'
  BY DEF ShellInv, ShellTyped, ShellTypeOK, Alive, Running, Launching, StagesFit,
      AliveIsHeld, FileFits, OneByOne, StrangersAreSafe
<1>8. BackendLossIsKnown'
  BY DEF ShellInv, ShellTyped, ShellTypeOK, Alive, Running, Launching, StagesFit,
      AliveIsHeld, FileFits, OneByOne, BackendLossIsKnown
<1> QED
  BY <1>1, <1>2, <1>3, <1>4, <1>5, <1>6, <1>7, <1>8 DEF ShellInv

LEMMA ClearStaleInv ==
  ASSUME ShellInv, NEW a \in Apps, ClearStale(a)
  PROVE  ShellInv'
<1> USE NoAppIsNone DEF ClearStale, GoTo, Forget, kinds, processes, histories, ChildLives
<1>1. ShellTyped'
  BY DEF ShellInv, ShellTyped, ShellTypeOK, Alive, Running, Launching
<1>2. StagesFit'
  BY DEF ShellInv, Alive, Running, Launching, StagesFit
<1>3. AliveIsHeld'
  BY DEF ShellInv, AliveIsHeld
<1>4. FileFits'
  BY DEF ShellInv, ShellTyped, ShellTypeOK, FileFits
<1>5. OneByOne'
  BY DEF ShellInv, ShellTyped, ShellTypeOK, OneByOne
<1>6. LiveIsWritten'
  BY DEF ShellInv, ShellTyped, ShellTypeOK, Alive, Running, Launching, StagesFit,
      AliveIsHeld, FileFits, OneByOne, LiveIsWritten
<1>7. StrangersAreSafe'
  BY DEF ShellInv, StrangersAreSafe
<1>8. BackendLossIsKnown'
  BY DEF ShellInv, BackendLossIsKnown
<1> QED
  BY <1>1, <1>2, <1>3, <1>4, <1>5, <1>6, <1>7, <1>8 DEF ShellInv

LEMMA SpawnInv ==
  ASSUME ShellInv, NEW a \in Apps, Spawn(a)
  PROVE  ShellInv'
<1> USE NoAppIsNone DEF Spawn, GoTo, kinds, processes, histories, ChildLives
<1>1. ShellTyped'
  BY DEF ShellInv, ShellTyped, ShellTypeOK, Alive, Running, Launching
<1>2. StagesFit'
  BY DEF ShellInv, ShellTyped, ShellTypeOK, Alive, Running, Launching, StagesFit
<1>3. AliveIsHeld'
  BY DEF ShellInv, ShellTyped, ShellTypeOK, AliveIsHeld
<1>4. FileFits'
  BY DEF ShellInv, FileFits
<1>5. OneByOne'
  BY DEF ShellInv, ShellTyped, ShellTypeOK, OneByOne
<1>6. LiveIsWritten'
  BY DEF ShellInv, ShellTyped, ShellTypeOK, LiveIsWritten
<1>7. StrangersAreSafe'
  BY DEF ShellInv, StrangersAreSafe
<1>8. BackendLossIsKnown'
  BY DEF ShellInv, BackendLossIsKnown
<1> QED
  BY <1>1, <1>2, <1>3, <1>4, <1>5, <1>6, <1>7, <1>8 DEF ShellInv

LEMMA SpawnFailsInv ==
  ASSUME ShellInv, NEW a \in Apps, SpawnFails(a)
  PROVE  ShellInv'
<1> USE NoAppIsNone DEF SpawnFails, GoTo, kinds, processes, histories, ChildLives
<1>1. ShellTyped'
  BY DEF ShellInv, ShellTyped, ShellTypeOK, Alive, Running, Launching
<1>2. StagesFit'
  BY DEF ShellInv, Alive, Running, Launching, StagesFit
<1>3. AliveIsHeld'
  BY DEF ShellInv, AliveIsHeld
<1>4. FileFits'
  BY DEF ShellInv, FileFits
<1>5. OneByOne'
  BY DEF ShellInv, ShellTyped, ShellTypeOK, OneByOne
<1>6. LiveIsWritten'
  BY DEF ShellInv, ShellTyped, ShellTypeOK, LiveIsWritten
<1>7. StrangersAreSafe'
  BY DEF ShellInv, StrangersAreSafe
<1>8. BackendLossIsKnown'
  BY DEF ShellInv, Alive, Running, Launching, StagesFit, BackendLossIsKnown
<1> QED
  BY <1>1, <1>2, <1>3, <1>4, <1>5, <1>6, <1>7, <1>8 DEF ShellInv

LEMMA RecordInv ==
  ASSUME ShellInv, NEW a \in Apps, Record(a)
  PROVE  ShellInv'
<1> USE NoAppIsNone DEF Record, GoTo, kinds, processes, histories, ChildLives
<1>1. ShellTyped'
  BY DEF ShellInv, ShellTyped, ShellTypeOK, Alive, Running, Launching
<1>2. StagesFit'
  BY DEF ShellInv, Alive, Running, Launching, StagesFit
<1>3. AliveIsHeld'
  BY DEF ShellInv, AliveIsHeld
<1>4. FileFits'
  BY DEF ShellInv, ShellTyped, ShellTypeOK, StagesFit, FileFits
<1>5. OneByOne'
  BY DEF ShellInv, ShellTyped, ShellTypeOK, OneByOne
<1>6. LiveIsWritten'
  BY DEF ShellInv, ShellTyped, ShellTypeOK, Alive, Running, Launching, StagesFit,
      AliveIsHeld, FileFits, OneByOne, LiveIsWritten
<1>7. StrangersAreSafe'
  BY DEF ShellInv, StrangersAreSafe
<1>8. BackendLossIsKnown'
  BY DEF ShellInv, BackendLossIsKnown
<1> QED
  BY <1>1, <1>2, <1>3, <1>4, <1>5, <1>6, <1>7, <1>8 DEF ShellInv

LEMMA ServeInv ==
  ASSUME ShellInv, NEW a \in Apps, Serve(a)
  PROVE  ShellInv'
<1> USE NoAppIsNone DEF Serve, GoTo, kinds, processes, histories, ChildLives
<1>1. ShellTyped'
  BY DEF ShellInv, ShellTyped, ShellTypeOK, Alive, Running, Launching
<1>2. StagesFit'
  BY DEF ShellInv, StagesFit
<1>3. AliveIsHeld'
  BY DEF ShellInv, ShellTyped, ShellTypeOK, AliveIsHeld
<1>4. FileFits'
  BY DEF ShellInv, FileFits
<1>5. OneByOne'
  BY DEF ShellInv, OneByOne
<1>6. LiveIsWritten'
  BY DEF ShellInv, ShellTyped, ShellTypeOK, LiveIsWritten
<1>7. StrangersAreSafe'
  BY DEF ShellInv, StrangersAreSafe
<1>8. BackendLossIsKnown'
  BY DEF ShellInv, Alive, Running, Launching, StagesFit, BackendLossIsKnown
<1> QED
  BY <1>1, <1>2, <1>3, <1>4, <1>5, <1>6, <1>7, <1>8 DEF ShellInv

LEMMA HearInv ==
  ASSUME ShellInv, NEW a \in Apps, Hear(a)
  PROVE  ShellInv'
<1> USE NoAppIsNone DEF Hear, GoTo, kinds, processes, histories, ChildLives
<1>1. ShellTyped'
  BY DEF ShellInv, ShellTyped, ShellTypeOK, Alive, Running, Launching
<1>2. StagesFit'
  BY DEF ShellInv, ShellTyped, ShellTypeOK, Alive, Running, Launching, StagesFit
<1>3. AliveIsHeld'
  BY DEF ShellInv, AliveIsHeld
<1>4. FileFits'
  BY DEF ShellInv, FileFits
<1>5. OneByOne'
  BY DEF ShellInv, ShellTyped, ShellTypeOK, OneByOne
<1>6. LiveIsWritten'
  BY DEF ShellInv, ShellTyped, ShellTypeOK, LiveIsWritten
<1>7. StrangersAreSafe'
  BY DEF ShellInv, StrangersAreSafe
<1>8. BackendLossIsKnown'
  BY DEF ShellInv, ShellTyped, ShellTypeOK, BackendLossIsKnown
<1> QED
  BY <1>1, <1>2, <1>3, <1>4, <1>5, <1>6, <1>7, <1>8 DEF ShellInv

LEMMA GiveUpInv ==
  ASSUME ShellInv, NEW a \in Apps, GiveUp(a)
  PROVE  ShellInv'
<1> USE NoAppIsNone DEF GiveUp, GoTo, kinds, processes, histories, ChildLives
<1>1. ShellTyped'
  BY DEF ShellInv, ShellTyped, ShellTypeOK, Alive, Running, Launching
<1>2. StagesFit'
  BY DEF ShellInv, Alive, Running, Launching, StagesFit
<1>3. AliveIsHeld'
  BY DEF ShellInv, AliveIsHeld
<1>4. FileFits'
  BY DEF ShellInv, FileFits
<1>5. OneByOne'
  BY DEF ShellInv, ShellTyped, ShellTypeOK, OneByOne
<1>6. LiveIsWritten'
  BY DEF ShellInv, ShellTyped, ShellTypeOK, LiveIsWritten
<1>7. StrangersAreSafe'
  BY DEF ShellInv, StrangersAreSafe
<1>8. BackendLossIsKnown'
  BY DEF ShellInv, Alive, Running, Launching, StagesFit, BackendLossIsKnown
<1> QED
  BY <1>1, <1>2, <1>3, <1>4, <1>5, <1>6, <1>7, <1>8 DEF ShellInv

LEMMA SidecarEndsInv ==
  ASSUME ShellInv, NEW a \in Apps, SidecarEnds(a)
  PROVE  ShellInv'
<1> USE NoAppIsNone DEF SidecarEnds, GoTo, kinds, processes, histories, ChildLives
<1>1. ShellTyped'
  BY DEF ShellInv, ShellTyped, ShellTypeOK
<1>2. StagesFit'
  BY DEF ShellInv, Alive, Running, Launching, StagesFit
<1>3. AliveIsHeld'
  BY DEF ShellInv, ShellTyped, ShellTypeOK, Alive, Running, Launching, AliveIsHeld
<1>4. FileFits'
  BY DEF ShellInv, FileFits
<1>5. OneByOne'
  BY DEF ShellInv, OneByOne
<1>6. LiveIsWritten'
  BY DEF ShellInv, Alive, Running, Launching, StagesFit, LiveIsWritten
<1>7. StrangersAreSafe'
  BY DEF ShellInv, StrangersAreSafe
<1>8. BackendLossIsKnown'
  BY DEF ShellInv, BackendLossIsKnown
<1> QED
  BY <1>1, <1>2, <1>3, <1>4, <1>5, <1>6, <1>7, <1>8 DEF ShellInv

LEMMA NoticeExitInv ==
  ASSUME ShellInv, NEW a \in Apps, NoticeExit(a)
  PROVE  ShellInv'
<1> USE NoAppIsNone DEF NoticeExit, GoTo, Forget, kinds, processes, histories, ChildLives
<1>1. ShellTyped'
  BY DEF ShellInv, ShellTyped, ShellTypeOK
<1>2. StagesFit'
  BY DEF ShellInv, StagesFit
<1>3. AliveIsHeld'
  BY DEF ShellInv, AliveIsHeld
<1>4. FileFits'
  BY DEF ShellInv, FileFits
<1>5. OneByOne'
  BY DEF ShellInv, Alive, Running, Launching, StagesFit, OneByOne
<1>6. LiveIsWritten'
  BY DEF ShellInv, ShellTyped, ShellTypeOK, Alive, Running, Launching, StagesFit,
      AliveIsHeld, FileFits, OneByOne, LiveIsWritten
<1>7. StrangersAreSafe'
  BY DEF ShellInv, Alive, Running, Launching, StagesFit, StrangersAreSafe
<1>8. BackendLossIsKnown'
  BY DEF ShellInv, BackendLossIsKnown
<1> QED
  BY <1>1, <1>2, <1>3, <1>4, <1>5, <1>6, <1>7, <1>8 DEF ShellInv

LEMMA CloseWindowInv ==
  ASSUME ShellInv, NEW a \in Apps, CloseWindow(a)
  PROVE  ShellInv'
<1> USE NoAppIsNone DEF CloseWindow, GoTo, KillSidecar, KillTree, Spare, Forget, kinds,
    processes, histories, ChildLives
<1>1. ShellTyped'
  BY DEF ShellInv, ShellTyped, ShellTypeOK, Alive, Running, Launching
<1>2. StagesFit'
  BY DEF ShellInv, ShellTyped, ShellTypeOK, Alive, Running, Launching, StagesFit
<1>3. AliveIsHeld'
  BY DEF ShellInv, ShellTyped, ShellTypeOK, Alive, Running, Launching, AliveIsHeld
<1>4. FileFits'
  BY DEF ShellInv, FileFits
<1>5. OneByOne'
  BY DEF ShellInv, ShellTyped, ShellTypeOK, OneByOne
<1>6. LiveIsWritten'
  BY DEF ShellInv, ShellTyped, ShellTypeOK, Alive, Running, Launching, StagesFit,
      AliveIsHeld, FileFits, OneByOne, LiveIsWritten
<1>7. StrangersAreSafe'
  BY DEF ShellInv, StagesFit, StrangersAreSafe
<1>8. BackendLossIsKnown'
  BY DEF ShellInv, ShellTyped, ShellTypeOK, BackendLossIsKnown
<1> QED
  BY <1>1, <1>2, <1>3, <1>4, <1>5, <1>6, <1>7, <1>8 DEF ShellInv

LEMMA ReopenInv ==
  ASSUME ShellInv, NEW a \in Apps, Reopen(a)
  PROVE  ShellInv'
<1> USE NoAppIsNone DEF Reopen, GoTo, kinds, processes, histories, ChildLives
<1>1. ShellTyped'
  BY DEF ShellInv, ShellTyped, ShellTypeOK, Alive, Running, Launching
<1>2. StagesFit'
  BY DEF ShellInv, Alive, Running, Launching, StagesFit
<1>3. AliveIsHeld'
  BY DEF ShellInv, AliveIsHeld
<1>4. FileFits'
  BY DEF ShellInv, FileFits
<1>5. OneByOne'
  BY DEF ShellInv, ShellTyped, ShellTypeOK, OneByOne
<1>6. LiveIsWritten'
  BY DEF ShellInv, ShellTyped, ShellTypeOK, LiveIsWritten
<1>7. StrangersAreSafe'
  BY DEF ShellInv, StrangersAreSafe
<1>8. BackendLossIsKnown'
  BY DEF ShellInv, StagesFit, BackendLossIsKnown
<1> QED
  BY <1>1, <1>2, <1>3, <1>4, <1>5, <1>6, <1>7, <1>8 DEF ShellInv

LEMMA QuitInv ==
  ASSUME ShellInv, NEW a \in Apps, Quit(a)
  PROVE  ShellInv'
<1> USE NoAppIsNone DEF Quit, GoTo, KillSidecar, KillTree, Spare, Forget, kinds, processes,
    histories, ChildLives
<1>1. ShellTyped'
  BY DEF ShellInv, ShellTyped, ShellTypeOK, Alive, Running, Launching
<1>2. StagesFit'
  BY DEF ShellInv, ShellTyped, ShellTypeOK, Alive, Running, Launching, StagesFit
<1>3. AliveIsHeld'
  BY DEF ShellInv, ShellTyped, ShellTypeOK, Alive, Running, Launching, AliveIsHeld
<1>4. FileFits'
  BY DEF ShellInv, FileFits
<1>5. OneByOne'
  BY DEF ShellInv, ShellTyped, ShellTypeOK, OneByOne
<1>6. LiveIsWritten'
  BY DEF ShellInv, ShellTyped, ShellTypeOK, Alive, Running, Launching, StagesFit,
      AliveIsHeld, FileFits, OneByOne, LiveIsWritten
<1>7. StrangersAreSafe'
  BY DEF ShellInv, StagesFit, StrangersAreSafe
<1>8. BackendLossIsKnown'
  BY DEF ShellInv, ShellTyped, ShellTypeOK, BackendLossIsKnown
<1> QED
  BY <1>1, <1>2, <1>3, <1>4, <1>5, <1>6, <1>7, <1>8 DEF ShellInv

LEMMA ExitInv ==
  ASSUME ShellInv, NEW a \in Apps, Exit(a)
  PROVE  ShellInv'
<1> USE NoAppIsNone DEF Exit, GoTo, KillSidecar, KillTree, Spare, Forget, kinds, processes,
    histories, ChildLives
<1>1. ShellTyped'
  BY DEF ShellInv, ShellTyped, ShellTypeOK
<1>2. StagesFit'
  BY DEF ShellInv, ShellTyped, ShellTypeOK, StagesFit
<1>3. AliveIsHeld'
  BY DEF ShellInv, ShellTyped, ShellTypeOK, Alive, Running, Launching, AliveIsHeld
<1>4. FileFits'
  BY DEF ShellInv, FileFits
<1>5. OneByOne'
  BY DEF ShellInv, ShellTyped, ShellTypeOK, OneByOne
<1>6. LiveIsWritten'
  BY DEF ShellInv, ShellTyped, ShellTypeOK, Alive, Running, Launching, StagesFit,
      AliveIsHeld, FileFits, OneByOne, LiveIsWritten
<1>7. StrangersAreSafe'
  BY DEF ShellInv, StagesFit, StrangersAreSafe
<1>8. BackendLossIsKnown'
  BY DEF ShellInv, ShellTyped, ShellTypeOK, BackendLossIsKnown
<1> QED
  BY <1>1, <1>2, <1>3, <1>4, <1>5, <1>6, <1>7, <1>8 DEF ShellInv

LEMMA CrashInv ==
  ASSUME ShellInv, NEW a \in Apps, Crash(a)
  PROVE  ShellInv'
<1> USE NoAppIsNone DEF Crash, GoTo, kinds, processes, histories, ChildLives
<1>1. ShellTyped'
  BY DEF ShellInv, ShellTyped, ShellTypeOK
<1>2. StagesFit'
  BY DEF ShellInv, ShellTyped, ShellTypeOK, StagesFit
<1>3. AliveIsHeld'
  BY DEF ShellInv, ShellTyped, ShellTypeOK, AliveIsHeld
<1>4. FileFits'
  BY DEF ShellInv, ShellTyped, ShellTypeOK, FileFits
<1>5. OneByOne'
  BY DEF ShellInv, OneByOne
<1>6. LiveIsWritten'
  BY DEF ShellInv, ShellTyped, ShellTypeOK, Alive, Running, Launching, StagesFit,
      AliveIsHeld, FileFits, OneByOne, LiveIsWritten
<1>7. StrangersAreSafe'
  BY DEF ShellInv, StrangersAreSafe
<1>8. BackendLossIsKnown'
  BY DEF ShellInv, BackendLossIsKnown
<1> QED
  BY <1>1, <1>2, <1>3, <1>4, <1>5, <1>6, <1>7, <1>8 DEF ShellInv

LEMMA WatchInv ==
  ASSUME ShellInv, NEW a \in Apps, Watch(a)
  PROVE  ShellInv'
<1> USE NoAppIsNone DEF Watch, GoTo, kinds, processes, histories, ChildLives
<1>1. ShellTyped'
  BY DEF ShellInv, ShellTyped, ShellTypeOK
<1>2. StagesFit'
  BY DEF ShellInv, StagesFit
<1>3. AliveIsHeld'
  BY DEF ShellInv, ShellTyped, ShellTypeOK, Alive, Running, Launching, AliveIsHeld
<1>4. FileFits'
  BY DEF ShellInv, FileFits
<1>5. OneByOne'
  BY DEF ShellInv, OneByOne
<1>6. LiveIsWritten'
  BY DEF ShellInv, Alive, Running, Launching, StagesFit, LiveIsWritten
<1>7. StrangersAreSafe'
  BY DEF ShellInv, StrangersAreSafe
<1>8. BackendLossIsKnown'
  BY DEF ShellInv, BackendLossIsKnown
<1> QED
  BY <1>1, <1>2, <1>3, <1>4, <1>5, <1>6, <1>7, <1>8 DEF ShellInv

LEMMA PidsComeBackInv ==
  ASSUME ShellInv, NEW a \in Apps, PidsComeBack(a)
  PROVE  ShellInv'
<1> USE NoAppIsNone DEF PidsComeBack, GoTo, kinds, processes, histories, ChildLives
<1>1. ShellTyped'
  BY DEF ShellInv, ShellTyped, ShellTypeOK
<1>2. StagesFit'
  BY DEF ShellInv, StagesFit
<1>3. AliveIsHeld'
  BY DEF ShellInv, AliveIsHeld
<1>4. FileFits'
  BY DEF ShellInv, FileFits
<1>5. OneByOne'
  BY DEF ShellInv, OneByOne
<1>6. LiveIsWritten'
  BY DEF ShellInv, LiveIsWritten
<1>7. StrangersAreSafe'
  BY DEF ShellInv, StrangersAreSafe
<1>8. BackendLossIsKnown'
  BY DEF ShellInv, BackendLossIsKnown
<1> QED
  BY <1>1, <1>2, <1>3, <1>4, <1>5, <1>6, <1>7, <1>8 DEF ShellInv

LEMMA ShellNextInv == ShellInv /\ [ShellNext]_shellVars => ShellInv'
<1> SUFFICES ASSUME ShellInv, [ShellNext]_shellVars PROVE ShellInv'
  OBVIOUS
<1>1. CASE UNCHANGED shellVars
  BY <1>1 DEF shellVars, kinds, processes, histories, ShellInv, ShellTyped, ShellTypeOK,
     StagesFit, AliveIsHeld, FileFits, OneByOne, LiveIsWritten, StrangersAreSafe,
     BackendLossIsKnown, ChildLives
<1>2. ASSUME NEW a \in Apps, LaunchStep(a) PROVE ShellInv'
  BY <1>2, ReapInv, ClearStaleInv, SpawnInv, SpawnFailsInv, RecordInv, HearInv, GiveUpInv
     DEF LaunchStep
<1> QED
  BY <1>1, <1>2, LaunchInv, ServeInv, SidecarEndsInv, NoticeExitInv, CloseWindowInv, ReopenInv,
     QuitInv, ExitInv, CrashInv, WatchInv, PidsComeBackInv DEF ShellNext

(* However many launches there are, side by side or one after another, and *)
(* whichever side dies: launches one after another whose sidecar may be     *)
(* killed and whose pid was written have one live sidecar at most; no       *)
(* stranger is killed but in the name of the child of a launch that         *)
(* crashed; who left through the door left nothing; and a window knows why  *)
(* its backend is gone (ui/electron/main.cts:283-620).                      *)
THEOREM ShellIsSafe == ShellSpec => []ShellSafe
  BY InitShellInv, ShellNextInv, ShellInvIsSafe, PTL DEF ShellSpec

-----------------------------------------------------------------------------
(* Plans of action and milestones *)

\* The trail of an id that no POAM has is empty.
BlanksAreClean == \A p \in Ids : poam[p] = NoPoam => trail[p] = NoRisk

PoamInv == PoamTypeOK /\ BlanksAreClean /\ RiskIsExplained /\ HollowPoamsAreByHand

Grades == Level \cup {Ungraded}

LEMMA MatrixIsTyped ==
  ASSUME NEW likelihood \in Grades, NEW impact \in Grades
  PROVE  ComputeRisk(likelihood, impact) \in Grades
BY DEF ComputeRisk, Grades, Level, Ungraded, RiskMatrix

\* A row of graded fields is a risk whose raw severity is the matrix's.
LEMMA GradedIsRisk ==
  ASSUME NEW likelihood \in Grades, NEW impact \in Grades, NEW residual \in Grades
  PROVE  LET risk == Graded(likelihood, impact, residual)
         IN risk \in Risk /\ risk.raw = ComputeRisk(risk.likelihood, risk.impact)
<1> DEFINE risk == Graded(likelihood, impact, residual)
<1>1. ComputeRisk(likelihood, impact) \in Grades
  BY MatrixIsTyped
<1>2. risk = [f \in Fields |-> risk[f]]
  BY DEF Graded, Fields
<1>3. \A f \in Fields : risk[f] \in Grades
  BY <1>1 DEF Graded, Fields
<1>4. risk.raw = ComputeRisk(risk.likelihood, risk.impact)
  BY DEF Graded
<1> QED
  BY <1>2, <1>3, <1>4 DEF Risk, Grades

LEMMA NoRiskIsRisk == NoRisk \in Risk
BY DEF NoRisk, Risk

\* One row changes, or comes in: its risk is explained unless an import wrote it, and
\* it has a link unless it lost it by hand.
LEMMA RowMoves ==
  ASSUME PoamInv, PoamTypeOK', NEW p \in Ids, NEW r \in Poam, NEW t \in Risk,
         poam' = [poam EXCEPT ![p] = r], trail' = [trail EXCEPT ![p] = t],
         imported \subseteq imported', byHand \subseteq byHand',
         Linked(link) \subseteq Linked(link'),
         p \in imported' \/ (t = r.risk /\ r.risk.raw = ComputeRisk(r.risk.likelihood,
                                                                    r.risk.impact)),
         p \in Standing \/ p \in byHand'
  PROVE  PoamInv'
<1>0. PoamTypeOK
  BY DEF PoamInv
<1>1. poam'[p] = r /\ trail'[p] = t /\ r # NoPoam
  BY <1>0, NoPoamAssumption DEF PoamTypeOK
<1>2. \A q \in Ids : q # p => poam'[q] = poam[q] /\ trail'[q] = trail[q]
  BY <1>0 DEF PoamTypeOK
<1>3. Standing' = Standing \cup {p}
  BY <1>1, <1>2 DEF Standing
<1>4. BlanksAreClean'
  BY <1>1, <1>2 DEF BlanksAreClean, PoamInv
<1>5. RiskIsExplained'
  BY <1>1, <1>2, <1>3 DEF RiskIsExplained, PoamInv, Standing
<1>6. HollowPoamsAreByHand'
  BY <1>3 DEF HollowPoamsAreByHand, PoamInv
<1> QED
  BY <1>4, <1>5, <1>6 DEF PoamInv

\* Rows go, with their trails; what stays keeps a link or was unlinked by hand.
LEMMA RowsGo ==
  ASSUME PoamInv, NEW S \in SUBSET Ids, ForgetPoam(S),
         poam' = [p \in Ids |-> IF p \in S THEN NoPoam ELSE poam[p]],
         link' \subseteq link, Linked(link) \ S \subseteq Linked(link'),
         findings' \subseteq Ccis, crmSkips' \subseteq Ccis, poamEdits' \in 0..MaxPoamEdits
  PROVE  PoamInv'
<1>0. PoamTypeOK
  BY DEF PoamInv
<1>1. \A p \in Ids : /\ poam'[p] = IF p \in S THEN NoPoam ELSE poam[p]
                     /\ trail'[p] = IF p \in S THEN NoRisk ELSE trail[p]
  BY DEF ForgetPoam
<1>2. Standing' = Standing \ S
  BY <1>1 DEF Standing
<1>3. PoamTypeOK'
  BY <1>0, NoRiskIsRisk DEF PoamTypeOK, ForgetPoam
<1>4. BlanksAreClean'
  BY <1>1 DEF BlanksAreClean, PoamInv
<1>5. RiskIsExplained'
  BY <1>1, <1>2 DEF RiskIsExplained, PoamInv, ForgetPoam, Standing
<1>6. HollowPoamsAreByHand'
  BY <1>2 DEF HollowPoamsAreByHand, PoamInv, ForgetPoam
<1> QED
  BY <1>3, <1>4, <1>5, <1>6 DEF PoamInv

LEMMA DropLinksInv ==
  ASSUME PoamInv, NEW stale \in SUBSET link, DropLinks(stale),
         findings' \subseteq Ccis, crmSkips' \subseteq Ccis, poamEdits' \in 0..MaxPoamEdits
  PROVE  PoamInv'
<1>1. Hollow(stale) \in SUBSET Ids
  BY DEF PoamInv, PoamTypeOK, Hollow, Linked
<1>2. Linked(link) \ Hollow(stale) \subseteq Linked(link')
  BY DEF DropLinks, Hollow, Linked, Left
<1> QED
  BY <1>1, <1>2, RowsGo DEF DropLinks, Left

LEMMA VerdictInv ==
  ASSUME PoamInv, NEW o \in Ccis, Assess(o) \/ Review(o)
  PROVE  PoamInv'
<1>1. ASSUME findings' = findings \cup {o} \/ findings' = findings \ {o},
             UNCHANGED <<crmSkips, poam, link, trail, poamEdits, imported, byHand>>
      PROVE  PoamInv'
  BY <1>1 DEF PoamInv, PoamTypeOK, BlanksAreClean, RiskIsExplained, HollowPoamsAreByHand,
     Standing
<1>2. ASSUME findings' = findings \ {o}, Prune(o), UNCHANGED <<crmSkips, poamEdits>>
      PROVE  PoamInv'
  BY <1>2, DropLinksInv DEF Prune, PoamInv, PoamTypeOK
<1> QED
  BY <1>1, <1>2 DEF Assess, Review

LEMMA EditCounts ==
  ASSUME PoamTypeOK, EditPoam
  PROVE  poamEdits' \in 0..MaxPoamEdits /\ findings' \subseteq Ccis /\ crmSkips' \subseteq Ccis
BY PoamsAssumption DEF PoamTypeOK, EditPoam

LEMMA RowIsTyped ==
  ASSUME PoamTypeOK, EditPoam, NEW p \in Ids, NEW r \in Poam, NEW t \in Risk,
         poam' = [poam EXCEPT ![p] = r], trail' = [trail EXCEPT ![p] = t],
         link' \subseteq Ids \X Ccis, imported' \subseteq imported \cup {p},
         byHand' \subseteq byHand \cup {p}
  PROVE  PoamTypeOK'
<1>1. poam' \in [Ids -> Poam \cup {NoPoam}] /\ trail' \in [Ids -> Risk]
  BY DEF PoamTypeOK
<1>2. imported' \subseteq Ids /\ byHand' \subseteq Ids
  BY DEF PoamTypeOK
<1> QED
  BY <1>1, <1>2, EditCounts DEF PoamTypeOK

LEMMA CreateInv ==
  ASSUME PoamInv, CreatePoam
  PROVE  PoamInv'
<1>1. PICK k \in Keys, draft \in BOOLEAN, p \in NewIds(Standing, 1) \cap Ids,
           likelihood \in Picked \cup {Ungraded}, impact \in Picked \cup {Ungraded},
           objectives \in SUBSET Ccis :
         LET risk == Graded(likelihood, impact, ComputeRisk(likelihood, impact))
         IN /\ poam' = [poam EXCEPT ![p] = [key |-> k, draft |-> draft, locked |-> TRUE,
                             emass |-> NoEmassId, text |-> {OwnText}, risk |-> risk]]
            /\ trail' = [trail EXCEPT ![p] = risk]
            /\ link' = link \cup ({p} \X objectives)
            /\ byHand' = byHand \cup {p}
            /\ UNCHANGED imported
  BY DEF CreatePoam
<1> DEFINE risk == Graded(likelihood, impact, ComputeRisk(likelihood, impact))
           r    == [key |-> k, draft |-> draft, locked |-> TRUE,
                    emass |-> NoEmassId, text |-> {OwnText}, risk |-> risk]
<1>2. likelihood \in Grades /\ impact \in Grades
  BY PoamsAssumption DEF Grades
<1>3. risk \in Risk /\ risk.raw = ComputeRisk(risk.likelihood, risk.impact)
  BY <1>2, MatrixIsTyped, GradedIsRisk
<1> HIDE DEF risk
<1>4. r \in Poam /\ r.risk = risk
  BY <1>3 DEF Poam
<1> HIDE DEF r
<1>5. poam' = [poam EXCEPT ![p] = r] /\ trail' = [trail EXCEPT ![p] = risk]
  BY <1>1 DEF r, risk
<1>6. link' \subseteq Ids \X Ccis
  BY <1>1 DEF PoamInv, PoamTypeOK
<1>7. PoamTypeOK'
  BY <1>1, <1>3, <1>4, <1>5, <1>6, RowIsTyped DEF PoamInv, CreatePoam
<1>8. Linked(link) \subseteq Linked(link')
  BY <1>1 DEF Linked
<1>9. imported \subseteq imported' /\ byHand \subseteq byHand' /\ p \in byHand'
  BY <1>1
<1> QED
  BY <1>3, <1>4, <1>5, <1>7, <1>8, <1>9, RowMoves

\* An edit of a standing row that leaves its risk alone.
LEMMA WordsMove ==
  ASSUME PoamInv, EditPoam, NEW p \in Standing, NEW r \in Poam, r.risk = poam[p].risk,
         poam' = [poam EXCEPT ![p] = r], UNCHANGED <<link, trail, imported, byHand>>
  PROVE  PoamInv'
<1>1. trail \in [Ids -> Risk] /\ p \in Ids
  BY DEF PoamInv, PoamTypeOK, Standing
<1>a. trail[p] \in Risk /\ trail' = [trail EXCEPT ![p] = trail[p]]
  BY <1>1
<1>2. PoamTypeOK'
  BY <1>1, EditCounts DEF PoamInv, PoamTypeOK
<1>3. p \in imported' \/ (trail[p] = r.risk /\ r.risk.raw = ComputeRisk(r.risk.likelihood,
                                                                        r.risk.impact))
  BY DEF PoamInv, RiskIsExplained
<1> QED
  BY <1>1, <1>a, <1>2, <1>3, RowMoves

LEMMA RowEditInv ==
  ASSUME PoamInv, NEW p \in Standing, Describe(p) \/ SetStatus(p) \/ SetEmassId(p)
  PROVE  PoamInv'
<1>0. poam \in [Ids -> Poam \cup {NoPoam}] /\ p \in Ids /\ poam[p] \in Poam
  BY DEF PoamInv, PoamTypeOK, Standing
<1>1. CASE Describe(p)
  <2> DEFINE r == [poam[p] EXCEPT !.text = {OwnText}, !.locked = TRUE]
  <2>1. r \in Poam /\ r.risk = poam[p].risk
    BY <1>0 DEF Poam
  <2>2. poam' = [poam EXCEPT ![p] = r]
    BY <1>0, <1>1 DEF Describe
  <2> QED
    BY <1>1, <2>1, <2>2, WordsMove DEF Describe
<1>2. CASE SetStatus(p)
  <2> DEFINE r == [poam[p] EXCEPT !.draft = ~@]
  <2>1. r \in Poam /\ r.risk = poam[p].risk
    BY <1>0 DEF Poam
  <2>2. poam' = [poam EXCEPT ![p] = r]
    BY <1>0, <1>2 DEF SetStatus
  <2> QED
    BY <1>2, <2>1, <2>2, WordsMove DEF SetStatus
<1>3. CASE SetEmassId(p)
  <2> PICK e \in EmassIds \cup {NoEmassId} : poam' = [poam EXCEPT ![p].emass = e]
    BY <1>3 DEF SetEmassId
  <2> DEFINE r == [poam[p] EXCEPT !.emass = e]
  <2>1. r \in Poam /\ r.risk = poam[p].risk
    BY <1>0 DEF Poam
  <2>2. poam' = [poam EXCEPT ![p] = r]
    BY <1>0
  <2> QED
    BY <1>3, <2>1, <2>2, WordsMove DEF SetEmassId
<1> QED
  BY <1>1, <1>2, <1>3

LEMMA RiskInv ==
  ASSUME PoamInv, NEW p \in Standing, NEW risk \in Risk, SetRisk(p, risk),
         p \in imported \/ risk.raw = ComputeRisk(risk.likelihood, risk.impact)
  PROVE  PoamInv'
<1> DEFINE r == [poam[p] EXCEPT !.risk = risk]
           t == [f \in Fields |-> IF risk[f] # poam[p].risk[f] THEN risk[f] ELSE trail[p][f]]
<1>0. /\ poam \in [Ids -> Poam \cup {NoPoam}] /\ trail \in [Ids -> Risk]
      /\ p \in Ids /\ poam[p] \in Poam
  BY DEF PoamInv, PoamTypeOK, Standing
<1>1. r \in Poam /\ r.risk = risk /\ poam' = [poam EXCEPT ![p] = r]
  BY <1>0 DEF Poam, SetRisk
<1>2. t \in Risk /\ trail' = [trail EXCEPT ![p] = t]
  BY <1>0 DEF Risk, SetRisk, Recorded
<1>3. trail[p] = poam[p].risk => t = risk
  BY <1>0 DEF Risk
<1> HIDE DEF r, t
<1>4. p \in imported' \/ (t = r.risk /\ r.risk.raw = ComputeRisk(r.risk.likelihood,
                                                                 r.risk.impact))
  BY <1>1, <1>3 DEF PoamInv, RiskIsExplained, SetRisk
<1>5. PoamTypeOK'
  BY <1>0, <1>1, <1>2, EditCounts DEF PoamInv, PoamTypeOK, SetRisk
<1> QED
  BY <1>0, <1>1, <1>2, <1>4, <1>5, RowMoves DEF SetRisk

LEMMA GradeInv ==
  ASSUME PoamInv, NEW p \in Standing, Grade(p) \/ SetResidual(p)
  PROVE  PoamInv'
<1>0. poam[p].risk \in Risk
  BY DEF PoamInv, PoamTypeOK, Standing, Poam
<1>1. \A f \in Fields : poam[p].risk[f] \in Grades
  BY <1>0 DEF Risk, Grades
<1>2. CASE Grade(p)
  <2>1. PICK likelihood \in OrKept(p, "likelihood"), impact \in OrKept(p, "impact") :
             SetRisk(p, Graded(likelihood, impact, poam[p].risk.residual))
    BY <1>2 DEF Grade
  <2>2. likelihood \in Grades /\ impact \in Grades /\ poam[p].risk.residual \in Grades
    BY <1>1, PoamsAssumption DEF OrKept, Fields, Grades
  <2> QED
    BY <2>1, <2>2, GradedIsRisk, RiskInv
<1>3. CASE SetResidual(p)
  <2>1. PICK level \in Picked \cup {Ungraded} : SetRisk(p,
                                                        [poam[p].risk EXCEPT !.residual = level])
    BY <1>3 DEF SetResidual
  <2> DEFINE risk == [poam[p].risk EXCEPT !.residual = level]
  <2>2. risk \in Risk
    BY <1>0, PoamsAssumption DEF Risk
  <2>3. risk.raw = poam[p].risk.raw /\ risk.likelihood = poam[p].risk.likelihood
        /\ risk.impact = poam[p].risk.impact
    BY <1>0 DEF Risk, Fields
  <2> HIDE DEF risk
  <2>4. p \in imported \/ risk.raw = ComputeRisk(risk.likelihood, risk.impact)
    BY <2>3 DEF PoamInv, RiskIsExplained
  <2>5. SetRisk(p, risk)
    BY <2>1 DEF risk
  <2> QED
    BY <2>2, <2>3, <2>4, <2>5, RiskInv
<1> QED
  BY <1>2, <1>3

LEMMA DeleteInv ==
  ASSUME PoamInv, NEW S \in SUBSET Ids, DeleteRows(S)
  PROVE  PoamInv'
<1>1. Linked(link) \ S \subseteq Linked(link')
  BY DEF DeleteRows, Linked
<1>2. findings' \subseteq Ccis /\ crmSkips' \subseteq Ccis /\ poamEdits' \in 0..MaxPoamEdits
  BY EditCounts DEF DeleteRows, PoamInv
<1> QED
  BY <1>1, <1>2, RowsGo DEF DeleteRows

LEMMA LinkInv ==
  ASSUME PoamInv, NEW p \in Standing, NEW o \in Ccis, Link(p, o) \/ Unlink(p, o)
  PROVE  PoamInv'
<1>0. p \in Ids /\ Standing' = Standing
  BY DEF Link, Unlink, Standing
<1>1. findings' \subseteq Ccis /\ crmSkips' \subseteq Ccis /\ poamEdits' \in 0..MaxPoamEdits
  BY EditCounts DEF Link, Unlink, PoamInv
<1>2. PoamTypeOK'
  BY <1>0, <1>1 DEF PoamInv, PoamTypeOK, Link, Unlink
<1>3. BlanksAreClean' /\ RiskIsExplained'
  BY <1>0 DEF PoamInv, BlanksAreClean, RiskIsExplained, Link, Unlink
<1>4. Linked(link) \subseteq Linked(link') \cup byHand' /\ byHand \subseteq byHand'
  BY DEF Link, Unlink, Linked
<1>5. HollowPoamsAreByHand'
  BY <1>0, <1>4 DEF PoamInv, HollowPoamsAreByHand
<1> QED
  BY <1>2, <1>3, <1>5 DEF PoamInv

LEMMA ImportInv ==
  ASSUME PoamInv, ImportNew \/ \E p \in Standing : ImportKnown(p)
  PROVE  PoamInv'
<1>0. /\ poam \in [Ids -> Poam \cup {NoPoam}] /\ trail \in [Ids -> Risk]
  BY DEF PoamInv, PoamTypeOK
<1>1. \A old \in Risk : Levels(old) \subseteq Risk
  BY PoamsAssumption DEF Levels, Risk
<1>2. CASE ImportNew
  <2>1. PICK k \in Keys, e \in EmassIds \cup {NoEmassId}, draft \in BOOLEAN,
             p \in NewIds(Standing, 1) \cap Ids, risk \in Levels(NoRisk) :
          /\ poam' = [poam EXCEPT ![p] = [key |-> k, draft |-> draft, locked |-> FALSE,
                                          emass |-> e, text |-> {OwnText}, risk |-> risk]]
          /\ imported' = imported \cup {p}
          /\ byHand' = byHand \cup {p}
          /\ UNCHANGED <<link, trail>>
    BY <1>2 DEF ImportNew
  <2> DEFINE r == [key |-> k, draft |-> draft, locked |-> FALSE,
                   emass |-> e, text |-> {OwnText}, risk |-> risk]
  <2>2. r \in Poam
    BY <1>1, NoRiskIsRisk DEF Poam
  <2>3. poam' = [poam EXCEPT ![p] = r]
    BY <2>1
  <2> HIDE DEF r
  <2>4. trail[p] \in Risk /\ trail' = [trail EXCEPT ![p] = trail[p]]
    BY <1>0, <2>1
  <2>5. PoamTypeOK'
    BY <1>2, <2>1, <2>2, <2>3, <2>4, RowIsTyped DEF PoamInv, PoamTypeOK, ImportNew
  <2> QED
    BY <2>1, <2>2, <2>3, <2>4, <2>5, RowMoves
<1>3. ASSUME NEW p \in Standing, ImportKnown(p)
      PROVE  PoamInv'
  <2>1. PICK draft \in BOOLEAN, risk \in Levels(poam[p].risk) :
          /\ poam' = [poam EXCEPT ![p].text = {OwnText}, ![p].draft = draft, ![p].risk = risk]
          /\ imported' = imported \cup {p}
          /\ UNCHANGED <<link, trail, byHand>>
    BY <1>3 DEF ImportKnown
  <2>2. p \in Ids /\ poam[p] \in Poam /\ poam[p].risk \in Risk
    BY <1>0 DEF Standing, Poam
  <2> DEFINE r == [poam[p] EXCEPT !.text = {OwnText}, !.draft = draft, !.risk = risk]
  <2>3. risk \in Risk
    BY <1>1, <2>2
  <2>4. r \in Poam
    BY <2>2, <2>3 DEF Poam
  <2>5. poam' = [poam EXCEPT ![p] = r]
    BY <1>0, <2>1, <2>2
  <2> HIDE DEF r
  <2>6. trail[p] \in Risk /\ trail' = [trail EXCEPT ![p] = trail[p]]
    BY <1>0, <2>1, <2>2
  <2>7. PoamTypeOK'
    BY <1>3, <2>1, <2>2, <2>4, <2>5, <2>6, RowIsTyped DEF PoamInv, PoamTypeOK, ImportKnown
  <2> QED
    BY <2>1, <2>2, <2>4, <2>5, <2>6, <2>7, RowMoves
<1> QED
  BY <1>2, <1>3

-----------------------------------------------------------------------------
(* generate_for_workbook *)

LEMMA NewIdsAreLarger ==
  ASSUME NEW S \in SUBSET Ids, NEW n \in Nat, NEW p \in NewIds(S, n)
  PROVE  p \in Int /\ p \notin S
<1>1. PICK top \in S \cup {0} : (\A q \in S : q <= top) /\ p \in (top + 1)..(top + n)
  BY DEF NewIds
<1>2. top \in Int
  BY DEF Ids
<1> QED
  BY <1>1, <1>2 DEF Ids

\* What a run over the links of stale writes.
GenerateWrites(stale, kept, new, ids, keyOf, impact) ==
    /\ kept = Standing \ Hollow(stale)
    /\ new = {k \in Clustered : Of(kept, k) = {}}
    /\ ids = NewIds(kept, Cardinality(new))
    /\ ids \subseteq Ids
    /\ keyOf \in InKeyOrder(ids, new)
    /\ impact \in [ids -> Seeds]
    /\ \A p \in Ids : /\ poam'[p] = Written(kept, ids, keyOf, impact)[p]
                      /\ trail'[p] = IF p \in ids THEN Seeded(impact[p])
                                     ELSE IF p \in kept THEN trail[p] ELSE NoRisk
    /\ poam' \in [Ids -> Poam \cup {NoPoam}]
    /\ trail' \in [Ids -> Risk]
    /\ link' = Left(stale) \cup UNION {{p} \X Items(keyOf[p]) : p \in ids}
    /\ imported' = imported \ Hollow(stale)
    /\ byHand' = byHand \ Hollow(stale)
    /\ UNCHANGED <<findings, crmSkips, poamEdits>>

LEMMA SeededIsRisk ==
  ASSUME NEW impact \in Seeds
  PROVE  LET risk == Seeded(impact)
         IN risk \in Risk /\ risk.raw = ComputeRisk(risk.likelihood, risk.impact)
<1>1. impact \in Grades /\ Moderate \in Grades
  BY PoamsAssumption DEF Grades, Level, Low, Moderate, High
<1> QED
  BY <1>1, MatrixIsTyped, GradedIsRisk DEF Seeded

LEMMA ItemsAreFindings ==
  ASSUME PoamTypeOK, NEW k
  PROVE  Items(k) \subseteq findings /\ Items(k) \in SUBSET (Ccis \cup {OwnText})
BY DEF Items, PoamTypeOK

LEMMA GenerateOpens ==
  ASSUME PoamTypeOK, NEW stale \in SUBSET link, GenerateFor(stale)
  PROVE  \E kept, new, ids, keyOf, impact :
            GenerateWrites(stale, kept, new, ids, keyOf, impact)
<1> DEFINE kept == Standing \ Hollow(stale)
           new  == {k \in Clustered : Of(kept, k) = {}}
           ids  == NewIds(kept, Cardinality(new))
<1>1. PICK keyOf \in InKeyOrder(ids, new), impact \in [ids -> Seeds] :
           /\ poam' = Written(kept, ids, keyOf, impact)
           /\ trail' = [p \in Ids |-> IF p \in ids THEN Seeded(impact[p])
                                      ELSE IF p \in kept THEN trail[p] ELSE NoRisk]
           /\ link' = Left(stale) \cup UNION {{p} \X Items(keyOf[p]) : p \in ids}
  BY DEF GenerateFor
<1>2. /\ ids \subseteq Ids
      /\ imported' = imported \ Hollow(stale)
      /\ byHand' = byHand \ Hollow(stale)
      /\ UNCHANGED <<findings, crmSkips, poamEdits>>
  BY DEF GenerateFor
<1>3. kept \subseteq Ids /\ new \subseteq Keys
  BY DEF Standing, Clustered
<1>4. \A p \in ids : keyOf[p] \in Keys /\ impact[p] \in Seeds
  BY <1>1, <1>3 DEF InKeyOrder
<1> HIDE DEF kept, new, ids
<1>5. \A p \in Ids : Written(kept, ids, keyOf, impact)[p] \in Poam \cup {NoPoam}
  <2> TAKE p \in Ids
  <2>1. Written(kept, ids, keyOf, impact)[p]
        = IF p \in ids THEN NewDraft(keyOf[p], impact[p])
          ELSE IF p \notin kept THEN NoPoam
          ELSE IF poam[p].key \in Clustered /\ p \in Latest(Of(kept, poam[p].key))
               THEN Rewritten(p) ELSE poam[p]
    BY DEF Written
  <2>2. p \in ids => NewDraft(keyOf[p], impact[p]) \in Poam
    BY <1>4, SeededIsRisk, ItemsAreFindings DEF NewDraft, Poam
  <2>3. p \in kept => poam[p] \in Poam
    BY DEF kept, Standing, PoamTypeOK
  <2>4. p \in kept => Rewritten(p) \in Poam
    BY <2>3, ItemsAreFindings DEF Rewritten, Poam
  <2> QED
    BY <2>1, <2>2, <2>3, <2>4
<1>6. poam' = [p \in Ids |-> Written(kept, ids, keyOf, impact)[p]]
  BY <1>1 DEF Written
<1>7. poam' \in [Ids -> Poam \cup {NoPoam}]
  BY <1>5, <1>6
<1>8. trail' \in [Ids -> Risk]
  BY <1>1, <1>4, SeededIsRisk, NoRiskIsRisk DEF PoamTypeOK
<1>9. GenerateWrites(stale, kept, new, ids, keyOf, impact)
  BY <1>1, <1>2, <1>7, <1>8 DEF GenerateWrites, kept, new, ids
<1> QED
  BY <1>9

\* The rows after it: new drafts of the keys that had none, and what it kept.
RowsAfter(kept, new, ids, keyOf, impact) ==
    /\ kept \subseteq Standing /\ new \subseteq Clustered
    /\ \A p \in ids :
          /\ p \in Ids /\ p \notin kept /\ keyOf[p] \in new
          /\ poam'[p] = NewDraft(keyOf[p], impact[p])
          /\ trail'[p] = Seeded(impact[p])
          /\ impact[p] \in Seeds
    /\ \A p \in kept :
          /\ poam'[p] = IF poam[p].key \in Clustered /\ p \in Latest(Of(kept, poam[p].key))
                        THEN Rewritten(p) ELSE poam[p]
          /\ trail'[p] = trail[p]
    /\ \A p \in Ids \ (ids \cup kept) : poam'[p] = NoPoam /\ trail'[p] = NoRisk
    /\ Standing' = ids \cup kept

LEMMA DraftIsRow ==
  ASSUME PoamTypeOK, NEW k \in Keys, NEW impact \in Seeds
  PROVE  NewDraft(k, impact) \in Poam /\ NewDraft(k, impact).risk = Seeded(impact)
<1>1. Seeded(impact) \in Risk /\ Items(k) \in SUBSET (Ccis \cup {OwnText})
  BY SeededIsRisk, ItemsAreFindings
<1> QED
  BY <1>1 DEF NewDraft, Poam

LEMMA NewIsFinite ==
  ASSUME NEW ids \in SUBSET Ids, NEW new, NEW keyOf \in InKeyOrder(ids, new)
  PROVE  IsFiniteSet(new)
<1>a. IsFiniteSet(1..MaxId)
  BY PoamsAssumption, FS_Interval
<1>1. IsFiniteSet(ids)
  BY <1>a, FS_Subset DEF Ids
<1>2. keyOf \in Surjection(ids, new)
  BY DEF InKeyOrder, Surjection
<1> QED
  BY <1>1, <1>2, FS_Surjection

LEMMA GenerateRows ==
  ASSUME PoamTypeOK, NEW stale \in SUBSET link,
         NEW kept, NEW new, NEW ids, NEW keyOf, NEW impact,
         GenerateWrites(stale, kept, new, ids, keyOf, impact)
  PROVE  RowsAfter(kept, new, ids, keyOf, impact)
<1>0. /\ kept = Standing \ Hollow(stale)
      /\ new = {k \in Clustered : Of(kept, k) = {}}
      /\ ids = NewIds(kept, Cardinality(new)) /\ ids \subseteq Ids
      /\ keyOf \in InKeyOrder(ids, new) /\ impact \in [ids -> Seeds]
      /\ \A p \in Ids : /\ poam'[p] = Written(kept, ids, keyOf, impact)[p]
                        /\ trail'[p] = IF p \in ids THEN Seeded(impact[p])
                                       ELSE IF p \in kept THEN trail[p] ELSE NoRisk
      /\ poam' \in [Ids -> Poam \cup {NoPoam}]
  BY DEF GenerateWrites
<1>1. kept \subseteq Standing /\ kept \subseteq Ids /\ new \subseteq Clustered
  BY <1>0 DEF Standing
<1>2. \A p \in ids : p \notin kept
  <2>1. Cardinality(new) \in Nat
    BY <1>0, NewIsFinite, FS_CardinalityType
  <2> QED
    BY <1>0, <1>1, <2>1, NewIdsAreLarger
<1>3. \A p \in ids : keyOf[p] \in new /\ impact[p] \in Seeds
  BY <1>0 DEF InKeyOrder
<1>4. \A p \in Ids : poam'[p] =
          IF p \in ids THEN NewDraft(keyOf[p], impact[p])
          ELSE IF p \notin kept THEN NoPoam
          ELSE IF poam[p].key \in Clustered /\ p \in Latest(Of(kept, poam[p].key))
               THEN Rewritten(p) ELSE poam[p]
  BY <1>0 DEF Written
<1>5. \A p \in ids : NewDraft(keyOf[p], impact[p]) # NoPoam
  BY <1>1, <1>3, DraftIsRow, NoPoamAssumption DEF Clustered
<1>6. \A p \in kept : poam[p] # NoPoam /\ Rewritten(p) # NoPoam
  BY <1>1, ItemsAreFindings, NoPoamAssumption DEF Standing, Rewritten, Poam, PoamTypeOK
<1>7. \A p \in Ids : poam'[p] # NoPoam <=> p \in ids \cup kept
  BY <1>2, <1>4, <1>5, <1>6
<1>8. Standing' = ids \cup kept
  BY <1>0, <1>1, <1>7 DEF Standing
<1> QED
  BY <1>0, <1>1, <1>2, <1>3, <1>4, <1>8 DEF RowsAfter

LEMMA GenerateInv ==
  ASSUME PoamInv, Generate
  PROVE  PoamInv'
<1>0. PoamTypeOK /\ Stale \in SUBSET link
  BY DEF PoamInv, Stale
<1>1. PICK kept, new, ids, keyOf, impact : GenerateWrites(Stale, kept, new, ids, keyOf, impact)
  BY <1>0, GenerateOpens DEF Generate
<1>2. /\ kept = Standing \ Hollow(Stale) /\ ids \subseteq Ids
      /\ poam' \in [Ids -> Poam \cup {NoPoam}] /\ trail' \in [Ids -> Risk]
      /\ link' = Left(Stale) \cup UNION {{p} \X Items(keyOf[p]) : p \in ids}
      /\ imported' = imported \ Hollow(Stale)
      /\ byHand' = byHand \ Hollow(Stale)
      /\ UNCHANGED <<findings, crmSkips, poamEdits>>
  BY <1>1 DEF GenerateWrites
<1>a. RowsAfter(kept, new, ids, keyOf, impact)
  BY <1>0, <1>1, GenerateRows
<1>3. /\ kept \subseteq Standing /\ new \subseteq Clustered
      /\ \A p \in ids :
            /\ p \in Ids /\ p \notin kept /\ keyOf[p] \in new
            /\ poam'[p] = NewDraft(keyOf[p], impact[p])
            /\ trail'[p] = Seeded(impact[p])
            /\ impact[p] \in Seeds
      /\ \A p \in kept :
            /\ poam'[p] = IF poam[p].key \in Clustered /\ p \in Latest(Of(kept, poam[p].key))
                          THEN Rewritten(p) ELSE poam[p]
            /\ trail'[p] = trail[p]
      /\ \A p \in Ids \ (ids \cup kept) : poam'[p] = NoPoam /\ trail'[p] = NoRisk
      /\ Standing' = ids \cup kept
  BY <1>a DEF RowsAfter
<1>4. PoamTypeOK'
  <2>1. \A p \in ids : {p} \X Items(keyOf[p]) \subseteq Ids \X Ccis
    BY <1>0, <1>2, ItemsAreFindings DEF PoamTypeOK
  <2>2. link' \subseteq Ids \X Ccis
    BY <1>0, <1>2, <2>1 DEF PoamTypeOK, Left
  <2> QED
    BY <1>0, <1>2, <2>2 DEF PoamTypeOK
<1>5. BlanksAreClean'
  <2> SUFFICES ASSUME NEW p \in Ids, poam'[p] = NoPoam
               PROVE  trail'[p] = NoRisk
    BY DEF BlanksAreClean
  <2>1. p \notin Standing'
    BY DEF Standing
  <2> QED
    BY <1>3, <2>1
<1>6. RiskIsExplained'
  <2> SUFFICES ASSUME NEW p \in ids \cup kept, p \notin imported'
               PROVE  /\ trail'[p] = poam'[p].risk
                      /\ poam'[p].risk.raw
                         = ComputeRisk(poam'[p].risk.likelihood, poam'[p].risk.impact)
    BY <1>3 DEF RiskIsExplained
  <2>1. CASE p \in ids
    <3>1. poam'[p].risk = Seeded(impact[p])
      BY <1>0, <1>3, <2>1, DraftIsRow DEF Clustered
    <3> QED
      BY <1>3, <2>1, <3>1, SeededIsRisk
  <2>2. CASE p \in kept
    <3>1. poam[p] \in Poam /\ Rewritten(p).risk = poam[p].risk
      BY <1>0, <1>3, <2>2 DEF Standing, PoamTypeOK, Rewritten, Poam
    <3>2. poam'[p].risk = poam[p].risk /\ trail'[p] = trail[p]
      BY <1>3, <2>2, <3>1
    <3>3. p \in Standing \ imported
      BY <1>2, <1>3, <2>2
    <3> QED
      BY <3>2, <3>3 DEF PoamInv, RiskIsExplained
  <2> QED
    BY <2>1, <2>2
<1>7. HollowPoamsAreByHand'
  <2>1. ASSUME NEW p \in ids
        PROVE  p \in Linked(link')
    <3>1. PICK o : o \in Items(keyOf[p])
      BY <1>3, <2>1 DEF Clustered
    <3>2. <<p, o>> \in link'
      BY <1>2, <2>1, <3>1
    <3> QED
      BY <3>2 DEF Linked
  <2>2. ASSUME NEW p \in kept
        PROVE  p \in Linked(link') \cup byHand'
    <3>1. p \in Linked(link) \cup byHand /\ p \notin Hollow(Stale)
      BY <1>2, <1>3, <2>2 DEF PoamInv, HollowPoamsAreByHand
    <3>2. p \in Linked(link) => p \in Linked(Left(Stale))
      BY <3>1 DEF Hollow, Linked, Left
    <3>3. Linked(Left(Stale)) \subseteq Linked(link')
      BY <1>2 DEF Linked
    <3> QED
      BY <1>2, <3>1, <3>2, <3>3
  <2> QED
    BY <1>3, <2>1, <2>2 DEF HollowPoamsAreByHand
<1> QED
  BY <1>4, <1>5, <1>6, <1>7 DEF PoamInv

LEMMA PoamStep ==
  ASSUME PoamInv, [PoamNext]_poamVars
  PROVE  PoamInv'
<1>1. CASE UNCHANGED poamVars
  BY <1>1 DEF PoamInv, PoamTypeOK, BlanksAreClean, RiskIsExplained, HollowPoamsAreByHand,
     Standing, poamVars
<1>2. ASSUME NEW o \in Ccis, Assess(o) \/ Review(o) PROVE PoamInv'
  BY <1>2, VerdictInv
<1>3. CASE DeleteAll
  <2>1. PICK drafts \in {BOOLEAN, {TRUE}, {FALSE}} :
             DeleteRows({p \in Standing : poam[p].draft \in drafts})
    BY <1>3 DEF DeleteAll
  <2>2. {p \in Standing : poam[p].draft \in drafts} \in SUBSET Ids
    BY DEF Standing
  <2> QED
    BY <2>1, <2>2, DeleteInv
<1>4. ASSUME NEW p \in Standing, Change(p) PROVE PoamInv'
  <2>1. p \in Ids /\ (DeletePoam(p) => PoamInv')
    BY DeleteInv DEF DeletePoam, Standing
  <2>2. ImportKnown(p) => PoamInv'
    BY <1>4, ImportInv
  <2>3. Describe(p) \/ SetStatus(p) \/ SetEmassId(p) => PoamInv'
    BY RowEditInv
  <2>4. Grade(p) \/ SetResidual(p) => PoamInv'
    BY GradeInv
  <2>5. ASSUME NEW o \in Ccis, Link(p, o) \/ Unlink(p, o) PROVE PoamInv'
    BY <2>5, LinkInv
  <2> QED
    BY <1>4, <2>1, <2>2, <2>3, <2>4, <2>5 DEF Change
<1>5. ImportNew \/ CreatePoam \/ Generate => PoamInv'
  BY ImportInv, CreateInv, GenerateInv
<1>6. ASSUME ChangeOverlays PROVE PoamInv'
  BY <1>6, PoamsAssumption DEF ChangeOverlays, PoamInv, PoamTypeOK, BlanksAreClean,
     RiskIsExplained, HollowPoamsAreByHand, Standing
<1> QED
  BY <1>1, <1>2, <1>3, <1>4, <1>5, <1>6 DEF PoamNext

LEMMA PoamInvHolds == PoamSpec => []PoamInv
<1>1. PoamInit => PoamInv
  BY PoamsAssumption, NoRiskIsRisk DEF PoamInit, PoamInv, PoamTypeOK, BlanksAreClean,
     RiskIsExplained, HollowPoamsAreByHand, Standing
<1>2. PoamInv /\ [PoamNext]_poamVars => PoamInv'
  BY PoamStep
<1> QED
  BY <1>1, <1>2, PTL DEF PoamSpec

(* Whatever verdicts, overlays, generator runs, edits, links and imports:  *)
(* the newest trail value of every risk field that no import wrote is the  *)
(* field's value, the raw severity is the matrix's, and a POAM without a   *)
(* link was made by hand or lost it by hand (poam/risk.py:206-260,         *)
(* routes/controls.py:593-654, poam/generator.py:764-1293).                *)
THEOREM PoamsAreSafe == PoamSpec => []PoamsSafe
<1>1. PoamInv => PoamsSafe
  BY DEF PoamInv, PoamsSafe
<1> QED
  BY <1>1, PoamInvHolds, PTL

\* A run leaves every link on a finding and every clustered key with a current POAM.
LEMMA GenerateLeaves ==
  ASSUME PoamInv, Generate
  PROVE  Settled'
<1>0. PoamTypeOK /\ Stale \in SUBSET link
  BY DEF PoamInv, Stale
<1>1. PICK kept, new, ids, keyOf, impact : GenerateWrites(Stale, kept, new, ids, keyOf, impact)
  BY <1>0, GenerateOpens DEF Generate
<1>2. /\ new = {k \in Clustered : Of(kept, k) = {}}
      /\ keyOf \in InKeyOrder(ids, new)
      /\ link' = Left(Stale) \cup UNION {{p} \X Items(keyOf[p]) : p \in ids}
      /\ findings' = findings /\ crmSkips' = crmSkips
  BY <1>1 DEF GenerateWrites
<1>3. RowsAfter(kept, new, ids, keyOf, impact)
  BY <1>0, <1>1, GenerateRows
<1>4. /\ kept \subseteq Standing /\ new \subseteq Clustered
      /\ Standing' = ids \cup kept
  BY <1>3 DEF RowsAfter
<1>5. Clustered' = Clustered /\ \A k : Items(k)' = Items(k)
  BY <1>2 DEF Clustered, Items
<1>6. \A p \in ids : /\ poam'[p].key = keyOf[p]
                     /\ poam'[p].text = Items(keyOf[p])
  <2>1. \A p \in ids : poam'[p] = NewDraft(keyOf[p], impact[p])
    BY <1>3 DEF RowsAfter
  <2>2. \A k, i : NewDraft(k, i).key = k /\ NewDraft(k, i).text = Items(k)
    BY DEF NewDraft
  <2> QED
    BY <2>1, <2>2
<1>7. \A p \in kept : /\ poam'[p].key = poam[p].key
                      /\ poam'[p].draft = poam[p].draft
                      /\ poam'[p].locked = poam[p].locked
  <2> TAKE p \in kept
  <2>1. poam[p] \in Poam
    BY <1>0, <1>4 DEF Standing, PoamTypeOK
  <2>2. poam'[p] \in {poam[p], Rewritten(p)}
    BY <1>3 DEF RowsAfter
  <2> QED
    BY <2>1, <2>2 DEF Rewritten, Poam
<1>8. Stale' = {}
  <2>1. \A p \in ids : \A l \in {p} \X Items(keyOf[p]) : l[2] \in findings
    BY ItemsAreFindings, <1>0
  <2>2. \A l \in link' : l[2] \in findings
    BY <1>2, <2>1 DEF Left, Stale
  <2> QED
    BY <1>2, <2>2 DEF Stale
<1>9. ASSUME NEW k \in Clustered
      PROVE  \E p \in Standing' : poam'[p].key = k
  <2>1. CASE k \in new
    BY <1>2, <1>4, <1>6, <2>1 DEF InKeyOrder
  <2>2. CASE k \notin new
    BY <1>2, <1>4, <1>7, <2>2 DEF Of
  <2> QED
    BY <2>1, <2>2
<1>10. ASSUME NEW p \in Standing', poam'[p].key \in Clustered,
              \A q \in Standing' : poam'[q].key = poam'[p].key => q <= p,
              poam'[p].draft, ~poam'[p].locked
       PROVE  poam'[p].text = Items(poam'[p].key)
  <2>1. CASE p \in ids
    BY <1>6, <2>1
  <2>2. CASE p \in kept
    <3>1. p \in Latest(Of(kept, poam[p].key)) /\ poam[p].key \in Clustered
      BY <1>4, <1>7, <1>10, <2>2 DEF Latest, Of
    <3>2. poam'[p] = Rewritten(p)
      BY <1>3, <2>2, <3>1 DEF RowsAfter
    <3>3. poam[p].draft /\ ~poam[p].locked
      BY <1>7, <1>10, <2>2
    <3>4. poam[p] \in Poam
      BY <1>0, <1>4, <2>2 DEF Standing, PoamTypeOK
    <3> QED
      BY <1>7, <2>2, <3>2, <3>3, <3>4 DEF Rewritten, Poam
  <2> QED
    BY <1>4, <2>1, <2>2
<1> QED
  BY <1>5, <1>8, <1>9, <1>10 DEF Settled, Of, Latest

\* A run over what a run has settled writes nothing.
LEMMA SettledStays ==
  ASSUME PoamInv, Generate, Settled
  PROVE  UNCHANGED poamVars
<1>0. PoamTypeOK /\ Stale \in SUBSET link /\ Stale = {}
  BY DEF PoamInv, Stale, Settled
<1>1. PICK kept, new, ids, keyOf, impact : GenerateWrites(Stale, kept, new, ids, keyOf, impact)
  BY <1>0, GenerateOpens DEF Generate
<1>2. Hollow(Stale) = {} /\ Left(Stale) = link
  BY <1>0 DEF Hollow, Linked, Left
<1>3. kept = Standing /\ new = {}
  BY <1>1, <1>2 DEF GenerateWrites, Settled
<1>4. ids = {}
  <2>1. Cardinality(new) = 0
    BY <1>3, FS_EmptySet
  <2>2. \A top \in kept \cup {0} : (top + 1)..(top + 0) = {}
    BY <1>3 DEF Standing, Ids
  <2>3. ids = NewIds(kept, 0)
    BY <1>1, <2>1 DEF GenerateWrites
  <2> QED
    BY <2>2, <2>3 DEF NewIds
<1>5. link' = link
  BY <1>1, <1>2, <1>4 DEF GenerateWrites
<1>6. UNCHANGED <<findings, crmSkips, poamEdits, imported, byHand>>
  BY <1>1, <1>2 DEF GenerateWrites
<1>7. RowsAfter(kept, new, ids, keyOf, impact)
  BY <1>0, <1>1, GenerateRows
<1>8. ASSUME NEW p \in Ids
      PROVE  poam'[p] = poam[p] /\ trail'[p] = trail[p]
  <2>1. CASE p \notin Standing
    BY <1>3, <1>4, <1>7, <2>1 DEF RowsAfter, Standing, PoamInv, BlanksAreClean
  <2>2. CASE p \in Standing
    <3>1. poam[p] \in Poam
      BY <1>0, <2>2 DEF Standing, PoamTypeOK
    <3>2. ASSUME poam[p].key \in Clustered, p \in Latest(Of(Standing, poam[p].key))
          PROVE  Rewritten(p) = poam[p]
      <4>1. poam[p].draft /\ ~poam[p].locked => poam[p].text = Items(poam[p].key)
        BY <3>2 DEF Settled
      <4> QED
        BY <3>1, <4>1 DEF Rewritten, Poam
    <3> QED
      BY <1>3, <1>7, <2>2, <3>2 DEF RowsAfter
  <2> QED
    BY <2>1, <2>2
<1>9. poam' = poam /\ trail' = trail
  <2>1. /\ poam \in [Ids -> Poam \cup {NoPoam}] /\ trail \in [Ids -> Risk]
        /\ poam' \in [Ids -> Poam \cup {NoPoam}] /\ trail' \in [Ids -> Risk]
    BY <1>0, <1>1 DEF GenerateWrites, PoamTypeOK
  <2> QED
    BY <1>8, <2>1
<1> QED
  BY <1>5, <1>6, <1>9 DEF poamVars

(* A generator run leaves every link on a trusted finding, and every key of *)
(* one that no CRM overlay takes from the customer with a POAM of current  *)
(* text, and writes nothing when it finds it so.  Links of findings that   *)
(* became inherited stay (poam/generator.py:764-1293).                     *)
THEOREM GeneratorSettles == PoamSpec => GenerateSettles
<1>1. PoamInv /\ [PoamNext]_poamVars
      => [Generate => Settled' /\ (Settled => UNCHANGED poamVars)]_poamVars
  BY GenerateLeaves, SettledStays
<1> QED
  BY <1>1, PoamInvHolds, PTL DEF PoamSpec, GenerateSettles

-----------------------------------------------------------------------------
(* The overlays *)

\* The sequence of overlays names the CRM baseline.
Names(ids, c) == \E i \in DOMAIN ids : ids[i] = c

\* The CRM baselines are typed, and no two of them carry one label.
BaselinesFit(baselines) ==
    /\ baselines \in [1..MaxCrm -> Contents \cup {Nothing}]
    /\ \A c, e \in 1..MaxCrm :
          /\ baselines[c] # Nothing /\ baselines[e] # Nothing
          /\ baselines[c].label = baselines[e].label /\ baselines[c].label # None
          => c = e

\* The attached overlays are distinct and none of them is deleted.
OverlaysFit(baselines, ids) ==
    /\ ids \in Seq(1..MaxCrm)
    /\ \A h, i \in DOMAIN ids : ids[h] = ids[i] => h = i
    /\ \A i \in DOMAIN ids : baselines[ids[i]] # Nothing

\* What a backfill or a run reads of the overlays: their ids and contents.
ContextFits(ctx) ==
    /\ ctx.ids \in Seq(1..MaxCrm)
    /\ ctx.seen \in Seq(Content)
    /\ Len(ctx.ids) = Len(ctx.seen)

\* An implementation row is a row of a known scope, of one overlay or none.
ScopeFits(i) ==
    /\ i = [id |-> i.id, label |-> i.label, status |-> i.status, from |-> i.from]
    /\ i.label \in ScopeLabels
    /\ i.from \in {Nothing} \cup 1..MaxCrm

\* The assessment row with its implementation rows.
RowFits(s, scopes) ==
    /\ s \in AssessmentRow \cup {Nothing}
    /\ IsFiniteSet(scopes)
    /\ \A i \in scopes : ScopeFits(i)
    /\ scopes # {} => s # Nothing
    /\ \/ scopes = {}
       \/ ComputeRollupStatus(scopes) \in {None, s.status}
       \/ s.how \in {"unsliced", "blind", "abstain"}

\* Every scope is of an overlay that is named, or of none.
ScopesOf(scopes, ids) == \A i \in scopes : i.from = Nothing \/ Names(ids, i.from)

\* What makes the safety of the overlays inductive: the labels of the CRM
\* baselines are unique, so an import replaces one of them at most; the
\* overlays are distinct, so a detached one is gone; a run's overlays are
\* still attached unless it is outdated.
OverlayInv ==
    /\ BaselinesFit(crm)
    /\ OverlaysFit(crm, attached)
    /\ pending \in {Nothing} \cup 1..MaxCrm
    /\ RowFits(saved, impls)
    /\ outdated \in BOOLEAN
    /\ outdated \/ ScopesOf(impls, attached)
    /\ run # Nothing => /\ ContextFits(run)
                        /\ outdated \/ \A i \in DOMAIN run.ids : Names(attached, run.ids[i])

-----------------------------------------------------------------------------
(* The slices and the plans of a context *)

LEMMA OverlayRollup ==
  ASSUME NEW P
  PROVE  /\ ComputeRollupStatus(P) \in Statuses \cup {None}
         /\ (\E p \in P : p.status \in Statuses) => ComputeRollupStatus(P) \in Statuses
  BY DEF ComputeRollupStatus, Statuses, None

\* The slices of a context are finitely many, one to a label, and the one
\* added for the local scope stands beside a real one.
LEMMA ContextSlices ==
  ASSUME NEW seen \in Seq(Content)
  PROVE  /\ IsFiniteSet(Slices(seen))
         /\ \A s, t \in Slices(seen) : s.label = t.label => s = t
         /\ \A s \in Slices(seen) : s.label \in ScopeLabels
         /\ Slices(seen) # {} => \E s \in Slices(seen) : s.real
<1> DEFINE Firsts == {j \in DOMAIN seen :
                         /\ Sliced(seen[j])
                         /\ \A h \in 1..(j - 1) :
                               Sliced(seen[h]) => seen[h].label # seen[j].label}
           slice(j) == [label |-> seen[j].label, resp |-> seen[j].cloud, real |-> TRUE]
           local == [label |-> OnPrem, resp |-> "customer", real |-> FALSE]
<1>1. RealSlices(seen) = {slice(j) : j \in Firsts}
  BY DEF RealSlices
<1>2. DOMAIN seen = 1..Len(seen) /\ Len(seen) \in Nat
  OBVIOUS
<1>3. IsFiniteSet(RealSlices(seen))
  <2> DEFINE f == [j \in Firsts |-> slice(j)]
  <2>1. IsFiniteSet(1..Len(seen))
    BY <1>2, FS_Interval
  <2>2. IsFiniteSet(Firsts)
    BY <2>1, <1>2, FS_Subset
  <2>3. f \in Surjection(Firsts, RealSlices(seen))
    BY <1>1 DEF Surjection
  <2> QED
    BY <2>2, <2>3, FS_Surjection
<1>4. \A s \in RealSlices(seen) : s.real /\ s.label \in ScopeLabels
  <2> SUFFICES ASSUME NEW s \in RealSlices(seen) PROVE s.real /\ s.label \in ScopeLabels
    OBVIOUS
  <2>1. PICK j \in Firsts : s = slice(j)
    BY <1>1
  <2>2. seen[j] \in Content /\ Sliced(seen[j])
    OBVIOUS
  <2> QED
    BY <2>1, <2>2 DEF Content, Sliced
<1>5. \A s, t \in RealSlices(seen) : s.label = t.label => s = t
  <2> SUFFICES ASSUME NEW s \in RealSlices(seen), NEW t \in RealSlices(seen),
                      s.label = t.label
               PROVE  s = t
    OBVIOUS
  <2>1. PICK i \in Firsts : s = slice(i)
    BY <1>1
  <2>2. PICK j \in Firsts : t = slice(j)
    BY <1>1
  <2>3. i \in Nat /\ j \in Nat /\ i >= 1 /\ j >= 1
    BY <1>2
  <2>4. seen[i].label = seen[j].label
    BY <2>1, <2>2
  <2>5. ~(i < j)
    <3> SUFFICES ASSUME i < j PROVE FALSE
      OBVIOUS
    <3>1. i \in 1..(j - 1)
      BY <2>3
    <3> QED
      BY <3>1, <2>4
  <2>6. ~(j < i)
    <3> SUFFICES ASSUME j < i PROVE FALSE
      OBVIOUS
    <3>1. j \in 1..(i - 1)
      BY <2>3
    <3> QED
      BY <3>1, <2>4
  <2>7. i = j
    BY <2>3, <2>5, <2>6
  <2> QED
    BY <2>1, <2>2, <2>7
<1>6. CASE RealSlices(seen) = {} \/ \E s \in RealSlices(seen) : s.label = OnPrem
  <2>1. Slices(seen) = RealSlices(seen)
    BY <1>6 DEF Slices
  <2> QED
    BY <2>1, <1>3, <1>4, <1>5
<1>7. CASE ~(RealSlices(seen) = {} \/ \E s \in RealSlices(seen) : s.label = OnPrem)
  <2> HIDE DEF local
  <2>1. Slices(seen) = RealSlices(seen) \cup {local}
    BY <1>7 DEF Slices, local
  <2>2. local.label = OnPrem /\ OnPrem \in ScopeLabels
    BY DEF local, ScopeLabels
  <2>3. IsFiniteSet(Slices(seen))
    BY <2>1, <1>3, FS_AddElement
  <2>4. \A s, t \in Slices(seen) : s.label = t.label => s = t
    BY <2>1, <2>2, <1>7, <1>5
  <2> QED
    BY <2>1, <2>2, <2>3, <2>4, <1>4, <1>7
<1> QED
  BY <1>6, <1>7

LEMMA EntryOfSeq ==
  ASSUME NEW T, NEW q \in Seq(T), NEW i \in DOMAIN q
  PROVE  q[i] \in T
  OBVIOUS

\* A real scope of a context is the one of some overlay of the context.
LEMMA SourceIsNamed ==
  ASSUME NEW ctx, ContextFits(ctx), NEW label
  PROVE  \/ SourceOf(ctx, label) = Nothing
         \/ Names(ctx.ids, SourceOf(ctx, label)) /\ SourceOf(ctx, label) \in 1..MaxCrm
<1> SUFFICES ASSUME IsReal(ctx, label)
             PROVE  Names(ctx.ids, SourceOf(ctx, label)) /\ SourceOf(ctx, label) \in 1..MaxCrm
  BY DEF SourceOf
<1> DEFINE Is(i) == /\ Sliced(ctx.seen[i]) /\ ctx.seen[i].label = label
                    /\ \A h \in 1..(i - 1) : ~(Sliced(ctx.seen[h]) /\ ctx.seen[h].label = label)
<1>1. \E i \in DOMAIN ctx.seen : Is(i)
  BY DEF IsReal, RealSlices
<1>2. First(ctx, label) \in DOMAIN ctx.seen
  BY <1>1 DEF First
<1>3. DOMAIN ctx.ids = DOMAIN ctx.seen
  BY DEF ContextFits
<1>4. \A i \in DOMAIN ctx.ids : ctx.ids[i] \in 1..MaxCrm
  <2>1. ctx.ids \in Seq(1..MaxCrm)
    BY DEF ContextFits
  <2> QED
    BY <2>1, EntryOfSeq
<1>5. First(ctx, label) \in DOMAIN ctx.ids /\ ctx.ids[First(ctx, label)] \in 1..MaxCrm
  BY <1>2, <1>3, <1>4
<1> QED
  BY <1>5 DEF SourceOf, Names

\* The plans of a context: finitely many scopes, at least one to a slice.
LEMMA PlansOfContext ==
  ASSUME NEW ctx, ContextFits(ctx), NEW d
  PROVE  /\ IsFiniteSet(PlansOf(ctx, d))
         /\ \A p \in PlansOf(ctx, d) : ScopeFits(p)
         /\ ScopesOf(PlansOf(ctx, d), ctx.ids)
         /\ PlansOf(ctx, d) = {} <=> Slices(ctx.seen) = {}
         /\ Cardinality(Slices(ctx.seen)) \in Nat
         /\ Cardinality(PlansOf(ctx, d)) \in Nat
         /\ Cardinality(Slices(ctx.seen)) <= Cardinality(PlansOf(ctx, d))
         /\ \A s \in Slices(ctx.seen) : \E p \in PlansOf(ctx, d) : p.status = PlanStatus(d, s)
<1> DEFINE S == Slices(ctx.seen)
           plans == PlanImplementations(d, S)
           P == PlansOf(ctx, d)
           id(p) == lastId + 1 + Cardinality({q \in plans : Position(ctx, q.label)
                                                              < Position(ctx, p.label)})
           plan(s) == [label |-> s.label, resp |-> s.resp, status |-> PlanStatus(d, s)]
           scope(p) == [id |-> id(p), label |-> p.label, status |-> p.status,
                        from |-> SourceOf(ctx, p.label)]
<1>1. /\ IsFiniteSet(S)
      /\ \A s, t \in S : s.label = t.label => s = t
      /\ \A s \in S : s.label \in ScopeLabels
  BY ContextSlices DEF ContextFits
<1>2. P = {scope(p) : p \in plans}
  BY DEF PlansOf
<1>3. plans = {plan(s) : s \in S}
  BY DEF PlanImplementations
<1> HIDE DEF S, plans, P, id
<1>4. \A x \in P : \E s \in S : x = scope(plan(s))
  BY <1>2, <1>3
<1>5. \A s \in S : scope(plan(s)) \in P
  BY <1>2, <1>3
<1>6. IsFiniteSet(P)
  <2> DEFINE f == [s \in S |-> scope(plan(s))]
  <2>1. f \in Surjection(S, P)
    BY <1>4, <1>5 DEF Surjection
  <2> QED
    BY <2>1, <1>1, FS_Surjection
<1>7. \A x \in P : ScopeFits(x) /\ (x.from = Nothing \/ Names(ctx.ids, x.from))
  <2> SUFFICES ASSUME NEW x \in P
               PROVE  ScopeFits(x) /\ (x.from = Nothing \/ Names(ctx.ids, x.from))
    OBVIOUS
  <2>1. PICK s \in S : x = scope(plan(s))
    BY <1>4
  <2>2. x = [id |-> id(plan(s)), label |-> s.label, status |-> PlanStatus(d, s),
             from |-> SourceOf(ctx, s.label)]
    BY <2>1
  <2>3. \/ SourceOf(ctx, s.label) = Nothing
        \/ Names(ctx.ids, SourceOf(ctx, s.label)) /\ SourceOf(ctx, s.label) \in 1..MaxCrm
    BY SourceIsNamed
  <2>4. s.label \in ScopeLabels
    BY <1>1
  <2> QED
    BY <2>2, <2>3, <2>4 DEF ScopeFits
<1>8. Cardinality(S) <= Cardinality(P)
  <2> DEFINE g == [x \in P |-> CHOOSE s \in S : s.label = x.label]
  <2>1. \A s \in S : g[scope(plan(s))] = s
    <3> SUFFICES ASSUME NEW s \in S PROVE g[scope(plan(s))] = s
      OBVIOUS
    <3>1. scope(plan(s)).label = s.label
      OBVIOUS
    <3>2. \A t \in S : t.label = s.label => t = s
      BY <1>1
    <3>3. (CHOOSE t \in S : t.label = s.label) = s
      BY <3>2
    <3> QED
      BY <3>1, <3>3, <1>5
  <2>2. \A x \in P : g[x] \in S
    <3> SUFFICES ASSUME NEW x \in P PROVE g[x] \in S
      OBVIOUS
    <3>1. PICK s \in S : x = scope(plan(s))
      BY <1>4
    <3>2. g[scope(plan(s))] = s
      BY <2>1
    <3> HIDE DEF g, scope, plan
    <3> QED
      BY <3>1, <3>2
  <2>3. g \in [P -> S]
    BY <2>2
  <2>4. \A s \in S : \E x \in P : g[x] = s
    <3> HIDE DEF g, scope, plan
    <3> QED
      BY <2>1, <1>5
  <2>5. g \in Surjection(P, S)
    BY <2>3, <2>4 DEF Surjection
  <2> QED
    BY <2>5, <1>6, FS_Surjection
<1>9. \A s \in S : \E x \in P : x.status = PlanStatus(d, s)
  <2> SUFFICES ASSUME NEW s \in S PROVE \E x \in P : x.status = PlanStatus(d, s)
    OBVIOUS
  <2>1. scope(plan(s)).status = PlanStatus(d, s)
    OBVIOUS
  <2> QED
    BY <2>1, <1>5
<1>10. P = {} <=> S = {}
  BY <1>4, <1>5
<1>11. Cardinality(S) \in Nat /\ Cardinality(P) \in Nat
  BY <1>1, <1>6, FS_CardinalityType
<1>12. ScopesOf(P, ctx.ids)
  BY <1>7 DEF ScopesOf
<1> QED
  BY <1>6, <1>7, <1>8, <1>9, <1>10, <1>11, <1>12 DEF P, S

\* A decision with a status gives some scope of the context a status.
LEMMA PlansAddUp ==
  ASSUME NEW ctx, ContextFits(ctx), NEW d, d.status \in Statuses,
         \A l \in DOMAIN d.forced : d.forced[l] \in Statuses,
         PlansOf(ctx, d) # {}
  PROVE  ComputeRollupStatus(PlansOf(ctx, d)) \in Statuses
<1>1. PICK s \in Slices(ctx.seen) : s.real
  BY PlansOfContext, ContextSlices DEF ContextFits
<1>2. PlanStatus(d, s) \in Statuses
  BY <1>1 DEF PlanStatus, Statuses
<1>3. \E p \in PlansOf(ctx, d) : p.status = PlanStatus(d, s)
  BY PlansOfContext
<1> QED
  BY <1>2, <1>3, OverlayRollup

-----------------------------------------------------------------------------
(* What is written to the row *)

LEMMA PersistedFits ==
  ASSUME NEW ctx, ContextFits(ctx), NEW d, d.status \in Statuses \cup {None},
         \A l \in DOMAIN d.forced : d.forced[l] \in Statuses,
         NEW old, IsFiniteSet(old), \A i \in old : ScopeFits(i),
         NEW record \in AssessmentRow, d.status = None => record.how = "abstain"
  PROVE  LET r == Persisted(ctx, d, old, record)
         IN  /\ RowFits(r.saved, r.impls)
             /\ r.saved \in AssessmentRow
             /\ r.saved.tester = record.tester /\ r.saved.source = record.source
             /\ r.impls = IF PlansOf(ctx, d) = {} THEN old ELSE PlansOf(ctx, d)
<1> DEFINE P == PlansOf(ctx, d)
           r == Persisted(ctx, d, old, record)
<1>1. record.status \in Statuses
  BY DEF AssessmentRow
<1>2. record.how \in {"backfill", "unsliced", "purge", "run", "abstain", "edit", "blind"}
  BY DEF AssessmentRow
<1>3. IsFiniteSet(P) /\ \A p \in P : ScopeFits(p)
  BY PlansOfContext
<1>4. P # {} /\ d.status # None => ComputeRollupStatus(P) \in Statuses
  BY PlansAddUp
<1>5. r.impls = IF P = {} THEN old ELSE P
  BY DEF Persisted
<1>6. r.saved = [record EXCEPT !.status = IF P = {} \/ d.status = None THEN record.status
                                          ELSE ComputeRollupStatus(P),
                               !.how = IF P = {} THEN "unsliced" ELSE record.how]
  BY DEF Persisted, AssessmentRow
<1> HIDE DEF P, r
<1>7. CASE P = {}
  <2>1. r.saved = [record EXCEPT !.status = record.status, !.how = "unsliced"]
    BY <1>6, <1>7
  <2>2. r.saved \in AssessmentRow /\ r.saved.how = "unsliced"
        /\ r.saved.tester = record.tester /\ r.saved.source = record.source
    BY <2>1, <1>1 DEF AssessmentRow
  <2> QED
    BY <2>2, <1>5, <1>7, OverlayAssumption DEF RowFits, r, P
<1>8. CASE P # {} /\ d.status = None
  <2>1. r.saved = [record EXCEPT !.status = record.status, !.how = "abstain"]
    BY <1>6, <1>8
  <2>2. r.saved \in AssessmentRow /\ r.saved.how = "abstain"
        /\ r.saved.tester = record.tester /\ r.saved.source = record.source
    BY <2>1, <1>1 DEF AssessmentRow
  <2> QED
    BY <2>2, <1>5, <1>8, <1>3, OverlayAssumption DEF RowFits, r, P
<1>9. CASE P # {} /\ d.status # None
  <2> DEFINE rolled == ComputeRollupStatus(P)
  <2> HIDE DEF rolled
  <2>1. r.saved = [record EXCEPT !.status = rolled, !.how = record.how]
    BY <1>6, <1>9 DEF rolled
  <2>2. rolled \in Statuses
    BY <1>4, <1>9 DEF rolled
  <2>3. r.saved \in AssessmentRow /\ r.saved.status = rolled
        /\ r.saved.tester = record.tester /\ r.saved.source = record.source
    BY <2>1, <2>2, <1>2 DEF AssessmentRow
  <2> QED
    BY <2>3, <1>5, <1>9, <1>3, OverlayAssumption DEF RowFits, r, P, rolled
<1> QED
  BY <1>7, <1>8, <1>9

\* The CRM's decision: a status of its own, and a forced one for the local
\* scope at most.
LEMMA CrmDecides ==
  ASSUME NEW ctx
  PROVE  /\ CrmDecision(ctx).status \in {"C", "NA"}
         /\ \A l \in DOMAIN CrmDecision(ctx).forced : CrmDecision(ctx).forced[l] \in Statuses
<1> DEFINE d == CrmDecision(ctx)
           F == {x \in {OnPrem} : FlexIsInherited(ctx)}
<1>1. d.forced = [l \in F |-> "C"]
  BY DEF CrmDecision, Decision
<1>2. d.status \in {"C", "NA"}
  BY DEF CrmDecision, Decision
<1> QED
  BY <1>1, <1>2 DEF Statuses

CrmRow(ctx) == RowOf(CrmDecision(ctx).status, "crm", "system", FALSE, "backfill")

LEMMA CrmRowIs ==
  ASSUME NEW ctx
  PROVE  /\ CrmRow(ctx) \in AssessmentRow
         /\ CrmRow(ctx).tester = "system" /\ CrmRow(ctx).source = "crm"
         /\ \A b \in BOOLEAN : /\ [CrmRow(ctx) EXCEPT !.review = b] \in AssessmentRow
                               /\ [CrmRow(ctx) EXCEPT !.review = b].tester = "system"
                               /\ [CrmRow(ctx) EXCEPT !.review = b].source = "crm"
<1> DEFINE verdict == CrmDecision(ctx).status
<1>1. verdict \in Statuses
  BY CrmDecides DEF Statuses
<1> HIDE DEF verdict
<1>2. CrmRow(ctx) = [status |-> verdict, source |-> "crm", tester |-> "system",
                     review |-> FALSE, how |-> "backfill"]
  BY DEF CrmRow, RowOf, verdict
<1> QED
  BY <1>1, <1>2 DEF AssessmentRow, Testers

Outnumbers(scopes, ctx) == Cardinality(scopes) >= Cardinality(Slices(ctx.seen))

\* The ways a backfill ends.
LEMMA BackfillEnds ==
  ASSUME NEW ctx, NEW s, NEW old, NEW wording, NEW r, r = CrmBackfill(ctx, s, old, wording)
  PROVE  \/ ~Concerns(ctx) /\ r = [saved |-> s, impls |-> old]
         \/ /\ Concerns(ctx) /\ ~Deterministic(ctx)
            /\ \/ s # Nothing /\ IsHealable(s) /\ r = Removed
               \/ r = [saved |-> s, impls |-> old]
         \/ /\ Concerns(ctx) /\ Deterministic(ctx) /\ s = Nothing
            /\ \/ r = [saved |-> s, impls |-> old]
               \/ r = Persisted(ctx, CrmDecision(ctx), {}, CrmRow(ctx))
         \/ /\ Concerns(ctx) /\ Deterministic(ctx) /\ s # Nothing
            /\ \/ r = [saved |-> s, impls |-> old]
               \/ /\ IsHealable(s)
                  /\ ~Outnumbers(old, ctx)
                  /\ r = Persisted(ctx, CrmDecision(ctx), old,
                                   [CrmRow(ctx) EXCEPT !.review = s.review])
<1>1. CASE ~Concerns(ctx)
  BY <1>1 DEF CrmBackfill
<1>2. CASE Concerns(ctx) /\ ~Deterministic(ctx)
  BY <1>2 DEF CrmBackfill
<1>3. CASE Concerns(ctx) /\ Deterministic(ctx) /\ s = Nothing
  BY <1>3 DEF CrmBackfill, CrmRow
<1>4. CASE Concerns(ctx) /\ Deterministic(ctx) /\ s # Nothing
  BY <1>4 DEF CrmBackfill, CrmRow, Outnumbers
<1> QED
  BY <1>1, <1>2, <1>3, <1>4

\* A backfill leaves a row that fits, and a named person's row as it was.
LEMMA BackfillFits ==
  ASSUME NEW ctx, ContextFits(ctx), NEW s, NEW old, RowFits(s, old), NEW wording
  PROVE  LET r == CrmBackfill(ctx, s, old, wording)
         IN  /\ RowFits(r.saved, r.impls)
             /\ ScopesOf(r.impls, ctx.ids) \/ r.impls = old
             /\ s # Nothing /\ s.tester = "human" => r.saved = s
<1> DEFINE r == CrmBackfill(ctx, s, old, wording)
           d == CrmDecision(ctx)
<1>1. CASE r = [saved |-> s, impls |-> old]
  BY <1>1
<1>2. CASE s # Nothing /\ IsHealable(s) /\ r = Removed
  <2>1. RowFits(Nothing, {})
    BY FS_EmptySet DEF RowFits
  <2>2. r.saved = Nothing /\ r.impls = {}
    BY <1>2 DEF Removed
  <2>3. s.tester # "human"
    BY <1>2 DEF IsHealable
  <2> QED
    BY <2>1, <2>2, <2>3 DEF ScopesOf
<1>3. ASSUME NEW before, IsFiniteSet(before), \A i \in before : ScopeFits(i),
             before = {} \/ before = old,
             NEW record \in AssessmentRow, r = Persisted(ctx, d, before, record),
             s = Nothing \/ s.tester # "human"
      PROVE  /\ RowFits(r.saved, r.impls)
             /\ ScopesOf(r.impls, ctx.ids) \/ r.impls = old
             /\ s # Nothing /\ s.tester = "human" => r.saved = s
  <2>1. /\ d.status \in Statuses \cup {None} /\ d.status # None
        /\ \A l \in DOMAIN d.forced : d.forced[l] \in Statuses
    BY CrmDecides DEF Statuses, None
  <2> HIDE DEF r, d
  <2>2. /\ RowFits(r.saved, r.impls)
        /\ r.impls = IF PlansOf(ctx, d) = {} THEN before ELSE PlansOf(ctx, d)
    BY <2>1, <1>3, PersistedFits
  <2>3. ScopesOf(PlansOf(ctx, d), ctx.ids)
    BY PlansOfContext
  <2>4. ScopesOf(r.impls, ctx.ids) \/ r.impls = old
    BY <2>2, <2>3, <1>3 DEF ScopesOf
  <2> QED
    BY <2>2, <2>4, <1>3
<1>4. CASE s = Nothing /\ r = Persisted(ctx, d, {}, CrmRow(ctx))
  BY <1>3, <1>4, CrmRowIs, FS_EmptySet
<1>5. CASE /\ s # Nothing /\ IsHealable(s)
           /\ r = Persisted(ctx, d, old, [CrmRow(ctx) EXCEPT !.review = s.review])
  <2>1. s.review \in BOOLEAN /\ s.tester # "human"
    BY <1>5 DEF RowFits, AssessmentRow, IsHealable
  <2>2. [CrmRow(ctx) EXCEPT !.review = s.review] \in AssessmentRow
    BY <2>1, CrmRowIs
  <2>3. IsFiniteSet(old) /\ \A i \in old : ScopeFits(i)
    BY DEF RowFits
  <2> QED
    BY <2>1, <2>2, <2>3, <1>3, <1>5
<1>6. \/ r = [saved |-> s, impls |-> old]
      \/ s # Nothing /\ IsHealable(s) /\ r = Removed
      \/ s = Nothing /\ r = Persisted(ctx, d, {}, CrmRow(ctx))
      \/ /\ s # Nothing /\ IsHealable(s)
         /\ r = Persisted(ctx, d, old, [CrmRow(ctx) EXCEPT !.review = s.review])
  BY BackfillEnds
<1> QED
  BY <1>1, <1>2, <1>4, <1>5, <1>6

\* Done twice, a backfill does what it did once.
LEMMA BackfillTwice ==
  ASSUME NEW ctx, ContextFits(ctx), NEW s, NEW old, RowFits(s, old),
         NEW wording, wording # "clash",
         NEW once, once = CrmBackfill(ctx, s, old, wording)
  PROVE  CrmBackfill(ctx, once.saved, once.impls, wording) = once
<1> DEFINE d == CrmDecision(ctx)
           again(r) == CrmBackfill(ctx, r.saved, r.impls, wording)
           n == Cardinality(Slices(ctx.seen))
<1>1. CASE once = [saved |-> s, impls |-> old]
  <2>1. once.saved = s /\ once.impls = old
    BY <1>1
  <2> QED
    BY <2>1
<1>2. CASE Concerns(ctx) /\ ~Deterministic(ctx) /\ once = Removed
  <2>1. Removed.saved = Nothing /\ Removed.impls = {}
    BY DEF Removed
  <2>2. CrmBackfill(ctx, Nothing, {}, wording) = [saved |-> Nothing, impls |-> {}]
    BY <1>2 DEF CrmBackfill
  <2> QED
    BY <2>1, <2>2, <1>2 DEF Removed
<1>3. ASSUME Concerns(ctx), Deterministic(ctx), NEW before,
             NEW record \in AssessmentRow, once = Persisted(ctx, d, before, record),
             IsFiniteSet(before), \A i \in before : ScopeFits(i),
             before = {} \/ ~Outnumbers(before, ctx)
      PROVE  again(once) = once
  <2>1. /\ d.status \in Statuses \cup {None} /\ d.status # None
        /\ \A l \in DOMAIN d.forced : d.forced[l] \in Statuses
    BY CrmDecides DEF Statuses, None
  <2>2. /\ n \in Nat /\ Cardinality(PlansOf(ctx, d)) \in Nat
        /\ n <= Cardinality(PlansOf(ctx, d))
        /\ PlansOf(ctx, d) = {} <=> Slices(ctx.seen) = {}
    BY PlansOfContext
  <2>3. once = [saved |-> once.saved, impls |-> once.impls]
    BY <1>3 DEF Persisted
  <2> HIDE DEF d
  <2>4. /\ once.saved \in AssessmentRow
        /\ once.impls = IF PlansOf(ctx, d) = {} THEN before ELSE PlansOf(ctx, d)
    BY <2>1, <1>3, PersistedFits
  <2>5. once.saved # Nothing
    BY <2>4, OverlayAssumption
  <2>6. Outnumbers(once.impls, ctx)
    <3>1. CASE PlansOf(ctx, d) # {}
      BY <3>1, <2>2, <2>4 DEF Outnumbers
    <3>2. CASE PlansOf(ctx, d) = {}
      <4>1. n = 0 /\ Cardinality(before) \in Nat
        BY <3>2, <2>2, <1>3, FS_EmptySet, FS_CardinalityType
      <4> QED
        BY <3>2, <4>1, <2>4 DEF Outnumbers
    <3> QED
      BY <3>1, <3>2
  <2>7. CrmBackfill(ctx, once.saved, once.impls, wording)
          = [saved |-> once.saved, impls |-> once.impls]
    BY <1>3, <2>5, <2>6 DEF CrmBackfill, Outnumbers
  <2> QED
    BY <2>7, <2>3
<1>4. CASE Concerns(ctx) /\ Deterministic(ctx) /\ once = Persisted(ctx, d, {}, CrmRow(ctx))
  BY <1>3, <1>4, CrmRowIs, FS_EmptySet
<1>5. CASE /\ Concerns(ctx) /\ Deterministic(ctx) /\ s # Nothing
           /\ ~Outnumbers(old, ctx)
           /\ once = Persisted(ctx, d, old, [CrmRow(ctx) EXCEPT !.review = s.review])
  <2>1. s.review \in BOOLEAN
    BY <1>5 DEF RowFits, AssessmentRow
  <2>2. [CrmRow(ctx) EXCEPT !.review = s.review] \in AssessmentRow
    BY <2>1, CrmRowIs
  <2>3. IsFiniteSet(old) /\ \A i \in old : ScopeFits(i)
    BY DEF RowFits
  <2> QED
    BY <2>2, <2>3, <1>3, <1>5
<1>6. \/ once = [saved |-> s, impls |-> old]
      \/ Concerns(ctx) /\ ~Deterministic(ctx) /\ once = Removed
      \/ Concerns(ctx) /\ Deterministic(ctx) /\ once = Persisted(ctx, d, {}, CrmRow(ctx))
      \/ /\ Concerns(ctx) /\ Deterministic(ctx) /\ s # Nothing
         /\ ~Outnumbers(old, ctx)
         /\ once = Persisted(ctx, d, old, [CrmRow(ctx) EXCEPT !.review = s.review])
  BY BackfillEnds
<1> QED
  BY <1>1, <1>2, <1>4, <1>5, <1>6

LEMMA EmptyRowFits == RowFits(Nothing, {}) /\ \A s \in AssessmentRow : RowFits(s, {})
  BY FS_EmptySet DEF RowFits

LEMMA RemovedIs == Removed.saved = Nothing /\ Removed.impls = {}
  BY DEF Removed

\* The rules keep, remove or replace the row; a named person's only when
\* column D or a stale NA says so.
LEMMA RulesFit ==
  ASSUME NEW s, NEW old, RowFits(s, old), NEW fits,
         NEW r, r = RuleBackfill(s, old, fits)
  PROVE  /\ RowFits(r.saved, r.impls)
         /\ r.impls = {} \/ r.impls = old
         /\ s # Nothing /\ s.tester = "human" =>
               r.saved = s \/ file.d \/ s.status = "NA"
<1>1. RuleApplies(fits) => /\ Ruled.saved \in AssessmentRow
                           /\ Ruled.impls = {}
  <2> SUFFICES ASSUME RuleApplies(fits)
               PROVE  Ruled.saved \in AssessmentRow /\ Ruled.impls = {}
    OBVIOUS
  <2>1. ClassifyRow(file) \in {"8a", "8b"}
    BY DEF RuleApplies
  <2>2. Ruled.impls = {}
        /\ Ruled.saved = [status |-> IF file.d THEN "NA" ELSE "C",
                          source |-> ClassifyRow(file), tester |-> "system",
                          review |-> FALSE, how |-> "backfill"]
    BY DEF Ruled, RowOf
  <2>3. (IF file.d THEN "NA" ELSE "C") \in Statuses
    BY DEF Statuses
  <2> QED
    BY <2>1, <2>2, <2>3 DEF AssessmentRow
<1> DEFINE base == IF s # Nothing /\ IsStaleNa(s) THEN Removed
                   ELSE [saved |-> s, impls |-> old]
<1>2. RowFits(base.saved, base.impls) /\ (base.impls = {} \/ base.impls = old)
  BY EmptyRowFits, RemovedIs
<1>3. \/ r = base
      \/ r = Ruled /\ RuleApplies(fits) /\ (base.saved = Nothing \/ file.d)
  BY DEF RuleBackfill
<1>4. s # Nothing /\ s.tester = "human" => base.saved = s \/ file.d \/ s.status = "NA"
  BY DEF IsStaleNa
<1> HIDE DEF base
<1>5. CASE r = base
  BY <1>5, <1>2, <1>4
<1>6. CASE r = Ruled /\ RuleApplies(fits) /\ (base.saved = Nothing \/ file.d)
  <2>1. RowFits(r.saved, r.impls) /\ r.impls = {}
    BY <1>6, <1>1, EmptyRowFits
  <2> QED
    BY <2>1, <1>6, <1>4
<1> QED
  BY <1>3, <1>5, <1>6

\* A purge leaves none of the scopes of the overlay, and keeps every row
\* with its tester that the CRM has not written.
LEMMA PurgeFits ==
  ASSUME RowFits(saved, impls), NEW c, NEW r, r = Purge(c)
  PROVE  /\ RowFits(r.saved, r.impls)
         /\ \A i \in r.impls : i \in impls /\ i.from # c
         /\ saved # Nothing /\ saved.tester = "human" =>
               r.saved # Nothing /\ r.saved.tester = saved.tester
<1> DEFINE left == ScopesWithout(c)
           rolled == ComputeRollupStatus(left)
<1>1. left = {i \in impls : i.from # c}
  BY DEF ScopesWithout
<1>2. IsFiniteSet(left) /\ \A i \in left : ScopeFits(i)
  BY <1>1, FS_Subset DEF RowFits
<1>3. rolled \in Statuses \cup {None}
  BY OverlayRollup
<1> HIDE DEF left, rolled
<1>4. CASE left = impls \/ saved = Nothing
  <2>1. r.saved = saved /\ r.impls = impls
    BY <1>4 DEF Purge, Keep, left
  <2>2. saved = Nothing => impls = {}
    BY DEF RowFits
  <2> QED
    BY <2>1, <2>2, <1>1, <1>4
<1>5. CASE left # impls /\ saved # Nothing /\ left = {} /\ IsCrmDerived(saved)
  <2>1. r.saved = Nothing /\ r.impls = {}
    BY <1>5, RemovedIs DEF Purge, left
  <2> QED
    BY <2>1, <1>5, EmptyRowFits DEF IsCrmDerived
<1>6. CASE left # impls /\ saved # Nothing /\ left = {} /\ ~IsCrmDerived(saved)
  <2>1. r.saved = saved /\ r.impls = {}
    BY <1>6 DEF Purge, left
  <2> QED
    BY <2>1, <1>6, EmptyRowFits DEF RowFits
<1>7. CASE left # impls /\ saved # Nothing /\ left # {} /\ rolled = None
  <2>1. r.saved = saved /\ r.impls = left
    BY <1>7 DEF Purge, left, rolled
  <2>2. RowFits(saved, left)
    BY <1>7, <1>2 DEF RowFits, rolled
  <2> QED
    BY <2>1, <2>2, <1>1
<1>8. CASE left # impls /\ saved # Nothing /\ left # {} /\ rolled # None
  <2>1. r.saved = [saved EXCEPT !.status = rolled, !.how = "purge"] /\ r.impls = left
    BY <1>8 DEF Purge, left, rolled
  <2>2. saved \in AssessmentRow /\ rolled \in Statuses
    BY <1>8, <1>3 DEF RowFits
  <2>3. /\ r.saved \in AssessmentRow /\ r.saved.status = rolled
        /\ r.saved.tester = saved.tester
    BY <2>1, <2>2 DEF AssessmentRow
  <2>4. RowFits(r.saved, left)
    BY <2>3, <1>2, OverlayAssumption DEF RowFits, rolled
  <2> QED
    BY <2>1, <2>3, <2>4, <1>1, OverlayAssumption
<1> QED
  BY <1>4, <1>5, <1>6, <1>7, <1>8

\* Without an overlay the others stay attached, in their order.
LEMMA WithoutIs ==
  ASSUME NEW baselines, OverlaysFit(baselines, attached), NEW c
  PROVE  /\ Without(c) \in Seq(1..MaxCrm)
         /\ \A h, i \in DOMAIN Without(c) : Without(c)[h] = Without(c)[i] => h = i
         /\ \A i \in DOMAIN Without(c) : Names(attached, Without(c)[i]) /\ Without(c)[i] # c
         /\ \A e : Names(attached, e) /\ e # c => Names(Without(c), e)
<1>0. attached \in Seq(1..MaxCrm) /\ DOMAIN attached = 1..Len(attached) /\ Len(attached) \in Nat
      /\ \A h, i \in DOMAIN attached : attached[h] = attached[i] => h = i
  BY DEF OverlaysFit
<1>1. CASE ~Attached(c)
  <2>1. Without(c) = attached
    BY <1>1 DEF Without
  <2>2. \A i \in DOMAIN attached : Names(attached, attached[i]) /\ attached[i] # c
    BY <1>1 DEF Names, Attached
  <2> HIDE DEF Names
  <2> QED
    BY <2>1, <2>2, <1>0
<1>2. CASE Attached(c)
  <2> DEFINE i == CHOOSE i \in DOMAIN attached : attached[i] = c
             n == Len(attached)
             w == Without(c)
             old(k) == IF k < i THEN k ELSE k + 1
  <2>1. i \in 1..n /\ attached[i] = c
    BY <1>2, <1>0 DEF Attached
  <2>2. w = SubSeq(attached, 1, i - 1) \o SubSeq(attached, i + 1, n)
    BY <1>2 DEF Without
  <2> HIDE DEF i, w
  <2>3. n \in Nat /\ i \in Nat /\ 1 <= i /\ i <= n
    BY <2>1, <1>0
  <2> DEFINE T == 1..MaxCrm
             before == SubSeq(attached, 1, i - 1)
             after == SubSeq(attached, i + 1, n)
  <2>14. attached \in Seq(T) /\ \A k \in 1..n : attached[k] \in T
    BY <1>0, EntryOfSeq
  <2> HIDE DEF T, n
  <2>4. /\ before \in Seq(T) /\ Len(before) = i - 1
        /\ \A k \in 1..(i - 1) : before[k] = attached[k]
    <3>1. 1 \in Int /\ i - 1 \in Int /\ \A k \in 1..(i - 1) : attached[k] \in T
      BY <2>3, <2>14
    <3>2. /\ before \in Seq(T)
          /\ Len(before) = IF 1 <= i - 1 THEN i - 1 - 1 + 1 ELSE 0
          /\ \A k \in 1..(i - 1 - 1 + 1) : before[k] = attached[1 + k - 1]
      BY <3>1, SubSeqProperties
    <3>3. i - 1 - 1 + 1 = i - 1 /\ \A k \in 1..(i - 1) : 1 + k - 1 = k
      BY <2>3
    <3> HIDE DEF before
    <3> QED
      BY <3>2, <3>3, <2>3
  <2>5. /\ after \in Seq(T) /\ Len(after) = n - i
        /\ \A k \in 1..(n - i) : after[k] = attached[k + i]
    <3>1. i + 1 \in Int /\ n \in Int /\ \A k \in (i + 1)..n : attached[k] \in T
      BY <2>3, <2>14
    <3>2. /\ after \in Seq(T)
          /\ Len(after) = IF i + 1 <= n THEN n - (i + 1) + 1 ELSE 0
          /\ \A k \in 1..(n - (i + 1) + 1) : after[k] = attached[i + 1 + k - 1]
      BY <3>1, SubSeqProperties
    <3>3. n - (i + 1) + 1 = n - i /\ \A k \in 1..(n - i) : i + 1 + k - 1 = k + i
      BY <2>3
    <3> HIDE DEF after
    <3> QED
      BY <3>2, <3>3, <2>3
  <2> HIDE DEF before, after
  <2>15. /\ before \o after \in Seq(T)
        /\ Len(before \o after) = Len(before) + Len(after)
        /\ \A k \in 1..(Len(before) + Len(after)) :
              (before \o after)[k] = IF k <= Len(before) THEN before[k]
                                     ELSE after[k - Len(before)]
    BY <2>4, <2>5, ConcatProperties
  <2>16. w = before \o after /\ Len(before) + Len(after) = n - 1
    <3>1. w = before \o after
      BY <2>2 DEF before, after
    <3>2. Len(before) + Len(after) = n - 1
      BY <2>3, <2>4, <2>5
    <3> QED
      BY <3>1, <3>2
  <2>6. w \in Seq(1..MaxCrm) /\ Len(w) = n - 1
    BY <2>15, <2>16 DEF T
  <2>7. \A k \in 1..(n - 1) : w[k] = attached[old(k)]
    <3> SUFFICES ASSUME NEW k \in 1..(n - 1) PROVE w[k] = attached[old(k)]
      OBVIOUS
    <3>1. k \in Nat /\ 1 <= k /\ k <= n - 1
      BY <2>3
    <3>2. CASE k < i
      <4>1. k <= i - 1 /\ k \in 1..(i - 1)
        BY <3>1, <3>2, <2>3
      <4> QED
        BY <4>1, <2>15, <2>16, <2>4, <3>2
    <3>3. CASE ~(k < i)
      <4>1. ~(k <= i - 1) /\ k - (i - 1) \in 1..(n - i) /\ k - (i - 1) + i = k + 1
        BY <3>1, <3>3, <2>3
      <4> QED
        BY <4>1, <2>15, <2>16, <2>4, <2>5, <3>3
    <3> QED
      BY <3>2, <3>3
  <2>8. DOMAIN w = 1..(n - 1)
    BY <2>6, <2>3
  <2>9. \A k \in 1..(n - 1) : old(k) \in 1..n /\ old(k) # i
    BY <2>3
  <2>10. \A h, k \in 1..(n - 1) : old(h) = old(k) => h = k
    BY <2>3
  <2>11. \A k \in DOMAIN w : Names(attached, w[k]) /\ w[k] # c
    BY <2>7, <2>8, <2>9, <2>1, <1>0 DEF Names, n
  <2>12. \A h, k \in DOMAIN w : w[h] = w[k] => h = k
    BY <2>7, <2>8, <2>9, <2>10, <1>0 DEF n
  <2>13. \A e : Names(attached, e) /\ e # c => Names(w, e)
    <3> SUFFICES ASSUME NEW e, NEW k \in 1..n, attached[k] = e, e # c PROVE Names(w, e)
      BY <1>0 DEF Names, n
    <3>1. k # i /\ k \in Nat
      BY <2>1
    <3>2. CASE k < i
      <4>1. k \in 1..(n - 1) /\ old(k) = k
        BY <3>1, <3>2, <2>3
      <4> QED
        BY <4>1, <2>7, <2>8 DEF Names
    <3>3. CASE k > i
      <4>1. k - 1 \in 1..(n - 1) /\ old(k - 1) = k
        BY <3>1, <3>3, <2>3
      <4> QED
        BY <4>1, <2>7, <2>8 DEF Names
    <3> QED
      BY <3>1, <3>2, <3>3, <2>3
  <2> QED
    BY <2>6, <2>11, <2>12, <2>13 DEF w, n
<1> QED
  BY <1>1, <1>2

-----------------------------------------------------------------------------
(* The steps *)

\* A decision of a named person or the model stays, or column D, a stale NA
\* or the end of the workbook has taken it.
Decided == (/\ saved # Nothing /\ saved.tester = "human"
            /\ saved' = Nothing \/ saved'.tester = "system")
             => ~scoped' \/ file.d \/ saved.status = "NA"

\* A step that writes the row only.
LEMMA RowWritten ==
  ASSUME OverlayInv, RowFits(saved', impls'),
         ScopesOf(impls', attached) \/ impls' \subseteq impls,
         UNCHANGED <<crm, attached, run, outdated>>, pending' \in {pending, Nothing}
  PROVE  OverlayInv'
<1>1. BaselinesFit(crm') /\ OverlaysFit(crm', attached')
  BY DEF OverlayInv
<1>2. outdated \/ ScopesOf(impls', attached)
  BY DEF OverlayInv, ScopesOf
<1>3. outdated' \/ ScopesOf(impls', attached')
  BY <1>2
<1>4. run' # Nothing =>
         /\ ContextFits(run')
         /\ outdated' \/ \A i \in DOMAIN run'.ids : Names(attached', run'.ids[i])
  BY DEF OverlayInv
<1>5. outdated' \in BOOLEAN /\ pending' \in {Nothing} \cup 1..MaxCrm
  BY DEF OverlayInv
<1> QED
  BY <1>1, <1>3, <1>4, <1>5 DEF OverlayInv

LEMMA RowKept ==
  ASSUME UNCHANGED saved
  PROVE  Decided
  BY DEF Decided

LEMMA OpenWorkbookInv ==
  ASSUME OverlayInv, NEW fits, OpenWorkbook(fits)
  PROVE  OverlayInv' /\ Decided
<1> DEFINE r == RuleBackfill(saved, impls, fits)
<1>0. RowFits(saved, impls)
  BY DEF OverlayInv
<1>1. /\ RowFits(r.saved, r.impls)
      /\ r.impls = {} \/ r.impls = impls
      /\ saved # Nothing /\ saved.tester = "human" =>
            r.saved = saved \/ file.d \/ saved.status = "NA"
  BY <1>0, RulesFit
<1> HIDE DEF r
<1>2. \/ saved' = r.saved /\ impls' = r.impls
      \/ saved' = saved /\ impls' = impls
  BY DEF OpenWorkbook, Write, Keep, r
<1>3. RowFits(saved', impls') /\ impls' \subseteq impls
  BY <1>0, <1>1, <1>2
<1>4. UNCHANGED <<crm, attached, run, outdated>> /\ pending' \in {pending, Nothing}
  BY DEF OpenWorkbook
<1>5. OverlayInv'
  BY <1>3, <1>4, RowWritten
<1>6. Decided
  BY <1>1, <1>2 DEF Decided
<1> QED
  BY <1>5, <1>6

LEMMA ContextIsRead ==
  ASSUME OverlayInv
  PROVE  /\ ContextFits(Context) /\ Context.ids = attached
<1>1. attached \in Seq(1..MaxCrm)
  BY DEF OverlayInv, OverlaysFit
<1>2. \A i \in DOMAIN attached : attached[i] \in 1..MaxCrm
  BY <1>1, EntryOfSeq
<1>3. \A i \in DOMAIN attached : crm[attached[i]] \in Content
  BY <1>2, OverlayAssumption DEF OverlayInv, OverlaysFit, BaselinesFit
<1> DEFINE seen == [i \in DOMAIN attached |-> crm[attached[i]]]
<1>4. DOMAIN attached = 1..Len(attached) /\ Len(attached) \in Nat
  BY <1>1
<1>5. seen \in Seq(Content) /\ Len(seen) = Len(attached)
  BY <1>3, <1>4
<1>6. Context.ids = attached /\ Context.seen = seen
  BY DEF Context
<1> HIDE DEF seen
<1> QED
  BY <1>1, <1>5, <1>6 DEF ContextFits

LEMMA AttachBackfillInv ==
  ASSUME OverlayInv, NEW wording, AttachBackfill(wording)
  PROVE  OverlayInv' /\ Decided
<1> DEFINE r == CrmBackfill(Context, saved, impls, wording)
<1>0. RowFits(saved, impls) /\ ContextFits(Context) /\ Context.ids = attached
  BY ContextIsRead DEF OverlayInv
<1>1. /\ RowFits(r.saved, r.impls)
      /\ ScopesOf(r.impls, Context.ids) \/ r.impls = impls
      /\ saved # Nothing /\ saved.tester = "human" => r.saved = saved
  BY <1>0, BackfillFits
<1> HIDE DEF r
<1>2. saved' = r.saved /\ impls' = r.impls
  BY DEF AttachBackfill, Write, r
<1>3. RowFits(saved', impls') /\ (ScopesOf(impls', attached) \/ impls' \subseteq impls)
  BY <1>0, <1>1, <1>2
<1>4. UNCHANGED <<crm, attached, run, outdated>> /\ pending' \in {pending, Nothing}
  BY DEF AttachBackfill
<1>5. OverlayInv'
  BY <1>3, <1>4, RowWritten
<1>6. Decided
  BY <1>1, <1>2 DEF Decided
<1> QED
  BY <1>5, <1>6

LEMMA AttachRowInv ==
  ASSUME OverlayInv, NEW c \in 1..MaxCrm, AttachRow(c)
  PROVE  OverlayInv' /\ Decided
<1>0. /\ attached \in Seq(1..MaxCrm) /\ DOMAIN attached = 1..Len(attached)
      /\ Len(attached) \in Nat
      /\ \A h, i \in DOMAIN attached : attached[h] = attached[i] => h = i
      /\ \A i \in DOMAIN attached : crm[attached[i]] # Nothing
      /\ \A i \in DOMAIN attached : attached[i] # c
  BY DEF OverlayInv, OverlaysFit, AttachRow, Attached
<1>1. /\ attached' = <<c>> \o attached /\ crm[c] # Nothing /\ pending' = c
      /\ UNCHANGED <<crm, saved, impls, run, outdated>>
  BY DEF AttachRow
<1> DEFINE T == 1..MaxCrm
           n == Len(attached)
<1>2. attached \in Seq(T) /\ c \in T /\ n \in Nat
  BY <1>0
<1> HIDE DEF T, n
<1>3. /\ attached' \in Seq(T) /\ Len(attached') = n + 1
      /\ attached'[1] = c
      /\ \A i \in 1..n : attached'[i + 1] = attached[i]
  BY <1>1, <1>2 DEF n
<1>4. DOMAIN attached' = 1..(n + 1)
  BY <1>3, <1>2
<1>5. \A i \in DOMAIN attached' : i = 1 \/ (i - 1 \in 1..n /\ attached'[i] = attached[i - 1])
  <2> SUFFICES ASSUME NEW i \in 1..(n + 1), i # 1
               PROVE  i - 1 \in 1..n /\ attached'[i] = attached[i - 1]
    BY <1>4
  <2>1. i - 1 \in 1..n /\ i - 1 + 1 = i
    BY <1>2
  <2> QED
    BY <2>1, <1>3
<1>6. OverlaysFit(crm', attached')
  <2>1. \A h, i \in DOMAIN attached' : attached'[h] = attached'[i] => h = i
    <3> SUFFICES ASSUME NEW h \in 1..(n + 1), NEW i \in 1..(n + 1),
                        attached'[h] = attached'[i]
                 PROVE  h = i
      BY <1>4
    <3>1. CASE h = 1 \/ i = 1
      BY <3>1, <1>5, <1>4, <1>3, <1>0 DEF n
    <3>2. CASE h # 1 /\ i # 1
      <4>1. h - 1 = i - 1
        BY <3>2, <1>5, <1>4, <1>0 DEF n
      <4> QED
        BY <4>1, <1>2
    <3> QED
      BY <3>1, <3>2
  <2>2. \A i \in DOMAIN attached' : crm'[attached'[i]] # Nothing
    BY <1>5, <1>3, <1>1, <1>0 DEF n
  <2> QED
    BY <2>1, <2>2, <1>3 DEF OverlaysFit, T
<1>7. \A e : Names(attached, e) => Names(attached', e)
  <2> SUFFICES ASSUME NEW i \in 1..n PROVE Names(attached', attached[i])
    BY <1>0 DEF Names, n
  <2>1. i + 1 \in 1..(n + 1) /\ attached'[i + 1] = attached[i]
    BY <1>2, <1>3
  <2> QED
    BY <2>1, <1>4 DEF Names
<1>8. outdated \/ ScopesOf(impls, attached')
  BY <1>7 DEF OverlayInv, ScopesOf
<1>9. run # Nothing => outdated \/ \A i \in DOMAIN run.ids : Names(attached', run.ids[i])
  BY <1>7 DEF OverlayInv
<1>10. RowFits(saved', impls') /\ BaselinesFit(crm') /\ (run # Nothing => ContextFits(run))
       /\ outdated \in BOOLEAN
  BY <1>1 DEF OverlayInv
<1>11. OverlayInv'
  BY <1>1, <1>6, <1>8, <1>9, <1>10 DEF OverlayInv
<1> QED
  BY <1>1, <1>11, RowKept

\* A step that takes an overlay and its contribution away.
LEMMA OverlayTaken ==
  ASSUME OverlayInv, NEW c, Write(Purge(c)), attached' = Without(c), Outdates(c),
         UNCHANGED <<run, pending>>, BaselinesFit(crm'),
         \A e \in 1..MaxCrm : crm[e] # Nothing /\ e # c => crm'[e] # Nothing
  PROVE  OverlayInv' /\ Decided
<1> DEFINE r == Purge(c)
<1>0. RowFits(saved, impls) /\ OverlaysFit(crm, attached) /\ outdated \in BOOLEAN
  BY DEF OverlayInv
<1>1. /\ RowFits(r.saved, r.impls)
      /\ \A i \in r.impls : i \in impls /\ i.from # c
      /\ saved # Nothing /\ saved.tester = "human" =>
            r.saved # Nothing /\ r.saved.tester = saved.tester
  BY <1>0, PurgeFits
<1> HIDE DEF r
<1>2. saved' = r.saved /\ impls' = r.impls
  BY DEF Write, r
<1>3. /\ attached' \in Seq(1..MaxCrm)
      /\ \A h, i \in DOMAIN attached' : attached'[h] = attached'[i] => h = i
      /\ \A i \in DOMAIN attached' : Names(attached, attached'[i]) /\ attached'[i] # c
      /\ \A e : Names(attached, e) /\ e # c => Names(attached', e)
  BY <1>0, WithoutIs
<1>4. OverlaysFit(crm', attached')
  <2>1. \A i \in DOMAIN attached' : attached'[i] \in 1..MaxCrm
    BY <1>3, EntryOfSeq
  <2>2. \A e : Names(attached, e) => crm[e] # Nothing
    BY <1>0 DEF Names, OverlaysFit
  <2>3. \A i \in DOMAIN attached' : crm'[attached'[i]] # Nothing
    BY <2>1, <2>2, <1>3
  <2> QED
    BY <2>3, <1>3 DEF OverlaysFit
<1>5. outdated' \in BOOLEAN /\ (outdated => outdated')
      /\ (outdated' \/ run = Nothing \/ \A i \in DOMAIN run.ids : run.ids[i] # c)
  BY <1>0 DEF Outdates
<1>6. outdated' \/ ScopesOf(impls', attached')
  <2> SUFFICES ASSUME ~outdated', NEW i \in impls'
               PROVE  i.from = Nothing \/ Names(attached', i.from)
    BY DEF ScopesOf
  <2>1. i \in impls /\ i.from # c
    BY <1>1, <1>2
  <2>2. i.from = Nothing \/ Names(attached, i.from)
    BY <2>1, <1>5 DEF OverlayInv, ScopesOf
  <2> QED
    BY <2>1, <2>2, <1>3
<1>7. run' # Nothing =>
         /\ ContextFits(run')
         /\ outdated' \/ \A i \in DOMAIN run'.ids : Names(attached', run'.ids[i])
  <2> SUFFICES ASSUME run # Nothing
               PROVE  /\ ContextFits(run)
                      /\ outdated' \/ \A i \in DOMAIN run.ids : Names(attached', run.ids[i])
    OBVIOUS
  <2>1. ContextFits(run) /\ (outdated \/ \A i \in DOMAIN run.ids : Names(attached, run.ids[i]))
    BY DEF OverlayInv
  <2> QED
    BY <2>1, <1>5, <1>3
<1>8. pending' \in {Nothing} \cup 1..MaxCrm /\ RowFits(saved', impls')
  BY <1>1, <1>2 DEF OverlayInv
<1>9. OverlayInv'
  BY <1>4, <1>5, <1>6, <1>7, <1>8 DEF OverlayInv
<1>10. Decided
  BY <1>1, <1>2 DEF Decided
<1> QED
  BY <1>9, <1>10

\* A step that changes contents of baselines and takes no overlay away.
LEMMA BaselinesWritten ==
  ASSUME OverlayInv, BaselinesFit(crm'),
         \A e \in 1..MaxCrm : Names(attached, e) => crm'[e] # Nothing,
         UNCHANGED <<attached, pending, saved, impls, run, outdated>>
  PROVE  OverlayInv' /\ Decided
<1>1. attached \in Seq(1..MaxCrm)
  BY DEF OverlayInv, OverlaysFit
<1>2. \A i \in DOMAIN attached : attached[i] \in 1..MaxCrm /\ Names(attached, attached[i])
  BY <1>1, EntryOfSeq DEF Names
<1>3. OverlaysFit(crm', attached')
  BY <1>2 DEF OverlayInv, OverlaysFit
<1>4. OverlayInv'
  BY <1>3 DEF OverlayInv
<1> QED
  BY <1>4, RowKept

\* Writing a content to one baseline leaves labels unique if no other one
\* carries its label.
LEMMA ContentWritten ==
  ASSUME NEW baselines, BaselinesFit(baselines), NEW c \in 1..MaxCrm, NEW o \in Contents,
         \A e \in 1..MaxCrm : /\ e # c /\ baselines[e] # Nothing
                              => baselines[e].label # o.label \/ o.label = None
  PROVE  BaselinesFit(WriteContent(baselines, c, o))
<1> DEFINE new == WriteContent(baselines, c, o)
<1>1. new \in [1..MaxCrm -> Contents \cup {Nothing}]
  BY DEF BaselinesFit, WriteContent
<1>2. new[c] = o /\ \A e \in 1..MaxCrm : e # c => new[e] = baselines[e]
  BY DEF BaselinesFit, WriteContent
<1> HIDE DEF new
<1>3. ASSUME NEW e \in 1..MaxCrm, NEW f \in 1..MaxCrm, new[e] # Nothing, new[f] # Nothing,
             new[e].label = new[f].label, new[e].label # None, e # f
      PROVE  FALSE
  <2>1. CASE e = c
    BY <2>1, <1>2, <1>3
  <2>2. CASE f = c
    BY <2>2, <1>2, <1>3
  <2>3. CASE e # c /\ f # c
    BY <2>3, <1>2, <1>3 DEF BaselinesFit
  <2> QED
    BY <2>1, <2>2, <2>3
<1> QED
  BY <1>1, <1>3 DEF BaselinesFit, new

LEMMA DetachInv ==
  ASSUME OverlayInv, NEW c \in 1..MaxCrm, Detach(c)
  PROVE  OverlayInv' /\ Decided
<1>1. BaselinesFit(crm') /\ \A e \in 1..MaxCrm : crm[e] # Nothing => crm'[e] # Nothing
  BY DEF OverlayInv, Detach
<1>2. Write(Purge(c)) /\ attached' = Without(c) /\ Outdates(c) /\ UNCHANGED <<run, pending>>
  BY DEF Detach
<1> QED
  BY <1>1, <1>2, OverlayTaken

LEMMA DeleteBaselineInv ==
  ASSUME OverlayInv, NEW c \in 1..MaxCrm, DeleteBaseline(c)
  PROVE  OverlayInv' /\ Decided
<1>0. crm' = [crm EXCEPT ![c] = Nothing] /\ BaselinesFit(crm)
  BY DEF OverlayInv, DeleteBaseline
<1>1. BaselinesFit(crm') /\ \A e \in 1..MaxCrm : crm[e] # Nothing /\ e # c => crm'[e] # Nothing
  BY <1>0 DEF BaselinesFit
<1>2. Write(Purge(c)) /\ attached' = Without(c) /\ Outdates(c) /\ UNCHANGED <<run, pending>>
  BY DEF DeleteBaseline
<1> QED
  BY <1>1, <1>2, OverlayTaken

LEMMA NextCrmIs ==
  ASSUME NEW rest
  PROVE  NextCrm(rest) \in Nat /\ 1 <= NextCrm(rest)
<1> DEFINE S == {c \in 1..MaxCrm : \E d \in c..MaxCrm : rest[d] # Nothing}
<1>1. IsFiniteSet(1..MaxCrm)
  BY OverlayAssumption, FS_Interval
<1>2. Cardinality(S) \in Nat
  BY <1>1, FS_Subset, FS_CardinalityType
<1>3. NextCrm(rest) = 1 + Cardinality(S)
  BY DEF NextCrm
<1> HIDE DEF S
<1> QED
  BY <1>2, <1>3

\* What is written goes to the baseline of the file and label, or to a new row.
LEMMA TargetIs ==
  ASSUME NEW rest, NEW o, Target(rest, o) <= MaxCrm
  PROVE  /\ Target(rest, o) \in 1..MaxCrm
         /\ \A c \in 1..MaxCrm :
               rest[c] # Nothing /\ rest[c].path = o.path /\ rest[c].label = o.label
               => LET t == Target(rest, o)
                  IN  rest[t] # Nothing /\ rest[t].label = o.label
<1> DEFINE same == {c \in 1..MaxCrm : /\ rest[c] # Nothing
                                      /\ rest[c].path = o.path
                                      /\ rest[c].label = o.label}
<1>1. Target(rest, o) = IF same # {} THEN CHOOSE c \in same : TRUE ELSE NextCrm(rest)
  BY DEF Target
<1>2. CASE same = {}
  <2>1. Target(rest, o) \in 1..MaxCrm
    BY <1>1, <1>2, NextCrmIs, OverlayAssumption
  <2> QED
    BY <1>2, <2>1
<1>3. CASE same # {}
  <2>1. Target(rest, o) \in same
    BY <1>1, <1>3
  <2> QED
    BY <2>1
<1> QED
  BY <1>2, <1>3

LEMMA RefreshBaselineInv ==
  ASSUME OverlayInv, NEW c \in 1..MaxCrm, NEW o \in Contents, RefreshBaseline(c, o)
  PROVE  OverlayInv' /\ Decided
<1> DEFINE n == Target(crm, o)
<1>0. BaselinesFit(crm) /\ OverlaysFit(crm, attached)
  BY DEF OverlayInv
<1>1. crm' = WriteContent(crm, n, o) /\ o.label = None /\ n <= MaxCrm
  BY DEF RefreshBaseline
<1>2. n \in 1..MaxCrm
  BY <1>1, TargetIs
<1> HIDE DEF n
<1>3. BaselinesFit(crm')
  BY <1>0, <1>1, <1>2, ContentWritten
<1>4. \A e \in 1..MaxCrm : Names(attached, e) => crm'[e] # Nothing
  BY <1>0, <1>1, <1>2, OverlayAssumption DEF WriteContent, BaselinesFit, OverlaysFit, Names
<1> QED
  BY <1>3, <1>4, BaselinesWritten DEF RefreshBaseline

LEMMA ImportOverlayInv ==
  ASSUME OverlayInv, NEW o \in Contents, ImportOverlay(o)
  PROVE  OverlayInv' /\ Decided
<1> DEFINE prior == Prior(o)
           rest == [c \in 1..MaxCrm |-> IF c \in prior THEN Nothing ELSE crm[c]]
           n == Target(rest, o)
<1>0. BaselinesFit(crm) /\ OverlaysFit(crm, attached)
  BY DEF OverlayInv
<1>1. /\ n <= MaxCrm
      /\ crm' = WriteContent(rest, n, o)
      /\ UNCHANGED <<pending, run>>
  BY DEF ImportOverlay
<1>2. /\ prior = {} => Write(Keep) /\ UNCHANGED <<attached, outdated>>
      /\ prior # {} => LET c == CHOOSE c \in prior : TRUE
                       IN  Write(Purge(c)) /\ attached' = Without(c) /\ Outdates(c)
  BY DEF ImportOverlay
<1>3. n \in 1..MaxCrm
  BY <1>1, TargetIs
<1>4. /\ prior \subseteq 1..MaxCrm
      /\ \A c \in prior : crm[c] # Nothing /\ crm[c].label = o.label
      /\ \A c \in 1..MaxCrm : crm[c] # Nothing /\ crm[c].label = o.label /\ o.label # None
                              /\ crm[c].path # o.path => c \in prior
      /\ \A c, e \in prior : c = e
  BY <1>0 DEF Prior, BaselinesFit
<1> HIDE DEF prior
<1>5. /\ rest \in [1..MaxCrm -> Contents \cup {Nothing}]
      /\ \A c \in 1..MaxCrm : c \in prior => rest[c] = Nothing
      /\ \A c \in 1..MaxCrm : c \notin prior => rest[c] = crm[c]
  BY <1>0 DEF BaselinesFit
<1>t. \A e \in 1..MaxCrm :
         rest[e] # Nothing /\ rest[e].path = o.path /\ rest[e].label = o.label
         => rest[n] # Nothing /\ rest[n].label = o.label
  BY <1>1, TargetIs
<1> HIDE DEF rest, n
<1>6. BaselinesFit(rest)
  <2>1. \A c \in 1..MaxCrm : rest[c] # Nothing => rest[c] = crm[c]
    BY <1>5
  <2> QED
    BY <2>1, <1>5, <1>0 DEF BaselinesFit
<1>7. \A e \in 1..MaxCrm : /\ e # n /\ rest[e] # Nothing
                           => rest[e].label # o.label \/ o.label = None
  <2> SUFFICES ASSUME NEW e \in 1..MaxCrm, rest[e] # Nothing, rest[e].label = o.label,
                      o.label # None
               PROVE  e = n
    OBVIOUS
  <2>1. rest[e].path = o.path
    BY <1>4, <1>5
  <2>2. rest[n] # Nothing /\ rest[n].label = o.label
    BY <2>1, <1>t
  <2> QED
    BY <2>2, <1>3, <1>6 DEF BaselinesFit
<1>8. BaselinesFit(crm')
  BY <1>1, <1>3, <1>6, <1>7, ContentWritten
<1>9. \A e \in 1..MaxCrm : crm[e] # Nothing /\ e \notin prior => crm'[e] # Nothing
  BY <1>1, <1>3, <1>5, OverlayAssumption DEF WriteContent
<1>10. CASE prior = {}
  <2>1. saved' = saved /\ impls' = impls /\ UNCHANGED <<attached, outdated>>
    BY <1>10, <1>2 DEF Write, Keep
  <2>2. \A e \in 1..MaxCrm : Names(attached, e) => crm'[e] # Nothing
    BY <1>9, <1>10, <1>0 DEF OverlaysFit, Names
  <2> QED
    BY <2>1, <2>2, <1>1, <1>8, BaselinesWritten
<1>11. CASE prior # {}
  <2>1. PICK c \in prior : Write(Purge(c)) /\ attached' = Without(c) /\ Outdates(c)
    BY <1>11, <1>2
  <2>2. \A e \in 1..MaxCrm : crm[e] # Nothing /\ e # c => crm'[e] # Nothing
    BY <1>9, <1>4, <2>1
  <2> QED
    BY <2>1, <2>2, <1>1, <1>8, OverlayTaken
<1> QED
  BY <1>10, <1>11

LEMMA DeleteWorkbookInv ==
  ASSUME OverlayInv, DeleteWorkbook
  PROVE  OverlayInv' /\ Decided
<1>1. /\ saved' = Nothing /\ impls' = {} /\ attached' = <<>> /\ scoped' = FALSE
      /\ run' = Nothing /\ outdated' = FALSE /\ UNCHANGED <<crm, pending>>
  BY RemovedIs DEF DeleteWorkbook, Write
<1>2. OverlaysFit(crm', attached') /\ ScopesOf(impls', attached')
  BY <1>1 DEF OverlaysFit, ScopesOf
<1>3. OverlayInv'
  BY <1>1, <1>2, EmptyRowFits DEF OverlayInv
<1>4. Decided
  BY <1>1 DEF Decided
<1> QED
  BY <1>3, <1>4

LEMMA ReadForRunInv ==
  ASSUME OverlayInv, ReadForRun
  PROVE  OverlayInv' /\ Decided
<1>1. /\ run' = Context /\ UNCHANGED <<crm, attached, pending, saved, impls>>
      /\ outdated' = (outdated /\ impls # {})
  BY DEF ReadForRun
<1>2. ContextFits(run') /\ run'.ids = attached
  BY <1>1, ContextIsRead
<1>3. \A i \in DOMAIN run'.ids : Names(attached', run'.ids[i])
  BY <1>1, <1>2 DEF Names
<1>4. outdated' \/ ScopesOf(impls', attached')
  BY <1>1 DEF OverlayInv, ScopesOf
<1>5. outdated' \in BOOLEAN
  BY <1>1 DEF OverlayInv
<1>6. BaselinesFit(crm') /\ OverlaysFit(crm', attached') /\ RowFits(saved', impls')
      /\ pending' \in {Nothing} \cup 1..MaxCrm
  BY <1>1 DEF OverlayInv
<1>7. OverlayInv'
  BY <1>2, <1>3, <1>4, <1>5, <1>6 DEF OverlayInv
<1> QED
  BY <1>1, <1>7, RowKept

\* What a run may decide: a status or none, and forced scopes with a status.
LEMMA OutcomesAre ==
  ASSUME NEW ctx, NEW o \in Outcomes(ctx)
  PROVE  /\ o[1].status \in Statuses \cup {None}
         /\ \A l \in DOMAIN o[1].forced : o[1].forced[l] \in Statuses
         /\ o[2] \in {"crm", "8a", "8b", "llm", "abstain"}
<1>1. Decision("NA", <<>>, <<>>).status = "NA" /\ Decision("NA", <<>>, <<>>).forced = <<>>
  BY DEF Decision
<1>2. Decision("C", <<>>, <<>>).status = "C" /\ Decision("C", <<>>, <<>>).forced = <<>>
  BY DEF Decision
<1>3. \A verdict, told : /\ Decision(verdict, told, <<>>).status = verdict
                        /\ Decision(verdict, told, <<>>).forced = <<>>
  BY DEF Decision
<1>4. DOMAIN <<>> = {}
  OBVIOUS
<1>5. \/ o = <<Decision("NA", <<>>, <<>>), "8b">>
      \/ o = <<Decision("C", <<>>, <<>>), "8a">>
      \/ \E verdict \in {"C", "NC", None}, told \in {<<>>, [l \in {OnPrem} |-> "C"]} :
            o = <<Decision(verdict, told, <<>>), IF verdict = None THEN "abstain" ELSE "llm">>
      \/ o = <<CrmDecision(ctx), "crm">>
  BY DEF Outcomes
<1>6. CASE o = <<Decision("NA", <<>>, <<>>), "8b">>
  BY <1>6, <1>1, <1>4 DEF Statuses
<1>7. CASE o = <<Decision("C", <<>>, <<>>), "8a">>
  BY <1>7, <1>2, <1>4 DEF Statuses
<1>8. ASSUME NEW verdict \in {"C", "NC", None}, NEW told,
             o = <<Decision(verdict, told, <<>>), IF verdict = None THEN "abstain" ELSE "llm">>
      PROVE  /\ o[1].status \in Statuses \cup {None}
             /\ \A l \in DOMAIN o[1].forced : o[1].forced[l] \in Statuses
             /\ o[2] \in {"crm", "8a", "8b", "llm", "abstain"}
  <2>1. o[1] = Decision(verdict, told, <<>>) /\ o[2] \in {"abstain", "llm"}
    BY <1>8
  <2>2. o[1].status = verdict /\ o[1].forced = <<>>
    BY <2>1, <1>3
  <2> QED
    BY <2>1, <2>2, <1>4 DEF Statuses
<1>9. CASE o = <<CrmDecision(ctx), "crm">>
  <2>1. o[1] = CrmDecision(ctx) /\ o[2] = "crm"
    BY <1>9
  <2> QED
    BY <2>1, CrmDecides DEF Statuses
<1> QED
  BY <1>5, <1>6, <1>7, <1>8, <1>9

LEMMA SaveRunInv ==
  ASSUME OverlayInv, NEW o, SaveRun(o)
  PROVE  OverlayInv' /\ Decided
<1> DEFINE d == o[1]
           verdict == IF d.status = None THEN "NC" ELSE d.status
           how == IF d.status = None THEN "abstain" ELSE "run"
           record == RowOf(verdict, o[2], "human", TRUE, how)
           old == IF saved = Nothing THEN {} ELSE impls
           r == Persisted(run, d, old, record)
<1>0. /\ run # Nothing /\ o \in Outcomes(run) /\ ContextFits(run)
      /\ outdated \/ \A i \in DOMAIN run.ids : Names(attached, run.ids[i])
      /\ RowFits(saved, impls)
  BY DEF SaveRun, OverlayInv
<1>1. /\ d.status \in Statuses \cup {None}
      /\ \A l \in DOMAIN d.forced : d.forced[l] \in Statuses
      /\ o[2] \in {"crm", "8a", "8b", "llm", "abstain"}
  BY <1>0, OutcomesAre
<1>2. /\ saved' = r.saved /\ impls' = r.impls /\ run' = Nothing
      /\ UNCHANGED <<crm, attached, pending, outdated>>
  BY DEF SaveRun, Write
<1>3. record \in AssessmentRow /\ record.tester = "human"
      /\ (d.status = None => record.how = "abstain")
  <2>1. verdict \in Statuses /\ how \in {"run", "abstain"}
        /\ (d.status = None => how = "abstain")
    BY <1>1 DEF Statuses
  <2> HIDE DEF verdict, how
  <2>2. record = [status |-> verdict, source |-> o[2], tester |-> "human", review |-> TRUE,
                  how |-> how]
    BY DEF RowOf
  <2> HIDE DEF record
  <2> QED
    BY <1>1, <2>1, <2>2 DEF AssessmentRow, Testers
<1>4. IsFiniteSet(old) /\ (\A i \in old : ScopeFits(i)) /\ old \subseteq impls
  BY <1>0, FS_EmptySet DEF RowFits
<1> HIDE DEF d, record, old
<1>5. /\ RowFits(r.saved, r.impls)
      /\ r.saved \in AssessmentRow /\ r.saved.tester = "human"
      /\ r.impls = IF PlansOf(run, d) = {} THEN old ELSE PlansOf(run, d)
  BY <1>0, <1>1, <1>3, <1>4, PersistedFits DEF d
<1>6. ScopesOf(PlansOf(run, d), run.ids)
  BY <1>0, PlansOfContext
<1> HIDE DEF r
<1>7. outdated \/ ScopesOf(impls', attached)
  <2> SUFFICES ASSUME ~outdated, NEW i \in impls'
               PROVE  i.from = Nothing \/ Names(attached, i.from)
    BY DEF ScopesOf
  <2>1. CASE i \in impls
    BY <2>1 DEF OverlayInv, ScopesOf
  <2>2. CASE i \in PlansOf(run, d)
    <3>1. i.from = Nothing \/ \E k \in DOMAIN run.ids : run.ids[k] = i.from
      BY <2>2, <1>6 DEF ScopesOf, Names
    <3> QED
      BY <3>1, <1>0
  <2> QED
    BY <2>1, <2>2, <1>2, <1>4, <1>5
<1>8. RowFits(saved', impls') /\ (outdated' \/ ScopesOf(impls', attached'))
  BY <1>2, <1>5, <1>7
<1>9. BaselinesFit(crm') /\ OverlaysFit(crm', attached') /\ outdated' \in BOOLEAN
      /\ pending' \in {Nothing} \cup 1..MaxCrm
  BY <1>2 DEF OverlayInv
<1>10. OverlayInv'
  BY <1>2, <1>8, <1>9 DEF OverlayInv
<1>11. Decided
  BY <1>2, <1>5, OverlayAssumption DEF Decided
<1> QED
  BY <1>10, <1>11

LEMMA RunFailsInv ==
  ASSUME OverlayInv, NEW o, RunFails(o)
  PROVE  OverlayInv' /\ Decided
<1>1. /\ UNCHANGED <<crm, attached, pending, saved, impls>> /\ run' = Nothing
      /\ outdated' = (outdated /\ impls # {})
  BY DEF RunFails
<1>2. outdated' \/ ScopesOf(impls', attached')
  BY <1>1 DEF OverlayInv, ScopesOf
<1>3. outdated' \in BOOLEAN
  BY <1>1 DEF OverlayInv
<1>4. BaselinesFit(crm') /\ OverlaysFit(crm', attached') /\ RowFits(saved', impls')
      /\ pending' \in {Nothing} \cup 1..MaxCrm
  BY <1>1 DEF OverlayInv
<1>5. OverlayInv'
  BY <1>1, <1>2, <1>3, <1>4 DEF OverlayInv
<1> QED
  BY <1>1, <1>5, RowKept

\* An edit changes the statuses of scopes and nothing else of them.
LEMMA EditedFit ==
  ASSUME IsFiniteSet(impls), \A i \in impls : ScopeFits(i), NEW verdict
  PROVE  /\ IsFiniteSet(Edited(verdict))
         /\ \A e \in Edited(verdict) : ScopeFits(e) /\ \E i \in impls : e.from = i.from
         /\ Edited(verdict) = {} <=> impls = {}
<1> DEFINE new(i) == IF \E f \in form : f.id = i.id THEN [i EXCEPT !.status = verdict] ELSE i
           E == Edited(verdict)
<1>1. E = {new(i) : i \in impls}
  BY DEF Edited
<1>2. ASSUME NEW i \in impls
      PROVE  ScopeFits(new(i)) /\ new(i).from = i.from
  <2> DEFINE e == [i EXCEPT !.status = verdict]
  <2>1. i = [id |-> i.id, label |-> i.label, status |-> i.status, from |-> i.from]
        /\ i.label \in ScopeLabels /\ i.from \in {Nothing} \cup 1..MaxCrm
    BY DEF ScopeFits
  <2>2. e = [id |-> i.id, label |-> i.label, status |-> verdict, from |-> i.from]
    BY <2>1
  <2>3. e.id = i.id /\ e.label = i.label /\ e.status = verdict /\ e.from = i.from
    BY <2>2
  <2> HIDE DEF e
  <2>4. ScopeFits(e) /\ e.from = i.from
    BY <2>1, <2>2, <2>3 DEF ScopeFits
  <2>5. new(i) = e \/ new(i) = i
    BY DEF e
  <2> QED
    BY <2>4, <2>5
<1>3. IsFiniteSet(E)
  <2> DEFINE f == [i \in impls |-> new(i)]
  <2>1. f \in Surjection(impls, E)
    BY <1>1 DEF Surjection
  <2> QED
    BY <2>1, FS_Surjection
<1> HIDE DEF new
<1>4. \A e \in E : ScopeFits(e) /\ \E i \in impls : e.from = i.from
  BY <1>1, <1>2
<1>5. E = {} <=> impls = {}
  BY <1>1
<1> QED
  BY <1>3, <1>4, <1>5

LEMMA ReviewerSavesInv ==
  ASSUME OverlayInv, NEW verdict \in {"C", "NC"}, NEW tester \in Testers,
         ReviewerSaves(verdict, tester)
  PROVE  OverlayInv' /\ Decided
<1> DEFINE edited == IF form = {} THEN impls ELSE Edited(verdict)
           rolled == ComputeRollupStatus(edited)
           source == IF saved = Nothing THEN None ELSE saved.source
           how == IF impls = {} THEN "edit" ELSE "blind"
           whole == RowOf(verdict, source, tester, FALSE, how)
           Goal == /\ RowFits(saved', impls') /\ saved' \in AssessmentRow
                   /\ saved'.tester = tester
                   /\ impls' = {} \/ impls' = edited
<1>0. RowFits(saved, impls) /\ UNCHANGED <<crm, attached, pending, run, outdated>>
  BY DEF OverlayInv, ReviewerSaves
<1>1. source \in {"crm", "8a", "8b", "llm", "abstain", None}
  BY <1>0 DEF RowFits, AssessmentRow
<1>2. /\ IsFiniteSet(edited) /\ \A e \in edited : ScopeFits(e)
      /\ \A e \in edited : \E i \in impls : e.from = i.from
      /\ form = {} => edited = impls
      /\ edited = {} <=> impls = {}
  BY <1>0, EditedFit DEF RowFits
<1>3. rolled \in Statuses \cup {None}
  BY OverlayRollup
<1>4. whole = [status |-> verdict, source |-> source, tester |-> tester, review |-> FALSE,
               how |-> how]
  BY DEF RowOf
<1>5. \/ /\ saved' = RowOf("NA", "8b", tester, FALSE, "edit") /\ impls' = {}
      \/ /\ saved' = IF form = {} \/ rolled = None THEN whole
                     ELSE [whole EXCEPT !.status = rolled, !.how = "edit"]
         /\ impls' = edited
  BY DEF ReviewerSaves, Write
<1> HIDE DEF edited, rolled, source, how, whole
<1>6. how \in {"edit", "blind"} /\ (impls # {} => how = "blind")
  BY DEF how
<1>7. ASSUME saved' = RowOf("NA", "8b", tester, FALSE, "edit"), impls' = {} PROVE Goal
  <2>1. saved' = [status |-> "NA", source |-> "8b", tester |-> tester, review |-> FALSE,
                  how |-> "edit"]
    BY <1>7 DEF RowOf
  <2>2. saved' \in AssessmentRow /\ saved'.tester = tester
    BY <2>1 DEF AssessmentRow, Statuses
  <2> QED
    BY <2>2, <1>7, EmptyRowFits DEF ScopesOf
<1>8. ASSUME saved' = whole, impls' = edited, form = {} \/ rolled = None PROVE Goal
  <2>1. saved' \in AssessmentRow /\ saved'.tester = tester /\ saved'.how = how
    BY <1>8, <1>4, <1>1, <1>6 DEF AssessmentRow, Statuses
  <2>2. edited = {} \/ rolled = None \/ saved'.how = "blind"
    BY <2>1, <1>8, <1>2, <1>6
  <2>3. RowFits(saved', edited)
    BY <2>1, <2>2, <1>2, OverlayAssumption DEF RowFits, rolled
  <2> QED
    BY <2>1, <2>3, <1>8
<1>9. ASSUME saved' = [whole EXCEPT !.status = rolled, !.how = "edit"],
             impls' = edited, rolled # None
      PROVE  Goal
  <2>1. saved' = [status |-> rolled, source |-> source, tester |-> tester, review |-> FALSE,
                  how |-> "edit"]
    BY <1>9, <1>4
  <2>2. saved' \in AssessmentRow /\ saved'.tester = tester /\ saved'.status = rolled
    BY <2>1, <1>9, <1>1, <1>3 DEF AssessmentRow
  <2>3. RowFits(saved', edited)
    BY <2>2, <1>2, OverlayAssumption DEF RowFits, rolled
  <2> QED
    BY <2>2, <2>3, <1>9
<1>10. Goal
  <2>1. CASE form = {} \/ rolled = None
    BY <2>1, <1>5, <1>7, <1>8
  <2>2. CASE ~(form = {} \/ rolled = None)
    BY <2>2, <1>5, <1>7, <1>9
  <2> QED
    BY <2>1, <2>2
<1>11. outdated' \/ ScopesOf(impls', attached')
  BY <1>0, <1>2, <1>10 DEF OverlayInv, ScopesOf
<1>12. OverlayInv'
  BY <1>0, <1>10, <1>11 DEF OverlayInv
<1>13. Decided
  BY <1>10, OverlayAssumption DEF Decided, Testers
<1> QED
  BY <1>12, <1>13

\* Steps that touch neither the overlays nor the row.
LEMMA BesideTheRow ==
  ASSUME OverlayInv, UNCHANGED <<crm, attached, saved, impls, run, outdated>>,
         pending' \in {pending, Nothing}
  PROVE  OverlayInv' /\ Decided
<1>1. OverlayInv'
  BY DEF OverlayInv
<1> QED
  BY <1>1, RowKept

LEMMA OverlayStep ==
  ASSUME OverlayInv, OverlayNext
  PROVE  OverlayInv' /\ Decided
<1>1. ASSUME NEW fits \in BOOLEAN, OpenWorkbook(fits) PROVE OverlayInv' /\ Decided
  BY <1>1, OpenWorkbookInv
<1>2. ASSUME NEW f \in Files, EditFile(f) PROVE OverlayInv' /\ Decided
  BY <1>2, BesideTheRow DEF EditFile
<1>3. ASSUME NEW c \in 1..MaxCrm, AttachRow(c) \/ Detach(c) \/ DeleteBaseline(c)
      PROVE  OverlayInv' /\ Decided
  BY <1>3, AttachRowInv, DetachInv, DeleteBaselineInv
<1>4. ASSUME NEW w \in {"fits", "clash"}, AttachBackfill(w) PROVE OverlayInv' /\ Decided
  BY <1>4, AttachBackfillInv
<1>5. CASE AttachFails
  BY <1>5, BesideTheRow DEF AttachFails
<1>6. ASSUME NEW c \in 1..MaxCrm, NEW o \in Contents, RefreshBaseline(c, o)
      PROVE  OverlayInv' /\ Decided
  BY <1>6, RefreshBaselineInv
<1>7. ASSUME NEW o \in Contents, ImportOverlay(o) PROVE OverlayInv' /\ Decided
  BY <1>7, ImportOverlayInv
<1>8. CASE DeleteWorkbook
  BY <1>8, DeleteWorkbookInv
<1>9. CASE ReadForRun
  BY <1>9, ReadForRunInv
<1>10. ASSUME NEW o \in Outcomes(run), SaveRun(o) \/ RunFails(o)
       PROVE  OverlayInv' /\ Decided
  BY <1>10, SaveRunInv, RunFailsInv
<1>11. CASE LoadForm
  BY <1>11, BesideTheRow DEF LoadForm
<1>12. ASSUME NEW verdict \in {"C", "NC"}, NEW t \in Testers, ReviewerSaves(verdict, t)
       PROVE  OverlayInv' /\ Decided
  BY <1>12, ReviewerSavesInv
<1>13. CASE OtherRow
  BY <1>13, BesideTheRow DEF OtherRow
<1> QED
  BY <1>1, <1>2, <1>3, <1>4, <1>5, <1>6, <1>7, <1>8, <1>9, <1>10, <1>11, <1>12, <1>13
     DEF OverlayNext

LEMMA OverlayStart == OverlayInit => OverlayInv
<1> SUFFICES ASSUME OverlayInit PROVE OverlayInv
  OBVIOUS
<1>1. BaselinesFit(crm)
  BY DEF OverlayInit, BaselinesFit
<1>2. OverlaysFit(crm, attached) /\ ScopesOf(impls, attached)
  BY DEF OverlayInit, OverlaysFit, ScopesOf
<1> QED
  BY <1>1, <1>2, EmptyRowFits DEF OverlayInit, OverlayInv

LEMMA OverlayInvIsSafe ==
  ASSUME OverlayInv
  PROVE  OverlayTypeOK /\ ScopesAreAttached /\ RowIsItsRollup /\ BackfillIsIdempotent
<1>1. OverlayTypeOK
  BY DEF OverlayInv, OverlayTypeOK, BaselinesFit, OverlaysFit, RowFits, ScopeFits
<1>2. ScopesAreAttached
  BY DEF OverlayInv, ScopesAreAttached, ScopesOf, Names, Attached
<1>3. RowIsItsRollup
  BY DEF OverlayInv, RowIsItsRollup, RowFits
<1>4. BackfillIsIdempotent
  <2>1. RowFits(saved, impls) /\ ContextFits(Context)
    BY ContextIsRead DEF OverlayInv
  <2>2. \A w : w # "clash" =>
           LET once == CrmBackfill(Context, saved, impls, w)
           IN  CrmBackfill(Context, once.saved, once.impls, w) = once
    BY <2>1, BackfillTwice
  <2> QED
    BY <2>2 DEF BackfillIsIdempotent
<1> QED
  BY <1>1, <1>2, <1>3, <1>4

\* The row under the overlays is safe in every behaviour, for all contents of
\* CRM files, rows of the workbook file and any number of baselines and steps
\* (crm_backfill.py): its scopes speak for attached overlays, it says what
\* they add up to, a backfill done again changes nothing, and what happens to
\* overlays never takes a decision of a named person or the model away.
THEOREM OverlaysAreSafe == OverlaySpec => OverlaySafe
<1>1. OverlayInv /\ [OverlayNext]_overlayVars => OverlayInv' /\ [Decided]_overlayVars
  <2> SUFFICES ASSUME OverlayInv, [OverlayNext]_overlayVars
               PROVE  OverlayInv' /\ [Decided]_overlayVars
    OBVIOUS
  <2>1. CASE OverlayNext
    BY <2>1, OverlayStep
  <2>2. CASE UNCHANGED overlayVars
    BY <2>2, BesideTheRow DEF overlayVars
  <2> QED
    BY <2>1, <2>2
<1>2. OverlaySpec => []OverlayInv
  BY <1>1, OverlayStart, PTL DEF OverlaySpec
<1>3. OverlaySpec => [][Decided]_overlayVars
  BY <1>1, <1>2, PTL DEF OverlaySpec
<1>4. DecidedRowsStay <=> [][Decided]_overlayVars
  BY PTL DEF DecidedRowsStay, Decided
<1> QED
  BY <1>2, <1>3, <1>4, OverlayInvIsSafe, PTL DEF OverlaySafe

=============================================================================
