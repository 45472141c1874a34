------------------------------ MODULE Scheduler ------------------------------
(***************************************************************************)
(* The automation scheduler (evidence/scheduler.py, routes/automation.py)  *)
(* over the ingest registry (IngestJobs).                                  *)
(*                                                                         *)
(* One daemon thread wakes every tick, lists the schedules that are due,   *)
(* and fires them one after another: check the registry, build the         *)
(* sources, run one pull per source and poll it to its end, chain an       *)
(* assessment, and write next_run_at back.  Users edit the schedules and   *)
(* start ingests of their own meanwhile, and the process may be restarted. *)
(***************************************************************************)
EXTENDS Naturals, Sequences, FiniteSets

CONSTANTS Schedules,
          OnDisk,      \* the schedules that exist when the process first starts
          Pulls,       \* job ids of the scheduler's pulls, used again when over
          Manual,      \* ingest jobs that users start
          Uploads, NoId,
          Sources,     \* how many connectors each schedule pulls from
          MaxEdits,    \* bound: edits of schedules and restarts
          NoRow

ASSUME SchedulerAssumption == /\ Pulls \cap Manual = {}
                              /\ (Pulls \cup Manual) \cap Uploads = {}
                              /\ NoId \notin Pulls \cup Manual \cup Uploads
                              /\ IsFiniteSet(Schedules)
                              /\ OnDisk \subseteq Schedules
                              /\ Sources \in [Schedules -> Nat]
                              /\ MaxEdits \in Nat

VARIABLES status, active, ingestLock, pc,  \* the registry
          row,       \* AutomationSchedule rows
          loop,      \* where the tick thread stands; "off" if it was not started
          queue,     \* due schedules left in this tick; the head is being fired
          fire,      \* the locals of _fire_schedule
          automation, \* cfg.automation_enabled
          edits,
          touched,   \* history: schedules edited since the tick listed them
          late       \* history: running pulls that were given up after two hours

registryVars == <<status, active, ingestLock, pc>>
tickVars == <<loop, queue, fire>>
vars == <<registryVars, row, tickVars, automation, edits, touched, late>>

Registry == INSTANCE IngestJobs WITH Jobs <- Pulls \cup Manual

\* next_run_at is past, one tick away, or an interval (or more) away.
Row  == [enabled : BOOLEAN, next : {"due", "soon", "later"}]
Fire == [pending : {0} \cup UNION {0..Sources[s] : s \in Schedules}, job : Pulls \cup {NoId},
         anyOk : BOOLEAN]

ASSUME NoRowAssumption == NoRow \notin Row

NewRow(enabled) == [enabled |-> enabled, next |-> IF enabled THEN "due" ELSE "later"]

NoFire == [pending |-> 0, job |-> NoId, anyOk |-> FALSE]

Labels == {"off", "sleep", "load", "check", "build", "start", "poll", "chain", "patch"}

(* The types of the schedules, of the tick thread and of the registry.     *)
TypeOK == /\ Registry!TypeOK
          /\ row \in [Schedules -> Row \cup {NoRow}]
          /\ loop \in Labels
          /\ queue \in Seq(Schedules)
          /\ fire \in Fire
          /\ automation \in BOOLEAN
          /\ edits \in 0..MaxEdits
          /\ touched \subseteq Schedules
          /\ late \subseteq Pulls

Boot == /\ loop' = IF automation THEN "sleep" ELSE "off"
        /\ queue' = <<>>
        /\ fire' = NoFire
        /\ touched' = {}
        /\ late' = {}

Init == /\ Registry!Init
        /\ row = [s \in Schedules |-> IF s \in OnDisk THEN NewRow(TRUE) ELSE NoRow]
        /\ automation \in BOOLEAN
        /\ loop = IF automation THEN "sleep" ELSE "off"
        /\ queue = <<>>
        /\ fire = NoFire
        /\ edits = 0
        /\ touched = {}
        /\ late = {}

-----------------------------------------------------------------------------
(* _tick_loop *)

Orders(S) == {q \in [1..Cardinality(S) -> S] : \A i, j \in DOMAIN q : q[i] = q[j] => i = j}

Due == {s \in Schedules : row[s] # NoRow /\ row[s].enabled /\ row[s].next = "due"}

\* Mutant: a tick fires one of the due schedules.
WakeForOne ==
    /\ loop = "sleep"
    /\ automation
    /\ \E s \in Due : queue' = <<s>>
    /\ loop' = "load"
    /\ UNCHANGED <<registryVars, row, fire, automation, edits, touched, late>>

Wake == /\ loop = "sleep"
        /\ automation
        /\ Due # {}
        /\ queue' \in Orders(Due)
        /\ loop' = "load"
        /\ UNCHANGED <<registryVars, row, fire, automation, edits, touched, late>>

Current == Head(queue)
Present == row[Current] # NoRow

SetNext(s, next) == row' = IF row[s] = NoRow THEN row
                           ELSE [row EXCEPT ![s].next = next]

\* After the last due schedule the thread sleeps until the next tick.
NextSchedule ==
    /\ queue' = Tail(queue)
    /\ fire' = NoFire
    /\ IF Tail(queue) = <<>> THEN loop' = "sleep" /\ touched' = {}
       ELSE loop' = "load" /\ UNCHANGED touched

-----------------------------------------------------------------------------
(* _fire_schedule *)

\* Mutant: the next run is booked before this one has happened.
LoadAndBook ==
    /\ loop = "load"
    /\ SetNext(Current, "later")
    /\ loop' = "check"
    /\ UNCHANGED <<registryVars, queue, fire, automation, edits, touched, late>>

\* enabled and next_run_at are not looked at again.
Load ==
    /\ loop = "load"
    /\ \/ ~Present /\ NextSchedule
       \/ Present /\ loop' = "check" /\ UNCHANGED <<queue, fire, touched>>
    /\ UNCHANGED <<registryVars, row, automation, edits, late>>

CheckRegistry ==
    /\ loop = "check"
    /\ \/ /\ Registry!BatchRunning
          /\ SetNext(Current, "soon")
          /\ NextSchedule
       \/ /\ ~Registry!BatchRunning
          /\ loop' = "build"
          /\ UNCHANGED <<row, queue, fire, touched>>
    /\ UNCHANGED <<registryVars, automation, edits, late>>

\* Mutant: one source more than the schedule has.
BuildOneMore ==
    /\ loop = "build"
    /\ \E n \in 0..Sources[Current] + 1 :
          /\ fire' = [fire EXCEPT !.pending = n]
          /\ loop' = IF n = 0 THEN "patch" ELSE "start"
    /\ UNCHANGED <<registryVars, row, queue, automation, edits, touched, late>>

BuildSources ==
    /\ loop = "build"
    /\ \E n \in 0..Sources[Current] :
          /\ fire' = [fire EXCEPT !.pending = n]
          /\ loop' = IF n = 0 THEN "patch" ELSE "start"
    /\ UNCHANGED <<registryVars, row, queue, automation, edits, touched, late>>

\* A uuid4 that no live pull has.
FreshId == LET free == {j \in Pulls : pc[j] \in {"new", "over"}}
           IN IF free = {} THEN NoId ELSE CHOOSE j \in free : TRUE

StartPull(j) ==
    /\ loop = "start"
    /\ fire.pending > 0
    /\ ~Registry!BatchRunning
    /\ j = FreshId
    /\ Registry!Register(j)
    /\ loop' = "poll"
    /\ fire' = [fire EXCEPT !.job = j]
    /\ UNCHANGED <<ingestLock, row, queue, automation, edits, touched, late>>

\* One source is through; a refused or failed pull leaves any_ok as it was.
Outcome(ok) == fire' = [fire EXCEPT !.pending = @ - 1, !.job = NoId, !.anyOk = @ \/ ok]

\* start_ingest_job raised: the source counts as failed.
PullRefused ==
    /\ loop = "start"
    /\ fire.pending > 0
    /\ Registry!BatchRunning
    /\ Outcome(FALSE)
    /\ UNCHANGED <<registryVars, row, loop, queue, automation, edits, touched, late>>

PollPull ==
    /\ loop = "poll"
    /\ \/ /\ status[fire.job] # "running"
          /\ Outcome(status[fire.job] # "error")
          /\ UNCHANGED late
       \/ /\ status[fire.job] = "running"         \* two hours are over
          /\ Outcome(FALSE)
          /\ late' = late \cup {fire.job}
    /\ loop' = "start"
    /\ UNCHANGED <<registryVars, row, queue, automation, edits, touched>>

\* An assessment is chained if the row asks for one and a pull succeeded.
EndPulls ==
    /\ loop = "start"
    /\ fire.pending = 0
    /\ loop' \in IF fire.anyOk THEN {"chain", "patch"} ELSE {"patch"}
    /\ UNCHANGED <<registryVars, row, queue, fire, automation, edits, touched, late>>

\* _run_assess_chain: whatever happens to the request, the fire goes on.
RunChain ==
    /\ loop = "chain"
    /\ loop' = "patch"
    /\ UNCHANGED <<registryVars, row, queue, fire, automation, edits, touched, late>>

Patch ==
    /\ loop = "patch"
    /\ SetNext(Current, "later")
    /\ NextSchedule
    /\ UNCHANGED <<registryVars, automation, edits, late>>

-----------------------------------------------------------------------------
(* Time, users and restarts *)

TimePasses(s) ==
    /\ row[s] # NoRow
    /\ row[s].enabled
    /\ row[s].next \in {"soon", "later"}
    /\ SetNext(s, "due")
    /\ UNCHANGED <<registryVars, tickVars, automation, edits, touched, late>>

Edit(s) == /\ edits < MaxEdits
           /\ edits' = edits + 1
           /\ touched' = IF loop \in {"off", "sleep"} THEN {} ELSE touched \cup {s}
           /\ UNCHANGED <<registryVars, tickVars, automation, late>>

Create(s) ==
    /\ row[s] = NoRow
    /\ \E enabled \in BOOLEAN : row' = [row EXCEPT ![s] = NewRow(enabled)]
    /\ Edit(s)

Delete(s) ==
    /\ row[s] # NoRow
    /\ row' = [row EXCEPT ![s] = NoRow]
    /\ Edit(s)

RunNow(s) ==
    /\ row[s] # NoRow
    /\ SetNext(s, "due")
    /\ Edit(s)

SetEnabled(s) ==
    /\ row[s] # NoRow
    /\ row' = [row EXCEPT ![s] = NewRow(~@.enabled)]
    /\ Edit(s)

\* last_run_at + the new interval may be in the past.
SetInterval(s) ==
    /\ row[s] # NoRow
    /\ \E next \in {"due", "later"} :
          /\ ~row[s].enabled => next = "later"
          /\ SetNext(s, next)
    /\ Edit(s)

SetAutomation ==
    /\ edits < MaxEdits
    /\ edits' = edits + 1
    /\ automation' = ~automation
    /\ UNCHANGED <<registryVars, row, tickVars, touched, late>>

\* The sidecar dies with its threads and its registry; the rows are on disk.
Restart ==
    /\ edits < MaxEdits
    /\ edits' = edits + 1
    /\ status' = [j \in Pulls \cup Manual |-> "absent"]
    /\ active' = NoId
    /\ ingestLock' = NoId
    /\ pc' = [t \in Pulls \cup Manual \cup Uploads |->
                IF t \in Pulls THEN "new" ELSE IF pc[t] = "new" THEN "new" ELSE "over"]
    /\ Boot
    /\ UNCHANGED <<row, automation>>

-----------------------------------------------------------------------------
others == <<row, tickVars, automation, edits, touched, late>>

Tick == \/ Wake \/ Load \/ CheckRegistry \/ BuildSources
        \/ PullRefused \/ PollPull \/ EndPulls \/ RunChain \/ Patch
        \/ \E j \in Pulls : StartPull(j)

JobStep(j) == /\ Registry!JobStep(j)
              /\ late' = IF status'[j] = "running" THEN late ELSE late \ {j}
              /\ UNCHANGED <<row, tickVars, automation, edits, touched>>

UploadStep(u) == Registry!UploadStep(u) /\ UNCHANGED others

UserIngest == /\ \/ \E j \in Manual : Registry!StartJob(j)
                 \/ \E u \in Uploads : Registry!CheckClaim(u)
              /\ UNCHANGED others

UserEdit == \/ \E s \in Schedules : \/ Create(s) \/ Delete(s) \/ RunNow(s)
                                    \/ SetEnabled(s) \/ SetInterval(s)
            \/ SetAutomation \/ Restart

Next == \/ Tick \/ UserIngest \/ UserEdit
        \/ \E j \in Pulls \cup Manual : JobStep(j)
        \/ \E u \in Uploads : UploadStep(u)
        \/ \E s \in Schedules : TimePasses(s)

Spec == Init /\ [][Next]_vars

\* The tick thread and the ingest threads keep running, and time passes.
SchedulerFairness == /\ WF_vars(Tick)
                     /\ \A s \in Schedules : WF_vars(TimePasses(s))
                     /\ \A j \in Pulls \cup Manual : WF_vars(JobStep(j))
                     /\ \A u \in Uploads : WF_vars(UploadStep(u))

FairSpec == Spec /\ SchedulerFairness

-----------------------------------------------------------------------------
(* Properties *)

\* The scheduler never has two pulls running at once, in a fan-out, across schedules
\* or across ticks, unless it gave one up after two hours.
OnePullAtATime ==
    \A i, j \in Pulls : status[i] = "running" /\ status[j] = "running"
                        => i = j \/ i \in late \/ j \in late

Firing == loop \in {"check", "build", "start", "poll", "chain", "patch"}

\* A schedule stays due until its run is over: if the sidecar dies anywhere between
\* the start of a pull and the write-back, the schedule fires again after the restart.
InFlightStaysDue ==
    Firing /\ Present /\ Current \notin touched => row[Current].next = "due"

\* Neither a second pull beside one that is polled, nor a run lost with the process.
SchedulerSafe == OnePullAtATime /\ InFlightStaysDue

Attempted(s) == loop = "build" /\ Current = s

\* A schedule that stays enabled while the scheduler runs is attempted again and
\* again, unless pulls keep running past the two hours they are polled for: a busy
\* registry, a failed pull or a neighbour's run only delays it.
SchedulesRecur ==
    \A s \in Schedules :
       <>[](row[s] # NoRow /\ row[s].enabled /\ automation /\ loop # "off" /\ late = {})
       => []<>Attempted(s)

=============================================================================
