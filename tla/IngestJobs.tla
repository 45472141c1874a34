----------------------------- MODULE IngestJobs -----------------------------
(***************************************************************************)
(* The in-memory ingest-job registry (evidence/jobs.py).                   *)
(*                                                                         *)
(* Batch ingests run on daemon threads started by start_ingest_job; a      *)
(* boundary-document upload runs on its request thread inside              *)
(* claim_single_file.  Both take _INGEST_LOCK before they write Evidence   *)
(* rows.  Each lock-guarded block of the code is one action, so every      *)
(* interleaving the two locks allow is a behaviour of Next.                *)
(***************************************************************************)
EXTENDS Naturals, FiniteSets

CONSTANTS Jobs,      \* batch ingest requests, one uuid4 job id each
          Uploads,   \* single-file requests, one sentinel id each
          NoId       \* None: no active id, or a free lock

ASSUME IdsAssumption == /\ Jobs \cap Uploads = {}
                        /\ NoId \notin Jobs \cup Uploads

VARIABLES status,      \* IngestJob.status of the ids in _jobs; "absent" otherwise
          active,      \* _active_job_id: a job id, an upload's sentinel or None
          ingestLock,  \* the thread holding _INGEST_LOCK
          pc           \* where the thread of each request stands

vars == <<status, active, ingestLock, pc>>

Threads == Jobs \cup Uploads

JobPc    == {"new", "queued", "walking", "ended", "unlocked", "over", "refused"}
UploadPc == {"new", "checked", "locked", "ingesting", "cleared", "over", "refused"}

(* The types of the registry, of the lock and of every thread.             *)
TypeOK == /\ status \in [Jobs -> {"absent", "running", "done", "error"}]
          /\ active \in Threads \cup {NoId}
          /\ ingestLock \in Threads \cup {NoId}
          /\ pc \in [Threads -> JobPc \cup UploadPc]
          /\ \A j \in Jobs : pc[j] \in JobPc
          /\ \A u \in Uploads : pc[u] \in UploadPc

Init == /\ status = [j \in Jobs |-> "absent"]
        /\ active = NoId
        /\ ingestLock = NoId
        /\ pc = [t \in Threads |-> "new"]

\* "active and active.status == 'running'": a sentinel is never a key of _jobs.
BatchRunning == active \in Jobs /\ status[active] = "running"

Goto(t, label) == pc' = [pc EXCEPT ![t] = label]

-----------------------------------------------------------------------------
(* start_ingest_job and its daemon thread *)

Register(j) == /\ status' = [status EXCEPT ![j] = "running"]
               /\ active' = j
               /\ Goto(j, "queued")

StartJob(j) ==
    /\ pc[j] = "new"
    /\ \/ /\ BatchRunning                      \* RuntimeError, a 409 at the route
          /\ Goto(j, "refused")
          /\ UNCHANGED <<status, active>>
       \/ ~BatchRunning /\ Register(j)
    /\ UNCHANGED ingestLock

\* Mutant: the walk starts without waiting for a single-file claim to end.
WalkWithoutLock(j) ==
    /\ pc[j] = "queued"
    /\ ingestLock' = j
    /\ Goto(j, "walking")
    /\ UNCHANGED <<status, active>>

AcquireForWalk(j) ==
    /\ pc[j] = "queued"
    /\ ingestLock = NoId
    /\ ingestLock' = j
    /\ Goto(j, "walking")
    /\ UNCHANGED <<status, active>>

\* Mutant: a crash escapes the except clause, so the job stays "running" for ever.
EndWalkUncaught(j) ==
    /\ pc[j] = "walking"
    /\ \/ status' = [status EXCEPT ![j] = "done"]
       \/ UNCHANGED status
    /\ Goto(j, "ended")
    /\ UNCHANGED <<active, ingestLock>>

\* Mutant: a status the readers of the registry do not know.
EndWalkCancelled(j) ==
    /\ pc[j] = "walking"
    /\ \E outcome \in {"done", "cancelled"} : status' = [status EXCEPT ![j] = outcome]
    /\ Goto(j, "ended")
    /\ UNCHANGED <<active, ingestLock>>

\* ingest_source returns or raises; either way the thread still holds the lock.
EndWalk(j) ==
    /\ pc[j] = "walking"
    /\ \E outcome \in {"done", "error"} : status' = [status EXCEPT ![j] = outcome]
    /\ Goto(j, "ended")
    /\ UNCHANGED <<active, ingestLock>>

ReleaseAfterWalk(j) ==
    /\ pc[j] = "ended"
    /\ ingestLock' = NoId
    /\ Goto(j, "unlocked")
    /\ UNCHANGED <<status, active>>

\* Mutant: the finally clause forgets the active id.
KeepActive(t) == UNCHANGED active

ClearActive(t) == active' = IF active = t THEN NoId ELSE active

FinishJob(j) ==
    /\ pc[j] = "unlocked"
    /\ ClearActive(j)
    /\ Goto(j, "over")
    /\ UNCHANGED <<status, ingestLock>>

-----------------------------------------------------------------------------
(* claim_single_file, around ingest_single_local_file *)

CheckClaim(u) ==
    /\ pc[u] = "new"
    /\ Goto(u, IF BatchRunning THEN "refused" ELSE "checked")
    /\ UNCHANGED <<status, active, ingestLock>>

\* Mutant: the result of acquire(blocking=False) is not looked at.
AcquireUnchecked(u) ==
    /\ pc[u] = "checked"
    /\ ingestLock' = IF ingestLock = NoId THEN u ELSE ingestLock
    /\ Goto(u, "locked")
    /\ UNCHANGED <<status, active>>

AcquireForFile(u) ==
    /\ pc[u] = "checked"
    /\ \/ /\ ingestLock = NoId
          /\ ingestLock' = u
          /\ Goto(u, "locked")
       \/ /\ ingestLock # NoId                 \* acquire(blocking=False) failed
          /\ Goto(u, "refused")
          /\ UNCHANGED ingestLock
    /\ UNCHANGED <<status, active>>

SetSentinel(u) ==
    /\ pc[u] = "locked"
    /\ active' = u
    /\ Goto(u, "ingesting")
    /\ UNCHANGED <<status, ingestLock>>

\* The with-body returned or raised; the finally clears its own sentinel.
EndFile(u) ==
    /\ pc[u] = "ingesting"
    /\ ClearActive(u)
    /\ Goto(u, "cleared")
    /\ UNCHANGED <<status, ingestLock>>

ReleaseAfterFile(u) ==
    /\ pc[u] = "cleared"
    /\ ingestLock' = NoId
    /\ Goto(u, "over")
    /\ UNCHANGED <<status, active>>

-----------------------------------------------------------------------------
JobStep(j) == \/ AcquireForWalk(j) \/ EndWalk(j) \/ ReleaseAfterWalk(j) \/ FinishJob(j)

UploadStep(u) == \/ AcquireForFile(u) \/ SetSentinel(u) \/ EndFile(u)
                 \/ ReleaseAfterFile(u)

Next == \/ \E j \in Jobs : StartJob(j) \/ JobStep(j)
        \/ \E u \in Uploads : CheckClaim(u) \/ UploadStep(u)

Spec == Init /\ [][Next]_vars

\* A started thread keeps running; nobody is obliged to send a request.
FairSpec == /\ Spec
            /\ \A j \in Jobs : WF_vars(JobStep(j))
            /\ \A u \in Uploads : WF_vars(UploadStep(u))

-----------------------------------------------------------------------------
(* Properties *)

Writing(t) == pc[t] \in {"walking", "ended", "locked", "ingesting", "cleared"}

\* At most one thread is between acquiring and releasing _INGEST_LOCK, and the
\* lock names it: a batch walk and a boundary-document upload never write the
\* evidence tables at the same time (jobs.py:26-35).
WritersExclude == \A t \in Threads : Writing(t) <=> ingestLock = t

Live(t) == pc[t] \in {"queued", "walking", "ended", "unlocked", "ingesting"}

\* The active id always names a request still in flight, and a sentinel names
\* the upload that holds _INGEST_LOCK: no finished request leaves the registry
\* looking busy, although an upload's sentinel can overwrite a job's id and the
\* two are cleared in either order.
NoStaleActive == /\ active # NoId => Live(active)
                 /\ active \in Uploads => ingestLock = active

\* An accepted batch job reaches done or error, and its thread lets the
\* registry go, however many uploads barge in on the lock before it.
JobsSettle == \A j \in Jobs : pc[j] = "queued" ~> /\ status[j] \in {"done", "error"}
                                                 /\ pc[j] = "over"

\* The registry becomes idle again after every claim of it: active returns to
\* None, so that no schedule or user is locked out for good.
RegistryIdles == active # NoId ~> active = NoId

\* The registry and its lock implement the serial ingest writer.
Admitted(t) == pc[t] \in {"queued", "checked"}
SerialPhase == [t \in Threads |->
                  IF pc[t] \in {"new", "refused"}
                    THEN IF pc[t] = "new" THEN "idle" ELSE "refused"
                    ELSE IF Admitted(t) THEN "admitted"
                         ELSE IF Writing(t) THEN "writing" ELSE "finished"]

Serial == INSTANCE SerialIngest WITH Requests <- Threads, phase <- SerialPhase

\* Every step of the registry is a step of the serial writer: a request is
\* admitted or refused, writes alone, writes once.
ImplementsSerial == Serial!Spec

=============================================================================
