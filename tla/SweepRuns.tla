------------------------------ MODULE SweepRuns ------------------------------
(***************************************************************************)
(* The boundary sweep of a workbook as a request (routes/sharepoint.py),    *)
(* the assessor's decisions on its candidates, and the training of the      *)
(* score's weights on them (engine/sweep_online.py): several sweeps and     *)
(* several background updates may run beside each other, and the process    *)
(* may stop between two commits.                                            *)
(***************************************************************************)
EXTENDS Integers, FiniteSets

CONSTANTS Sweeps,       \* sweep requests
          Decisions,    \* candidates decided on
          Unparseable,  \* those whose stored signals cannot be read back
          Included,     \* those the assessor included
          Updaters,     \* background updates
          MinFit,       \* MIN_DECISIONS_FOR_ONLINE_FIT
          CapSweep,     \* effective cost cap, 0 for none
          Judged        \* candidates a sweep has judged when it completes

ASSUME SweepAssumption == /\ {MinFit, CapSweep, Judged} \subseteq Nat
                          /\ Unparseable \cup Included \subseteq Decisions
                          /\ IsFiniteSet(Sweeps)

VARIABLES sweep,     \* request: where it stands, totals it read
          runs,      \* SweepRun rows: their number and the sum of their costs
          wbTotals,  \* total_sweep_cost_usd and sweep_attempts of the workbook
          queued,    \* SweepDecision rows not consumed
          consumed,  \* SweepDecision rows with consumed_for_training
          weights,   \* SweepWeights rows written online, by what they trained on
          discarded, \* decisions of batches with one class only
          updater    \* background threads: where they stand, their features

sweepVars == <<sweep, runs, wbTotals, queued, consumed, weights, discarded, updater>>

Parsed(S) == S \ Unparseable
OneClass(S) == S \subseteq Included \/ S \cap Included = {}

-----------------------------------------------------------------------------
(* Sweeps *)

AvgEstimate == IF runs.number = 0 THEN 0 ELSE runs.cost \div runs.number

(* The workbook is read when the sweep starts; runs of the past that cost   *)
(* more than the cap refuse it.                                            *)
StartSweep(w) ==
    /\ sweep[w].pc = "new"
    /\ sweep' = [sweep EXCEPT ![w] =
                   IF CapSweep > 0 /\ AvgEstimate > CapSweep
                   THEN [@ EXCEPT !.pc = "refused"]
                   ELSE [pc |-> "running", read |-> wbTotals]]
    /\ UNCHANGED <<runs, wbTotals, queued, consumed, weights, discarded, updater>>

(* The walk or the judge raised. *)
SweepFails(w) ==
    /\ sweep[w].pc = "running"
    /\ sweep' = [sweep EXCEPT ![w].pc = "failed"]
    /\ UNCHANGED <<runs, wbTotals, queued, consumed, weights, discarded, updater>>

(* The run with its hits and the totals, from what was read, in one commit. *)
RecordSweep(w, cost) ==
    /\ sweep[w].pc = "running"
    /\ runs' = [number |-> runs.number + 1, cost |-> runs.cost + cost]
    /\ wbTotals' = [cost |-> sweep[w].read.cost + cost, attempts |-> sweep[w].read.attempts + 1]
    /\ sweep' = [sweep EXCEPT ![w].pc = "recorded"]
    /\ UNCHANGED <<queued, consumed, weights, discarded, updater>>

(* The assessor resets the counter of attempts (routes/workbooks.py). *)
ResetAttempts ==
    /\ wbTotals.attempts > 0
    /\ wbTotals' = [wbTotals EXCEPT !.attempts = 0]
    /\ UNCHANGED <<sweep, runs, queued, consumed, weights, discarded, updater>>

-----------------------------------------------------------------------------
(* Decisions and training *)

(* Decisions are committed; when enough are queued, readable or not, a      *)
(* background update is started.                                           *)
Decide(D, u) ==
    /\ D # {}
    /\ D \cap (queued \cup consumed) = {}
    /\ updater[u].pc = "none"
    /\ queued' = queued \cup D
    /\ updater' = IF Cardinality(queued') >= MinFit
                  THEN [updater EXCEPT ![u].pc = "started"] ELSE updater
    /\ UNCHANGED <<sweep, runs, wbTotals, consumed, weights, discarded>>

(* A background update reads what is queued; too little, and it ends. *)
CollectUnconsumed(u) ==
    /\ updater[u].pc = "started"
    /\ updater' = [updater EXCEPT ![u] =
         IF Cardinality(Parsed(queued)) < MinFit THEN [@ EXCEPT !.pc = "over"]
         ELSE [pc |-> IF OneClass(Parsed(queued)) THEN "skipping" ELSE "fitting",
               features |-> Parsed(queued)]]
    /\ UNCHANGED <<sweep, runs, wbTotals, queued, consumed, weights, discarded>>

(* The new weights are a commit of their own, never active. *)
CommitWeights(u) ==
    /\ updater[u].pc = "fitting"
    /\ weights' = weights \cup {[by |-> u, on |-> updater[u].features]}
    /\ updater' = [updater EXCEPT ![u].pc = "marking"]
    /\ UNCHANGED <<sweep, runs, wbTotals, queued, consumed, discarded>>

(* Mutant: whatever is queued by now is marked. *)
MarkQueued(u) ==
    /\ updater[u].pc \in {"marking", "skipping"}
    /\ consumed' = consumed \cup Parsed(queued)
    /\ queued' = queued \cap Unparseable
    /\ discarded' = IF updater[u].pc = "skipping" THEN discarded \cup updater[u].features
                    ELSE discarded
    /\ updater' = [updater EXCEPT ![u].pc = "over"]
    /\ UNCHANGED <<sweep, runs, wbTotals, weights>>

(* Exactly the rows fitted, or of one class, are marked: another commit.    *)
MarkConsumed(u) ==
    /\ updater[u].pc \in {"marking", "skipping"}
    /\ consumed' = consumed \cup updater[u].features
    /\ queued' = queued \ updater[u].features
    /\ discarded' = IF updater[u].pc = "skipping" THEN discarded \cup updater[u].features
                    ELSE discarded
    /\ updater' = [updater EXCEPT ![u].pc = "over"]
    /\ UNCHANGED <<sweep, runs, wbTotals, weights>>

SweepInit ==
    /\ sweep = [w \in Sweeps |-> [pc |-> "new", read |-> [cost |-> 0, attempts |-> 0]]]
    /\ runs = [number |-> 0, cost |-> 0]
    /\ wbTotals = [cost |-> 0, attempts |-> 0]
    /\ queued = {}
    /\ consumed = {}
    /\ weights = {}
    /\ discarded = {}
    /\ updater = [u \in Updaters |-> [pc |-> "none", features |-> {}]]

Update(u) == CollectUnconsumed(u) \/ CommitWeights(u) \/ MarkConsumed(u)

SweepNext ==
    \/ \E w \in Sweeps : \/ StartSweep(w)
                         \/ SweepFails(w)
                         \/ \E cost \in 0..Judged : RecordSweep(w, cost)
    \/ ResetAttempts
    \/ \E D \in SUBSET Decisions, u \in Updaters : Decide(D, u)
    \/ \E u \in Updaters : Update(u)

(* A background update runs on; nobody has to sweep or decide. *)
SweepSpec == /\ SweepInit
             /\ [][SweepNext]_sweepVars
             /\ \A u \in Updaters : WF_sweepVars(Update(u))

-----------------------------------------------------------------------------
(* The type invariant of sweeps and training. *)
SweepTypeOK ==
    /\ \A w \in Sweeps : /\ sweep[w].pc \in {"new", "running", "refused", "failed", "recorded"}
                         /\ sweep[w].read.cost \in 0..(Judged * Cardinality(Sweeps))
    /\ runs.number \in 0..Cardinality(Sweeps)
    /\ runs.cost \in 0..(Judged * runs.number)
    /\ wbTotals.cost \in 0..(Judged * Cardinality(Sweeps))
    /\ wbTotals.attempts \in 0..Cardinality(Sweeps)
    /\ queued \cup consumed \cup discarded \subseteq Decisions
    /\ queued \cap consumed = {}
    /\ \A r \in weights : r.by \in Updaters /\ r.on \subseteq Decisions
    /\ \A u \in Updaters :
         updater[u].pc \in {"none", "started", "fitting", "skipping", "marking", "over"}

(* A decision is marked as consumed only when weights were trained on it or *)
(* a batch of one class was set aside with it: one saved while an update    *)
(* runs stays queued (collect_unconsumed_features, _mark_consumed).        *)
ConsumedWasUsed ==
    consumed \subseteq discarded \cup UNION {r.on : r \in weights}

(* The totals of the workbook never claim more than its runs did, though    *)
(* sweeps beside each other may leave them short (models.py:957).          *)
TotalsAreCovered == wbTotals.cost <= runs.cost /\ wbTotals.attempts <= runs.number

(* The books of the sweeps: no decision is used up unused, no spend is      *)
(* claimed that no run had.                                                 *)
RunsSafe == SweepTypeOK /\ ConsumedWasUsed /\ TotalsAreCovered

(* Readable decisions enough for a fit are used before long. *)
QueueIsUsed ==
    Cardinality(Parsed(queued)) >= MinFit ~> Cardinality(Parsed(queued)) < MinFit

=============================================================================
