------------------------------ MODULE BatchRuns ------------------------------
(***************************************************************************)
(* What an assess-batch request keeps beside its verdicts                  *)
(* (routes/controls.py, engine/measurement.py, routes/_batch_progress.py): *)
(* the row of its run, counted up while eight workers assess; the progress *)
(* slot of the workbook that the page polls; the calibration entries and   *)
(* the CRM events; and the answer, which says how many rows were saved.    *)
(*                                                                         *)
(* The workers write the run under one lock and the slot under another,    *)
(* and each of those writes, the save of each row and the closing commits  *)
(* may fail.  One workbook; two requests for it may overlap, as when the   *)
(* scheduler chains an assessment while a user has one running.            *)
(***************************************************************************)
EXTENDS Naturals, FiniteSets

CONSTANTS Batches,     \* assess-batch requests, each served once
          ScopeOf,     \* numbers of the objectives of each request's scope
          MaxFaults,   \* bound: failed writes and crashes
          NoBatch, NoSlot

Slots == [of : Batches, total : Nat, completed : Nat, errored : Nat]

ASSUME BatchAssumption == /\ ScopeOf \in [Batches -> SUBSET Nat] /\ MaxFaults \in Nat
                          /\ \A b \in Batches : IsFiniteSet(ScopeOf[b])
                          /\ NoBatch \notin Batches /\ NoSlot \notin Slots

InScope == UNION {ScopeOf[b] : b \in Batches}

VARIABLES batch,       \* the locals of each request
          runRow,      \* AssessmentRun as committed
          slot,        \* _ACTIVE of the workbook
          savedBy,     \* run_id of each objective's Assessment row
          calibrated,  \* CalibrationEntry rows
          crmEvents,   \* CrmShortCircuitEvent rows
          faults,
          overlapped   \* history: two requests worked at a time

batchVars == <<batch, runRow, slot, savedBy, calibrated, crmEvents, faults, overlapped>>

(* How the kernel left an objective: by a CRM's word, by the model's, or   *)
(* with an exception.                                                      *)
Outcomes == {"crm", "model", "raised"}

(* keep: persist of the request; items: the objectives to assess; left:    *)
(* those to come; told: the outcomes in memory; done: those the slot was   *)
(* told; saved, errored: what became of the rows; raised: the request      *)
(* fails once it is cleaned up; lost: the closing commit failed.           *)
Locals == [at : {"new", "reading", "working", "saving", "closing", "events", "clearing",
                 "answered", "failed", "dead"},
           keep : BOOLEAN, items : SUBSET InScope, left : SUBSET InScope,
           told : UNION {[S -> Outcomes] : S \in SUBSET InScope}, done : SUBSET InScope,
           saved : SUBSET InScope, errored : SUBSET InScope,
           raised : BOOLEAN, lost : BOOLEAN]

Idle == [at |-> "new", keep |-> TRUE, items |-> {}, left |-> {}, told |-> <<>>,
         done |-> {}, saved |-> {}, errored |-> {}, raised |-> FALSE, lost |-> FALSE]

BatchInit ==
    /\ batch = [b \in Batches |-> Idle]
    /\ runRow = [b \in Batches |-> [at |-> "none", counts |-> {}]]
    /\ slot = NoSlot
    /\ savedBy = [o \in InScope |-> NoBatch]
    /\ calibrated = {} /\ crmEvents = {}
    /\ faults = 0 /\ overlapped = FALSE

Is(b, l) == batch[b].at = l
Told(b)  == DOMAIN batch[b].told
Kind(b, k) == {o \in Told(b) : batch[b].told[o] = k}

Fails == faults < MaxFaults /\ faults' = faults + 1
Works == UNCHANGED faults

Working(b) == batch[b].at \in {"reading", "working", "saving", "closing", "events", "clearing"}

-----------------------------------------------------------------------------
(* Phase 1: the scope of the request and the row of its run                *)

StartRun(b) ==
    /\ Is(b, "new")
    /\ \E keep, skip \in BOOLEAN :
          batch' = [batch EXCEPT ![b].at = "reading", ![b].keep = keep,
                      ![b].items = {o \in ScopeOf[b] : skip => savedBy[o] = NoBatch}]
    /\ runRow' = [runRow EXCEPT ![b].at = "open"]
    /\ overlapped' = (overlapped \/ \E c \in Batches \ {b} : Working(c))
    /\ UNCHANGED <<slot, savedBy, calibrated, crmEvents, faults>>

(* Reading the override epochs is not guarded: the request closes its run  *)
(* and fails.                                                              *)
ReadFails(b) ==
    /\ Is(b, "reading") /\ Fails
    /\ batch' = [batch EXCEPT ![b].at = "closing", ![b].raised = TRUE]
    /\ UNCHANGED <<runRow, slot, savedBy, calibrated, crmEvents, overlapped>>

FanOut(b) ==
    /\ Is(b, "reading")
    /\ batch' = [batch EXCEPT ![b].at = "working", ![b].left = batch[b].items]
    /\ slot' = IF batch[b].items = {} THEN slot
               ELSE [of |-> b, total |-> Cardinality(batch[b].items), completed |-> 0,
                     errored |-> 0]
    /\ UNCHANGED <<runRow, savedBy, calibrated, crmEvents, faults, overlapped>>

-----------------------------------------------------------------------------
(* Phase 2: the workers                                                    *)

\* Mutant: what a failed commit did not write is forgotten.
CommitOutcomeOnce(b, o, k) ==
    LET told == [p \in Told(b) \cup {o} |-> IF p = o THEN k ELSE batch[b].told[p]]
    IN  /\ calibrated' = IF k = "model" THEN calibrated \cup {<<b, o>>} ELSE calibrated
        /\ \/ runRow' = [runRow EXCEPT ![b].counts = @ \cup {o}] /\ Works
              /\ batch' = [batch EXCEPT ![b].told = told]
           \/ UNCHANGED runRow /\ Fails
              /\ batch' = [batch EXCEPT ![b].left = @ \ {o}, ![b].done = @ \cup {o}]

(* _commit_outcome: the outcome counts from now on, whether or not this    *)
(* commit of the run's row succeeds; only the model's word is calibrated.  *)
CommitOutcome(b, o, k) ==
    LET told == [p \in Told(b) \cup {o} |-> IF p = o THEN k ELSE batch[b].told[p]]
        counted == [runRow EXCEPT ![b].counts = DOMAIN told]
        entry == calibrated \cup {<<b, o>>}
    IN  /\ batch' = [batch EXCEPT ![b].told = told]
        /\ \/ runRow' = counted /\ Works
              /\ calibrated' = IF k = "model" THEN entry ELSE calibrated
           \/ UNCHANGED runRow /\ Fails
              /\ calibrated' = IF k = "model" THEN entry ELSE calibrated
           \/ k = "model" /\ runRow' = counted /\ Fails /\ UNCHANGED calibrated

Assess(b, o) ==
    /\ Is(b, "working") /\ o \in batch[b].left \ Told(b)
    /\ \E k \in Outcomes : CommitOutcome(b, o, k)
    /\ UNCHANGED <<slot, savedBy, crmEvents, overlapped>>

(* The slot is the workbook's: whoever holds it is told.                   *)
RecordDone(b, o) ==
    /\ Is(b, "working") /\ o \in Told(b) \ batch[b].done
    /\ batch' = [batch EXCEPT ![b].done = @ \cup {o}]
    /\ slot' = IF slot = NoSlot THEN slot
               ELSE [slot EXCEPT !.completed = @ + 1,
                        !.errored = @ + IF batch[b].told[o] = "raised" THEN 1 ELSE 0]
    /\ UNCHANGED <<runRow, savedBy, calibrated, crmEvents, faults, overlapped>>

Saving(left) == IF left = {} THEN "closing" ELSE "saving"

EndWork(b) ==
    /\ Is(b, "working") /\ batch[b].done = batch[b].items
    /\ batch' = [batch EXCEPT ![b].at = Saving(batch[b].left)]
    /\ UNCHANGED <<runRow, slot, savedBy, calibrated, crmEvents, faults, overlapped>>

-----------------------------------------------------------------------------
(* Phase 3: the rows, then the run, then the events                        *)

(* In the order of the workbook, each row in a savepoint.  Nothing has     *)
(* begun a transaction before it, so that SQLite commits the row when it   *)
(* releases the savepoint.                                                 *)
SaveRow(b, o) ==
    /\ Is(b, "saving") /\ o \in batch[b].left
    /\ \A p \in batch[b].left : o <= p
    /\ LET left == batch[b].left \ {o}
           past == [batch EXCEPT ![b].left = left, ![b].at = Saving(left)]
       IN  IF batch[b].told[o] = "raised" \/ ~batch[b].keep
           THEN batch' = past /\ UNCHANGED <<savedBy, faults>>
           ELSE \/ /\ batch' = [past EXCEPT ![b].saved = @ \cup {o}]
                   /\ savedBy' = [savedBy EXCEPT ![o] = b]
                   /\ Works
                \/ /\ batch' = [past EXCEPT ![b].errored = @ \cup {o}]
                   /\ UNCHANGED savedBy /\ Fails
    /\ UNCHANGED <<runRow, slot, calibrated, crmEvents, overlapped>>

(* finish() is the first statement of the finally block, and not guarded.  *)
FinishRun(b) ==
    /\ Is(b, "closing")
    /\ \/ /\ runRow' = [runRow EXCEPT ![b] = [at |-> "finished", counts |-> Told(b)]]
          /\ batch' = [batch EXCEPT ![b].at = IF batch[b].keep THEN "events" ELSE "clearing"]
          /\ Works
       \/ /\ batch' = [batch EXCEPT ![b].at = "failed"]
          /\ UNCHANGED runRow /\ Fails
    /\ UNCHANGED <<slot, savedBy, calibrated, crmEvents, overlapped>>

WriteEvents(b) ==
    /\ Is(b, "events")
    /\ \/ /\ crmEvents' = crmEvents \cup ({b} \X Kind(b, "crm"))
          /\ batch' = [batch EXCEPT ![b].at = "clearing"]
          /\ Works
       \/ /\ batch' = [batch EXCEPT ![b].at = "clearing", ![b].lost = TRUE]
          /\ UNCHANGED crmEvents /\ Fails
    /\ UNCHANGED <<runRow, slot, savedBy, calibrated, overlapped>>

ClearSlot(b) ==
    /\ Is(b, "clearing")
    /\ slot' = NoSlot
    /\ batch' = [batch EXCEPT ![b].at = IF batch[b].raised THEN "failed" ELSE "answered"]
    /\ UNCHANGED <<runRow, savedBy, calibrated, crmEvents, faults, overlapped>>

(* The sidecar dies and comes back: the rows stay.                         *)
Die ==
    /\ Fails
    /\ batch' = [b \in Batches |-> IF batch[b].at \in {"new", "answered", "failed", "dead"}
                                   THEN batch[b] ELSE [batch[b] EXCEPT !.at = "dead"]]
    /\ batch' # batch
    /\ slot' = NoSlot
    /\ UNCHANGED <<runRow, savedBy, calibrated, crmEvents, overlapped>>

BatchStep(b) ==
    \/ StartRun(b) \/ ReadFails(b) \/ FanOut(b) \/ EndWork(b)
    \/ FinishRun(b) \/ WriteEvents(b) \/ ClearSlot(b)
    \/ \E o \in InScope : Assess(b, o) \/ RecordDone(b, o) \/ SaveRow(b, o)

BatchNext == (\E b \in Batches : BatchStep(b)) \/ Die

BatchSpec == BatchInit /\ [][BatchNext]_batchVars

-----------------------------------------------------------------------------
(* The two numbers of an answer: a failed closing commit zeroes the first. *)
Persisted(b) == IF batch[b].lost THEN 0 ELSE Cardinality(batch[b].saved)
PersistErrored(b) == Cardinality(batch[b].errored)

(* What the Runs page and the progress bar are told.                       *)
RunStatus(b) == IF runRow[b].at = "finished" THEN "complete" ELSE "in_progress"
Active == slot # NoSlot

BatchTypeOK ==
    /\ batch \in [Batches -> Locals]
    /\ savedBy \in [InScope -> Batches \cup {NoBatch}]
    /\ \A b \in Batches : batch[b].done \cup batch[b].saved \subseteq batch[b].items

(* "The next CCI's commit (or finish()) will catch up" (measurement.py):   *)
(* whichever commits failed, the run of an answered request is finished    *)
(* and counts every objective it assessed; one that stays in progress is   *)
(* of a request that failed or died.                                       *)
RunsCatchUp ==
    \A b \in Batches :
       /\ Is(b, "answered") => runRow[b].counts = batch[b].items
       /\ runRow[b].at # "none" /\ RunStatus(b) = "in_progress" =>
             Working(b) \/ batch[b].at \in {"failed", "dead"}

(* A row is counted by the run it names, however that run ended, unless a  *)
(* commit of the run failed and nothing was committed after it.            *)
SavedAreCounted ==
    \A o \in InScope : savedBy[o] # NoBatch =>
        LET b == savedBy[o]
        IN  /\ runRow[b].at # "none"
            /\ o \in runRow[b].counts \/ (faults > 0 /\ runRow[b].at = "open")

(* A row that could not be saved is as it was, and the answer says so; the *)
(* other rows are in the database whatever the answer says of them.        *)
AnswersAddUp ==
    \A b \in Batches : Is(b, "answered") /\ batch[b].keep =>
        LET kept == batch[b].items \ Kind(b, "raised")
        IN  /\ batch[b].saved = kept \ batch[b].errored
            /\ \A o \in batch[b].saved : savedBy[o] # NoBatch
            /\ Persisted(b) + PersistErrored(b) = Cardinality(kept) \/ batch[b].lost

(* The page is shown a batch only while one works, or after one that could *)
(* not finish its run; and when a batch that had the workbook to itself    *)
(* has assessed everything, its bar is full.                               *)
SlotIsSomebodys ==
    /\ Active => \E b \in Batches : Working(b) \/ Is(b, "failed")
    /\ Active /\ ~overlapped => slot.completed <= slot.total
    /\ \A b \in Batches : ~overlapped /\ Is(b, "saving") /\ batch[b].items # {} =>
          Active /\ slot.completed = Cardinality(batch[b].items)
             /\ slot.errored = Cardinality(Kind(b, "raised"))

(* Every CRM verdict of an answered request has its event, unless the      *)
(* answer reports that the commit failed, and none is left by a run that   *)
(* did not finish.                                                         *)
EventsFollowRuns ==
    /\ \A e \in crmEvents : runRow[e[1]].at = "finished"
    /\ \A b \in Batches : Is(b, "answered") /\ batch[b].keep /\ ~batch[b].lost =>
          {b} \X Kind(b, "crm") \subseteq crmEvents

(* Only the model's own word is calibrated, and once.                      *)
CalibratedByModel == \A e \in calibrated : e[2] \in Kind(e[1], "model")

(* The run, the rows, the slot and the answer agree with each other,       *)
(* whichever writes fail and however two requests overlap.                 *)
BatchSafe ==
    /\ BatchTypeOK /\ RunsCatchUp /\ SavedAreCounted /\ AnswersAddUp /\ SlotIsSomebodys
    /\ EventsFollowRuns /\ CalibratedByModel
=============================================================================
