------------------------------ MODULE Verdicts ------------------------------
(***************************************************************************)
(* The life of a compliance verdict (routes/controls.py, engine/).         *)
(*                                                                         *)
(* A cell is one objective in one workbook; its Assessment row holds the   *)
(* current verdict.  Assess requests snapshot the evidence and the         *)
(* override epoch, spend minutes with the model without a lock on either,  *)
(* and then overwrite the rows.  Reviewers, evidence edits, backfill and   *)
(* the export to column N run beside them on other request threads.        *)
(* Each action is one transaction, or the part of a handler between two    *)
(* points where other threads may commit.                                  *)
(***************************************************************************)
EXTENDS Naturals

CONSTANTS Workbooks, Objectives, Artifacts,
          Home,         \* Evidence.workbook_id of each artifact
          Batches,      \* assess-batch requests, each served once
          Singles,      \* assess requests, each served once
          Book,         \* the workbook each request names
          MaxEpoch,     \* bound: overrides per cell
          NoRow, Blank, NoVerdict

Runs     == Batches \cup Singles
Cells    == Workbooks \X Objectives
Statuses == {"Compliant", "NonCompliant"}

\* A kernel Decision; a hard abstain has no status.
Decisions == [status : Statuses \cup {NoVerdict}, review : BOOLEAN, exempt : BOOLEAN]
NoAnswer  == [status |-> NoVerdict, review |-> TRUE, exempt |-> FALSE]

\* An Assessment row.  human, shown and moved are history: who wrote it, the
\* artifacts it rests on, and whether they moved without the row being flagged.
Rows == [status : Statuses, review : BOOLEAN, exempt : BOOLEAN,
         human : BOOLEAN, shown : SUBSET Artifacts, moved : BOOLEAN]

CacheKeys == [objective : Objectives, shown : SUBSET Artifacts, epoch : 0..MaxEpoch]
Entries   == [key : CacheKeys, status : Statuses]

ASSUME RequestsAssumption ==
    /\ Home \in [Artifacts -> Workbooks]
    /\ Batches \cap Singles = {}
    /\ Book \in [Runs -> Workbooks]
    /\ MaxEpoch \in Nat
    /\ NoRow \notin Rows
    /\ NoVerdict \notin Statuses
    /\ {Blank, NoRow} \cap Statuses = {}
    /\ Blank # NoRow

VARIABLES ruled,    \* objectives whose workbook row rule 8a decides, without the model
          tags,     \* <<artifact, objective>>: the tags of live (not superseded) evidence
          row,      \* the Assessment row of each cell
          epoch,    \* OverrideEpoch of each cell
          cache,    \* DecisionCache
          phase,    \* of each request: "new", "asking", "over"
          stage,    \* of each objective of a request
          shown, since,  \* the evidence and the epoch read in phase 1
          answer,   \* the Decision of a decided objective
          columnN,  \* Compliance Status in the working copy
          export,   \* what an apply request has read and not yet written
          trusted,  \* history: every status a cell has shown as trusted
          beforeOverride \* history: the cache as the last override of a cell found it

runVars   == <<phase, stage, shown, since, answer>>
sheetVars == <<columnN, export>>
vars == <<ruled, tags, row, epoch, cache, runVars, sheetVars, trusted, beforeOverride>>

(* The types of rows, runs, the cache and the sheets.                      *)
TypeOK == /\ ruled \subseteq Objectives
          /\ tags \subseteq Artifacts \X Objectives
          /\ row \in [Cells -> Rows \cup {NoRow}]
          /\ epoch \in [Cells -> 0..MaxEpoch]
          /\ cache \subseteq Entries
          /\ phase \in [Runs -> {"new", "asking", "over"}]
          /\ stage \in [Runs -> [Objectives ->
                           {"skip", "ready", "asked", "decided", "errored"}]]
          /\ shown \in [Runs -> [Objectives -> SUBSET Artifacts]]
          /\ since \in [Runs -> [Objectives -> 0..MaxEpoch]]
          /\ answer \in [Runs -> [Objectives -> Decisions]]
          /\ columnN \in [Cells -> Statuses \cup {Blank}]
          /\ export \in [Workbooks -> [Objectives -> Statuses \cup {Blank, NoRow}]]
          /\ trusted \in [Cells -> SUBSET Statuses]
          /\ beforeOverride \in [Cells -> SUBSET Entries]

Init == /\ ruled \in SUBSET Objectives
        /\ tags = {}
        /\ row = [c \in Cells |-> NoRow]
        /\ epoch = [c \in Cells |-> 0]
        /\ cache = {}
        /\ phase = [r \in Runs |-> "new"]
        /\ stage = [r \in Runs |-> [o \in Objectives |-> "skip"]]
        /\ shown = [r \in Runs |-> [o \in Objectives |-> {}]]
        /\ since = [r \in Runs |-> [o \in Objectives |-> 0]]
        /\ answer = [r \in Runs |-> [o \in Objectives |-> NoAnswer]]
        /\ columnN = [c \in Cells |-> Blank]
        /\ export = [w \in Workbooks |-> [o \in Objectives |-> NoRow]]
        /\ trusted = [c \in Cells |-> {}]
        /\ beforeOverride = [c \in Cells |-> {}]

Own(w) == {a \in Artifacts : Home[a] = w}

\* build_tagged_evidence filters by objective, not by workbook.
Bundle(o) == {a \in Artifacts : <<a, o>> \in tags}

IsTrusted(r) == r # NoRow /\ ~r.review

\* History: note the status of every row that is trusted after this step.
NoteTrusted == trusted' = [c \in Cells |-> trusted[c] \cup
                   (IF row'[c] # NoRow /\ ~row'[c].review THEN {row'[c].status} ELSE {})]

-----------------------------------------------------------------------------
(* Evidence edits: ingest and retag, manual tag and untag, delete, clear *)

SetTags(w, o, arts) == tags' = (tags \ (Own(w) \X {o})) \cup (arts \X {o})

\* Mutant: verdicts that a reviewer wrote are left alone.
FlagKernelRow(r) == IF r # NoRow /\ ~r.exempt /\ ~r.human
                    THEN [r EXCEPT !.review = TRUE] ELSE r

\* invalidate_assessments_for_objectives, on one row.
FlagRow(r) == IF r # NoRow /\ ~r.exempt THEN [r EXCEPT !.review = TRUE] ELSE r

EditEvidence(w, o) ==
    /\ \E arts \in SUBSET Own(w) : arts # Bundle(o) \cap Own(w) /\ SetTags(w, o, arts)
    /\ row' = [row EXCEPT ![<<w, o>>] = FlagRow(@)]
    /\ NoteTrusted
    /\ UNCHANGED <<ruled, epoch, cache, runVars, sheetVars, beforeOverride>>

\* A document supersedes another, or stops superseding it: artifacts leave or
\* re-enter the bundle of an objective that no tag of this step touches.
ShiftChain(w, o) ==
    /\ \E arts \in SUBSET Own(w) : arts # Bundle(o) \cap Own(w) /\ SetTags(w, o, arts)
    /\ row' = [row EXCEPT ![<<w, o>>] = IF @ = NoRow THEN @ ELSE [@ EXCEPT !.moved = TRUE]]
    /\ UNCHANGED <<ruled, epoch, cache, runVars, sheetVars, trusted, beforeOverride>>

-----------------------------------------------------------------------------
(* Assess requests *)

\* Phase 1 reads the evidence and the epoch of every objective it targets.
Snapshot(r, targets) ==
    /\ phase' = [phase EXCEPT ![r] = "asking"]
    /\ stage' = [stage EXCEPT ![r] = [o \in Objectives |->
                                        IF o \in targets THEN "ready" ELSE "skip"]]
    /\ shown' = [shown EXCEPT ![r] = [o \in Objectives |->
                                        IF o \in targets THEN Bundle(o) ELSE {}]]
    /\ since' = [since EXCEPT ![r] = [o \in Objectives |->
                                        IF o \in targets THEN epoch[<<Book[r], o>>] ELSE 0]]
    /\ UNCHANGED <<ruled, tags, row, epoch, cache, answer, sheetVars, trusted, beforeOverride>>

StartBatch(r) ==
    /\ phase[r] = "new"
    /\ \E targets \in SUBSET Objectives, skipExisting \in BOOLEAN :
          Snapshot(r, {o \in targets : ~skipExisting \/ row[<<Book[r], o>>] = NoRow})

StartSingle(r) == phase[r] = "new" /\ \E o \in Objectives : Snapshot(r, {o})

Settle(r, o, to) == stage' = [stage EXCEPT ![r][o] = to]

Decide(r, o, status, review) ==
    /\ answer' = [answer EXCEPT ![r][o] =
                    [status |-> status, review |-> review, exempt |-> o \in ruled]]
    /\ Settle(r, o, "decided")

KeyOf(r, o) == [objective |-> o, shown |-> shown[r][o], epoch |-> since[r][o]]

\* Rules, no-evidence abstain and cache lookup; a miss goes on to the model.
Consult(r, o) ==
    /\ stage[r][o] = "ready"
    /\ \/ /\ o \in ruled
          /\ Decide(r, o, "Compliant", FALSE)
       \/ /\ o \notin ruled
          /\ shown[r][o] = {}
          /\ Decide(r, o, "NonCompliant", TRUE)
       \/ /\ o \notin ruled
          /\ shown[r][o] # {}
          /\ \E e \in cache : e.key = KeyOf(r, o) /\ Decide(r, o, e.status, FALSE)
       \/ /\ o \notin ruled
          /\ shown[r][o] # {}
          /\ \A e \in cache : e.key # KeyOf(r, o)
          /\ Settle(r, o, "asked")
          /\ UNCHANGED answer
    /\ UNCHANGED <<ruled, tags, row, epoch, cache, phase, shown, since, sheetVars,
                   trusted, beforeOverride>>

\* Only accepted verdicts are cached; the first writer of a key wins.
Store(r, o, status) ==
    cache' = IF \E e \in cache : e.key = KeyOf(r, o) THEN cache
             ELSE cache \cup {[key |-> KeyOf(r, o), status |-> status]}

\* The model's proposal survives the gates, or the kernel abstains, or the worker raises.
AskModel(r, o) ==
    /\ stage[r][o] = "asked"
    /\ \/ \E status \in Statuses : Decide(r, o, status, FALSE) /\ Store(r, o, status)
       \/ \E status \in Statuses \cup {NoVerdict} :
             Decide(r, o, status, TRUE) /\ UNCHANGED cache
       \/ Settle(r, o, "errored") /\ UNCHANGED <<answer, cache>>
    /\ UNCHANGED <<ruled, tags, row, epoch, phase, shown, since, sheetVars,
                   trusted, beforeOverride>>

\* Mutant: the status of a hard abstain is written as it is.
KeepStatus(status) == status

\* _coerce_abstain_persistence_fields
Coerce(status) == IF status = NoVerdict THEN "NonCompliant" ELSE status

\* The single-control endpoint pins needs_review=True on every row it writes.
KernelRow(r, o) ==
    [status |-> Coerce(answer[r][o].status),
     review |-> r \in Singles \/ answer[r][o].review,
     exempt |-> answer[r][o].exempt,
     human  |-> FALSE,
     shown  |-> shown[r][o],
     moved  |-> shown[r][o] # Bundle(o)]

\* What a request knew of an objective it is through with.
Forget(r, o) ==
    /\ stage'  = [stage EXCEPT ![r][o] = "skip"]
    /\ shown'  = [shown EXCEPT ![r][o] = {}]
    /\ since'  = [since EXCEPT ![r][o] = 0]
    /\ answer' = [answer EXCEPT ![r][o] = NoAnswer]

\* Phase 3, one row: committed as its savepoint is released, or rolled back with it.
\* The request is over with its last row.
Persist(r, o) ==
    /\ phase[r] = "asking"
    /\ \A p \in Objectives : stage[r][p] \in {"skip", "decided", "errored"}
    /\ stage[r][o] # "skip"
    /\ \/ UNCHANGED row
       \/ /\ stage[r][o] = "decided"
          /\ row' = [row EXCEPT ![<<Book[r], o>>] = KernelRow(r, o)]
    /\ NoteTrusted
    /\ Forget(r, o)
    /\ phase' = IF \A p \in Objectives \ {o} : stage[r][p] = "skip"
                THEN [phase EXCEPT ![r] = "over"] ELSE phase
    /\ UNCHANGED <<ruled, tags, epoch, cache, sheetVars, beforeOverride>>

\* A request that targets nothing.
Respond(r) ==
    /\ phase[r] = "asking"
    /\ \A o \in Objectives : stage[r][o] = "skip"
    /\ phase' = [phase EXCEPT ![r] = "over"]
    /\ UNCHANGED <<ruled, tags, row, epoch, cache, stage, shown, since, answer, sheetVars,
                   trusted, beforeOverride>>

-----------------------------------------------------------------------------
(* Reviewers and backfill *)

\* upsert_assessment writes a trusted row; the verdict source is left as it was.
ReviewerRow(c, status) ==
    [status |-> status, review |-> FALSE,
     exempt |-> row[c] # NoRow /\ row[c].exempt,
     human  |-> TRUE, shown |-> Bundle(c[2]), moved |-> FALSE]

WriteReview(c, status) ==
    /\ row' = [row EXCEPT ![c] = ReviewerRow(c, status)]
    /\ NoteTrusted
    /\ beforeOverride' = [beforeOverride EXCEPT ![c] = cache]
    /\ UNCHANGED <<ruled, tags, cache, runVars, sheetVars>>

\* Mutant: only the first override of a cell creates its epoch.
SaveReviewOnce(c, status) ==
    /\ epoch[c] < MaxEpoch
    /\ epoch' = [epoch EXCEPT ![c] = 1]
    /\ WriteReview(c, status)

SaveReview(c, status) ==
    /\ epoch[c] < MaxEpoch
    /\ epoch' = [epoch EXCEPT ![c] = @ + 1]
    /\ WriteReview(c, status)

\* backfill_workbook_rules: a rule verdict for every rule objective without a row.
RuleRow == [status |-> "Compliant", review |-> FALSE, exempt |-> TRUE,
            human |-> FALSE, shown |-> {}, moved |-> FALSE]

Backfilled(w) == [c \in Cells |-> IF c[1] = w /\ c[2] \in ruled /\ row[c] = NoRow
                                  THEN RuleRow ELSE row[c]]

OpenWorkbook(w) ==
    /\ row' = Backfilled(w)
    /\ NoteTrusted
    /\ UNCHANGED <<ruled, tags, epoch, cache, runVars, sheetVars, beforeOverride>>

-----------------------------------------------------------------------------
(* Apply to workbook: read the rows, then write the working copy *)

Idle(w) == \A o \in Objectives : export[w][o] = NoRow

\* Mutant: the status is written whatever needs_review says.
CellOfAny(r) == IF r = NoRow THEN NoRow ELSE r.status

CellOf(r) == IF r = NoRow THEN NoRow ELSE IF r.review THEN Blank ELSE r.status

ReadRows(w, targets) ==
    export' = [export EXCEPT ![w] = [o \in Objectives |->
                 IF o \in targets THEN CellOf(row'[<<w, o>>]) ELSE NoRow]]

ApplyBatch(w) ==
    /\ Idle(w)
    /\ row' = Backfilled(w)
    /\ NoteTrusted
    /\ \E targets \in SUBSET Objectives : ReadRows(w, targets)
    /\ UNCHANGED <<ruled, tags, epoch, cache, runVars, columnN, beforeOverride>>

ApplyOne(w, o) ==
    /\ Idle(w)
    /\ row[<<w, o>>] # NoRow
    /\ UNCHANGED row
    /\ ReadRows(w, {o})
    /\ UNCHANGED <<ruled, tags, epoch, cache, runVars, columnN, trusted, beforeOverride>>

\* _build_row_cells gives no cell to a None status, so column N keeps its text.
WriteCells(w) ==
    columnN' = [c \in Cells |-> IF c[1] = w /\ export[w][c[2]] \notin {NoRow, Blank}
                                THEN export[w][c[2]] ELSE columnN[c]]

\* A locked file or a failed read-back leaves the working copy as it was.
FinishApply(w) ==
    /\ ~Idle(w)
    /\ WriteCells(w) \/ UNCHANGED columnN
    /\ export' = [export EXCEPT ![w] = [o \in Objectives |-> NoRow]]
    /\ UNCHANGED <<ruled, tags, row, epoch, cache, runVars, trusted, beforeOverride>>

-----------------------------------------------------------------------------
Next == \/ \E w \in Workbooks, o \in Objectives :
              \/ EditEvidence(w, o) \/ ShiftChain(w, o) \/ ApplyOne(w, o)
              \/ \E status \in Statuses : SaveReview(<<w, o>>, status)
        \/ \E w \in Workbooks : OpenWorkbook(w) \/ ApplyBatch(w) \/ FinishApply(w)
        \/ \E r \in Batches : StartBatch(r)
        \/ \E r \in Singles : StartSingle(r)
        \/ \E r \in Runs : \/ Respond(r)
                           \/ \E o \in Objectives : Consult(r, o) \/ AskModel(r, o) \/ Persist(r, o)

Spec == Init /\ [][Next]_vars

-----------------------------------------------------------------------------
(* Properties *)

\* A row may be trusted on evidence its workbook no longer has only if that
\* evidence moved while the verdict was being made, or moved with a supersession
\* link: every tag edit flags the rows it makes stale, whoever wrote them and
\* however often the tags change back and forth.
StaleTrustExplained ==
    \A c \in Cells :
       /\ IsTrusted(row[c])
       /\ ~row[c].exempt
       /\ row[c].shown \cap Own(c[1]) # Bundle(c[2]) \cap Own(c[1])
       => row[c].moved

\* Column N never carries a status that its row did not show as trusted when an
\* apply read it, although the row may be flagged or replaced before the write.
ExportsOnlyTrusted ==
    \A w \in Workbooks, o \in Objectives :
       /\ columnN[<<w, o>>] \in trusted[<<w, o>>] \cup {Blank}
       /\ export[w][o] \in trusted[<<w, o>>] \cup {Blank, NoRow}

\* After a reviewer overrides a verdict, the next run of the cell finds none of
\* the decisions that were cached before the override.
OverrideIsNotReplayed ==
    \A c \in Cells : \A e \in beforeOverride[c] :
       e.key.objective = c[2] => e.key.epoch # epoch[c]

\* A trusted verdict rests on the evidence its workbook has when it is written:
\* evidence that lands while the model thinks does not leave it trusted.
WrittenOnCurrentEvidence ==
    [][\A r \in Runs, o \in Objectives : Persist(r, o) =>
         LET c == <<Book[r], o>> IN
            row'[c] # row[c] /\ IsTrusted(row'[c]) /\ ~row'[c].exempt
            => shown[r][o] \cap Own(Book[r]) = Bundle(o) \cap Own(Book[r])]_vars

\* A run that read a cell's epoch before a reviewer's edit does not overwrite the edit.
ReviewSurvivesOlderRuns ==
    [][\A r \in Runs, o \in Objectives : Persist(r, o) =>
         LET c == <<Book[r], o>> IN
            row[c] # NoRow /\ row[c].human /\ row'[c] # row[c] => since[r][o] = epoch[c]]_vars

=============================================================================
