------------------------------ MODULE Overlays ------------------------------
(***************************************************************************)
(* The CRM overlays of one workbook and one assessment row under them:     *)
(* routes/workbooks.py opens the workbook and attaches and detaches,       *)
(* routes/catalog.py imports and replaces, routes/baselines.py refreshes   *)
(* and deletes, engine/crm_backfill.py writes, heals and purges rows,      *)
(* while a run of routes/controls.py saves what it decided under the       *)
(* overlays it once read and a reviewer saves a form loaded earlier.       *)
(*                                                                         *)
(* Ids are the rowids of SQLite, which reuses those of deleted rows; its   *)
(* foreign keys refuse a row that names a deleted one.                     *)
(***************************************************************************)
EXTENDS KernelRules

CONSTANTS CrmFiles,  \* paths of CRM files
          Contents,  \* what a CRM file may say of the control, under a label or none
          Files,     \* rows the workbook file may hold
          MaxCrm,    \* bound on the ids of CRM baselines
          MaxSteps,  \* bound on the steps of a behaviour
          Nothing    \* no row, no baseline, no form, no run

Testers == {"human", "blank"}    \* whom a reviewer's form names

Content == [path : CrmFiles, label : ScopeLabels \cup {None},
            cloud : Responsibilities \cup {None}, prem : Responsibilities \cup {None}]

AssessmentRow == [status : Statuses, source : {"crm", "8a", "8b", "llm", "abstain", None},
                  tester : Testers \cup {"system"}, review : BOOLEAN,
                  how : {"backfill", "unsliced", "purge", "run", "abstain", "edit", "blind"}]

ASSUME OverlayAssumption == /\ Contents \subseteq Content
                            /\ MaxCrm \in Nat
                            /\ Nothing \notin Contents \cup AssessmentRow

VARIABLES file,      \* the row as the workbook file has it
          scoped,    \* the opened workbook's baseline lists the objective
          crm,       \* CRM baselines by id
          attached,  \* ids of the overlays, newest first
          pending,   \* the overlay whose attach has not run its backfill
          saved,     \* the assessment row
          impls,     \* its implementation rows
          lastId,    \* the last id of another row's implementation rows
          form,      \* the implementation rows a reviewer's form shows
          run,       \* the overlays an unsaved run has read
          outdated,      \* the run or the saved row outlived an overlay it read
          steps

overlayVars == <<file, scoped, crm, attached, pending, saved, impls, lastId, form, run,
                 outdated, steps>>

-----------------------------------------------------------------------------
(* What build_crm_context reads: the attached overlays and their ids.      *)

Context == [ids |-> attached, seen |-> [i \in DOMAIN attached |-> crm[attached[i]]]]

IsListed(ctx) == \E i \in DOMAIN ctx.seen : Lists(ctx.seen[i])

First(ctx, label) ==
    CHOOSE i \in DOMAIN ctx.seen :
        /\ Sliced(ctx.seen[i]) /\ ctx.seen[i].label = label
        /\ \A h \in 1..(i - 1) : ~(Sliced(ctx.seen[h]) /\ ctx.seen[h].label = label)

IsReal(ctx, label) == \E s \in RealSlices(ctx.seen) : s.label = label

(* The synthesized local scope comes last and names no baseline.           *)
Position(ctx, label) == IF IsReal(ctx, label) THEN First(ctx, label)
                        ELSE Len(ctx.seen) + 1
SourceOf(ctx, label) == IF IsReal(ctx, label) THEN ctx.ids[First(ctx, label)] ELSE Nothing

Decision(status, byScope, forced) ==
    [status |-> status, byScope |-> byScope, forced |-> forced]

PlansOf(ctx, d) ==
    LET plans == PlanImplementations(d, Slices(ctx.seen))
    IN  {[id |-> lastId + 1
                 + Cardinality({q \in plans : Position(ctx, q.label) < Position(ctx,
                                                                                p.label)}),
          label |-> p.label, status |-> p.status, from |-> SourceOf(ctx, p.label)] :
             p \in plans}

SourcesExist(plans) == \A c \in {p.from : p \in plans} \ {Nothing} : crm[c] # Nothing

(* persist_assessment_with_impls: without slices the old rows stay.        *)
Persisted(ctx, d, old, row) ==
    LET plans == PlansOf(ctx, d)
    IN  [saved |-> [row EXCEPT !.status = IF plans = {} \/ d.status = None THEN @
                                          ELSE ComputeRollupStatus(plans),
                               !.how = IF plans = {} THEN "unsliced" ELSE @],
         impls |-> IF plans = {} THEN old ELSE plans]

RowOf(status, source, tester, review, how) ==
    [status |-> status, source |-> source, tester |-> tester, review |-> review,
     how |-> how]

Keep == [saved |-> saved, impls |-> impls]
Removed == [saved |-> Nothing, impls |-> {}]

-----------------------------------------------------------------------------
(* engine/crm_backfill.py *)

IsCrmDerived(s) == s.source = "crm" /\ s.tester # "human"

IsHealable(s) == s.tester # "human" /\ (IsCrmDerived(s) \/ s.source = "8a")

FlexIsInherited(ctx) == /\ Synthesized(Slices(ctx.seen))
                        /\ ResolveColLFlexStatus(file) = "inherited"

CloudsAreDeterministic(ctx) ==
    LET resps == {s.resp : s \in RealSlices(ctx.seen)}
    IN  resps # {} /\ resps \subseteq ShortCircuit

(* The workbook's baseline and file list the objective, an overlay does.   *)
Concerns(ctx) == scoped /\ file.listed /\ IsListed(ctx)

(* Columns and slices settle the control, and not as an NA that column D   *)
(* does not allow.                                                         *)
Deterministic(ctx) ==
    LET entry == Entry(ctx.seen)
        slices == Slices(ctx.seen)
    IN  /\ IF slices # {}
           THEN CloudsAreDeterministic(ctx) /\ (Synthesized(slices) => FlexIsInherited(ctx))
           ELSE /\ DistinctScopeLabelCount(ctx.seen) < 2
                /\ entry.cloud \in ShortCircuit
        /\ ~file.d => FlexIsInherited(ctx) \/ "inherited" \in {entry.cloud, entry.prem}

CrmDecision(ctx) ==
    LET entry == Entry(ctx.seen)
        counted == {entry.cloud} \cup IF FlexIsInherited(ctx) THEN {} ELSE {entry.prem}
        labels == {s.label : s \in Slices(ctx.seen)}
    IN  Decision(IF "inherited" \in counted THEN "C" ELSE "NA",
                 [l \in labels |-> "crm"],
                 [l \in {x \in {OnPrem} : FlexIsInherited(ctx)} |-> "C"])

(* backfill_workbook_crm on this objective; a text that clashes with its   *)
(* status writes nothing.                                                  *)
CrmBackfill(ctx, s, old, wording) ==
    LET same == [saved |-> s, impls |-> old]
        d == CrmDecision(ctx)
        whole == RowOf(d.status, "crm", "system", FALSE, "backfill")
    IN  IF ~Concerns(ctx) THEN same
        ELSE IF ~Deterministic(ctx)
             THEN IF s # Nothing /\ IsHealable(s) THEN Removed ELSE same
        ELSE IF s = Nothing
             THEN IF wording = "clash" THEN same ELSE Persisted(ctx, d, {}, whole)
        ELSE IF \/ ~IsHealable(s)
                \/ Cardinality(old) >= Cardinality(Slices(ctx.seen))
                \/ wording = "clash"
             THEN same
        ELSE Persisted(ctx, d, old, [whole EXCEPT !.review = s.review])

IsStaleNa(s) == /\ ~file.d
                /\ \/ s.source = "8b" /\ s.tester # "human"
                   \/ s.status = "NA"

(* A rule settles the row, and no customer-owned slice speaks against it.  *)
RuleApplies(fits) ==
    \/ ClassifyRow(file) = "8b"
    \/ /\ ClassifyRow(file) = "8a"
       /\ RealSlices(Context.seen) = {} \/ CloudsAreDeterministic(Context)
       /\ fits

Ruled == [saved |-> RowOf(IF file.d THEN "NA" ELSE "C", ClassifyRow(file), "system", FALSE,
                          "backfill"),
          impls |-> {}]

(* backfill_workbook_rules on this objective: column D overrules anybody.  *)
RuleBackfill(s, old, fits) ==
    LET base == IF s # Nothing /\ IsStaleNa(s) THEN Removed
                ELSE [saved |-> s, impls |-> old]
    IN  IF (base.saved # Nothing /\ ~file.d) \/ ~RuleApplies(fits) THEN base ELSE Ruled

ScopesWithout(c) == {i \in impls : i.from # c}

(* Mutant: the parent keeps its status. *)
PurgeKeepsStatus(c) ==
    LET left == ScopesWithout(c)
    IN  IF left = impls THEN Keep
        ELSE IF left = {} /\ IsCrmDerived(saved) THEN Removed
        ELSE [saved |-> saved, impls |-> left]

(* purge_baseline_contribution: a row goes with its last scope if the CRM   *)
(* wrote it, and otherwise takes the roll-up of the scopes that are left.  *)
Purge(c) ==
    LET left == ScopesWithout(c)
        rolled == ComputeRollupStatus(left)
    IN  IF left = impls \/ saved = Nothing THEN Keep
        ELSE IF left = {} THEN IF IsCrmDerived(saved) THEN Removed
                               ELSE [saved |-> saved, impls |-> {}]
        ELSE [saved |-> IF rolled = None THEN saved
                        ELSE [saved EXCEPT !.status = rolled, !.how = "purge"],
              impls |-> left]

Write(r) == saved' = r.saved /\ impls' = r.impls

-----------------------------------------------------------------------------
(* The requests *)

Step == steps < MaxSteps /\ steps' = steps + 1

Attached(c) == \E i \in DOMAIN attached : attached[i] = c

Without(c) ==
    LET i == CHOOSE i \in DOMAIN attached : attached[i] = c
    IN  IF Attached(c) THEN SubSeq(attached, 1, i - 1) \o SubSeq(attached, i + 1, Len(attached))
        ELSE attached

(* What an unsaved run has read of the overlay is no longer so.            *)
Outdates(c) == outdated' = (outdated \/ (run # Nothing
                                         /\ \E i \in DOMAIN run.ids : run.ids[i] = c))

(* Applying the CCIS source deprecates what the file no longer lists.      *)
Rescoped == file.listed

(* The file is read again for every backfill, the baseline only here.      *)
OpenWorkbook(fits) ==
    /\ Step
    /\ scoped' = Rescoped
    /\ IF file.listed THEN Write(RuleBackfill(saved, impls, fits)) ELSE Write(Keep)
    /\ UNCHANGED <<file, crm, attached, pending, lastId, form, run, outdated>>

EditFile(f) ==
    /\ Step
    /\ file' = f
    /\ UNCHANGED <<scoped, crm, attached, pending, saved, impls, lastId, form, run, outdated>>

(* The overlay is committed, the backfill follows in the same request.     *)
AttachRow(c) ==
    /\ pending = Nothing
    /\ crm[c] # Nothing
    /\ ~Attached(c)
    /\ Step
    /\ attached' = <<c>> \o attached
    /\ pending' = c
    /\ UNCHANGED <<file, scoped, crm, saved, impls, lastId, form, run, outdated>>

AttachBackfill(wording) ==
    /\ pending # Nothing
    /\ pending' = Nothing
    /\ Write(CrmBackfill(Context, saved, impls, wording))
    /\ UNCHANGED <<file, scoped, crm, attached, lastId, form, run, outdated, steps>>

(* An unreadable file, an error or the end of the process in between.      *)
AttachFails ==
    /\ pending # Nothing
    /\ pending' = Nothing
    /\ UNCHANGED <<file, scoped, crm, attached, saved, impls, lastId, form, run, outdated,
                   steps>>

Detach(c) ==
    /\ Attached(c)
    /\ Step
    /\ Write(Purge(c))
    /\ attached' = Without(c)
    /\ Outdates(c)
    /\ UNCHANGED <<file, scoped, crm, pending, lastId, form, run>>

NextCrm(rest) == 1 + Cardinality({c \in 1..MaxCrm : \E d \in c..MaxCrm : rest[d] # Nothing})

(* _upsert_baseline: path and label, or no label, find the baseline; it is *)
(* inserted when there is none.                                            *)
Target(baselines, o) ==
    LET same == {c \in 1..MaxCrm : /\ baselines[c] # Nothing
                                   /\ baselines[c].path = o.path
                                   /\ baselines[c].label = o.label}
    IN  IF same # {} THEN CHOOSE c \in same : TRUE ELSE NextCrm(baselines)

WriteContent(baselines, c, o) == [baselines EXCEPT ![c] = o]

(* The file of the baseline is read again, without a label: one that has a  *)
(* label stays as it is, attached or not, and a baseline of the same file   *)
(* without a label, a new one if there is none, takes what the file says.   *)
(* No row is derived from it.                                               *)
RefreshBaseline(c, o) ==
    /\ crm[c] # Nothing
    /\ o.path = crm[c].path
    /\ o.label = None
    /\ Target(crm, o) <= MaxCrm
    /\ Step
    /\ crm' = WriteContent(crm, Target(crm, o), o)
    /\ UNCHANGED <<file, scoped, attached, pending, saved, impls, lastId, form, run, outdated>>

DeleteBaseline(c) ==
    /\ crm[c] # Nothing
    /\ Step
    /\ Write(Purge(c))
    /\ crm' = [crm EXCEPT ![c] = Nothing]
    /\ attached' = Without(c)
    /\ Outdates(c)
    /\ UNCHANGED <<file, scoped, pending, lastId, form, run>>

(* The baseline of another file under the label.                           *)
Prior(o) == {c \in 1..MaxCrm : /\ crm[c] # Nothing
                                /\ o.label # None
                                /\ crm[c].label = o.label
                                /\ crm[c].path # o.path}

(* A file for a label that another file holds takes its place: overlays    *)
(* and contributions go, and nothing attaches the new one; a file that is  *)
(* imported again under its label is written in place, attached or not. A  *)
(* file that proves unreadable behind the removal is a DeleteBaseline.     *)
ImportOverlay(o) ==
    LET prior == Prior(o)
        rest == [c \in 1..MaxCrm |-> IF c \in prior THEN Nothing ELSE crm[c]]
    IN  /\ Target(rest, o) <= MaxCrm
        /\ Step
        /\ crm' = WriteContent(rest, Target(rest, o), o)
        /\ IF prior = {} THEN Write(Keep) /\ UNCHANGED <<attached, outdated>>
           ELSE LET c == CHOOSE c \in prior : TRUE
                IN  Write(Purge(c)) /\ attached' = Without(c) /\ Outdates(c)
        /\ UNCHANGED <<file, scoped, pending, lastId, form, run>>

(* The same path opened later is a new workbook, usually of the same id; a  *)
(* run under way lost its own record and can save nothing.                 *)
DeleteWorkbook ==
    /\ pending = Nothing
    /\ Step
    /\ Write(Removed)
    /\ attached' = <<>>
    /\ scoped' = FALSE
    /\ run' = Nothing
    /\ outdated' = FALSE
    /\ UNCHANGED <<file, crm, pending, lastId, form>>

-----------------------------------------------------------------------------
(* The writers beside them *)

ReadForRun ==
    /\ run = Nothing
    /\ Step
    /\ run' = Context
    /\ outdated' = (outdated /\ impls # {})
    /\ UNCHANGED <<file, scoped, crm, attached, pending, saved, impls, lastId, form>>

(* What the kernel may decide from the overlays it was handed.             *)
Outcomes(ctx) ==
    IF file.d THEN {<<Decision("NA", <<>>, <<>>), "8b">>}
    ELSE IF ClassifyRow(file) = "8a" /\ Slices(ctx.seen) = {}
         THEN {<<Decision("C", <<>>, <<>>), "8a">>}
    ELSE {<<Decision(status, told, <<>>), IF status = None THEN "abstain" ELSE "llm">> :
              status \in {"C", "NC", None},
              told \in {<<>>, [l \in {OnPrem} |-> "C"]}}
         \cup IF IsListed(ctx) /\ Deterministic(ctx)
              THEN {<<CrmDecision(ctx), "crm">>} ELSE {}

(* An abstention is saved as non-compliant and for review; the tester is   *)
(* the one of the settings.                                                *)
SaveRun(o) ==
    LET status == IF o[1].status = None THEN "NC" ELSE o[1].status
        row == RowOf(status, o[2], "human", TRUE,
                     IF o[1].status = None THEN "abstain" ELSE "run")
    IN  /\ run # Nothing
        /\ o \in Outcomes(run)
        /\ SourcesExist(PlansOf(run, o[1]))
        /\ Write(Persisted(run, o[1], IF saved = Nothing THEN {} ELSE impls, row))
        /\ run' = Nothing
        /\ UNCHANGED <<file, scoped, crm, attached, pending, lastId, form, outdated, steps>>

(* The savepoint or the request is rolled back whole.                      *)
RunFails(o) ==
    /\ run # Nothing
    /\ o \in Outcomes(run)
    /\ ~SourcesExist(PlansOf(run, o[1]))
    /\ run' = Nothing
    /\ outdated' = (outdated /\ impls # {})
    /\ UNCHANGED <<file, scoped, crm, attached, pending, saved, impls, lastId, form, steps>>

(* A page shows the row; form data survive what happens to the row.        *)
LoadForm ==
    /\ saved # Nothing
    /\ form = Nothing
    /\ Step
    /\ form' = impls
    /\ UNCHANGED <<file, scoped, crm, attached, pending, saved, impls, lastId, run, outdated>>

(* Rows are found by their ids, and ids that are gone are passed over.     *)
Edited(status) ==
    {IF \E f \in form : f.id = i.id THEN [i EXCEPT !.status = status] ELSE i : i \in impls}

ReviewerSaves(status, tester) ==
    LET edited == IF form = {} THEN impls ELSE Edited(status)
        rolled == ComputeRollupStatus(edited)
        source == IF saved = Nothing THEN None ELSE saved.source
        whole == RowOf(status, source, tester, FALSE, IF impls = {} THEN "edit" ELSE "blind")
    IN  /\ form # Nothing
        /\ IF file.d
           THEN /\ form = {}
                /\ Write([saved |-> RowOf("NA", "8b", tester, FALSE, "edit"), impls |-> {}])
           ELSE Write([saved |-> IF form = {} \/ rolled = None THEN whole
                                 ELSE [whole EXCEPT !.status = rolled, !.how = "edit"],
                       impls |-> edited])
        /\ form' = Nothing
        /\ UNCHANGED <<file, scoped, crm, attached, pending, lastId, run, outdated, steps>>

(* Another objective's rows are inserted behind this one's.                *)
OtherRow ==
    /\ lastId = 0
    /\ impls # {}
    /\ lastId' = Cardinality(impls)
    /\ Step
    /\ UNCHANGED <<file, scoped, crm, attached, pending, saved, impls, form, run, outdated>>

OverlayInit ==
    /\ file \in Files
    /\ scoped = FALSE
    /\ crm = [c \in 1..MaxCrm |-> Nothing]
    /\ attached = <<>>
    /\ pending = Nothing
    /\ saved = Nothing
    /\ impls = {}
    /\ lastId = 0
    /\ form = Nothing
    /\ run = Nothing
    /\ outdated = FALSE
    /\ steps = 0

OverlayNext ==
    \/ \E fits \in BOOLEAN : OpenWorkbook(fits)
    \/ \E f \in Files : EditFile(f)
    \/ \E c \in 1..MaxCrm : AttachRow(c) \/ Detach(c) \/ DeleteBaseline(c)
    \/ \E w \in {"fits", "clash"} : AttachBackfill(w)
    \/ AttachFails
    \/ \E c \in 1..MaxCrm, o \in Contents : RefreshBaseline(c, o)
    \/ \E o \in Contents : ImportOverlay(o)
    \/ DeleteWorkbook
    \/ ReadForRun
    \/ run # Nothing /\ \E o \in Outcomes(run) : SaveRun(o) \/ RunFails(o)
    \/ LoadForm
    \/ \E status \in {"C", "NC"}, t \in Testers : ReviewerSaves(status, t)
    \/ OtherRow

OverlaySpec == OverlayInit /\ [][OverlayNext]_overlayVars

-----------------------------------------------------------------------------
OverlayTypeOK ==
    /\ \A c \in 1..MaxCrm : crm[c] = Nothing \/ crm[c] \in Contents
    /\ \A i \in DOMAIN attached : crm[attached[i]] # Nothing
    /\ pending \in {Nothing} \cup 1..MaxCrm
    /\ saved \in AssessmentRow \cup {Nothing}
    /\ \A i \in impls : i.from \in {Nothing} \cup 1..MaxCrm /\ i.label \in ScopeLabels
    /\ impls # {} => saved # Nothing

(* An implementation row speaks for an attached overlay, or for the local  *)
(* scope; only a run that read an overlay before it went can say otherwise. *)
ScopesAreAttached ==
    \A i \in impls : \/ i.from = Nothing
                     \/ Attached(i.from)
                     \/ outdated

(* The row says what its scopes add up to, unless its last writer had seen *)
(* none of them or had not decided.                                        *)
RowIsItsRollup ==
    \/ impls = {}
    \/ ComputeRollupStatus(impls) \in {None, saved.status}
    \/ saved.how \in {"unsliced", "blind", "abstain"}

(* A backfill has nothing left to do after itself, so an attach that failed *)
(* behind its commit can be made good by any later one.                    *)
BackfillIsIdempotent ==
    LET once == CrmBackfill(Context, saved, impls, "fits")
    IN  CrmBackfill(Context, once.saved, once.impls, "fits") = once

(* What a named person or the model decided is taken away by column D, by   *)
(* an NA that column D no longer allows, or with the workbook: by nothing  *)
(* that happens to overlays.                                               *)
DecidedRowsStay ==
    [][(/\ saved # Nothing /\ saved.tester = "human"
        /\ saved' = Nothing \/ saved'.tester = "system")
          => ~scoped' \/ file.d \/ saved.status = "NA"]_overlayVars

(* The rows under the overlays, from every side.                           *)
OverlaySafe ==
    /\ [](OverlayTypeOK /\ ScopesAreAttached /\ RowIsItsRollup /\ BackfillIsIdempotent)
    /\ DecidedRowsStay

=============================================================================
