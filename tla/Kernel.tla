------------------------------- MODULE Kernel -------------------------------
(***************************************************************************)
(* The assessment of one control objective (engine/assessor.py), from the  *)
(* deterministic cascade over the decision cache and the propose/validate  *)
(* loop to the saved row and its implementation rows                       *)
(* (engine/impl_persistence.py), run again and again while CRM overlays    *)
(* are attached and detached, evidence is retagged and the workbook row    *)
(* changes.                                                                *)
(***************************************************************************)
EXTENDS KernelRules

CONSTANTS Rows,        \* workbook rows the objective may have
          Overlays,    \* CRM overlays, as they list the control
          Sources,     \* what the evidence queries return
          Proposals,   \* answers of the model
          MaxOverlays, MaxEdits, MaxCalls,
          MaxRetries   \* DEFAULT_MAX_RETRIES

(* The data of the code's records that the kernel looks at.                *)
RowType == [d : BOOLEAN, k : {None, "bare", "auto", "internal"}, csp : BOOLEAN,
            l : BOOLEAN, m : BOOLEAN]
OverlayType == [label : ScopeLabels \cup {None}, cloud : Responsibilities \cup {None},
                prem : Responsibilities \cup {None}]
SourceType == [tagged : BOOLEAN, coverage : BOOLEAN, nonscan : BOOLEAN, overflow : BOOLEAN]
Halves == Statuses \cup {None, "AMB"}
Phrases == {"affirm", "na", "gap", "weak", "near_C", "near_NC", "near_NA", "negated"}
Narratives == [chunks : Seq(SUBSET Phrases), boundary : BOOLEAN,
               flaws : SUBSET {"restates", "future", "cite", "quote"}]
AnswerType == [abstain : BOOLEAN, garbled : BOOLEAN, status : Statuses, narr : Narratives,
               sure : {"yes", "no", "unsaid"}, prem : Halves, cloud : Halves,
               own : [ScopeLabels -> Halves],
               misplaced : SUBSET {"provider_words", "customer_words"}]

ASSUME KernelAssumption == /\ MaxOverlays \in Nat
                           /\ {MaxEdits, MaxCalls} \subseteq Nat
                           /\ MaxRetries \in Nat
                           /\ OnPrem \notin Clouds /\ None \notin ScopeLabels
                           /\ Rows \subseteq RowType
                           /\ Overlays \subseteq OverlayType
                           /\ Sources \subseteq SourceType
                           /\ Proposals \subseteq AnswerType

VARIABLES row, overlays, src,
          dual,      \* DUAL_PASS_ENABLED of this build
          dcache,    \* decision cache: fingerprints with their decisions
          call,      \* the assess call: where it stands, forced, attempt
          decision,  \* what the last call returned
          saved,     \* the assessment row
          impls,     \* its implementation rows
          edits,     \* changes of the environment so far
          calls      \* assess calls so far

kernelVars == <<row, overlays, src, dual, dcache, call, decision, saved, impls, edits,
                calls>>

Empty == [l \in {} |-> None]    \* the function of empty domain

Decide(status, source, byScope, forced) ==
    [status |-> status, source |-> source, accepted |-> TRUE, review |-> FALSE,
     byScope |-> byScope, forced |-> forced, flagged |-> FALSE]

Abstain(byScope) == [Decide(None, "abstain", byScope, Empty) EXCEPT !.review = TRUE]

Refused(source) == [Decide(None, source, Empty, Empty) EXCEPT !.accepted = FALSE]

NoCall == [pc |-> "idle", force |-> FALSE, try |-> 0]

NoRow == [status |-> None, review |-> FALSE, source |-> None]

-----------------------------------------------------------------------------
(* The evidence block: no tagged artifact leaves at most the coverage      *)
(* report, and a builder that raised leaves nothing.                       *)

Block == [text |-> IF src.tagged THEN "tagged" ELSE IF src.coverage THEN "coverage" ELSE None,
          artifacts |-> src.tagged,
          nonscan |-> src.nonscan,
          overflow |-> src.tagged /\ src.overflow]

IsOnlyContext(block) == block.text # None /\ ~block.artifacts

-----------------------------------------------------------------------------
(* The CRM block of _run *)

entry == Entry(overlays)
slices == Slices(overlays)
flex == ResolveColLFlexStatus(row)
specified == {entry.cloud, entry.prem} \ {None}

AllInheritable == specified # {} /\ specified \subseteq ShortCircuit

CloudsAllInheritable == /\ slices # {}
                        /\ \A s \in slices : s.label # OnPrem => s.resp \in ShortCircuit

SliceHasCustomerWork == \/ \E s \in slices : s.real /\ s.resp \in CustomerOwned
                        \/ Synthesized(slices) /\ flex = "assess"

SuppressShortCircuit ==
    \/ /\ AllInheritable
       /\ "inherited" \notin specified
       /\ Block.artifacts \/ ~IsColumnDNotApplicable(row)
    \/ AllInheritable /\ entry.prem = None /\ Block.artifacts
    \/ SliceHasCustomerWork
    \/ slices = {} /\ DistinctScopeLabelCount(overlays) >= 2

NeedsHybridBlock == /\ Lists(entry)
                    /\ \/ "hybrid" \in specified
                       \/ Cardinality(specified) = 2
                       \/ SuppressShortCircuit

(* What the responsibility-split block in front of the evidence says.      *)
HybridBlock == IF ~NeedsHybridBlock THEN {}
               ELSE IF SliceHasCustomerWork THEN slices ELSE {entry}

SettledByRule == \/ ClassifyRow(row) = "8b"
                 \/ ClassifyRow(row) = "8a" /\ slices = {}

(* A control sliced by platform, whose local scope column L settles.       *)
SettledByColumnL == /\ Lists(entry)
                    /\ Synthesized(slices)
                    /\ CloudsAllInheritable
                    /\ flex = "inherited" \/ ~Block.artifacts

SettledByCrm == /\ Lists(entry)
                /\ ~Synthesized(slices)
                /\ AllInheritable
                /\ ~SuppressShortCircuit

HasNoEvidence == Block.text = None \/ IsOnlyContext(Block)

(* The first step of the cascade that settles the call; forcing the model  *)
(* skips all but the rule.                                                 *)
Route(force) ==
    IF SettledByRule THEN "rule"
    ELSE IF force THEN "model"
    ELSE IF SettledByColumnL
         THEN [inherited |-> "crm", assess |-> "gap", escalate |-> "abstain"][flex]
    ELSE IF SettledByCrm THEN "crm"
    ELSE IF HasNoEvidence THEN "no_evidence"
    ELSE IF Block.overflow THEN "abstain"
    ELSE "model"

(* The formatter's or the CRM's text, after the chain rewrite, meets the    *)
(* validator: it fits, is ambiguous, or clashes with the status.           *)
Wordings == {"fits", "ambiguous", "clash"}

FinalizeRule(wording) ==
    IF wording = "fits" \/ (wording = "ambiguous" /\ ClassifyRow(row) = "8b")
    THEN Decide(IF ClassifyRow(row) = "8b" THEN "NA" ELSE "C", "rule", Empty, Empty)
    ELSE Refused("rule")

(* With the flex slice inherited only the cloud responsibility counts.      *)
CountedInCrm == IF Synthesized(slices) THEN {entry.cloud} \ {None} ELSE specified

CrmStatus == IF "inherited" \in CountedInCrm THEN "C" ELSE "NA"

(* The scopes with a text of their own, and the one column L settles.       *)
CrmScopes == {s.label : s \in {t \in slices : Synthesized(slices) \/ t.real}}
CrmForced == [l \in {x \in {OnPrem} : Synthesized(slices)} |-> "C"]

(* An ambiguous CRM text passes with a lead-in sentence; with no counted    *)
(* responsibility the status lookup raises.                                 *)
FinalizeCrm(wording) ==
    IF CountedInCrm = {} THEN Refused("raised")
    ELSE IF wording = "clash" THEN Abstain(Empty)
    ELSE Decide(CrmStatus, "crm", [l \in CrmScopes |-> "crm"], CrmForced)

FinalizePhysicalOnpremGap ==
    LET forced == [l \in {s.label : s \in slices} |->
                     IF l = OnPrem THEN "NC"
                     ELSE IF \E s \in slices : /\ s.label = l
                                               /\ s.resp \in {"provider", "not_applicable"}
                     THEN "NA" ELSE "C"]
        stub == Decide("NC", "crm", [l \in DOMAIN forced |-> "crm"], forced)
    IN  [stub EXCEPT !.status = ComputeRollupStatus(PlanImplementations(stub, slices))]

Settle(route, wording) ==
    IF route = "rule" THEN FinalizeRule(wording)
    ELSE IF route = "crm" THEN FinalizeCrm(wording)
    ELSE IF route = "gap" THEN FinalizePhysicalOnpremGap
    ELSE IF route = "no_evidence" THEN Decide("NC", "no_evidence", Empty, Empty)
    ELSE Abstain(Empty)

-----------------------------------------------------------------------------
(* The decision cache: neither the slices nor columns Q/U are in the key.   *)

Fingerprint == [row |-> [row EXCEPT !.csp = FALSE], text |-> <<src, HybridBlock>>,
                crm |-> entry]

Cached == {c \in dcache : c.fp = Fingerprint}

Evicted(c) == ~IsColumnDNotApplicable(row) /\ c.dec.status = "NA"

Store(dec) == IF dec.review \/ ~dec.accepted \/ dec.status = None \/ Cached # {}
              THEN dcache ELSE dcache \cup {[fp |-> Fingerprint, dec |-> dec]}

-----------------------------------------------------------------------------
(* Actions of a call *)

Return(dec) == /\ call' = [call EXCEPT !.pc = "decided", !.try = 0]
               /\ decision' = dec

Unmoved == UNCHANGED <<row, overlays, src, dual, saved, impls, edits, calls>>

(* A call may start: nothing is running and the last decision was written. *)
Resting == call.pc \in {"idle", "saved"}

Start == /\ Resting
         /\ calls < MaxCalls
         /\ calls' = calls + 1
         /\ UNCHANGED <<row, overlays, src, dual, saved, impls, edits>>

AssessDeterministic(force, wording) ==
    /\ Start
    /\ Route(force) # "model"
    /\ call' = [pc |-> "decided", force |-> force, try |-> 0]
    /\ decision' = Settle(Route(force), wording)
    /\ UNCHANGED dcache

AssessCached(force) ==
    /\ Start
    /\ Route(force) = "model"
    /\ ~force
    /\ \E c \in Cached : /\ ~Evicted(c)
                         /\ decision' = [c.dec EXCEPT !.source = "cache"]
    /\ call' = [pc |-> "decided", force |-> force, try |-> 0]
    /\ UNCHANGED dcache

(* A cached N/A the workbook does not declare is deleted; then the model   *)
(* is asked, if one is configured.                                         *)
AssessByModel(force, client) ==
    /\ Start
    /\ Route(force) = "model"
    /\ force \/ \A c \in Cached : Evicted(c)
    /\ dcache' = IF force THEN dcache ELSE dcache \ Cached
    /\ call' = [pc |-> IF client THEN "asking" ELSE "decided", force |-> force, try |-> 0]
    /\ decision' = IF client THEN decision ELSE Abstain(Empty)

Told(p) == NarrativesByScope(slices, p.prem, p.cloud, p.own)


(* Mutant: a scan counts as corroboration. *)
CorroboratedByAny == IF Block.artifacts THEN "yes" ELSE "no"

Corroborated == IF Block.nonscan THEN "yes" ELSE "no"


(* N/A is refused for a row column D keeps in scope, or with artifacts.    *)
Exempts(p) == /\ p.status = "NA"
              /\ ~IsColumnDNotApplicable(row) \/ Block.artifacts

Fails(p) == \/ Exempts(p)
            \/ Rejections(p.status, p.narr, Block.text # None \/ HybridBlock # {},
                          Corroborated) # {}

(* Two passes: an unreadable answer to a row that never had evidence is no  *)
(* evidence, any other abstention or a disagreement is for the reviewer.   *)
Diverging == {a \in Proposals \X Proposals :
                a[1].abstain \/ a[2].abstain \/ a[1].status # a[2].status}

Garbled(a) == IF a[1].abstain THEN a[1].garbled ELSE a[2].abstain /\ a[2].garbled

PassesDiffer ==
    /\ call.pc = "asking"
    /\ dual
    /\ \E garbled \in {Garbled(a) : a \in Diverging} :
          Return(IF garbled /\ HasNoEvidence
                 THEN Settle("no_evidence", "fits") ELSE Abstain(Empty))
    /\ UNCHANGED dcache
    /\ Unmoved

(* Two passes that agree go on as the first, as sure as the less sure one. *)
Agreed == {[a[1] EXCEPT !.sure = IF a[2].sure = "no" THEN "no" ELSE @] :
             a \in (Proposals \X Proposals) \ Diverging}

Answered == IF dual THEN Agreed ELSE Proposals

ModelAbstains(p) ==
    /\ call.pc = "asking"
    /\ p.abstain
    /\ Return(Abstain(Told(p)))
    /\ UNCHANGED dcache
    /\ Unmoved


ModelRejected(p) ==
    /\ call.pc = "asking"
    /\ ~p.abstain
    /\ Fails(p)
    /\ IF call.try = MaxRetries
       THEN Return(Abstain(Empty))
       ELSE call' = [call EXCEPT !.try = @ + 1] /\ UNCHANGED decision
    /\ UNCHANGED dcache
    /\ Unmoved

ModelHeld(p) ==
    /\ call.pc = "asking"
    /\ ~p.abstain
    /\ ~Fails(p)
    /\ p.sure = "no" \/ BoundaryConflict(p.narr, p.status)
    /\ Return(Abstain(Told(p)))
    /\ UNCHANGED dcache
    /\ Unmoved

HasCustomerScope == \/ \E s \in slices : s.resp \in CustomerOwned
                    \/ specified \cap CustomerOwned # {}

CheckedResponsibility == IF Cardinality(specified) = 2 THEN "hybrid"
                         ELSE IF entry.cloud # None THEN entry.cloud ELSE entry.prem


(* Column L settles the flex slice; when it forces a status every customer *)
(* cloud slice is pinned to the class of its own text.                     *)
AcceptedDecision(p) ==
    LET halves == IF p.prem = None /\ p.cloud = None
                  THEN <<ClassifyNarrative(p.narr), None>> ELSE <<p.prem, p.cloud>>
        told == IF HasCustomerScope
                THEN NarrativesByScope(slices, halves[1], halves[2], p.own)
                ELSE NarrativesByScope(slices, None, None, p.own)
        pie == Synthesized(slices)
        byScope == [l \in DOMAIN told \cup {x \in {OnPrem} : pie} |->
                      IF l = OnPrem /\ pie THEN "column_L" ELSE told[l]]
        pinned == {s.label : s \in {t \in slices : t.label # OnPrem
                                    /\ t.resp \in CustomerOwned}}
        Pin(l) == IF l = OnPrem THEN (IF flex = "inherited" THEN "C" ELSE "NC")
                  ELSE IF l \in DOMAIN byScope /\ ExpectedStatusForClass(byScope[l]) # None
                  THEN byScope[l] ELSE p.status
        forced == IF pie /\ flex # "escalate"
                  THEN [l \in pinned \cup {OnPrem} |-> Pin(l)] ELSE Empty
        dec == [Decide(p.status, "llm", byScope, forced) EXCEPT
                  !.flagged = DualNarrativeFlags(p.prem, p.cloud, CheckedResponsibility,
                                                 p.misplaced) # {}]
    IN  IF forced = Empty THEN dec
        ELSE [dec EXCEPT !.status = ComputeRollupStatus(PlanImplementations(dec, slices))]

ModelAccepted(p) ==
    /\ call.pc = "asking"
    /\ ~p.abstain
    /\ ~Fails(p)
    /\ p.sure # "no"
    /\ ~BoundaryConflict(p.narr, p.status)
    /\ LET dec == AcceptedDecision(p) IN Return(dec) /\ dcache' = Store(dec)
    /\ Unmoved

-----------------------------------------------------------------------------
(* persist_assessment_with_impls behind the coercion of abstains *)


Persist ==
    LET plans == PlanImplementations(decision, slices)
    IN  /\ call.pc = "decided"
        /\ decision.accepted
        /\ saved' = [status |-> IF decision.status = None THEN "NC"
                                ELSE IF plans = {} THEN decision.status
                                ELSE ComputeRollupStatus(plans),
                     review |-> decision.review,
                     source |-> decision.source]
        /\ impls' = IF plans = {} THEN impls ELSE plans
        /\ call' = [NoCall EXCEPT !.pc = "saved"]
        /\ UNCHANGED <<row, overlays, src, dual, dcache, decision, edits, calls>>

(* A refused decision and an exception leave the row as it was. *)
Drop ==
    /\ call.pc = "decided"
    /\ ~decision.accepted
    /\ call' = NoCall
    /\ decision' = Refused(None)
    /\ UNCHANGED dcache
    /\ Unmoved

(* Between two calls the workbook, its overlays and its evidence change.   *)
Change == /\ Resting
          /\ edits < MaxEdits
          /\ edits' = edits + 1
          /\ call' = NoCall
          /\ decision' = Refused(None)
          /\ UNCHANGED <<dual, dcache, saved, impls, calls>>

AttachOverlay(o) == /\ Len(overlays) < MaxOverlays
                    /\ overlays' = <<o>> \o overlays
                    /\ UNCHANGED <<row, src>>
                    /\ Change

DetachOverlay(i) == /\ overlays' = SubSeq(overlays, 1, i - 1)
                                   \o SubSeq(overlays, i + 1, Len(overlays))
                    /\ UNCHANGED <<row, src>>
                    /\ Change

ReopenWorkbook(r) == row' = r /\ UNCHANGED <<overlays, src>> /\ Change

RetagEvidence(s) == src' = s /\ UNCHANGED <<row, overlays>> /\ Change

KernelInit ==
    /\ row \in Rows
    /\ overlays \in UNION {[1..n -> Overlays] : n \in 0..MaxOverlays}
    /\ src \in Sources
    /\ dual \in BOOLEAN
    /\ dcache = {}
    /\ call = NoCall
    /\ decision = Refused(None)
    /\ saved = NoRow
    /\ impls = {}
    /\ edits = 0
    /\ calls = 0

Propose == \/ PassesDiffer
           \/ \E p \in Answered : \/ ModelAbstains(p)
                                 \/ ModelRejected(p)
                                 \/ ModelHeld(p)
                                 \/ ModelAccepted(p)

KernelNext ==
    \/ \E force \in BOOLEAN, w \in Wordings : AssessDeterministic(force, w)
    \/ \E force \in BOOLEAN : AssessCached(force)
    \/ \E force, client \in BOOLEAN : AssessByModel(force, client)
    \/ Propose
    \/ Persist
    \/ Drop
    \/ \E o \in Overlays : AttachOverlay(o)
    \/ \E i \in DOMAIN overlays : DetachOverlay(i)
    \/ \E r \in Rows : ReopenWorkbook(r)
    \/ \E s \in Sources : RetagEvidence(s)

KernelSpec == KernelInit /\ [][KernelNext]_kernelVars

-----------------------------------------------------------------------------
Texts == Statuses \cup {"AMB", "crm", "column_L"}

IsDecision(d) ==
    /\ d.status \in Statuses \cup {None}
    /\ d.source \in {None, "rule", "crm", "no_evidence", "abstain", "llm", "cache", "raised"}
    /\ {d.accepted, d.review, d.flagged} \subseteq BOOLEAN
    /\ DOMAIN d.byScope \cup DOMAIN d.forced \subseteq ScopeLabels
    /\ \A l \in DOMAIN d.byScope : d.byScope[l] \in Texts
    /\ \A l \in DOMAIN d.forced : d.forced[l] \in Statuses

(* The type invariant of the kernel's state. *)
KernelTypeOK ==
    /\ row \in Rows
    /\ src \in Sources
    /\ dual \in BOOLEAN
    /\ overlays \in Seq(Overlays) /\ Len(overlays) <= MaxOverlays
    /\ call \in [pc : {"idle", "asking", "decided", "saved"}, force : BOOLEAN,
                 try : 0..MaxRetries]
    /\ IsDecision(decision)
    /\ saved.status \in Statuses \cup {None}
    /\ impls \subseteq [label : ScopeLabels, resp : Responsibilities, status : Statuses
                        \cup {None}]
    /\ edits \in 0..MaxEdits
    /\ calls \in 0..MaxCalls

(* A verdict of Compliant rests on something: a rule #8a trigger, a scope   *)
(* the CRM has somebody else answer for, or an artifact of evidence; a      *)
(* cached one as much as a fresh one (the cascade of _run and the cache).   *)
PassHasBasis ==
    call.pc = "decided" /\ decision.status = "C" /\ ~call.force =>
        \/ ClassifyRow(row) = "8a"
        \/ "inherited" \in specified
        \/ Block.artifacts

(* On scan output alone the model's word passes no control, on any attempt  *)
(* or through the cache (validator.py, UNCORROBORATED_STIG_PASS).  What can *)
(* pass one is an on-premises scope that column L inherits from a named     *)
(* source: its roll-up with the other scopes replaces a Non-Compliant       *)
(* verdict by a Compliant one (assessor.py:2599-2604, although 2597-2598    *)
(* says that no verdict is relaxed), and a customer's cloud scope counts in *)
(* it by its own text, which nobody checks for corroboration.              *)
ScanPassIsInherited ==
    /\ call.pc = "decided"
    /\ decision.source \in {"llm", "cache"}
    /\ ~src.nonscan
    /\ decision.status = "C"
    => /\ slices # {} /\ flex = "inherited"
       /\ OnPrem \in DOMAIN decision.forced /\ decision.forced[OnPrem] = "C"

(* Nor is such a verdict saved Compliant unless a scope is somebody else's  *)
(* to answer: the provider's, an inherited one, or that of column L.        *)
ScanPassIsSharedOut ==
    /\ call.pc = "saved"
    /\ decision.source \in {"llm", "cache"}
    /\ ~src.nonscan
    /\ saved.status = "C"
    => \E p \in impls : /\ p.status = "C"
                        /\ p.resp \in Inheritable \/ (p.label = OnPrem /\ flex = "inherited")

(* The model never exempts an objective: Not Applicable is column D's to    *)
(* say, whatever the model proposes, retries or left in the cache.          *)
ModelNeverExempts ==
    call.pc = "decided" /\ decision.source \in {"llm", "cache"} => decision.status # "NA"

(* A locally owned on-premises scope is never saved Compliant on the back   *)
(* of the clouds: column L is its authority (plan_implementations).         *)
LocalScopeNeverRidesAlong ==
    /\ call.pc = "saved"
    /\ Synthesized(slices)
    /\ flex = "assess"
    => \A p \in impls : p.label = OnPrem => p.status # "C"

(* Where column L forced a scope, the decision in memory and the saved row  *)
(* carry the same status (the reconciliation before the cache store).       *)
ForcedRollupIsSaved ==
    /\ call.pc = "saved"
    /\ decision.source \in {"llm", "cache"}
    /\ decision.forced # Empty
    => saved.status = decision.status

(* An abstention is saved Non-Compliant and flagged for review, also when   *)
(* its CRM scopes alone would roll up to Compliant.                         *)
AbstainsAreHeld ==
    call.pc = "saved" /\ decision.status = None => saved.status = "NC" /\ saved.review

(* A verdict has the basis its status needs, on whichever of the paths      *)
(* through the kernel, its retries and its cache it was reached, and what   *)
(* is saved is what was decided.                                           *)
VerdictSafe ==
    /\ KernelTypeOK
    /\ PassHasBasis
    /\ ScanPassIsInherited
    /\ ScanPassIsSharedOut
    /\ ModelNeverExempts
    /\ LocalScopeNeverRidesAlong
    /\ ForcedRollupIsSaved
    /\ AbstainsAreHeld

=============================================================================
