---------------------------- MODULE KernelRules ----------------------------
(***************************************************************************)
(* The pure functions the assessment kernel is made of: rule #8 of         *)
(* engine/rules.py, the CRM view of engine/crm_context.py, the evidence    *)
(* block of engine/inputs.py, the narrative validator of                   *)
(* engine/validator.py and the per-scope plans of engine/assessor.py.      *)
(*                                                                         *)
(* A text is reduced to what the functions look for in it: a narrative is  *)
(* the sequence of its scope chunks, each the set of phrase kinds it hits, *)
(* with the set of flaws the validator searches for.                       *)
(***************************************************************************)
EXTENDS Naturals, Sequences, FiniteSets

CONSTANTS Clouds    \* scope labels of cloud platforms

None == "none"
OnPrem == "On-Premises"
ScopeLabels == Clouds \cup {OnPrem}

Statuses == {"C", "NC", "NA"}
Inheritable == {"provider", "inherited"}
ShortCircuit == Inheritable \cup {"not_applicable"}
CustomerOwned == {"customer", "hybrid"}
Responsibilities == ShortCircuit \cup CustomerOwned

(* A scope slice of a control; only the synthesized one is not "real",     *)
(* that is, has no source_baseline_id.                                     *)
Slice == [label : ScopeLabels, resp : Responsibilities, real : BOOLEAN]

-----------------------------------------------------------------------------
(* engine/rules.py: a row is column D, the triggers of columns K/J and Q/U, *)
(* the remote flag of column L and the named source of column M.           *)

IsColumnDNotApplicable(row) == row.d

ResolveColLFlexStatus(row) == IF ~row.l THEN "assess"
                              ELSE IF row.m THEN "inherited" ELSE "escalate"

ClassifyRow(row) ==
    IF IsColumnDNotApplicable(row) THEN "8b"
    ELSE IF \/ row.k \in {"auto", "internal"}
            \/ row.csp
            \/ (row.l /\ row.m)
         THEN "8a"
    ELSE IF row.l \/ row.k = "bare" THEN "8c"
    ELSE None

-----------------------------------------------------------------------------
(* build_crm_context: the overlays of the workbook, newest attached first,  *)
(* seen from one control.  An overlay whose two responsibilities are none   *)
(* does not list the control.                                              *)

Lists(o) == o.cloud # None \/ o.prem # None

Unlisted == [label |-> None, cloud |-> None, prem |-> None]

Listings(overlays) == {i \in DOMAIN overlays : Lists(overlays[i])}

Entry(overlays) ==
    IF Listings(overlays) = {} THEN Unlisted
    ELSE overlays[CHOOSE i \in Listings(overlays) : \A j \in Listings(overlays) : i <= j]

Sliced(o) == o.label # None /\ o.cloud # None

RealSlices(overlays) ==
    {[label |-> overlays[i].label, resp |-> overlays[i].cloud, real |-> TRUE] :
        i \in {j \in DOMAIN overlays :
                  /\ Sliced(overlays[j])
                  /\ \A h \in 1..(j - 1) :
                        Sliced(overlays[h]) => overlays[h].label # overlays[j].label}}

Slices(overlays) ==
    LET real == RealSlices(overlays)
    IN  IF real = {} \/ \E s \in real : s.label = OnPrem
        THEN real
        ELSE real \cup {[label |-> OnPrem, resp |-> "customer", real |-> FALSE]}

(* ScopeLabels of the workbook over all its controls; every labelled overlay    *)
(* lists some control.                                                     *)
DistinctScopeLabelCount(overlays) ==
    Cardinality({overlays[i].label : i \in DOMAIN overlays} \ {None, OnPrem})

Synthesized(slices) == \E s \in slices : s.label = OnPrem /\ ~s.real

-----------------------------------------------------------------------------
(* engine/validator.py *)

(* The TF-IDF fallback: the one anchor class above the threshold and clear  *)
(* of the second best, unless it affirms and the sentence is negated.      *)
EmbeddingClass(hits) ==
    LET near == hits \cap {"near_C", "near_NC", "near_NA"}
    IN  IF Cardinality(near) # 1 \/ {"near_C", "negated"} \subseteq hits THEN "AMB"
        ELSE IF near = {"near_C"} THEN "C"
        ELSE IF near = {"near_NC"} THEN "NC" ELSE "NA"

ClassifySingle(hits) ==
    IF Cardinality(hits \cap {"affirm", "na", "gap"}) >= 2 THEN "AMB"
    ELSE IF "na" \in hits THEN "NA"
    ELSE IF "gap" \in hits THEN "NC"
    ELSE IF hits \cap {"affirm", "weak"} # {} THEN "C"
    ELSE EmbeddingClass(hits)

MergeHybridClasses(classes) ==
    IF classes = {} \/ "AMB" \in classes THEN "AMB"
    ELSE IF "NC" \in classes THEN "NC"
    ELSE IF "C" \in classes THEN "C" ELSE "NA"

ClassifyNarrative(n) ==
    IF n.chunks = <<>> \/ "restates" \in n.flaws THEN "AMB"
    ELSE IF Len(n.chunks) = 1 THEN ClassifySingle(n.chunks[1])
    ELSE MergeHybridClasses({ClassifySingle(n.chunks[i]) : i \in DOMAIN n.chunks})

(* A class is named by the status it expects; an ambiguous one expects none. *)
ExpectedStatusForClass(class) == IF class \in Statuses THEN class ELSE None

(* The rejections of validate(): cites and quotes are looked up only when   *)
(* there is evidence text, corroboration is "unknown" without a block.     *)
Rejections(status, n, hasText, corroborated) ==
    {f \in n.flaws : /\ f = "future" => status = "C"
                     /\ f \in {"cite", "quote"} => hasText}
    \cup {r \in {"mismatch"} : ExpectedStatusForClass(ClassifyNarrative(n)) # status}
    \cup {r \in {"uncorroborated"} : status = "C" /\ corroborated = "no"}

(* The advisory check of the two halves: words of the other side in a half, *)
(* or a half the CRM responsibility does not call for.                     *)
DualNarrativeFlags(prem, cloud, resp, misplaced) ==
    {f \in misplaced : IF f = "provider_words" THEN prem # None ELSE cloud # None}
    \cup {f \in {"wrong_side"} : \/ (resp = "customer" /\ cloud # None)
                                 \/ (resp \in Inheritable /\ prem # None)}
    \cup {f \in {"empty"} : resp = "hybrid" /\ prem = None /\ cloud = None}

BoundaryConflict(n, status) == status \in {"C", "NC"} /\ n.boundary

-----------------------------------------------------------------------------
(* Per-scope plans of a decision *)

(* narratives_by_scope_from_proposal: the model's own text of a scope, or   *)
(* the half its side falls under; only customer-owned scopes get one.      *)
NarrativesByScope(slices, prem, cloud, own) ==
    LET Text(l) == IF own[l] # None THEN own[l] ELSE IF l = OnPrem THEN prem ELSE cloud
        told == {s.label : s \in {t \in slices : t.resp \in CustomerOwned}}
    IN  [l \in {x \in told : Text(x) # None} |-> Text(l)]


PlanStatus(d, s) ==
    IF s.label \in DOMAIN d.forced THEN d.forced[s.label]
    ELSE IF s.resp \in Inheritable THEN "C"
    ELSE IF s.resp = "not_applicable" THEN "NA"
    ELSE IF /\ s.label = OnPrem
            /\ ~s.real
            /\ OnPrem \notin DOMAIN d.byScope
            /\ d.status = "C"
         THEN None
    ELSE d.status

PlanImplementations(d, slices) ==
    {[label |-> s.label, resp |-> s.resp, status |-> PlanStatus(d, s)] : s \in slices}

ComputeRollupStatus(plans) ==
    LET statuses == {p.status : p \in plans}
    IN  IF "NC" \in statuses THEN "NC"
        ELSE IF "C" \in statuses THEN "C"
        ELSE IF "NA" \in statuses THEN "NA" ELSE None

=============================================================================
