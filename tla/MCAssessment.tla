---------------------------- MODULE MCAssessment ----------------------------
(* The corpus of two workbooks on the one hand, the kernel that judges one   *)
(* objective on the other: at most one overlay is attached at the start, a    *)
(* second between two calls.                                                 *)
EXTENDS MCEvidenceCorpus, Kernel

VARIABLE part    \* which of the components a behaviour is about

(* Two clouds, overlays of each kind that routes differently, rows of each  *)
(* verdict of rule #8, bundles of each kind the gates tell apart.           *)
Row(d, k, csp, l, m) == [d |-> d, k |-> k, csp |-> csp, l |-> l, m |-> m]
MCRows == {Row(TRUE, None, FALSE, FALSE, FALSE), Row(FALSE, None, FALSE, FALSE, FALSE),
           Row(FALSE, "bare", TRUE, FALSE, FALSE), Row(FALSE, None, FALSE, TRUE, FALSE),
           Row(FALSE, None, FALSE, TRUE, TRUE)}

Overlay(label, cloud, prem) == [label |-> label, cloud |-> cloud, prem |-> prem]
MCOverlays == {Overlay("AWS", "inherited", None), Overlay("AWS", "customer", None),
               Overlay("Azure", "not_applicable", "hybrid"),
               Overlay("Azure", None, "inherited"), Overlay(OnPrem, "inherited", None),
               Overlay("AWS", None, None)}

Source(tagged, coverage, nonscan, overflow) ==
    [tagged |-> tagged, coverage |-> coverage, nonscan |-> nonscan, overflow |-> overflow]
MCSources == {Source(FALSE, TRUE, FALSE, FALSE), Source(TRUE, FALSE, FALSE, FALSE),
              Source(TRUE, FALSE, TRUE, FALSE), Source(TRUE, FALSE, TRUE, TRUE)}

Silent == [l \in ScopeLabels |-> None]
Narrative(chunks, flaws) == [chunks |-> chunks, flaws |-> flaws, boundary |-> FALSE]
Answer(status, narr) == [abstain |-> FALSE, garbled |-> FALSE, status |-> status, narr |-> narr, sure |-> "yes",
                         prem |-> None, cloud |-> None, own |-> Silent, misplaced |-> {}]

Affirming == Narrative(<<{"weak"}>>, {})
MCProposals ==
    {Answer("C", Affirming),
     [Answer("C", Affirming) EXCEPT !.cloud = "NC", !.prem = "C",
                                    !.misplaced = {"provider_words"}],
     [Answer("C", Affirming) EXCEPT !.own = [Silent EXCEPT !["AWS"] = "C"]],
     [Answer("C", Affirming) EXCEPT !.sure = "no"],
     [Answer("C", Affirming) EXCEPT !.sure = "unsaid"],
     [Answer("NC", Affirming) EXCEPT !.abstain = TRUE, !.garbled = TRUE],
     [Answer("C", Affirming) EXCEPT !.abstain = TRUE],
     Answer("C", Narrative(<<{"affirm"}, {"na"}>>, {})),
     Answer("C", Narrative(<<{"affirm", "gap"}>>, {})),
     Answer("C", Narrative(<<{"near_C", "negated"}>>, {})),
     Answer("C", Narrative(<<{"affirm"}>>, {"quote"})),
     Answer("C", Narrative(<<{"affirm"}>>, {"future"})),
     [Answer("NC", Narrative(<<{"affirm"}, {"gap"}>>, {})) EXCEPT !.cloud = "C"],
     Answer("NC", [Narrative(<<{"near_NC"}>>, {}) EXCEPT !.boundary = TRUE]),
     Answer("NA", Narrative(<<{"na"}>>, {}))}

suiteVars == <<part, vars, kernelVars>>

SuiteInit ==
    /\ part \in {"corpus", "kernel"}
    /\ Init
    /\ KernelInit
    /\ Len(overlays) <= 1
    /\ part # "kernel" => /\ overlays = <<>>
                          /\ ~dual
                          /\ row = CHOOSE r \in Rows : TRUE
                          /\ src = CHOOSE s \in Sources : TRUE

SuiteNext ==
    /\ UNCHANGED part
    /\ \/ part = "corpus" /\ Next /\ UNCHANGED kernelVars
       \/ part = "kernel" /\ KernelNext /\ UNCHANGED vars

SuiteSpec == SuiteInit /\ [][SuiteNext]_suiteVars

=============================================================================
