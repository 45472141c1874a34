------------------------------ MODULE MCReview ------------------------------
(* One cell, a batch and a single assess beside evidence edits, overrides and *)
(* exports, the second override of a cell without exports. Three applies of   *)
(* one workbook under two names. Every hook of the pages with every query     *)
(* that it names, three of the hooks clicked twice. Two requests to the       *)
(* residual-risk advisor about one POAM, which may be graded, deleted and     *)
(* born again.                                                                *)
EXTENDS MCVerdicts, WorkingCopy, UiCache, Advisor

VARIABLE part    \* which of the components a behaviour is about

\* The applies are numbered as they begin, and of the names that nothing mentions the
\* first is taken, since they differ in nothing else.
Unmentioned == {p \in Free : \A a \in Applies : call[a].target # p}

Numbered ==
    /\ \A a, b \in Applies : a < b /\ call'[b].pc # "new" => call'[a].pc # "new"
    /\ \A a \in Applies : call'[a].target # call[a].target /\ call'[a].target \in Unmentioned =>
           \A p \in Unmentioned : call'[a].target <= p

NumberedNext == CopyNext /\ Numbered

Views == {WorkbooksKey, EvidencePagedKey, EvidenceForObjectiveKey, Append(AssessmentsKey, one),
          Append(PoamsKey, one), OnePoamKey, SettingsKey, CatalogStatusKey, OneBaselineKey,
          PendingKey, ContextKey, SuspicionKey, PriorityLinksKey, Append(SchedulesKey, one),
          <<"evidence", "crosscheck", one>>, <<"components", one>>, <<"assets", one>>,
          <<"boundary-segments", one>>, PartKey("col-l-status"), PartKey("control-status")}
         \cup StatusKeys

suiteVars == <<part, vars, copyVars, uiVars, advisorVars>>

(* One component runs, the others rest in one of their initial states.     *)
SuiteInit ==
    /\ part \in {"verdicts", "copy", "ui", "advisor"}
    /\ Init
    /\ part # "verdicts" => ruled = {}
    /\ CopyInit
    /\ UiInit
    /\ part # "ui" => query = EvidencePagedKey /\ hook = "useClearEvidence"
    /\ AdvisorInit
    /\ part # "advisor" => poam.raw = 0

SuiteNext ==
    /\ UNCHANGED part
    /\ \/ part = "verdicts" /\ ShortNext /\ UNCHANGED <<copyVars, uiVars, advisorVars>>
       \/ part = "copy" /\ NumberedNext /\ UNCHANGED <<vars, uiVars, advisorVars>>
       \/ part = "ui" /\ UiNext /\ UNCHANGED <<vars, copyVars, advisorVars>>
       \/ part = "advisor" /\ AdvisorNext /\ UNCHANGED <<vars, copyVars, uiVars>>

SuiteSpec ==
    /\ SuiteInit
    /\ [][SuiteNext]_suiteVars

=============================================================================
