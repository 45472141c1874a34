------------------------------ MODULE MCUpkeep ------------------------------
(* What runs beside the assessments: a schedule that fans out to two          *)
(* connectors, one with a single source, and a user's own ingest; two         *)
(* findings that share one cluster, one of them found in a second scope. One  *)
(* objective of a workbook under two CRM baselines, its row of the workbook   *)
(* file in, out of scope, inherited and not listed. Two launches of the       *)
(* desktop application.                                                       *)
EXTENDS Scheduler, MCPoams, Overlays, Shell

CONSTANTS all, single

VARIABLE part    \* which of the components a behaviour is about

Fan == [s \in Schedules |-> IF s = all THEN 2 ELSE 1]

Says(p, l, c, o) == [path |-> p, label |-> l, cloud |-> c, prem |-> o]
Said == {Says("one", "aws", "inherited", None), Says("one", "aws", "customer", None),
         Says("two", "aws", "customer", None), Says("two", "azure", "provider", "customer"),
         Says("one", None, "inherited", None)}

Line(d, k, l, m) == [d |-> d, k |-> k, csp |-> FALSE, l |-> l, m |-> m, listed |-> TRUE]
Lines == {Line(TRUE, "none", FALSE, FALSE), Line(FALSE, "none", FALSE, FALSE),
          Line(FALSE, "none", TRUE, TRUE),
          [Line(FALSE, "none", TRUE, FALSE) EXCEPT !.listed = FALSE]}

suiteVars == <<part, vars, poamVars, overlayVars, shellVars>>

(* One component runs, the others rest in one of their initial states.     *)
SuiteInit ==
    /\ part \in {"sched", "poams", "overlays", "shell"}
    /\ Init
    /\ part # "sched" => loop = "off"
    /\ PoamInit
    /\ OverlayInit
    /\ part # "overlays" => file = Line(FALSE, "none", FALSE, FALSE)
    /\ ShellInit
    /\ part # "shell" => platform = "win32" /\ ~wrapped /\ ~shielded

SuiteNext ==
    /\ UNCHANGED part
    /\ \/ part = "sched" /\ Next /\ UNCHANGED <<poamVars, overlayVars, shellVars>>
       \/ part = "poams" /\ PoamNext /\ UNCHANGED <<vars, overlayVars, shellVars>>
       \/ part = "overlays" /\ OverlayNext /\ UNCHANGED <<vars, poamVars, shellVars>>
       \/ part = "shell" /\ ShellNext /\ UNCHANGED <<vars, poamVars, overlayVars>>

SuiteSpec ==
    /\ SuiteInit
    /\ [][SuiteNext]_suiteVars
    /\ WF_vars(part = "sched" /\ Tick)
    /\ \A s \in Schedules : WF_vars(part = "sched" /\ TimePasses(s))
    /\ \A j \in Pulls \cup Manual : WF_vars(part = "sched" /\ JobStep(j))
    /\ \A u \in Uploads : WF_vars(part = "sched" /\ UploadStep(u))
    /\ \A a \in Apps : WF_shellVars(part = "shell" /\ LaunchStep(a))
    /\ \A a \in Apps : WF_shellVars(part = "shell" /\ Watch(a))

(* Schedules fire again and again, launches of the application and their sidecars*)
(* come to rest, and a generation of POAMs settles what came before it.     *)
UpkeepGoesOn == SchedulesRecur /\ ShellSettles /\ GenerateSettles

=============================================================================
