------------------------------ MODULE MCIntake ------------------------------
(* Two batch ingest jobs and two uploads; two sign-ins on the slots of the    *)
(* connection test and the sweep; a library three folders deep, with two      *)
(* pages at the top. Two units of a source that share an item, one of them    *)
(* longer than the cap. Two documents of one content, a picture and a file of *)
(* no known type on the shelf of a workbook that may keep two rows.           *)
EXTENDS IngestJobs, SignIn, GraphWalk, SourceWalk, MCIngestWalk

VARIABLE part    \* which of the components a behaviour is about

Pages == [root |-> <<{"f1", "sub"}, {"f2"}>>, sub |-> <<{"f3", "deep"}>>,
          deep |-> <<{"f4"}, {"note"}>>]

Shelves == <<<<"i1", "i2", "i3", "i5">>, <<"i3", "i4">>>>

suiteVars == <<part, vars, signInVars, graphVars, sourceVars, walkVars>>

(* One component runs, the others rest in one of their initial states.     *)
SuiteInit ==
    /\ part \in {"ingest", "signin", "graph", "source", "walk"}
    /\ Init
    /\ SignInInit
    /\ part # "signin" => ~cached
    /\ GraphInit
    /\ part # "graph" => exists /\ ~msalCache
    /\ SourceInit
    /\ part # "source" => conn = "tenable"
    /\ WalkInit

SuiteNext ==
    /\ UNCHANGED part
    /\ \/ part = "ingest" /\ Next /\ UNCHANGED <<signInVars, graphVars, sourceVars, walkVars>>
       \/ part = "signin" /\ SignInNext /\ UNCHANGED <<vars, graphVars, sourceVars, walkVars>>
       \/ part = "graph" /\ GraphNext /\ UNCHANGED <<vars, signInVars, sourceVars, walkVars>>
       \/ part = "source" /\ SourceNext /\ UNCHANGED <<vars, signInVars, graphVars, walkVars>>
       \/ part = "walk" /\ WalkNext /\ UNCHANGED <<vars, signInVars, graphVars, sourceVars>>

SuiteSpec ==
    /\ SuiteInit
    /\ [][SuiteNext]_suiteVars
    /\ \A j \in Jobs : WF_vars(part = "ingest" /\ JobStep(j))
    /\ \A u \in Uploads : WF_vars(part = "ingest" /\ UploadStep(u))
    /\ \A f \in Flows : WF_signInVars(part = "signin" /\ Proceed(f))
    /\ WF_graphVars(part = "graph" /\ Read)
    /\ WF_sourceVars(part = "source" /\ SourceStep)
    /\ WF_walkVars(part = "walk" /\ WalkStep)

(* Everything that was started comes to an end: jobs, the registry, sign-ins and*)
(* the slots they hold, walks of either kind, and each file gets its row.   *)
IntakeSettles ==
    /\ JobsSettle
    /\ RegistryIdles
    /\ SlotsAreFreed
    /\ ClicksAreAnswered
    /\ WalksEnd
    /\ SourceEnds
    /\ FilesGetIn

=============================================================================
