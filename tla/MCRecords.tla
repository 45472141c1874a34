----------------------------- MODULE MCRecords ------------------------------
(* Every row a workbook can have, with a second workbook and the rows of it   *)
(* that can meet them. A database of every released revision with each set of *)
(* rows that it can hold. A request to assess the two objectives of a         *)
(* workbook and one for the second of them. Two calls of one client of the    *)
(* model, to an endpoint that takes a temperature or not. One connector or    *)
(* provider after another, with every state of its settings and secrets, and  *)
(* each request once.                                                         *)
EXTENDS Cascade, Migrations, BatchRuns, ModelClient, Settings

CONSTANTS b1, b2

VARIABLE part    \* which of the components a behaviour is about

Asked == [b \in Batches |-> IF b = b1 THEN {1, 2} ELSE {2}]

Says(status, narrative, confidence, abstain) ==
    [status |-> status, narrative |-> narrative, confidence |-> confidence, abstain |-> abstain]

ModelTexts ==
    LET good == Says("C", "text", {90}, FALSE)
    IN  {<<good>>, <<Says("NC", "text", {}, FALSE), good>>,
         <<Says("absent", "absent", {}, FALSE), Says("NC", "text", {150}, TRUE)>>,
         <<Says("null", "text", {100}, FALSE), good>>, <<Says("C", "null", {95}, FALSE)>>}

\* Anthropic's, OpenAI's and Bedrock's envelopes, and one that nobody knows.
Envelopes == {[input_tokens |-> 2, output_tokens |-> 1, cache_read_input_tokens |-> 3],
              [prompt_tokens |-> 5, completion_tokens |-> 1, cached_tokens |-> 3],
              [inputTokens |-> 5, outputTokens |-> 1], [tokens |-> 6]}

\* Which of the callers is which makes no difference.
Alike == Permutations(Callers)

suiteVars == <<part, cascadeVars, migrateVars, batchVars, clientVars, settingsVars>>

(* One component runs, the others rest in one of their initial states.     *)
SuiteInit ==
    /\ part \in {"cascade", "migrations", "batch", "client", "settings"}
    /\ CascadeInit
    /\ part # "cascade" => rows = Known
    /\ MigrateInit
    /\ part # "migrations" => start = Holding(0, {}, {}, {})
    /\ BatchInit
    /\ ClientInit
    /\ part # "client" => provider = "openai" /\ takes
    /\ SettingsInit
    /\ part # "settings" => site = "jira" /\ world = {} /\ vault = {}

SuiteNext ==
    /\ UNCHANGED part
    /\ \/ part = "cascade" /\ CascadeNext /\ UNCHANGED <<migrateVars, batchVars, clientVars, settingsVars>>
       \/ part = "migrations" /\ MigrateNext /\ UNCHANGED <<cascadeVars, batchVars, clientVars, settingsVars>>
       \/ part = "batch" /\ BatchNext /\ UNCHANGED <<cascadeVars, migrateVars, clientVars, settingsVars>>
       \/ part = "client" /\ ClientNext /\ UNCHANGED <<cascadeVars, migrateVars, batchVars, settingsVars>>
       \/ part = "settings" /\ SettingsNext /\ UNCHANGED <<cascadeVars, migrateVars, batchVars, clientVars>>

SuiteSpec ==
    /\ SuiteInit
    /\ [][SuiteNext]_suiteVars

=============================================================================
