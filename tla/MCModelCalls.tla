---------------------------- MODULE MCModelCalls ----------------------------
(* Three workers on one slot of the endpoint, on two, and with the semaphore  *)
(* off; a batch of three judged candidates with both caps; two sweeps, four   *)
(* decisions and two background updates; files that cite, name, resemble or   *)
(* merely locate two controls.                                                *)
EXTENDS RateLimitGate, SweepJudge, SweepRuns, Tagger

VARIABLE part    \* which of the components a behaviour is about

Keywords == [c \in 1..N |-> IF c < 3 THEN 1 ELSE 0]

OfControl == [c \in {"ac", "au"} |-> IF c = "ac" THEN {"ac.1", "ac.2"} ELSE {"au.1"}]

Plain == [text |-> TRUE, seen |-> FALSE, flaws |-> {}, unread |-> FALSE, cited |-> {},
          findings |-> {}, column |-> {}, mentioned |-> {}, shaped |-> {}, pictured |-> {},
          tools |-> {}, floor |-> {}, named |-> {},
          like |-> [c \in {"ac", "au"} |-> IF c = "ac" THEN 4 ELSE 2]]

Files == {Plain,
          [Plain EXCEPT !.flaws = {"short", "thin"}, !.tools = {"au"}],
          [Plain EXCEPT !.flaws = {"failed"}, !.floor = {"au"}],
          [Plain EXCEPT !.mentioned = {"ac", "au"}, !.column = {"au.1"}],
          [Plain EXCEPT !.findings = {"ac.1"}, !.shaped = {"au"}],
          [Plain EXCEPT !.cited = {"ac.1"}, !.floor = {"ac", "au"}],
          [Plain EXCEPT !.seen = TRUE, !.pictured = {"au"}],
          [Plain EXCEPT !.text = FALSE, !.unread = TRUE, !.named = {"ac", "au"}]}

suiteVars == <<part, vars, judgeVars, sweepVars, taggerVars>>

(* One component runs, the others rest in one of their initial states.     *)
SuiteInit ==
    /\ part \in {"gate", "judge", "sweep", "tagger"}
    /\ Init
    /\ JudgeInit
    /\ SweepInit
    /\ TaggerInit
    /\ part # "tagger" => ~file.text

SuiteNext ==
    /\ UNCHANGED part
    /\ \/ part = "gate" /\ Next /\ UNCHANGED <<judgeVars, sweepVars, taggerVars>>
       \/ part = "judge" /\ JudgeNext /\ UNCHANGED <<vars, sweepVars, taggerVars>>
       \/ part = "sweep" /\ SweepNext /\ UNCHANGED <<vars, judgeVars, taggerVars>>
       \/ part = "tagger" /\ TaggerNext /\ UNCHANGED <<vars, judgeVars, sweepVars>>

SuiteSpec ==
    /\ SuiteInit
    /\ [][SuiteNext]_suiteVars
    /\ WF_vars(part = "gate" /\ Tick)
    /\ \A t \in Workers : WF_vars(part = "gate" /\ Step(t))
    /\ WF_judgeVars(part = "judge" /\ PoolStep)
    /\ WF_judgeVars(part = "judge" /\ MainStep)
    /\ \A u \in Updaters : WF_sweepVars(part = "sweep" /\ Update(u))
    /\ WF_taggerVars(part = "tagger" /\ TagStep)

(* Every call, batch and tagging run comes to an end - a batch that a cap cut*)
(* short by raising, and starting no call once its cancelling loop is through -*)
(* and readable decisions are used.                                         *)
CallsEnd ==
    /\ CallsSettle
    /\ BatchesEnd
    /\ CancelStopsSpending
    /\ QueueIsUsed
    /\ TaggingEnds

=============================================================================
