----------------------------- MODULE SweepJudge -----------------------------
(***************************************************************************)
(* The model's verdicts on the candidates of a sweep                       *)
(* (evidence/sources/sweep_judge.py): a pool of workers calls the model    *)
(* candidate by candidate, each adds its cost to a shared tally, and the   *)
(* thread that collects the answers cancels, one future after the other,   *)
(* what has not started once a cap of cost or time is passed.  Then the    *)
(* sweep ranks the candidates.                                             *)
(***************************************************************************)
EXTENDS Integers, FiniteSets

CONSTANTS N,         \* candidates 1..N, in keyword order
          PoolSize,   \* sweep_judge_workers
          CostCap,   \* cost_cap_usd, 0 for none
          TimeCap,   \* whether there is a time cap
          Keyword    \* keyword score of a candidate, in tenths

ASSUME JudgeAssumption == /\ N \in Nat \ {0}
                          /\ PoolSize \in Nat \ {0}
                          /\ CostCap \in Nat
                          /\ TimeCap \in BOOLEAN

VARIABLES upto,    \* work items the pool took from its queue
          job,     \* future of a candidate
          answer,  \* what the call returned
          spent,   \* cost_so_far, in calls paid
          reason,  \* fallback_reason
          late,    \* the time cap has passed
          main,    \* the collecting thread
          cut      \* the future its cancelling loop comes to next

judgeVars == <<upto, job, answer, spent, reason, late, main, cut>>

Candidates == 1..N
Answers == {"high", "low", "parse_error", "api_error"}
CapReasons == {"cost_cap_exceeded", "time_cap_exceeded"}
Calling == {c \in Candidates : job[c] = "calling"}

(* A worker takes the next work item; a cancelled one it only reports.     *)
Dequeue == /\ main \in {"collecting", "cancelling", "raising"}
           /\ upto < N
           /\ Cardinality(Calling) < PoolSize
           /\ upto' = upto + 1
           /\ job' = [job EXCEPT ![upto + 1] =
                        IF @ = "queued" THEN "calling" ELSE "reported"]
           /\ UNCHANGED <<answer, spent, reason, late, main, cut>>

(* Under the lock a call adds its cost and trips a cap, cost before time.  *)
Cost(a) == IF a = "api_error" THEN 0 ELSE 1

CallReturns(c, a) ==
    /\ job[c] = "calling"
    /\ job' = [job EXCEPT ![c] = "answered"]
    /\ answer' = [answer EXCEPT ![c] = a]
    /\ spent' = spent + Cost(a)
    /\ reason' = IF reason # "none" THEN reason
                 ELSE IF CostCap > 0 /\ spent' > CostCap THEN "cost_cap_exceeded"
                 ELSE IF late THEN "time_cap_exceeded" ELSE "none"
    /\ UNCHANGED <<upto, late, main, cut>>

TimePasses == /\ TimeCap
              /\ main \in {"collecting", "cancelling"}
              /\ ~late
              /\ late' = TRUE
              /\ UNCHANGED <<upto, job, answer, spent, reason, main, cut>>

(* The collecting thread takes an answer and, a cap passed, goes over the  *)
(* futures in the order of their submission.                               *)
Collect(c) ==
    /\ main = "collecting"
    /\ job[c] = "answered"
    /\ job' = [job EXCEPT ![c] = "taken"]
    /\ IF reason \in CapReasons
       THEN main' = "cancelling" /\ cut' = 1
       ELSE UNCHANGED <<main, cut>>
    /\ UNCHANGED <<upto, answer, spent, reason, late>>

(* It cancels the next one if it has not started; the workers do not wait. *)
CancelNext ==
    /\ main = "cancelling"
    /\ job' = [job EXCEPT ![cut] = IF @ = "queued" THEN "cancelled" ELSE @]
    /\ cut' = IF cut = N THEN 1 ELSE cut + 1
    /\ main' = IF cut = N THEN "collecting" ELSE main
    /\ UNCHANGED <<upto, answer, spent, reason, late>>

(* The result of a cancelled future raises; leaving the pool waits for the *)
(* calls under way.                                                        *)
CollectCancelled(c) ==
    /\ main = "collecting"
    /\ job[c] = "reported"
    /\ main' = "raising"
    /\ UNCHANGED <<upto, job, answer, spent, reason, late, cut>>

LeavePool ==
    /\ main = "raising"
    /\ upto = N
    /\ Calling = {}
    /\ main' = "raised"
    /\ UNCHANGED <<upto, job, answer, spent, reason, late, cut>>

(* With all answers in, a batch of nothing but failed calls says so. *)
Finish ==
    /\ main = "collecting"
    /\ \A c \in Candidates : job[c] = "taken"
    /\ main' = "done"
    /\ reason' = IF reason = "none" /\ \A c \in Candidates : answer[c] = "api_error"
                 THEN "api_error" ELSE reason
    /\ UNCHANGED <<upto, job, answer, spent, late, cut>>

JudgeInit ==
    /\ upto = 0
    /\ job = [c \in Candidates |-> "queued"]
    /\ answer = [c \in Candidates |-> "none"]
    /\ spent = 0
    /\ reason = "none"
    /\ late = FALSE
    /\ main = "idle"
    /\ cut = 1

(* The futures of all candidates are submitted. *)
Submit == /\ main = "idle"
          /\ main' = "collecting"
          /\ UNCHANGED <<upto, job, answer, spent, reason, late, cut>>

PoolStep == \/ Dequeue
            \/ \E c \in Candidates, a \in Answers : CallReturns(c, a)

MainStep == \/ \E c \in Candidates : Collect(c) \/ CollectCancelled(c)
            \/ CancelNext
            \/ LeavePool
            \/ Finish

JudgeNext == Submit \/ PoolStep \/ MainStep \/ TimePasses

(* Calls return, the clients time out, and both kinds of thread go on. *)
JudgeSpec == /\ JudgeInit
             /\ [][JudgeNext]_judgeVars
             /\ WF_judgeVars(PoolStep)
             /\ WF_judgeVars(MainStep)

-----------------------------------------------------------------------------
(* The ranking that follows: a judged candidate blends both scores, one     *)
(* whose call failed keeps its keyword score.                               *)

Llm(a) == IF a = "high" THEN 10 ELSE 0

(* Mutant: the score 0 of a failed call is blended in. *)
BlendAll(c) == 3 * Keyword[c] + 7 * Llm(answer[c])

Blended(c) == IF answer[c] \in {"high", "low"}
              THEN 3 * Keyword[c] + 7 * Llm(answer[c])
              ELSE 10 * Keyword[c]

Threshold == 5    \* SCORE_SURFACE_THRESHOLD

Surfaced == {c \in Candidates : Blended(c) >= Threshold}

-----------------------------------------------------------------------------
(* The type invariant of a batch. *)
JudgeTypeOK ==
    /\ upto \in 0..N
    /\ \A c \in Candidates :
         job[c] \in {"queued", "calling", "answered", "taken", "cancelled", "reported"}
    /\ \A c \in Candidates : answer[c] \in Answers \cup {"none"}
    /\ spent \in 0..N
    /\ reason \in CapReasons \cup {"none", "api_error"}
    /\ main \in {"idle", "collecting", "cancelling", "raising", "raised", "done"}
    /\ cut \in Candidates
    /\ Cardinality(Calling) <= PoolSize

Cut == {c \in Candidates : job[c] \in {"cancelled", "reported"}}

(* What a cap still lets through: calls may start until the loop that       *)
(* cancels has come by them, for the workers do not stop for it.  But once  *)
(* a call is cancelled none before it starts any more, and once the loop    *)
(* is through none at all (sweep_judge.py:507-510).                         *)
CancelStopsSpending ==
    [][\A c \in Candidates :
         (\E d \in Cut : main # "cancelling" \/ c <= d) /\ job'[c] = "calling"
         => job[c] = "calling"]_judgeVars

(* The reason a batch gives is true of it: a cost cap was overspent, the    *)
(* time was up, or not one call came through.                              *)
ReasonIsTrue ==
    /\ reason = "cost_cap_exceeded" => CostCap > 0 /\ spent > CostCap
    /\ reason = "time_cap_exceeded" => late
    /\ reason = "api_error" => \A c \in Candidates : answer[c] = "api_error"

(* In a batch that ends, a failed call never hides a candidate its         *)
(* keywords bring up.                                                       *)
FailedCallHidesNothing ==
    main = "done" => \A c \in Candidates :
        answer[c] \in {"parse_error", "api_error"} /\ 10 * Keyword[c] >= Threshold
        => c \in Surfaced

(* One cancelled call loses the whole batch: its future raises where the   *)
(* answers are collected (502), so no batch ends with a slot that a cap    *)
(* left unfilled, although the docstring (426-429) gives such a slot        *)
(* "cap_skipped".  And a batch is lost for nothing but a cap.              *)
CutLosesTheBatch ==
    /\ main = "done" => Cut = {}
    /\ main \in {"raising", "raised"} => Cut # {} /\ reason \in CapReasons

(* Whichever calls fail or are cut off: the reason a batch gives is true   *)
(* of it, one that ends shows what a failed call left open, and one that a *)
(* cap cut short of calls does not end but raises.                         *)
JudgeSafe == JudgeTypeOK /\ ReasonIsTrue /\ FailedCallHidesNothing /\ CutLosesTheBatch

(* Every batch comes to its end. *)
BatchesEnd == main = "collecting" ~> main \in {"done", "raised"}

=============================================================================
