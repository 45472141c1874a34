--------------------------- MODULE RateLimitGate ---------------------------
(***************************************************************************)
(* Admission, cooldown and retry of model calls (llm/_rate_limit.py).      *)
(*                                                                         *)
(* Every assess, judge and sweep worker calls the endpoint through         *)
(* run_with_rate_limit_retry: wait out the global cooldown, take a slot of *)
(* the semaphore, call, give the slot back, and after a 429 publish a      *)
(* cooldown, sleep and try again.  Time is discrete: a timer counts down   *)
(* with Tick, and a thread whose timer is at 0 may be late in waking up.   *)
(***************************************************************************)
EXTENDS Integers, FiniteSets

CONSTANTS Workers,     \* threads, one call of run_with_rate_limit_retry each
          Caps,        \* values of llm_max_concurrency; 0 turns the semaphore off
          MaxAttempts,
          MaxSleep     \* MAX_SINGLE_SLEEP_SECONDS, in ticks

ASSUME GateAssumption == /\ IsFiniteSet(Workers)
                         /\ Caps \subseteq Nat
                         /\ MaxAttempts \in Nat \ {0}
                         /\ MaxSleep \in Nat

VARIABLES cap,       \* read from the configuration once
          free,      \* the counter of the semaphore
          cooldown,  \* ticks until _cooldown_until
          pc,        \* where each worker stands
          timer,     \* ticks left of its time.sleep
          attempts,  \* calls that ended in a 429
          owed       \* history: ticks left of the longest cooldown published
                     \* while the worker had yet to pass the cooldown check

vars == <<cap, free, cooldown, pc, timer, attempts, owed>>

Labels == {"new", "checking", "parked", "waiting", "calling", "limited", "backoff",
           "done", "failed"}

(* The types of the gate, of the cooldown and of every worker.             *)
TypeOK == /\ cap \in Caps
          /\ free \in 0..cap
          /\ cooldown \in 0..MaxSleep
          /\ pc \in [Workers -> Labels]
          /\ timer \in [Workers -> 0..MaxSleep]
          /\ attempts \in [Workers -> 0..MaxAttempts]
          /\ owed \in [Workers -> 0..MaxSleep]

Init == /\ cap \in Caps
        /\ free = cap
        /\ cooldown = 0
        /\ pc = [t \in Workers |-> "new"]
        /\ timer = [t \in Workers |-> 0]
        /\ attempts = [t \in Workers |-> 0]
        /\ owed = [t \in Workers |-> 0]

Goto(t, label) == pc' = [pc EXCEPT ![t] = label]

Passed(t) == pc[t] \in {"waiting", "calling"}

Larger(m, n) == IF m < n THEN n ELSE m

-----------------------------------------------------------------------------
(* _await_cooldown *)

Begin(t) ==
    /\ pc[t] = "new"
    /\ Goto(t, "checking")
    /\ UNCHANGED <<cap, free, cooldown, timer, attempts, owed>>

CheckCooldown(t) ==
    /\ pc[t] = "checking"
    /\ \/ cooldown = 0 /\ Goto(t, "waiting") /\ UNCHANGED timer
       \/ cooldown > 0 /\ Goto(t, "parked") /\ timer' = [timer EXCEPT ![t] = cooldown]
    /\ UNCHANGED <<cap, free, cooldown, attempts, owed>>

\* Mutant: the deadline is not read again after the sleep.
WakeUnchecked(t) ==
    /\ pc[t] = "parked"
    /\ timer[t] = 0
    /\ Goto(t, "waiting")
    /\ UNCHANGED <<cap, free, cooldown, timer, attempts, owed>>

Wake(t) ==
    /\ pc[t] = "parked"
    /\ timer[t] = 0
    /\ Goto(t, "checking")
    /\ UNCHANGED <<cap, free, cooldown, timer, attempts, owed>>

-----------------------------------------------------------------------------
(* _admit and the call *)

Admit(t) ==
    /\ pc[t] = "waiting"
    /\ \/ cap = 0 /\ UNCHANGED free
       \/ free > 0 /\ free' = free - 1
    /\ Goto(t, "calling")
    /\ UNCHANGED <<cap, cooldown, timer, attempts, owed>>

Release == free' = IF cap = 0 THEN free ELSE free + 1

\* The call returns, or raises anything but a 429.
Return(t) ==
    /\ pc[t] = "calling"
    /\ Release
    /\ \E label \in {"done", "failed"} : Goto(t, label)
    /\ UNCHANGED <<cap, cooldown, timer, attempts, owed>>

\* Mutant: the slot is kept while the 429 is slept out.
RefusedHoldingSlot(t) ==
    /\ pc[t] = "calling"
    /\ attempts' = [attempts EXCEPT ![t] = @ + 1]
    /\ Goto(t, "limited")
    /\ UNCHANGED <<cap, free, cooldown, timer, owed>>

\* A 429: the with-block gives the slot back before the handler runs.
Refused(t) ==
    /\ pc[t] = "calling"
    /\ Release
    /\ attempts' = [attempts EXCEPT ![t] = @ + 1]
    /\ Goto(t, "limited")
    /\ UNCHANGED <<cap, cooldown, timer, owed>>

-----------------------------------------------------------------------------
(* The 429 handler *)

\* The last attempt raises without a cooldown.
GiveUp(t) ==
    /\ pc[t] = "limited"
    /\ attempts[t] = MaxAttempts
    /\ Goto(t, "failed")
    /\ UNCHANGED <<cap, free, cooldown, timer, attempts, owed>>

\* _publish_cooldown, and what it owes to everyone who has not passed the check.
Publish(seconds) ==
    /\ cooldown' = Larger(cooldown, seconds)
    /\ owed' = [t \in Workers |-> IF Passed(t) THEN owed[t] ELSE Larger(owed[t], seconds)]

\* Mutant: one attempt too many, so the count leaves its range.
BackOffOnceMore(t) ==
    /\ pc[t] = "limited"
    /\ \E seconds \in 0..MaxSleep :
          /\ Publish(seconds)
          /\ timer' = [timer EXCEPT ![t] = seconds]
    /\ Goto(t, "backoff")
    /\ UNCHANGED <<cap, free, attempts>>

\* The delay is the server's hint or the exponential backoff, at most MaxSleep.
BackOff(t) ==
    /\ pc[t] = "limited"
    /\ attempts[t] < MaxAttempts
    /\ \E seconds \in 0..MaxSleep :
          /\ Publish(seconds)
          /\ timer' = [timer EXCEPT ![t] = seconds]
    /\ Goto(t, "backoff")
    /\ UNCHANGED <<cap, free, attempts>>

Retry(t) ==
    /\ pc[t] = "backoff"
    /\ timer[t] = 0
    /\ Goto(t, "checking")
    /\ UNCHANGED <<cap, free, cooldown, timer, attempts, owed>>

-----------------------------------------------------------------------------
Less(n) == IF n = 0 THEN 0 ELSE n - 1

Tick == /\ cooldown > 0 \/ \E t \in Workers : timer[t] > 0
        /\ cooldown' = Less(cooldown)
        /\ timer' = [t \in Workers |-> Less(timer[t])]
        /\ owed' = [t \in Workers |-> Less(owed[t])]
        /\ UNCHANGED <<cap, free, pc, attempts>>

Step(t) == \/ CheckCooldown(t) \/ Wake(t) \/ Admit(t) \/ Return(t) \/ Refused(t)
           \/ GiveUp(t) \/ BackOff(t) \/ Retry(t)

Next == Tick \/ \E t \in Workers : Begin(t) \/ Step(t)

Spec == Init /\ [][Next]_vars

\* Time passes, threads run, and the endpoint answers every call (the SDKs time out).
FairSpec == Spec /\ WF_vars(Tick) /\ \A t \in Workers : WF_vars(Step(t))

-----------------------------------------------------------------------------
(* Properties *)

InFlight == {t \in Workers : pc[t] = "calling"}

\* The semaphore's counter and the calls in flight add up to the cap, through
\* every return, error and 429: a slot is neither lost nor given back twice.
SlotsAddUp == cap > 0 => free + Cardinality(InFlight) = cap

\* A worker that had yet to pass the cooldown check when a 429 was published does
\* not get past it before that cooldown is over, although it may have been parked
\* on an earlier deadline and shorter cooldowns may have been published since.
HerdIsHeld == \A t \in Workers : Passed(t) => owed[t] = 0

\* Every call that begins returns or fails: neither the cooldown that others keep
\* extending nor the queue for a slot holds a worker for ever.
CallsSettle == \A t \in Workers : pc[t] = "checking" ~> pc[t] \in {"done", "failed"}

=============================================================================
