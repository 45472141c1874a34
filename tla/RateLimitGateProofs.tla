------------------------ MODULE RateLimitGateProofs ------------------------
(***************************************************************************)
(* The admission gate, for any number of workers, any cap and any budget   *)
(* of attempts.  Three facts support each other: a slot can be given back  *)
(* only because the slots add up, a 429 fits the budget only because a     *)
(* worker that calls has an attempt left, and nobody is owed more than the *)
(* cooldown that is still running.                                         *)
(***************************************************************************)
EXTENDS RateLimitGate, FiniteSetTheorems, TLAPS

Calls(t) == pc[t] \notin {"limited", "done", "failed"}

BudgetLeft == \A t \in Workers : Calls(t) => attempts[t] < MaxAttempts

\* What a worker is owed is still running, and it has not passed the check.
Owing == \A t \in Workers : owed[t] <= cooldown /\ (Passed(t) => owed[t] = 0)

GateInv == TypeOK /\ SlotsAddUp /\ BudgetLeft /\ Owing

-----------------------------------------------------------------------------
(* The calls in flight *)

LEMMA FlightIsFinite == IsFiniteSet(InFlight) /\ Cardinality(InFlight) \in Nat
<1>1. InFlight \subseteq Workers BY DEF InFlight
<1>2. IsFiniteSet(InFlight) BY <1>1, GateAssumption, FS_Subset
<1> QED BY <1>2, FS_CardinalityType

LEMMA TakeOff ==
  ASSUME TypeOK, NEW t \in Workers, pc[t] # "calling", Goto(t, "calling")
  PROVE  Cardinality(InFlight') = Cardinality(InFlight) + 1
<1>1. InFlight' = InFlight \cup {t} BY DEF TypeOK, Goto, InFlight
<1>2. t \notin InFlight BY DEF InFlight
<1> QED BY <1>1, <1>2, FlightIsFinite, FS_AddElement

LEMMA Landing ==
  ASSUME TypeOK, NEW t \in Workers, pc[t] = "calling",
         NEW label \in Labels \ {"calling"}, Goto(t, label)
  PROVE  Cardinality(InFlight') = Cardinality(InFlight) - 1 /\ Cardinality(InFlight) > 0
<1>1. InFlight' = InFlight \ {t} BY DEF TypeOK, Goto, InFlight
<1>2. t \in InFlight BY DEF InFlight
<1>3. Cardinality(InFlight') = Cardinality(InFlight) - 1
  BY <1>1, <1>2, FlightIsFinite, FS_RemoveElement
<1>4. Cardinality(InFlight) # 0 BY <1>2, FlightIsFinite, FS_EmptySet
<1> QED BY <1>3, <1>4, FlightIsFinite

LEMMA OnTheGround ==
  ASSUME TypeOK, NEW t \in Workers, pc[t] # "calling",
         NEW label \in Labels \ {"calling"}, Goto(t, label)
  PROVE  InFlight' = InFlight
  BY DEF TypeOK, Goto, InFlight

-----------------------------------------------------------------------------
(* One step *)

LEMMA NextSlots == GateInv /\ [Next]_vars => SlotsAddUp' /\ free' \in 0..cap'
<1> SUFFICES ASSUME GateInv, [Next]_vars PROVE SlotsAddUp' /\ free' \in 0..cap'
  OBVIOUS
<1> USE DEF GateInv
<1>0. cap \in Nat /\ free \in 0..cap /\ Cardinality(InFlight) \in Nat
  BY GateAssumption, FlightIsFinite DEF TypeOK
<1>1. CASE Tick \/ UNCHANGED vars
  BY <1>0, <1>1 DEF Tick, vars, SlotsAddUp, InFlight
<1>2. ASSUME NEW t \in Workers, Admit(t) PROVE SlotsAddUp' /\ free' \in 0..cap'
  <2>1. Cardinality(InFlight') = Cardinality(InFlight) + 1
    BY <1>2, TakeOff DEF Admit
  <2> QED BY <1>0, <1>2, <2>1 DEF Admit, SlotsAddUp
<1>3. ASSUME NEW t \in Workers, Return(t) \/ Refused(t) PROVE SlotsAddUp' /\ free' \in 0..cap'
  <2>1. \E label \in Labels \ {"calling"} : pc[t] = "calling" /\ Goto(t, label)
    BY <1>3 DEF Return, Refused, Labels
  <2>2. Cardinality(InFlight') = Cardinality(InFlight) - 1 /\ Cardinality(InFlight) > 0
    BY <2>1, Landing
  <2>3. cap' = cap /\ free' = IF cap = 0 THEN free ELSE free + 1
    BY <1>3 DEF Return, Refused, Release
  <2> QED BY <1>0, <2>2, <2>3 DEF SlotsAddUp
<1>4. ASSUME NEW t \in Workers,
             Begin(t) \/ CheckCooldown(t) \/ Wake(t) \/ GiveUp(t) \/ BackOff(t) \/ Retry(t)
      PROVE  SlotsAddUp' /\ free' \in 0..cap'
  <2>1. \E label \in Labels \ {"calling"} : pc[t] # "calling" /\ Goto(t, label)
    BY <1>4 DEF Begin, CheckCooldown, Wake, GiveUp, BackOff, Retry, Labels
  <2>2. InFlight' = InFlight BY <2>1, OnTheGround
  <2>3. free' = free /\ cap' = cap
    BY <1>4 DEF Begin, CheckCooldown, Wake, GiveUp, BackOff, Retry
  <2> QED BY <1>0, <2>2, <2>3 DEF SlotsAddUp
<1> QED BY <1>1, <1>2, <1>3, <1>4 DEF Next, Step

LEMMA NextType == GateInv /\ [Next]_vars => TypeOK' /\ BudgetLeft'
<1> SUFFICES ASSUME GateInv, [Next]_vars PROVE TypeOK' /\ BudgetLeft'
  OBVIOUS
<1>0. free' \in 0..cap' BY NextSlots
<1> USE <1>0, GateAssumption DEF GateInv, TypeOK, BudgetLeft, Calls, Goto, Labels
<1>1. CASE Tick BY <1>1 DEF Tick, Less
<1>2. CASE UNCHANGED vars BY <1>2 DEF vars
<1>3. ASSUME NEW t \in Workers, Begin(t) PROVE TypeOK' /\ BudgetLeft'
  BY <1>3 DEF Begin
<1>4. ASSUME NEW t \in Workers, CheckCooldown(t) PROVE TypeOK' /\ BudgetLeft'
  BY <1>4 DEF CheckCooldown
<1>5. ASSUME NEW t \in Workers, Wake(t) PROVE TypeOK' /\ BudgetLeft'
  BY <1>5 DEF Wake
<1>6. ASSUME NEW t \in Workers, Admit(t) PROVE TypeOK' /\ BudgetLeft'
  BY <1>6 DEF Admit
<1>7. ASSUME NEW t \in Workers, Return(t) PROVE TypeOK' /\ BudgetLeft'
  BY <1>7 DEF Return
<1>8. ASSUME NEW t \in Workers, Refused(t) PROVE TypeOK' /\ BudgetLeft'
  BY <1>8 DEF Refused
<1>9. ASSUME NEW t \in Workers, GiveUp(t) PROVE TypeOK' /\ BudgetLeft'
  BY <1>9 DEF GiveUp
<1>10. ASSUME NEW t \in Workers, BackOff(t) PROVE TypeOK' /\ BudgetLeft'
  BY <1>10 DEF BackOff, Publish, Larger
<1>11. ASSUME NEW t \in Workers, Retry(t) PROVE TypeOK' /\ BudgetLeft'
  BY <1>11 DEF Retry
<1> QED BY <1>1, <1>2, <1>3, <1>4, <1>5, <1>6, <1>7, <1>8, <1>9, <1>10, <1>11 DEF Next, Step

LEMMA NextOwing == GateInv /\ [Next]_vars => Owing'
<1> SUFFICES ASSUME GateInv, [Next]_vars PROVE Owing'
  OBVIOUS
<1> USE GateAssumption DEF GateInv, TypeOK, Owing, Passed, Goto
<1>1. CASE Tick BY <1>1 DEF Tick, Less
<1>2. CASE UNCHANGED vars BY <1>2 DEF vars
<1>3. ASSUME NEW t \in Workers, Begin(t) \/ Wake(t) \/ GiveUp(t) \/ Retry(t) PROVE Owing'
  BY <1>3 DEF Begin, Wake, GiveUp, Retry
<1>4. ASSUME NEW t \in Workers, CheckCooldown(t) PROVE Owing'
  BY <1>4 DEF CheckCooldown
<1>5. ASSUME NEW t \in Workers, Admit(t) \/ Return(t) \/ Refused(t) PROVE Owing'
  BY <1>5 DEF Admit, Return, Refused
<1>6. ASSUME NEW t \in Workers, BackOff(t) PROVE Owing'
  BY <1>6 DEF BackOff, Publish, Larger
<1> QED BY <1>1, <1>2, <1>3, <1>4, <1>5, <1>6 DEF Next, Step

-----------------------------------------------------------------------------
(* The theorems *)

LEMMA GateHolds == Spec => []GateInv
<1>1. Init => GateInv
  <2> SUFFICES ASSUME Init PROVE GateInv
    OBVIOUS
  <2>1. InFlight = {} BY DEF Init, InFlight
  <2>2. Cardinality(InFlight) = 0 BY <2>1, FS_EmptySet
  <2> QED BY <2>2, GateAssumption
         DEF Init, GateInv, TypeOK, Labels, SlotsAddUp, BudgetLeft, Calls, Owing, Passed
<1>2. GateInv /\ [Next]_vars => GateInv'
  BY NextType, NextSlots, NextOwing DEF GateInv
<1> QED BY <1>1, <1>2, PTL DEF Spec

\* Every timer, counter and attempt of the gate stays in its range.
THEOREM TypeCorrect == Spec => []TypeOK
<1>1. GateInv => TypeOK BY DEF GateInv
<1> QED BY <1>1, GateHolds, PTL

\* No slot of the semaphore is lost or given back twice, whatever the calls do.
THEOREM NoSlotLeaks == Spec => []SlotsAddUp
<1>1. GateInv => SlotsAddUp BY DEF GateInv
<1> QED BY <1>1, GateHolds, PTL

\* A published cooldown holds every worker that has not yet passed the check.
THEOREM CooldownHoldsTheHerd == Spec => []HerdIsHeld
<1>1. GateInv => HerdIsHeld BY DEF GateInv, Owing, HerdIsHeld
<1> QED BY <1>1, GateHolds, PTL

=============================================================================
