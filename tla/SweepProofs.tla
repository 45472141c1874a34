----------------------------- MODULE SweepProofs -----------------------------
(***************************************************************************)
(* Theorems about the SharePoint sweep: signing in, for every set of slots *)
(* and requests; the judging of candidates, for every number of them, of   *)
(* workers and every cap; the books of the sweeps and of their training;   *)
(* the tagging of a file, for every set of controls and objectives.        *)
(***************************************************************************)
EXTENDS SignIn, SweepJudge, SweepRuns, Tagger, FiniteSetTheorems, TLAPS

-----------------------------------------------------------------------------
(* Signing in *)

Requests == {"unused", "held", "retry", "waiting", "shown", "busy", "ok", "error", "timeout"}

FlowType == [slot : Slots, req : Requests,
             thread : {"none", "silent", "browser", "polling"} \cup Ended,
             watch : {"none", "armed", "fired"}, loaded : BOOLEAN]

FlowsTyped ==
    /\ flow \in [Flows -> FlowType]
    /\ code \in [Slots -> [of : Flows \cup {NoFlow}, live : BOOLEAN]]
    /\ lock \in [Slots -> BOOLEAN]
    /\ event \in [Slots -> BOOLEAN]
    /\ cached \in BOOLEAN

\* A request that has not won a lock has neither a thread nor a watchdog.
LosersAreBare ==
    \A f \in Flows : flow[f].req \in {"unused", "held", "retry"} =>
        flow[f].thread = "none" /\ flow[f].watch = "none"

\* What makes SignInSafe inductive.
SignInInv == FlowsTyped /\ HeldSlotIsWatched /\ CodeIsOfSlot /\ LosersAreBare

LEMMA FlowsAreTyped == FlowsTyped => SignInTypeOK
  BY DEF FlowsTyped, FlowType, SignInTypeOK, Requests

LEMMA InitSignInInv == SignInInit => SignInInv
<1> SUFFICES ASSUME SignInInit PROVE SignInInv
  OBVIOUS
<1>1. FlowsTyped
  BY SignInAssumption DEF SignInInit, FlowsTyped, FlowType, Requests, NoCode
<1> QED
  BY <1>1, SignInAssumption DEF SignInInit, SignInInv,
     HeldSlotIsWatched, CodeIsOfSlot, LosersAreBare, NoCode

\* A step that replaces the record of one flow leaves the others as they are.
LEMMA OneFlowMoves ==
  ASSUME FlowsTyped, NEW f \in Flows, NEW r \in FlowType,
         flow' = [flow EXCEPT ![f] = r]
  PROVE  /\ flow' \in [Flows -> FlowType]
         /\ \A g \in Flows : flow'[g] = IF g = f THEN r ELSE flow[g]
  BY DEF FlowsTyped

\* What a step on one flow must show: r is its new record.
LEMMA FlowStepInv ==
  ASSUME SignInInv, NEW f \in Flows, NEW r \in FlowType,
         flow' = [flow EXCEPT ![f] = r],
         code' = code, event' \in [Slots -> BOOLEAN], cached' \in BOOLEAN,
         lock' \in [Slots -> BOOLEAN],
         r.slot = flow[f].slot,
         r.req \in {"unused", "held", "retry"} => r.thread = "none" /\ r.watch = "none",
         flow[f].thread \in {"polling"} \cup Ended => r.thread \in {"polling"} \cup Ended,
         \A s \in Slots : lock'[s] => lock[s] /\
             (s = flow[f].slot /\ (flow[f].req = "waiting" \/ flow[f].watch = "armed") =>
                 r.req = "waiting" \/ r.watch = "armed")
  PROVE  SignInInv'
<1>1. /\ flow' \in [Flows -> FlowType]
      /\ \A g \in Flows : flow'[g] = IF g = f THEN r ELSE flow[g]
  BY OneFlowMoves DEF SignInInv
<1>2. FlowsTyped'
  BY <1>1 DEF SignInInv, FlowsTyped
<1>3. HeldSlotIsWatched'
  BY <1>1 DEF SignInInv, FlowsTyped, HeldSlotIsWatched, Of
<1>4. CodeIsOfSlot'
  <2> SUFFICES ASSUME NEW s \in Slots, code[s].of # NoFlow
               PROVE  code[s].of \in Of(s)' /\ flow'[code[s].of].thread \in {"polling"} \cup Ended
    BY DEF CodeIsOfSlot
  <2>1. /\ code[s].of \in Flows
        /\ flow[code[s].of].slot = s
        /\ flow[code[s].of].thread \in {"polling"} \cup Ended
    BY DEF SignInInv, CodeIsOfSlot, Of
  <2> QED
    BY <1>1, <2>1 DEF Of
<1>5. LosersAreBare'
  BY <1>1 DEF SignInInv, LosersAreBare
<1> QED
  BY <1>2, <1>3, <1>4, <1>5 DEF SignInInv

\* One request starts its thread in a slot it has locked.
LEMMA BeginInv ==
  ASSUME SignInInv, NEW f \in Flows, NEW s \in Slots, Begin(f, s),
         flow[f].req \in {"unused", "retry"}
  PROVE  SignInInv'
<1> DEFINE r == [flow[f] EXCEPT !.slot = s, !.req = "waiting", !.thread = "silent",
                                !.loaded = cached]
<1>0. /\ flow[f] \in FlowType
      /\ cached \in BOOLEAN
      /\ flow[f].thread = "none" /\ flow[f].watch = "none"
  BY DEF SignInInv, FlowsTyped, LosersAreBare
<1>1. r \in FlowType /\ r.slot = s /\ r.req = "waiting"
  BY <1>0 DEF FlowType, Requests
<1>2. flow' = [flow EXCEPT ![f] = r]
  BY DEF Begin, SignInInv, FlowsTyped
<1> HIDE DEF r
<1>3. /\ flow' \in [Flows -> FlowType]
      /\ \A g \in Flows : flow'[g] = IF g = f THEN r ELSE flow[g]
  BY <1>1, <1>2, OneFlowMoves DEF SignInInv
<1>4. \A t \in Slots : code'[t] = IF t = s THEN NoCode ELSE code[t]
  BY DEF Begin, ResetDeviceState, SignInInv, FlowsTyped
<1>5. FlowsTyped'
  <2>1. NoCode \in [of : Flows \cup {NoFlow}, live : BOOLEAN]
    BY DEF NoCode
  <2> QED
    BY <1>3, <2>1 DEF SignInInv, FlowsTyped, Begin, ResetDeviceState
<1>6. HeldSlotIsWatched'
  BY <1>0, <1>1, <1>3 DEF SignInInv, HeldSlotIsWatched, Of, Begin, FlowsTyped
<1>7. CodeIsOfSlot'
  <2> SUFFICES ASSUME NEW t \in Slots, code'[t].of # NoFlow
               PROVE  code'[t].of \in Of(t)' /\ flow'[code'[t].of].thread \in {"polling"} \cup Ended
    BY DEF CodeIsOfSlot
  <2>1. t # s /\ code'[t] = code[t]
    BY <1>4 DEF NoCode
  <2>2. /\ code[t].of \in Flows
        /\ flow[code[t].of].slot = t
        /\ flow[code[t].of].thread \in {"polling"} \cup Ended
    BY <2>1 DEF SignInInv, CodeIsOfSlot, Of
  <2>3. code[t].of # f
    BY <1>0, <2>2 DEF Ended
  <2> QED
    BY <1>3, <2>1, <2>2, <2>3 DEF Of
<1>8. LosersAreBare'
  BY <1>1, <1>3 DEF SignInInv, LosersAreBare
<1> QED
  BY <1>5, <1>6, <1>7, <1>8 DEF SignInInv

\* A request that loses the lock remembers the slot it asked for.
LEMMA ClickInv ==
  ASSUME SignInInv, NEW f \in Flows, NEW s \in Slots, Click(f, s)
  PROVE  SignInInv'
<1>1. CASE ~lock[s] /\ Begin(f, s)
  BY <1>1, BeginInv DEF Click
<1>2. CASE /\ SetReq(f, s, "held")
           /\ UNCHANGED <<lock, event, code, cached>>
  <2> DEFINE r == [flow[f] EXCEPT !.slot = s, !.req = "held"]
  <2>0. /\ flow[f] \in FlowType
        /\ flow[f].thread = "none" /\ flow[f].watch = "none" /\ flow[f].req = "unused"
    BY DEF SignInInv, FlowsTyped, LosersAreBare, Click
  <2>1. r \in FlowType /\ r.slot = s /\ r.req = "held" /\ r.thread = "none" /\ r.watch = "none"
    BY <2>0 DEF FlowType, Requests
  <2>2. flow' = [flow EXCEPT ![f] = r]
    BY <1>2 DEF SetReq, SignInInv, FlowsTyped
  <2> HIDE DEF r
  <2>3. /\ flow' \in [Flows -> FlowType]
        /\ \A g \in Flows : flow'[g] = IF g = f THEN r ELSE flow[g]
    BY <2>1, <2>2, OneFlowMoves DEF SignInInv
  <2>4. FlowsTyped'
    BY <1>2, <2>3 DEF SignInInv, FlowsTyped
  <2>5. HeldSlotIsWatched'
    BY <1>2, <2>0, <2>3 DEF SignInInv, HeldSlotIsWatched, Of
  <2>6. CodeIsOfSlot'
    <3> SUFFICES ASSUME NEW t \in Slots, code[t].of # NoFlow
                 PROVE  code[t].of \in Of(t)' /\ flow'[code[t].of].thread \in {"polling"} \cup Ended
      BY <1>2 DEF CodeIsOfSlot
    <3>2. /\ code[t].of \in Flows
          /\ flow[code[t].of].slot = t
          /\ flow[code[t].of].thread \in {"polling"} \cup Ended
      BY DEF SignInInv, CodeIsOfSlot, Of
    <3>3. code[t].of # f
      BY <2>0, <3>2 DEF Ended
    <3> QED
      BY <2>3, <3>2, <3>3 DEF Of
  <2>7. LosersAreBare'
    BY <2>1, <2>3 DEF SignInInv, LosersAreBare
  <2> QED
    BY <2>4, <2>5, <2>6, <2>7 DEF SignInInv
<1> QED
  BY <1>1, <1>2 DEF Click

\* The steps of a request after its click.
LEMMA ReshowInv ==
  ASSUME SignInInv, NEW f \in Flows, Reshow(f)
  PROVE  SignInInv'
<1> DEFINE r == [flow[f] EXCEPT !.slot = flow[f].slot, !.req = "shown"]
<1>0. /\ flow[f] \in FlowType
      /\ flow[f].thread = "none" /\ flow[f].watch = "none" /\ flow[f].req = "held"
  BY DEF SignInInv, FlowsTyped, LosersAreBare, Reshow
<1>1. /\ r \in FlowType /\ r.slot = flow[f].slot /\ r.req = "shown"
      /\ r.thread = flow[f].thread /\ r.watch = flow[f].watch
  BY <1>0 DEF FlowType, Requests
<1>2. flow' = [flow EXCEPT ![f] = r]
  BY DEF Reshow, SetReq, SignInInv, FlowsTyped
<1> HIDE DEF r
<1> QED
  BY <1>0, <1>1, <1>2, FlowStepInv DEF Reshow, SignInInv, FlowsTyped

LEMMA ForceReleaseInv ==
  ASSUME SignInInv, NEW f \in Flows, ForceRelease(f)
  PROVE  SignInInv'
<1> DEFINE r == [flow[f] EXCEPT !.slot = flow[f].slot, !.req = "retry"]
<1>0. /\ flow[f] \in FlowType
      /\ flow[f].thread = "none" /\ flow[f].watch = "none" /\ flow[f].req = "held"
  BY DEF SignInInv, FlowsTyped, LosersAreBare, ForceRelease
<1>1. /\ r \in FlowType /\ r.slot = flow[f].slot /\ r.req = "retry"
      /\ r.thread = flow[f].thread /\ r.watch = flow[f].watch
  BY <1>0 DEF FlowType, Requests
<1>2. flow' = [flow EXCEPT ![f] = r]
  BY DEF ForceRelease, SetReq, SignInInv, FlowsTyped
<1>3. /\ lock' \in [Slots -> BOOLEAN]
      /\ \A s \in Slots : lock'[s] => lock[s]
  BY DEF ForceRelease, SignInInv, FlowsTyped
<1> HIDE DEF r
<1> QED
  BY <1>0, <1>1, <1>2, <1>3, FlowStepInv DEF ForceRelease, SignInInv, FlowsTyped

LEMMA TryAgainInv ==
  ASSUME SignInInv, NEW f \in Flows, TryAgain(f)
  PROVE  SignInInv'
<1>0. /\ flow[f] \in FlowType /\ flow[f].slot \in Slots
      /\ flow[f].thread = "none" /\ flow[f].watch = "none" /\ flow[f].req = "retry"
  BY DEF SignInInv, FlowsTyped, FlowType, LosersAreBare, TryAgain
<1>1. CASE Begin(f, flow[f].slot)
  BY <1>0, <1>1, BeginInv
<1>2. CASE /\ SetReq(f, flow[f].slot, "busy")
           /\ UNCHANGED <<lock, event, code, cached>>
  <2> DEFINE r == [flow[f] EXCEPT !.slot = flow[f].slot, !.req = "busy"]
  <2>1. /\ r \in FlowType /\ r.slot = flow[f].slot /\ r.req = "busy"
        /\ r.thread = flow[f].thread /\ r.watch = flow[f].watch
    BY <1>0 DEF FlowType, Requests
  <2>2. flow' = [flow EXCEPT ![f] = r]
    BY <1>2 DEF SetReq, SignInInv, FlowsTyped
  <2> HIDE DEF r
  <2> QED
    BY <1>0, <1>2, <2>1, <2>2, FlowStepInv DEF SignInInv, FlowsTyped
<1> QED
  BY <1>1, <1>2 DEF TryAgain

LEMMA AnswerInv ==
  ASSUME SignInInv, NEW f \in Flows, Answer(f)
  PROVE  SignInInv'
<1>0. flow[f] \in FlowType /\ flow[f].req = "waiting"
  BY DEF SignInInv, FlowsTyped, Answer
<1>1. PICK q \in {"ok", "error", "shown", "timeout"} :
          flow' = [flow EXCEPT ![f] = [@ EXCEPT !.req = q, !.watch = "armed"]]
  BY DEF Answer
<1> DEFINE r == [flow[f] EXCEPT !.req = q, !.watch = "armed"]
<1>2. /\ r \in FlowType /\ r.slot = flow[f].slot /\ r.req = q
      /\ r.thread = flow[f].thread /\ r.watch = "armed"
  BY <1>0 DEF FlowType, Requests
<1>3. flow' = [flow EXCEPT ![f] = r]
  BY <1>1 DEF SignInInv, FlowsTyped
<1> HIDE DEF r
<1> QED
  BY <1>0, <1>2, <1>3, FlowStepInv DEF Answer, SignInInv, FlowsTyped

LEMMA WatchdogInv ==
  ASSUME SignInInv, NEW f \in Flows, Watchdog(f)
  PROVE  SignInInv'
<1> DEFINE r == [flow[f] EXCEPT !.watch = "fired"]
<1>0. /\ flow[f] \in FlowType /\ flow[f].slot \in Slots /\ flow[f].watch = "armed"
      /\ flow[f].req \notin {"unused", "held", "retry"}
  BY DEF SignInInv, FlowsTyped, FlowType, LosersAreBare, Watchdog
<1>1. /\ r \in FlowType /\ r.slot = flow[f].slot /\ r.req = flow[f].req
      /\ r.thread = flow[f].thread
  BY <1>0 DEF FlowType
<1>2. flow' = [flow EXCEPT ![f] = r]
  BY DEF Watchdog, SignInInv, FlowsTyped
<1>3. /\ lock' \in [Slots -> BOOLEAN] /\ ~lock'[flow[f].slot]
      /\ \A s \in Slots : lock'[s] => lock[s]
  BY <1>0 DEF Watchdog, SignInInv, FlowsTyped
<1> HIDE DEF r
<1> QED
  BY <1>0, <1>1, <1>2, <1>3, FlowStepInv DEF Watchdog, SignInInv, FlowsTyped

\* The thread moves on without touching a code.
LEMMA ThreadStepInv ==
  ASSUME SignInInv, NEW f \in Flows, NEW t \in {"browser", "done", "failed"}, SetThread(f, t),
         flow[f].thread # "none",
         t = "browser" => flow[f].thread = "silent",
         lock' = lock, code' = code, event' \in [Slots -> BOOLEAN], cached' \in BOOLEAN
  PROVE  SignInInv'
<1> DEFINE r == [flow[f] EXCEPT !.thread = t]
<1>0. flow[f] \in FlowType /\ flow[f].req \notin {"unused", "held", "retry"}
  BY DEF SignInInv, FlowsTyped, LosersAreBare
<1>1. /\ r \in FlowType /\ r.slot = flow[f].slot /\ r.req = flow[f].req
      /\ r.thread = t /\ r.watch = flow[f].watch
  BY <1>0 DEF FlowType, Ended
<1>2. flow' = [flow EXCEPT ![f] = r]
  BY DEF SetThread, SignInInv, FlowsTyped
<1> HIDE DEF r
<1> QED
  BY <1>0, <1>1, <1>2, FlowStepInv DEF SignInInv, FlowsTyped, Ended

LEMMA ThreadInv ==
  ASSUME SignInInv, NEW f \in Flows, Succeed(f) \/ GoInteractive(f) \/ Fail(f)
  PROVE  SignInInv'
<1>1. CASE Succeed(f)
  BY <1>1, ThreadStepInv DEF Succeed, SignInInv, FlowsTyped
<1>2. CASE GoInteractive(f)
  BY <1>2, ThreadStepInv DEF GoInteractive, SignInInv, FlowsTyped
<1>3. CASE Fail(f)
  BY <1>3, ThreadStepInv DEF Fail, SignInInv, FlowsTyped
<1> QED
  BY <1>1, <1>2, <1>3

\* A code is shown in the slot of the thread it belongs to.
LEMMA IssueCodeInv ==
  ASSUME SignInInv, NEW f \in Flows, IssueCode(f)
  PROVE  SignInInv'
<1> DEFINE r == [flow[f] EXCEPT !.thread = "polling"]
           c == [of |-> f, live |-> TRUE]
<1>0. /\ flow[f] \in FlowType /\ flow[f].slot \in Slots
      /\ flow[f].req \notin {"unused", "held", "retry"}
  BY DEF SignInInv, FlowsTyped, FlowType, LosersAreBare, IssueCode
<1>1. /\ r \in FlowType /\ r.slot = flow[f].slot /\ r.req = flow[f].req
      /\ r.thread = "polling" /\ r.watch = flow[f].watch
  BY <1>0 DEF FlowType
<1>2. flow' = [flow EXCEPT ![f] = r]
  BY DEF IssueCode, SetThread, SignInInv, FlowsTyped
<1>3. c \in [of : Flows \cup {NoFlow}, live : BOOLEAN] /\ c.of = f
  OBVIOUS
<1>4. code' = [code EXCEPT ![flow[f].slot] = c]
  BY DEF IssueCode
<1> HIDE DEF r, c
<1>5. /\ flow' \in [Flows -> FlowType]
      /\ \A g \in Flows : flow'[g] = IF g = f THEN r ELSE flow[g]
  BY <1>1, <1>2, OneFlowMoves DEF SignInInv
<1>6. /\ code' \in [Slots -> [of : Flows \cup {NoFlow}, live : BOOLEAN]]
      /\ \A s \in Slots : code'[s] = IF s = flow[f].slot THEN c ELSE code[s]
  BY <1>0, <1>3, <1>4 DEF SignInInv, FlowsTyped
<1>7. FlowsTyped'
  BY <1>5, <1>6 DEF SignInInv, FlowsTyped, IssueCode
<1>8. HeldSlotIsWatched'
  BY <1>1, <1>5 DEF SignInInv, HeldSlotIsWatched, Of, IssueCode
<1>9. CodeIsOfSlot'
  <2> SUFFICES ASSUME NEW s \in Slots, code'[s].of # NoFlow
               PROVE  code'[s].of \in Of(s)' /\ flow'[code'[s].of].thread \in {"polling"} \cup Ended
    BY DEF CodeIsOfSlot
  <2>1. CASE s = flow[f].slot
    BY <1>1, <1>3, <1>5, <1>6, <2>1 DEF Of
  <2>2. CASE s # flow[f].slot
    <3>1. /\ code'[s] = code[s]
          /\ code[s].of \in Flows
          /\ flow[code[s].of].slot = s
          /\ flow[code[s].of].thread \in {"polling"} \cup Ended
      BY <1>6, <2>2 DEF SignInInv, CodeIsOfSlot, Of
    <3> QED
      BY <1>5, <2>2, <3>1 DEF Of
  <2> QED
    BY <2>1, <2>2
<1>10. LosersAreBare'
  BY <1>0, <1>1, <1>5 DEF SignInInv, LosersAreBare
<1> QED
  BY <1>7, <1>8, <1>9, <1>10 DEF SignInInv

\* Steps that leave every flow alone: an expiry, a cancel, a sign-out, a refusal.
LEMMA SlotStepInv ==
  ASSUME SignInInv, UNCHANGED flow,
         lock' \in [Slots -> BOOLEAN], event' \in [Slots -> BOOLEAN], cached' \in BOOLEAN,
         code' \in [Slots -> [of : Flows \cup {NoFlow}, live : BOOLEAN]],
         \A s \in Slots : (lock'[s] => lock[s]) /\ code'[s].of \in {code[s].of, NoFlow}
  PROVE  SignInInv'
  BY DEF SignInInv, FlowsTyped, HeldSlotIsWatched, CodeIsOfSlot, LosersAreBare, Of

LEMMA OtherStepsInv ==
  ASSUME SignInInv, (\E s \in Slots : ExpireCode(s)) \/ Cancel \/ SignOut \/ Unauthorized
  PROVE  SignInInv'
<1> USE DEF SignInInv, FlowsTyped
<1>0. NoCode \in [of : Flows \cup {NoFlow}, live : BOOLEAN] /\ NoCode.of = NoFlow
  BY DEF NoCode
<1>1. ASSUME NEW s \in Slots, ExpireCode(s) PROVE SignInInv'
  <2> DEFINE c == [code[s] EXCEPT !.live = FALSE]
  <2>1. c \in [of : Flows \cup {NoFlow}, live : BOOLEAN] /\ c.of = code[s].of
    OBVIOUS
  <2>2. code' = [code EXCEPT ![s] = c]
    BY <1>1 DEF ExpireCode
  <2> HIDE DEF c
  <2>3. /\ code' \in [Slots -> [of : Flows \cup {NoFlow}, live : BOOLEAN]]
        /\ \A t \in Slots : code'[t].of = code[t].of
    BY <2>1, <2>2
  <2> QED
    BY <1>1, <2>3, SlotStepInv DEF ExpireCode
<1>2. CASE Cancel
  BY <1>0, <1>2, SlotStepInv DEF Cancel, ResetDeviceState
<1>3. CASE SignOut
  BY <1>0, <1>3, SlotStepInv DEF SignOut, ResetDeviceState
<1>4. CASE Unauthorized
  BY <1>4, SlotStepInv DEF Unauthorized
<1> QED
  BY <1>1, <1>2, <1>3, <1>4

LEMMA SignInNextInv == SignInInv /\ [SignInNext]_signInVars => SignInInv'
<1> SUFFICES ASSUME SignInInv, [SignInNext]_signInVars PROVE SignInInv'
  OBVIOUS
<1>1. CASE UNCHANGED signInVars
  BY <1>1 DEF signInVars, SignInInv, FlowsTyped, HeldSlotIsWatched, CodeIsOfSlot, LosersAreBare, Of
<1>2. CASE \E f \in Flows, s \in Slots : Click(f, s)
  BY <1>2, ClickInv
<1>3. ASSUME NEW f \in Flows, Proceed(f) PROVE SignInInv'
  BY <1>3, ReshowInv, ForceReleaseInv, TryAgainInv, AnswerInv, WatchdogInv DEF Proceed
<1>4. ASSUME NEW f \in Flows, Succeed(f) \/ GoInteractive(f) \/ IssueCode(f) \/ Fail(f)
      PROVE  SignInInv'
  BY <1>4, ThreadInv, IssueCodeInv
<1>5. CASE (\E s \in Slots : ExpireCode(s)) \/ Cancel \/ SignOut \/ Unauthorized
  BY <1>5, OtherStepsInv
<1> QED
  BY <1>1, <1>2, <1>3, <1>4, <1>5 DEF SignInNext

(* However many slots, requests, cancels and steals there are: a held slot *)
(* has a request waiting or a watchdog that will free it, and it shows no  *)
(* code but one that a thread of that slot asked for                       *)
(* (routes/sharepoint.py:376-510).                                         *)
THEOREM SignInIsSafe == SignInSpec => []SignInSafe
<1>1. SignInInv => SignInSafe
  BY FlowsAreTyped DEF SignInInv, SignInSafe
<1> QED
  BY <1>1, InitSignInInv, SignInNextInv, PTL DEF SignInSpec

-----------------------------------------------------------------------------
(* Judging *)

Jobs == {"queued", "calling", "answered", "taken", "cancelled", "reported"}

BatchTyped ==
    /\ upto \in 0..N
    /\ job \in [Candidates -> Jobs]
    /\ answer \in [Candidates -> Answers \cup {"none"}]
    /\ spent \in Nat
    /\ reason \in CapReasons \cup {"none", "api_error"}
    /\ late \in BOOLEAN
    /\ main \in {"idle", "collecting", "cancelling", "raising", "raised", "done"}
    /\ cut \in Candidates

Answered == {c \in Candidates : answer[c] # "none"}

\* The pool took exactly the first candidates, and a call was answered once it returned.
QueueIsInOrder ==
    \A c \in Candidates :
        /\ job[c] \in {"queued", "cancelled"} <=> c > upto
        /\ job[c] \in {"answered", "taken"} <=> answer[c] # "none"

\* Where the cancelling loop has been nothing is queued: in its first turn that is
\* up to the cursor, and everything afterwards.
LoopIsThorough ==
    /\ main = "cancelling" => \A c \in Candidates : c < cut => job[c] # "queued"
    /\ \A d \in Cut : main # "cancelling" \/ cut <= d => \A c \in Candidates : job[c] # "queued"
    /\ Cut # {} \/ main = "cancelling" => reason \in CapReasons

\* Before the pool is left every answer comes in, and it is left for a cancelled one.
EndIsEarned ==
    /\ main = "done" => \A c \in Candidates : job[c] = "taken"
    /\ main \in {"raising", "raised"} => \E c \in Candidates : job[c] = "reported"

\* What makes JudgeSafe and CancelStopsSpending inductive.
JudgeInv ==
    /\ BatchTyped
    /\ QueueIsInOrder
    /\ LoopIsThorough
    /\ EndIsEarned
    /\ Cardinality(Calling) <= PoolSize
    /\ spent <= Cardinality(Answered)
    /\ ReasonIsTrue
    /\ reason = "api_error" => \A c \in Candidates : job[c] = "taken"

LEMMA CandidatesAreFinite ==
  /\ IsFiniteSet(Candidates) /\ Cardinality(Candidates) = N
  /\ \A S \in SUBSET Candidates :
        /\ IsFiniteSet(S) /\ Cardinality(S) \in Nat /\ Cardinality(S) <= N
        /\ \A c \in Candidates \ S : Cardinality(S \cup {c}) = Cardinality(S) + 1
<1>1. IsFiniteSet(Candidates) /\ Cardinality(Candidates) = N
  <2>1. 1 \in Int /\ N \in Int /\ 1 <= N
    BY JudgeAssumption
  <2> QED
    BY <2>1, FS_Interval DEF Candidates
<1>2. ASSUME NEW S \in SUBSET Candidates
      PROVE  IsFiniteSet(S) /\ Cardinality(S) \in Nat /\ Cardinality(S) <= N
  BY <1>1, <1>2, FS_Subset, FS_CardinalityType
<1>3. ASSUME NEW S \in SUBSET Candidates, NEW c \in Candidates \ S
      PROVE  Cardinality(S \cup {c}) = Cardinality(S) + 1
  BY <1>2, <1>3, FS_AddElement
<1> QED
  BY <1>1, <1>2, <1>3

\* A batch of this state is safe.
LEMMA JudgeInvIsSafe == JudgeInv => JudgeSafe
<1> SUFFICES ASSUME JudgeInv PROVE JudgeSafe
  OBVIOUS
<1>1. spent \in 0..N
  <2>1. Cardinality(Answered) \in Nat /\ Cardinality(Answered) <= N
    BY CandidatesAreFinite DEF Answered
  <2> QED
    BY <2>1, JudgeAssumption DEF JudgeInv, BatchTyped
<1>2. JudgeTypeOK
  BY <1>1 DEF JudgeInv, BatchTyped, JudgeTypeOK, Jobs
<1>3. FailedCallHidesNothing
  BY DEF FailedCallHidesNothing, Surfaced, Blended
<1>4. CutLosesTheBatch
  BY DEF JudgeInv, EndIsEarned, LoopIsThorough, CutLosesTheBatch, Cut
<1> QED
  BY <1>2, <1>3, <1>4 DEF JudgeInv, JudgeSafe

LEMMA InitJudgeInv == JudgeInit => JudgeInv
<1> SUFFICES ASSUME JudgeInit PROVE JudgeInv
  OBVIOUS
<1>1. Calling = {} /\ Answered = {}
  BY DEF JudgeInit, Calling, Answered
<1>2. Cardinality(Calling) = 0 /\ Cardinality(Answered) = 0
  BY <1>1, FS_EmptySet
<1>3. BatchTyped
  <2>1. upto \in 0..N
    BY JudgeAssumption DEF JudgeInit
  <2>2. job \in [Candidates -> Jobs] /\ answer \in [Candidates -> Answers \cup {"none"}]
    BY DEF JudgeInit, Jobs
  <2>3. cut \in Candidates
    BY JudgeAssumption DEF JudgeInit, Candidates
  <2> QED
    BY <2>1, <2>2, <2>3 DEF JudgeInit, BatchTyped
<1>4. QueueIsInOrder
  BY DEF JudgeInit, QueueIsInOrder, Candidates
<1>5. LoopIsThorough /\ EndIsEarned
  BY DEF JudgeInit, LoopIsThorough, EndIsEarned, Cut
<1> QED
  BY <1>2, <1>3, <1>4, <1>5, JudgeAssumption DEF JudgeInit, JudgeInv, ReasonIsTrue, CapReasons

\* A worker takes an item: at most one more is calling.
LEMMA DequeueInv ==
  ASSUME JudgeInv, Dequeue
  PROVE  JudgeInv'
<1> DEFINE d == upto + 1
<1>0. d \in Candidates /\ job[d] \in {"queued", "cancelled"}
  BY JudgeAssumption DEF JudgeInv, BatchTyped, QueueIsInOrder, Dequeue, Candidates
<1>1. \A c \in Candidates : job'[c] = IF c = d
          THEN (IF job[d] = "queued" THEN "calling" ELSE "reported") ELSE job[c]
  BY DEF JudgeInv, BatchTyped, Dequeue
<1>2. BatchTyped'
  BY <1>0, <1>1, JudgeAssumption DEF JudgeInv, BatchTyped, Dequeue, Jobs
<1>3. QueueIsInOrder'
  BY <1>0, <1>1 DEF JudgeInv, BatchTyped, QueueIsInOrder, Dequeue, Candidates
<1>4. LoopIsThorough' /\ EndIsEarned'
  <2>1. Cut' = Cut \cup (IF job[d] = "cancelled" THEN {d} ELSE {}) /\ Cut' = Cut
    BY <1>0, <1>1 DEF Cut
  <2>2. \A c \in Candidates : job'[c] = "queued" => job[c] = "queued"
    BY <1>0, <1>1
  <2>3. \A c \in Candidates : job[c] = "reported" => job'[c] = "reported"
    BY <1>0, <1>1
  <2>4. main' = main /\ cut' = cut /\ reason' = reason /\ main # "done"
    BY DEF Dequeue
  <2> QED
    BY <2>1, <2>2, <2>3, <2>4 DEF JudgeInv, LoopIsThorough, EndIsEarned
<1>5. Cardinality(Calling') <= PoolSize
  <2>1. Calling' \in {Calling, Calling \cup {d}} /\ d \notin Calling /\ Calling \in SUBSET Candidates
    BY <1>0, <1>1 DEF Calling
  <2>2. /\ Cardinality(Calling) \in Nat
        /\ Cardinality(Calling \cup {d}) = Cardinality(Calling) + 1
    BY <1>0, <2>1, CandidatesAreFinite
  <2> QED
    BY <2>1, <2>2, JudgeAssumption DEF Dequeue
<1>6. Answered' = Answered
  BY DEF Answered, Dequeue
<1>7. ReasonIsTrue'
  BY DEF JudgeInv, ReasonIsTrue, Dequeue
<1>8. reason = "api_error" => FALSE
  BY <1>0 DEF JudgeInv
<1> QED
  BY <1>2, <1>3, <1>4, <1>5, <1>6, <1>7, <1>8 DEF JudgeInv, Dequeue

\* A call returns: one more answer, at most one more paid for.
LEMMA CallReturnsInv ==
  ASSUME JudgeInv, NEW c \in Candidates, NEW a \in Answers, CallReturns(c, a)
  PROVE  JudgeInv'
<1>0. answer[c] = "none" /\ job[c] = "calling"
  BY DEF JudgeInv, QueueIsInOrder, CallReturns
<1>1. /\ \A d \in Candidates : job'[d] = IF d = c THEN "answered" ELSE job[d]
      /\ \A d \in Candidates : answer'[d] = IF d = c THEN a ELSE answer[d]
  BY DEF JudgeInv, BatchTyped, CallReturns
<1>2. spent' \in {spent, spent + 1} /\ spent' >= spent /\ spent' \in Nat
  BY DEF JudgeInv, BatchTyped, CallReturns, Cost
<1>3. BatchTyped'
  BY <1>2 DEF JudgeInv, BatchTyped, CallReturns, Jobs, CapReasons
<1>4. QueueIsInOrder'
  BY <1>0, <1>1 DEF JudgeInv, QueueIsInOrder, CallReturns, Answers
<1>5. LoopIsThorough' /\ EndIsEarned'
  <2>1. Cut' = Cut
    BY <1>0, <1>1 DEF Cut
  <2>2. main' = main /\ cut' = cut /\ (reason \in CapReasons => reason' = reason)
    BY DEF CallReturns, CapReasons
  <2>3. main # "done"
    BY <1>0 DEF JudgeInv, EndIsEarned
  <2> QED
    BY <1>0, <1>1, <2>1, <2>2, <2>3 DEF JudgeInv, LoopIsThorough, EndIsEarned
<1>6. Cardinality(Calling') <= PoolSize
  <2>1. Calling' \subseteq Calling /\ Calling \in SUBSET Candidates
    BY <1>1 DEF Calling
  <2>2. Cardinality(Calling') <= Cardinality(Calling)
    BY <2>1, CandidatesAreFinite, FS_Subset
  <2>3. Cardinality(Calling') \in Nat /\ Cardinality(Calling) \in Nat
    BY <2>1, CandidatesAreFinite
  <2> QED
    BY <2>2, <2>3, JudgeAssumption DEF JudgeInv
<1>7. spent' <= Cardinality(Answered')
  <2>1. Answered' = Answered \cup {c} /\ c \notin Answered /\ Answered \in SUBSET Candidates
    BY <1>0, <1>1 DEF Answered, Answers
  <2>2. /\ Cardinality(Answered) \in Nat
        /\ Cardinality(Answered') = Cardinality(Answered) + 1
    BY <2>1, CandidatesAreFinite
  <2> QED
    BY <1>2, <2>2 DEF JudgeInv, BatchTyped
<1>8. reason # "api_error" /\ reason' # "api_error"
  BY <1>0 DEF JudgeInv, CallReturns
<1>9. ReasonIsTrue'
  BY <1>2, <1>8, JudgeAssumption DEF JudgeInv, BatchTyped, ReasonIsTrue, CallReturns, CapReasons
<1> QED
  BY <1>3, <1>4, <1>5, <1>6, <1>7, <1>8, <1>9 DEF JudgeInv

\* The collecting thread takes an answer and may turn to its loop.
LEMMA CollectInv ==
  ASSUME JudgeInv, NEW c \in Candidates, Collect(c)
  PROVE  JudgeInv'
<1>1. \A d \in Candidates : job'[d] = IF d = c THEN "taken" ELSE job[d]
  BY DEF Collect, JudgeInv, BatchTyped
<1>2. job[c] = "answered" /\ main = "collecting" /\ reason' = reason
  BY DEF Collect
<1>3. \/ main' = "collecting"
      \/ main' = "cancelling" /\ cut' = 1 /\ reason \in CapReasons
  BY <1>2 DEF Collect
<1>4. BatchTyped'
  BY <1>2, JudgeAssumption DEF JudgeInv, BatchTyped, Collect, Jobs, Candidates
<1>5. QueueIsInOrder'
  BY <1>1, <1>2 DEF JudgeInv, QueueIsInOrder, Collect
<1>6. LoopIsThorough' /\ EndIsEarned'
  <2>1. Cut' = Cut /\ \A d \in Candidates : job'[d] = "queued" => job[d] = "queued"
    BY <1>1, <1>2 DEF Cut
  <2>2. Cut # {} => \A d \in Candidates : job[d] # "queued"
    BY <1>2 DEF JudgeInv, LoopIsThorough
  <2>3. \A d \in Candidates : ~(d < 1)
    BY DEF Candidates
  <2> QED
    BY <1>2, <1>3, <2>1, <2>2, <2>3 DEF JudgeInv, LoopIsThorough, EndIsEarned
<1>7. Calling' = Calling /\ Answered' = Answered
  BY <1>1, <1>2 DEF Calling, Answered, Collect
<1>8. ReasonIsTrue'
  BY DEF JudgeInv, ReasonIsTrue, Collect
<1>9. reason = "api_error" => \A d \in Candidates : job'[d] = "taken"
  BY <1>1, <1>2 DEF JudgeInv, CapReasons
<1> QED
  BY <1>4, <1>5, <1>6, <1>7, <1>8, <1>9 DEF JudgeInv, Collect

\* The loop comes by one more future; after the last one nothing is queued.
LEMMA CancelNextInv ==
  ASSUME JudgeInv, CancelNext
  PROVE  JudgeInv'
<1>1. \A d \in Candidates : job'[d] =
          IF d = cut /\ job[d] = "queued" THEN "cancelled" ELSE job[d]
  BY DEF CancelNext, JudgeInv, BatchTyped
<1>2. main = "cancelling" /\ cut \in 1..N /\ reason' = reason /\ reason \in CapReasons
  BY DEF CancelNext, JudgeInv, BatchTyped, LoopIsThorough, Candidates
<1>3. /\ \/ cut = N /\ cut' = 1 /\ main' = "collecting"
         \/ cut < N /\ cut' = cut + 1 /\ main' = "cancelling"
      /\ cut' \in Candidates
  BY <1>2, JudgeAssumption DEF CancelNext, Candidates
<1>4. BatchTyped'
  BY <1>3 DEF JudgeInv, BatchTyped, CancelNext, Jobs
<1>5. QueueIsInOrder'
  BY <1>1 DEF JudgeInv, QueueIsInOrder, CancelNext
<1>6. LoopIsThorough' /\ EndIsEarned'
  <2>1. \A d \in Candidates : d <= cut => job'[d] # "queued"
    BY <1>1, <1>2 DEF JudgeInv, LoopIsThorough, Candidates
  <2>2. \A d \in Candidates : job'[d] = "queued" => job[d] = "queued"
    BY <1>1
  <2>3. main' = "collecting" => \A d \in Candidates : job'[d] # "queued"
    BY <1>3, <2>1 DEF Candidates
  <2>4. main' = "cancelling" => \A d \in Candidates : d < cut' => job'[d] # "queued"
    BY <1>2, <1>3, <2>1 DEF Candidates
  <2>5. ASSUME NEW d \in Cut', main' = "cancelling", cut' <= d
        PROVE  \A c \in Candidates : job'[c] # "queued"
    <3>1. d \in Cut /\ cut <= d
      BY <1>1, <1>2, <1>3, <2>5 DEF Cut, Candidates
    <3> QED
      BY <3>1, <2>2 DEF JudgeInv, LoopIsThorough
  <2>6. EndIsEarned'
    BY <1>3 DEF EndIsEarned
  <2> QED
    BY <1>2, <1>3, <2>3, <2>4, <2>5, <2>6 DEF LoopIsThorough
<1>7. Calling' = Calling /\ Answered' = Answered
  BY <1>1 DEF Calling, Answered, CancelNext
<1>8. ReasonIsTrue'
  BY DEF JudgeInv, ReasonIsTrue, CancelNext
<1>9. reason' # "api_error"
  BY <1>2 DEF CapReasons
<1> QED
  BY <1>4, <1>5, <1>6, <1>7, <1>8, <1>9 DEF JudgeInv, CancelNext

\* Steps of the collecting thread that leave every call as it is.
LEMMA MainMovesInv ==
  ASSUME JudgeInv,
         \/ Submit \/ TimePasses \/ LeavePool \/ Finish
         \/ \E c \in Candidates : CollectCancelled(c)
  PROVE  JudgeInv'
<1>1. Calling' = Calling /\ Answered' = Answered /\ Cut' = Cut
  BY DEF Calling, Answered, Cut, Submit, TimePasses, LeavePool, Finish, CollectCancelled
<1>2. BatchTyped' /\ QueueIsInOrder'
  BY DEF JudgeInv, BatchTyped, QueueIsInOrder,
     Submit, TimePasses, LeavePool, Finish, CollectCancelled
<1>3. LoopIsThorough' /\ EndIsEarned'
  <2>1. job' = job /\ cut' = cut /\ (reason \in CapReasons => reason' = reason)
    BY DEF Submit, TimePasses, LeavePool, Finish, CollectCancelled, CapReasons
  <2>2. main' = "cancelling" <=> main = "cancelling"
    BY DEF Submit, TimePasses, LeavePool, Finish, CollectCancelled
  <2>3. LoopIsThorough'
    BY <1>1, <2>1, <2>2 DEF JudgeInv, LoopIsThorough
  <2>4. EndIsEarned'
    BY <2>1 DEF JudgeInv, EndIsEarned, Submit, TimePasses, LeavePool, Finish, CollectCancelled
  <2> QED
    BY <2>3, <2>4
<1>4. ReasonIsTrue' /\ (reason' = "api_error" => \A c \in Candidates : job'[c] = "taken")
  BY DEF JudgeInv, ReasonIsTrue, Submit, TimePasses, LeavePool, Finish, CollectCancelled
<1>5. spent' = spent
  BY DEF Submit, TimePasses, LeavePool, Finish, CollectCancelled
<1> QED
  BY <1>1, <1>2, <1>3, <1>4, <1>5 DEF JudgeInv

LEMMA JudgeNextInv == JudgeInv /\ [JudgeNext]_judgeVars => JudgeInv'
<1> SUFFICES ASSUME JudgeInv, [JudgeNext]_judgeVars PROVE JudgeInv'
  OBVIOUS
<1>1. CASE UNCHANGED judgeVars
  BY <1>1 DEF judgeVars, JudgeInv, BatchTyped, QueueIsInOrder, LoopIsThorough,
     EndIsEarned, ReasonIsTrue, Calling, Answered, Cut
<1>2. CASE PoolStep
  BY <1>2, DequeueInv, CallReturnsInv DEF PoolStep
<1>3. CASE MainStep
  BY <1>3, CollectInv, CancelNextInv, MainMovesInv DEF MainStep
<1>4. CASE Submit \/ TimePasses
  BY <1>4, MainMovesInv
<1> QED
  BY <1>1, <1>2, <1>3, <1>4 DEF JudgeNext

(* However many candidates and workers there are and whatever the caps:    *)
(* the pool is never overrun, the reason a batch gives is true of it, in   *)
(* one that ends a failed call hides no candidate its keywords bring up,    *)
(* and one that a cap cut short of a call raises instead of ending          *)
(* (evidence/sources/sweep_judge.py).                                      *)
THEOREM JudgeIsSafe == JudgeSpec => []JudgeSafe
  BY InitJudgeInv, JudgeNextInv, JudgeInvIsSafe, PTL DEF JudgeSpec

(* Workers go on while the loop cancels one future after the other.  Still *)
(* no call starts that the loop has come by, and none at all once it is     *)
(* through (sweep_judge.py:507-510).                                       *)
THEOREM CancelStopsAll == JudgeSpec => CancelStopsSpending
<1> DEFINE Stops == \A c \in Candidates :
                       (\E d \in Cut : main # "cancelling" \/ c <= d) /\ job'[c] = "calling"
                       => job[c] = "calling"
<1>1. ASSUME JudgeInv, [JudgeNext]_judgeVars PROVE [Stops]_judgeVars
  <2>1. CASE UNCHANGED judgeVars
    BY <2>1
  <2>2. ASSUME Dequeue, NEW c \in Candidates, NEW d \in Cut,
               main # "cancelling" \/ c <= d, job'[c] = "calling"
        PROVE  job[c] = "calling"
    <3>1. c # upto + 1 => job'[c] = job[c]
      BY <1>1, <2>2 DEF JudgeInv, BatchTyped, Dequeue
    <3>2. CASE c = upto + 1
      <4>1. job[c] = "queued"
        BY <1>1, <2>2, <3>2 DEF JudgeInv, BatchTyped, Dequeue
      <4>2. main = "cancelling" /\ c <= d /\ d < cut /\ ~(c < cut)
        BY <1>1, <2>2, <4>1 DEF JudgeInv, LoopIsThorough, BatchTyped, Cut, Candidates
      <4> QED
        BY <1>1, <4>2 DEF JudgeInv, BatchTyped, Cut, Candidates
    <3> QED
      BY <2>2, <3>1, <3>2
  <2>3. ASSUME NEW c \in Candidates, NEW a \in Answers, CallReturns(c, a) PROVE Stops
    BY <1>1, <2>3 DEF JudgeInv, BatchTyped, CallReturns
  <2>4. ASSUME NEW c \in Candidates, Collect(c) PROVE Stops
    BY <1>1, <2>4 DEF JudgeInv, BatchTyped, Collect
  <2>5. CASE CancelNext
    BY <1>1, <2>5 DEF JudgeInv, BatchTyped, CancelNext
  <2>6. CASE \/ Submit \/ TimePasses \/ LeavePool \/ Finish
             \/ \E c \in Candidates : CollectCancelled(c)
    BY <2>6 DEF Submit, TimePasses, LeavePool, Finish, CollectCancelled
  <2> QED
    BY <1>1, <2>1, <2>2, <2>3, <2>4, <2>5, <2>6 DEF JudgeNext, PoolStep, MainStep
<1> QED
  BY <1>1, InitJudgeInv, JudgeNextInv, PTL DEF JudgeSpec, CancelStopsSpending

-----------------------------------------------------------------------------
(* The books of the sweeps *)

Totals == [cost : Nat, attempts : Nat]
SweepType == [pc : {"new", "running", "refused", "failed", "recorded"}, read : Totals]
UpdaterType == [pc : {"none", "started", "fitting", "skipping", "marking", "over"},
                features : SUBSET Decisions]

Recorded == {w \in Sweeps : sweep[w].pc = "recorded"}

\* What a sweep has read is covered by the runs there are.
Covered(t) == t.cost <= runs.cost /\ t.attempts <= runs.number

RequestsInv ==
    /\ sweep \in [Sweeps -> SweepType]
    /\ wbTotals \in Totals
    /\ runs \in [number : Nat, cost : Nat]
    /\ runs.number = Cardinality(Recorded)
    /\ runs.cost <= Judged * runs.number
    /\ Covered(wbTotals)
    /\ \A w \in Sweeps : Covered(sweep[w].read)

\* An update marks what it fitted weights on or set aside.
TrainingInv ==
    /\ updater \in [Updaters -> UpdaterType]
    /\ queued \cup consumed \cup discarded \subseteq Decisions
    /\ queued \cap consumed = {}
    /\ \A r \in weights : r.by \in Updaters /\ r.on \subseteq Decisions
    /\ ConsumedWasUsed
    /\ \A u \in Updaters : updater[u].pc = "marking" =>
          \E r \in weights : r.on = updater[u].features

RunsInv == RequestsInv /\ TrainingInv

LEMMA CardOfRuns ==
  ASSUME RequestsInv
  PROVE  /\ Cardinality(Sweeps) \in Nat
         /\ runs.number \in 0..Cardinality(Sweeps)
         /\ runs.cost \in Nat
         /\ IsFiniteSet(Recorded)
<1>1. Recorded \in SUBSET Sweeps /\ IsFiniteSet(Sweeps)
  BY SweepAssumption DEF Recorded
<1> QED
  BY <1>1, FS_Subset, FS_CardinalityType DEF RequestsInv

LEMMA TimesIsMonotone ==
  ASSUME NEW k \in Nat, NEW i \in Nat, NEW j \in Nat, i <= j
  PROVE  /\ k * i \in Nat /\ k * i <= k * j
         /\ k * (i + 1) = k * i + k
  OBVIOUS

LEMMA RunsInvIsSafe == RunsInv => RunsSafe
<1> SUFFICES ASSUME RunsInv PROVE SweepTypeOK /\ TotalsAreCovered
  BY DEF RunsInv, TrainingInv, RunsSafe
<1> DEFINE n == runs.number
           most == Cardinality(Sweeps)
<1>1. n \in Nat /\ most \in Nat /\ n <= most /\ runs.cost \in Nat /\ Judged \in Nat
  BY CardOfRuns, SweepAssumption DEF RunsInv
<1> HIDE DEF n, most
<1>2. Judged * n <= Judged * most /\ Judged * n \in Nat /\ Judged * most \in Nat
  BY <1>1, TimesIsMonotone
<1>3. runs.cost <= Judged * n
  BY DEF RunsInv, RequestsInv, n
<1>4. ASSUME NEW t \in Totals, Covered(t)
      PROVE  t.cost \in 0..(Judged * most) /\ t.attempts \in 0..most
  BY <1>1, <1>2, <1>3, <1>4 DEF Totals, Covered, n
<1>5. \A w \in Sweeps : sweep[w].read \in Totals /\ Covered(sweep[w].read)
      /\ sweep[w].pc \in {"new", "running", "refused", "failed", "recorded"}
  BY DEF RunsInv, RequestsInv, SweepType
<1>6. /\ \A w \in Sweeps : sweep[w].read.cost \in 0..(Judged * most)
      /\ wbTotals.cost \in 0..(Judged * most)
      /\ wbTotals.attempts \in 0..most
  BY <1>4, <1>5 DEF RunsInv, RequestsInv
<1>7. runs.number \in 0..most /\ runs.cost \in 0..(Judged * runs.number)
  BY <1>1, <1>2, <1>3 DEF n
<1> QED
  BY <1>5, <1>6, <1>7
     DEF RunsInv, RequestsInv, TrainingInv, SweepTypeOK, TotalsAreCovered, Covered, UpdaterType,
         most

LEMMA InitRunsInv == SweepInit => RunsInv
<1> SUFFICES ASSUME SweepInit PROVE RunsInv
  OBVIOUS
<1> DEFINE zero == [cost |-> 0, attempts |-> 0]
<1>1. zero \in Totals /\ zero.cost = 0 /\ zero.attempts = 0 /\ Cardinality({}) = 0
  BY FS_EmptySet DEF Totals
<1>2. Recorded = {}
  BY DEF SweepInit, Recorded
<1>3. runs \in [number : Nat, cost : Nat] /\ runs.number = 0 /\ runs.cost = 0
  BY DEF SweepInit
<1>4. RequestsInv
  <2>1. sweep \in [Sweeps -> SweepType] /\ (\A w \in Sweeps : sweep[w].read = zero)
        /\ wbTotals = zero
    BY <1>1 DEF SweepInit, SweepType
  <2> HIDE DEF zero
  <2>2. Covered(zero) /\ runs.cost <= Judged * runs.number
    BY <1>1, <1>3, SweepAssumption DEF Covered
  <2> QED
    BY <1>1, <1>2, <1>3, <2>1, <2>2 DEF RequestsInv
<1>5. TrainingInv
  BY DEF SweepInit, TrainingInv, UpdaterType, ConsumedWasUsed
<1> QED
  BY <1>4, <1>5 DEF RunsInv

\* A request that records nothing yet.
LEMMA SweepMovesInv ==
  ASSUME RunsInv, NEW w \in Sweeps, StartSweep(w) \/ SweepFails(w)
  PROVE  RunsInv'
<1>1. PICK r \in SweepType : /\ sweep' = [sweep EXCEPT ![w] = r]
                             /\ r.pc # "recorded"
                             /\ r.read \in {sweep[w].read, wbTotals}
  <2>0. sweep[w] \in SweepType /\ wbTotals \in Totals
    BY DEF RunsInv, RequestsInv
  <2>1. CASE SweepFails(w)
    <3> DEFINE r == [sweep[w] EXCEPT !.pc = "failed"]
    <3>1. r \in SweepType /\ r.pc = "failed" /\ r.read = sweep[w].read
      BY <2>0 DEF SweepType
    <3>2. sweep' = [sweep EXCEPT ![w] = r]
      BY <2>1 DEF SweepFails, RunsInv, RequestsInv
    <3> QED
      BY <3>1, <3>2
  <2>2. CASE StartSweep(w) /\ CapSweep > 0 /\ AvgEstimate > CapSweep
    <3> DEFINE r == [sweep[w] EXCEPT !.pc = "refused"]
    <3>1. r \in SweepType /\ r.pc = "refused" /\ r.read = sweep[w].read
      BY <2>0 DEF SweepType
    <3>2. sweep' = [sweep EXCEPT ![w] = r]
      BY <2>2 DEF StartSweep, RunsInv, RequestsInv
    <3> QED
      BY <3>1, <3>2
  <2>3. CASE StartSweep(w) /\ ~(CapSweep > 0 /\ AvgEstimate > CapSweep)
    <3> DEFINE r == [pc |-> "running", read |-> wbTotals]
    <3>1. r \in SweepType /\ r.pc = "running" /\ r.read = wbTotals
      BY <2>0 DEF SweepType
    <3>2. sweep' = [sweep EXCEPT ![w] = r]
      BY <2>3 DEF StartSweep
    <3> QED
      BY <3>1, <3>2
  <2> QED
    BY <2>1, <2>2, <2>3
<1>2. sweep[w].pc # "recorded" /\ UNCHANGED <<runs, wbTotals>>
  BY DEF StartSweep, SweepFails
<1>3. /\ sweep' \in [Sweeps -> SweepType]
      /\ \A v \in Sweeps : sweep'[v] = IF v = w THEN r ELSE sweep[v]
  BY <1>1 DEF RunsInv, RequestsInv
<1>4. Recorded' = Recorded
  BY <1>1, <1>2, <1>3 DEF Recorded
<1>5. \A v \in Sweeps : Covered(sweep'[v].read)
  BY <1>1, <1>3 DEF RunsInv, RequestsInv
<1>6. RequestsInv'
  BY <1>2, <1>3, <1>4, <1>5 DEF RunsInv, RequestsInv, Covered
<1>7. TrainingInv'
  BY DEF RunsInv, TrainingInv, ConsumedWasUsed, StartSweep, SweepFails
<1> QED
  BY <1>6, <1>7 DEF RunsInv

\* The run and the totals from what was read.
LEMMA RecordSweepInv ==
  ASSUME RunsInv, NEW w \in Sweeps, NEW cost \in 0..Judged, RecordSweep(w, cost)
  PROVE  RunsInv'
<1> DEFINE r == [sweep[w] EXCEPT !.pc = "recorded"]
           n == runs.number
           c == runs.cost
           read == sweep[w].read
           t == [cost |-> read.cost + cost, attempts |-> read.attempts + 1]
<1>0. /\ sweep[w] \in SweepType /\ read \in Totals /\ Covered(read)
      /\ sweep[w].pc = "running"
  BY DEF RunsInv, RequestsInv, SweepType, RecordSweep
<1>1. r \in SweepType /\ r.pc = "recorded" /\ r.read = sweep[w].read
  BY <1>0 DEF SweepType
<1>2. sweep' = [sweep EXCEPT ![w] = r]
  BY DEF RecordSweep, RunsInv, RequestsInv
<1>3. /\ t \in Totals /\ t.cost = read.cost + cost /\ t.attempts = read.attempts + 1
      /\ Judged \in Nat /\ cost \in Nat /\ cost <= Judged
  BY <1>0, SweepAssumption DEF Totals
<1>4. /\ runs' \in [number : Nat, cost : Nat] /\ n \in Nat /\ c \in Nat
      /\ runs'.number = n + 1 /\ runs'.cost = c + cost /\ wbTotals' = t
  BY <1>3 DEF RecordSweep, RunsInv, RequestsInv
<1>5. /\ n = Cardinality(Recorded) /\ c <= Judged * n
      /\ \A q : Covered(q) => q.cost <= c /\ q.attempts <= n
  BY DEF RunsInv, RequestsInv, Covered
<1> HIDE DEF r, t, n, c, read
<1>7. /\ sweep' \in [Sweeps -> SweepType]
      /\ \A v \in Sweeps : sweep'[v] = IF v = w THEN r ELSE sweep[v]
  BY <1>1, <1>2 DEF RunsInv, RequestsInv
<1>8. Recorded' = Recorded \cup {w} /\ w \notin Recorded
  BY <1>0, <1>1, <1>7 DEF Recorded
<1>9. Cardinality(Recorded') = n + 1
  BY <1>4, <1>5, <1>8, CardOfRuns, FS_AddElement DEF RunsInv
<1>10. runs'.cost <= Judged * (n + 1)
  <2>1. Judged * n \in Nat /\ Judged * (n + 1) = Judged * n + Judged
    BY <1>3, <1>4, TimesIsMonotone
  <2> QED
    BY <1>3, <1>4, <1>5, <2>1
<1>11. \A q \in Totals : Covered(q) => q.cost <= runs'.cost /\ q.attempts <= runs'.number
  BY <1>3, <1>4, <1>5 DEF Totals
<1>12. t.cost <= runs'.cost /\ t.attempts <= runs'.number
  BY <1>0, <1>3, <1>4, <1>5 DEF Totals
<1>13. \A v \in Sweeps : /\ sweep'[v].read = sweep[v].read
                         /\ sweep[v].read \in Totals /\ Covered(sweep[v].read)
  BY <1>1, <1>7 DEF RunsInv, RequestsInv, SweepType
<1>14. RequestsInv'
  BY <1>3, <1>4, <1>7, <1>9, <1>10, <1>11, <1>12, <1>13 DEF RequestsInv, Covered
<1>15. TrainingInv'
  BY DEF RunsInv, TrainingInv, ConsumedWasUsed, RecordSweep
<1> QED
  BY <1>14, <1>15 DEF RunsInv

LEMMA ResetAttemptsInv ==
  ASSUME RunsInv, ResetAttempts
  PROVE  RunsInv'
<1> DEFINE t == [wbTotals EXCEPT !.attempts = 0]
<1>1. t \in Totals /\ t.cost = wbTotals.cost /\ t.attempts = 0 /\ wbTotals' = t
  BY DEF RunsInv, RequestsInv, Totals, ResetAttempts
<1> HIDE DEF t
<1>2. runs.number \in Nat
  BY DEF RunsInv, RequestsInv
<1>3. RequestsInv'
  BY <1>1, <1>2 DEF RunsInv, RequestsInv, Covered, ResetAttempts, Recorded
<1>4. TrainingInv'
  BY DEF RunsInv, TrainingInv, ConsumedWasUsed, ResetAttempts
<1> QED
  BY <1>3, <1>4 DEF RunsInv

\* A decision and the update it may start.
LEMMA DecideInv ==
  ASSUME RunsInv, NEW D \in SUBSET Decisions, NEW u \in Updaters, Decide(D, u)
  PROVE  RunsInv'
<1> DEFINE s == [updater[u] EXCEPT !.pc = "started"]
<1>1. s \in UpdaterType /\ s.pc = "started"
  BY DEF RunsInv, TrainingInv, UpdaterType
<1>2. updater' \in {updater, [updater EXCEPT ![u] = s]}
  BY DEF RunsInv, TrainingInv, Decide
<1> HIDE DEF s
<1>3. /\ updater' \in [Updaters -> UpdaterType]
      /\ \A v \in Updaters : updater'[v] \in {updater[v], s}
  BY <1>1, <1>2 DEF RunsInv, TrainingInv
<1>4. TrainingInv'
  BY <1>1, <1>3 DEF RunsInv, TrainingInv, ConsumedWasUsed, Decide
<1>5. RequestsInv'
  BY DEF RunsInv, RequestsInv, Covered, Recorded, Decide
<1> QED
  BY <1>4, <1>5 DEF RunsInv

\* The three commits of an update.
LEMMA UpdateInv ==
  ASSUME RunsInv, NEW u \in Updaters, Update(u)
  PROVE  RunsInv'
<1>0. RequestsInv'
  BY DEF RunsInv, RequestsInv, Covered, Recorded, Update, CollectUnconsumed, CommitWeights, MarkConsumed
<1>1. CASE CollectUnconsumed(u)
  <2>1. PICK s \in UpdaterType : updater' = [updater EXCEPT ![u] = s] /\ s.pc # "marking"
    <3>1. updater[u] \in UpdaterType
      BY DEF RunsInv, TrainingInv
    <3>2. CASE Cardinality(Parsed(queued)) < MinFit
      <4> DEFINE s == [updater[u] EXCEPT !.pc = "over"]
      <4>1. s \in UpdaterType /\ s.pc = "over"
        BY <3>1 DEF UpdaterType
      <4>2. updater' = [updater EXCEPT ![u] = s]
        BY <1>1, <3>2 DEF CollectUnconsumed, RunsInv, TrainingInv
      <4> QED
        BY <4>1, <4>2
    <3>3. CASE ~(Cardinality(Parsed(queued)) < MinFit)
      <4> DEFINE s == [pc |-> IF OneClass(Parsed(queued)) THEN "skipping" ELSE "fitting",
                       features |-> Parsed(queued)]
      <4>1. Parsed(queued) \in SUBSET Decisions
        BY DEF Parsed, RunsInv, TrainingInv
      <4>2. s \in UpdaterType /\ s.pc # "marking"
        BY <4>1 DEF UpdaterType
      <4>3. updater' = [updater EXCEPT ![u] = s]
        BY <1>1, <3>3 DEF CollectUnconsumed
      <4> QED
        BY <4>2, <4>3
    <3> QED
      BY <3>2, <3>3
  <2>2. /\ updater' \in [Updaters -> UpdaterType]
        /\ \A v \in Updaters : updater'[v] = IF v = u THEN s ELSE updater[v]
    BY <2>1 DEF RunsInv, TrainingInv
  <2>3. TrainingInv'
    BY <1>1, <2>1, <2>2 DEF RunsInv, TrainingInv, ConsumedWasUsed, CollectUnconsumed
  <2> QED
    BY <1>0, <2>3 DEF RunsInv
<1>2. CASE CommitWeights(u)
  <2> DEFINE s == [updater[u] EXCEPT !.pc = "marking"]
             e == [by |-> u, on |-> updater[u].features]
  <2>1. /\ s \in UpdaterType /\ s.features = updater[u].features
        /\ updater[u].features \subseteq Decisions
    BY DEF RunsInv, TrainingInv, UpdaterType
  <2>2. updater' = [updater EXCEPT ![u] = s]
    BY <1>2 DEF CommitWeights, RunsInv, TrainingInv
  <2>3. weights' = weights \cup {e} /\ e.by = u /\ e.on = updater[u].features
    BY <1>2 DEF CommitWeights
  <2> HIDE DEF s, e
  <2>4. /\ updater' \in [Updaters -> UpdaterType]
        /\ \A v \in Updaters : updater'[v] = IF v = u THEN s ELSE updater[v]
    BY <2>1, <2>2 DEF RunsInv, TrainingInv
  <2>5. ConsumedWasUsed'
    BY <1>2, <2>3 DEF RunsInv, TrainingInv, ConsumedWasUsed, CommitWeights
  <2>6. \A v \in Updaters : updater'[v].pc = "marking" =>
            \E r \in weights' : r.on = updater'[v].features
    BY <2>1, <2>3, <2>4 DEF RunsInv, TrainingInv
  <2>7. TrainingInv'
    BY <1>2, <2>1, <2>3, <2>4, <2>5, <2>6 DEF RunsInv, TrainingInv, CommitWeights
  <2> QED
    BY <1>0, <2>7 DEF RunsInv
<1>3. CASE MarkConsumed(u)
  <2> DEFINE s == [updater[u] EXCEPT !.pc = "over"]
  <2>1. s \in UpdaterType /\ s.pc = "over" /\ updater[u].features \subseteq Decisions
    BY DEF RunsInv, TrainingInv, UpdaterType
  <2>2. updater' = [updater EXCEPT ![u] = s]
    BY <1>3 DEF MarkConsumed, RunsInv, TrainingInv
  <2> HIDE DEF s
  <2>3. /\ updater' \in [Updaters -> UpdaterType]
        /\ \A v \in Updaters : updater'[v] = IF v = u THEN s ELSE updater[v]
    BY <2>1, <2>2 DEF RunsInv, TrainingInv
  <2>4. ConsumedWasUsed'
    <3>1. CASE updater[u].pc = "skipping"
      BY <1>3, <3>1 DEF RunsInv, TrainingInv, ConsumedWasUsed, MarkConsumed
    <3>2. CASE updater[u].pc = "marking"
      <4>1. updater[u].features \subseteq UNION {r.on : r \in weights}
        BY <3>2 DEF RunsInv, TrainingInv
      <4> QED
        BY <1>3, <3>2, <4>1 DEF RunsInv, TrainingInv, ConsumedWasUsed, MarkConsumed
    <3> QED
      BY <1>3, <3>1, <3>2 DEF MarkConsumed
  <2>5. \A v \in Updaters : updater'[v].pc = "marking" =>
            \E r \in weights' : r.on = updater'[v].features
    BY <1>3, <2>1, <2>3 DEF RunsInv, TrainingInv, MarkConsumed
  <2>6. TrainingInv'
    BY <1>3, <2>1, <2>3, <2>4, <2>5 DEF RunsInv, TrainingInv, MarkConsumed
  <2> QED
    BY <1>0, <2>6 DEF RunsInv
<1> QED
  BY <1>1, <1>2, <1>3 DEF Update

LEMMA SweepNextInv == RunsInv /\ [SweepNext]_sweepVars => RunsInv'
<1> SUFFICES ASSUME RunsInv, [SweepNext]_sweepVars PROVE RunsInv'
  OBVIOUS
<1>1. CASE UNCHANGED sweepVars
  BY <1>1 DEF sweepVars, RunsInv, RequestsInv, TrainingInv, ConsumedWasUsed, Covered, Recorded
<1>2. CASE SweepNext
  BY <1>2, SweepMovesInv, RecordSweepInv, ResetAttemptsInv, DecideInv, UpdateInv DEF SweepNext
<1> QED
  BY <1>1, <1>2

(* However many sweeps, updates and decisions there are, and wherever the   *)
(* process stops: a decision counts as used only if weights were fitted on  *)
(* it or its batch was set aside, no queued row is also consumed, and the   *)
(* workbook never claims more attempts or more spend than its runs had      *)
(* (engine/sweep_online.py, routes/sharepoint.py:799-1103).                *)
THEOREM SweepBooksAreTrue == SweepSpec => []RunsSafe
  BY InitRunsInv, SweepNextInv, RunsInvIsSafe, PTL DEF SweepSpec

-----------------------------------------------------------------------------
(* The tags of a file *)

Sources == {NoTag, "auto", "auto_review", "llm", "located"}

RunType == [at : Stages, caller : {"ingest", "retag", "cached"}, client : BOOLEAN,
            judged : BOOLEAN, stronger : BOOLEAN, verifier : BOOLEAN,
            escalated : BOOLEAN, kept : SUBSET Ccis, det : SUBSET Ccis]

FileTyped ==
    /\ file \in Artifacts
    /\ tag \in [Ccis -> Sources]
    /\ run \in RunType
    /\ declined \in [far : SUBSET Controls, near : SUBSET Controls]
    /\ tally \in [tried : Nat, failed : Nat, accepted : SUBSET Controls]
    /\ before \cup flagged \subseteq Ccis

Opinions == Scores \cup Failures \cup {"unrelated"}

\* What the judge said is of the candidates, and complete once it is taken.
VerdictsFit ==
    /\ DOMAIN verdict \subseteq Controls
    /\ \A c \in DOMAIN verdict :
          verdict[c] \in Opinions \cup IF run.at = "judge" THEN {"asked", "verify"} ELSE {}

\* Two passes at most, and none without a judge.
TallyFits ==
    /\ tally.failed <= tally.tried
    /\ tally.tried <= 2 * Cardinality(Controls)
    /\ ~run.judged => tally.tried = 0
    /\ run.at \in {"judge", "after"} => run.judged
    /\ run.at = "judge" /\ run.escalated => tally.tried <= Cardinality(Controls)
    /\ run.at = "judge" /\ ~run.escalated => tally.tried = 0
    /\ run.at = "after" /\ ~run.escalated => tally.tried <= Cardinality(Controls)

\* Up to the text's similarity, what is tagged automatically the tiers tagged.
GuessesFit ==
    /\ run.at \in {"judge", "after", "similar"} =>
          \A c \in Ccis : tag[c] \in Automatic => c \in run.det
    /\ run.at = "similar" => tally.tried = tally.failed
    /\ RefusalIsNotOverruled

SomeAnswer == \E c \in DOMAIN verdict : verdict[c] \notin Failures

\* An answer accepts a candidate or declines it; past the floor there is a tag.
AnswersFit ==
    /\ tally.accepted # {} => Tagged # {}
    /\ run.at = "after" /\ SomeAnswer =>
          tally.accepted # {} \/ declined.far \cup declined.near # {}
    /\ run.at = "after" /\ tally.tried = tally.failed =>
          declined.far \cup declined.near = {}
    /\ /\ run.at \in {"similar", "floor", "residue", "flag", "done"}
       /\ "failed" \notin file.flaws
       /\ SomeAnswer
       => Tagged # {}

\* What a retag keeps was tagged before it and stays.
KeptFits == run.kept \subseteq Tagged \cap before

\* Before the judge nothing was asked.
UnaskedFits ==
    run.at \in {"new", "tiers", "gate"} =>
        /\ DOMAIN verdict = {}
        /\ tally = NoTally
        /\ ~run.judged /\ ~run.escalated

\* What makes TaggerSafe inductive.
TaggerInv == /\ FileTyped
             /\ UnaskedFits
             /\ VerdictsFit
             /\ TallyFits
             /\ GuessesFit
             /\ AnswersFit
             /\ KeptFits
             /\ TagChangesAreFlagged

LEMMA TaggerInvTypes == TaggerInv => TaggerTypeOK
  BY DEF TaggerInv, FileTyped, VerdictsFit, TallyFits, TaggerTypeOK, Sources, RunType, Opinions,
     Having

LEMMA InitTaggerInv == TaggerInit => TaggerInv
<1> SUFFICES ASSUME TaggerInit PROVE TaggerInv
  OBVIOUS
<1>1. FileTyped
  BY DEF TaggerInit, FileTyped, Sources, RunType, NewRun, NothingDeclined, NoTally, Stages
<1>2. DOMAIN verdict = {}
  BY DEF TaggerInit
<1>3. Cardinality(Controls) \in Nat
  BY FS_CardinalityType, TaggerAssumption
<1>4. TallyFits
  BY <1>3 DEF TaggerInit, TallyFits, NewRun, NoTally
<1>5. /\ GuessesFit /\ AnswersFit /\ KeptFits /\ VerdictsFit /\ TagChangesAreFlagged
      /\ UnaskedFits
  BY <1>2 DEF TaggerInit, UnaskedFits, GuessesFit, RefusalIsNotOverruled, AnswersFit, KeptFits, VerdictsFit,
     TagChangesAreFlagged, NewRun, NoTally, NothingDeclined, SomeAnswer
<1> QED
  BY <1>1, <1>4, <1>5 DEF TaggerInv

\* The tags a step adds: what has one keeps it, what gets one gets it from the source.
LEMMA AddedTags ==
  ASSUME tag \in [Ccis -> Sources], NEW ccis, NEW source \in Sources \ {NoTag},
         tag' = Added(ccis, source)
  PROVE  /\ tag' \in [Ccis -> Sources]
         /\ \A c \in Ccis : tag[c] # NoTag => tag'[c] = tag[c]
         /\ \A c \in Ccis : tag'[c] # tag[c] => tag'[c] = source
         /\ \A c \in Ccis \cap ccis : tag'[c] # NoTag
  BY DEF Added

\* A control has objectives, and they are among those of every set with it.
LEMMA ControlsHaveCcis ==
  ASSUME NEW s \in SUBSET Controls, s # {}
  PROVE  Under(s) \cap Ccis # {}
<1>1. PICK c \in s : TRUE
  OBVIOUS
<1>2. CciOf[c] \in (SUBSET Ccis) \ {{}}
  BY TaggerAssumption
<1>3. CciOf[c] \subseteq Under(s)
  BY <1>1 DEF Under
<1> QED
  BY <1>2, <1>3

Gained == {c \in Ccis : tag'[c] # tag[c]}

\* A step that only adds tags and moves on, past the judge.
LEMMA LaterInv ==
  ASSUME TaggerInv, tag' \in [Ccis -> Sources],
         \A c \in Ccis : tag[c] # NoTag => tag'[c] = tag[c],
         NEW stage \in {"similar", "floor", "residue", "flag"}, Advance(stage),
         UNCHANGED <<file, verdict, declined, tally, before, flagged>>,
         run.at \in {"after", "similar", "floor", "residue"},
         \A c \in Gained : tag'[c] \in Automatic => tally.tried = tally.failed,
         stage = "similar" => run.at = "after" /\ tally.tried = tally.failed /\ Gained = {},
         run.at = "after" /\ SomeAnswer /\ "failed" \notin file.flaws => Tagged' # {}
  PROVE  TaggerInv'
<1> USE DEF Advance
<1>0. /\ run'.at = stage /\ run'.judged = run.judged /\ run'.kept = run.kept
      /\ run'.det = run.det /\ run' \in RunType
  BY DEF TaggerInv, FileTyped, RunType, Stages
<1>1. Tagged \subseteq Tagged'
  BY DEF Tagged, TaggerInv, FileTyped
<1>2. FileTyped'
  BY <1>0 DEF TaggerInv, FileTyped
<1>3. VerdictsFit'
  BY <1>0 DEF TaggerInv, VerdictsFit
<1>4. TallyFits'
  BY <1>0 DEF TaggerInv, TallyFits
<1>5. tally.tried \in Nat /\ tally.failed \in Nat /\ tally.failed <= tally.tried
  BY DEF TaggerInv, TallyFits, FileTyped
<1>6. \A c \in Ccis : tag'[c] \in Automatic => c \in run.det \/ tally.tried = tally.failed
  <2> SUFFICES ASSUME NEW c \in Ccis, tag'[c] \in Automatic, tally.tried # tally.failed
               PROVE  c \in run.det
    OBVIOUS
  <2>1. tag'[c] = tag[c]
    BY DEF Gained
  <2> QED
    BY <2>1, <1>5 DEF TaggerInv, GuessesFit, RefusalIsNotOverruled
<1>7. GuessesFit'
  <2>1. stage = "similar" => \A c \in Ccis : tag'[c] \in Automatic => c \in run.det
    BY DEF TaggerInv, GuessesFit, Gained
  <2> QED
    BY <2>1, <1>6, <1>5, <1>0 DEF GuessesFit, RefusalIsNotOverruled
<1>8. SomeAnswer' = SomeAnswer
  BY DEF SomeAnswer
<1>9. AnswersFit'
  BY <1>8, <1>1, <1>0 DEF TaggerInv, AnswersFit
<1>10. KeptFits' /\ TagChangesAreFlagged'
  BY <1>0, <1>1 DEF TaggerInv, KeptFits, TagChangesAreFlagged
<1>11. UnaskedFits'
  BY <1>0 DEF UnaskedFits
<1> QED
  BY <1>2, <1>3, <1>4, <1>7, <1>9, <1>10, <1>11 DEF TaggerInv

LEMMA TiersInv == TaggerInv /\ Tiers => TaggerInv'
<1> SUFFICES ASSUME TaggerInv, Tiers PROVE TaggerInv'
  OBVIOUS
<1>1. PICK ccis : tag' = Added(ccis, "auto")
  BY DEF Tiers
<1>2. /\ tag' \in [Ccis -> Sources]
      /\ \A c \in Ccis : tag[c] # NoTag => tag'[c] = tag[c]
  BY <1>1, AddedTags DEF TaggerInv, FileTyped, Sources, NoTag
<1>3. Tagged \subseteq Tagged'
  BY <1>2 DEF Tagged
<1>4. /\ run'.at = "gate" /\ run'.judged = run.judged /\ run'.kept = run.kept
      /\ run'.escalated = run.escalated /\ run' \in RunType /\ run.at = "tiers"
      /\ UNCHANGED <<file, verdict, declined, tally, before, flagged>>
  BY DEF Tiers, Advance, TaggerInv, FileTyped, RunType, Stages
<1>5. FileTyped' /\ VerdictsFit' /\ TallyFits' /\ UnaskedFits'
  BY <1>2, <1>4 DEF TaggerInv, FileTyped, VerdictsFit, TallyFits, UnaskedFits
<1>6. GuessesFit' /\ KeptFits' /\ TagChangesAreFlagged'
  BY <1>3, <1>4 DEF TaggerInv, GuessesFit, RefusalIsNotOverruled, KeptFits, TagChangesAreFlagged
<1>7. AnswersFit'
  BY <1>3, <1>4 DEF TaggerInv, AnswersFit
<1> QED
  BY <1>5, <1>6, <1>7 DEF TaggerInv

\* Every candidate the judge is asked about is a control.
LEMMA AskedAreControls ==
  ASSUME TaggerInv, NEW s \in Judgeable
  PROVE  s \subseteq Controls
<1>1. file.tools \cup file.floor \subseteq Controls
  BY TaggerAssumption DEF TaggerInv, FileTyped
<1> QED
  BY <1>1 DEF Judgeable

LEMMA GateInv == TaggerInv /\ Gate => TaggerInv'
<1> SUFFICES ASSUME TaggerInv, Gate PROVE TaggerInv'
  OBVIOUS
<1>1. /\ run'.judged = (run'.at = "judge")
      /\ run'.kept = run.kept /\ run'.escalated = run.escalated /\ run'.det = Tagged
      /\ run'.at \in {"floor", "similar", "judge"} /\ run' \in RunType
  <2>1. run \in RunType /\ ~run.judged /\ Tagged \in SUBSET Ccis
    BY DEF Gate, TaggerInv, FileTyped, UnaskedFits, Tagged
  <2>2. \/ Past("floor") \/ Past("similar")
        \/ run' = [run EXCEPT !.at = "judge", !.judged = TRUE, !.det = Tagged]
    BY DEF Gate
  <2> HIDE DEF Tagged
  <2> QED
    BY <2>1, <2>2 DEF Past, RunType, Stages
<1>2. /\ run.at = "gate" /\ UNCHANGED <<file, tag, declined, tally, before, flagged>>
      /\ DOMAIN verdict = {} /\ tally = NoTally /\ ~run.judged /\ ~run.escalated
  BY DEF Gate, TaggerInv, UnaskedFits
<1>3. \/ run'.at # "judge" /\ verdict' = verdict
      \/ run'.at = "judge" /\ \E s \in Judgeable : Ask(s)
  BY DEF Gate, Past, TaggerInv, FileTyped, RunType
<1>4. VerdictsFit' /\ (run'.at # "judge" => ~SomeAnswer')
  <2>1. CASE run'.at # "judge" /\ verdict' = verdict
    BY <2>1, <1>2 DEF VerdictsFit, SomeAnswer
  <2>2. CASE run'.at = "judge" /\ \E s \in Judgeable : Ask(s)
    BY <2>2, AskedAreControls DEF VerdictsFit, Ask
  <2> QED
    BY <1>3, <2>1, <2>2
<1>5. FileTyped' /\ UnaskedFits'
  BY <1>1, <1>2 DEF TaggerInv, FileTyped, UnaskedFits
<1>6. TallyFits'
  <2>1. Cardinality(Controls) \in Nat
    BY FS_CardinalityType, TaggerAssumption
  <2>2. tally'.tried = 0 /\ tally'.failed = 0
    BY <1>2 DEF NoTally
  <2>3. ~run'.escalated /\ run'.at # "after" /\ (run'.judged <=> run'.at = "judge")
    BY <1>1, <1>2
  <2> QED
    BY <2>1, <2>2, <2>3 DEF TallyFits
<1>7. GuessesFit' /\ KeptFits' /\ TagChangesAreFlagged'
  BY <1>1, <1>2 DEF TaggerInv, GuessesFit, RefusalIsNotOverruled, KeptFits,
     TagChangesAreFlagged, NoTally, Tagged, Automatic, NoTag
<1>8. AnswersFit'
  BY <1>1, <1>2, <1>4 DEF AnswersFit, NoTally
<1> QED
  BY <1>4, <1>5, <1>6, <1>7, <1>8 DEF TaggerInv

\* One candidate's score arrives, or its verifier's word.
LEMMA VerdictArrives ==
  ASSUME TaggerInv, run.at = "judge", NEW c \in DOMAIN verdict,
         NEW v \in Opinions \cup {"asked", "verify"}, verdict' = [verdict EXCEPT ![c] = v],
         UNCHANGED <<file, tag, run, declined, tally, before, flagged>>
  PROVE  TaggerInv'
<1>1. VerdictsFit'
  BY DEF TaggerInv, VerdictsFit
<1>2. FileTyped' /\ UnaskedFits' /\ TallyFits'
  BY DEF TaggerInv, FileTyped, UnaskedFits, TallyFits
<1>3. GuessesFit' /\ AnswersFit' /\ KeptFits' /\ TagChangesAreFlagged'
  BY DEF TaggerInv, GuessesFit, RefusalIsNotOverruled, AnswersFit, KeptFits,
     TagChangesAreFlagged, Tagged
<1> QED
  BY <1>1, <1>2, <1>3 DEF TaggerInv

LEMMA JudgeReturnsInv ==
  ASSUME TaggerInv, NEW c \in Controls, JudgeReturns(c)
  PROVE  TaggerInv'
<1>1. PICK v \in Scores \cup Failures :
        verdict' = [verdict EXCEPT ![c] = IF v = "band" /\ run.verifier THEN "verify" ELSE v]
  BY DEF JudgeReturns
<1> DEFINE w == IF v = "band" /\ run.verifier THEN "verify" ELSE v
<1>2. w \in Opinions \cup {"asked", "verify"} /\ verdict' = [verdict EXCEPT ![c] = w]
  BY <1>1 DEF Opinions
<1> HIDE DEF w
<1> QED
  BY <1>2, VerdictArrives DEF JudgeReturns

LEMMA VerifiedInv ==
  ASSUME TaggerInv, NEW c \in Controls, Verified(c)
  PROVE  TaggerInv'
<1>1. PICK v \in {"band", "unrelated"} : verdict' = [verdict EXCEPT ![c] = v]
  BY DEF Verified
<1>2. v \in Opinions \cup {"asked", "verify"}
  BY DEF Opinions, Scores
<1> QED
  BY <1>1, <1>2, VerdictArrives DEF Verified

LEMMA TakeVerdictsInv == TaggerInv /\ TakeVerdicts => TaggerInv'
<1> SUFFICES ASSUME TaggerInv, TakeVerdicts PROVE TaggerInv'
  OBVIOUS
<1> DEFINE taken == Having({"band", "sure"})
<1>1. /\ taken \subseteq Controls /\ DOMAIN verdict \subseteq Controls
      /\ declined' \in [far : SUBSET Controls, near : SUBSET Controls]
      /\ tag' = Added(Under(taken), "llm")
      /\ tally'.accepted = tally.accepted \cup taken
      /\ run.at = "judge"
      /\ UNCHANGED <<file, verdict, before, flagged>>
  BY DEF TakeVerdicts, TaggerInv, VerdictsFit, Having
<1>2. /\ run'.at = "after" /\ run'.judged = run.judged /\ run'.kept = run.kept
      /\ run'.escalated = run.escalated /\ run'.det = run.det /\ run' \in RunType
  BY DEF TakeVerdicts, Advance, TaggerInv, FileTyped, RunType, Stages
<1>3. /\ tag' \in [Ccis -> Sources]
      /\ \A c \in Ccis : tag[c] # NoTag => tag'[c] = tag[c]
      /\ \A c \in Ccis : tag'[c] # tag[c] => tag'[c] = "llm"
      /\ \A c \in Ccis \cap Under(taken) : tag'[c] # NoTag
  BY <1>1, AddedTags DEF TaggerInv, FileTyped, Sources, NoTag
<1>4. Tagged \subseteq Tagged'
  BY <1>3 DEF Tagged
<1>5. taken # {} => Tagged' # {}
  BY <1>1, <1>3, ControlsHaveCcis DEF Tagged
<1>6. /\ Cardinality(DOMAIN verdict) \in Nat /\ Cardinality(Having(Failures)) \in Nat
      /\ Cardinality(DOMAIN verdict) <= Cardinality(Controls)
      /\ Cardinality(Having(Failures)) <= Cardinality(DOMAIN verdict)
      /\ Cardinality(Controls) \in Nat
      /\ (Cardinality(Having(Failures)) = Cardinality(DOMAIN verdict) =>
             Having(Failures) = DOMAIN verdict)
  <2>1. Having(Failures) \subseteq DOMAIN verdict
    BY DEF Having
  <2> QED
    BY <2>1, <1>1, TaggerAssumption, FS_Subset, FS_CardinalityType
<1>7. /\ tally'.tried = tally.tried + Cardinality(DOMAIN verdict)
      /\ tally'.failed = tally.failed + Cardinality(Having(Failures))
      /\ tally' \in [tried : Nat, failed : Nat, accepted : SUBSET Controls]
  BY <1>1, <1>6 DEF TakeVerdicts, TaggerInv, FileTyped
<1>8. FileTyped' /\ UnaskedFits'
  BY <1>1, <1>2, <1>3, <1>7 DEF TaggerInv, FileTyped, UnaskedFits
<1>9. VerdictsFit'
  BY <1>1, <1>2 DEF TakeVerdicts, TaggerInv, VerdictsFit, Having, Opinions
<1>10. TallyFits'
  BY <1>2, <1>6, <1>7, <1>1 DEF TaggerInv, TallyFits, FileTyped
<1>11. GuessesFit'
  BY <1>1, <1>2, <1>3 DEF TaggerInv, GuessesFit, RefusalIsNotOverruled, Automatic
<1>12. AnswersFit'
  <2>1. tally'.accepted # {} => Tagged' # {}
    BY <1>1, <1>4, <1>5 DEF TaggerInv, AnswersFit
  <2>2. ASSUME NEW c \in DOMAIN verdict, verdict[c] \notin Failures
        PROVE  c \in taken \cup declined'.far \cup declined'.near
    <3>1. verdict[c] \in Opinions
      BY DEF TakeVerdicts, TaggerInv, VerdictsFit, Having
    <3> QED
      BY <3>1, <2>2 DEF TakeVerdicts, Having, Opinions, Scores
  <2>3. SomeAnswer' => tally'.accepted # {} \/ declined'.far \cup declined'.near # {}
    BY <2>2, <1>1 DEF SomeAnswer
  <2>4. tally'.tried = tally'.failed => declined'.far \cup declined'.near = {}
    <3>1. declined'.far \cup declined'.near \subseteq DOMAIN verdict \ Having(Failures)
      BY DEF TakeVerdicts, Having, Failures
    <3>2. tally'.tried = tally'.failed => Having(Failures) = DOMAIN verdict
      BY <1>6, <1>7 DEF TaggerInv, TallyFits, FileTyped
    <3> QED
      BY <3>1, <3>2
  <2> QED
    BY <2>1, <2>3, <2>4, <1>2 DEF AnswersFit
<1>13. KeptFits' /\ TagChangesAreFlagged'
  BY <1>1, <1>2, <1>4 DEF TaggerInv, KeptFits, TagChangesAreFlagged
<1> QED
  BY <1>8, <1>9, <1>10, <1>11, <1>12, <1>13 DEF TaggerInv

LEMMA EscalateInv == TaggerInv /\ Escalate => TaggerInv'
<1> SUFFICES ASSUME TaggerInv, Escalate PROVE TaggerInv'
  OBVIOUS
<1>1. /\ run'.at = "judge" /\ run'.judged = run.judged /\ run'.kept = run.kept
      /\ run'.escalated /\ run'.det = run.det /\ run' \in RunType
      /\ run.at = "after" /\ ~run.escalated
      /\ UNCHANGED <<file, tag, declined, tally, before, flagged>>
  BY DEF Escalate, Escalates, TaggerInv, FileTyped, RunType, Stages
<1>2. VerdictsFit'
  BY <1>1, AskedAreControls DEF Escalate, VerdictsFit, Ask
<1>3. FileTyped' /\ UnaskedFits' /\ TallyFits'
  BY <1>1 DEF TaggerInv, FileTyped, UnaskedFits, TallyFits
<1>4. GuessesFit' /\ AnswersFit' /\ KeptFits' /\ TagChangesAreFlagged'
  BY <1>1 DEF TaggerInv, GuessesFit, RefusalIsNotOverruled, AnswersFit, KeptFits,
     TagChangesAreFlagged, Tagged
<1> QED
  BY <1>2, <1>3, <1>4 DEF TaggerInv

LEMMA SettleInv == TaggerInv /\ Settle => TaggerInv'
<1> SUFFICES ASSUME TaggerInv, Settle PROVE TaggerInv'
  OBVIOUS
<1>0. /\ declined.far \subseteq Controls /\ declined.near \subseteq Controls
      /\ tag \in [Ccis -> Sources] /\ run.at = "after"
  BY DEF Settle, TaggerInv, FileTyped
<1>1. AfterJudge \in {"similar", "floor"} /\ Advance(AfterJudge)
      /\ (AfterJudge = "similar" => tally.tried = tally.failed)
  BY DEF Settle, AfterJudge
<1> DEFINE stage == AfterJudge
<1>2. CASE Floored
  <2>1. PICK s \in Chosen : tag' = Added(Under(s), "llm")
    BY <1>2 DEF Settle
  <2>2. s \subseteq Controls /\ s # {}
    BY <1>0, <1>2 DEF Chosen, Floored
  <2>3. /\ tag' \in [Ccis -> Sources]
        /\ \A c \in Ccis : tag[c] # NoTag => tag'[c] = tag[c]
        /\ \A c \in Ccis : tag'[c] # tag[c] => tag'[c] = "llm"
        /\ \A c \in Ccis \cap Under(s) : tag'[c] # NoTag
    BY <2>1, <1>0, AddedTags DEF Sources, NoTag
  <2>4. Tagged' # {}
    BY <2>2, <2>3, ControlsHaveCcis DEF Tagged
  <2>5. AfterJudge = "floor"
    BY <1>0, <1>2 DEF AfterJudge, Floored, TaggerInv, AnswersFit
  <2>6. \A c \in Gained : tag'[c] \notin Automatic
    BY <2>3 DEF Gained, Automatic
  <2>7. Advance("floor") /\ UNCHANGED <<file, verdict, declined, tally, before, flagged>>
    BY <2>5, <1>1 DEF Settle
  <2> QED
    BY <2>3, <2>4, <2>6, <2>7, <1>0, LaterInv
<1>3. CASE ~Floored
  <2>1. tag' = tag
    BY <1>3 DEF Settle
  <2>2. SomeAnswer /\ "failed" \notin file.flaws => Tagged' # {}
    BY <1>3, <1>0, <2>1 DEF Floored, TaggerInv, AnswersFit, Tagged
  <2>3. Gained = {}
    BY <2>1 DEF Gained
  <2> QED
    BY <2>1, <2>2, <2>3, <1>1, <1>0, LaterInv DEF Settle
<1> QED
  BY <1>2, <1>3

LEMMA SimilarInv == TaggerInv /\ Similar => TaggerInv'
<1> SUFFICES ASSUME TaggerInv, Similar PROVE TaggerInv'
  OBVIOUS
<1>1. tag' \in [Ccis -> Sources] /\ \A c \in Ccis : tag[c] # NoTag => tag'[c] = tag[c]
  BY DEF Similar, TaggerInv, FileTyped, Sources
<1>2. run.at = "similar" /\ tally.tried = tally.failed
  BY DEF Similar, TaggerInv, GuessesFit
<1> QED
  BY <1>1, <1>2, LaterInv DEF Similar

LEMMA ToolFloorInv == TaggerInv /\ ToolFloor => TaggerInv'
<1> SUFFICES ASSUME TaggerInv, ToolFloor PROVE TaggerInv'
  OBVIOUS
<1>1. FloorSource \in Sources \ {NoTag}
  BY DEF FloorSource, Sources, NoTag
<1>2. /\ tag' \in [Ccis -> Sources]
      /\ \A c \in Ccis : tag[c] # NoTag => tag'[c] = tag[c]
      /\ \A c \in Ccis : tag'[c] # tag[c] => tag'[c] = FloorSource
  BY <1>1, AddedTags DEF ToolFloor, TaggerInv, FileTyped
<1>3. FloorSource \in Automatic => tally.tried = tally.failed
  BY DEF FloorSource, Automatic, TaggerInv, TallyFits, FileTyped
<1> QED
  BY <1>2, <1>3, LaterInv DEF ToolFloor, Gained

LEMMA ResidueInv == TaggerInv /\ Residue => TaggerInv'
<1> SUFFICES ASSUME TaggerInv, Residue PROVE TaggerInv'
  OBVIOUS
<1>1. /\ tag' \in [Ccis -> Sources]
      /\ \A c \in Ccis : tag[c] # NoTag => tag'[c] = tag[c]
      /\ \A c \in Ccis : tag'[c] # tag[c] => tag'[c] = "llm"
  <2>1. CASE Unread
    <3>1. PICK c \in file.named : tag' = Added(CciOf[c], "llm")
      BY <2>1 DEF Residue
    <3> QED
      BY <3>1, AddedTags DEF TaggerInv, FileTyped, Sources, NoTag
  <2>2. CASE ~Unread
    BY <2>2 DEF Residue, TaggerInv, FileTyped
  <2> QED
    BY <2>1, <2>2
<1> QED
  BY <1>1, LaterInv DEF Residue, Gained, Automatic

LEMMA FlagInv == TaggerInv /\ Flag => TaggerInv'
<1> SUFFICES ASSUME TaggerInv, Flag PROVE TaggerInv'
  OBVIOUS
<1>1. /\ run'.at = "done" /\ run'.judged = run.judged /\ run'.kept = run.kept
      /\ run'.escalated = run.escalated /\ run'.det = run.det /\ run' \in RunType
      /\ run.at = "flag" /\ Tagged' = Tagged
      /\ UNCHANGED <<file, tag, verdict, declined, tally, before>>
  BY DEF Flag, Advance, TaggerInv, FileTyped, RunType, Stages, Tagged
<1>2. FileTyped' /\ UnaskedFits' /\ TallyFits' /\ VerdictsFit'
  BY <1>1 DEF Flag, TaggerInv, FileTyped, UnaskedFits, TallyFits, VerdictsFit, Tagged, RunType
<1>3. GuessesFit' /\ AnswersFit' /\ KeptFits'
  BY <1>1 DEF TaggerInv, GuessesFit, RefusalIsNotOverruled, AnswersFit, KeptFits, SomeAnswer
<1>4. TagChangesAreFlagged'
  BY <1>1 DEF Flag, TaggerInv, KeptFits, TagChangesAreFlagged
<1> QED
  BY <1>2, <1>3, <1>4 DEF TaggerInv

\* A new run: nothing asked, and what it keeps was tagged and still is.
LEMMA BeginRunInv ==
  ASSUME TaggerInv, BeginRun, tag' \in [Ccis -> Sources],
         NEW caller \in {"ingest", "retag", "cached"}, NEW client \in BOOLEAN,
         NEW stronger \in BOOLEAN, NEW verifier \in BOOLEAN,
         NEW kept \in SUBSET Tagged, kept \subseteq Tagged',
         run' = NewRun(caller, client, stronger, verifier, kept)
  PROVE  TaggerInv'
<1>1. /\ run'.at = "tiers" /\ ~run'.judged /\ run'.kept = kept /\ ~run'.escalated
      /\ run' \in RunType /\ DOMAIN verdict' = {}
  BY DEF BeginRun, NewRun, RunType, Stages, Tagged
<1>2. FileTyped' /\ UnaskedFits' /\ VerdictsFit'
  BY <1>1 DEF BeginRun, TaggerInv, FileTyped, UnaskedFits, VerdictsFit, NoTally,
     NothingDeclined, Tagged
<1>3. TallyFits'
  BY <1>1, FS_CardinalityType, TaggerAssumption DEF BeginRun, TallyFits, NoTally
<1>4. GuessesFit' /\ AnswersFit' /\ TagChangesAreFlagged'
  BY <1>1 DEF BeginRun, GuessesFit, RefusalIsNotOverruled, AnswersFit, NoTally,
     TagChangesAreFlagged
<1>5. KeptFits'
  BY <1>1 DEF BeginRun, KeptFits
<1> QED
  BY <1>2, <1>3, <1>4, <1>5 DEF TaggerInv

LEMMA IngestFileInv ==
  ASSUME TaggerInv, NEW client \in BOOLEAN, NEW stronger \in BOOLEAN,
         NEW verifier \in BOOLEAN, IngestFile(client, stronger, verifier)
  PROVE  TaggerInv'
  BY BeginRunInv DEF IngestFile, TaggerInv, FileTyped

LEMMA RetagFileInv ==
  ASSUME TaggerInv, NEW caller \in {"retag", "cached"}, NEW client \in BOOLEAN,
         RetagFile(caller, client)
  PROVE  TaggerInv'
<1>1. tag' \in [Ccis -> Sources] /\ Tagged \ Dropped \subseteq Tagged'
  BY DEF RetagFile, TaggerInv, FileTyped, Sources, Tagged
<1>2. Tagged \ Dropped \in SUBSET Tagged
  OBVIOUS
<1> QED
  BY <1>1, <1>2, BeginRunInv DEF RetagFile

LEMMA TaggerNextInv == TaggerInv /\ [TaggerNext]_taggerVars => TaggerInv'
<1> SUFFICES ASSUME TaggerInv, [TaggerNext]_taggerVars PROVE TaggerInv'
  OBVIOUS
<1>1. CASE UNCHANGED taggerVars
  BY <1>1 DEF taggerVars, TaggerInv, FileTyped, UnaskedFits, VerdictsFit, TallyFits,
     GuessesFit, RefusalIsNotOverruled, AnswersFit, SomeAnswer, KeptFits, TagChangesAreFlagged,
     Tagged
<1>2. CASE TaggerNext
  BY <1>2, IngestFileInv, RetagFileInv, TiersInv, GateInv, JudgeReturnsInv, VerifiedInv,
     TakeVerdictsInv, EscalateInv, SettleInv, SimilarInv, ToolFloorInv, ResidueInv, FlagInv
     DEF TaggerNext, TagStep
<1> QED
  BY <1>1, <1>2

\* Tags of the model and of the tools outlive every step.
TagsStay == \A c \in Ccis : tag[c] \in {"llm", "located"} => tag'[c] = tag[c]

LEMMA TagsStayNext == TaggerInv /\ [TaggerNext]_taggerVars => TagsStay \/ UNCHANGED taggerVars
<1> SUFFICES ASSUME TaggerInv, TaggerNext, NEW c \in Ccis, tag[c] \in {"llm", "located"}
             PROVE  tag'[c] = tag[c]
  BY DEF TagsStay
<1> USE DEF Added, NoTag
<1>1. CASE \E caller \in {"retag", "cached"}, client \in BOOLEAN : RetagFile(caller, client)
  BY <1>1 DEF RetagFile, Dropped, Automatic
<1>2. CASE Tiers \/ TakeVerdicts \/ ToolFloor
  BY <1>2 DEF Tiers, TakeVerdicts, ToolFloor
<1>3. CASE Settle \/ Residue
  BY <1>3 DEF Settle, Residue
<1>4. CASE Similar
  BY <1>4 DEF Similar
<1>5. CASE tag' = tag
  BY <1>5
<1> QED
  BY <1>1, <1>2, <1>3, <1>4, <1>5 DEF TaggerNext, TagStep, Gate, Escalate, Flag,
     JudgeReturns, Verified, IngestFile

\* Whatever calls fail and whichever tier tags: nothing is guessed once a call of
\* the judge came back, a judged file ends with a tag, every change is flagged,
\* and what a model confirmed stays (tagger.py, retag of routes/evidence.py).
THEOREM TagsAreSafe == TaggerSpec => TaggerSafe
<1>1. TaggerInv => TaggerTypeOK /\ RefusalIsNotOverruled /\ JudgedFileIsTagged
                     /\ TagChangesAreFlagged
  BY TaggerInvTypes DEF TaggerInv, GuessesFit, AnswersFit, JudgedFileIsTagged, SomeAnswer
<1>2. TaggerInv /\ [TaggerNext]_taggerVars => [TagsStay]_taggerVars
  BY TagsStayNext
<1> QED
  BY <1>1, <1>2, InitTaggerInv, TaggerNextInv, PTL
     DEF TaggerSpec, TaggerSafe, ConfirmedTagsStay, TagsStay

=============================================================================
