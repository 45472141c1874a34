---------------------------- MODULE ReviewProofs ----------------------------
(***************************************************************************)
(* Theorems about what a review leaves behind: the advice on a POAM's risk, *)
(* for every number of requests and changes and every scale of levels, and  *)
(* the working copies of a workbook, for every set of applies and of names, *)
(* and the pages, for every query, hook and number of clicks.               *)
(***************************************************************************)
EXTENDS Advisor, WorkingCopy, UiCache, FiniteSetTheorems, TLAPS

-----------------------------------------------------------------------------
(* The residual-risk advisor *)

Steps == {"unsent", "link", "lookup", "ask", "check", "insert", "bump", "replay",
          "answered", "failed"}

Request == [at : Steps, force : BOOLEAN, raw : Levels \cup {Ungraded}, told : 0..2,
            born : Nat, tries : 0..1, level : Maybe]

StateTyped ==
    /\ AdvisorTypeOK
    /\ asked \in [Asks -> Request]
    /\ touches \in Nat
    /\ DOMAIN excuses = Asks

\* A request under way was told of the deletion of the POAM it read.
KnowsOfDeletion(a) ==
    a \in UnderWay => Late(a) \/ (poam # Nobody /\ asked[a].born = poam.born)

\* What a lookup found goes only with its POAM; what a check did not find is stored
\* by a twin only; an answer under way was validated.
LookupStands(a) ==
    /\ asked[a].at \in {"bump", "replay"} => Kept(a) # {} \/ Late(a)
    /\ asked[a].at = "insert" => Kept(a) = {} \/ "twin" \in excuses[a]
    /\ asked[a].at \in {"check", "insert"} =>
          asked[a].raw = Ungraded \/ asked[a].level <= asked[a].raw

\* The card was emptied with its POAM, unless the history says otherwise.
CardIsOfPoam ==
    card # Nobody => swept \/ card.late \/ (poam # Nobody /\ card.born = poam.born)

\* What makes AdvisorSafe inductive.
AdvisorInv ==
    /\ StateTyped /\ NeverAboveRaw /\ FailuresAreKnown
    /\ \A a \in Asks : KnowsOfDeletion(a) /\ LookupStands(a)
    /\ \A c \in advised : poam # Nobody /\ (c.born = poam.born \/ c.spanned)
    /\ CardIsOfPoam

LEMMA AdvisorInvIsSafe == AdvisorInv => AdvisorSafe
  BY DEF AdvisorInv, AdvisorSafe, StateTyped, AdviceStaysHome, CardIsOfPoam

LEMMA InitAdvisorInv == AdvisorInit => AdvisorInv
<1> SUFFICES ASSUME AdvisorInit PROVE AdvisorInv
  OBVIOUS
<1>1. Resting("unsent") \in Request
  BY DEF Resting, Request, Steps, Maybe, Ungraded, Abstained
<1>2. StateTyped
  <2>1. poam \in [born : Nat, raw : Levels \cup {Ungraded}]
    BY DEF AdvisorInit
  <2>2. told \in {1, 2} /\ swept \in BOOLEAN /\ advised = {} /\ touches \in Nat
    BY DEF AdvisorInit
  <2>3. /\ asked \in [Asks -> Request] /\ DOMAIN excuses = Asks
        /\ \A a \in Asks : excuses[a] = {}
    BY <1>1 DEF AdvisorInit
  <2> QED
    BY <2>1, <2>2, <2>3 DEF StateTyped, AdvisorTypeOK
<1>3. \A a \in Asks : asked[a].at = "unsent"
  BY DEF AdvisorInit, Resting
<1> QED
  BY <1>2, <1>3 DEF AdvisorInit, AdvisorInv, NeverAboveRaw, FailuresAreKnown, KnowsOfDeletion,
     LookupStands, CardIsOfPoam, UnderWay

-----------------------------------------------------------------------------
(* Steps of a request *)

\* A request that moves on, with the POAM and the store as they were, disturbs only
\* what is said of itself.
LEMMA StepOfOne ==
  ASSUME AdvisorInv, NEW a \in Asks, a \in UnderWay, UNCHANGED <<poam, told, advised, touches, swept>>,
         NEW q \in Request, asked' = [asked EXCEPT ![a] = q],
         DOMAIN excuses' = Asks, excuses'[a] \subseteq {"raised", "deleted", "twin"},
         \A b \in Asks \ {a} : excuses'[b] = excuses[b],
         q.at = "failed" => excuses'[a] # {},
         a \in UnderWay' => q.born = asked[a].born /\ excuses'[a] = excuses[a],
         LookupStands(a)',
         NeverAboveRaw', CardIsOfPoam'
  PROVE  AdvisorInv'
<1>1. \A b \in Asks : asked'[b] = IF b = a THEN q ELSE asked[b]
  BY DEF AdvisorInv, StateTyped
<1>2. StateTyped'
  BY <1>1 DEF AdvisorInv, StateTyped, AdvisorTypeOK
<1>3. FailuresAreKnown'
  BY <1>1 DEF AdvisorInv, FailuresAreKnown
<1>4. ASSUME NEW b \in Asks PROVE KnowsOfDeletion(b)' /\ LookupStands(b)'
  <2>1. CASE b = a
    BY <1>1, <2>1 DEF AdvisorInv, KnowsOfDeletion, Late
  <2>2. CASE b # a
    BY <1>1, <2>2 DEF AdvisorInv, KnowsOfDeletion, LookupStands, Late, Kept, UnderWay, DigestOf
  <2> QED
    BY <2>1, <2>2
<1> QED
  BY <1>2, <1>3, <1>4 DEF AdvisorInv

LEMMA OpenInv ==
  ASSUME AdvisorInv, NEW a \in Asks, Open(a)
  PROVE  AdvisorInv'
<1>1. PICK q \in Request : /\ q.at = "link" /\ q.born = poam.born
                          /\ asked' = [asked EXCEPT ![a] = q]
  <2>1. PICK force \in BOOLEAN :
           asked' = [asked EXCEPT ![a] =
              [at |-> "link", force |-> force, raw |-> poam.raw, told |-> 0, born |-> poam.born,
               tries |-> 0, level |-> Abstained]]
    BY DEF Open
  <2>2. poam \in [born : Nat, raw : Levels \cup {Ungraded}]
    BY DEF Open, AdvisorInv, StateTyped, AdvisorTypeOK
  <2> DEFINE q == [at |-> "link", force |-> force, raw |-> poam.raw, told |-> 0,
                   born |-> poam.born, tries |-> 0, level |-> Abstained]
  <2>3. q \in Request /\ q.at = "link" /\ q.born = poam.born
    BY <2>2 DEF Request, Steps, Maybe, Ungraded, Abstained
  <2> QED
    BY <2>1, <2>3
<1>2. \A b \in Asks : asked'[b] = IF b = a THEN q ELSE asked[b]
  BY <1>1 DEF AdvisorInv, StateTyped
<1>3. UNCHANGED <<poam, told, advised, card, touches, excuses, swept>> /\ poam # Nobody
  BY DEF Open
<1>4. StateTyped'
  BY <1>1, <1>3 DEF AdvisorInv, StateTyped, AdvisorTypeOK
<1>5. NeverAboveRaw' /\ CardIsOfPoam' /\ FailuresAreKnown'
  BY <1>1, <1>2, <1>3 DEF AdvisorInv, NeverAboveRaw, CardIsOfPoam, FailuresAreKnown
<1>6. ASSUME NEW b \in Asks PROVE KnowsOfDeletion(b)' /\ LookupStands(b)'
  BY <1>1, <1>2, <1>3 DEF AdvisorInv, KnowsOfDeletion, LookupStands, Late, Kept, UnderWay, DigestOf
<1> QED
  BY <1>3, <1>4, <1>5, <1>6 DEF AdvisorInv

\* The three ways a request goes on: as it is at another step, answered, failed.
LEMMA ProceedInv ==
  ASSUME AdvisorInv, NEW a \in Asks, a \in UnderWay,
         UNCHANGED <<poam, told, advised, touches, swept, card, excuses>>,
         NEW q \in Request, asked' = [asked EXCEPT ![a] = q], q.born = asked[a].born,
         q.at # "failed", LookupStands(a)'
  PROVE  AdvisorInv'
  BY StepOfOne DEF AdvisorInv, StateTyped, AdvisorTypeOK, NeverAboveRaw, CardIsOfPoam

LEMMA ReplyInv ==
  ASSUME AdvisorInv, NEW a \in Asks, a \in UnderWay,
         UNCHANGED <<poam, told, advised, touches, swept>>, NEW shown, Reply(a, shown),
         shown.raw = Ungraded \/ shown.level <= shown.raw,
         shown.late \/ (poam # Nobody /\ shown.born = poam.born)
  PROVE  AdvisorInv'
<1> DEFINE q == Resting("answered")
<1>1. q \in Request /\ q.at = "answered"
  BY DEF Resting, Request, Steps, Maybe, Ungraded, Abstained
<1>2. asked' = [asked EXCEPT ![a] = q]
  BY DEF Reply
<1>3. asked'[a].at = "answered"
  BY <1>1, <1>2 DEF AdvisorInv, StateTyped
<1>4. a \notin UnderWay' /\ LookupStands(a)'
  BY <1>3 DEF UnderWay, LookupStands
<1>5. NeverAboveRaw' /\ CardIsOfPoam'
  BY DEF AdvisorInv, Reply, NeverAboveRaw, CardIsOfPoam
<1>6. /\ DOMAIN excuses' = Asks /\ excuses'[a] = {}
      /\ \A b \in Asks \ {a} : excuses'[b] = excuses[b]
  BY DEF Reply, AdvisorInv, StateTyped
<1> HIDE DEF q
<1> QED
  BY <1>1, <1>2, <1>4, <1>5, <1>6, StepOfOne

LEMMA FailInv ==
  ASSUME AdvisorInv, NEW a \in Asks, a \in UnderWay,
         UNCHANGED <<poam, told, advised, touches, swept>>, Fail(a),
         \/ UNCHANGED excuses /\ excuses[a] # {}
         \/ excuses' = Excuse({a}, "raised")
  PROVE  AdvisorInv'
<1> DEFINE q == Resting("failed")
<1>1. q \in Request /\ q.at = "failed"
  BY DEF Resting, Request, Steps, Maybe, Ungraded, Abstained
<1>2. asked' = [asked EXCEPT ![a] = q]
  BY DEF Fail
<1>3. asked'[a].at = "failed"
  BY <1>1, <1>2 DEF AdvisorInv, StateTyped
<1>4. a \notin UnderWay' /\ LookupStands(a)'
  BY <1>3 DEF UnderWay, LookupStands
<1>5. NeverAboveRaw' /\ CardIsOfPoam'
  BY DEF AdvisorInv, Fail, NeverAboveRaw, CardIsOfPoam
<1>6. /\ DOMAIN excuses' = Asks /\ excuses'[a] # {}
      /\ excuses'[a] \subseteq {"raised", "deleted", "twin"}
      /\ \A b \in Asks \ {a} : excuses'[b] = excuses[b]
  BY DEF Excuse, AdvisorInv, StateTyped, AdvisorTypeOK
<1> HIDE DEF q
<1> QED
  BY <1>1, <1>2, <1>4, <1>5, <1>6, StepOfOne

-----------------------------------------------------------------------------
(* The request, step by step *)

\* Whatever EXCEPT writes into a request, its key and its birth stay unless named.
LEMMA AskedFacts ==
  ASSUME AdvisorInv, NEW a \in Asks
  PROVE  /\ asked[a] \in Request
         /\ \A step \in Steps : Move(a, step) =>
               \E q \in Request : /\ asked' = [asked EXCEPT ![a] = q]
                                 /\ q = [asked[a] EXCEPT !.at = step]
                                 /\ asked'[a] = q
  BY DEF AdvisorInv, StateTyped, Request, Move

LEMMA ReadLinkedInv ==
  ASSUME AdvisorInv, NEW a \in Asks, a \in UnderWay, ReadLinked(a)
  PROVE  AdvisorInv'
<1> DEFINE seen == IF poam = Nobody THEN 0 ELSE told
           step == IF asked[a].force THEN "ask" ELSE "lookup"
           q == [asked[a] EXCEPT !.told = seen, !.at = step]
<1>1. asked[a] \in Request /\ told \in {1, 2} /\ asked \in [Asks -> Request]
  BY DEF AdvisorInv, StateTyped, AdvisorTypeOK
<1>2. q \in Request /\ q.at \in {"ask", "lookup"} /\ q.born = asked[a].born
  <2>1. seen \in 0..2 /\ step \in {"ask", "lookup"}
    BY <1>1
  <2> HIDE DEF seen, step
  <2> QED
    BY <1>1, <2>1 DEF Request, Steps
<1>3. asked' = [asked EXCEPT ![a] = q]
  BY DEF ReadLinked
<1>4. asked'[a].at \in {"ask", "lookup"}
  BY <1>1, <1>2, <1>3
<1>5. LookupStands(a)'
  BY <1>4 DEF LookupStands
<1> HIDE DEF q
<1> QED
  BY <1>2, <1>3, <1>5, ProceedInv DEF ReadLinked

LEMMA LookupInv ==
  ASSUME AdvisorInv, NEW a \in Asks, a \in UnderWay, Lookup(a)
  PROVE  AdvisorInv'
<1>1. PICK q \in Request : /\ asked' = [asked EXCEPT ![a] = q]
                          /\ q = [asked[a] EXCEPT !.at = IF Kept(a) = {} THEN "ask" ELSE "bump"]
                          /\ asked'[a] = q
  BY AskedFacts DEF Lookup, Steps
<1>2. q.born = asked[a].born /\ q.at \in {"ask", "bump"} /\ (q.at = "bump" => Kept(a) # {})
  BY <1>1, AskedFacts DEF Request
<1>3. Kept(a)' = Kept(a)
  BY <1>1, AskedFacts DEF Lookup, Kept, DigestOf, Request
<1>4. LookupStands(a)'
  BY <1>1, <1>2, <1>3 DEF LookupStands
<1> QED
  BY <1>1, <1>2, <1>4, ProceedInv DEF Lookup

\* A row that was found went with its POAM if it is gone.
LEMMA BumpHitInv ==
  ASSUME AdvisorInv, NEW a \in Asks, a \in UnderWay, BumpHit(a)
  PROVE  AdvisorInv'
<1>1. CASE Kept(a) = {}
  <2>1. excuses[a] # {}
    BY <1>1 DEF AdvisorInv, LookupStands, BumpHit, Late
  <2> QED
    BY <1>1, <2>1, FailInv DEF BumpHit
<1>2. CASE Kept(a) # {}
  <2>1. PICK q \in Request : /\ asked' = [asked EXCEPT ![a] = q]
                            /\ q = [asked[a] EXCEPT !.at = "replay"]
                            /\ asked'[a] = q
    BY <1>2, AskedFacts DEF BumpHit, Proceed, Steps
  <2>2. q.born = asked[a].born /\ q.at = "replay"
    BY <2>1, AskedFacts DEF Request
  <2>3. Kept(a)' = Kept(a)
    BY <2>1, AskedFacts DEF BumpHit, Kept, DigestOf, Request
  <2>4. LookupStands(a)'
    BY <1>2, <2>1, <2>2, <2>3 DEF LookupStands
  <2> QED
    BY <1>2, <2>1, <2>2, <2>4, ProceedInv DEF BumpHit, Proceed
<1> QED
  BY <1>1, <1>2

LEMMA ReplayInv ==
  ASSUME AdvisorInv, NEW a \in Asks, a \in UnderWay, Replay(a)
  PROVE  AdvisorInv'
<1>1. ASSUME NEW c \in Kept(a),
             Reply(a, [level |-> c.level, raw |-> asked[a].raw, born |-> c.born,
                       late |-> c.spanned \/ Late(a)])
      PROVE  AdvisorInv'
  <2> DEFINE shown == [level |-> c.level, raw |-> asked[a].raw, born |-> c.born,
                       late |-> c.spanned \/ Late(a)]
  <2>1. c \in advised /\ c.key.raw = asked[a].raw
    BY DEF Kept, DigestOf
  <2>2. shown.raw = Ungraded \/ shown.level <= shown.raw
    BY <2>1 DEF AdvisorInv, NeverAboveRaw
  <2>3. shown.late \/ (poam # Nobody /\ shown.born = poam.born)
    BY <2>1 DEF AdvisorInv
  <2>4. Reply(a, shown)
    BY <1>1
  <2> HIDE DEF shown
  <2> QED
    BY <2>2, <2>3, <2>4, ReplyInv DEF Replay
<1>2. CASE Kept(a) = {} /\ Fail(a) /\ UNCHANGED excuses
  <2>1. excuses[a] # {}
    BY <1>2 DEF AdvisorInv, LookupStands, Replay, Late
  <2> QED
    BY <1>2, <2>1, FailInv DEF Replay
<1> QED
  BY <1>1, <1>2 DEF Replay

\* An answer is valid for the severity its request read, or it is not kept.
LEMMA AskAdvisorInv ==
  ASSUME AdvisorInv, NEW a \in Asks, a \in UnderWay, AskAdvisor(a)
  PROVE  AdvisorInv'
<1>1. asked[a] \in Request /\ asked \in [Asks -> Request]
  BY DEF AdvisorInv, StateTyped
<1>2. UNCHANGED <<poam, told, advised, touches, swept>>
  BY DEF AskAdvisor
<1>3. ASSUME NEW level \in Maybe, Valid(a, level), UNCHANGED <<card, excuses>>,
             asked' = [asked EXCEPT ![a].at = "check", ![a].level = level]
      PROVE  AdvisorInv'
  <2> DEFINE q == [asked[a] EXCEPT !.at = "check", !.level = level]
  <2>1. q \in Request /\ q.at = "check" /\ q.born = asked[a].born /\ q.raw = asked[a].raw
        /\ q.level = level
    BY <1>1 DEF Request, Steps
  <2>2. asked' = [asked EXCEPT ![a] = q]
    BY <1>3
  <2> HIDE DEF q
  <2>3. asked'[a] = q
    BY <1>1, <2>2
  <2>4. LookupStands(a)'
    BY <1>1, <1>3, <2>1, <2>3, AdvisorAssumption
       DEF LookupStands, Valid, Request, Maybe, Ungraded, Abstained
  <2> QED
    BY <1>2, <1>3, <2>1, <2>2, <2>4, ProceedInv
<1>4. CASE asked[a].at = "ask" /\ asked' = [asked EXCEPT ![a].tries = 1] /\ UNCHANGED <<card, excuses>>
  <2> DEFINE q == [asked[a] EXCEPT !.tries = 1]
  <2>1. q \in Request /\ q.at = "ask" /\ q.born = asked[a].born
    BY <1>1, <1>4 DEF Request, Steps
  <2>2. asked' = [asked EXCEPT ![a] = q]
    BY <1>4
  <2> HIDE DEF q
  <2>3. LookupStands(a)'
    BY <1>1, <2>1, <2>2 DEF LookupStands
  <2> QED
    BY <1>2, <1>4, <2>1, <2>2, <2>3, ProceedInv
<1>5. CASE Reply(a, [Shown(a) EXCEPT !.level = Abstained])
  <2> DEFINE shown == [Shown(a) EXCEPT !.level = Abstained]
  <2>1. /\ shown.level = 0 /\ shown.raw = asked[a].raw /\ shown.born = asked[a].born
        /\ shown.late = Late(a)
    BY DEF Shown, Abstained
  <2>2. 0 <= shown.raw
    BY <1>1, <2>1, AdvisorAssumption DEF Request, Ungraded
  <2>3. shown.late \/ (poam # Nobody /\ shown.born = poam.born)
    BY <2>1 DEF AdvisorInv, KnowsOfDeletion
  <2>4. Reply(a, shown)
    BY <1>5
  <2> HIDE DEF shown
  <2> QED
    BY <1>2, <2>1, <2>2, <2>3, <2>4, ReplyInv
<1>6. CASE Fail(a) /\ excuses' = Excuse({a}, "raised")
  BY <1>2, <1>6, FailInv
<1> QED
  BY <1>3, <1>4, <1>5, <1>6 DEF AskAdvisor

\* What a request shows of its own answer.
LEMMA ShownFacts ==
  ASSUME AdvisorInv, NEW a \in Asks, a \in UnderWay, asked[a].at \in {"check", "insert"}
  PROVE  /\ Shown(a).raw = Ungraded \/ Shown(a).level <= Shown(a).raw
         /\ Shown(a).late \/ (poam # Nobody /\ Shown(a).born = poam.born)
  BY DEF AdvisorInv, LookupStands, KnowsOfDeletion, Shown

LEMMA CheckStoredInv ==
  ASSUME AdvisorInv, NEW a \in Asks, a \in UnderWay, CheckStored(a)
  PROVE  AdvisorInv'
<1>1. CASE Kept(a) = {}
  <2>1. PICK q \in Request : /\ asked' = [asked EXCEPT ![a] = q]
                            /\ q = [asked[a] EXCEPT !.at = "insert"]
                            /\ asked'[a] = q
    BY <1>1, AskedFacts DEF CheckStored, Proceed, Steps
  <2>2. /\ q.born = asked[a].born /\ q.at = "insert"
        /\ q.raw = asked[a].raw /\ q.level = asked[a].level
    BY <2>1, AskedFacts DEF Request
  <2>3. Kept(a)' = Kept(a)
    BY <2>1, AskedFacts DEF CheckStored, Kept, DigestOf, Request
  <2>4. LookupStands(a)'
    BY <1>1, <2>1, <2>2, <2>3 DEF LookupStands, AdvisorInv, CheckStored
  <2> QED
    BY <1>1, <2>1, <2>2, <2>4, ProceedInv DEF CheckStored, Proceed
<1>2. CASE Kept(a) # {}
  BY <1>2, ShownFacts, ReplyInv DEF CheckStored
<1> QED
  BY <1>1, <1>2

\* The insert fails for a twin or a deletion; a stored row is of the POAM that has
\* the id, and every request of the same digest under way is told of it.
LEMMA InsertStoredInv ==
  ASSUME AdvisorInv, NEW a \in Asks, a \in UnderWay, InsertStored(a)
  PROVE  AdvisorInv'
<1>1. CASE Kept(a) # {} \/ poam = Nobody
  <2>1. excuses[a] # {}
    BY <1>1 DEF AdvisorInv, LookupStands, KnowsOfDeletion, InsertStored, Late
  <2> QED
    BY <1>1, <2>1, FailInv DEF InsertStored
<1>2. CASE Kept(a) = {} /\ poam # Nobody
  <2> DEFINE new == [key |-> DigestOf(asked[a]), level |-> asked[a].level,
                     born |-> asked[a].born, spanned |-> Late(a)]
             q == Resting("answered")
  <2>1. /\ asked' = [asked EXCEPT ![a] = q] /\ card' = Shown(a)
        /\ advised' = advised \cup {new}
        /\ excuses' = [Excuse(Twins(a), "twin") EXCEPT ![a] = {}]
        /\ UNCHANGED <<poam, told, touches, swept>>
        /\ asked[a].at = "insert"
    BY <1>2 DEF InsertStored
  <2>2. q \in Request /\ q.at = "answered"
    BY DEF Resting, Request, Steps, Maybe, Ungraded, Abstained
  <2>3. asked \in [Asks -> Request] /\ DOMAIN excuses = Asks
    BY DEF AdvisorInv, StateTyped
  <2>4. /\ new.key = DigestOf(asked[a]) /\ new.level = asked[a].level
        /\ new.born = asked[a].born /\ new.spanned = Late(a)
    OBVIOUS
  <2> HIDE DEF new, q
  <2>5. \A b \in Asks : asked'[b] = IF b = a THEN q ELSE asked[b]
    BY <2>1, <2>3
  <2>6. \A b \in Asks : excuses'[b] = IF b = a THEN {} ELSE
                       IF b \in Twins(a) THEN excuses[b] \cup {"twin"} ELSE excuses[b]
    BY <2>1 DEF Excuse
  <2>7. DOMAIN excuses' = Asks
    BY <2>1 DEF Excuse
  <2>8. AdvisorTypeOK'
    <3>1. new.level \in Maybe
      BY <2>3, <2>4 DEF Request
    <3>2. new.spanned \in BOOLEAN
      BY <2>4 DEF Late
    <3>3. \A c \in advised' : c.level \in Maybe /\ c.spanned \in BOOLEAN
      BY <2>1, <3>1, <3>2 DEF AdvisorInv, StateTyped, AdvisorTypeOK
    <3>4. \A b \in Asks : excuses'[b] \subseteq {"raised", "deleted", "twin"}
      BY <2>6 DEF AdvisorInv, StateTyped, AdvisorTypeOK
    <3> QED
      BY <2>1, <3>3, <3>4 DEF AdvisorInv, StateTyped, AdvisorTypeOK
  <2>9. StateTyped'
    BY <2>1, <2>2, <2>3, <2>7, <2>8 DEF AdvisorInv, StateTyped
  <2>10. FailuresAreKnown'
    BY <2>2, <2>5, <2>6 DEF AdvisorInv, FailuresAreKnown
  <2>11. NeverAboveRaw' /\ CardIsOfPoam'
    BY <2>1, <2>4, ShownFacts DEF AdvisorInv, NeverAboveRaw, CardIsOfPoam, Shown, DigestOf
  <2>12. \A c \in advised' : poam' # Nobody /\ (c.born = poam'.born \/ c.spanned)
    BY <1>2, <2>1, <2>4 DEF AdvisorInv, KnowsOfDeletion
  <2>13. ASSUME NEW b \in Asks PROVE KnowsOfDeletion(b)'
    <3>1. CASE b = a
      BY <2>2, <2>5, <3>1 DEF KnowsOfDeletion, UnderWay
    <3>2. CASE b # a
      <4>1. asked'[b] = asked[b] /\ (Late(b) => Late(b)')
        BY <2>5, <2>6, <3>2 DEF Late
      <4> QED
        BY <2>1, <4>1 DEF AdvisorInv, KnowsOfDeletion, UnderWay
    <3> QED
      BY <3>1, <3>2
  <2>14. ASSUME NEW b \in Asks PROVE LookupStands(b)'
    <3>1. CASE b = a
      BY <2>2, <2>5, <3>1 DEF LookupStands
    <3>2. CASE b # a
      <4>1. asked'[b] = asked[b] /\ (Late(b) => Late(b)')
            /\ ("twin" \in excuses[b] => "twin" \in excuses'[b])
        BY <2>5, <2>6, <3>2 DEF Late
      <4>2. Kept(b) \subseteq Kept(b)'
        BY <2>1, <4>1 DEF Kept, DigestOf
      <4>3. asked[b].at = "insert" /\ Kept(b) = {} => Kept(b)' = {} \/ "twin" \in excuses'[b]
        <5> SUFFICES ASSUME asked[b].at = "insert", Kept(b) = {}, NEW c \in Kept(b)'
                     PROVE  "twin" \in excuses'[b]
          OBVIOUS
        <5>1. DigestOf(asked[b])' = DigestOf(asked[b])
          BY <4>1 DEF DigestOf
        <5>2. c = new
          BY <2>1, <5>1 DEF Kept
        <5>3. DigestOf(asked[b]) = DigestOf(asked[a])
          BY <2>4, <5>1, <5>2 DEF Kept
        <5>4. b \in Twins(a)
          BY <3>2, <5>3 DEF Twins, UnderWay
        <5> QED
          BY <2>6, <3>2, <5>4
      <4> QED
        BY <4>1, <4>2, <4>3 DEF AdvisorInv, LookupStands
    <3> QED
      BY <3>1, <3>2
  <2> QED
    BY <2>9, <2>10, <2>11, <2>12, <2>13, <2>14 DEF AdvisorInv
<1> QED
  BY <1>1, <1>2

-----------------------------------------------------------------------------
(* The rest of the program *)

\* What is said of the requests does not depend on the severity or the narratives.
LEMMA RestInv == AdvisorInv /\ (Regrade \/ Renarrate \/ Reborn) => AdvisorInv'
<1> SUFFICES ASSUME AdvisorInv, Regrade \/ Renarrate \/ Reborn PROVE AdvisorInv'
  OBVIOUS
<1>1. UNCHANGED <<advised, asked, card, excuses, swept>> /\ touches' \in Nat
  BY DEF Regrade, Renarrate, Reborn, Touch, AdvisorInv, StateTyped
<1>2. \/ poam' = poam
      \/ poam # Nobody /\ poam' # Nobody /\ poam'.born = poam.born
      \/ poam = Nobody /\ poam' # Nobody
  BY AdvisorAssumption DEF Regrade, Renarrate, Reborn, AdvisorInv, StateTyped, AdvisorTypeOK, Ungraded
<1>3. AdvisorTypeOK'
  BY <1>1, AdvisorAssumption
     DEF Regrade, Renarrate, Reborn, Touch, AdvisorInv, StateTyped, AdvisorTypeOK
<1>4. StateTyped' /\ NeverAboveRaw' /\ FailuresAreKnown' /\ CardIsOfPoam'
  BY <1>1, <1>2, <1>3 DEF AdvisorInv, StateTyped, NeverAboveRaw, FailuresAreKnown, CardIsOfPoam
<1>5. ASSUME NEW a \in Asks PROVE KnowsOfDeletion(a)' /\ LookupStands(a)'
  BY <1>1, <1>2 DEF AdvisorInv, KnowsOfDeletion, LookupStands, UnderWay, Late, Kept, DigestOf
<1>6. \A c \in advised' : poam' # Nobody /\ (c.born = poam'.born \/ c.spanned)
  BY <1>1, <1>2 DEF AdvisorInv
<1> QED
  BY <1>4, <1>5, <1>6 DEF AdvisorInv

LEMMA DropPoamInv == AdvisorInv /\ DropPoam => AdvisorInv'
<1> SUFFICES ASSUME AdvisorInv, DropPoam PROVE AdvisorInv'
  OBVIOUS
<1>1. \A b \in Asks : excuses'[b] = IF b \in UnderWay THEN excuses[b] \cup {"deleted"}
                                                     ELSE excuses[b]
  BY DEF DropPoam, Excuse
<1>2. /\ DOMAIN excuses' = Asks /\ advised' = {} /\ poam' = Nobody /\ UNCHANGED <<told, asked>>
      /\ touches' \in Nat /\ swept' \in BOOLEAN
      /\ card' = Nobody \/ (swept' = TRUE /\ card' = card)
  <2>1. DOMAIN excuses' = Asks
    BY DEF DropPoam, Excuse
  <2>2. touches' \in Nat
    BY DEF DropPoam, Touch, AdvisorInv, StateTyped
  <2>3. swept' \in BOOLEAN /\ (card' = Nobody \/ (swept' = TRUE /\ card' = card))
    BY DEF DropPoam, AdvisorInv, StateTyped, AdvisorTypeOK
  <2> QED
    BY <2>1, <2>2, <2>3 DEF DropPoam, Evict
<1>3. StateTyped'
  BY <1>1, <1>2 DEF AdvisorInv, StateTyped, AdvisorTypeOK
<1>4. NeverAboveRaw' /\ FailuresAreKnown' /\ CardIsOfPoam'
  BY <1>1, <1>2 DEF AdvisorInv, NeverAboveRaw, FailuresAreKnown, CardIsOfPoam
<1>5. ASSUME NEW a \in Asks PROVE KnowsOfDeletion(a)' /\ LookupStands(a)'
  BY <1>1, <1>2 DEF AdvisorInv, KnowsOfDeletion, LookupStands, UnderWay, Late, Kept
<1> QED
  BY <1>2, <1>3, <1>4, <1>5 DEF AdvisorInv

-----------------------------------------------------------------------------
LEMMA NextAdvisorInv == AdvisorInv /\ [AdvisorNext]_advisorVars => AdvisorInv'
<1> SUFFICES ASSUME AdvisorInv, [AdvisorNext]_advisorVars PROVE AdvisorInv'
  OBVIOUS
<1>1. ASSUME NEW a \in Asks, a \in UnderWay, Advise(a) PROVE AdvisorInv'
  BY <1>1, ReadLinkedInv, LookupInv, BumpHitInv, ReplayInv, AskAdvisorInv, CheckStoredInv,
     InsertStoredInv DEF Advise
<1>2. CASE UNCHANGED advisorVars
  BY <1>2 DEF advisorVars, AdvisorInv, StateTyped, AdvisorTypeOK, NeverAboveRaw,
     FailuresAreKnown, KnowsOfDeletion, LookupStands, CardIsOfPoam, UnderWay, Late, Kept, DigestOf
<1> QED
  BY <1>1, <1>2, OpenInv, RestInv, DropPoamInv DEF AdvisorNext

\* Whatever happens to the POAM while the model is asked, a suggestion stays under
\* the severity it was reached on, fails only for known reasons and goes with its
\* POAM (poam/residual_advisor.py).
THEOREM AdvisorIsSafe == AdvisorSpec => []AdvisorSafe
<1>1. AdvisorSpec => []AdvisorInv
  BY InitAdvisorInv, NextAdvisorInv, PTL DEF AdvisorSpec
<1> QED
  BY <1>1, AdvisorInvIsSafe, PTL

-----------------------------------------------------------------------------
(* The working copies *)

Holding == {"copied", "named", "saved", "patched", "restoring"}   \* with a copy of their own
BackedUp == {"saved", "patched", "restoring"}

\* The locals that a call has at each of its steps.
CallShape(a) ==
    /\ call[a].pc \notin Running => call[a] = At(call[a].pc)
    /\ call[a].pc # "loaded" => call[a].prior = NoPath
    /\ call[a].pc # "copying" => call[a].source = NoPath
    /\ call[a].target = NoPath <=> call[a].pc \notin Holding \cup {"copying"}
    /\ IF call[a].pc \in BackedUp THEN Whole(call[a].backup) ELSE call[a].backup = Absent

CopyTyped ==
    /\ CopyTypeOK
    /\ \A p \in Paths : ~Whole(files[p]) => files[p].holds = {}
    /\ \A a \in Applies : CallShape(a)

\* A call outside the history of overlaps has been alone since it began, and the row
\* names its copy from the moment it stored the name.
AloneIsAlone ==
    \A a \in Applies \ overlapped :
        /\ call[a].pc \in Running => \A b \in Applies \ {a} : call[b].pc \notin Running
        /\ call[a].pc \in {"named", "saved", "patched", "restoring"} => path = call[a].target

\* What is kept is in this file, if the file can be read; a missing one has not been
\* missed since the user deleted it.
Covers(f) == (f = Absent => kept = {}) /\ (Whole(f) => kept \subseteq f.holds)

CoversAt(p) == IF p = NoPath THEN kept = {} ELSE Covers(files[p])

\* Every file that the current copy is or may come from covers what is kept.
KeptIsCovered ==
    /\ CoversAt(path)
    /\ \A a \in Applies :
          /\ call[a].pc = "loaded" => CoversAt(call[a].prior)
          /\ call[a].pc = "copying" => CoversAt(call[a].source)
          /\ call[a].pc \in Holding => CoversAt(call[a].target)
          /\ call[a].pc \in BackedUp => kept \subseteq call[a].backup.holds

\* One file that no call writes to holds everything that is kept.
KeptIsSafe ==
    kept # {} => \E p \in Paths : /\ Whole(files[p]) /\ kept \subseteq files[p].holds
                                  /\ \A a \in Applies : call[a].target # p

\* Nobody names a torn copy, unless a restore or a shared name tore it.
TornIsDead ==
    ~damaged => \A p \in Paths : files[p] = Torn =>
        /\ p # path
        /\ \A a \in Applies : p \notin {call[a].prior, call[a].source, call[a].target}

\* Where the rows of an apply may be found before it is patched in, while a lone one
\* may yet be rolled back, and once it was.
HoldersAreKnown ==
    \A a \in Applies :
        /\ \/ call[a].pc \in Running \ {"patched", "restoring"}
           \/ call[a].pc = "new"
           \/ call[a].pc = "restored" /\ a \notin overlapped
           => /\ \A p \in Paths : a \notin files[p].holds
              /\ \A b \in Applies : a \notin call[b].backup.holds
        /\ call[a].pc \in {"patched", "restoring"} /\ a \notin overlapped
           => /\ \A p \in Paths \ {call[a].target} : a \notin files[p].holds
              /\ \A b \in Applies : a \notin call[b].backup.holds

\* What makes CopySafe inductive.
CopyInv == /\ CopyTyped /\ AloneIsAlone /\ KeptIsCovered /\ KeptIsSafe
           /\ TornIsDead /\ HoldersAreKnown

LEMMA CopyInvIsSafe == CopyInv => CopySafe
<1> SUFFICES ASSUME CopyInv PROVE CopySafe
  OBVIOUS
<1>1. CopyTypeOK /\ path \in Names
  BY DEF CopyInv, CopyTyped, CopyTypeOK
<1>2. CopiesAccumulate
  BY DEF CopyInv, KeptIsCovered, CoversAt, Covers, CopiesAccumulate
<1>3. CurrentIsWhole
  BY <1>1 DEF CopyInv, TornIsDead, CurrentIsWhole, Names
<1>4. NothingIsLost
  BY DEF CopyInv, KeptIsSafe, NothingIsLost
<1>5. RolledBackIsGone
  BY DEF CopyInv, HoldersAreKnown, RolledBackIsGone
<1> QED
  BY <1>1, <1>2, <1>3, <1>4, <1>5 DEF CopySafe

LEMMA FilesAreTyped ==
  /\ Absent \in Contents /\ Torn \in Contents /\ Pristine \in Contents
  /\ Absent # Torn /\ Absent # Pristine /\ Torn # Pristine
  /\ ~Whole(Absent) /\ ~Whole(Torn) /\ Whole(Pristine)
  /\ Absent.holds = {} /\ Torn.holds = {} /\ Pristine.holds = {}
<1>1. Absent.state = "absent" /\ Torn.state = "torn" /\ Pristine.state = "whole"
  BY DEF Absent, Torn, Pristine
<1> QED
  BY <1>1 DEF Absent, Torn, Pristine, Contents, Whole

\* The locals of a call that has just reached a label.
LEMMA AtIsTyped ==
  ASSUME NEW l \in Running \cup {"new", "ok", "failed", "restored"}
  PROVE  /\ At(l) \in Calls /\ At(l).pc = l
         /\ At(l).prior = NoPath /\ At(l).source = NoPath /\ At(l).target = NoPath
         /\ At(l).backup = Absent
  BY FilesAreTyped DEF At, Calls, Names

LEMMA InitCopyInv == CopyInit => CopyInv
<1> SUFFICES ASSUME CopyInit PROVE CopyInv
  OBVIOUS
<1>1. /\ call \in [Applies -> Calls] /\ \A a \in Applies : call[a] = At("new")
      /\ \A a \in Applies : /\ call[a].pc = "new" /\ call[a].prior = NoPath
                            /\ call[a].source = NoPath /\ call[a].target = NoPath
                            /\ call[a].backup = Absent
  BY AtIsTyped DEF CopyInit
<1>2. files \in [Paths -> Contents] /\ \A p \in Paths : files[p] = Absent
  BY FilesAreTyped DEF CopyInit
<1>3. CopyTyped
  BY <1>1, <1>2, FilesAreTyped
     DEF CopyInit, CopyTyped, CopyTypeOK, CallShape, Running, Holding, BackedUp, Names
<1> QED
  BY <1>1, <1>2, <1>3, FilesAreTyped
     DEF CopyInit, CopyInv, AloneIsAlone, KeptIsCovered, CoversAt, KeptIsSafe, TornIsDead,
         HoldersAreKnown, Running, Holding, BackedUp

\* A step of one call gives it new locals and leaves the others theirs.
LEMMA OneCallMoves ==
  ASSUME CopyTyped, NEW a \in Applies, NEW r \in Calls, Become(a, r)
  PROVE  /\ call' \in [Applies -> Calls]
         /\ \A b \in Applies : call'[b] = IF b = a THEN r ELSE call[b]
  BY DEF CopyTyped, CopyTypeOK, Become

\* A call that ends without touching a file.
LEMMA EndsInv ==
  ASSUME CopyInv, NEW a \in Applies, call[a].pc \in Running, Become(a, At("failed")),
         UNCHANGED <<original, files, path, history>>
  PROVE  CopyInv'
<1>0. UNCHANGED <<original, files, path, overlapped, damaged, kept>>
  BY DEF history
<1>1. /\ call' \in [Applies -> Calls]
      /\ \A b \in Applies : call'[b] = IF b = a THEN At("failed") ELSE call[b]
  BY AtIsTyped, OneCallMoves DEF CopyInv
<1>2. /\ call'[a].pc = "failed" /\ call'[a].prior = NoPath
      /\ call'[a].source = NoPath /\ call'[a].target = NoPath
      /\ call'[a].backup = Absent /\ call'[a] = At("failed")
  BY <1>1, AtIsTyped
<1>3. CopyTyped'
  BY <1>0, <1>1, <1>2 DEF CopyInv, CopyTyped, CopyTypeOK, CallShape, Running, Holding, BackedUp
<1>4. AloneIsAlone'
  BY <1>0, <1>1, <1>2 DEF CopyInv, AloneIsAlone, Running
<1>5. KeptIsCovered'
  BY <1>0, <1>1, <1>2 DEF CopyInv, KeptIsCovered, CoversAt, Covers, Holding, BackedUp
<1>6. KeptIsSafe'
  BY <1>0, <1>1, <1>2, CopyAssumption DEF CopyInv, KeptIsSafe
<1>7. TornIsDead'
  BY <1>0, <1>1, <1>2, CopyAssumption DEF CopyInv, TornIsDead
<1>8. HoldersAreKnown'
  BY <1>0, <1>1, <1>2, FilesAreTyped DEF CopyInv, HoldersAreKnown, Running
<1> QED
  BY <1>3, <1>4, <1>5, <1>6, <1>7, <1>8 DEF CopyInv

LEMMA BeginInv ==
  ASSUME CopyInv, NEW a \in Applies, Begin(a)
  PROVE  CopyInv'
<1> DEFINE r == [At("loaded") EXCEPT !.prior = path]
<1>0. UNCHANGED <<original, files, path, damaged, kept>> /\ call[a].pc = "new"
  BY DEF Begin
<1>1. /\ r \in Calls /\ r.pc = "loaded" /\ r.prior = path
      /\ r.source = NoPath /\ r.target = NoPath /\ r.backup = Absent
  BY AtIsTyped DEF CopyInv, CopyTyped, CopyTypeOK, Calls, Running
<1>2. Become(a, r)
  BY DEF Begin
<1> HIDE DEF r
<1>3. /\ call' \in [Applies -> Calls]
      /\ \A b \in Applies : call'[b] = IF b = a THEN r ELSE call[b]
  BY <1>1, <1>2, OneCallMoves DEF CopyInv
<1>4. /\ overlapped \subseteq overlapped' /\ overlapped' \subseteq Applies
      /\ (\E b \in Applies : call[b].pc \in Running) =>
            a \in overlapped' /\ \A b \in Applies : call[b].pc \in Running => b \in overlapped'
  BY DEF Begin, InFlight, CopyInv, CopyTyped, CopyTypeOK
<1>5. CopyTyped'
  BY <1>0, <1>1, <1>3, <1>4
     DEF CopyInv, CopyTyped, CopyTypeOK, CallShape, Running, Holding, BackedUp
<1>6. AloneIsAlone'
  BY <1>0, <1>1, <1>3, <1>4 DEF CopyInv, AloneIsAlone, Running
<1>7. KeptIsCovered'
  BY <1>0, <1>1, <1>3 DEF CopyInv, KeptIsCovered, CoversAt, Covers, Holding, BackedUp
<1>8. KeptIsSafe'
  BY <1>0, <1>1, <1>3, CopyAssumption DEF CopyInv, KeptIsSafe
<1>9. TornIsDead'
  BY <1>0, <1>1, <1>3, CopyAssumption DEF CopyInv, TornIsDead
<1>10. HoldersAreKnown'
  <2>1. \A b \in Applies : call'[b].backup \in {call[b].backup, Absent}
    BY <1>1, <1>3
  <2>2. \A b \in Applies \ {a} : call'[b] = call[b]
    BY <1>3
  <2> QED
    BY <1>0, <1>1, <1>3, <1>4, <2>1, <2>2, FilesAreTyped DEF CopyInv, HoldersAreKnown, Running
<1> QED
  BY <1>5, <1>6, <1>7, <1>8, <1>9, <1>10 DEF CopyInv

\* The source is the copy that was read, the target a name without a file.
LEMMA DeriveInv ==
  ASSUME CopyInv, NEW a \in Applies, Derive(a)
  PROVE  CopyInv'
<1>0. UNCHANGED <<original, files, path, overlapped, damaged, kept>> /\ call[a].pc = "loaded"
  BY DEF Derive, history
<1>1. CASE Become(a, At("failed"))
  BY <1>0, <1>1, EndsInv DEF Running, history
<1>2. ASSUME NEW p \in Targets(a),
             Become(a, [At("copying") EXCEPT !.source = SourceOf(a), !.target = p])
      PROVE  CopyInv'
  <2> DEFINE r == [At("copying") EXCEPT !.source = SourceOf(a), !.target = p]
  <2>1. /\ p \in Paths /\ files[p] = Absent /\ p # path
        /\ \A b \in Applies : p \notin {call[b].prior, call[b].source}
    BY <1>2 DEF Targets, Free
  <2>2. SourceOf(a) \in {call[a].prior, NoPath} /\ SourceOf(a) \in Names
        /\ (SourceOf(a) = NoPath => call[a].prior = NoPath \/ files[call[a].prior] = Absent)
    BY DEF SourceOf, Exists, CopyInv, CopyTyped, CopyTypeOK, Calls, Names
  <2>3. /\ r \in Calls /\ r.pc = "copying" /\ r.prior = NoPath
        /\ r.source = SourceOf(a) /\ r.target = p /\ r.backup = Absent
    <3> DEFINE o == SourceOf(a)
    <3>1. o \in Names /\ p \in Names
      BY <2>1, <2>2 DEF Names
    <3> HIDE DEF o
    <3>2. [At("copying") EXCEPT !.source = o, !.target = p] \in Calls
      BY <3>1, FilesAreTyped DEF At, Calls, Running, Names
    <3>3. /\ [At("copying") EXCEPT !.source = o, !.target = p].pc = "copying"
          /\ [At("copying") EXCEPT !.source = o, !.target = p].prior = NoPath
          /\ [At("copying") EXCEPT !.source = o, !.target = p].source = o
          /\ [At("copying") EXCEPT !.source = o, !.target = p].target = p
          /\ [At("copying") EXCEPT !.source = o, !.target = p].backup = Absent
      BY DEF At
    <3> QED
      BY <3>2, <3>3 DEF o
  <2> HIDE DEF r
  <2>4. /\ call' \in [Applies -> Calls]
        /\ \A b \in Applies : call'[b] = IF b = a THEN r ELSE call[b]
    BY <1>2, <2>3, OneCallMoves DEF CopyInv, r
  <2>5. CopyTyped'
    BY <1>0, <2>1, <2>3, <2>4, CopyAssumption
       DEF CopyInv, CopyTyped, CopyTypeOK, CallShape, Running, Holding, BackedUp
  <2>6. AloneIsAlone'
    BY <1>0, <2>3, <2>4 DEF CopyInv, AloneIsAlone, Running
  <2>7. KeptIsCovered'
    BY <1>0, <2>2, <2>3, <2>4 DEF CopyInv, KeptIsCovered, CoversAt, Covers, Holding, BackedUp
  <2>8. KeptIsSafe'
    BY <1>0, <2>1, <2>3, <2>4, FilesAreTyped DEF CopyInv, KeptIsSafe
  <2>9. TornIsDead'
    BY <1>0, <2>1, <2>2, <2>3, <2>4, FilesAreTyped, CopyAssumption DEF CopyInv, TornIsDead
  <2>10. HoldersAreKnown'
    <3>1. \A b \in Applies : call'[b].backup \in {call[b].backup, Absent}
      BY <2>3, <2>4
    <3> QED
      BY <1>0, <2>3, <2>4, <3>1, FilesAreTyped DEF CopyInv, HoldersAreKnown, Running
  <2> QED
    BY <2>5, <2>6, <2>7, <2>8, <2>9, <2>10 DEF CopyInv
<1> QED
  BY <1>1, <1>2 DEF Derive

\* A call whose locals are r writes f to its own target.
LEMMA OneFileMoves ==
  ASSUME CopyTyped, NEW p \in Paths, NEW f \in Contents, files' = [files EXCEPT ![p] = f]
  PROVE  /\ files' \in [Paths -> Contents]
         /\ \A q \in Paths : files'[q] = IF q = p THEN f ELSE files[q]
  BY DEF CopyTyped, CopyTypeOK

LEMMA OnIsTyped ==
  ASSUME CopyTyped, NEW a \in Applies, NEW l \in Running
  PROVE  /\ On(a, l) \in Calls /\ On(a, l).pc = l
         /\ On(a, l).prior = NoPath /\ On(a, l).source = NoPath
         /\ On(a, l).target = call[a].target /\ On(a, l).backup = Absent
<1>1. call[a].target \in Names
  BY DEF CopyTyped, CopyTypeOK, Calls
<1> QED
  BY <1>1, AtIsTyped DEF On, Calls

\* The copy is complete, or failed and left what was there or a torn file.
LEMMA CopyForwardInv ==
  ASSUME CopyInv, NEW a \in Applies, CopyForward(a)
  PROVE  CopyInv'
<1> DEFINE p == call[a].target
<1>0. /\ UNCHANGED <<original, path, overlapped, kept>> /\ call[a].pc = "copying"
      /\ p \in Paths
  BY DEF CopyForward, CopyInv, CopyTyped, CopyTypeOK, CallShape, Calls, Names, Running
<1>a. /\ call[a].source \in Names /\ CoversAt(call[a].source)
      /\ call[a].backup = Absent
  BY <1>0 DEF CopyInv, CopyTyped, CopyTypeOK, CallShape, Calls, KeptIsCovered, BackedUp
<1>1. CASE /\ Forwarded(a) # Absent
           /\ files' = [files EXCEPT ![p] = Forwarded(a)]
           /\ Become(a, On(a, "copied"))
           /\ UNCHANGED damaged
  <2> DEFINE f == Forwarded(a)
             r == On(a, "copied")
  <2>1. /\ f \in Contents /\ f # Absent /\ Covers(f)
        /\ (~Whole(f) => f.holds = {})
        /\ (f = Torn => call[a].source # NoPath /\ files[call[a].source] = Torn)
        /\ \A b \in f.holds : call[a].source # NoPath /\ b \in files[call[a].source].holds
    BY <1>1, <1>a, FilesAreTyped
       DEF Forwarded, Covers, CoversAt, CopyInv, CopyTyped, CopyTypeOK, Names
  <2>2. /\ r \in Calls /\ r.pc = "copied" /\ r.prior = NoPath
        /\ r.source = NoPath /\ r.target = p /\ r.backup = Absent
    BY OnIsTyped DEF CopyInv, Running
  <2> HIDE DEF f, r
  <2>3. /\ call' \in [Applies -> Calls]
        /\ \A b \in Applies : call'[b] = IF b = a THEN r ELSE call[b]
    BY <1>1, <2>2, OneCallMoves DEF CopyInv, r
  <2>4. /\ files' \in [Paths -> Contents]
        /\ \A q \in Paths : files'[q] = IF q = p THEN f ELSE files[q]
    BY <1>0, <1>1, <2>1, OneFileMoves DEF CopyInv, f
  <2>5. CopyTyped'
    BY <1>0, <2>1, <2>2, <2>3, <2>4, <1>1, CopyAssumption
       DEF CopyInv, CopyTyped, CopyTypeOK, CallShape, Running, Holding, BackedUp
  <2>6. AloneIsAlone'
    BY <1>0, <2>2, <2>3 DEF CopyInv, AloneIsAlone, Running
  <2>7. KeptIsCovered'
    <3>1. \A n \in Names : CoversAt(n) => CoversAt(n)'
      BY <1>0, <2>1, <2>4 DEF CoversAt, Covers, Names
    <3>2. /\ path \in Names
          /\ \A b \in Applies : {call[b].prior, call[b].source, call[b].target} \subseteq Names
      BY DEF CopyInv, CopyTyped, CopyTypeOK, Calls
    <3>3. \A n \in Paths : n = p => CoversAt(n)'
      BY <1>0, <2>1, <2>4, CopyAssumption DEF CoversAt, Covers
    <3> QED
      BY <1>0, <2>2, <2>3, <3>1, <3>2, <3>3 DEF CopyInv, KeptIsCovered, Holding, BackedUp
  <2>8. KeptIsSafe'
    BY <1>0, <2>2, <2>3, <2>4 DEF CopyInv, KeptIsSafe
  <2>9. TornIsDead'
    <3>1. ~damaged => f # Torn
      BY <1>0, <1>a, <2>1 DEF CopyInv, TornIsDead, Names
    <3> QED
      BY <1>0, <1>1, <2>2, <2>3, <2>4, <3>1, CopyAssumption DEF CopyInv, TornIsDead
  <2>10. HoldersAreKnown'
    <3>1. \A b \in Applies : call'[b].backup = call[b].backup
      BY <1>a, <2>2, <2>3
    <3>2. \A b \in Applies : call[b].pc \in {"patched", "restoring"} /\ b \notin overlapped => FALSE
      BY <1>0 DEF CopyInv, AloneIsAlone, Running
    <3>3. \A q \in Paths, b \in Applies :
              b \in files'[q].holds => \E o \in Paths : b \in files[o].holds
      BY <1>0, <1>a, <2>1, <2>4 DEF Names
    <3> QED
      BY <1>0, <2>2, <2>3, <3>1, <3>2, <3>3 DEF CopyInv, HoldersAreKnown, Running
  <2> QED
    BY <2>5, <2>6, <2>7, <2>8, <2>9, <2>10 DEF CopyInv
<1>2. ASSUME NEW left \in {files[p], Torn},
             files' = [files EXCEPT ![p] = left],
             damaged' = (damaged \/ (left = Torn /\ Shared(p))),
             Become(a, At("failed"))
      PROVE  CopyInv'
  <2>1. /\ left \in Contents /\ (~Whole(left) => left.holds = {})
        /\ (left # files[p] => left = Torn)
    BY <1>0, FilesAreTyped DEF CopyInv, CopyTyped, CopyTypeOK
  <2>2. /\ At("failed").pc = "failed" /\ At("failed").prior = NoPath
        /\ At("failed").source = NoPath /\ At("failed").target = NoPath
        /\ At("failed").backup = Absent /\ At("failed") \in Calls
    BY AtIsTyped
  <2>3. /\ call' \in [Applies -> Calls]
        /\ \A b \in Applies : call'[b] = IF b = a THEN At("failed") ELSE call[b]
    BY <1>2, <2>2, OneCallMoves DEF CopyInv
  <2>4. /\ files' \in [Paths -> Contents]
        /\ \A q \in Paths : files'[q] = IF q = p THEN left ELSE files[q]
    BY <1>0, <1>2, <2>1, OneFileMoves DEF CopyInv
  <2>5. CopyTyped'
    BY <1>0, <2>1, <2>2, <2>3, <2>4, <1>2, CopyAssumption
       DEF CopyInv, CopyTyped, CopyTypeOK, CallShape, Running, Holding, BackedUp
  <2>6. AloneIsAlone'
    BY <1>0, <2>2, <2>3 DEF CopyInv, AloneIsAlone, Running
  <2>7. KeptIsCovered'
    <3>1. \A n \in Names : CoversAt(n) => CoversAt(n)'
      BY <1>0, <2>1, <2>4, FilesAreTyped DEF CoversAt, Covers, Names
    <3>2. /\ path \in Names
          /\ \A b \in Applies : {call[b].prior, call[b].source, call[b].target} \subseteq Names
      BY DEF CopyInv, CopyTyped, CopyTypeOK, Calls
    <3> QED
      BY <1>0, <2>2, <2>3, <3>1, <3>2 DEF CopyInv, KeptIsCovered, Holding, BackedUp
  <2>8. KeptIsSafe'
    BY <1>0, <2>2, <2>3, <2>4, CopyAssumption DEF CopyInv, KeptIsSafe
  <2>9. TornIsDead'
    <3>1. ~damaged' => ~damaged /\ (left = Torn => ~Shared(p))
      BY <1>2
    <3>2. ASSUME ~Shared(p)
          PROVE  /\ p # path
                 /\ \A b \in Applies : p \notin {call[b].prior, call[b].source}
                 /\ \A b \in Applies \ {a} : call[b].target # p
      BY <3>2 DEF Shared
    <3>3. \A b \in Applies : /\ call'[b].prior \in {call[b].prior, NoPath}
                             /\ call'[b].source \in {call[b].source, NoPath}
                             /\ call'[b].target \in {call[b].target, NoPath}
                             /\ b = a => call'[b].target = NoPath
      BY <2>2, <2>3
    <3> QED
      BY <1>0, <2>4, <3>1, <3>2, <3>3, CopyAssumption DEF CopyInv, TornIsDead
  <2>10. HoldersAreKnown'
    <3>1. \A b \in Applies : call'[b].backup = call[b].backup
      BY <1>a, <2>2, <2>3
    <3>2. \A q \in Paths, b \in Applies : b \in files'[q].holds => b \in files[q].holds
      BY <1>0, <2>1, <2>4, FilesAreTyped
    <3> QED
      BY <1>0, <2>2, <2>3, <3>1, <3>2 DEF CopyInv, HoldersAreKnown, Running
  <2> QED
    BY <2>5, <2>6, <2>7, <2>8, <2>9, <2>10 DEF CopyInv
<1> QED
  BY <1>1, <1>2 DEF CopyForward

LEMMA StoreNameInv ==
  ASSUME CopyInv, NEW a \in Applies, StoreName(a)
  PROVE  CopyInv'
<1>0. /\ UNCHANGED <<original, files, overlapped, damaged, kept>> /\ call[a].pc = "copied"
      /\ call[a].target \in Paths /\ CoversAt(call[a].target) /\ call[a].backup = Absent
  BY DEF StoreName, history, CopyInv, CopyTyped, CopyTypeOK, CallShape, Calls, Names,
         Holding, BackedUp, KeptIsCovered, Running
<1>1. CASE UNCHANGED path /\ Become(a, At("failed"))
  BY <1>0, <1>1, EndsInv DEF Running, history
<1>2. CASE path' = call[a].target /\ Become(a, On(a, "named"))
  <2> DEFINE r == On(a, "named")
  <2>1. /\ r \in Calls /\ r.pc = "named" /\ r.prior = NoPath
        /\ r.source = NoPath /\ r.target = call[a].target /\ r.backup = Absent
    BY OnIsTyped DEF CopyInv, Running
  <2> HIDE DEF r
  <2>2. /\ call' \in [Applies -> Calls]
        /\ \A b \in Applies : call'[b] = IF b = a THEN r ELSE call[b]
    BY <1>2, <2>1, OneCallMoves DEF CopyInv, r
  <2>3. CopyTyped'
    BY <1>0, <1>2, <2>1, <2>2, CopyAssumption
       DEF CopyInv, CopyTyped, CopyTypeOK, CallShape, Running, Holding, BackedUp, Names
  <2>4. AloneIsAlone'
    BY <1>0, <1>2, <2>1, <2>2 DEF CopyInv, AloneIsAlone, Running
  <2>5. KeptIsCovered'
    BY <1>0, <1>2, <2>1, <2>2 DEF CopyInv, KeptIsCovered, CoversAt, Covers, Holding, BackedUp
  <2>6. KeptIsSafe'
    BY <1>0, <2>1, <2>2 DEF CopyInv, KeptIsSafe
  <2>7. TornIsDead'
    BY <1>0, <1>2, <2>1, <2>2, CopyAssumption DEF CopyInv, TornIsDead
  <2>8. HoldersAreKnown'
    <3>1. \A b \in Applies : call'[b].backup = call[b].backup
      BY <1>0, <2>1, <2>2
    <3> QED
      BY <1>0, <2>1, <2>2, <3>1 DEF CopyInv, HoldersAreKnown, Running
  <2> QED
    BY <2>3, <2>4, <2>5, <2>6, <2>7, <2>8 DEF CopyInv
<1> QED
  BY <1>1, <1>2 DEF StoreName

\* The backup is a whole file and covers what the file covers.
LEMMA SaveInv ==
  ASSUME CopyInv, NEW a \in Applies, Save(a)
  PROVE  CopyInv'
<1> DEFINE file == files[call[a].target]
<1>0. /\ UNCHANGED <<original, files, path, overlapped, damaged, kept>> /\ call[a].pc = "named"
      /\ call[a].target \in Paths /\ CoversAt(call[a].target) /\ file \in Contents
  BY DEF Save, history, CopyInv, CopyTyped, CopyTypeOK, CallShape, Calls, Names,
         Holding, BackedUp, KeptIsCovered, Running
<1>1. CASE Become(a, At("failed"))
  BY <1>0, <1>1, EndsInv DEF Running, history
<1>2. CASE Whole(file) /\ Become(a, [On(a, "saved") EXCEPT !.backup = file])
  <2> DEFINE r == [On(a, "saved") EXCEPT !.backup = file]
  <2>1. /\ r \in Calls /\ r.pc = "saved" /\ r.prior = NoPath
        /\ r.source = NoPath /\ r.target = call[a].target /\ r.backup = file
    BY <1>0, OnIsTyped DEF CopyInv, Running, Calls
  <2> HIDE DEF r
  <2>2. /\ call' \in [Applies -> Calls]
        /\ \A b \in Applies : call'[b] = IF b = a THEN r ELSE call[b]
    BY <1>2, <2>1, OneCallMoves DEF CopyInv, r
  <2>3. CopyTyped'
    BY <1>0, <1>2, <2>1, <2>2, CopyAssumption
       DEF CopyInv, CopyTyped, CopyTypeOK, CallShape, Running, Holding, BackedUp
  <2>4. AloneIsAlone'
    BY <1>0, <2>1, <2>2 DEF CopyInv, AloneIsAlone, Running
  <2>5. KeptIsCovered'
    BY <1>0, <1>2, <2>1, <2>2, CopyAssumption
       DEF CopyInv, KeptIsCovered, CoversAt, Covers, Holding, BackedUp
  <2>6. KeptIsSafe'
    BY <1>0, <2>1, <2>2 DEF CopyInv, KeptIsSafe
  <2>7. TornIsDead'
    BY <1>0, <2>1, <2>2, CopyAssumption DEF CopyInv, TornIsDead
  <2>8. HoldersAreKnown'
    <3>1. \A b, c \in Applies : c \in call'[b].backup.holds =>
              \/ c \in call[b].backup.holds
              \/ \E q \in Paths : c \in files[q].holds
      BY <1>0, <2>1, <2>2
    <3>2. \A b \in Applies : call[b].pc \in {"patched", "restoring"} /\ b \notin overlapped => FALSE
      BY <1>0 DEF CopyInv, AloneIsAlone, Running
    <3> QED
      BY <1>0, <2>1, <2>2, <3>1, <3>2 DEF CopyInv, HoldersAreKnown, Running
  <2> QED
    BY <2>3, <2>4, <2>5, <2>6, <2>7, <2>8 DEF CopyInv
<1> QED
  BY <1>1, <1>2 DEF Save

\* A call that moves on behind its backup.
LEMMA LabelIsTyped ==
  ASSUME CopyTyped, NEW a \in Applies, NEW l \in BackedUp, call[a].pc \in BackedUp
  PROVE  /\ [call[a] EXCEPT !.pc = l] \in Calls /\ [call[a] EXCEPT !.pc = l].pc = l
         /\ [call[a] EXCEPT !.pc = l].prior = NoPath
         /\ [call[a] EXCEPT !.pc = l].source = NoPath
         /\ [call[a] EXCEPT !.pc = l].target = call[a].target
         /\ [call[a] EXCEPT !.pc = l].backup = call[a].backup
         /\ call[a].target \in Paths /\ Whole(call[a].backup) /\ call[a].backup \in Contents
  BY DEF CopyTyped, CopyTypeOK, CallShape, Calls, Names, BackedUp, Holding, Running

LEMMA GoesToRestoreInv ==
  ASSUME CopyInv, NEW a \in Applies, call[a].pc \in {"saved", "patched"},
         Become(a, [call[a] EXCEPT !.pc = "restoring"]),
         UNCHANGED <<original, files, path, overlapped, damaged, kept>>
  PROVE  CopyInv'
<1> DEFINE r == [call[a] EXCEPT !.pc = "restoring"]
<1>1. /\ r \in Calls /\ r.pc = "restoring" /\ r.prior = NoPath /\ r.source = NoPath
      /\ r.target = call[a].target /\ r.backup = call[a].backup
      /\ call[a].target \in Paths /\ Whole(call[a].backup)
  BY LabelIsTyped DEF CopyInv, BackedUp
<1>2. Become(a, r)
  OBVIOUS
<1> HIDE DEF r
<1>3. /\ call' \in [Applies -> Calls]
      /\ \A b \in Applies : call'[b] = IF b = a THEN r ELSE call[b]
  BY <1>1, <1>2, OneCallMoves DEF CopyInv
<1>4. CopyTyped'
  BY <1>1, <1>3, CopyAssumption
     DEF CopyInv, CopyTyped, CopyTypeOK, CallShape, Running, Holding, BackedUp
<1>5. AloneIsAlone'
  BY <1>1, <1>3 DEF CopyInv, AloneIsAlone, Running
<1>6. KeptIsCovered'
  BY <1>1, <1>3 DEF CopyInv, KeptIsCovered, CoversAt, Covers, Holding, BackedUp
<1>7. KeptIsSafe'
  BY <1>1, <1>3 DEF CopyInv, KeptIsSafe
<1>8. TornIsDead'
  BY <1>1, <1>3, CopyAssumption DEF CopyInv, TornIsDead
<1>9. HoldersAreKnown'
  <2>1. \A b \in Applies : call'[b].backup = call[b].backup /\ call'[b].target = call[b].target
    BY <1>1, <1>3
  <2> QED
    BY <1>1, <1>3, <2>1 DEF CopyInv, HoldersAreKnown, Running
<1> QED
  BY <1>4, <1>5, <1>6, <1>7, <1>8, <1>9 DEF CopyInv

\* The patch adds the rows of the apply to its own file, and to nothing else.
LEMMA PatchInv ==
  ASSUME CopyInv, NEW a \in Applies, Patch(a)
  PROVE  CopyInv'
<1> DEFINE p == call[a].target
<1>0. UNCHANGED <<original, path, overlapped, damaged, kept>> /\ call[a].pc = "saved"
  BY DEF Patch, history
<1>1. CASE UNCHANGED files /\ Become(a, [call[a] EXCEPT !.pc = "restoring"])
  BY <1>0, <1>1, GoesToRestoreInv
<1>2. CASE /\ Whole(files[p])
           /\ files' = [files EXCEPT ![p].holds = @ \cup {a}]
           /\ Become(a, [call[a] EXCEPT !.pc = "patched"])
  <2> DEFINE r == [call[a] EXCEPT !.pc = "patched"]
             f == [files[p] EXCEPT !.holds = @ \cup {a}]
  <2>1. /\ r \in Calls /\ r.pc = "patched" /\ r.prior = NoPath /\ r.source = NoPath
        /\ r.target = p /\ r.backup = call[a].backup
        /\ p \in Paths /\ Whole(call[a].backup)
    BY <1>0, LabelIsTyped DEF CopyInv, BackedUp
  <2>2. /\ f \in Contents /\ Whole(f) /\ f.holds = files[p].holds \cup {a}
    BY <1>2, <2>1 DEF CopyInv, CopyTyped, CopyTypeOK, Contents, Whole
  <2>3. files' = [files EXCEPT ![p] = f]
    BY <1>2, <2>1 DEF CopyInv, CopyTyped, CopyTypeOK
  <2> HIDE DEF f, r
  <2>4. /\ call' \in [Applies -> Calls]
        /\ \A b \in Applies : call'[b] = IF b = a THEN r ELSE call[b]
    BY <1>2, <2>1, OneCallMoves DEF CopyInv, r
  <2>5. /\ files' \in [Paths -> Contents]
        /\ \A q \in Paths : files'[q] = IF q = p THEN f ELSE files[q]
    BY <2>1, <2>2, <2>3, OneFileMoves DEF CopyInv
  <2>6. CopyTyped'
    BY <1>0, <2>1, <2>2, <2>4, <2>5, CopyAssumption
       DEF CopyInv, CopyTyped, CopyTypeOK, CallShape, Running, Holding, BackedUp
  <2>7. AloneIsAlone'
    BY <1>0, <2>1, <2>4 DEF CopyInv, AloneIsAlone, Running
  <2>8. KeptIsCovered'
    <3>1. \A n \in Names : CoversAt(n) => CoversAt(n)'
      BY <1>0, <1>2, <2>1, <2>2, <2>5, FilesAreTyped DEF CoversAt, Covers, Names
    <3>2. /\ path \in Names
          /\ \A b \in Applies : {call[b].prior, call[b].source, call[b].target} \subseteq Names
      BY DEF CopyInv, CopyTyped, CopyTypeOK, Calls
    <3> QED
      BY <1>0, <2>1, <2>4, <3>1, <3>2 DEF CopyInv, KeptIsCovered, Holding, BackedUp
  <2>9. KeptIsSafe'
    BY <1>0, <2>1, <2>4, <2>5 DEF CopyInv, KeptIsSafe
  <2>10. TornIsDead'
    BY <1>0, <2>1, <2>2, <2>4, <2>5, FilesAreTyped, CopyAssumption DEF CopyInv, TornIsDead
  <2>11. HoldersAreKnown'
    <3>1. \A b \in Applies : call'[b].backup = call[b].backup /\ call'[b].target = call[b].target
      BY <2>1, <2>4
    <3>2. \A b \in Applies \ {a}, q \in Paths : b \in files'[q].holds => b \in files[q].holds
      BY <2>1, <2>2, <2>5
    <3>3. \A b \in Applies \ {a} : call'[b] = call[b]
      BY <2>4
    <3>4. /\ \A q \in Paths \ {p} : a \notin files'[q].holds
          /\ \A b \in Applies : a \notin call'[b].backup.holds
          /\ call'[a].pc = "patched" /\ call'[a].target = p
      BY <1>0, <2>1, <2>4, <2>5, <3>1 DEF CopyInv, HoldersAreKnown, Running
    <3> QED
      BY <1>0, <3>1, <3>2, <3>3, <3>4 DEF CopyInv, HoldersAreKnown, Running
  <2> QED
    BY <2>6, <2>7, <2>8, <2>9, <2>10, <2>11 DEF CopyInv
<1> QED
  BY <1>1, <1>2 DEF Patch

\* A call that is answered "ok" and ran alone leaves its rows in the current copy.
LEMMA VerifyInv ==
  ASSUME CopyInv, NEW a \in Applies, Verify(a)
  PROVE  CopyInv'
<1> DEFINE p == call[a].target
<1>0. /\ UNCHANGED <<original, files, path, overlapped, damaged>> /\ call[a].pc = "patched"
      /\ p \in Paths /\ p # NoPath
  BY CopyAssumption DEF Verify, CopyInv, CopyTyped, CopyTypeOK, CallShape, Calls, Names,
     Holding, Running
<1>1. CASE UNCHANGED kept /\ Become(a, [call[a] EXCEPT !.pc = "restoring"])
  BY <1>0, <1>1, GoesToRestoreInv
<1>2. CASE UNCHANGED kept /\ Become(a, At("failed"))
  BY <1>0, <1>2, EndsInv DEF Running, history
<1>3. CASE /\ a \in files[p].holds
           /\ Become(a, At("ok"))
           /\ kept' = IF a \in overlapped THEN kept ELSE kept \cup {a}
  <2>1. /\ At("ok").pc = "ok" /\ At("ok").prior = NoPath
        /\ At("ok").source = NoPath /\ At("ok").target = NoPath
        /\ At("ok").backup = Absent /\ At("ok") \in Calls
    BY AtIsTyped
  <2>2. /\ call' \in [Applies -> Calls]
        /\ \A b \in Applies : call'[b] = IF b = a THEN At("ok") ELSE call[b]
    BY <1>3, <2>1, OneCallMoves DEF CopyInv
  <2>3. Whole(files[p]) /\ kept \subseteq files[p].holds /\ CoversAt(p)
    BY <1>0, <1>3 DEF CopyInv, CopyTyped, KeptIsCovered, CoversAt, Covers, Holding
  <2>4. a \notin overlapped =>
            /\ path = p
            /\ \A b \in Applies \ {a} : /\ call[b].pc \notin Running
                                         /\ call[b].target = NoPath
    BY <1>0 DEF CopyInv, CopyTyped, CallShape, AloneIsAlone, Running, Holding
  <2>5. CopyTyped'
    BY <1>0, <1>3, <2>1, <2>2
       DEF CopyInv, CopyTyped, CopyTypeOK, CallShape, Running, Holding, BackedUp
  <2>6. AloneIsAlone'
    BY <1>0, <2>1, <2>2 DEF CopyInv, AloneIsAlone, Running
  <2>7. KeptIsCovered'
    <3>1. CASE a \in overlapped
      BY <1>0, <1>3, <2>1, <2>2, <3>1
         DEF CopyInv, KeptIsCovered, CoversAt, Covers, Holding, BackedUp
    <3>2. CASE a \notin overlapped
      <4>1. CoversAt(path)'
        BY <1>0, <1>3, <2>3, <2>4, <3>2, FilesAreTyped DEF CoversAt, Covers
      <4>2. \A b \in Applies : call'[b].pc \notin Running
        BY <2>1, <2>2, <2>4, <3>2 DEF Running
      <4> QED
        BY <4>1, <4>2 DEF KeptIsCovered, Running, Holding, BackedUp
    <3> QED
      BY <3>1, <3>2
  <2>8. KeptIsSafe'
    <3>1. CASE a \in overlapped
      BY <1>0, <1>3, <2>1, <2>2, <3>1, CopyAssumption DEF CopyInv, KeptIsSafe
    <3>2. CASE a \notin overlapped
      <4>1. \A b \in Applies : call'[b].target # p
        BY <1>0, <2>1, <2>2, <2>4, <3>2
      <4>2. kept' \subseteq files'[p].holds /\ Whole(files'[p])
        BY <1>0, <1>3, <2>3, <3>2
      <4>3. \E q \in Paths : /\ Whole(files'[q]) /\ kept' \subseteq files'[q].holds
                             /\ \A b \in Applies : call'[b].target # q
        BY <1>0, <4>1, <4>2
      <4> QED
        BY <4>3 DEF KeptIsSafe
    <3> QED
      BY <3>1, <3>2
  <2>9. TornIsDead'
    BY <1>0, <2>1, <2>2, CopyAssumption DEF CopyInv, TornIsDead
  <2>10. HoldersAreKnown'
    BY <1>0, <2>1, <2>2, FilesAreTyped DEF CopyInv, HoldersAreKnown, Running
  <2> QED
    BY <2>5, <2>6, <2>7, <2>8, <2>9, <2>10 DEF CopyInv
<1> QED
  BY <1>0, <1>1, <1>2, <1>3 DEF Verify

\* The backup takes the place of the file, or the file is torn.
LEMMA RestoreInv ==
  ASSUME CopyInv, NEW a \in Applies, Restore(a)
  PROVE  CopyInv'
<1> DEFINE p == call[a].target
<1>0. /\ UNCHANGED <<original, path, overlapped, kept>> /\ call[a].pc = "restoring"
      /\ p \in Paths /\ Whole(call[a].backup) /\ call[a].backup \in Contents
      /\ kept \subseteq call[a].backup.holds
  BY LabelIsTyped DEF Restore, CopyInv, KeptIsCovered, BackedUp
<1>1. CASE UNCHANGED <<files, damaged>> /\ Become(a, At("failed"))
  BY <1>0, <1>1, EndsInv DEF Running, history
<1>2. ASSUME NEW f \in {call[a].backup, Torn}, NEW l \in {"restored", "failed"},
             l = "restored" => f = call[a].backup,
             files' = [files EXCEPT ![p] = f],
             Become(a, At(l)),
             damaged' \in BOOLEAN,
             damaged => damaged',
             f = Torn => damaged'
      PROVE  CopyInv'
  <2>1. /\ At(l).pc = l /\ At(l).prior = NoPath
        /\ At(l).source = NoPath /\ At(l).target = NoPath
        /\ At(l).backup = Absent /\ At(l) \in Calls
    BY AtIsTyped
  <2>2. /\ call' \in [Applies -> Calls]
        /\ \A b \in Applies : call'[b] = IF b = a THEN At(l) ELSE call[b]
    BY <1>2, <2>1, OneCallMoves DEF CopyInv
  <2>3. /\ f \in Contents /\ f # Absent
        /\ (~Whole(f) => f.holds = {})
        /\ (Whole(f) => kept \subseteq f.holds)
    BY <1>0, FilesAreTyped
  <2>4. /\ files' \in [Paths -> Contents]
        /\ \A q \in Paths : files'[q] = IF q = p THEN f ELSE files[q]
    BY <1>0, <1>2, <2>3, OneFileMoves DEF CopyInv
  <2>5. CopyTyped'
    BY <1>0, <1>2, <2>1, <2>2, <2>3, <2>4, CopyAssumption
       DEF CopyInv, CopyTyped, CopyTypeOK, CallShape, Running, Holding, BackedUp
  <2>6. AloneIsAlone'
    BY <1>0, <2>1, <2>2 DEF CopyInv, AloneIsAlone, Running
  <2>7. KeptIsCovered'
    <3>1. \A n \in Names : CoversAt(n) => CoversAt(n)'
      BY <1>0, <2>3, <2>4 DEF CoversAt, Covers, Names
    <3>2. /\ path \in Names
          /\ \A b \in Applies : {call[b].prior, call[b].source, call[b].target} \subseteq Names
      BY DEF CopyInv, CopyTyped, CopyTypeOK, Calls
    <3> QED
      BY <1>0, <2>1, <2>2, <3>1, <3>2 DEF CopyInv, KeptIsCovered, Holding, BackedUp
  <2>8. KeptIsSafe'
    BY <1>0, <2>1, <2>2, <2>4, CopyAssumption DEF CopyInv, KeptIsSafe
  <2>9. TornIsDead'
    BY <1>0, <1>2, <2>1, <2>2, <2>4, CopyAssumption DEF CopyInv, TornIsDead
  <2>10. HoldersAreKnown'
    <3>1. \A b, c \in Applies : c \in call'[b].backup.holds => c \in call[b].backup.holds
      BY <2>1, <2>2, FilesAreTyped
    <3>2. \A c \in Applies, q \in Paths : c \in files'[q].holds =>
              \/ q # p /\ c \in files[q].holds
              \/ c \in call[a].backup.holds
      BY <2>4, FilesAreTyped
    <3>3. \A b \in Applies \ {a} : /\ call'[b] = call[b]
                                   /\ call[b].pc \in {"patched", "restoring"} => b \in overlapped
      BY <1>0, <2>2 DEF CopyInv, AloneIsAlone, Running
    <3>4. call'[a].pc = l
      BY <2>1, <2>2
    <3>5. a \notin overlapped => /\ \A q \in Paths : a \notin files'[q].holds
                                /\ \A b \in Applies : a \notin call'[b].backup.holds
      BY <1>0, <3>1, <3>2 DEF CopyInv, HoldersAreKnown
    <3> QED
      BY <1>0, <3>1, <3>2, <3>3, <3>4, <3>5 DEF CopyInv, HoldersAreKnown, Running
  <2> QED
    BY <2>5, <2>6, <2>7, <2>8, <2>9, <2>10 DEF CopyInv
<1>3. damaged \in BOOLEAN
  BY DEF CopyInv, CopyTyped, CopyTypeOK
<1>4. call[a].backup # Torn
  BY <1>0, FilesAreTyped
<1>5. CASE /\ files' = [files EXCEPT ![p] = call[a].backup]
           /\ Become(a, At("restored"))
           /\ UNCHANGED damaged
  BY <1>2, <1>3, <1>4, <1>5
<1>6. CASE /\ files' = [files EXCEPT ![p] = Torn]
           /\ damaged' = TRUE
           /\ Become(a, At("failed"))
  BY <1>2, <1>3, <1>6
<1> QED
  BY <1>1, <1>5, <1>6 DEF Restore

\* Nobody is under way after a crash, and what it tore was being written.
LEMMA CrashInv ==
  ASSUME CopyInv, Crash
  PROVE  CopyInv'
<1> DEFINE half(label) == {call[a].target : a \in {b \in Applies : call[b].pc = label}}
<1>0. UNCHANGED <<original, path, overlapped, kept>>
  BY DEF Crash
<1>1. PICK torn \in SUBSET (half("copying") \cup half("restoring")) :
          /\ files' = [p \in Paths |-> IF p \in torn THEN Torn ELSE files[p]]
          /\ damaged' = \/ damaged
                         \/ torn \cap half("restoring") # {}
                         \/ \E p \in torn : Shared(p)
  BY DEF Crash
<1>2. \A a \in Applies : call'[a] = IF call[a].pc \in Running THEN At("failed") ELSE call[a]
  BY DEF Crash, InFlight
<1>3. /\ At("failed").pc = "failed" /\ At("failed").prior = NoPath
      /\ At("failed").source = NoPath /\ At("failed").target = NoPath
      /\ At("failed").backup = Absent /\ At("failed") \in Calls
  BY AtIsTyped
<1>4. /\ \A a \in Applies : /\ call'[a].pc \notin Running /\ call'[a] = At(call'[a].pc)
                            /\ call'[a].prior = NoPath /\ call'[a].source = NoPath
                            /\ call'[a].target = NoPath /\ call'[a].backup = Absent
                            /\ call'[a].pc \in {"new", "restored"} => call[a].pc = call'[a].pc
      /\ call' \in [Applies -> Calls]
  <2>1. \A a \in Applies : call[a].pc \notin Running =>
            /\ call[a].prior = NoPath /\ call[a].source = NoPath
            /\ call[a].target = NoPath /\ call[a].backup = Absent
    BY DEF CopyInv, CopyTyped, CallShape, Running, Holding, BackedUp
  <2>2. \A a \in Applies : call[a] \in Calls /\ CallShape(a)
    BY DEF CopyInv, CopyTyped, CopyTypeOK
  <2>3. call' \in [Applies -> Calls]
    BY <1>3, <2>2 DEF Crash
  <2> QED
    BY <1>2, <1>3, <2>1, <2>2, <2>3 DEF CallShape, Running
<1>5. /\ files' \in [Paths -> Contents]
      /\ \A p \in Paths : files'[p] = IF p \in torn THEN Torn ELSE files[p]
      /\ \A p \in Paths : files'[p] \in {files[p], Torn}
  BY <1>1, FilesAreTyped DEF CopyInv, CopyTyped, CopyTypeOK
<1>6. CopyTyped'
  <2>1. damaged' \in BOOLEAN
    BY <1>1 DEF CopyInv, CopyTyped, CopyTypeOK
  <2>2. \A p \in Paths : ~Whole(files'[p]) => files'[p].holds = {}
    BY <1>5, FilesAreTyped DEF CopyInv, CopyTyped
  <2>3. \A a \in Applies : CallShape(a)'
    BY <1>4 DEF CallShape, Running, Holding, BackedUp
  <2> QED
    BY <1>0, <1>4, <1>5, <2>1, <2>2, <2>3 DEF CopyInv, CopyTyped, CopyTypeOK
<1>7. AloneIsAlone'
  BY <1>4 DEF AloneIsAlone, Running
<1>8. KeptIsCovered'
  <2>1. \A n \in Names : CoversAt(n) => CoversAt(n)'
    BY <1>0, <1>5, FilesAreTyped DEF CoversAt, Covers, Names
  <2>2. path \in Names
    BY DEF CopyInv, CopyTyped, CopyTypeOK
  <2> QED
    BY <1>0, <1>4, <2>1, <2>2 DEF CopyInv, KeptIsCovered, Running, Holding, BackedUp
<1>9. KeptIsSafe'
  <2> SUFFICES ASSUME kept' # {}
               PROVE  \E p \in Paths : /\ Whole(files'[p]) /\ kept' \subseteq files'[p].holds
                                      /\ \A a \in Applies : call'[a].target # p
    BY DEF KeptIsSafe
  <2>1. PICK p \in Paths : /\ Whole(files[p]) /\ kept \subseteq files[p].holds
                          /\ \A a \in Applies : call[a].target # p
    BY <1>0 DEF CopyInv, KeptIsSafe
  <2>2. p \notin torn
    BY <1>1, <2>1
  <2> QED
    BY <1>0, <1>4, <1>5, <2>1, <2>2, CopyAssumption
<1>10. TornIsDead'
  <2> SUFFICES ASSUME ~damaged', NEW p \in Paths, files'[p] = Torn
               PROVE  p # path
    BY <1>0, <1>4, CopyAssumption DEF TornIsDead
  <2>1. CASE p \in torn
    BY <1>1, <2>1 DEF Shared
  <2>2. CASE p \notin torn
    BY <1>1, <1>5, <2>2 DEF CopyInv, TornIsDead
  <2> QED
    BY <2>1, <2>2
<1>11. HoldersAreKnown'
  <2>1. \A p \in Paths : files'[p].holds \subseteq files[p].holds
    BY <1>5, FilesAreTyped
  <2> QED
    BY <1>0, <1>4, <2>1, FilesAreTyped DEF CopyInv, HoldersAreKnown, Running
<1> QED
  BY <1>6, <1>7, <1>8, <1>9, <1>10, <1>11 DEF CopyInv

\* The user deletes a copy: nothing is missed any more.
LEMMA DeleteCopyInv ==
  ASSUME CopyInv, NEW p \in Paths, DeleteCopy(p)
  PROVE  CopyInv'
<1>0. UNCHANGED <<original, path, call, overlapped, damaged>> /\ kept' = {}
  BY DEF DeleteCopy
<1>1. /\ files' \in [Paths -> Contents]
      /\ \A q \in Paths : files'[q] = IF q = p THEN Absent ELSE files[q]
  BY FilesAreTyped, OneFileMoves DEF DeleteCopy, CopyInv
<1>2. CopyTyped'
  BY <1>0, <1>1, FilesAreTyped DEF CopyInv, CopyTyped, CopyTypeOK, CallShape
<1>3. AloneIsAlone'
  BY <1>0 DEF CopyInv, AloneIsAlone
<1>4. KeptIsCovered' /\ KeptIsSafe'
  BY <1>0 DEF KeptIsCovered, CoversAt, Covers, KeptIsSafe
<1>5. TornIsDead'
  BY <1>0, <1>1, FilesAreTyped DEF CopyInv, TornIsDead
<1>6. HoldersAreKnown'
  BY <1>0, <1>1, FilesAreTyped DEF CopyInv, HoldersAreKnown
<1> QED
  BY <1>2, <1>3, <1>4, <1>5, <1>6 DEF CopyInv

LEMMA CopyNextInv == CopyInv /\ [CopyNext]_copyVars => CopyInv'
<1> SUFFICES ASSUME CopyInv, [CopyNext]_copyVars PROVE CopyInv'
  OBVIOUS
<1>1. CASE UNCHANGED copyVars \/ MoveOriginal
  <2>1. /\ UNCHANGED <<files, path, call, overlapped, damaged, kept>>
        /\ original' \in BOOLEAN
    BY <1>1 DEF copyVars, MoveOriginal, history, CopyInv, CopyTyped, CopyTypeOK
  <2> QED
    BY <2>1 DEF CopyInv, CopyTyped, CopyTypeOK, CallShape, AloneIsAlone, KeptIsCovered,
       CoversAt, Covers, KeptIsSafe, TornIsDead, HoldersAreKnown
<1>2. ASSUME NEW a \in Applies, Step(a) PROVE CopyInv'
  BY <1>2, BeginInv, DeriveInv, CopyForwardInv, StoreNameInv, SaveInv, PatchInv, VerifyInv,
     RestoreInv DEF Step
<1>3. CASE Crash
  BY <1>3, CrashInv
<1>4. CASE \E p \in Paths : DeleteCopy(p)
  BY <1>4, DeleteCopyInv
<1> QED
  BY <1>1, <1>2, <1>3, <1>4 DEF CopyNext

(* However many applies run, one after another or side by side, and        *)
(* wherever one fails or the process stops: the copy that the row names     *)
(* holds every apply that was answered "ok" and ran alone, or an older copy *)
(* does; it is torn only by a restore or two copies to one name; and a      *)
(* lone apply that was rolled back is in no copy                            *)
(* (excel/working_copy.py, excel/ccis_writer.py:335-446).                   *)
THEOREM CopiesAreSafe == CopySpec => []CopySafe
  BY InitCopyInv, CopyNextInv, CopyInvIsSafe, PTL DEF CopySpec

-----------------------------------------------------------------------------
(* The pages behind their hooks *)

Clicked == [at : {"idle", "sent", "committed", "done", "lost"}, request : 1..2, version : Changes]

ShownType == [shows : Changes \cup {Nothing}, stale : BOOLEAN, aged : BOOLEAN]

FetchType == [at : {"none", "asked", "read"}, version : Changes \cup {Nothing}, tries : 0..1]

\* The requests that may have been committed.
Spent == {p \in Clicks \X (1..2) :
             \/ p[2] < clicks[p[1]].request
             \/ p[2] = clicks[p[1]].request /\ clicks[p[1]].at \in {"committed", "done", "lost"}}

\* Nobody has seen more changes than the sidecar has committed.
VersionsFit ==
    /\ server <= Cardinality(Spent)
    /\ due <= server
    /\ fetch.version <= server /\ entry.shows <= server
    /\ \A c \in Clicks : clicks[c].version <= server

\* The hook is one of the pages', and a click is at one of its requests.
HookFits ==
    /\ query \in Watched /\ hook \in DOMAIN Hooks
    /\ \A c \in Clicks : clicks[c].request <= Len(Hooks[hook])
    /\ due > 0 => \E i \in 1..Len(Hooks[hook]) : NamesQuery(Hooks[hook][i], query)

\* What a fetch has read holds whatever named the query, unless an answer was missed.
ReadsFit == fetch.at = "read" /\ ~missed => fetch.version >= due

\* An old answer is known to be old or being fetched again.
OldIsStale ==
    entry.shows # Nothing /\ entry.shows < due /\ ~failed /\ ~missed =>
        entry.stale \/ fetch.at # "none"

\* What makes UiSafe inductive.
UiInv == UiTypeOK /\ VersionsFit /\ HookFits /\ ReadsFit /\ OldIsStale /\ NamedIsRefetched

LEMMA ChangesAreNumbers ==
  /\ Cardinality(Clicks) \in Nat /\ MaxChanges \in Nat
  /\ Changes \subseteq Nat /\ \A n \in Nat : n <= MaxChanges => n \in Changes
<1>1. Cardinality(Clicks) \in Nat
  BY UiAssumption, FS_CardinalityType
<1> QED
  BY <1>1 DEF MaxChanges, Changes

\* No more requests are committed than the clicks may send.
LEMMA SpentIsBounded ==
  /\ IsFiniteSet(Clicks \X (1..2))
  /\ Cardinality(Clicks \X (1..2)) = MaxChanges
<1>1. IsFiniteSet(1..2) /\ Cardinality(1..2) = 2
  <2>1. 1..2 = {1} \cup {2} /\ 2 \notin {1}
    OBVIOUS
  <2>2. IsFiniteSet({1}) /\ Cardinality({1}) = 1
    BY FS_Singleton
  <2> QED
    BY <2>1, <2>2, FS_AddElement
<1> QED
  BY <1>1, UiAssumption, FS_Product, FS_CardinalityType DEF MaxChanges

LEMMA InitUiInv == UiInit => UiInv
<1> SUFFICES ASSUME UiInit PROVE UiInv
  OBVIOUS
<1>1. 0 \in Changes
  BY ChangesAreNumbers
<1>2. UiTypeOK
  <2>1. entry \in ShownType /\ fetch \in FetchType
    BY DEF UiInit, ShownType, FetchType, Empty, NoFetch
  <2>2. clicks \in [Clicks -> Clicked]
    BY <1>1 DEF UiInit, Clicked
  <2> QED
    BY <1>1, <2>1, <2>2 DEF UiInit, UiTypeOK, ShownType, FetchType, Clicked
<1>3. Cardinality(Spent) \in Nat
  BY SpentIsBounded, FS_Subset, FS_CardinalityType DEF Spent
<1>4. VersionsFit
  BY <1>3 DEF UiInit, VersionsFit, Empty, NoFetch, Nothing
<1>5. HookFits
  BY UiAssumption DEF UiInit, HookFits
<1> QED
  BY <1>2, <1>4, <1>5 DEF UiInit, UiInv, ReadsFit, OldIsStale, NamedIsRefetched, Behind, Empty,
     NoFetch

LEMMA UiInvTypes ==
  ASSUME UiInv
  PROVE  /\ server \in Nat /\ due \in Nat /\ fetch \in FetchType /\ entry \in ShownType
         /\ clicks \in [Clicks -> Clicked] /\ failed \in BOOLEAN /\ missed \in BOOLEAN
         /\ mounted \in BOOLEAN /\ Nothing \notin Nat /\ Nothing <= server
  BY ChangesAreNumbers DEF UiInv, UiTypeOK, FetchType, ShownType, Clicked, Nothing

\* A step of the page or of a fetch: the clicks and the sidecar stay.
LEMMA PageStepInv ==
  ASSUME UiInv, UNCHANGED <<query, hook, server, clicks, due>>,
         entry' \in ShownType, fetch' \in FetchType, mounted' \in BOOLEAN,
         failed' \in BOOLEAN, missed' \in BOOLEAN,
         fetch'.version <= server, entry'.shows <= server,
         ReadsFit', OldIsStale', NamedIsRefetched'
  PROVE  UiInv'
<1>1. UiTypeOK'
  BY DEF UiInv, UiTypeOK, ShownType, FetchType
<1>2. Spent' = Spent
  BY DEF Spent
<1>3. VersionsFit' /\ HookFits'
  BY <1>2 DEF UiInv, VersionsFit, HookFits
<1> QED
  BY <1>1, <1>3 DEF UiInv

LEMMA VersionsAreNumbers ==
  ASSUME UiInv
  PROVE  fetch.version \in Int /\ entry.shows \in Int
<1>1. Changes \cup {Nothing} \subseteq Int
  BY ChangesAreNumbers DEF Nothing
<1>2. fetch.version \in Changes \cup {Nothing} /\ entry.shows \in Changes \cup {Nothing}
  BY UiInvTypes DEF FetchType, ShownType
<1> QED
  BY <1>1, <1>2

LEMMA AskedFits == Asked \in FetchType /\ NoFetch \in FetchType /\ Empty \in ShownType
  BY DEF Asked, NoFetch, Empty, FetchType, ShownType

LEMMA MountInv == UiInv /\ (Mount \/ Unmount \/ Render \/ FetchAgain) => UiInv'
<1> SUFFICES ASSUME UiInv, Mount \/ Unmount \/ Render \/ FetchAgain PROVE UiInv'
  OBVIOUS
<1>0. /\ mounted' \in BOOLEAN /\ (fetch' = fetch \/ (fetch.at = "none" /\ fetch' = Asked))
      /\ UNCHANGED <<query, hook, server, clicks, due, entry, failed, missed>>
  <2>1. CASE Mount
    BY <2>1 DEF Mount, focus
  <2>2. CASE Unmount
    BY <2>2 DEF Unmount, focus
  <2>3. CASE Render \/ FetchAgain
    BY <2>3, UiInvTypes DEF Render, FetchAgain, focus
  <2> QED
    BY <2>1, <2>2, <2>3
<1>1. fetch' \in FetchType /\ fetch'.version <= server /\ entry.shows <= server
  BY <1>0, AskedFits, UiInvTypes DEF UiInv, VersionsFit, Asked
<1>2. ReadsFit' /\ OldIsStale'
  BY <1>0 DEF UiInv, ReadsFit, OldIsStale, Asked
<1>3. NamedIsRefetched'
  <2>1. CASE fetch' = Asked
    BY <2>1 DEF NamedIsRefetched, Asked
  <2>2. CASE fetch' = fetch /\ (Unmount \/ Render \/ FetchAgain)
    BY <1>0, <2>2 DEF UiInv, NamedIsRefetched, Behind, Unmount, Render, FetchAgain
  <2>3. CASE fetch' = fetch /\ Mount
    BY <1>0, <2>3 DEF UiInv, NamedIsRefetched, Behind, OldIsStale, Mount, Asked
  <2> QED
    BY <1>0, <2>1, <2>2, <2>3
<1> QED
  BY <1>0, <1>1, <1>2, <1>3, UiInvTypes, PageStepInv

LEMMA AgeInv == UiInv /\ (Age \/ Collect) => UiInv'
<1> SUFFICES ASSUME UiInv, Age \/ Collect PROVE UiInv'
  OBVIOUS
<1>1. CASE Age
  <2>1. /\ entry' \in ShownType /\ entry'.shows = entry.shows /\ entry'.stale = entry.stale
        /\ UNCHANGED <<query, hook, server, clicks, due, mounted, fetch, failed, missed>>
    BY <1>1, UiInvTypes DEF Age, focus, ShownType
  <2>2. ReadsFit' /\ OldIsStale' /\ NamedIsRefetched'
    BY <2>1 DEF UiInv, ReadsFit, OldIsStale, NamedIsRefetched, Behind
  <2> QED
    BY <2>1, <2>2, UiInvTypes, PageStepInv DEF UiInv, VersionsFit
<1>2. CASE Collect
  <2>1. /\ entry' = Empty /\ failed' = FALSE
        /\ UNCHANGED <<query, hook, server, clicks, due, mounted, fetch, missed>>
    BY <1>2 DEF Collect, focus
  <2>2. ReadsFit' /\ OldIsStale' /\ NamedIsRefetched'
    BY <2>1 DEF UiInv, ReadsFit, OldIsStale, NamedIsRefetched, Behind, Empty
  <2> QED
    BY <2>1, <2>2, UiInvTypes, AskedFits, PageStepInv DEF UiInv, VersionsFit, Empty
<1> QED
  BY <1>1, <1>2

LEMMA ReadInv == UiInv /\ Read => UiInv'
<1> SUFFICES ASSUME UiInv, Read PROVE UiInv'
  OBVIOUS
<1>1. /\ fetch' \in FetchType /\ fetch'.version = server /\ fetch'.at = "read"
      /\ UNCHANGED <<query, hook, server, clicks, due, mounted, entry, failed, missed>>
  BY UiInvTypes DEF Read, focus, FetchType, UiInv, UiTypeOK
<1>2. ReadsFit' /\ OldIsStale' /\ NamedIsRefetched'
  BY <1>1, UiInvTypes DEF UiInv, ReadsFit, OldIsStale, NamedIsRefetched, VersionsFit
<1> QED
  BY <1>1, <1>2, UiInvTypes, PageStepInv DEF UiInv, VersionsFit

LEMMA ArriveInv == UiInv /\ Arrive => UiInv'
<1> SUFFICES ASSUME UiInv, Arrive PROVE UiInv'
  OBVIOUS
<1>1. /\ entry' \in ShownType /\ entry'.shows = fetch.version /\ fetch' = NoFetch
      /\ failed' = FALSE /\ missed' = (missed /\ fetch.version < due) /\ fetch.at = "read"
      /\ UNCHANGED <<query, hook, server, clicks, due, mounted>>
  BY UiInvTypes DEF Arrive, focus, ShownType, FetchType
<1>2. fetch.version \in Int /\ due \in Int
  BY UiInvTypes, VersionsAreNumbers
<1>3. ~missed' => ~(entry'.shows < due)
  <2>1. ~missed => fetch.version >= due
    BY <1>1 DEF UiInv, ReadsFit
  <2>2. fetch.version >= due => ~(fetch.version < due)
    BY <1>2
  <2>3. missed' <=> missed /\ fetch.version < due
    BY <1>1
  <2>4. ~missed' => ~(fetch.version < due)
    BY <2>1, <2>2, <2>3, Zenon
  <2> QED
    BY <2>4, <1>1
<1>4. ReadsFit' /\ OldIsStale' /\ NamedIsRefetched'
  BY <1>1, <1>3 DEF ReadsFit, OldIsStale, NamedIsRefetched, Behind, NoFetch
<1> QED
  BY <1>1, <1>4, UiInvTypes, AskedFits, PageStepInv DEF UiInv, VersionsFit, NoFetch

LEMMA BreakInv == UiInv /\ Break => UiInv'
<1> SUFFICES ASSUME UiInv, Break PROVE UiInv'
  OBVIOUS
<1>1. UNCHANGED <<query, hook, server, clicks, due, mounted, entry, missed>>
  BY DEF Break, focus
<1>2. CASE fetch.tries < Retries
  <2>1. /\ fetch' \in FetchType /\ fetch'.at = "asked" /\ fetch'.version = Nothing
        /\ failed' = failed /\ fetch.at # "none"
    BY <1>2, UiInvTypes, AskedFits DEF Break, FetchType, Asked, Retries
  <2>2. ReadsFit' /\ OldIsStale' /\ NamedIsRefetched'
    BY <1>1, <2>1 DEF UiInv, ReadsFit, OldIsStale, NamedIsRefetched, Behind
  <2> QED
    BY <1>1, <2>1, <2>2, UiInvTypes, PageStepInv DEF UiInv, VersionsFit
<1>3. CASE ~(fetch.tries < Retries)
  <2>1. fetch' = NoFetch /\ failed' = TRUE
    BY <1>3 DEF Break
  <2>2. ReadsFit' /\ OldIsStale' /\ NamedIsRefetched'
    BY <1>1, <2>1 DEF ReadsFit, OldIsStale, NamedIsRefetched, Behind, NoFetch
  <2> QED
    BY <1>1, <2>1, <2>2, UiInvTypes, AskedFits, PageStepInv DEF UiInv, VersionsFit, NoFetch
<1> QED
  BY <1>2, <1>3

\* A step of one click that leaves the page alone.
LEMMA ClickStepInv ==
  ASSUME UiInv, NEW c \in Clicks, NEW r \in Clicked,
         clicks' = [clicks EXCEPT ![c] = r], r.request = clicks[c].request,
         clicks[c].at \in {"committed", "done", "lost"} => r.at \in {"committed", "done", "lost"},
         UNCHANGED <<query, hook, server, due, entry, mounted, fetch, failed, missed>>,
         r.version = clicks[c].version
  PROVE  UiInv'
<1>0. /\ clicks' \in [Clicks -> Clicked] /\ clicks'[c] = r
      /\ \A d \in Clicks : d # c => clicks'[d] = clicks[d]
  BY UiInvTypes
<1>1. UiTypeOK'
  BY <1>0 DEF UiInv, UiTypeOK, Clicked
<1>2. Spent \subseteq Spent'
  <2>1. \A d \in Clicks : /\ clicks'[d].request = clicks[d].request
                          /\ clicks[d].at \in {"committed", "done", "lost"} =>
                                clicks'[d].at \in {"committed", "done", "lost"}
    BY <1>0
  <2> QED
    BY <2>1 DEF Spent
<1>3. Cardinality(Spent) <= Cardinality(Spent') /\ Cardinality(Spent) \in Nat
      /\ Cardinality(Spent') \in Nat
  BY <1>2, SpentIsBounded, FS_Subset, FS_CardinalityType DEF Spent
<1>4. VersionsFit' /\ HookFits'
  <2>1. \A d \in Clicks : clicks'[d].version <= server /\ clicks'[d].request <= Len(Hooks[hook])
    BY <1>0 DEF UiInv, VersionsFit, HookFits
  <2> QED
    BY <1>3, <2>1, UiInvTypes DEF UiInv, VersionsFit, HookFits
<1>5. ReadsFit' /\ OldIsStale' /\ NamedIsRefetched'
  BY DEF UiInv, ReadsFit, OldIsStale, NamedIsRefetched, Behind
<1> QED
  BY <1>1, <1>4, <1>5 DEF UiInv

LEMMA ClickInv ==
  ASSUME UiInv, NEW c \in Clicks, Click(c) \/ Lose(c)
  PROVE  UiInv'
<1>1. PICK at \in {"sent", "lost"} :
        /\ clicks' = [clicks EXCEPT ![c].at = at]
        /\ clicks[c].at \in {"committed", "done", "lost"} => at = "lost"
  BY DEF Click, Lose, Underway
<1> DEFINE r == [clicks[c] EXCEPT !.at = at]
<1>2. /\ r \in Clicked /\ r.request = clicks[c].request /\ r.version = clicks[c].version
      /\ r.at = at
  BY UiInvTypes DEF Clicked
<1>3. clicks' = [clicks EXCEPT ![c] = r]
  BY <1>1, UiInvTypes
<1> HIDE DEF r
<1> QED
  BY <1>1, <1>2, <1>3, ClickStepInv DEF Click, Lose, focus

LEMMA CommitInv ==
  ASSUME UiInv, NEW c \in Clicks, Commit(c)
  PROVE  UiInv'
<1> DEFINE r == [clicks[c] EXCEPT !.at = "committed", !.version = server + 1]
           p == <<c, clicks[c].request>>
<1>0. /\ clicks[c] \in Clicked /\ clicks[c].at = "sent" /\ server' = server + 1
      /\ clicks' = [clicks EXCEPT ![c] = r]
      /\ UNCHANGED <<query, hook, due, entry, mounted, fetch, failed, missed>>
  BY UiInvTypes DEF Commit, focus
<1>1. p \in (Clicks \X (1..2)) \ Spent
  BY <1>0 DEF Spent, Clicked
<1>2. r.request = clicks[c].request /\ r.at = "committed" /\ r.version = server + 1
  BY <1>0 DEF Clicked
<1>3. /\ clicks'[c] = r
      /\ \A d \in Clicks : d # c => clicks'[d] = clicks[d]
  BY <1>0, UiInvTypes
<1>4. Spent \cup {p} \subseteq Spent'
  <2>1. Spent \subseteq Spent'
    <3>1. \A d \in Clicks : /\ clicks'[d].request = clicks[d].request
                            /\ clicks[d].at \in {"committed", "done", "lost"} =>
                                  clicks'[d].at \in {"committed", "done", "lost"}
      BY <1>2, <1>3
    <3> QED
      BY <3>1 DEF Spent
  <2>2. p \in Spent'
    BY <1>1, <1>2, <1>3 DEF Spent
  <2> QED
    BY <2>1, <2>2
<1> HIDE DEF r, p
<1>5. /\ Cardinality(Spent \cup {p}) = Cardinality(Spent) + 1
      /\ Cardinality(Spent \cup {p}) <= Cardinality(Spent')
      /\ Cardinality(Spent') <= MaxChanges
      /\ Cardinality(Spent) \in Nat /\ Cardinality(Spent') \in Nat
  <2>1. Spent \subseteq Clicks \X (1..2) /\ Spent' \subseteq Clicks \X (1..2)
    BY DEF Spent
  <2>2. IsFiniteSet(Spent) /\ IsFiniteSet(Spent')
    BY <2>1, SpentIsBounded, FS_Subset
  <2> QED
    BY <1>1, <1>4, <2>1, <2>2, SpentIsBounded, FS_Subset, FS_AddElement, FS_CardinalityType
<1>6. server + 1 <= Cardinality(Spent') /\ server + 1 \in Changes /\ server \in Nat
  BY <1>5, UiInvTypes, ChangesAreNumbers DEF UiInv, VersionsFit
<1>7. r \in Clicked
  BY <1>0, <1>6 DEF r, Clicked
<1>8. clicks' \in [Clicks -> Clicked]
  BY <1>0, <1>7, UiInvTypes
<1>9. UiTypeOK'
  BY <1>0, <1>6, <1>8 DEF UiInv, UiTypeOK, Clicked
<1>10. VersionsFit' /\ HookFits'
  <2>1. \A d \in Clicks : clicks'[d].version <= server + 1
    <3>1. \A d \in Clicks : clicks[d].version \in Nat /\ clicks[d].version <= server
      BY UiInvTypes, ChangesAreNumbers DEF UiInv, VersionsFit, Clicked
    <3>2. \A d \in Clicks : clicks[d].version <= server + 1
      BY <3>1, <1>6
    <3> QED
      BY <3>2, <1>2, <1>3, <1>6
  <2>2. \A d \in Clicks : clicks'[d].request <= Len(Hooks[hook])
    BY <1>2, <1>3 DEF UiInv, HookFits
  <2>3. fetch.version \in Int /\ entry.shows \in Int
    BY VersionsAreNumbers
  <2>4. fetch.version <= server + 1 /\ entry.shows <= server + 1 /\ due <= server + 1
    BY <2>3, <1>6, UiInvTypes DEF UiInv, VersionsFit
  <2> QED
    BY <1>0, <1>6, <2>1, <2>2, <2>4 DEF UiInv, VersionsFit, HookFits
<1>11. ReadsFit' /\ OldIsStale' /\ NamedIsRefetched'
  BY <1>0 DEF UiInv, ReadsFit, OldIsStale, NamedIsRefetched, Behind
<1> QED
  BY <1>9, <1>10, <1>11 DEF UiInv

\* What the answer to a click's request does to the page is one of the hook's effects.
LEMMA EffectFits ==
  ASSUME UiInv, NEW c \in Clicks
  PROVE  /\ clicks[c] \in Clicked
         /\ clicks[c].request \in 1..Len(Hooks[hook])
         /\ clicks[c].version <= server /\ clicks[c].version \in Changes
         /\ Len(Hooks[hook]) \in 1..2
         /\ Hit(Effect(c).refresh, query) => NamesQuery(Effect(c), query)
         /\ Hit(Effect(c).forget, query) => NamesQuery(Effect(c), query)
<1>1. clicks[c] \in Clicked /\ Len(Hooks[hook]) \in 1..2
  BY UiInvTypes, UiAssumption DEF UiInv, HookFits
<1>2. clicks[c].request \in 1..Len(Hooks[hook])
  BY <1>1 DEF UiInv, HookFits, Clicked
<1> QED
  BY <1>1, <1>2 DEF UiInv, VersionsFit, NamesQuery, Hit, Clicked

\* The three things an answer does to the page, each with the change it is due for.
LEMMA AnswerFits ==
  ASSUME UiInv, NEW c \in Clicks, Answer(c)
  PROVE  /\ entry' \in ShownType /\ fetch' \in FetchType /\ missed' \in BOOLEAN
         /\ fetch'.version <= server /\ entry'.shows <= server
         /\ ReadsFit' /\ OldIsStale' /\ NamedIsRefetched'
<1>0. /\ due \in Nat /\ server \in Nat /\ clicks[c].version \in Nat
      /\ clicks[c].version <= server
      /\ UNCHANGED <<query, hook, server, mounted, failed>>
      /\ entry \in ShownType /\ fetch \in FetchType
      /\ fetch.version <= server /\ entry.shows <= server
      /\ failed \in BOOLEAN /\ missed \in BOOLEAN
  BY UiInvTypes, EffectFits, ChangesAreNumbers DEF Answer, focus, UiInv, VersionsFit
<1>1. due' = due \/ NamesQuery(Effect(c), query)
  BY DEF Answer
<1>2. CASE Invalidate
  <2> DEFINE goesOn == fetch.at # "none" /\ (entry.shows = Nothing \/ ~Enabled)
  <2>1. /\ entry' = [entry EXCEPT !.stale = (entry.shows # Nothing)]
        /\ fetch' = (IF Enabled /\ ~goesOn THEN Asked ELSE fetch)
        /\ missed' = (missed \/ goesOn)
    BY <1>2 DEF Invalidate
  <2>2. /\ entry' \in ShownType /\ entry'.shows = entry.shows
        /\ (entry.shows # Nothing => entry'.stale)
    BY <2>1, <1>0 DEF ShownType
  <2>3. fetch' = Asked \/ fetch' = fetch
    BY <2>1
  <2>4. missed' \in BOOLEAN
    BY <2>1, <1>0
  <2>5. fetch' \in FetchType /\ fetch'.version <= server
    BY <2>3, <1>0, AskedFits, UiInvTypes DEF Asked
  <2>6. fetch'.at = "read" => missed' \/ ~(fetch.at # "none")
    BY <2>1 DEF Asked
  <2>7. ReadsFit'
    BY <2>3, <2>6 DEF ReadsFit, Asked
  <2>8. OldIsStale'
    BY <2>2 DEF OldIsStale
  <2>9. NamedIsRefetched'
    BY <2>1, <1>0 DEF NamedIsRefetched, Behind, Enabled, Asked
  <2> QED
    BY <2>2, <2>4, <2>5, <2>7, <2>8, <2>9, <1>0
<1>3. CASE DropQuery
  <2>1. entry' = Empty /\ fetch' = NoFetch /\ missed' = missed
    BY <1>3 DEF DropQuery
  <2>2. ReadsFit' /\ OldIsStale' /\ NamedIsRefetched'
    BY <2>1 DEF ReadsFit, OldIsStale, NamedIsRefetched, Behind, Empty, NoFetch
  <2> QED
    BY <2>1, <2>2, <1>0, AskedFits, UiInvTypes DEF Empty, NoFetch
<1>4. CASE query \in Applied(c).store /\ Overwrite(c)
  <2>1. /\ entry' \in ShownType /\ entry'.shows = clicks[c].version
        /\ fetch' = fetch /\ missed' = missed
    BY <1>4, EffectFits DEF Overwrite, ShownType
  <2>2. ~NamesQuery(Effect(c), query) /\ due = 0
    <3>1. query \in Queries /\ hook \in DOMAIN Hooks
      BY UiAssumption DEF UiInv, HookFits
    <3>2. \A i \in 1..Len(Hooks[hook]) : ~NamesQuery(Hooks[hook][i], query)
      BY <1>4, <3>1, EffectFits, UiAssumption DEF Applied, Effect
    <3>3. ~NamesQuery(Effect(c), query)
      BY <3>2, EffectFits DEF Effect
    <3> QED
      BY <3>2, <3>3, <1>0 DEF UiInv, HookFits
  <2>3. due' = 0 /\ ~(entry'.shows < due')
    BY <2>1, <2>2, <1>1, <1>0
  <2>4. ReadsFit' /\ OldIsStale' /\ NamedIsRefetched'
    BY <2>1, <2>2, <2>3 DEF UiInv, ReadsFit, OldIsStale, NamedIsRefetched, Behind
  <2> QED
    BY <2>1, <2>4, <1>0
<1>5. CASE ~Touches(Applied(c), query) /\ UNCHANGED <<entry, fetch, missed>>
  <2>1. due' = due
    BY <1>5, <1>1 DEF Touches, Applied
  <2> QED
    BY <2>1, <1>5, <1>0 DEF UiInv, ReadsFit, OldIsStale, NamedIsRefetched, Behind
<1> QED
  BY <1>2, <1>3, <1>4, <1>5 DEF Answer

\* The click goes on to the hook's next request or is done.
LEMMA AnswerInv ==
  ASSUME UiInv, NEW c \in Clicks, Answer(c)
  PROVE  UiInv'
<1> DEFINE r == After(c)
<1>0. /\ clicks[c] \in Clicked /\ clicks[c].at = "committed"
      /\ clicks' = [clicks EXCEPT ![c] = r]
      /\ UNCHANGED <<query, hook, server, mounted, failed>>
  BY EffectFits DEF Answer, focus
<1>1. /\ r.version = clicks[c].version /\ r \in Clicked
      /\ r.request <= Len(Hooks[hook])
      /\ \/ r.request = clicks[c].request + 1
         \/ r.request = clicks[c].request /\ r.at = "done"
  <2> DEFINE n == clicks[c].request
             last == Len(Hooks[hook])
  <2>0. n \in Nat /\ last \in Nat /\ n <= last /\ last <= 2
    <3>1. last \in 1..2 /\ n \in 1..last
      BY EffectFits
    <3> HIDE DEF n, last
    <3> QED
      BY <3>1
  <2>1. CASE n < Len(Hooks[hook])
    <3>1. r = [clicks[c] EXCEPT !.at = "sent", !.request = n + 1]
      BY <2>1 DEF After
    <3>2. n + 1 \in 1..2 /\ n + 1 <= Len(Hooks[hook])
      BY <2>0, <2>1
    <3> HIDE DEF n, r
    <3> QED
      BY <3>1, <3>2, <1>0 DEF Clicked, n
  <2>2. CASE ~(n < Len(Hooks[hook]))
    BY <2>2, <2>0, <1>0 DEF After, Clicked
  <2> QED
    BY <2>1, <2>2
<1> HIDE DEF r
<1>2. /\ clicks' \in [Clicks -> Clicked] /\ clicks'[c] = r
      /\ \A d \in Clicks : d # c => clicks'[d] = clicks[d]
  BY <1>0, <1>1, UiInvTypes
<1>3. Spent \subseteq Spent'
  <2>1. ASSUME NEW p \in Spent PROVE p \in Spent'
    <3>1. CASE p[1] = c
      BY <3>1, <1>0, <1>1, <1>2 DEF Spent, Clicked
    <3>2. CASE p[1] # c
      BY <3>2, <1>2 DEF Spent
    <3> QED
      BY <3>1, <3>2
  <2> QED
    BY <2>1
<1>4. Cardinality(Spent) <= Cardinality(Spent') /\ Cardinality(Spent) \in Nat
      /\ Cardinality(Spent') \in Nat
  BY <1>3, SpentIsBounded, FS_Subset, FS_CardinalityType DEF Spent
<1>5. due' = due \/ (due' = clicks[c].version /\ NamesQuery(Effect(c), query))
  BY DEF Answer
<1>6. due' \in Changes /\ due' <= server
  BY <1>5, EffectFits DEF UiInv, UiTypeOK, VersionsFit
<1>7. UiTypeOK'
  BY <1>0, <1>2, <1>6, AnswerFits DEF UiInv, UiTypeOK, Clicked, ShownType, FetchType
<1>8. VersionsFit'
  <2>1. \A d \in Clicks : clicks'[d].version <= server
    BY <1>1, <1>2 DEF UiInv, VersionsFit
  <2> QED
    BY <1>0, <1>4, <1>6, <2>1, AnswerFits, UiInvTypes DEF UiInv, VersionsFit
<1>9. HookFits'
  <2>1. \A d \in Clicks : clicks'[d].request <= Len(Hooks[hook])
    BY <1>1, <1>2 DEF UiInv, HookFits
  <2>2. due' > 0 => \E i \in 1..Len(Hooks[hook]) : NamesQuery(Hooks[hook][i], query)
    BY <1>5, EffectFits DEF UiInv, HookFits, Effect
  <2> QED
    BY <1>0, <2>1, <2>2 DEF UiInv, HookFits
<1> QED
  BY <1>7, <1>8, <1>9, AnswerFits DEF UiInv

LEMMA UiNextInv == UiInv /\ [UiNext]_uiVars => UiInv'
<1> SUFFICES ASSUME UiInv, [UiNext]_uiVars PROVE UiInv'
  OBVIOUS
<1>1. CASE UNCHANGED uiVars
  <2>1. UNCHANGED <<query, hook, server, entry, mounted, fetch, failed, clicks, due, missed>>
    BY <1>1 DEF uiVars
  <2> QED
    BY <2>1 DEF UiInv, UiTypeOK, VersionsFit, HookFits, ReadsFit, OldIsStale,
       NamedIsRefetched, Behind, Spent
<1>2. CASE UiNext
  BY <1>2, MountInv, AgeInv, ReadInv, ArriveInv, BreakInv, ClickInv, CommitInv, AnswerInv
     DEF UiNext
<1> QED
  BY <1>1, <1>2

\* Whatever hook runs, in one request or two and however often, and wherever its
\* answers fall among the fetches of the page: a page does not settle on an answer
\* older than a change that a hook named it for (queries.ts, main.tsx).
THEOREM PagesAreSafe == UiSpec => []UiSafe
<1>1. UiInv => UiSafe
  BY DEF UiInv, UiSafe
<1> QED
  BY <1>1, InitUiInv, UiNextInv, PTL DEF UiSpec

=============================================================================
