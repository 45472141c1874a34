------------------------------- MODULE Advisor -------------------------------
(***************************************************************************)
(* The residual-risk advisor (poam/residual_advisor.py, its two routes in  *)
(* routes/poams.py, its card in the page of a POAM).                       *)
(*                                                                         *)
(* A request reads the POAM and then what is linked to it, looks for a     *)
(* suggestion under the digest of both, asks the model up to twice, and    *)
(* keeps a valid answer.  Meanwhile the POAM is graded, its controls are   *)
(* assessed again, it is deleted by hand or by the generator and another   *)
(* one gets its id, and a second request runs: a refresh beside a fetch.   *)
(***************************************************************************)
EXTENDS Naturals, FiniteSets

CONSTANTS MaxAsks,    \* bound: requests
          Levels,     \* risk levels above Ungraded
          MaxTouches, \* bound: changes to the POAM and to what is linked to it
          Nobody      \* no POAM has the id, the card is empty

ASSUME AdvisorAssumption == /\ Levels \subseteq Nat \ {0}
                            /\ MaxAsks \in Nat /\ MaxTouches \in Nat
                            /\ Nobody \notin [born : Nat, raw : Nat]

Asks == 1..MaxAsks

Ungraded == 0
Abstained == 0
Maybe == Levels \cup {Abstained}

\* What is kept of a request that is not sent yet, or is over.
Resting(at) ==
    [at |-> at, force |-> FALSE, raw |-> Ungraded, told |-> 0, born |-> 0, tries |-> 0,
     level |-> Abstained]

VARIABLES poam,      \* the POAM that has the id: which birth, and its raw severity
          told,     \* version of the linked narratives and findings
          advised,  \* ResidualSuggestionCache
          asked,    \* the requests
          card,     \* what the page shows
          touches,
          excuses,  \* history: what happened to each request that it could not know
          swept     \* history: the POAM was deleted from elsewhere than its page

advisorVars == <<poam, told, advised, asked, card, touches, excuses, swept>>

\* Mutant: the digest leaves out raw_severity.
DigestWithoutRaw(q) == [raw |-> Ungraded, told |-> q.told]

\* _input_digest: what the suggestion depends on.
DigestOf(q) == [raw |-> q.raw, told |-> q.told]

Move(a, step) == asked' = [asked EXCEPT ![a].at = step]

Excuse(S, why) == [a \in Asks |-> IF a \in S THEN excuses[a] \cup {why} ELSE excuses[a]]

UnderWay == {a \in Asks : asked[a].at \notin {"unsent", "answered", "failed"}}

-----------------------------------------------------------------------------
(* get_residual_suggestion, suggest_residual *)

\* The card's first fetch, a fetch after an invalidation, or the Refresh button.
Open(a) ==
    /\ asked[a].at = "unsent" /\ poam # Nobody
    /\ \A b \in 1..(a - 1) : asked[b].at # "unsent"
    /\ \E force \in BOOLEAN :
          asked' = [asked EXCEPT ![a] =
              [at |-> "link", force |-> force, raw |-> poam.raw, told |-> 0, born |-> poam.born,
               tries |-> 0, level |-> Abstained]]
    /\ UNCHANGED <<poam, told, advised, card, touches, excuses, swept>>

\* _collect_contributing_findings and _collect_linked_narratives: none if the POAM is gone.
ReadLinked(a) ==
    /\ asked[a].at = "link"
    /\ asked' = [asked EXCEPT ![a].told = IF poam = Nobody THEN 0 ELSE told,
                              ![a].at = IF asked[a].force THEN "ask" ELSE "lookup"]
    /\ UNCHANGED <<poam, told, advised, card, touches, excuses, swept>>

Kept(a) == {c \in advised : c.key = DigestOf(asked[a])}

Lookup(a) ==
    /\ asked[a].at = "lookup"
    /\ Move(a, IF Kept(a) = {} THEN "ask" ELSE "bump")
    /\ UNCHANGED <<poam, told, advised, card, touches, excuses, swept>>

Late(a) == "deleted" \in excuses[a]

Shown(a) == [level |-> asked[a].level, raw |-> asked[a].raw, born |-> asked[a].born,
             late |-> Late(a)]

Reply(a, shown) ==
    /\ asked' = [asked EXCEPT ![a] = Resting("answered")]
    /\ card' = shown
    /\ excuses' = [excuses EXCEPT ![a] = {}]

Fail(a) == asked' = [asked EXCEPT ![a] = Resting("failed")] /\ UNCHANGED card

Proceed(a, step) == Move(a, step) /\ UNCHANGED <<card, excuses>>

\* bump_hit updates a row that may be gone by now, and commits.
BumpHit(a) ==
    /\ asked[a].at = "bump"
    /\ IF Kept(a) = {} THEN Fail(a) /\ UNCHANGED excuses ELSE Proceed(a, "replay")
    /\ UNCHANGED <<poam, told, advised, touches, swept>>

\* replay reads the row once more.
Replay(a) ==
    /\ asked[a].at = "replay"
    /\ \/ \E c \in Kept(a) : Reply(a, [level |-> c.level, raw |-> asked[a].raw, born |-> c.born,
                                    late |-> c.spanned \/ Late(a)])
       \/ Kept(a) = {} /\ Fail(a) /\ UNCHANGED excuses
    /\ UNCHANGED <<poam, told, advised, touches, swept>>

\* validate_response: a suggestion never exceeds the raw severity.
Valid(a, level) == level = Abstained \/ asked[a].raw = Ungraded \/ level <= asked[a].raw

\* An invalid or unreadable answer is asked for once more, then the advisor abstains
\* and keeps nothing; what else the client raises goes through.
AskAdvisor(a) ==
    /\ asked[a].at = "ask"
    /\ \/ /\ \E level \in Maybe :
                Valid(a, level) /\ asked' = [asked EXCEPT ![a].at = "check", ![a].level = level]
          /\ UNCHANGED <<card, excuses>>
       \/ /\ asked[a].tries = 0
          /\ asked' = [asked EXCEPT ![a].tries = 1]
          /\ UNCHANGED <<card, excuses>>
       \/ asked[a].tries = 1 /\ Reply(a, [Shown(a) EXCEPT !.level = Abstained])
       \/ Fail(a) /\ excuses' = Excuse({a}, "raised")
    /\ UNCHANGED <<poam, told, advised, touches, swept>>

\* store_cache leaves a row that is there.
CheckStored(a) ==
    /\ asked[a].at = "check"
    /\ IF Kept(a) = {} THEN Proceed(a, "insert")
                      ELSE Reply(a, Shown(a))
    /\ UNCHANGED <<poam, told, advised, touches, swept>>

Twins(a) == {b \in UnderWay \ {a} : DigestOf(asked[b]) = DigestOf(asked[a])}

\* The insert meets the primary key and the reference to the POAM.
InsertStored(a) ==
    /\ asked[a].at = "insert"
    /\ IF Kept(a) # {} \/ poam = Nobody
       THEN Fail(a) /\ UNCHANGED <<advised, excuses>>
       ELSE /\ asked' = [asked EXCEPT ![a] = Resting("answered")]
            /\ card' = Shown(a)
            /\ advised' = advised \cup
                  {[key |-> DigestOf(asked[a]), level |-> asked[a].level, born |-> asked[a].born,
                    spanned |-> Late(a)]}
            /\ excuses' = [Excuse(Twins(a), "twin") EXCEPT ![a] = {}]
    /\ UNCHANGED <<poam, told, touches, swept>>

-----------------------------------------------------------------------------
(* The rest of the program *)

Touch == touches < MaxTouches /\ touches' = touches + 1

\* update_poam; the hook does not fetch the suggestion again.
Regrade ==
    /\ Touch /\ poam # Nobody
    /\ \E raw \in Levels \cup {Ungraded} : poam' = [poam EXCEPT !.raw = raw]
    /\ UNCHANGED <<told, advised, asked, card, excuses, swept>>

\* A reviewer's save or a run writes the narratives of a linked control.
Renarrate ==
    /\ Touch /\ told' = 3 - told
    /\ UNCHANGED <<poam, advised, asked, card, excuses, swept>>

\* ON DELETE CASCADE of revision 0011, or the generator's own delete.
Evict == advised' = {}

\* useDeletePoam drops the page's queries; the generator, a reviewer's save and
\* "delete all" leave the card.
DropPoam ==
    /\ Touch /\ poam # Nobody
    /\ poam' = Nobody
    /\ Evict
    /\ excuses' = Excuse(UnderWay, "deleted")
    /\ \/ card' = Nobody /\ UNCHANGED swept
       \/ swept' = TRUE /\ UNCHANGED card
    /\ UNCHANGED <<told, asked>>

\* SQLite gives the id of the newest poam again.
Reborn ==
    /\ Touch /\ poam = Nobody
    /\ \E raw \in Levels : poam' = [born |-> touches + 1, raw |-> raw]
    /\ UNCHANGED <<told, advised, asked, card, excuses, swept>>

-----------------------------------------------------------------------------
AdvisorInit ==
    /\ poam \in [born : {0}, raw : Levels \cup {Ungraded}]
    /\ told = 1
    /\ advised = {}
    /\ asked = [a \in Asks |-> Resting("unsent")]
    /\ card = Nobody
    /\ touches = 0
    /\ excuses = [a \in Asks |-> {}]
    /\ swept = FALSE

Advise(a) == ReadLinked(a) \/ Lookup(a) \/ BumpHit(a) \/ Replay(a) \/ AskAdvisor(a)
             \/ CheckStored(a) \/ InsertStored(a)

AdvisorNext == \/ \E a \in Asks : Open(a) \/ (a \in UnderWay /\ Advise(a))
               \/ Regrade \/ Renarrate \/ DropPoam \/ Reborn

AdvisorSpec == AdvisorInit /\ [][AdvisorNext]_advisorVars

-----------------------------------------------------------------------------
AdvisorTypeOK ==
    /\ poam = Nobody \/ poam \in [born : Nat, raw : Levels \cup {Ungraded}]
    /\ told \in {1, 2} /\ swept \in BOOLEAN
    /\ \A c \in advised : c.level \in Maybe /\ c.spanned \in BOOLEAN
    /\ \A a \in Asks : excuses[a] \subseteq {"raised", "deleted", "twin"}

(* Fresh or replayed, what the page shows and apply_residual_suggestion    *)
(* takes without a look does not exceed the raw severity that its request  *)
(* read: nor does what is kept for the next one.                           *)
NeverAboveRaw ==
    /\ card # Nobody => card.raw = Ungraded \/ card.level <= card.raw
    /\ \A c \in advised : c.key.raw = Ungraded \/ c.level <= c.key.raw

(* routes/poams.py says a request never fails "from the model side".  It   *)
(* does when the client raises what is no ValueError, when another request *)
(* stored the same digest, and when the POAM was deleted meanwhile.        *)
FailuresAreKnown ==
    \A a \in Asks : asked[a].at = "failed" => excuses[a] # {}

(* No suggestion outlives its POAM into the next one of the same id, but   *)
(* that of a request which ran across the deletion; nor does the page show *)
(* one, but for such a request and a POAM deleted from elsewhere.          *)
AdviceStaysHome ==
    /\ \A c \in advised : poam # Nobody /\ (c.born = poam.born \/ c.spanned)
    /\ card # Nobody /\ poam # Nobody /\ card.born # poam.born => swept \/ card.late

(* Suggestions keep to what they were reached on, whatever happens while   *)
(* the model is being asked.                                               *)
AdvisorSafe ==
    AdvisorTypeOK /\ NeverAboveRaw /\ FailuresAreKnown /\ AdviceStaysHome
=============================================================================
