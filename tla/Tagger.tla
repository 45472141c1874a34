------------------------------- MODULE Tagger -------------------------------
(***************************************************************************)
(* How an artifact gets its tags (evidence/tagger.py, the retag of         *)
(* routes/evidence.py): four deterministic tiers, a model that judges the  *)
(* candidates when those tiers left the artifact under-tagged, a stronger  *)
(* model after a clean refusal, a floor under refusals, text similarity    *)
(* when no call came back, and last the control that a single-purpose tool *)
(* or the name of an unreadable image points to.                           *)
(***************************************************************************)
EXTENDS Naturals, FiniteSets

CONSTANTS Controls,
          Ccis,         \* the objectives of all controls
          CciOf,        \* those of a control
          Artifacts,    \* what a file says, as the tiers read it
          CatalogSize,  \* _TIER3_CATALOG_THRESHOLD
          TopK          \* _TIER3_CATALOG_TOPK, _TIER5_TOPK

(* A control without objectives is no candidate (_all_objectives_by_control). *)
ASSUME TaggerAssumption ==
    /\ IsFiniteSet(Controls)
    /\ CciOf \in [Controls -> (SUBSET Ccis) \ {{}}]
    /\ \A a \in Artifacts : a.tools \cup a.floor \subseteq Controls
    /\ CatalogSize \in Nat
    /\ TopK \in Nat

VARIABLES file,     \* the artifact
          tag,      \* the source of each objective's tag, or NoTag
          run,      \* the tagger run: stage, caller, models at hand
          verdict,  \* what the judge said of each candidate
          declined, \* candidates a pass refused, of the last pass
          tally,    \* judge calls of both passes, and those that failed
          before,   \* history: the objectives tagged before the run
          flagged   \* objectives whose verdicts were flagged for review

taggerVars == <<file, tag, run, verdict, declined, tally, before, flagged>>

NoTag == "none"
Automatic == {"auto", "auto_review"}
Tagged == {c \in Ccis : tag[c] # NoTag}
Under(controls) == UNION {CciOf[c] : c \in controls}

(* _add: an objective that has a tag keeps it. *)
Added(ccis, source) == [c \in Ccis |-> IF c \in ccis /\ tag[c] = NoTag THEN source ELSE tag[c]]

Advance(stage) == run' = [run EXCEPT !.at = stage]

(* The text a run reads: a file that cannot be read again leaves its text. *)
Reread == run.caller \in {"ingest", "retag"}

-----------------------------------------------------------------------------
(* Tiers 1 to 4 *)

(* A picture that only vision gave words to has none when it is read again. *)
Blank == ~file.text \/ (file.seen /\ run.caller = "retag")

Mentioned == IF Blank THEN {} ELSE file.mentioned

(* What the text cites by document number or, in a scan, by CCI, and what  *)
(* a scan's findings and a dedicated column name.                          *)
Cited == file.cited \cup (IF Reread THEN file.findings ELSE {})
                    \cup (IF run.caller = "ingest" THEN file.column ELSE {})

Nearest(controls, k) ==
    {s \in SUBSET controls :
        /\ Cardinality(s) = IF Cardinality(controls) < k THEN Cardinality(controls) ELSE k
        /\ \A c \in s, d \in controls \ s : file.like[c] >= file.like[d]}

MaxLike(controls) == CHOOSE n \in {file.like[c] : c \in controls} \cup {0} :
                        \A c \in controls : file.like[c] <= n

(* The controls that are at least half as like the text as the likest one. *)
Qualifying(controls) == {c \in controls : /\ file.like[c] > 0
                                          /\ 2 * file.like[c] >= MaxLike(controls)}

(* A text that names that many controls is a catalog. *)
Admitted == IF Cardinality(Mentioned) >= CatalogSize
            THEN Nearest(Qualifying(Mentioned), TopK)
            ELSE {Mentioned}

(* The shape that the extractor recognized, or the subject of a diagram.    *)
Shaped == file.pictured \cup IF Reread THEN file.shaped ELSE {}

Tiers ==
    /\ run.at = "tiers"
    /\ \E mentioned \in Admitted :
          tag' = Added(Cited \cup Under(mentioned \cup Shaped), "auto")
    /\ Advance("gate")
    /\ UNCHANGED <<file, verdict, declined, tally, before, flagged>>

-----------------------------------------------------------------------------
(* Tier 5: the judge *)

Enough == 2    \* _TIER5_MIN_EXISTING

(* Every lane may come back empty, then every control is a candidate; what  *)
(* the tools point to is always one.                                        *)
Judgeable == LET tools == file.tools \cup file.floor
              IN  {(IF s = {} THEN Controls ELSE s) \cup tools : s \in SUBSET Controls}

Ask(candidates) == verdict' = [c \in candidates |-> "asked"]

GateOpen == Cardinality(Tagged) < Enough /\ ~Blank

Past(stage) == run' = [run EXCEPT !.at = stage, !.det = Tagged]

Gate ==
    /\ run.at = "gate"
    /\ \/ ~GateOpen /\ Past("floor") /\ UNCHANGED verdict
       \/ GateOpen /\ ~run.client /\ Past("similar") /\ UNCHANGED verdict
       \/ /\ GateOpen /\ run.client
          /\ \E s \in Judgeable : Ask(s)
          /\ run' = [run EXCEPT !.at = "judge", !.judged = TRUE, !.det = Tagged]
    /\ UNCHANGED <<file, tag, declined, tally, before, flagged>>

(* A score below the floor, between the floor and the acceptance score, in  *)
(* the band above it, or clear of it.                                       *)
Scores == {"far", "near", "band", "sure"}
Failures == {"error", "unparsed"}

JudgeReturns(c) ==
    /\ run.at = "judge"
    /\ c \in DOMAIN verdict
    /\ verdict[c] = "asked"
    /\ \E v \in Scores \cup Failures :
          verdict' = [verdict EXCEPT ![c] = IF v = "band" /\ run.verifier THEN "verify" ELSE v]
    /\ UNCHANGED <<file, tag, run, declined, tally, before, flagged>>

(* The band is verified once every candidate is judged; a verifier that     *)
(* fails leaves the score.                                                  *)
Verified(c) ==
    /\ run.at = "judge"
    /\ \A d \in DOMAIN verdict : verdict[d] # "asked"
    /\ c \in DOMAIN verdict
    /\ verdict[c] = "verify"
    /\ \E v \in {"band", "unrelated"} : verdict' = [verdict EXCEPT ![c] = v]
    /\ UNCHANGED <<file, tag, run, declined, tally, before, flagged>>

Having(vs) == {c \in DOMAIN verdict : verdict[c] \in vs}

TakeVerdicts ==
    /\ run.at = "judge"
    /\ Having({"asked", "verify"}) = {}
    /\ tag' = Added(Under(Having({"band", "sure"})), "llm")
    /\ declined' = [far |-> Having({"far"}), near |-> Having({"near", "unrelated"})]
    /\ tally' = [tried |-> tally.tried + Cardinality(DOMAIN verdict),
                 failed |-> tally.failed + Cardinality(Having(Failures)),
                 accepted |-> tally.accepted \cup Having({"band", "sure"})]
    /\ Advance("after")
    /\ UNCHANGED <<file, verdict, before, flagged>>

(* A clean refusal of a text that has lines and is more than a failed       *)
(* command goes to the stronger model, once.                                *)
Escalates == /\ run.stronger
             /\ ~run.escalated
             /\ tally.accepted = {}
             /\ tally.failed = 0
             /\ file.flaws \cap {"short", "failed"} = {}

Escalate ==
    /\ run.at = "after"
    /\ Escalates
    /\ \E s \in Judgeable : Ask(s)
    /\ run' = [run EXCEPT !.at = "judge", !.escalated = TRUE]
    /\ UNCHANGED <<file, tag, declined, tally, before, flagged>>

Floored == /\ tally.accepted = {}
           /\ declined.far \cup declined.near # {}
           /\ "failed" \notin file.flaws

(* The refused candidates above the dynamic floor, or else the nearest.     *)
Chosen == IF declined.near # {} THEN {declined.near} ELSE {{c} : c \in declined.far}

(* The similarity of the text stands in when no call came back.             *)
AfterJudge == IF tally.tried = tally.failed THEN "similar" ELSE "floor"

Settle ==
    /\ run.at = "after"
    /\ ~Escalates
    /\ IF Floored THEN \E s \in Chosen : tag' = Added(Under(s), "llm")
       ELSE UNCHANGED tag
    /\ Advance(AfterJudge)
    /\ UNCHANGED <<file, verdict, declined, tally, before, flagged>>

(* The likest controls, as certain as they come close to the likest one.    *)
Similar ==
    /\ run.at = "similar"
    /\ \E near \in IF "thin" \in file.flaws THEN {{}}
                   ELSE Nearest(Qualifying(Controls), TopK) :
          LET strong == {c \in near : 5 * file.like[c] >= 4 * MaxLike(Controls)}
          IN  tag' = [c \in Ccis |-> IF tag[c] # NoTag THEN tag[c]
                                     ELSE IF c \in Under(strong) THEN "auto"
                                     ELSE IF c \in Under(near) THEN "auto_review"
                                     ELSE NoTag]
    /\ Advance("floor")
    /\ UNCHANGED <<file, verdict, declined, tally, before, flagged>>

-----------------------------------------------------------------------------
(* The floor of the tools, the unreadable image, and the flags *)

Uncovered == {c \in file.floor : CciOf[c] \cap Tagged = {}}

FloorSource == IF run.judged THEN "located" ELSE "auto_review"

ToolFloor ==
    /\ run.at = "floor"
    /\ tag' = Added(Under(Uncovered), FloorSource)
    /\ Advance("residue")
    /\ UNCHANGED <<file, verdict, declined, tally, before, flagged>>

(* An ingested image that vision could not read, by the words of its name.  *)
Unread == /\ run.client
          /\ run.caller = "ingest"
          /\ Tagged = {}
          /\ Blank
          /\ file.unread
          /\ file.named # {}

Residue ==
    /\ run.at = "residue"
    /\ IF Unread THEN \E c \in file.named : tag' = Added(CciOf[c], "llm") ELSE UNCHANGED tag
    /\ Advance("flag")
    /\ UNCHANGED <<file, verdict, declined, tally, before, flagged>>

(* Mutant: the tags a retag dropped are not flagged. *)
FlagGains ==
    /\ run.at = "flag"
    /\ flagged' = flagged \cup (Tagged \ run.kept)
    /\ Advance("done")
    /\ UNCHANGED <<file, tag, verdict, declined, tally, before>>

(* What the run tagged is flagged at its end, what a retag dropped after it. *)
Flag ==
    /\ run.at = "flag"
    /\ flagged' = flagged \cup (Tagged \ run.kept) \cup (before \ run.kept)
    /\ Advance("done")
    /\ UNCHANGED <<file, tag, verdict, declined, tally, before>>

-----------------------------------------------------------------------------
(* A run starts with an ingest or a retag.  A retag has neither the        *)
(* stronger model nor the verifier.                                        *)

NewRun(caller, client, stronger, verifier, kept) ==
    [at |-> "tiers", caller |-> caller, client |-> client, judged |-> FALSE,
     stronger |-> client /\ stronger, verifier |-> client /\ verifier,
     escalated |-> FALSE, kept |-> kept, det |-> {}]

NoTally == [tried |-> 0, failed |-> 0, accepted |-> {}]
NothingDeclined == [far |-> {}, near |-> {}]

BeginRun ==
    /\ verdict' = <<>>
    /\ declined' = NothingDeclined
    /\ tally' = NoTally
    /\ before' = Tagged
    /\ flagged' = {}
    /\ UNCHANGED file

IngestFile(client, stronger, verifier) ==
    /\ run.at = "new"
    /\ run' = NewRun("ingest", client, stronger, verifier, {})
    /\ UNCHANGED tag
    /\ BeginRun

Dropped == {c \in Ccis : tag[c] \in Automatic}

RetagFile(caller, client) ==
    /\ run.at = "done"
    /\ run.caller = "ingest"
    /\ tag' = [c \in Ccis |-> IF c \in Dropped THEN NoTag ELSE tag[c]]
    /\ run' = NewRun(caller, client, FALSE, FALSE, Tagged \ Dropped)
    /\ BeginRun

TaggerInit ==
    /\ file \in Artifacts
    /\ tag = [c \in Ccis |-> NoTag]
    /\ run = [NewRun("ingest", FALSE, FALSE, FALSE, {}) EXCEPT !.at = "new"]
    /\ verdict = <<>>
    /\ declined = NothingDeclined
    /\ tally = NoTally
    /\ before = {}
    /\ flagged = {}

TagStep == \/ Tiers \/ Gate \/ TakeVerdicts \/ Escalate \/ Settle
           \/ Similar \/ ToolFloor \/ Residue \/ Flag
           \/ \E c \in Controls : JudgeReturns(c) \/ Verified(c)

TaggerNext ==
    \/ \E client, stronger, verifier \in BOOLEAN : IngestFile(client, stronger, verifier)
    \/ \E caller \in {"retag", "cached"}, client \in BOOLEAN : RetagFile(caller, client)
    \/ TagStep

TaggerSpec == TaggerInit /\ [][TaggerNext]_taggerVars /\ WF_taggerVars(TagStep)

-----------------------------------------------------------------------------
(* Properties *)

Stages == {"new", "tiers", "gate", "judge", "after", "similar", "floor", "residue", "flag",
           "done"}

(* The type invariant of a tagger run. *)
TaggerTypeOK ==
    /\ file \in Artifacts
    /\ tag \in [Ccis -> {NoTag, "auto", "auto_review", "llm", "located"}]
    /\ run \in [at : Stages, caller : {"ingest", "retag", "cached"}, client : BOOLEAN,
                judged : BOOLEAN, stronger : BOOLEAN, verifier : BOOLEAN,
                escalated : BOOLEAN, kept : SUBSET Ccis, det : SUBSET Ccis]
    /\ DOMAIN verdict \subseteq Controls
    /\ Having(Scores \cup Failures \cup {"asked", "verify", "unrelated"}) = DOMAIN verdict
    /\ declined.far \cup declined.near \subseteq Controls
    /\ tally.failed <= tally.tried
    /\ tally.tried <= 2 * Cardinality(Controls)
    /\ before \cup flagged \subseteq Ccis

(* "Spraying TF-IDF guesses on top would defeat the precision the LLM tier  *)
(* exists to provide" (tagger.py:2899): once any call of the judge came     *)
(* back, in either pass, no tag is inferred from the similarity of the text.*)
RefusalIsNotOverruled ==
    run.at \in {"floor", "residue", "flag", "done"} /\ tally.tried > tally.failed =>
        \A c \in Ccis : tag[c] \in Automatic => c \in run.det

(* A text whose candidates a model judged, in the last pass, leaves the     *)
(* tagger with a tag, unless it is a command that never ran: what the       *)
(* verifier discards and what the stronger model refuses is floored.        *)
JudgedFileIsTagged ==
    /\ run.at = "done"
    /\ "failed" \notin file.flaws
    /\ \E c \in DOMAIN verdict : verdict[c] \notin Failures
    => Tagged # {}

(* Whatever tier gave a tag, and whichever half of a retag took it away, the *)
(* verdicts of that objective are flagged when the run ends.                 *)
TagChangesAreFlagged ==
    run.at = "done" => (before \ Tagged) \cup (Tagged \ before) \subseteq flagged

(* "Manual / LLM-confirmed tags (any other source) are left untouched"      *)
(* (routes/evidence.py:1347): by retags, and by the tiers that come after.  *)
ConfirmedTagsStay ==
    [][\A c \in Ccis : tag[c] \in {"llm", "located"} => tag'[c] = tag[c]]_taggerVars

(* The tags of a file, whatever tier gave them and whichever calls failed.  *)
TaggerSafe ==
    /\ [](TaggerTypeOK /\ RefusalIsNotOverruled /\ JudgedFileIsTagged /\ TagChangesAreFlagged)
    /\ ConfirmedTagsStay

(* Whatever the calls do, a run ends. *)
TaggingEnds == run.at = "tiers" ~> run.at = "done"

=============================================================================
