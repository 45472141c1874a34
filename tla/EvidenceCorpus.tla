--------------------------- MODULE EvidenceCorpus ---------------------------
(***************************************************************************)
(* The evidence of every workbook: ingest with revision tracking, tags,    *)
(* deletion, and retention (evidence/ingest.py, supersession_tracker.py,   *)
(* evidence_retention.py, routes/evidence.py).                             *)
(*                                                                         *)
(* A document that a newer revision supersedes stays in the corpus but     *)
(* leaves the bundle the assessor sees.  Each action is one transaction    *)
(* (one file of an ingest; its retention pass is a transaction of its own).*)
(* How long an assess request takes is the subject of Verdicts; here it    *)
(* is one step.                                                            *)
(***************************************************************************)
EXTENDS Naturals, FiniteSets

CONSTANTS Workbooks, Files, Objectives,
          DocNumber,   \* the doc_number extracted from a file, or NoNumber
          TitleTokens, \* the significant words of its title; {} if too generic
          Pinned,      \* files with findings, POAM links or boundary/asset flags
          Cap,         \* evidence_retention_cap
          MaxIngests,  \* bound: documents ever ingested
          NoNumber, NoDoc

Docs  == Workbooks \X Files
Cells == Workbooks \X Objectives

ASSUME CorpusAssumption ==
    /\ NoDoc \notin Docs
    /\ Cap \in Nat
    /\ MaxIngests \in Nat

VARIABLES born,       \* ingested_at of a document, 0 if it is not in the corpus
          clock,      \* how many documents have been ingested
          superseder, \* superseded_by_id
          tags,       \* <<document, objective>>
          review,     \* needs_review of the verdict of a cell
          shown,      \* AssessmentEvidenceShown: the documents of that verdict
          seen,       \* history: live and tagged documents when it was made
          slipped     \* history: cells tagged by a tagger run that failed midway

vars == <<born, clock, superseder, tags, review, shown, seen, slipped>>

(* The types of documents, of their tags and of the verdicts on them.      *)
TypeOK == /\ born \in [Docs -> 0..MaxIngests]
          /\ clock \in 0..MaxIngests
          /\ superseder \in [Docs -> Docs \cup {NoDoc}]
          /\ tags \subseteq Docs \X Objectives
          /\ review \in [Cells -> BOOLEAN]
          /\ shown \in [Cells -> SUBSET Docs]
          /\ seen \in [Cells -> [live : SUBSET Docs, tagged : SUBSET Docs]]
          /\ slipped \subseteq Cells

Init == /\ born = [d \in Docs |-> 0]
        /\ clock = 0
        /\ superseder = [d \in Docs |-> NoDoc]
        /\ tags = {}
        /\ review = [c \in Cells |-> TRUE]
        /\ shown = [c \in Cells |-> {}]
        /\ seen = [c \in Cells |-> [live |-> {}, tagged |-> {}]]
        /\ slipped = {}

Present == {d \in Docs : born[d] # 0}
Own(w)  == {d \in Present : d[1] = w}
Live(d) == superseder[d] = NoDoc

\* build_tagged_evidence: the unsuperseded documents tagged to an objective.
Bundle(o)    == {d \in Docs : <<d, o>> \in tags /\ superseder[d] = NoDoc}
OwnBundle(c) == {d \in Bundle(c[2]) : d[1] = c[1]}
OwnTagged(c) == {d \in Docs : <<d, c[2]>> \in tags /\ d[1] = c[1]}

\* invalidate_assessments_for_objectives, scoped to the document's workbook.
Flag(w, objectives) ==
    review' = [c \in Cells |-> review[c] \/ (c[1] = w /\ c[2] \in objectives)]

-----------------------------------------------------------------------------
(* Ingest *)

\* _titles_corroborate
Corroborate(d, e) == \/ TitleTokens[d[2]] = {}
                     \/ TitleTokens[e[2]] = {}
                     \/ TitleTokens[d[2]] \cap TitleTokens[e[2]] # {}

SameNumber(d, e) == DocNumber[d[2]] = DocNumber[e[2]]

\* Mutant: the new row is not excluded from its own candidates.
OlderOrSame(n) == {d \in Present \cup {n} : /\ SameNumber(d, n)
                                            /\ DocNumber[n[2]] # NoNumber
                                            /\ Corroborate(d, n)}

\* The rows of the same doc_number whose title does not contradict the new one.
Older(n) == {d \in Present \ {n} : /\ SameNumber(d, n)
                                   /\ DocNumber[n[2]] # NoNumber
                                   /\ Corroborate(d, n)}

\* Mutant: the link is written as the doc_number instead of the row's id.
SupersederOfNumber(n, d) == IF d \in Older(n) THEN DocNumber[n[2]] ELSE superseder[d]

\* Mutant: the dependents of an older row keep pointing at it.
SupersederWithout(n, d) ==
    IF d \in Older(n) /\ superseder[d] = NoDoc THEN n ELSE superseder[d]

\* _policy_same_doc_number: re-point what the older rows head, then link them.
SupersederAfter(n, d) ==
    IF \/ superseder[d] \in Older(n)
       \/ d \in Older(n) /\ superseder[d] = NoDoc
    THEN n ELSE superseder[d]

\* tag_evidence flags what it tagged when it ends; what a failing run tagged stays.
Tag(n, objectives, completed) ==
    /\ tags' = tags \cup ({n} \X objectives)
    /\ Flag(n[1], IF completed THEN objectives ELSE {})
    /\ slipped' = IF completed THEN slipped ELSE slipped \cup ({n[1]} \X objectives)

Ingest(n) ==
    /\ n \notin Present
    /\ clock < MaxIngests
    /\ clock' = clock + 1
    /\ born' = [born EXCEPT ![n] = clock + 1]
    /\ superseder' = [d \in Docs |-> SupersederAfter(n, d)]
    /\ \E objectives \in SUBSET Objectives, completed \in BOOLEAN :
          Tag(n, objectives, completed)
    /\ UNCHANGED <<shown, seen>>

-----------------------------------------------------------------------------
(* Tag edits, deletion, retention *)

\* Mutant: a retag flags the objectives that gained a tag only.
RetagGains(d, dropped, added) ==
    /\ tags' = (tags \ ({d} \X dropped)) \cup ({d} \X added)
    /\ Flag(d[1], added)

\* Retag, manual tag and untag: drop some tags, add some, flag all of them.
Retag(d, dropped, added) ==
    /\ tags' = (tags \ ({d} \X dropped)) \cup ({d} \X added)
    /\ Flag(d[1], dropped \cup added)

EditTags(d) ==
    /\ d \in Present
    /\ \E dropped \in SUBSET {o \in Objectives : <<d, o>> \in tags}, added \in SUBSET Objectives :
          Retag(d, dropped, added)
    /\ UNCHANGED <<born, clock, superseder, shown, seen, slipped>>

\* The cascade of a deletion.  Rows that were superseded by a removed one are live again.
Remove(docs) ==
    /\ born' = [d \in Docs |-> IF d \in docs THEN 0 ELSE born[d]]
    /\ superseder' = [d \in Docs |-> IF d \in docs \/ superseder[d] \in docs
                                     THEN NoDoc ELSE superseder[d]]
    /\ tags' = tags \ (docs \X Objectives)
    /\ shown' = [c \in Cells |-> shown[c] \ docs]
    /\ UNCHANGED <<clock, seen, slipped>>

Delete(d) ==
    /\ d \in Present
    /\ Remove({d})
    /\ Flag(d[1], {o \in Objectives : <<d, o>> \in tags})

Clear(w) ==
    /\ Own(w) # {}
    /\ Remove(Own(w))
    /\ Flag(w, {o \in Objectives : \E d \in Own(w) : <<d, o>> \in tags})

Excess(w) == Cardinality(Own(w)) - Cap

\* Mutant: the anchors of a chain are not excluded.
UntaggedAndUnshown(w) ==
    {d \in Own(w) : /\ \A o \in Objectives : <<d, o>> \notin tags
                    /\ d[2] \notin Pinned
                    /\ \A c \in Cells : d \notin shown[c]}

\* What nothing load-bearing refers to.
Evictable(w) ==
    {d \in Own(w) : /\ \A o \in Objectives : <<d, o>> \notin tags
                    /\ d[2] \notin Pinned
                    /\ \A c \in Cells : d \notin shown[c]
                    /\ \A e \in Docs : superseder[e] # d}

\* enforce_retention: the oldest evictable rows, until the cap or until none is left.
Enforce(w) ==
    /\ Cap > 0
    /\ Cardinality(Own(w)) > Cap
    /\ \E victims \in SUBSET Evictable(w) :
          /\ victims # {}
          /\ \A d \in victims, e \in Evictable(w) \ victims : born[d] < born[e]
          /\ \/ Cardinality(victims) = Excess(w)
             \/ victims = Evictable(w) /\ Cardinality(victims) < Excess(w)
          /\ Remove(victims)
    /\ UNCHANGED review

-----------------------------------------------------------------------------
\* An assess or a reviewer's save, with the evidence as it is.
Assess(c) ==
    /\ review' = [review EXCEPT ![c] = FALSE]
    /\ shown' = [shown EXCEPT ![c] = Bundle(c[2])]
    /\ seen' = [seen EXCEPT ![c] = [live |-> OwnBundle(c), tagged |-> OwnTagged(c)]]
    /\ slipped' = slipped \ {c}
    /\ UNCHANGED <<born, clock, superseder, tags>>

Next == \/ \E d \in Docs : Ingest(d) \/ EditTags(d) \/ Delete(d)
        \/ \E w \in Workbooks : Clear(w) \/ Enforce(w)
        \/ \E c \in Cells : Assess(c)

Spec == Init /\ [][Next]_vars

-----------------------------------------------------------------------------
(* Properties *)

\* resolve_current_evidence_id never has to walk: a superseded document points at
\* a document that is in the corpus and is itself current.
ChainsAreShort ==
    \A d \in Docs : ~Live(d) => /\ superseder[d] \in Present
                                /\ Live(superseder[d])

\* Revisions never mute each other: whatever is ingested, deleted or evicted, every
\* document is current or has a current revision that was ingested after it.
RevisionIsLive ==
    \A d \in Present : \E e \in Present :
       Live(e) /\ (e = d \/ (SameNumber(d, e) /\ born[d] < born[e]))

\* A trusted verdict has the tags it was made on, unless a tagger run failed midway:
\* tag edits, deletions and evictions flag what they change, in the right workbook.
TrustedTagsUnchanged ==
    \A c \in Cells : ~review[c] /\ c \notin slipped => seen[c].tagged = OwnTagged(c)

\* Retention changes no verdict's evidence: what the assessor would see, and what
\* the verdicts on record were shown, is the same before and after an eviction.
RetentionIsNeutral ==
    [][\A w \in Workbooks : Enforce(w) =>
          /\ \A o \in Objectives : Bundle(o)' = Bundle(o)
          /\ shown' = shown
          /\ \A d \in Present' : superseder'[d] = superseder[d]]_vars

\* A document is superseded only by a document of its own workbook.
ChainsStayHome == \A d \in Docs : ~Live(d) => superseder[d][1] = d[1]

=============================================================================
