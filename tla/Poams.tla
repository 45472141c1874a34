-------------------------------- MODULE Poams --------------------------------
(***************************************************************************)
(* Plans of action and milestones of one workbook (poam/generator.py,      *)
(* poam/importer.py, poam/risk.py, routes/poams.py) beside the verdicts    *)
(* they remediate (routes/controls.py).                                    *)
(*                                                                         *)
(* The generator heals what earlier runs left, looking at verdicts alone,  *)
(* and clusters into drafts the trusted Non-Compliant verdicts that no CRM *)
(* overlay takes off the customer's hands.  A reviewer's save prunes the   *)
(* POAMs of its objective; an assessment run and a change of overlays do   *)
(* not.  The assessor edits, grades, links and deletes POAMs, and imports  *)
(* them from eMASS.                                                        *)
(***************************************************************************)
EXTENDS Integers, FiniteSets

CONSTANTS Ccis,
          Keys,        \* cluster keys, in the order the generator sorts them
          KeysOf,      \* the cluster keys of an objective: one, or one per scope
          EmassIds, NoEmassId,
          Picked,      \* the risk levels people choose, out of Level
          OwnText,         \* marks a description that the assessor wrote
          NoPoam,
          Seeds,       \* impacts the generator seeds, of Low, Moderate and High
          MaxId,       \* bound: POAM ids
          MaxPoamEdits     \* bound: edits, imports and changes of overlays by people

Level == 1..5      \* very low .. very high
Ungraded == 0
Low == 2
Moderate == 3
High == 4

ASSUME PoamsAssumption == /\ Keys \subseteq Int
                          /\ KeysOf \in [Ccis -> SUBSET Keys]
                          /\ NoEmassId \notin EmassIds
                          /\ Picked \subseteq Level
                          /\ Seeds \subseteq {Low, Moderate, High}
                          /\ OwnText \notin Ccis
                          /\ MaxId \in Nat
                          /\ MaxPoamEdits \in Nat

VARIABLES findings,  \* objectives whose verdict is Non-Compliant and not in review
          crmSkips,  \* objectives whose control the CRM gives to the provider, inherits
                     \* or declares not applicable
          poam,      \* Poam rows
          link,      \* PoamObjective rows
          trail,     \* the newest PoamRiskHistory value of each risk field
          poamEdits,
          imported,  \* history: POAMs an import has written to
          byHand     \* history: POAMs made by hand or by an import, or unlinked by hand

poamVars == <<findings, crmSkips, poam, link, trail, poamEdits, imported, byHand>>

Ids == 1..MaxId

Fields == {"likelihood", "impact", "raw", "residual"}
Risk   == [Fields -> Level \cup {Ungraded}]
NoRisk == [f \in Fields |-> Ungraded]

Poam == [key : Keys, draft : BOOLEAN, locked : BOOLEAN, emass : EmassIds \cup {NoEmassId},
         text : SUBSET (Ccis \cup {OwnText}), risk : Risk]

ASSUME NoPoamAssumption == NoPoam \notin Poam

PoamTypeOK == /\ findings \subseteq Ccis
          /\ crmSkips \subseteq Ccis
          /\ poam \in [Ids -> Poam \cup {NoPoam}]
          /\ link \subseteq Ids \X Ccis
          /\ trail \in [Ids -> Risk]
          /\ poamEdits \in 0..MaxPoamEdits
          /\ imported \subseteq Ids
          /\ byHand \subseteq Ids

PoamInit == /\ findings = {}
        /\ crmSkips = {}
        /\ poam = [p \in Ids |-> NoPoam]
        /\ link = {}
        /\ trail = [p \in Ids |-> NoRisk]
        /\ poamEdits = 0
        /\ imported = {}
        /\ byHand = {}

-----------------------------------------------------------------------------
(* poam/risk.py *)

\* Rows are likelihoods, columns impacts.
RiskMatrix == << <<1, 1, 1, 2, 2>>,
                 <<1, 2, 2, 2, 3>>,
                 <<1, 2, 3, 3, 4>>,
                 <<1, 2, 3, 4, 5>>,
                 <<1, 2, 3, 4, 5>> >>

ComputeRisk(likelihood, impact) ==
    IF Ungraded \in {likelihood, impact} THEN Ungraded ELSE RiskMatrix[likelihood][impact]

Graded(likelihood, impact, residual) ==
    [likelihood |-> likelihood, impact |-> impact,
     raw |-> ComputeRisk(likelihood, impact), residual |-> residual]

-----------------------------------------------------------------------------
(* Rows *)

Standing == {p \in Ids : poam[p] # NoPoam}

\* The ids of n rows inserted into a table that holds the rows of S.
NewIds(S, n) == LET tops == {top \in S \cup {0} : \A p \in S : p <= top}
                IN UNION {(top + 1)..(top + n) : top \in tops}

Linked(L) == {l[1] : l \in L}

\* Links are dropped, and the POAMs that lose their last one are deleted.
Left(stale)   == link \ stale
Hollow(stale) == Linked(stale) \ Linked(Left(stale))

ForgetPoam(S) == /\ trail' = [p \in Ids |-> IF p \in S THEN NoRisk ELSE trail[p]]
             /\ imported' = imported \ S
             /\ byHand' = byHand \ S

\* Mutant: POAMs without links stay.
DropLinksOnly(stale) ==
    /\ link' = Left(stale)
    /\ UNCHANGED <<poam, trail, imported, byHand>>

DropLinks(stale) ==
    /\ link' = Left(stale)
    /\ poam' = [p \in Ids |-> IF p \in Hollow(stale) THEN NoPoam ELSE poam[p]]
    /\ ForgetPoam(Hollow(stale))

Prune(o) == DropLinks({l \in link : l[2] = o})

-----------------------------------------------------------------------------
(* Verdicts *)

\* An assessment run leaves the POAMs alone.
Assess(o) ==
    /\ findings' \in {findings \cup {o}, findings \ {o}}
    /\ UNCHANGED <<crmSkips, poam, link, trail, poamEdits, imported, byHand>>

Review(o) ==
    /\ \/ /\ findings' = findings \cup {o}
          /\ UNCHANGED <<poam, link, trail, imported, byHand>>
       \/ /\ findings' = findings \ {o}
          /\ Prune(o)
    /\ UNCHANGED <<crmSkips, poamEdits>>

\* Overlays are attached, detached or replaced.  What they do to a verdict is a step of
\* Assess; no link goes.
ChangeOverlays ==
    /\ poamEdits < MaxPoamEdits
    /\ poamEdits' = poamEdits + 1
    /\ crmSkips' \in SUBSET Ccis
    /\ UNCHANGED <<findings, poam, link, trail, imported, byHand>>

-----------------------------------------------------------------------------
(* generate_for_workbook *)

\* Healing asks for the verdict only: what the CRM skips keeps its links.
Stale == {l \in link : l[2] \notin findings}

\* The CRM filter of a cluster.
Items(k) == {o \in findings \ crmSkips : k \in KeysOf[o]}

Clustered == {k \in Keys : Items(k) # {}}

Seeded(impact) ==
    Graded(Moderate, impact, ComputeRisk(Moderate, impact))

NewDraft(k, impact) ==
    [key |-> k, draft |-> TRUE, locked |-> FALSE, emass |-> NoEmassId, text |-> Items(k),
     risk |-> Seeded(impact)]

\* The POAMs of a key; the last one counts.
Of(kept, k) == {p \in kept : poam[p].key = k}

Latest(S) == {p \in S : \A q \in S : q <= p}

Rewritten(p) == IF poam[p].draft /\ ~poam[p].locked
                THEN [poam[p] EXCEPT !.text = Items(poam[p].key)]
                ELSE poam[p]

\* New rows are inserted in the order of their keys.
InKeyOrder(ids, new) ==
    {keyOf \in [ids -> new] : /\ \A k \in new : \E p \in ids : keyOf[p] = k
                              /\ \A p, q \in ids : p < q => keyOf[p] < keyOf[q]}

\* kept POAMs survive the healing; keyOf and impact tell of the new ones.
Written(kept, ids, keyOf, impact) ==
    [p \in Ids |-> IF p \in ids THEN NewDraft(keyOf[p], impact[p])
                   ELSE IF p \notin kept THEN NoPoam
                   ELSE IF poam[p].key \in Clustered /\ p \in Latest(Of(kept, poam[p].key))
                        THEN Rewritten(p)
                        ELSE poam[p]]

GenerateFor(stale) ==
    LET kept == Standing \ Hollow(stale)
        new  == {k \in Clustered : Of(kept, k) = {}}
        ids  == NewIds(kept, Cardinality(new))
    IN /\ ids \subseteq Ids
       /\ \E keyOf \in InKeyOrder(ids, new), impact \in [ids -> Seeds] :
             /\ poam' = Written(kept, ids, keyOf, impact)
             /\ trail' = [p \in Ids |-> IF p \in ids THEN Seeded(impact[p])
                                        ELSE IF p \in kept THEN trail[p] ELSE NoRisk]
             /\ link' = Left(stale) \cup UNION {{p} \X Items(keyOf[p]) : p \in ids}
       /\ imported' = imported \ Hollow(stale)
       /\ byHand' = byHand \ Hollow(stale)
       /\ UNCHANGED <<findings, crmSkips, poamEdits>>

Generate == GenerateFor(Stale)

-----------------------------------------------------------------------------
(* People *)

EditPoam == poamEdits < MaxPoamEdits /\ poamEdits' = poamEdits + 1
            /\ UNCHANGED <<findings, crmSkips>>

\* A row made by hand is locked and its risk fields are recorded.
CreatePoam ==
    /\ EditPoam
    /\ \E k \in Keys, draft \in BOOLEAN, p \in NewIds(Standing, 1) \cap Ids,
          likelihood, impact \in Picked \cup {Ungraded}, objectives \in SUBSET Ccis :
          LET risk == Graded(likelihood, impact, ComputeRisk(likelihood, impact))
          IN /\ poam' = [poam EXCEPT ![p] = [key |-> k, draft |-> draft, locked |-> TRUE,
                             emass |-> NoEmassId, text |-> {OwnText}, risk |-> risk]]
             /\ trail' = [trail EXCEPT ![p] = risk]
             /\ link' = link \cup ({p} \X objectives)
             /\ byHand' = byHand \cup {p}
             /\ UNCHANGED imported

Describe(p) ==
    /\ EditPoam
    /\ poam' = [poam EXCEPT ![p].text = {OwnText}, ![p].locked = TRUE]
    /\ UNCHANGED <<link, trail, imported, byHand>>

SetStatus(p) ==
    /\ EditPoam
    /\ poam' = [poam EXCEPT ![p].draft = ~@]
    /\ UNCHANGED <<link, trail, imported, byHand>>

\* A transition is recorded, "X -> X" is not.
Recorded(p, risk) ==
    trail' = [trail EXCEPT ![p] = [f \in Fields |-> IF risk[f] # poam[p].risk[f]
                                                    THEN risk[f] ELSE trail[p][f]]]

SetRisk(p, risk) ==
    /\ EditPoam
    /\ poam' = [poam EXCEPT ![p].risk = risk]
    /\ Recorded(p, risk)
    /\ UNCHANGED <<link, imported, byHand>>

OrKept(p, f) == Picked \cup {Ungraded, poam[p].risk[f]}

Grade(p) ==
    \E likelihood \in OrKept(p, "likelihood"), impact \in OrKept(p, "impact") :
       SetRisk(p, Graded(likelihood, impact, poam[p].risk.residual))

\* By hand, or from the residual advisor's suggestion.
SetResidual(p) ==
    \E level \in Picked \cup {Ungraded} :
       SetRisk(p, [poam[p].risk EXCEPT !.residual = level])

DeleteRows(S) ==
    /\ EditPoam
    /\ poam' = [p \in Ids |-> IF p \in S THEN NoPoam ELSE poam[p]]
    /\ link' = {l \in link : l[1] \notin S}
    /\ ForgetPoam(S)

DeletePoam(p) == DeleteRows({p})

DeleteAll ==
    \E drafts \in {BOOLEAN, {TRUE}, {FALSE}} :
       DeleteRows({p \in Standing : poam[p].draft \in drafts})

Link(p, o) ==
    /\ EditPoam
    /\ link' = link \cup {<<p, o>>}
    /\ UNCHANGED <<poam, trail, imported, byHand>>

\* The POAM stays, even without a link.
Unlink(p, o) ==
    /\ EditPoam
    /\ <<p, o>> \in link
    /\ link' = link \ {<<p, o>>}
    /\ byHand' = byHand \cup {p}
    /\ UNCHANGED <<poam, trail, imported>>

-----------------------------------------------------------------------------
(* import_poams: one row of an eMASS workbook *)

\* The level cells of the row: blank, or all filled.
Levels(old) == {old} \cup [Fields -> Picked]

ImportNew ==
    /\ EditPoam
    /\ \E k \in Keys, e \in EmassIds \cup {NoEmassId}, draft \in BOOLEAN,
          p \in NewIds(Standing, 1) \cap Ids, risk \in Levels(NoRisk) :
          /\ e = NoEmassId \/ \A q \in Standing : poam[q].emass # e
          /\ poam' = [poam EXCEPT ![p] = [key |-> k, draft |-> draft, locked |-> FALSE,
                                          emass |-> e, text |-> {OwnText}, risk |-> risk]]
          /\ imported' = imported \cup {p}
          /\ byHand' = byHand \cup {p}
          /\ UNCHANGED <<link, trail>>

ImportKnown(p) ==
    /\ EditPoam
    /\ \E draft \in BOOLEAN, risk \in Levels(poam[p].risk) :
          /\ poam[p].emass # NoEmassId
          /\ \A q \in Standing : poam[q].emass = poam[p].emass => q <= p
          /\ poam' = [poam EXCEPT ![p].text = {OwnText}, ![p].draft = draft, ![p].risk = risk]
          /\ imported' = imported \cup {p}
          /\ UNCHANGED <<link, trail, byHand>>

\* The eMASS id of an exported draft, entered by hand.
SetEmassId(p) ==
    /\ EditPoam
    /\ \E e \in EmassIds \cup {NoEmassId} :
          /\ poam' = [poam EXCEPT ![p].emass = e]
          /\ UNCHANGED <<link, trail, imported, byHand>>

-----------------------------------------------------------------------------
Change(p) == \/ Describe(p) \/ SetStatus(p) \/ Grade(p) \/ SetResidual(p) \/ DeletePoam(p)
             \/ ImportKnown(p) \/ SetEmassId(p)
             \/ \E o \in Ccis : Link(p, o) \/ Unlink(p, o)

PoamNext == \/ \E o \in Ccis : Assess(o) \/ Review(o)
        \/ ChangeOverlays \/ Generate \/ CreatePoam \/ DeleteAll \/ ImportNew
        \/ \E p \in Standing : Change(p)

PoamSpec == PoamInit /\ [][PoamNext]_poamVars

-----------------------------------------------------------------------------
(* Properties *)

\* "who changed it to MODERATE and why?" (models.py:2027) has an answer: the newest
\* history value of every risk field is the field's value, and the raw severity is the
\* matrix's.  Imports write neither.
RiskIsExplained ==
    \A p \in Standing \ imported :
       LET risk == poam[p].risk
       IN /\ trail[p] = risk
          /\ risk.raw = ComputeRisk(risk.likelihood, risk.impact)

\* A POAM that lost its last finding is gone: what has no link was made by hand or
\* lost it by hand.
HollowPoamsAreByHand == Standing \subseteq Linked(link) \cup byHand

\* A POAM has a reason to exist and a risk its trail explains, after any sequence of
\* imports, generator runs, edits and verdicts.
PoamsSafe == PoamTypeOK /\ RiskIsExplained /\ HollowPoamsAreByHand

\* What a generator run leaves: every link points at a trusted finding, the customer's or
\* not, and every key of a finding that the customer owns has a POAM whose text is
\* current, unless the assessor owns it.  A POAM that was linked before an overlay
\* inherited its control keeps its link and, once its cluster has no other finding, its
\* text: neither the healing (generator.py:774-794) nor the CRM filter (1000-1021) takes
\* them away.
Settled ==
    /\ Stale = {}
    /\ \A k \in Clustered :
          /\ Of(Standing, k) # {}
          /\ \A p \in Latest(Of(Standing, k)) :
                poam[p].draft /\ ~poam[p].locked => poam[p].text = Items(k)

\* A run settles, in that sense, whatever edits, imports, verdicts and overlays came
\* before it, and a second run changes nothing.
GenerateSettles ==
    [][Generate => Settled' /\ (Settled => UNCHANGED poamVars)]_poamVars

\* "A POAM clustering SI-3 + SI-3(1) + SI-3(2) will have one row per CCI rolled up
\* under those controls" (models.py:1969).
FindingsAreLinked ==
    [][Generate => \A k \in Clustered : Items(k) \subseteq
                      {l[2] : l \in {m \in link' : poam'[m[1]].key = k}}]_poamVars

=============================================================================
