-------------------------- MODULE AssessmentProofs --------------------------
(* Theorems about EvidenceCorpus, for any workbooks, files and objectives,  *)
(* and about Kernel, for any rows, overlays, evidence and answers.         *)
EXTENDS EvidenceCorpus, Kernel, WellFoundedInduction, TLAPS

USE CorpusAssumption

LEMMA DocParts == \A d \in Docs : d[1] \in Workbooks
  BY DEF Docs

LEMMA SupersederType ==
  ASSUME TypeOK, NEW n \in Docs
  PROVE  [d \in Docs |-> SupersederAfter(n, d)] \in [Docs -> Docs \cup {NoDoc}]
  BY DEF TypeOK, SupersederAfter

LEMMA FlagType ==
  ASSUME TypeOK, NEW w, NEW objectives, Flag(w, objectives)
  PROVE  review' \in [Cells -> BOOLEAN]
  BY DEF TypeOK, Flag

LEMMA RemoveType ==
  ASSUME TypeOK, NEW docs, Remove(docs), review' \in [Cells -> BOOLEAN]
  PROVE  TypeOK'
<1>1. born' \in [Docs -> 0..MaxIngests] BY DEF Remove, TypeOK
<1>2. superseder' \in [Docs -> Docs \cup {NoDoc}] BY DEF Remove, TypeOK
<1>3. shown' \in [Cells -> SUBSET Docs] BY DEF Remove, TypeOK
<1>4. tags' \subseteq Docs \X Objectives BY DEF Remove, TypeOK
<1> QED BY <1>1, <1>2, <1>3, <1>4 DEF Remove, TypeOK

LEMMA TypeInvariant == Spec => []TypeOK
<1>1. Init => TypeOK
  BY DEF Init, TypeOK
<1>2. TypeOK /\ [Next]_vars => TypeOK'
  <2> SUFFICES ASSUME TypeOK, [Next]_vars PROVE TypeOK'
    OBVIOUS
  <2>1. ASSUME NEW n \in Docs, Ingest(n) PROVE TypeOK'
    <3>1. PICK objectives \in SUBSET Objectives, completed \in BOOLEAN :
             Tag(n, objectives, completed)
      BY <2>1 DEF Ingest
    <3>2. review' \in [Cells -> BOOLEAN]
      BY <3>1, FlagType DEF Tag
    <3>3. tags' \subseteq Docs \X Objectives
      BY <3>1 DEF Tag, TypeOK
    <3>4. slipped' \subseteq Cells
      BY <3>1, DocParts DEF Tag, TypeOK, Cells
    <3>5. clock' \in 0..MaxIngests /\ born' \in [Docs -> 0..MaxIngests]
      BY <2>1 DEF Ingest, TypeOK
    <3> QED BY <2>1, <3>2, <3>3, <3>4, <3>5, SupersederType DEF Ingest, TypeOK
  <2>2. ASSUME NEW d \in Docs, EditTags(d) PROVE TypeOK'
    <3>1. review' \in [Cells -> BOOLEAN]
      BY <2>2, FlagType DEF EditTags, Retag
    <3>2. tags' \subseteq Docs \X Objectives
      BY <2>2 DEF EditTags, Retag, TypeOK
    <3> QED BY <2>2, <3>1, <3>2 DEF EditTags, TypeOK
  <2>3. ASSUME NEW d \in Docs, Delete(d) PROVE TypeOK'
    BY <2>3, FlagType, RemoveType DEF Delete
  <2>4. ASSUME NEW w \in Workbooks, Clear(w) PROVE TypeOK'
    BY <2>4, FlagType, RemoveType DEF Clear
  <2>5. ASSUME NEW w \in Workbooks, Enforce(w) PROVE TypeOK'
    <3>1. review' \in [Cells -> BOOLEAN] BY <2>5 DEF Enforce, TypeOK
    <3> QED BY <2>5, <3>1, RemoveType DEF Enforce
  <2>6. ASSUME NEW c \in Cells, Assess(c) PROVE TypeOK'
    <3>1. /\ Bundle(c[2]) \in SUBSET Docs
          /\ [live |-> OwnBundle(c), tagged |-> OwnTagged(c)]
                \in [live : SUBSET Docs, tagged : SUBSET Docs]
      BY DEF Bundle, OwnBundle, OwnTagged
    <3> QED BY <2>6, <3>1 DEF Assess, TypeOK
  <2>7. CASE UNCHANGED vars
    BY <2>7 DEF vars, TypeOK
  <2> QED BY <2>1, <2>2, <2>3, <2>4, <2>5, <2>6, <2>7 DEF Next
<1> QED BY <1>1, <1>2, PTL DEF Spec

\* The specification stays type-correct.
THEOREM TypeCorrect == Spec => []TypeOK
  BY TypeInvariant

-----------------------------------------------------------------------------
(* Links lead, in one hop, to a later document of the same number that is current. *)

Links == /\ \A d \in Docs : born[d] <= clock
         /\ \A d \in Docs : ~Live(d) => /\ d \in Present
                                        /\ superseder[d] \in Present
                                        /\ Live(superseder[d])
                                        /\ SameNumber(d, superseder[d])
                                        /\ born[d] < born[superseder[d]]

LEMMA IngestKeepsLinks ==
  ASSUME TypeOK, Links, NEW n \in Docs, Ingest(n)
  PROVE  Links'
<1>1. /\ n \notin Present /\ Live(n)
      /\ clock' = clock + 1
      /\ born' = [born EXCEPT ![n] = clock + 1]
      /\ superseder' = [d \in Docs |-> SupersederAfter(n, d)]
  BY DEF Ingest, Links
<1>2. Present' = Present \cup {n}
  BY <1>1 DEF Present, TypeOK
<1>3. /\ born'[n] = clock + 1
      /\ \A d \in Docs \ {n} : born'[d] = born[d]
      /\ \A d \in Docs : born[d] \in Nat /\ born[d] <= clock /\ clock \in Nat
  BY <1>1 DEF TypeOK, Links
<1>4. Live(n)'
  BY <1>1 DEF Live, SupersederAfter, Older, Docs, Present
<1>5. ASSUME NEW d \in Docs, ~Live(d)'
      PROVE  /\ d \in Present'
             /\ superseder'[d] \in Present'
             /\ superseder'[superseder'[d]] = NoDoc
             /\ SameNumber(d, superseder'[d])
             /\ born'[d] < born'[superseder'[d]]
  <2> d # n BY <1>4, <1>5
  <2>1. CASE superseder[d] \in Older(n) \/ (d \in Older(n) /\ superseder[d] = NoDoc)
    <3>1. superseder'[d] = n
      BY <1>1, <2>1 DEF SupersederAfter
    <3>2. d \in Present /\ SameNumber(d, n)
      <4>1. CASE superseder[d] \in Older(n)
        <5>1. ~Live(d) BY <4>1 DEF Older, Present, Live
        <5> QED BY <4>1, <5>1 DEF Links, Older, SameNumber
      <4>2. CASE d \in Older(n)
        BY <4>2 DEF Older
      <4> QED BY <2>1, <4>1, <4>2
    <3> QED BY <1>2, <1>3, <1>4, <3>1, <3>2 DEF Present, Live
  <2>2. CASE ~(superseder[d] \in Older(n) \/ (d \in Older(n) /\ superseder[d] = NoDoc))
    <3>1. superseder'[d] = superseder[d]
      BY <1>1, <2>2 DEF SupersederAfter
    <3>2. ~Live(d)
      BY <1>5, <3>1 DEF Live
    <3>3. PICK e \in Docs : superseder[d] = e
      BY <3>2 DEF Live, TypeOK
    <3>4. /\ d \in Present /\ e \in Present /\ Live(e) /\ SameNumber(d, e)
          /\ born[d] < born[e] /\ e # n
      BY <1>1, <3>2, <3>3 DEF Links
    <3>5. superseder[e] = NoDoc /\ e \notin Older(n)
      BY <2>2, <3>3, <3>4 DEF Live
    <3>6. superseder'[e] = superseder[e]
      BY <1>1, <3>5 DEF SupersederAfter, Older, Present
    <3> QED BY <1>2, <1>3, <3>1, <3>3, <3>4, <3>5, <3>6 DEF Live
  <2> QED BY <2>1, <2>2
<1>6. \A d \in Docs : born'[d] <= clock'
  BY <1>1, <1>3
<1> QED BY <1>5, <1>6 DEF Links, SameNumber, Live

LEMMA RemoveKeepsLinks ==
  ASSUME TypeOK, Links, NEW docs, Remove(docs)
  PROVE  Links'
<1>1. ASSUME NEW d \in Docs, ~Live(d)'
      PROVE  /\ d \in Present'
             /\ superseder'[d] \in Present'
             /\ superseder'[superseder'[d]] = NoDoc
             /\ SameNumber(d, superseder'[d])
             /\ born'[d] < born'[superseder'[d]]
  <2>1. d \notin docs /\ superseder[d] \notin docs /\ superseder'[d] = superseder[d]
    BY <1>1 DEF Remove, Live
  <2>2. ~Live(d) BY <1>1, <2>1 DEF Live
  <2>3. PICK e \in Docs : superseder[d] = e BY <2>2 DEF Live, TypeOK
  <2>4. /\ d \in Present /\ e \in Present /\ Live(e) /\ SameNumber(d, e) /\ born[d] < born[e]
    BY <2>2, <2>3 DEF Links
  <2>5. born'[d] = born[d] /\ born'[e] = born[e] BY <2>1, <2>3 DEF Remove
  <2>6. superseder'[e] = NoDoc BY <2>4 DEF Remove, Live
  <2> QED BY <2>1, <2>3, <2>4, <2>5, <2>6 DEF Present, Live
<1>2. \A d \in Docs : born'[d] <= clock'
  BY DEF Remove, Links, TypeOK
<1> QED BY <1>1, <1>2 DEF Links, SameNumber, Live

LEMMA LinksInvariant == Spec => []Links
<1>1. Init => Links
  BY DEF Init, Links, Live
<1>2. TypeOK /\ Links /\ [Next]_vars => Links'
  <2> SUFFICES ASSUME TypeOK, Links, [Next]_vars PROVE Links'
    OBVIOUS
  <2>1. ASSUME NEW n \in Docs, Ingest(n) PROVE Links'
    BY <2>1, IngestKeepsLinks
  <2>2. ASSUME NEW d \in Docs, Delete(d) PROVE Links'
    BY <2>2, RemoveKeepsLinks DEF Delete
  <2>3. ASSUME NEW w \in Workbooks, Clear(w) PROVE Links'
    BY <2>3, RemoveKeepsLinks DEF Clear
  <2>4. ASSUME NEW w \in Workbooks, Enforce(w) PROVE Links'
    BY <2>4, RemoveKeepsLinks DEF Enforce
  <2>5. CASE UNCHANGED <<born, clock, superseder>>
    BY <2>5 DEF Links, Live, Present, SameNumber
  <2>6. ASSUME NEW d \in Docs, EditTags(d) PROVE Links'
    BY <2>5, <2>6 DEF EditTags
  <2>7. ASSUME NEW c \in Cells, Assess(c) PROVE Links'
    BY <2>5, <2>7 DEF Assess
  <2> QED BY <2>1, <2>2, <2>3, <2>4, <2>5, <2>6, <2>7 DEF Next, vars
<1> QED BY <1>1, <1>2, TypeInvariant, PTL DEF Spec

\* Every superseded document points straight at a current one.
THEOREM OneHop == Spec => []ChainsAreShort
<1>1. Links => ChainsAreShort
  BY DEF Links, ChainsAreShort
<1> QED BY <1>1, LinksInvariant, PTL

\* No sequence of ingests, deletions and evictions mutes every revision of a document.
THEOREM SomeRevisionIsLive == Spec => []RevisionIsLive
<1>1. Links => RevisionIsLive
  <2> SUFFICES ASSUME Links, NEW d \in Present
               PROVE  \E e \in Present :
                         Live(e) /\ (e = d \/ (SameNumber(d, e) /\ born[d] < born[e]))
    BY DEF RevisionIsLive
  <2>1. d \in Docs BY DEF Present
  <2>2. CASE Live(d) BY <2>2
  <2>3. CASE ~Live(d) BY <2>1, <2>3 DEF Links
  <2> QED BY <2>2, <2>3
<1> QED BY <1>1, LinksInvariant, PTL

-----------------------------------------------------------------------------
(* Flags follow tags *)

LEMMA RetagKeepsTrust ==
  ASSUME TypeOK, TrustedTagsUnchanged,
         NEW d \in Docs, NEW changed \in SUBSET Objectives,
         tags' \ ({d} \X changed) = tags \ ({d} \X changed),
         Flag(d[1], changed), seen' = seen, slipped \subseteq slipped'
  PROVE  TrustedTagsUnchanged'
<1> SUFFICES ASSUME NEW c \in Cells, ~review'[c], c \notin slipped'
             PROVE  seen[c].tagged = OwnTagged(c)'
  BY DEF TrustedTagsUnchanged
<1>1. ~review[c] /\ ~(c[1] = d[1] /\ c[2] \in changed)
  BY DEF Flag
<1>2. \A e \in Docs : e[1] = c[1] => (<<e, c[2]>> \in tags' <=> <<e, c[2]>> \in tags)
  <2> SUFFICES ASSUME NEW e \in Docs, e[1] = c[1]
               PROVE  <<e, c[2]>> \in tags' <=> <<e, c[2]>> \in tags
    OBVIOUS
  <2>1. <<e, c[2]>> \notin {d} \X changed BY <1>1
  <2> QED BY <2>1
<1>3. OwnTagged(c)' = OwnTagged(c) BY <1>2 DEF OwnTagged
<1> QED BY <1>1, <1>3 DEF TrustedTagsUnchanged

LEMMA RemoveKeepsTrust ==
  ASSUME TypeOK, TrustedTagsUnchanged, NEW w \in Workbooks, NEW docs \in SUBSET Own(w),
         Remove(docs),
         \A c \in Cells : review[c] => review'[c],
         \A c \in Cells, d \in docs : c[1] = w /\ <<d, c[2]>> \in tags => review'[c]
  PROVE  TrustedTagsUnchanged'
<1> SUFFICES ASSUME NEW c \in Cells, ~review'[c], c \notin slipped'
             PROVE  seen'[c].tagged = OwnTagged(c)'
  BY DEF TrustedTagsUnchanged
<1>1. ~review[c] /\ c \notin slipped /\ seen' = seen
  BY DEF Remove
<1>2. \A e \in Docs : e[1] = c[1] => (<<e, c[2]>> \in tags' <=> <<e, c[2]>> \in tags)
  <2> SUFFICES ASSUME NEW e \in Docs, e[1] = c[1], <<e, c[2]>> \in tags
               PROVE  <<e, c[2]>> \in tags'
    BY DEF Remove
  <2>1. e \notin docs BY DEF Own
  <2> QED BY <2>1 DEF Remove
<1>3. OwnTagged(c)' = OwnTagged(c) BY <1>2 DEF OwnTagged
<1> QED BY <1>1, <1>3 DEF TrustedTagsUnchanged

\* However tags change, the verdicts they were made on are under review.
THEOREM TrustFollowsTags == Spec => []TrustedTagsUnchanged
<1>1. Init => TrustedTagsUnchanged
  BY DEF Init, TrustedTagsUnchanged
<1>2. TypeOK /\ TrustedTagsUnchanged /\ [Next]_vars => TrustedTagsUnchanged'
  <2> SUFFICES ASSUME TypeOK, TrustedTagsUnchanged, [Next]_vars
               PROVE  TrustedTagsUnchanged'
    OBVIOUS
  <2>1. ASSUME NEW n \in Docs, Ingest(n) PROVE TrustedTagsUnchanged'
    <3>1. PICK objectives \in SUBSET Objectives, completed \in BOOLEAN :
             Tag(n, objectives, completed)
      BY <2>1 DEF Ingest
    <3>2. CASE completed
      <4>1. tags' \ ({n} \X objectives) = tags \ ({n} \X objectives)
        BY <3>1 DEF Tag
      <4> QED BY <2>1, <3>1, <3>2, <4>1, RetagKeepsTrust DEF Tag, Ingest
    <3>3. CASE ~completed
      <4> SUFFICES ASSUME NEW c \in Cells, ~review'[c], c \notin slipped'
                   PROVE  seen'[c].tagged = OwnTagged(c)'
        BY DEF TrustedTagsUnchanged
      <4>1. ~review[c] /\ c \notin slipped /\ c \notin {n[1]} \X objectives /\ seen' = seen
        BY <2>1, <3>1, <3>3 DEF Tag, Flag, Ingest
      <4>2. c = <<c[1], c[2]>> BY DEF Cells
      <4>3. \A e \in Docs : e[1] = c[1] => <<e, c[2]>> \notin {n} \X objectives
        BY <4>1, <4>2
      <4>4. OwnTagged(c)' = OwnTagged(c)
        BY <3>1, <4>3 DEF Tag, OwnTagged
      <4> QED BY <4>1, <4>4 DEF TrustedTagsUnchanged
    <3> QED BY <3>2, <3>3
  <2>2. ASSUME NEW d \in Docs, EditTags(d) PROVE TrustedTagsUnchanged'
    <3>1. PICK dropped \in SUBSET Objectives, added \in SUBSET Objectives :
             Retag(d, dropped, added)
      BY <2>2 DEF EditTags
    <3>2. tags' \ ({d} \X (dropped \cup added)) = tags \ ({d} \X (dropped \cup added))
      BY <3>1 DEF Retag
    <3> QED BY <2>2, <3>1, <3>2, RetagKeepsTrust DEF Retag, EditTags
  <2>3. ASSUME NEW d \in Docs, Delete(d) PROVE TrustedTagsUnchanged'
    <3>1. d[1] \in Workbooks /\ {d} \in SUBSET Own(d[1])
      BY <2>3, DocParts DEF Delete, Own
    <3>2. \A c \in Cells : /\ review[c] => review'[c]
                           /\ c[1] = d[1] /\ <<d, c[2]>> \in tags => review'[c]
      BY <2>3 DEF Delete, Flag, Cells
    <3> QED BY <2>3, <3>1, <3>2, RemoveKeepsTrust DEF Delete
  <2>4. ASSUME NEW w \in Workbooks, Clear(w) PROVE TrustedTagsUnchanged'
    <3>1. \A c \in Cells : /\ review[c] => review'[c]
                           /\ \A d \in Own(w) : c[1] = w /\ <<d, c[2]>> \in tags => review'[c]
      BY <2>4 DEF Clear, Flag, Cells
    <3> QED BY <2>4, <3>1, RemoveKeepsTrust DEF Clear
  <2>5. ASSUME NEW w \in Workbooks, Enforce(w) PROVE TrustedTagsUnchanged'
    <3>1. PICK victims \in SUBSET Evictable(w) : Remove(victims)
      BY <2>5 DEF Enforce
    <3>2. victims \in SUBSET Own(w) BY <3>1 DEF Evictable
    <3>3. \A c \in Cells, d \in victims : <<d, c[2]>> \notin tags
      BY <3>1 DEF Evictable, Cells
    <3>4. review' = review BY <2>5 DEF Enforce
    <3> QED BY <3>1, <3>2, <3>3, <3>4, RemoveKeepsTrust
  <2>6. ASSUME NEW c \in Cells, Assess(c) PROVE TrustedTagsUnchanged'
    <3> SUFFICES ASSUME NEW b \in Cells, ~review'[b], b \notin slipped'
                 PROVE  seen'[b].tagged = OwnTagged(b)'
      BY DEF TrustedTagsUnchanged
    <3>1. OwnTagged(b)' = OwnTagged(b) BY <2>6 DEF Assess, OwnTagged
    <3>2. CASE b = c
      <4>1. seen'[b] = [live |-> OwnBundle(c), tagged |-> OwnTagged(c)]
        BY <2>6, <3>2 DEF Assess, TypeOK
      <4> QED BY <3>1, <3>2, <4>1
    <3>3. CASE b # c
      <4>1. ~review[b] /\ b \notin slipped /\ seen'[b] = seen[b]
        BY <2>6, <3>3 DEF Assess, TypeOK
      <4> QED BY <3>1, <4>1 DEF TrustedTagsUnchanged
    <3> QED BY <3>2, <3>3
  <2>7. CASE UNCHANGED vars
    BY <2>7 DEF vars, TrustedTagsUnchanged, OwnTagged
  <2> QED BY <2>1, <2>2, <2>3, <2>4, <2>5, <2>6, <2>7 DEF Next
<1> QED BY <1>1, <1>2, TypeInvariant, PTL DEF Spec

LEMMA EvictionIsNeutral ==
  ASSUME TypeOK, NEW w \in Workbooks, Enforce(w)
  PROVE  /\ \A o \in Objectives : Bundle(o)' = Bundle(o)
         /\ shown' = shown
         /\ \A d \in Present' : superseder'[d] = superseder[d]
<1>1. PICK victims \in SUBSET Evictable(w) : Remove(victims)
  BY DEF Enforce
<1>2. \A v \in victims : /\ v \in Docs
                         /\ \A o \in Objectives : <<v, o>> \notin tags
                         /\ \A c \in Cells : v \notin shown[c]
                         /\ \A e \in Docs : superseder[e] # v
  BY DEF Evictable, Own, Present
<1>3. tags' = tags
  <2>1. \A t \in victims \X Objectives : t \notin tags
    BY <1>2
  <2> QED
    BY <1>1, <2>1 DEF Remove
<1>4. \A d \in Docs \ victims : superseder'[d] = superseder[d]
  BY <1>1, <1>2 DEF Remove
<1>5. \A o \in Objectives : Bundle(o)' = Bundle(o)
  BY <1>2, <1>3, <1>4 DEF Bundle
<1>6. shown' = shown
  <2>1. \A c \in Cells : shown[c] \ victims = shown[c]
    BY <1>2
  <2>2. shown' = [c \in Cells |-> shown[c]] /\ shown = [c \in Cells |-> shown[c]]
    BY <1>1, <2>1 DEF Remove, TypeOK
  <2> QED
    BY <2>2
<1>7. \A d \in Present' : d \in Docs \ victims
  BY <1>1 DEF Remove, Present
<1> QED
  BY <1>4, <1>5, <1>6, <1>7

(* Whatever the corpus holds and however small the cap is: an eviction       *)
(* changes nothing that an assessor would see or a verdict was shown, and    *)
(* revives no superseded revision (evidence_retention.py).                   *)
THEOREM EvictionsAreNeutral == Spec => RetentionIsNeutral
<1>1. TypeOK /\ [Next]_vars =>
        [\A w \in Workbooks : Enforce(w) =>
           /\ \A o \in Objectives : Bundle(o)' = Bundle(o)
           /\ shown' = shown
           /\ \A d \in Present' : superseder'[d] = superseder[d]]_vars
  BY EvictionIsNeutral
<1> QED
  BY <1>1, TypeInvariant, PTL DEF Spec, RetentionIsNeutral

-----------------------------------------------------------------------------
(* The slice that is added for the local scope where no overlay lists it.  *)
LocalSlice == [label |-> OnPrem, resp |-> "customer", real |-> FALSE]

LEMMA SliceTypes ==
  ASSUME NEW ov \in Seq(OverlayType)
  PROVE  /\ Slices(ov) \subseteq Slice
         /\ \A s \in Slices(ov) : ~s.real => s = LocalSlice
         /\ Slices(ov) # {} => \E s \in Slices(ov) : s.label = OnPrem
         /\ Slices(ov) # {} => Listings(ov) # {}
<1>1. \A s \in RealSlices(ov) :
         /\ s \in Slice /\ s.real
         /\ \E i \in DOMAIN ov : Sliced(ov[i])
  <2> SUFFICES ASSUME NEW s \in RealSlices(ov)
               PROVE  /\ s \in Slice /\ s.real
                      /\ \E i \in DOMAIN ov : Sliced(ov[i])
    OBVIOUS
  <2>1. PICK i \in DOMAIN ov :
           Sliced(ov[i]) /\ s = [label |-> ov[i].label, resp |-> ov[i].cloud, real |-> TRUE]
    BY DEF RealSlices
  <2>2. ov[i] \in OverlayType
    OBVIOUS
  <2> QED
    BY <2>1, <2>2 DEF Sliced, OverlayType, Slice
<1>2. LocalSlice \in Slice /\ ~LocalSlice.real /\ LocalSlice.label = OnPrem
  BY DEF LocalSlice, Slice, ScopeLabels, Responsibilities, CustomerOwned
<1>3. Slices(ov) = RealSlices(ov) \/ Slices(ov) = RealSlices(ov) \cup {LocalSlice}
  BY DEF Slices, LocalSlice
<1>4. RealSlices(ov) = {} => Slices(ov) = {}
  BY DEF Slices
<1>5. Slices(ov) # {} => \E s \in Slices(ov) : s.label = OnPrem
  BY <1>2 DEF Slices, LocalSlice
<1>6. \A i \in DOMAIN ov : Sliced(ov[i]) => i \in Listings(ov)
  BY DEF Listings, Sliced, Lists
<1> QED
  BY <1>1, <1>2, <1>3, <1>4, <1>5, <1>6

LEMMA LeastIndex ==
  ASSUME NEW S \in SUBSET Nat, S # {}
  PROVE  \E i \in S : \A j \in S : i <= j
<1>1. PICK i \in S : \A j \in S : ~(<<j, i>> \in OpToRel(<, Nat))
  BY NatLessThanWellFounded, WFMin
<1>2. ASSUME NEW j \in S, ~(i <= j) PROVE FALSE
  <2>1. <<j, i>> \in Nat \X Nat /\ <<j, i>>[1] = j /\ <<j, i>>[2] = i
    OBVIOUS
  <2>2. j < i
    BY <1>2
  <2>3. <<j, i>>[1] < <<j, i>>[2]
    BY <2>1, <2>2
  <2>4. <<j, i>> \in {ss \in Nat \X Nat : ss[1] < ss[2]}
    BY <2>1, <2>3
  <2>5. <<j, i>> \in OpToRel(<, Nat)
    BY <2>4, Zenon DEF OpToRel
  <2> QED
    BY <1>1, <2>5
<1> QED
  BY <1>2

LEMMA EntryTypes ==
  ASSUME NEW ov \in Seq(OverlayType)
  PROVE  /\ Entry(ov) \in OverlayType
         /\ Listings(ov) # {} => Lists(Entry(ov))
<1>1. CASE Listings(ov) = {}
  BY <1>1 DEF Entry, Unlisted, OverlayType
<1>2. CASE Listings(ov) # {}
  <2> DEFINE i == CHOOSE k \in Listings(ov) : \A j \in Listings(ov) : k <= j
  <2>1. Listings(ov) \in SUBSET Nat
    BY DEF Listings
  <2>2. i \in Listings(ov)
    BY <1>2, <2>1, LeastIndex
  <2>3. i \in DOMAIN ov /\ Lists(ov[i])
    BY <2>2 DEF Listings
  <2>4. Entry(ov) = ov[i]
    BY <1>2 DEF Entry
  <2> HIDE DEF i
  <2> QED
    BY <2>3, <2>4
<1> QED
  BY <1>1, <1>2

-----------------------------------------------------------------------------
Flex(r) == ResolveColLFlexStatus(r)

OfModel(d) == d.source \in {"llm", "cache"}

(* What the invariant says of a decision that is about to be saved.        *)
HasBasis(d, force) ==
    d.status = "C" /\ ~force =>
        \/ ClassifyRow(row) = "8a"
        \/ "inherited" \in specified
        \/ Block.artifacts

NotOfScans(d) ==
    OfModel(d) /\ ~src.nonscan /\ d.status = "C" =>
        /\ slices # {} /\ flex = "inherited"
        /\ OnPrem \in DOMAIN d.forced /\ d.forced[OnPrem] = "C"

NotExempting(d) == OfModel(d) => d.status # "NA"

LocalStands(d) ==
    d.accepted /\ Synthesized(slices) /\ flex = "assess" =>
        /\ OnPrem \in DOMAIN d.forced => d.forced[OnPrem] # "C"
        /\ OnPrem \notin DOMAIN d.forced => d.status # "C" \/ OnPrem \notin DOMAIN d.byScope

RollupStands(d) ==
    OfModel(d) /\ d.forced # Empty =>
        /\ d.status # None
        /\ slices = {} \/ ComputeRollupStatus(PlanImplementations(d, slices)) = d.status

BlankIsHeld(d) == d.accepted /\ d.status = None => d.review

DecidedFits(d, force) ==
    /\ IsDecision(d)
    /\ HasBasis(d, force)
    /\ NotOfScans(d)
    /\ NotExempting(d)
    /\ LocalStands(d)
    /\ RollupStands(d)
    /\ BlankIsHeld(d)

(* A cached decision stands for every row, evidence and split of the        *)
(* responsibility that has its fingerprint, whatever the scopes were.      *)
CacheFits(c) ==
    /\ IsDecision(c.dec)
    /\ DOMAIN c.dec = {"status", "source", "accepted", "review", "byScope", "forced", "flagged"}
    /\ c.dec.accepted /\ ~c.dec.review
    /\ c.dec.status \in {"C", "NC"}
    /\ c.dec.status = "C" /\ ~c.fp.text[1].nonscan =>
           /\ Flex(c.fp.row) = "inherited"
           /\ OnPrem \in DOMAIN c.dec.forced /\ c.dec.forced[OnPrem] = "C"
    /\ Flex(c.fp.row) = "assess" /\ LocalSlice \in c.fp.text[2] =>
           OnPrem \in DOMAIN c.dec.forced /\ c.dec.forced[OnPrem] = "NC"
    /\ c.dec.forced # Empty =>
           \/ /\ LocalSlice \in c.fp.text[2]
              /\ ComputeRollupStatus(PlanImplementations(c.dec, c.fp.text[2])) = c.dec.status
           \/ /\ Flex(c.fp.row) = "inherited"
              /\ c.dec.status = "C"
              /\ c.dec.forced = [l \in {OnPrem} |-> "C"]
              /\ c.fp.text[2] \subseteq {c.fp.crm}

KernelInv ==
    /\ KernelTypeOK
    /\ \A c \in dcache : CacheFits(c)
    /\ call.pc = "asking" => Route(call.force) = "model"
    /\ call.pc = "decided" => DecidedFits(decision, call.force)
    /\ ScanPassIsSharedOut
    /\ LocalScopeNeverRidesAlong
    /\ ForcedRollupIsSaved
    /\ AbstainsAreHeld

LEMMA KernelInvIsSafe == KernelInv => VerdictSafe
  BY DEF KernelInv, VerdictSafe, DecidedFits, HasBasis, NotOfScans, NotExempting, OfModel,
     PassHasBasis, ScanPassIsInherited, ModelNeverExempts

LEMMA ScopesFit ==
  ASSUME KernelTypeOK
  PROVE  /\ row \in RowType /\ src \in SourceType /\ entry \in OverlayType
         /\ slices \subseteq Slice
         /\ Synthesized(slices) <=> LocalSlice \in slices
         /\ slices # {} => \E s \in slices : s.label = OnPrem
         /\ slices # {} => Lists(entry)
         /\ flex \in {"assess", "inherited", "escalate"}
<1>1. row \in RowType /\ src \in SourceType
  BY KernelAssumption DEF KernelTypeOK
<1>2. overlays \in Seq(OverlayType)
  BY KernelAssumption DEF KernelTypeOK
<1>3. entry \in OverlayType /\ (Listings(overlays) # {} => Lists(entry))
  BY <1>2, EntryTypes DEF entry
<1>4. /\ slices \subseteq Slice
      /\ \A s \in slices : ~s.real => s = LocalSlice
      /\ slices # {} => \E s \in slices : s.label = OnPrem
      /\ slices # {} => Listings(overlays) # {}
  BY <1>2, SliceTypes DEF slices
<1>5. LocalSlice.label = OnPrem /\ ~LocalSlice.real
  BY DEF LocalSlice
<1>6. Synthesized(slices) <=> LocalSlice \in slices
  BY <1>4, <1>5 DEF Synthesized
<1>7. flex \in {"assess", "inherited", "escalate"}
  BY DEF flex, ResolveColLFlexStatus
<1> QED
  BY <1>1, <1>3, <1>4, <1>6, <1>7

LEMMA RollupIs ==
  ASSUME NEW P
  PROVE  /\ ComputeRollupStatus(P) \in Statuses \cup {None}
         /\ (\E p \in P : p.status = "NC") => ComputeRollupStatus(P) = "NC"
         /\ (\E p \in P : p.status = "C") /\ (\A p \in P : p.status # "NC") =>
                ComputeRollupStatus(P) = "C"
         /\ ComputeRollupStatus(P) = "C" => \E p \in P : p.status = "C"
  BY DEF ComputeRollupStatus, Statuses, None

LEMMA PlansAre ==
  ASSUME NEW d, NEW S
  PROVE  /\ \A s \in S : \E p \in PlanImplementations(d, S) :
               p.label = s.label /\ p.resp = s.resp /\ p.status = PlanStatus(d, s)
         /\ \A p \in PlanImplementations(d, S) : \E s \in S :
               p = [label |-> s.label, resp |-> s.resp, status |-> PlanStatus(d, s)]
<1>1. ASSUME NEW s \in S
      PROVE  \E p \in PlanImplementations(d, S) :
                p.label = s.label /\ p.resp = s.resp /\ p.status = PlanStatus(d, s)
  <2> DEFINE p == [label |-> s.label, resp |-> s.resp, status |-> PlanStatus(d, s)]
  <2>1. p \in PlanImplementations(d, S)
    BY DEF PlanImplementations
  <2> QED
    BY <2>1
<1>2. ASSUME NEW p \in PlanImplementations(d, S)
      PROVE  \E s \in S :
                p = [label |-> s.label, resp |-> s.resp, status |-> PlanStatus(d, s)]
  BY <1>2 DEF PlanImplementations
<1> QED
  BY <1>1, <1>2

LEMMA RouteIs ==
  ASSUME KernelTypeOK, NEW force \in BOOLEAN
  PROVE  /\ Route(force) \in {"rule", "crm", "gap", "no_evidence", "abstain", "model"}
         /\ Route(force) = "rule" => SettledByRule
         /\ Route(force) = "gap" => SettledByColumnL /\ flex = "assess"
         /\ Route(force) = "crm" => SettledByCrm \/ (SettledByColumnL /\ flex = "inherited")
         /\ Route(force) = "model" =>
                /\ ~SettledByRule
                /\ force \/ (~SettledByColumnL /\ ~SettledByCrm /\ ~HasNoEvidence)
<1> DEFINE bySplit == [inherited |-> "crm", assess |-> "gap", escalate |-> "abstain"][flex]
<1>1. /\ bySplit \in {"crm", "gap", "abstain"}
      /\ bySplit = "gap" => flex = "assess"
      /\ bySplit = "crm" => flex = "inherited"
  BY ScopesFit
<1>2. Route(force) = IF SettledByRule THEN "rule"
                     ELSE IF force THEN "model"
                     ELSE IF SettledByColumnL THEN bySplit
                     ELSE IF SettledByCrm THEN "crm"
                     ELSE IF HasNoEvidence THEN "no_evidence"
                     ELSE IF Block.overflow THEN "abstain"
                     ELSE "model"
  BY DEF Route
<1> HIDE DEF bySplit
<1>3. CASE SettledByRule
  BY <1>2, <1>3
<1>4. CASE ~SettledByRule /\ force
  BY <1>2, <1>4
<1>5. CASE ~SettledByRule /\ ~force /\ SettledByColumnL
  BY <1>1, <1>2, <1>5
<1>6. CASE ~SettledByRule /\ ~force /\ ~SettledByColumnL
  <2>1. CASE SettledByCrm
    <3>1. Route(force) = "crm"
      BY <1>2, <1>6, <2>1
    <3> QED
      BY <3>1, <2>1
  <2>2. CASE ~SettledByCrm /\ HasNoEvidence
    BY <1>2, <1>6, <2>2
  <2>3. CASE ~SettledByCrm /\ ~HasNoEvidence
    <3>1. Route(force) = IF Block.overflow THEN "abstain" ELSE "model"
      BY <1>2, <1>6, <2>3
    <3>2. Route(force) \in {"abstain", "model"}
      BY <3>1
    <3> QED
      BY <3>2, <1>6, <2>3
  <2> QED
    BY <2>1, <2>2, <2>3
<1> QED
  BY <1>3, <1>4, <1>5, <1>6

-----------------------------------------------------------------------------
LEMMA AbstainFits ==
  ASSUME NEW force, NEW b, DOMAIN b \subseteq ScopeLabels, \A l \in DOMAIN b : b[l] \in Texts
  PROVE  DecidedFits(Abstain(b), force) /\ IsDecision(Abstain(b))
<1>1. DOMAIN Empty = {} /\ None \notin Statuses /\ None # "C" /\ None # "NA"
  BY DEF Empty, None, Statuses
<1> DEFINE d == Abstain(b)
<1>2. /\ d.status = None /\ d.source = "abstain" /\ d.accepted = TRUE /\ d.review = TRUE
      /\ d.byScope = b /\ d.forced = Empty /\ d.flagged = FALSE
  BY DEF Abstain, Decide
<1> HIDE DEF d
<1>3. IsDecision(d)
  BY <1>1, <1>2 DEF IsDecision
<1>4. DecidedFits(d, force)
  BY <1>1, <1>2, <1>3 DEF DecidedFits, HasBasis, NotOfScans, NotExempting, LocalStands,
     RollupStands, BlankIsHeld, OfModel
<1> QED
  BY <1>3, <1>4 DEF d

LEMMA RefusedFits ==
  ASSUME NEW force, NEW source \in {None, "rule", "raised"}
  PROVE  DecidedFits(Refused(source), force) /\ IsDecision(Refused(source))
<1>1. DOMAIN Empty = {} /\ None \notin Statuses /\ None \notin {"C", "NA", "llm", "cache"}
  BY DEF Empty, None, Statuses
<1> DEFINE d == Refused(source)
<1>2. /\ d.status = None /\ d.source = source /\ d.accepted = FALSE /\ d.review = FALSE
      /\ d.byScope = Empty /\ d.forced = Empty /\ d.flagged = FALSE
  BY DEF Refused, Decide
<1> HIDE DEF d
<1>3. IsDecision(d)
  BY <1>1, <1>2 DEF IsDecision
<1>4. DecidedFits(d, force)
  BY <1>1, <1>2, <1>3 DEF DecidedFits, HasBasis, NotOfScans, NotExempting, LocalStands,
     RollupStands, BlankIsHeld, OfModel
<1> QED
  BY <1>3, <1>4 DEF d

(* The decision of a settled call: nothing of the model, and the local scope*)
(* is not Compliant unless column L says so.                                *)
LEMMA DecideFits ==
  ASSUME NEW force, NEW status \in Statuses,
         NEW source \in {"rule", "crm", "no_evidence"},
         NEW b, NEW f,
         DOMAIN b \cup DOMAIN f \subseteq ScopeLabels,
         \A l \in DOMAIN b : b[l] \in Texts,
         \A l \in DOMAIN f : f[l] \in Statuses,
         HasBasis(Decide(status, source, b, f), force),
         LocalStands(Decide(status, source, b, f))
  PROVE  DecidedFits(Decide(status, source, b, f), force)
<1> DEFINE d == Decide(status, source, b, f)
<1>1. /\ d.status = status /\ d.source = source /\ d.accepted = TRUE /\ d.review = FALSE
      /\ d.byScope = b /\ d.forced = f /\ d.flagged = FALSE
  BY DEF Decide
<1>2. HasBasis(d, force) /\ LocalStands(d)
  OBVIOUS
<1> HIDE DEF d
<1>3. IsDecision(d)
  BY <1>1 DEF IsDecision
<1>4. None \notin Statuses /\ ~OfModel(d)
  BY <1>1 DEF None, Statuses, OfModel
<1>5. DecidedFits(d, force)
  BY <1>1, <1>2, <1>3, <1>4 DEF DecidedFits, NotOfScans, NotExempting,
     RollupStands, BlankIsHeld
<1> QED
  BY <1>5 DEF d

LEMMA EmptyIs == DOMAIN Empty = {} /\ \A S : [l \in {} |-> S] = Empty
  BY DEF Empty

LEMMA RuleFits ==
  ASSUME KernelTypeOK, NEW force \in BOOLEAN, NEW w \in Wordings, SettledByRule
  PROVE  DecidedFits(FinalizeRule(w), force)
<1> DEFINE status == IF ClassifyRow(row) = "8b" THEN "NA" ELSE "C"
<1>1. status \in Statuses
  BY DEF Statuses
<1>2. status = "C" => ClassifyRow(row) = "8a"
  BY DEF SettledByRule
<1> HIDE DEF status
<1>3. HasBasis(Decide(status, "rule", Empty, Empty), force)
  BY <1>2 DEF HasBasis, Decide
<1>4. LocalStands(Decide(status, "rule", Empty, Empty))
  BY EmptyIs DEF LocalStands, Decide
<1>5. DecidedFits(Decide(status, "rule", Empty, Empty), force)
  BY <1>1, <1>3, <1>4, EmptyIs, DecideFits
<1>6. FinalizeRule(w) \in {Decide(status, "rule", Empty, Empty), Refused("rule")}
  BY DEF FinalizeRule, status
<1> QED
  BY <1>5, <1>6, RefusedFits

LEMMA CrmFits ==
  ASSUME KernelTypeOK, NEW force \in BOOLEAN, NEW w \in Wordings,
         SettledByCrm \/ (SettledByColumnL /\ flex = "inherited")
  PROVE  DecidedFits(FinalizeCrm(w), force)
<1> DEFINE b == [l \in CrmScopes |-> "crm"]
<1>1. CrmStatus \in Statuses
  BY DEF CrmStatus, Statuses
<1>2. CrmStatus = "C" => "inherited" \in specified
  BY DEF CrmStatus, CountedInCrm, specified
<1>3. CrmScopes \subseteq ScopeLabels
  BY ScopesFit DEF CrmScopes, Slice
<1>4. DOMAIN b \subseteq ScopeLabels /\ \A l \in DOMAIN b : b[l] \in Texts
  BY <1>3 DEF Texts
<1>5. DOMAIN CrmForced \subseteq ScopeLabels /\ \A l \in DOMAIN CrmForced : CrmForced[l] \in Statuses
  BY DEF CrmForced, ScopeLabels, Statuses
<1>6. ~(Synthesized(slices) /\ flex = "assess")
  BY DEF SettledByCrm
<1> HIDE DEF b
<1>7. HasBasis(Decide(CrmStatus, "crm", b, CrmForced), force)
  BY <1>2 DEF HasBasis, Decide
<1>8. LocalStands(Decide(CrmStatus, "crm", b, CrmForced))
  BY <1>6 DEF LocalStands
<1>9. DecidedFits(Decide(CrmStatus, "crm", b, CrmForced), force)
  BY <1>1, <1>4, <1>5, <1>7, <1>8, DecideFits
<1>10. FinalizeCrm(w) \in {Refused("raised"), Abstain(Empty), Decide(CrmStatus, "crm", b, CrmForced)}
  BY DEF FinalizeCrm, b
<1>11. DecidedFits(Refused("raised"), force) /\ DecidedFits(Abstain(Empty), force)
  BY RefusedFits, AbstainFits, EmptyIs
<1> QED
  BY <1>9, <1>10, <1>11

LEMMA GapFits ==
  ASSUME KernelTypeOK, NEW force \in BOOLEAN, SettledByColumnL
  PROVE  DecidedFits(FinalizePhysicalOnpremGap, force)
<1> DEFINE labels == {s.label : s \in slices}
           f == [l \in labels |->
                   IF l = OnPrem THEN "NC"
                   ELSE IF \E s \in slices : /\ s.label = l
                                             /\ s.resp \in {"provider", "not_applicable"}
                   THEN "NA" ELSE "C"]
           b == [l \in DOMAIN f |-> "crm"]
           stub == Decide("NC", "crm", b, f)
           status == ComputeRollupStatus(PlanImplementations(stub, slices))
<1>1. LocalSlice \in slices
  BY ScopesFit DEF SettledByColumnL
<1>2. labels \subseteq ScopeLabels /\ OnPrem \in labels
  BY <1>1, ScopesFit DEF Slice, LocalSlice
<1>3. DOMAIN f = labels /\ f[OnPrem] = "NC" /\ \A l \in labels : f[l] \in Statuses
  BY <1>2 DEF Statuses
<1>4. FinalizePhysicalOnpremGap = [stub EXCEPT !.status = status]
  BY DEF FinalizePhysicalOnpremGap
<1>5. DOMAIN b = labels /\ \A l \in labels : b[l] \in Texts
  BY <1>3 DEF Texts
<1> HIDE DEF f, b
<1>6. PlanStatus(stub, LocalSlice) = "NC"
  BY <1>2, <1>3 DEF PlanStatus, Decide, LocalSlice
<1> HIDE DEF stub
<1>7. \E p \in PlanImplementations(stub, slices) : p.status = "NC"
  BY <1>1, <1>6, PlansAre
<1>8. status = "NC"
  BY <1>7, RollupIs
<1>9. FinalizePhysicalOnpremGap = Decide("NC", "crm", b, f)
  BY <1>4, <1>8 DEF stub, Decide
<1>10. HasBasis(Decide("NC", "crm", b, f), force)
  BY DEF HasBasis, Decide
<1>11. LocalStands(Decide("NC", "crm", b, f))
  BY <1>2, <1>3 DEF LocalStands, Decide
<1> HIDE DEF labels, status
<1>12. DecidedFits(Decide("NC", "crm", b, f), force)
  BY <1>2, <1>3, <1>5, <1>10, <1>11, DecideFits DEF Statuses
<1> QED
  BY <1>9, <1>12

LEMMA NoEvidenceFits ==
  ASSUME KernelTypeOK, NEW force \in BOOLEAN
  PROVE  DecidedFits(Decide("NC", "no_evidence", Empty, Empty), force)
<1>1. HasBasis(Decide("NC", "no_evidence", Empty, Empty), force)
  BY DEF HasBasis, Decide
<1>2. LocalStands(Decide("NC", "no_evidence", Empty, Empty))
  BY EmptyIs DEF LocalStands, Decide
<1> QED
  BY <1>1, <1>2, EmptyIs, DecideFits DEF Statuses

LEMMA SettleFits ==
  ASSUME KernelTypeOK, NEW force \in BOOLEAN, NEW w \in Wordings, Route(force) # "model"
  PROVE  DecidedFits(Settle(Route(force), w), force)
<1>1. CASE Route(force) = "rule"
  BY <1>1, RouteIs, RuleFits DEF Settle
<1>2. CASE Route(force) = "crm"
  BY <1>2, RouteIs, CrmFits DEF Settle
<1>3. CASE Route(force) = "gap"
  BY <1>3, RouteIs, GapFits DEF Settle
<1>4. CASE Route(force) = "no_evidence"
  BY <1>4, NoEvidenceFits DEF Settle
<1>5. CASE Route(force) = "abstain"
  <2>1. Settle(Route(force), w) = Abstain(Empty)
    BY <1>5 DEF Settle
  <2> QED
    BY <2>1, EmptyIs, AbstainFits
<1> QED
  BY <1>1, <1>2, <1>3, <1>4, <1>5, RouteIs

-----------------------------------------------------------------------------
LEMMA SlicesAreNoOverlays ==
  ASSUME NEW s \in Slice, NEW o \in OverlayType
  PROVE  s # o
<1>1. DOMAIN s = {"label", "resp", "real"} /\ DOMAIN o = {"label", "cloud", "prem"}
  BY DEF Slice, OverlayType
<1> QED
  BY <1>1

(* What the model is asked about: a row that no rule settles, on evidence   *)
(* unless the call is forced.                                              *)
LEMMA AskedOf ==
  ASSUME KernelTypeOK, NEW force \in BOOLEAN, Route(force) = "model"
  PROVE  /\ ~row.d
         /\ slices = {} => flex # "inherited"
         /\ ~force => Block.artifacts
<1>1. ~SettledByRule /\ (force \/ ~HasNoEvidence)
  BY RouteIs
<1>2. ~row.d
  BY <1>1 DEF SettledByRule, ClassifyRow, IsColumnDNotApplicable
<1>3. slices = {} => flex # "inherited"
  BY <1>1 DEF SettledByRule, ClassifyRow, flex, ResolveColLFlexStatus, IsColumnDNotApplicable
<1>4. ~force => Block.artifacts
  BY <1>1 DEF HasNoEvidence, IsOnlyContext
<1> QED
  BY <1>2, <1>3, <1>4

(* The block names all slices if one is the customer's, none otherwise.     *)
LEMMA HybridBlockIs ==
  ASSUME KernelTypeOK
  PROVE  /\ slices # {} /\ SliceHasCustomerWork => HybridBlock = slices
         /\ ~SliceHasCustomerWork => HybridBlock \subseteq {entry}
         /\ \A s \in slices : s \in HybridBlock => HybridBlock = slices
         /\ LocalSlice \in HybridBlock => HybridBlock = slices
<1>1. HybridBlock \in {{}, slices, {entry}}
  BY DEF HybridBlock
<1>2. LocalSlice \in Slice
  BY DEF LocalSlice, Slice, ScopeLabels, Responsibilities, CustomerOwned
<1>3. \A s \in Slice : s \in HybridBlock => HybridBlock = slices
  BY <1>1, ScopesFit, SlicesAreNoOverlays
<1>4. slices # {} /\ SliceHasCustomerWork => HybridBlock = slices
  BY ScopesFit DEF HybridBlock, NeedsHybridBlock, SuppressShortCircuit
<1>5. ~SliceHasCustomerWork => HybridBlock \subseteq {entry}
  BY DEF HybridBlock
<1> QED
  BY <1>2, <1>3, <1>4, <1>5, ScopesFit

LEMMA FingerprintIs ==
  ASSUME KernelTypeOK
  PROVE  /\ Flex(Fingerprint.row) = flex
         /\ Fingerprint.text[1] = src /\ Fingerprint.text[2] = HybridBlock
         /\ Fingerprint.crm = entry
<1>1. Fingerprint.row.l = row.l /\ Fingerprint.row.m = row.m
  BY ScopesFit DEF Fingerprint, RowType
<1> QED
  BY <1>1 DEF Fingerprint, Flex, flex, ResolveColLFlexStatus

LEMMA NoCustomerSlice ==
  ASSUME KernelTypeOK, ~SliceHasCustomerWork, NEW s \in slices
  PROVE  s.real => s.resp \in ShortCircuit
  BY ScopesFit DEF SliceHasCustomerWork, Slice, Responsibilities

LEMMA ShortCircuitPlan ==
  ASSUME NEW d, NEW s, s.resp \in ShortCircuit, s.label \notin DOMAIN d.forced
  PROVE  PlanStatus(d, s) \in {"C", "NA"}
  BY DEF PlanStatus, ShortCircuit, Inheritable

(* A cached decision fits whatever scopes the objective has by now.         *)
LEMMA CachedFits ==
  ASSUME KernelTypeOK, Route(FALSE) = "model", NEW c \in dcache, CacheFits(c),
         c.fp = Fingerprint
  PROVE  DecidedFits([c.dec EXCEPT !.source = "cache"], FALSE)
<1> DEFINE d == [c.dec EXCEPT !.source = "cache"]
<1>1. /\ d.status = c.dec.status /\ d.source = "cache" /\ d.accepted = c.dec.accepted
      /\ d.review = c.dec.review /\ d.byScope = c.dec.byScope /\ d.forced = c.dec.forced
      /\ d.flagged = c.dec.flagged
  BY DEF CacheFits
<1> HIDE DEF d
<1>2. d.status \in {"C", "NC"} /\ d.status # None
  BY <1>1 DEF CacheFits, None
<1>3. IsDecision(d)
  BY <1>1 DEF CacheFits, IsDecision
<1>4. HasBasis(d, FALSE)
  BY AskedOf DEF HasBasis
<1>5. NotOfScans(d)
  <2> SUFFICES ASSUME ~src.nonscan, d.status = "C"
               PROVE  /\ slices # {} /\ flex = "inherited"
                      /\ OnPrem \in DOMAIN d.forced /\ d.forced[OnPrem] = "C"
    BY DEF NotOfScans
  <2>1. /\ flex = "inherited"
        /\ OnPrem \in DOMAIN d.forced /\ d.forced[OnPrem] = "C"
    BY <1>1, FingerprintIs DEF CacheFits
  <2> QED
    BY <2>1, AskedOf
<1>6. NotExempting(d)
  BY <1>2 DEF NotExempting
<1>7. LocalStands(d)
  <2> SUFFICES ASSUME Synthesized(slices), flex = "assess"
               PROVE  OnPrem \in DOMAIN d.forced /\ d.forced[OnPrem] = "NC"
    BY DEF LocalStands
  <2>1. LocalSlice \in slices /\ SliceHasCustomerWork
    BY ScopesFit DEF SliceHasCustomerWork
  <2>2. LocalSlice \in HybridBlock
    BY <2>1, HybridBlockIs
  <2> QED
    BY <1>1, <2>2, FingerprintIs DEF CacheFits
<1>8. RollupStands(d)
  <2> SUFFICES ASSUME d.forced # Empty, slices # {}
               PROVE  ComputeRollupStatus(PlanImplementations(d, slices)) = d.status
    BY <1>2 DEF RollupStands
  <2>1. CASE /\ LocalSlice \in HybridBlock
             /\ ComputeRollupStatus(PlanImplementations(c.dec, HybridBlock)) = c.dec.status
    <3>1. \A s \in slices : PlanStatus(d, s) = PlanStatus(c.dec, s)
      BY <1>1 DEF PlanStatus
    <3>2. PlanImplementations(d, slices) = PlanImplementations(c.dec, slices)
      BY <3>1 DEF PlanImplementations
    <3> QED
      BY <1>1, <2>1, <3>2, HybridBlockIs
  <2>2. CASE /\ flex = "inherited"
             /\ d.status = "C"
             /\ d.forced = [l \in {OnPrem} |-> "C"]
             /\ HybridBlock \subseteq {entry}
    <3>1. ~SliceHasCustomerWork
      <4> SUFFICES ASSUME SliceHasCustomerWork PROVE FALSE
        OBVIOUS
      <4>1. PICK s \in slices : s \in HybridBlock
        BY HybridBlockIs
      <4> QED
        BY <4>1, <2>2, ScopesFit, SlicesAreNoOverlays
    <3>2. LocalSlice \notin slices
      <4> SUFFICES ASSUME LocalSlice \in slices PROVE FALSE
        OBVIOUS
      <4>1. \A s \in slices : s.label # OnPrem => s.real
        <5> SUFFICES ASSUME NEW s \in slices, s.label # OnPrem, ~s.real PROVE FALSE
          BY ScopesFit DEF Slice
        <5>1. s = LocalSlice
          BY SliceTypes, KernelAssumption DEF slices, KernelTypeOK
        <5> QED
          BY <5>1 DEF LocalSlice
      <4>2. CloudsAllInheritable
        BY <3>1, <4>1, NoCustomerSlice DEF CloudsAllInheritable
      <4>3. SettledByColumnL
        BY <2>2, <4>2, ScopesFit DEF SettledByColumnL
      <4> QED
        BY <4>3, RouteIs
    <3>3. \A s \in slices : s.real
      BY <3>2, SliceTypes, KernelAssumption, ScopesFit DEF slices, KernelTypeOK, Slice
    <3>4. \A s \in slices : PlanStatus(d, s) \in {"C", "NA"}
      <4> SUFFICES ASSUME NEW s \in slices PROVE PlanStatus(d, s) \in {"C", "NA"}
        OBVIOUS
      <4>1. CASE s.label = OnPrem
        BY <2>2, <4>1 DEF PlanStatus
      <4>2. CASE s.label # OnPrem
        <5>1. s.label \notin DOMAIN d.forced /\ s.resp \in ShortCircuit
          BY <2>2, <3>1, <3>3, <4>2, NoCustomerSlice
        <5> QED
          BY <5>1, ShortCircuitPlan
      <4> QED
        BY <4>1, <4>2
    <3>5. PICK s \in slices : s.label = OnPrem
      BY ScopesFit
    <3>6. PlanStatus(d, s) = "C"
      BY <2>2, <3>5 DEF PlanStatus
    <3> QED
      BY <2>2, <3>4, <3>6, PlansAre, RollupIs
  <2> QED
    BY <1>1, <2>1, <2>2, FingerprintIs DEF CacheFits
<1>9. BlankIsHeld(d)
  BY <1>2 DEF BlankIsHeld
<1>10. DecidedFits(d, FALSE)
  BY <1>3, <1>4, <1>5, <1>6, <1>7, <1>8, <1>9 DEF DecidedFits
<1> QED
  BY <1>10 DEF d
-----------------------------------------------------------------------------
LEMMA ClassesAre ==
  ASSUME NEW n PROVE ClassifyNarrative(n) \in Statuses \cup {"AMB"}
<1>1. \A h : ClassifySingle(h) \in Statuses \cup {"AMB"}
  BY DEF ClassifySingle, EmbeddingClass, Statuses
<1>2. \A S : MergeHybridClasses(S) \in Statuses \cup {"AMB"}
  BY DEF MergeHybridClasses, Statuses
<1> HIDE DEF ClassifySingle, MergeHybridClasses
<1> QED
  BY <1>1, <1>2 DEF ClassifyNarrative

LEMMA TextsAre ==
  ASSUME NEW S \in SUBSET Slice, NEW prem \in Halves, NEW cloud \in Halves,
         NEW own \in [ScopeLabels -> Halves]
  PROVE  /\ DOMAIN NarrativesByScope(S, prem, cloud, own) \subseteq ScopeLabels
         /\ \A l \in DOMAIN NarrativesByScope(S, prem, cloud, own) :
               NarrativesByScope(S, prem, cloud, own)[l] \in Statuses \cup {"AMB"}
<1> DEFINE Text(l) == IF own[l] # None THEN own[l] ELSE IF l = OnPrem THEN prem ELSE cloud
           told == {s.label : s \in {t \in S : t.resp \in CustomerOwned}}
           D == {x \in told : Text(x) # None}
<1>1. told \subseteq ScopeLabels
  BY DEF Slice
<1>2. \A l \in ScopeLabels : Text(l) \in Halves
  OBVIOUS
<1>3. NarrativesByScope(S, prem, cloud, own) = [l \in D |-> Text(l)]
  BY DEF NarrativesByScope
<1>4. \A l \in D : Text(l) \in Statuses \cup {"AMB"}
  BY <1>1, <1>2 DEF Halves
<1> HIDE DEF Text, told
<1> QED
  BY <1>1, <1>3, <1>4

LEMMA ToldFits ==
  ASSUME KernelTypeOK, NEW p \in AnswerType
  PROVE  /\ DOMAIN Told(p) \subseteq ScopeLabels
         /\ \A l \in DOMAIN Told(p) : Told(p)[l] \in Texts
<1>1. p.prem \in Halves /\ p.cloud \in Halves /\ p.own \in [ScopeLabels -> Halves]
  BY DEF AnswerType
<1>2. slices \in SUBSET Slice
  BY ScopesFit
<1>3. /\ DOMAIN NarrativesByScope(slices, p.prem, p.cloud, p.own) \subseteq ScopeLabels
      /\ \A l \in DOMAIN NarrativesByScope(slices, p.prem, p.cloud, p.own) :
            NarrativesByScope(slices, p.prem, p.cloud, p.own)[l] \in Statuses \cup {"AMB"}
  BY <1>1, <1>2, TextsAre
<1> QED
  BY <1>3 DEF Told, Texts

(* An answer that passed the validator exempts nothing, and passes on       *)
(* nothing but scans only where the evidence is corroborated.              *)
LEMMA ValidAnswer ==
  ASSUME KernelTypeOK, NEW force \in BOOLEAN, Route(force) = "model", NEW p \in AnswerType,
         ~Fails(p)
  PROVE  /\ p.status \in {"C", "NC"}
         /\ ~src.nonscan => p.status = "NC"
<1>1. p.status \in Statuses
  BY DEF AnswerType
<1>2. p.status # "NA"
  BY AskedOf DEF Fails, Exempts, IsColumnDNotApplicable
<1>3. ASSUME ~src.nonscan, p.status = "C" PROVE FALSE
  <2>1. Corroborated = "no"
    BY <1>3 DEF Corroborated, Block
  <2>2. "uncorroborated" \in Rejections(p.status, p.narr, Block.text # None \/ HybridBlock # {},
                                         Corroborated)
    BY <2>1, <1>3 DEF Rejections
  <2> QED
    BY <2>2 DEF Fails
<1> QED
  BY <1>1, <1>2, <1>3 DEF Statuses

(* What column L settles of the local scope.                               *)
LocalForced == IF flex = "inherited" THEN "C" ELSE "NC"

(* The decision the model's answer becomes, in the terms of the invariant.  *)
AcceptedIs(p, d) ==
    /\ DOMAIN d = {"status", "source", "accepted", "review", "byScope", "forced", "flagged"}
    /\ IsDecision(d)
    /\ d.source = "llm" /\ d.accepted = TRUE /\ d.review = FALSE
    /\ d.forced = [l \in DOMAIN d.forced |-> d.forced[l]]
    /\ ~(Synthesized(slices) /\ flex # "escalate") => d.forced = Empty /\ d.status = p.status
    /\ Synthesized(slices) /\ flex # "escalate" =>
          /\ DOMAIN d.forced = {OnPrem} \cup {s.label : s \in {t \in slices : t.label # OnPrem
                                                             /\ t.resp \in CustomerOwned}}
          /\ d.forced[OnPrem] = LocalForced
          /\ d.status = ComputeRollupStatus(PlanImplementations(d, slices))

LEMMA AcceptedDecisionIs ==
  ASSUME KernelTypeOK, NEW p \in AnswerType
  PROVE  AcceptedIs(p, AcceptedDecision(p))
<1> DEFINE halves == IF p.prem = None /\ p.cloud = None
                     THEN <<ClassifyNarrative(p.narr), None>> ELSE <<p.prem, p.cloud>>
           told == IF HasCustomerScope
                   THEN NarrativesByScope(slices, halves[1], halves[2], p.own)
                   ELSE NarrativesByScope(slices, None, None, p.own)
           pie == Synthesized(slices)
           byScope == [l \in DOMAIN told \cup {x \in {OnPrem} : pie} |->
                         IF l = OnPrem /\ pie THEN "column_L" ELSE told[l]]
           pinned == {s.label : s \in {t \in slices : t.label # OnPrem
                                       /\ t.resp \in CustomerOwned}}
           Pin(l) == IF l = OnPrem THEN (IF flex = "inherited" THEN "C" ELSE "NC")
                     ELSE IF l \in DOMAIN byScope /\ ExpectedStatusForClass(byScope[l]) # None
                     THEN byScope[l] ELSE p.status
           forced == IF pie /\ flex # "escalate"
                     THEN [l \in pinned \cup {OnPrem} |-> Pin(l)] ELSE Empty
           flags == DualNarrativeFlags(p.prem, p.cloud, CheckedResponsibility,
                                       p.misplaced) # {}
           dec == [Decide(p.status, "llm", byScope, forced) EXCEPT !.flagged = flags]
           rollup == ComputeRollupStatus(PlanImplementations(dec, slices))
           D == AcceptedDecision(p)
<1>1. D = IF forced = Empty THEN dec ELSE [dec EXCEPT !.status = rollup]
  BY DEF AcceptedDecision
<1>2. /\ p.prem \in Halves /\ p.cloud \in Halves /\ p.own \in [ScopeLabels -> Halves]
      /\ p.status \in Statuses
  BY DEF AnswerType
<1>3. halves[1] \in Halves /\ halves[2] \in Halves /\ None \in Halves
  BY <1>2, ClassesAre DEF Halves
<1>4. DOMAIN told \subseteq ScopeLabels /\ \A l \in DOMAIN told : told[l] \in Statuses \cup {"AMB"}
  <2> HIDE DEF halves
  <2> QED
    BY <1>2, <1>3, ScopesFit, TextsAre
<1> HIDE DEF halves, told
<1>5. OnPrem \in ScopeLabels
  BY DEF ScopeLabels
<1>6. /\ DOMAIN byScope \subseteq ScopeLabels
      /\ \A l \in DOMAIN byScope : byScope[l] \in Texts
  BY <1>4, <1>5 DEF Texts
<1> HIDE DEF byScope
<1>7. \A l : Pin(l) \in Statuses
  <2> SUFFICES ASSUME NEW l PROVE Pin(l) \in Statuses
    OBVIOUS
  <2>1. CASE l = OnPrem
    BY <2>1 DEF Statuses
  <2>2. CASE l # OnPrem /\ l \in DOMAIN byScope /\ ExpectedStatusForClass(byScope[l]) # None
    BY <2>2 DEF ExpectedStatusForClass
  <2>3. CASE l # OnPrem /\ ~(l \in DOMAIN byScope /\ ExpectedStatusForClass(byScope[l]) # None)
    BY <2>3, <1>2
  <2> QED
    BY <2>1, <2>2, <2>3
<1>8. Pin(OnPrem) = LocalForced
  BY DEF LocalForced
<1> HIDE DEF Pin
<1>9. pinned \subseteq ScopeLabels
  BY ScopesFit DEF Slice
<1> HIDE DEF pinned
<1>10. pie /\ flex # "escalate" => /\ DOMAIN forced = {OnPrem} \cup pinned
                                   /\ forced[OnPrem] = LocalForced
                                   /\ forced # Empty
  BY <1>8, EmptyIs
<1>11. ~(pie /\ flex # "escalate") => forced = Empty
  OBVIOUS
<1>12. DOMAIN forced \subseteq ScopeLabels /\ \A l \in DOMAIN forced : forced[l] \in Statuses
  BY <1>5, <1>7, <1>9, EmptyIs
<1>20. forced = [l \in DOMAIN forced |-> forced[l]]
  BY DEF Empty
<1> HIDE DEF forced, flags
<1>13. flags \in BOOLEAN
  BY DEF flags
<1>14. /\ DOMAIN dec = {"status", "source", "accepted", "review", "byScope", "forced", "flagged"}
       /\ dec.status = p.status /\ dec.source = "llm" /\ dec.accepted = TRUE
       /\ dec.review = FALSE /\ dec.byScope = byScope /\ dec.forced = forced
       /\ dec.flagged = flags
  BY DEF Decide
<1> HIDE DEF dec
<1>15. rollup \in Statuses \cup {None}
  BY RollupIs
<1>16. /\ DOMAIN D = {"status", "source", "accepted", "review", "byScope", "forced", "flagged"}
       /\ D.status = IF forced = Empty THEN p.status ELSE rollup
       /\ D.source = "llm" /\ D.accepted = TRUE
       /\ D.review = FALSE /\ D.byScope = byScope /\ D.forced = forced
       /\ D.flagged = flags
  <2> HIDE DEF D, rollup
  <2>1. CASE forced = Empty
    BY <2>1, <1>1, <1>14
  <2>2. CASE forced # Empty
    BY <2>2, <1>1, <1>14
  <2> QED
    BY <2>1, <2>2
<1> HIDE DEF D
<1>17. IsDecision(D)
  BY <1>2, <1>6, <1>12, <1>13, <1>15, <1>16 DEF IsDecision
<1>18. ASSUME pie, flex # "escalate"
       PROVE  D.status = ComputeRollupStatus(PlanImplementations(D, slices))
  <2>1. D.status = rollup /\ DOMAIN forced = {OnPrem} \cup pinned
    BY <1>10, <1>16, <1>18
  <2>2. \A s \in slices : s.label \in DOMAIN forced \/ s.resp \in ShortCircuit
    BY <2>1, ScopesFit DEF pinned, Slice, Responsibilities
  <2>3. \A s \in slices : PlanStatus(D, s) = PlanStatus(dec, s)
    BY <2>2, <1>14, <1>16 DEF PlanStatus, ShortCircuit
  <2>4. PlanImplementations(D, slices) = PlanImplementations(dec, slices)
    BY <2>3 DEF PlanImplementations
  <2> QED
    BY <2>1, <2>4
<1> HIDE DEF rollup
<1>19. AcceptedIs(p, D)
  BY <1>10, <1>11, <1>16, <1>17, <1>18, <1>20 DEF AcceptedIs, pinned
<1> QED
  BY <1>19 DEF D
LEMMA AcceptedFits ==
  ASSUME KernelTypeOK, NEW force \in BOOLEAN, Route(force) = "model", NEW p \in AnswerType,
         ~Fails(p)
  PROVE  /\ DecidedFits(AcceptedDecision(p), force)
         /\ CacheFits([fp |-> Fingerprint, dec |-> AcceptedDecision(p)])
<1> DEFINE d == AcceptedDecision(p)
           c == [fp |-> Fingerprint, dec |-> d]
<1>1. AcceptedIs(p, d)
  BY AcceptedDecisionIs
<1>2. c.dec = d /\ c.fp = Fingerprint
  OBVIOUS
<1> HIDE DEF d, c
<1>3. p.status \in {"C", "NC"} /\ (~src.nonscan => p.status = "NC")
  BY ValidAnswer
<1>4. LocalForced \in {"C", "NC"}
  BY DEF LocalForced
<1>5. ASSUME LocalSlice \in slices, flex # "escalate"
      PROVE  /\ d.status \in {"C", "NC"}
             /\ flex = "assess" => d.status = "NC"
             /\ OnPrem \in DOMAIN d.forced /\ d.forced[OnPrem] = LocalForced
             /\ d.status = ComputeRollupStatus(PlanImplementations(d, slices))
  <2>1. /\ OnPrem \in DOMAIN d.forced /\ d.forced[OnPrem] = LocalForced
        /\ d.status = ComputeRollupStatus(PlanImplementations(d, slices))
    BY <1>1, <1>5, ScopesFit DEF AcceptedIs
  <2>2. PlanStatus(d, LocalSlice) = LocalForced
    BY <2>1 DEF PlanStatus, LocalSlice
  <2>3. \E q \in PlanImplementations(d, slices) : q.status = LocalForced
    BY <2>2, <1>5, PlansAre
  <2>4. LocalForced = "NC" => d.status = "NC"
    BY <2>1, <2>3, RollupIs
  <2>5. LocalForced = "C" => d.status \in {"C", "NC"}
    BY <2>1, <2>3, RollupIs
  <2> QED
    BY <1>4, <2>1, <2>4, <2>5 DEF LocalForced
<1>6. ASSUME ~(LocalSlice \in slices /\ flex # "escalate")
      PROVE  d.forced = Empty /\ d.status = p.status
  BY <1>1, <1>6, ScopesFit DEF AcceptedIs
<1>7. d.status \in {"C", "NC"}
  BY <1>3, <1>5, <1>6
<1>8. d.status = "C" /\ ~src.nonscan =>
         /\ flex = "inherited"
         /\ OnPrem \in DOMAIN d.forced /\ d.forced[OnPrem] = "C"
  <2> SUFFICES ASSUME d.status = "C", ~src.nonscan
               PROVE  /\ flex = "inherited"
                      /\ OnPrem \in DOMAIN d.forced /\ d.forced[OnPrem] = "C"
    OBVIOUS
  <2>1. LocalSlice \in slices /\ flex # "escalate"
    BY <1>3, <1>6
  <2>2. flex = "inherited"
    BY <1>5, <2>1, ScopesFit
  <2> QED
    BY <1>5, <2>1, <2>2 DEF LocalForced
<1>9. ASSUME flex = "assess", LocalSlice \in slices
      PROVE  OnPrem \in DOMAIN d.forced /\ d.forced[OnPrem] = "NC"
  BY <1>5, <1>9 DEF LocalForced
<1>10. ASSUME d.forced # Empty, ~SliceHasCustomerWork
       PROVE  /\ flex = "inherited"
              /\ d.status = "C"
              /\ d.forced = [l \in {OnPrem} |-> "C"]
              /\ HybridBlock \subseteq {entry}
  <2>1. LocalSlice \in slices /\ flex # "escalate"
    BY <1>6, <1>10
  <2>2. flex = "inherited"
    BY <2>1, <1>10, ScopesFit DEF SliceHasCustomerWork
  <2>3. \A s \in slices : s.label # OnPrem => s.real
    <3> SUFFICES ASSUME NEW s \in slices, s.label # OnPrem, ~s.real PROVE FALSE
      BY ScopesFit DEF Slice
    <3>1. s = LocalSlice
      BY SliceTypes, KernelAssumption DEF slices, KernelTypeOK
    <3> QED
      BY <3>1 DEF LocalSlice
  <2>4. \A s \in slices : s.label # OnPrem => s.resp \in ShortCircuit
    BY <2>3, <1>10, NoCustomerSlice
  <2>5. {s.label : s \in {t \in slices : t.label # OnPrem /\ t.resp \in CustomerOwned}} = {}
    BY <2>4 DEF ShortCircuit, Inheritable, CustomerOwned
  <2>6. /\ DOMAIN d.forced = {OnPrem} /\ d.forced[OnPrem] = "C"
        /\ d.forced = [l \in DOMAIN d.forced |-> d.forced[l]]
    BY <1>1, <2>1, <2>2, <2>5, ScopesFit DEF AcceptedIs, LocalForced
  <2>7. \A s \in slices : PlanStatus(d, s) \in {"C", "NA"}
    <3> SUFFICES ASSUME NEW s \in slices PROVE PlanStatus(d, s) \in {"C", "NA"}
      OBVIOUS
    <3>1. CASE s.label = OnPrem
      BY <2>6, <3>1 DEF PlanStatus
    <3>2. CASE s.label # OnPrem
      BY <2>4, <2>6, <3>2, ShortCircuitPlan
    <3> QED
      BY <3>1, <3>2
  <2>8. PlanStatus(d, LocalSlice) = "C"
    BY <2>6 DEF PlanStatus, LocalSlice
  <2>9. d.status = "C"
    BY <1>5, <2>1, <2>7, <2>8, PlansAre, RollupIs
  <2>10. d.forced = [l \in {OnPrem} |-> "C"]
    BY <2>6
  <2> QED
    BY <2>2, <2>9, <2>10, <1>10, HybridBlockIs
<1>11. ASSUME d.forced # Empty, SliceHasCustomerWork
       PROVE  /\ LocalSlice \in HybridBlock
              /\ ComputeRollupStatus(PlanImplementations(d, HybridBlock)) = d.status
  <2>1. LocalSlice \in slices /\ flex # "escalate"
    BY <1>6, <1>11
  <2>2. HybridBlock = slices
    BY <2>1, <1>11, HybridBlockIs
  <2> QED
    BY <2>1, <2>2, <1>5
<1>12. CacheFits(c)
  <2>1. flex = "assess" /\ LocalSlice \in HybridBlock =>
           OnPrem \in DOMAIN d.forced /\ d.forced[OnPrem] = "NC"
    BY <1>9, HybridBlockIs
  <2>2. d.forced # Empty =>
           \/ /\ LocalSlice \in HybridBlock
              /\ ComputeRollupStatus(PlanImplementations(d, HybridBlock)) = d.status
           \/ /\ flex = "inherited"
              /\ d.status = "C"
              /\ d.forced = [l \in {OnPrem} |-> "C"]
              /\ HybridBlock \subseteq {entry}
    BY <1>10, <1>11
  <2> QED
    BY <1>1, <1>2, <1>7, <1>8, <2>1, <2>2, FingerprintIs DEF CacheFits, AcceptedIs
<1>13. HasBasis(d, force)
  BY AskedOf DEF HasBasis
<1>14. NotOfScans(d)
  BY <1>8, AskedOf DEF NotOfScans
<1>15. NotExempting(d)
  BY <1>7 DEF NotExempting
<1>16. LocalStands(d)
  BY <1>9, ScopesFit DEF LocalStands
<1>17. RollupStands(d)
  BY <1>5, <1>6, <1>7 DEF RollupStands, None
<1>18. BlankIsHeld(d)
  BY <1>7 DEF BlankIsHeld, None
<1>19. DecidedFits(d, force)
  BY <1>1, <1>13, <1>14, <1>15, <1>16, <1>17, <1>18 DEF DecidedFits, AcceptedIs
<1> QED
  BY <1>12, <1>19 DEF c, d

-----------------------------------------------------------------------------
(* The verdicts on a decision depend on the row, its overlays and the       *)
(* evidence alone.                                                         *)
LEMMA ViewStays ==
  ASSUME UNCHANGED <<row, overlays, src>>
  PROVE  /\ row' = row /\ src' = src /\ entry' = entry /\ slices' = slices /\ flex' = flex
         /\ specified' = specified /\ Block' = Block
<1>1. row' = row /\ overlays' = overlays /\ src' = src
  OBVIOUS
<1>2. entry' = entry /\ slices' = slices
  BY <1>1 DEF entry, slices
<1>3. flex' = flex /\ Block' = Block
  BY <1>1 DEF flex, Block
<1>4. specified' = specified
  BY <1>2 DEF specified
<1> QED
  BY <1>1, <1>2, <1>3, <1>4

LEMMA DecidedMoves ==
  ASSUME UNCHANGED <<row, overlays, src>>, NEW d, NEW force,
         decision' = d, call'.force = force, DecidedFits(d, force)
  PROVE  DecidedFits(decision, call.force)'
<1>1. HasBasis(decision, call.force)'
  BY ViewStays DEF HasBasis, DecidedFits
<1>2. NotOfScans(decision)'
  BY ViewStays DEF NotOfScans, OfModel, DecidedFits
<1>3. LocalStands(decision)'
  BY ViewStays DEF LocalStands, DecidedFits
<1>4. RollupStands(decision)'
  BY ViewStays DEF RollupStands, OfModel, DecidedFits
<1>5. IsDecision(decision)' /\ NotExempting(decision)' /\ BlankIsHeld(decision)'
  BY DEF DecidedFits, IsDecision, NotExempting, OfModel, BlankIsHeld
<1> QED
  BY <1>1, <1>2, <1>3, <1>4, <1>5 DEF DecidedFits

LEMMA RouteMoves ==
  ASSUME UNCHANGED <<row, overlays, src>>, NEW force, call'.force = force
  PROVE  Route(call.force)' = Route(force)
<1>1. SettledByRule' = SettledByRule
  BY ViewStays DEF SettledByRule
<1>2. AllInheritable' = AllInheritable /\ CloudsAllInheritable' = CloudsAllInheritable
  BY ViewStays DEF AllInheritable, CloudsAllInheritable
<1>3. SliceHasCustomerWork' = SliceHasCustomerWork
  BY ViewStays DEF SliceHasCustomerWork
<1>4. DistinctScopeLabelCount(overlays)' = DistinctScopeLabelCount(overlays)
  BY DEF DistinctScopeLabelCount
<1>5. SuppressShortCircuit' = SuppressShortCircuit
  BY ViewStays, <1>2, <1>3, <1>4 DEF SuppressShortCircuit
<1>6. SettledByColumnL' = SettledByColumnL /\ SettledByCrm' = SettledByCrm
  BY ViewStays, <1>2, <1>5 DEF SettledByColumnL, SettledByCrm
<1>7. HasNoEvidence' = HasNoEvidence
  BY ViewStays DEF HasNoEvidence
<1> QED
  BY ViewStays, <1>1, <1>6, <1>7 DEF Route

LEMMA CacheFitsStays == \A c : CacheFits(c)' <=> CacheFits(c)
  BY DEF CacheFits

CallTypes == [pc : {"idle", "asking", "decided", "saved"}, force : BOOLEAN, try : 0..MaxRetries]

(* A step of a running call: it asks, or has decided.                       *)
LEMMA CallMoves ==
  ASSUME KernelInv, UNCHANGED <<row, overlays, src, dual, saved, impls, edits>>,
         calls' \in 0..MaxCalls, call' \in CallTypes, call'.pc \in {"asking", "decided"},
         \A c \in dcache' : CacheFits(c),
         NEW d, NEW force, decision' = d, call'.force = force, IsDecision(d),
         call'.pc = "asking" => Route(force) = "model",
         call'.pc = "decided" => DecidedFits(d, force)
  PROVE  KernelInv'
<1>1. KernelTypeOK'
  BY DEF KernelInv, KernelTypeOK, IsDecision, CallTypes
<1>2. \A c \in dcache' : CacheFits(c)'
  BY CacheFitsStays
<1>3. (call.pc = "asking" => Route(call.force) = "model")'
  BY RouteMoves
<1>4. (call.pc = "decided" => DecidedFits(decision, call.force))'
  BY DecidedMoves
<1>5. ScanPassIsSharedOut' /\ LocalScopeNeverRidesAlong' /\ ForcedRollupIsSaved' /\ AbstainsAreHeld'
  BY DEF ScanPassIsSharedOut, LocalScopeNeverRidesAlong, ForcedRollupIsSaved, AbstainsAreHeld
<1> QED
  BY <1>1, <1>2, <1>3, <1>4, <1>5 DEF KernelInv

(* A step after which nothing is running and nothing was just saved.        *)
LEMMA CallEnds ==
  ASSUME KernelInv, UNCHANGED <<dual, dcache, saved, impls, calls>>,
         call' = NoCall, decision' = Refused(None),
         row' \in Rows, src' \in Sources, edits' \in 0..MaxEdits,
         overlays' \in Seq(Overlays), Len(overlays') <= MaxOverlays
  PROVE  KernelInv'
<1>1. NoCall \in CallTypes /\ NoCall.pc = "idle"
  BY KernelAssumption DEF NoCall, CallTypes
<1>2. IsDecision(decision)'
  BY RefusedFits DEF IsDecision
<1>3. KernelTypeOK'
  BY <1>1, <1>2 DEF KernelInv, KernelTypeOK, CallTypes
<1>4. \A c \in dcache' : CacheFits(c)'
  BY CacheFitsStays DEF KernelInv
<1> QED
  BY <1>1, <1>3, <1>4 DEF KernelInv, ScanPassIsSharedOut, LocalScopeNeverRidesAlong, ForcedRollupIsSaved,
     AbstainsAreHeld

-----------------------------------------------------------------------------
LEMMA DeterministicKeeps ==
  ASSUME KernelInv, NEW force \in BOOLEAN, NEW w \in Wordings, AssessDeterministic(force, w)
  PROVE  KernelInv'
<1> DEFINE d == Settle(Route(force), w)
<1>1. KernelTypeOK /\ calls \in 0..MaxCalls /\ \A c \in dcache : CacheFits(c)
  BY DEF KernelInv, KernelTypeOK
<1>2. DecidedFits(d, force)
  BY <1>1, SettleFits DEF AssessDeterministic
<1> HIDE DEF d
<1>3. /\ UNCHANGED <<row, overlays, src, dual, saved, impls, edits>>
      /\ dcache' = dcache /\ calls < MaxCalls /\ calls' = calls + 1
      /\ call' = [pc |-> "decided", force |-> force, try |-> 0]
      /\ decision' = d
  BY DEF AssessDeterministic, Start, d
<1>4. calls' \in 0..MaxCalls /\ call' \in CallTypes /\ call'.pc = "decided" /\ call'.force = force
  BY <1>1, <1>3, KernelAssumption DEF CallTypes
<1>5. IsDecision(d)
  BY <1>2 DEF DecidedFits
<1> QED
  BY <1>1, <1>2, <1>3, <1>4, <1>5, CallMoves

LEMMA CachedKeeps ==
  ASSUME KernelInv, NEW force \in BOOLEAN, AssessCached(force)
  PROVE  KernelInv'
<1>1. KernelTypeOK /\ calls \in 0..MaxCalls /\ \A c \in dcache : CacheFits(c)
  BY DEF KernelInv, KernelTypeOK
<1>2. force = FALSE
  BY DEF AssessCached
<1>3. PICK c \in Cached : decision' = [c.dec EXCEPT !.source = "cache"]
  BY DEF AssessCached
<1>4. c \in dcache /\ c.fp = Fingerprint
  BY DEF Cached
<1> DEFINE d == [c.dec EXCEPT !.source = "cache"]
<1>5. DecidedFits(d, FALSE)
  BY <1>1, <1>2, <1>4, CachedFits DEF AssessCached
<1>6. decision' = d
  BY <1>3
<1> HIDE DEF d
<1>7. /\ UNCHANGED <<row, overlays, src, dual, saved, impls, edits>>
      /\ dcache' = dcache /\ calls < MaxCalls /\ calls' = calls + 1
      /\ call' = [pc |-> "decided", force |-> FALSE, try |-> 0]
  BY <1>2 DEF AssessCached, Start
<1>8. calls' \in 0..MaxCalls /\ call' \in CallTypes /\ call'.pc = "decided" /\ call'.force = FALSE
  BY <1>1, <1>7, KernelAssumption DEF CallTypes
<1>9. IsDecision(d)
  BY <1>5 DEF DecidedFits
<1> QED
  BY <1>1, <1>5, <1>6, <1>7, <1>8, <1>9, CallMoves

LEMMA ByModelKeeps ==
  ASSUME KernelInv, NEW force \in BOOLEAN, NEW client \in BOOLEAN, AssessByModel(force, client)
  PROVE  KernelInv'
<1> DEFINE d == IF client THEN decision ELSE Abstain(Empty)
           pc == IF client THEN "asking" ELSE "decided"
<1>1. /\ KernelTypeOK /\ calls \in 0..MaxCalls /\ \A c \in dcache : CacheFits(c)
      /\ IsDecision(decision)
  BY DEF KernelInv, KernelTypeOK
<1>2. DecidedFits(Abstain(Empty), force) /\ IsDecision(Abstain(Empty))
  BY AbstainFits, EmptyIs
<1>3. IsDecision(d) /\ (pc = "decided" => DecidedFits(d, force)) /\ pc \in {"asking", "decided"}
  BY <1>1, <1>2
<1>4. /\ UNCHANGED <<row, overlays, src, dual, saved, impls, edits>>
      /\ dcache' \subseteq dcache /\ calls < MaxCalls /\ calls' = calls + 1
      /\ call' = [pc |-> pc, force |-> force, try |-> 0]
      /\ decision' = d /\ Route(force) = "model"
  BY DEF AssessByModel, Start
<1> HIDE DEF d, pc
<1>5. calls' \in 0..MaxCalls /\ call' \in CallTypes /\ call'.pc = pc /\ call'.force = force
  BY <1>1, <1>3, <1>4, KernelAssumption DEF CallTypes
<1>6. \A c \in dcache' : CacheFits(c)
  BY <1>1, <1>4
<1> QED
  BY <1>3, <1>4, <1>5, <1>6, CallMoves

(* The end of an asking: the decision fits the call that asked for it.      *)
LEMMA AskingReturns ==
  ASSUME KernelInv, call.pc = "asking", NEW d, Return(d), Unmoved,
         \A c \in dcache' : CacheFits(c),
         DecidedFits(d, call.force)
  PROVE  KernelInv'
<1>1. calls \in 0..MaxCalls /\ call \in CallTypes
  BY DEF KernelInv, KernelTypeOK, CallTypes
<1>2. call' = [call EXCEPT !.pc = "decided", !.try = 0] /\ decision' = d
  BY DEF Return
<1>3. call' \in CallTypes /\ call'.pc = "decided" /\ call'.force = call.force
  <2>1. 0 \in 0..MaxRetries
    BY KernelAssumption
  <2> QED
    BY <1>1, <1>2, <2>1 DEF CallTypes
<1>4. UNCHANGED <<row, overlays, src, dual, saved, impls, edits>> /\ calls' = calls
  BY DEF Unmoved
<1>5. IsDecision(d)
  BY DEF DecidedFits
<1> DEFINE f == call.force
<1>6. call'.force = f /\ DecidedFits(d, f)
  BY <1>3
<1> HIDE DEF f
<1> QED
  BY <1>1, <1>2, <1>3, <1>4, <1>5, <1>6, CallMoves

LEMMA AskingIs ==
  ASSUME KernelInv, call.pc = "asking"
  PROVE  /\ KernelTypeOK /\ call.force \in BOOLEAN /\ Route(call.force) = "model"
         /\ \A c \in dcache : CacheFits(c)
  BY DEF KernelInv, KernelTypeOK

LEMMA PassesDifferKeeps ==
  ASSUME KernelInv, PassesDiffer
  PROVE  KernelInv'
<1>1. call.pc = "asking" /\ Unmoved /\ dcache' = dcache
  BY DEF PassesDiffer
<1>2. PICK garbled \in {Garbled(a) : a \in Diverging} :
         Return(IF garbled /\ HasNoEvidence
                THEN Settle("no_evidence", "fits") ELSE Abstain(Empty))
  BY DEF PassesDiffer
<1> DEFINE d == IF garbled /\ HasNoEvidence
                THEN Settle("no_evidence", "fits") ELSE Abstain(Empty)
<1>3. Settle("no_evidence", "fits") = Decide("NC", "no_evidence", Empty, Empty)
  BY DEF Settle
<1>4. DecidedFits(Abstain(Empty), call.force)
  BY AbstainFits, EmptyIs
<1>5. DecidedFits(d, call.force)
  BY <1>1, <1>3, <1>4, AskingIs, NoEvidenceFits
<1>6. Return(d)
  BY <1>2
<1> HIDE DEF d
<1>7. \A c \in dcache' : CacheFits(c)
  BY <1>1, AskingIs
<1> QED
  BY <1>1, <1>5, <1>6, <1>7, AskingReturns

LEMMA AnsweredTypes == \A p \in Answered : p \in AnswerType
<1>1. ASSUME NEW p \in Agreed PROVE p \in AnswerType
  <2>1. PICK a \in Proposals \X Proposals :
           p = [a[1] EXCEPT !.sure = IF a[2].sure = "no" THEN "no" ELSE @]
    BY <1>1 DEF Agreed
  <2>2. a[1] \in AnswerType
    BY KernelAssumption
  <2> DEFINE q == a[1]
             s == IF a[2].sure = "no" THEN "no" ELSE q.sure
  <2>3. q \in AnswerType /\ s \in {"yes", "no", "unsaid"} /\ p = [q EXCEPT !.sure = s]
    BY <2>1, <2>2 DEF AnswerType
  <2> HIDE DEF q, s
  <2> QED
    BY <2>3 DEF AnswerType
<1> QED
  BY <1>1, KernelAssumption DEF Answered

(* An answer held for the reviewer, with its texts.                         *)
LEMMA HeldKeeps ==
  ASSUME KernelInv, NEW p \in AnswerType, ModelAbstains(p) \/ ModelHeld(p)
  PROVE  KernelInv'
<1>1. call.pc = "asking" /\ Unmoved /\ dcache' = dcache /\ Return(Abstain(Told(p)))
  BY DEF ModelAbstains, ModelHeld
<1>2. DecidedFits(Abstain(Told(p)), call.force)
  BY <1>1, AskingIs, ToldFits, AbstainFits
<1> DEFINE d == Abstain(Told(p))
<1>3. DecidedFits(d, call.force) /\ Return(d)
  BY <1>1, <1>2
<1> HIDE DEF d
<1>4. \A c \in dcache' : CacheFits(c)
  BY <1>1, AskingIs
<1> QED
  BY <1>1, <1>3, <1>4, AskingReturns

LEMMA RejectedKeeps ==
  ASSUME KernelInv, NEW p \in AnswerType, ModelRejected(p)
  PROVE  KernelInv'
<1>1. call.pc = "asking" /\ Unmoved /\ dcache' = dcache
  BY DEF ModelRejected
<1>2. \A c \in dcache' : CacheFits(c)
  BY <1>1, AskingIs
<1>3. CASE call.try = MaxRetries
  <2> DEFINE d == Abstain(Empty)
  <2>1. Return(d) /\ DecidedFits(d, call.force)
    BY <1>3, AbstainFits, EmptyIs DEF ModelRejected
  <2> HIDE DEF d
  <2> QED
    BY <1>1, <1>2, <2>1, AskingReturns
<1>4. CASE call.try # MaxRetries
  <2>1. call' = [call EXCEPT !.try = @ + 1] /\ decision' = decision
    BY <1>4 DEF ModelRejected
  <2>2. call \in CallTypes /\ calls \in 0..MaxCalls /\ IsDecision(decision)
    BY DEF KernelInv, KernelTypeOK, CallTypes
  <2> DEFINE n == call.try
  <2>3. n \in 0..MaxRetries /\ n # MaxRetries /\ MaxRetries \in Nat
    BY <1>4, <2>2, KernelAssumption DEF CallTypes
  <2>4. call' = [call EXCEPT !.try = n + 1]
    BY <2>1
  <2> HIDE DEF n
  <2>5. n + 1 \in 0..MaxRetries
    BY <2>3
  <2>6. call' \in CallTypes /\ call'.pc = "asking" /\ call'.force = call.force
    BY <1>1, <2>2, <2>4, <2>5 DEF CallTypes
  <2>7. UNCHANGED <<row, overlays, src, dual, saved, impls, edits>> /\ calls' = calls
    BY <1>1 DEF Unmoved
  <2> DEFINE f == call.force
             d == decision
  <2>8. call'.force = f /\ Route(f) = "model" /\ decision' = d /\ IsDecision(d)
    BY <1>1, <2>1, <2>2, <2>6, AskingIs
  <2> HIDE DEF f, d
  <2> QED
    BY <1>2, <2>2, <2>6, <2>7, <2>8, CallMoves
<1> QED
  BY <1>3, <1>4

LEMMA AcceptedKeeps ==
  ASSUME KernelInv, NEW p \in AnswerType, ModelAccepted(p)
  PROVE  KernelInv'
<1> DEFINE d == AcceptedDecision(p)
           c == [fp |-> Fingerprint, dec |-> d]
<1>1. call.pc = "asking" /\ ~Fails(p) /\ Return(d) /\ dcache' = Store(d) /\ Unmoved
  BY DEF ModelAccepted
<1>2. DecidedFits(d, call.force) /\ CacheFits(c)
  BY <1>1, AskingIs, AcceptedFits
<1>3. Store(d) \subseteq dcache \cup {c}
  BY DEF Store
<1> HIDE DEF d, c
<1>4. \A e \in dcache' : CacheFits(e)
  BY <1>1, <1>2, <1>3, AskingIs
<1> QED
  BY <1>1, <1>2, <1>4, AskingReturns
LEMMA OneLocalSlice ==
  ASSUME KernelTypeOK, Synthesized(slices), NEW s \in slices, s.label = OnPrem
  PROVE  s = LocalSlice
<1>1. LocalSlice \in slices /\ slices = Slices(overlays)
  BY ScopesFit DEF slices
<1>2. \A r \in RealSlices(overlays) : r.real = TRUE
  BY DEF RealSlices
<1>3. ~LocalSlice.real /\ LocalSlice = [label |-> OnPrem, resp |-> "customer", real |-> FALSE]
  BY DEF LocalSlice
<1>4. LocalSlice \notin RealSlices(overlays)
  BY <1>2, <1>3
<1> QED
  BY <1>1, <1>3, <1>4 DEF Slices

LEMMA PlansFit ==
  ASSUME KernelTypeOK, NEW p \in PlanImplementations(decision, slices)
  PROVE  p \in [label : ScopeLabels, resp : Responsibilities, status : Statuses \cup {None}]
<1>1. PICK s \in slices : p = [label |-> s.label, resp |-> s.resp,
                               status |-> PlanStatus(decision, s)]
  BY PlansAre
<1>2. s \in Slice
  BY ScopesFit
<1>3. PlanStatus(decision, s) \in Statuses \cup {None}
  BY DEF PlanStatus, KernelTypeOK, IsDecision, Statuses
<1> HIDE DEF PlanStatus
<1> QED
  BY <1>1, <1>2, <1>3 DEF Slice

LEMMA PersistKeeps ==
  ASSUME KernelInv, Persist
  PROVE  KernelInv'
<1> DEFINE plans == PlanImplementations(decision, slices)
           rollup == ComputeRollupStatus(plans)
           d == decision
<1>1. /\ KernelTypeOK /\ IsDecision(d) /\ d.accepted
      /\ DecidedFits(d, call.force)
      /\ \A c \in dcache : CacheFits(c)
  BY DEF KernelInv, KernelTypeOK, Persist
<1>2. /\ saved'.status = IF d.status = None THEN "NC"
                         ELSE IF plans = {} THEN d.status ELSE rollup
      /\ saved'.review = d.review
      /\ impls' = IF plans = {} THEN impls ELSE plans
      /\ call' = [NoCall EXCEPT !.pc = "saved"]
      /\ UNCHANGED <<row, overlays, src, dual, dcache, decision, edits, calls>>
  BY DEF Persist
<1>3. plans = {} <=> slices = {}
  BY DEF PlanImplementations
<1>4. \A p \in plans : p \in [label : ScopeLabels, resp : Responsibilities,
                              status : Statuses \cup {None}]
  BY <1>1, PlansFit
<1>5. rollup \in Statuses \cup {None}
  BY RollupIs
<1>6. \A p \in plans : \E s \in slices :
         p = [label |-> s.label, resp |-> s.resp, status |-> PlanStatus(d, s)]
  BY PlansAre
<1>7. decision' = d /\ slices' = slices /\ flex' = flex
  BY <1>2, ViewStays
<1>8. /\ LocalStands(d) /\ RollupStands(d) /\ BlankIsHeld(d)
  BY <1>1 DEF DecidedFits
<1>9. slices # {} => rollup = ComputeRollupStatus(PlanImplementations(d, slices))
  OBVIOUS
<1> HIDE DEF plans, rollup, d
<1>10. call'.pc = "saved" /\ call' \in CallTypes
  <2>1. 0 \in 0..MaxRetries
    BY KernelAssumption
  <2> QED
    BY <1>2, <2>1 DEF NoCall, CallTypes
<1>11. KernelTypeOK'
  <2>1. saved'.status \in Statuses \cup {None}
    BY <1>1, <1>2, <1>5 DEF IsDecision, Statuses
  <2>2. impls' \subseteq [label : ScopeLabels, resp : Responsibilities,
                          status : Statuses \cup {None}]
    BY <1>1, <1>2, <1>4 DEF KernelTypeOK
  <2>3. IsDecision(decision)'
    BY <1>1, <1>7 DEF IsDecision
  <2> QED
    BY <1>1, <1>2, <1>10, <2>1, <2>2, <2>3 DEF KernelTypeOK, CallTypes
<1>12. \A c \in dcache' : CacheFits(c)'
  BY <1>1, <1>2, CacheFitsStays
<1>13. LocalScopeNeverRidesAlong'
  <2> SUFFICES ASSUME Synthesized(slices), flex = "assess", NEW p \in impls', p.label = OnPrem
               PROVE  p.status # "C"
    BY <1>7 DEF LocalScopeNeverRidesAlong
  <2>1. slices # {} /\ p \in plans
    BY <1>2, <1>3 DEF Synthesized
  <2>2. PICK s \in slices :
           p = [label |-> s.label, resp |-> s.resp, status |-> PlanStatus(d, s)]
    BY <1>6, <2>1
  <2>3. s.label = OnPrem /\ p.status = PlanStatus(d, s)
    BY <2>2
  <2>4. s = LocalSlice
    BY <1>1, <2>3, OneLocalSlice
  <2>5. CASE OnPrem \in DOMAIN d.forced
    BY <1>1, <1>8, <2>3, <2>5 DEF LocalStands, PlanStatus
  <2>6. CASE OnPrem \notin DOMAIN d.forced
    <3>1. d.status # "C" \/ OnPrem \notin DOMAIN d.byScope
      BY <1>1, <1>8, <2>6 DEF LocalStands
    <3>2. PlanStatus(d, LocalSlice) \in {None, d.status}
      BY <2>6 DEF PlanStatus, LocalSlice, Inheritable
    <3>3. d.status = "C" => PlanStatus(d, LocalSlice) = None
      BY <2>6, <3>1 DEF PlanStatus, LocalSlice, Inheritable
    <3> QED
      BY <2>3, <2>4, <3>2, <3>3 DEF None
  <2> QED
    BY <2>5, <2>6
<1>14. ForcedRollupIsSaved'
  <2> SUFFICES ASSUME d.source \in {"llm", "cache"}, d.forced # Empty
               PROVE  saved'.status = d.status
    BY <1>7 DEF ForcedRollupIsSaved
  <2>1. d.status # None /\ (slices = {} \/ rollup = d.status)
    BY <1>8, <1>9 DEF RollupStands, OfModel
  <2> QED
    BY <1>2, <1>3, <2>1
<1>15. AbstainsAreHeld'
  BY <1>1, <1>2, <1>7, <1>8 DEF AbstainsAreHeld, BlankIsHeld
<1>16. ScanPassIsSharedOut'
  <2> SUFFICES ASSUME OfModel(d), ~src.nonscan, saved'.status = "C"
               PROVE  \E p \in impls' : /\ p.status = "C"
                                        /\ \/ p.resp \in Inheritable
                                           \/ p.label = OnPrem /\ flex = "inherited"
    BY <1>2, <1>7 DEF ScanPassIsSharedOut, OfModel
  <2>1. NotOfScans(d) /\ NotExempting(d)
    BY <1>1 DEF DecidedFits
  <2>2. CASE d.status = "C"
    <3>1. /\ slices # {} /\ flex = "inherited"
          /\ OnPrem \in DOMAIN d.forced /\ d.forced[OnPrem] = "C"
      BY <2>1, <2>2 DEF NotOfScans
    <3>2. PICK s \in slices : s.label = OnPrem
      BY <1>1, <3>1, ScopesFit
    <3>3. \E p \in plans : p.label = OnPrem /\ p.status = "C"
      <4>1. PlanStatus(d, s) = "C"
        BY <3>1, <3>2 DEF PlanStatus
      <4>2. \E q \in plans : q.label = s.label /\ q.status = PlanStatus(d, s)
        BY PlansAre DEF plans, d
      <4> QED
        BY <3>2, <4>1, <4>2
    <3> QED
      BY <1>2, <1>3, <3>1, <3>3
  <2>3. CASE d.status # "C"
    <3>1. plans # {} /\ rollup = "C" /\ d.status \notin {"C", None} /\ d.forced = Empty
      <4>1. d.status # None /\ plans # {} /\ rollup = "C"
        BY <1>2, <2>3
      <4> QED
        BY <1>3, <1>8, <1>9, <2>3, <4>1 DEF RollupStands
    <3>2. PICK p \in plans : p.status = "C"
      BY <3>1 DEF rollup, ComputeRollupStatus, None
    <3>3. PICK s \in slices :
             p = [label |-> s.label, resp |-> s.resp, status |-> PlanStatus(d, s)]
      BY <1>6
    <3>4. PlanStatus(d, s) = "C" => s.resp \in Inheritable
      BY <3>1, EmptyIs DEF PlanStatus, None
    <3> QED
      BY <1>2, <3>1, <3>2, <3>3, <3>4
  <2> QED
    BY <2>2, <2>3
<1> QED
  BY <1>10, <1>11, <1>12, <1>13, <1>14, <1>15, <1>16 DEF KernelInv

LEMMA DropKeeps ==
  ASSUME KernelInv, Drop
  PROVE  KernelInv'
<1>1. /\ UNCHANGED <<row, overlays, src, dual, dcache, saved, impls, edits, calls>>
      /\ call' = NoCall /\ decision' = Refused(None)
  BY DEF Drop, Unmoved
<1>2. /\ row' \in Rows /\ src' \in Sources /\ edits' \in 0..MaxEdits
      /\ overlays' \in Seq(Overlays) /\ Len(overlays') <= MaxOverlays
  BY <1>1 DEF KernelInv, KernelTypeOK
<1> QED
  BY <1>1, <1>2, CallEnds

LEMMA ChangeKeeps ==
  ASSUME KernelInv, Change, row' \in Rows, src' \in Sources,
         overlays' \in Seq(Overlays), Len(overlays') <= MaxOverlays
  PROVE  KernelInv'
<1>1. edits' \in 0..MaxEdits
  BY KernelAssumption DEF KernelInv, KernelTypeOK, Change
<1> QED
  BY <1>1, CallEnds DEF Change

LEMMA EnvironmentKeeps ==
  ASSUME KernelInv,
         \/ \E o \in Overlays : AttachOverlay(o)
         \/ \E i \in DOMAIN overlays : DetachOverlay(i)
         \/ \E r \in Rows : ReopenWorkbook(r)
         \/ \E s \in Sources : RetagEvidence(s)
  PROVE  KernelInv'
<1>1. /\ row \in Rows /\ src \in Sources
      /\ overlays \in Seq(Overlays) /\ Len(overlays) <= MaxOverlays /\ MaxOverlays \in Nat
  BY KernelAssumption DEF KernelInv, KernelTypeOK
<1>2. ASSUME NEW o \in Overlays, AttachOverlay(o) PROVE KernelInv'
  <2>1. overlays' = <<o>> \o overlays /\ Len(overlays) < MaxOverlays
    BY <1>2 DEF AttachOverlay
  <2>2. <<o>> \in Seq(Overlays) /\ Len(<<o>>) = 1
    OBVIOUS
  <2>3. overlays' \in Seq(Overlays) /\ Len(overlays') = 1 + Len(overlays)
    BY <1>1, <2>1, <2>2
  <2>4. Len(overlays') <= MaxOverlays
    BY <1>1, <2>1, <2>3
  <2> QED
    BY <1>1, <1>2, <2>3, <2>4, ChangeKeeps DEF AttachOverlay
<1>3. ASSUME NEW i \in DOMAIN overlays, DetachOverlay(i) PROVE KernelInv'
  <2> DEFINE n == Len(overlays)
             a == SubSeq(overlays, 1, i - 1)
             b == SubSeq(overlays, i + 1, n)
  <2>1. n \in Nat /\ i \in 1..n /\ n <= MaxOverlays
    BY <1>1
  <2>2. a \in Seq(Overlays) /\ Len(a) = i - 1
    BY <1>1, <2>1
  <2>3. b \in Seq(Overlays) /\ Len(b) = n - i
    BY <1>1, <2>1
  <2>4. overlays' = a \o b
    BY <1>3 DEF DetachOverlay
  <2> HIDE DEF a, b
  <2>5. overlays' \in Seq(Overlays) /\ Len(overlays') = Len(a) + Len(b)
    <3>1. a \in Seq(Overlays) /\ b \in Seq(Overlays)
      BY <2>2, <2>3
    <3>2. a \o b \in Seq(Overlays) /\ Len(a \o b) = Len(a) + Len(b)
      BY <3>1
    <3> QED
      BY <2>4, <3>2
  <2> HIDE DEF n
  <2>6. Len(overlays') <= MaxOverlays
    BY <1>1, <2>1, <2>2, <2>3, <2>5
  <2> QED
    BY <1>1, <1>3, <2>5, <2>6, ChangeKeeps DEF DetachOverlay
<1>4. ASSUME NEW r \in Rows, ReopenWorkbook(r) PROVE KernelInv'
  BY <1>1, <1>4, ChangeKeeps DEF ReopenWorkbook
<1>5. ASSUME NEW s \in Sources, RetagEvidence(s) PROVE KernelInv'
  BY <1>1, <1>5, ChangeKeeps DEF RetagEvidence
<1> QED
  BY <1>2, <1>3, <1>4, <1>5

LEMMA KernelStuttering ==
  ASSUME KernelInv, UNCHANGED kernelVars
  PROVE  KernelInv'
<1>1. /\ UNCHANGED <<row, overlays, src>> /\ dcache' = dcache /\ call' = call
      /\ decision' = decision /\ saved' = saved /\ impls' = impls /\ dual' = dual
      /\ edits' = edits /\ calls' = calls
  BY DEF kernelVars
<1>2. KernelTypeOK'
  BY <1>1 DEF KernelInv, KernelTypeOK, IsDecision
<1>3. \A c \in dcache' : CacheFits(c)'
  BY <1>1, CacheFitsStays DEF KernelInv
<1> DEFINE f == call.force
<1>4. Route(call.force)' = Route(f)
  BY <1>1, RouteMoves
<1>5. (call.pc = "asking" => Route(call.force) = "model")'
  BY <1>1, <1>4 DEF KernelInv
<1>6. (call.pc = "decided" => DecidedFits(decision, call.force))'
  BY <1>1, DecidedMoves DEF KernelInv
<1>7. ScanPassIsSharedOut' /\ LocalScopeNeverRidesAlong' /\ ForcedRollupIsSaved' /\ AbstainsAreHeld'
  BY <1>1, ViewStays DEF KernelInv, ScanPassIsSharedOut, LocalScopeNeverRidesAlong, ForcedRollupIsSaved,
     AbstainsAreHeld
<1> QED
  BY <1>2, <1>3, <1>5, <1>6, <1>7 DEF KernelInv

LEMMA KernelStart == KernelInit => KernelInv
<1> SUFFICES ASSUME KernelInit PROVE KernelInv
  OBVIOUS
<1>1. overlays \in Seq(Overlays) /\ Len(overlays) <= MaxOverlays
  <2>1. PICK n \in 0..MaxOverlays : overlays \in [1..n -> Overlays]
    BY DEF KernelInit
  <2>2. n \in Nat /\ n <= MaxOverlays
    BY KernelAssumption
  <2> QED
    BY <2>1, <2>2
<1>2. call \in CallTypes /\ call.pc = "idle"
  <2>1. 0 \in 0..MaxRetries
    BY KernelAssumption
  <2> QED
    BY <2>1 DEF KernelInit, NoCall, CallTypes
<1>3. IsDecision(decision)
  BY RefusedFits DEF KernelInit
<1>4. saved.status \in Statuses \cup {None}
  BY DEF KernelInit, NoRow
<1>5. edits \in 0..MaxEdits /\ calls \in 0..MaxCalls
  BY KernelAssumption DEF KernelInit
<1>6. KernelTypeOK
  BY <1>1, <1>2, <1>3, <1>4, <1>5 DEF KernelInit, KernelTypeOK, CallTypes
<1> QED
  BY <1>2, <1>6 DEF KernelInit, KernelInv, ScanPassIsSharedOut, LocalScopeNeverRidesAlong,
     ForcedRollupIsSaved,
     AbstainsAreHeld

LEMMA KernelStep == KernelInv /\ [KernelNext]_kernelVars => KernelInv'
<1> SUFFICES ASSUME KernelInv, [KernelNext]_kernelVars PROVE KernelInv'
  OBVIOUS
<1>1. ASSUME NEW force \in BOOLEAN, NEW w \in Wordings, AssessDeterministic(force, w)
      PROVE  KernelInv'
  BY <1>1, DeterministicKeeps
<1>2. ASSUME NEW force \in BOOLEAN, AssessCached(force) PROVE KernelInv'
  BY <1>2, CachedKeeps
<1>3. ASSUME NEW force \in BOOLEAN, NEW client \in BOOLEAN, AssessByModel(force, client)
      PROVE  KernelInv'
  BY <1>3, ByModelKeeps
<1>4. CASE Propose
  <2>1. CASE PassesDiffer
    BY <2>1, PassesDifferKeeps
  <2>2. ASSUME NEW p \in Answered,
               ModelAbstains(p) \/ ModelRejected(p) \/ ModelHeld(p) \/ ModelAccepted(p)
        PROVE  KernelInv'
    BY <2>2, AnsweredTypes, HeldKeeps, RejectedKeeps, AcceptedKeeps
  <2> QED
    BY <1>4, <2>1, <2>2 DEF Propose
<1>5. CASE Persist
  BY <1>5, PersistKeeps
<1>6. CASE Drop
  BY <1>6, DropKeeps
<1>7. CASE \/ \E o \in Overlays : AttachOverlay(o)
           \/ \E i \in DOMAIN overlays : DetachOverlay(i)
           \/ \E r \in Rows : ReopenWorkbook(r)
           \/ \E s \in Sources : RetagEvidence(s)
  BY <1>7, EnvironmentKeeps
<1>8. CASE UNCHANGED kernelVars
  BY <1>8, KernelStuttering
<1> QED
  BY <1>1, <1>2, <1>3, <1>4, <1>5, <1>6, <1>7, <1>8 DEF KernelNext

(* Whatever rows, overlays, evidence and answers an objective meets, in      *)
(* whatever order and however often it is assessed again: a Compliant        *)
(* verdict has a basis and the model exempts nothing, the cache included; on *)
(* scans alone it passes, and is saved Compliant, only where another's scope *)
(* carries it (column L's inherited one, a provider's); and a local scope, a *)
(* forced roll-up and an abstention are saved as they were decided.         *)
THEOREM VerdictsAreSound == KernelSpec => []VerdictSafe
<1>1. KernelInit => KernelInv
  BY KernelStart
<1>2. KernelInv /\ [KernelNext]_kernelVars => KernelInv'
  BY KernelStep
<1>3. KernelInv => VerdictSafe
  BY KernelInvIsSafe
<1> QED
  BY <1>1, <1>2, <1>3, PTL DEF KernelSpec

=============================================================================
