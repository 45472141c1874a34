--------------------------- MODULE VerdictsProofs ---------------------------
(* Theorems about Verdicts, for any workbooks, objectives, artifacts, requests. *)
EXTENDS Verdicts, TLAPS

USE RequestsAssumption

LEMMA InitType == Init => TypeOK
  BY DEF Init, TypeOK, Cells, Statuses, Decisions, NoAnswer, Rows, Entries, CacheKeys

LEMMA CellParts ==
  /\ \A c \in Cells : c[1] \in Workbooks /\ c[2] \in Objectives /\ c = <<c[1], c[2]>>
  /\ \A w \in Workbooks, o \in Objectives : <<w, o>> \in Cells
  BY DEF Cells

\* The rows that the handlers build are rows.
LEMMA RowsBuilt ==
  ASSUME TypeOK
  PROVE  /\ \A r \in Runs, o \in Objectives : KernelRow(r, o) \in Rows
         /\ \A c \in Cells, s \in Statuses : ReviewerRow(c, s) \in Rows
         /\ \A x \in Rows \cup {NoRow} : FlagRow(x) \in Rows \cup {NoRow}
         /\ \A x \in Rows : [x EXCEPT !.moved = TRUE] \in Rows
         /\ \A w \in Workbooks : Backfilled(w) \in [Cells -> Rows \cup {NoRow}]
         /\ \A r \in Runs, o \in Objectives : KeyOf(r, o) \in CacheKeys
<1> USE DEF Statuses
<1>1. \A r \in Runs, o \in Objectives : KernelRow(r, o) \in Rows
  BY DEF TypeOK, KernelRow, Coerce, Rows, Decisions, Bundle
<1>2. \A c \in Cells, s \in Statuses : ReviewerRow(c, s) \in Rows
  BY DEF TypeOK, ReviewerRow, Rows, Bundle, Cells
<1>3. \A x \in Rows \cup {NoRow} : FlagRow(x) \in Rows \cup {NoRow}
  BY DEF FlagRow, Rows
<1>4. \A w \in Workbooks : Backfilled(w) \in [Cells -> Rows \cup {NoRow}]
  BY DEF TypeOK, Backfilled, RuleRow, Rows
<1>5. \A r \in Runs, o \in Objectives : KeyOf(r, o) \in CacheKeys
  BY DEF TypeOK, KeyOf, CacheKeys
<1>6. \A x \in Rows : [x EXCEPT !.moved = TRUE] \in Rows
  BY DEF Rows
<1> QED BY <1>1, <1>2, <1>3, <1>4, <1>5, <1>6

LEMMA DecideType ==
  ASSUME TypeOK, NEW r \in Runs, NEW o \in Objectives,
         NEW status \in Statuses \cup {NoVerdict}, NEW review \in BOOLEAN,
         Decide(r, o, status, review)
  PROVE  /\ answer' \in [Runs -> [Objectives -> Decisions]]
         /\ stage' \in [Runs -> [Objectives ->
                          {"skip", "ready", "asked", "decided", "errored"}]]
<1> DEFINE d == [status |-> status, review |-> review, exempt |-> o \in ruled]
<1>1. d \in Decisions BY DEF Decisions
<1>2. answer' = [answer EXCEPT ![r][o] = d] BY DEF Decide
<1>3. stage' = [stage EXCEPT ![r][o] = "decided"] BY DEF Decide, Settle
<1> HIDE DEF d
<1>4. answer' \in [Runs -> [Objectives -> Decisions]] BY <1>1, <1>2 DEF TypeOK
<1> QED BY <1>3, <1>4 DEF TypeOK

LEMMA NoteTrustedType ==
  ASSUME TypeOK, row' \in [Cells -> Rows \cup {NoRow}], NoteTrusted
  PROVE  trusted' \in [Cells -> SUBSET Statuses]
  BY DEF TypeOK, NoteTrusted, Rows

\* The rule column of the workbook is not written by any of this.
LEMMA RuledFixed == [Next]_vars => ruled' = ruled
  BY DEF Next, vars, EditEvidence, ShiftChain, Snapshot, StartBatch, StartSingle, Consult,
         AskModel, Persist, Respond, SaveReview, WriteReview, OpenWorkbook, ApplyBatch,
         ApplyOne, FinishApply

LEMMA NextType == TypeOK /\ [Next]_vars => TypeOK'
<1> SUFFICES ASSUME TypeOK, [Next]_vars PROVE TypeOK'
  OBVIOUS
<1>0. ruled' = ruled BY RuledFixed
<1> USE <1>0
<1>1. ASSUME NEW w \in Workbooks, NEW o \in Objectives, EditEvidence(w, o) PROVE TypeOK'
  <2>1. <<w, o>> \in Cells BY DEF Cells
  <2>2. row' \in [Cells -> Rows \cup {NoRow}]
    BY <1>1, <2>1, RowsBuilt DEF EditEvidence, TypeOK
  <2>3. tags' \subseteq Artifacts \X Objectives
    BY <1>1 DEF EditEvidence, TypeOK, SetTags, Own
  <2> QED BY <1>1, <2>2, <2>3, NoteTrustedType DEF EditEvidence, TypeOK, runVars, sheetVars
<1>2. ASSUME NEW w \in Workbooks, NEW o \in Objectives, ShiftChain(w, o) PROVE TypeOK'
  <2>1. <<w, o>> \in Cells BY DEF Cells
  <2>2. row' \in [Cells -> Rows \cup {NoRow}]
    BY <1>2, <2>1, RowsBuilt DEF ShiftChain, TypeOK
  <2>3. tags' \subseteq Artifacts \X Objectives
    BY <1>2 DEF ShiftChain, TypeOK, SetTags, Own
  <2> QED BY <1>2, <2>2, <2>3 DEF ShiftChain, TypeOK, runVars, sheetVars
<1>3. ASSUME NEW r \in Runs, NEW T \in SUBSET Objectives, Snapshot(r, T) PROVE TypeOK'
  <2>1. \A o \in Objectives : <<Book[r], o>> \in Cells BY DEF Cells
  <2>2. \A o \in Objectives : Bundle(o) \in SUBSET Artifacts BY DEF Bundle
  <2> QED BY <1>3, <2>1, <2>2 DEF Snapshot, TypeOK, sheetVars
<1>4. ASSUME NEW r \in Runs, NEW o \in Objectives, Consult(r, o) PROVE TypeOK'
  <2>1. \A e \in cache : e.status \in Statuses BY DEF Entries, TypeOK
  <2>2. CASE \E s \in Statuses, b \in BOOLEAN : Decide(r, o, s, b)
    BY <1>4, <2>2, DecideType DEF Consult, TypeOK, sheetVars
  <2>3. CASE Settle(r, o, "asked") /\ UNCHANGED answer
    BY <1>4, <2>3 DEF Consult, Settle, TypeOK, sheetVars
  <2> QED BY <1>4, <2>1, <2>2, <2>3 DEF Consult, Statuses
<1>5. ASSUME NEW r \in Runs, NEW o \in Objectives, AskModel(r, o) PROVE TypeOK'
  <2>1. ASSUME NEW s \in Statuses, Store(r, o, s) PROVE cache' \subseteq Entries
    <3>1. KeyOf(r, o) \in CacheKeys BY RowsBuilt
    <3>2. [key |-> KeyOf(r, o), status |-> s] \in Entries BY <3>1 DEF Entries
    <3> QED BY <2>1, <3>2 DEF Store, TypeOK
  <2>2. cache' \subseteq Entries BY <1>5, <2>1 DEF AskModel, TypeOK
  <2>3. CASE \E s \in Statuses \cup {NoVerdict}, b \in BOOLEAN : Decide(r, o, s, b)
    BY <1>5, <2>2, <2>3, DecideType DEF AskModel, TypeOK, sheetVars
  <2>4. CASE Settle(r, o, "errored") /\ UNCHANGED answer
    BY <1>5, <2>2, <2>4 DEF AskModel, Settle, TypeOK, sheetVars
  <2> QED BY <1>5, <2>3, <2>4 DEF AskModel
<1>6. ASSUME NEW r \in Runs, NEW o \in Objectives, Persist(r, o) PROVE TypeOK'
  <2>1. row' \in [Cells -> Rows \cup {NoRow}]
    <3> DEFINE x == KernelRow(r, o)
    <3>1. x \in Rows BY RowsBuilt
    <3>2. row' = row \/ row' = [row EXCEPT ![<<Book[r], o>>] = x] BY <1>6 DEF Persist
    <3> HIDE DEF x
    <3> QED BY <3>1, <3>2 DEF TypeOK
  <2>2. NoAnswer \in Decisions BY DEF NoAnswer, Decisions, Statuses
  <2> QED BY <1>6, <2>1, <2>2, NoteTrustedType DEF Persist, Forget, TypeOK, sheetVars
<1>7. ASSUME NEW c \in Cells, NEW s \in Statuses, SaveReview(c, s) PROVE TypeOK'
  <2>1. row' \in [Cells -> Rows \cup {NoRow}]
    BY <1>7, RowsBuilt DEF SaveReview, WriteReview, TypeOK
  <2> QED BY <1>7, <2>1, NoteTrustedType DEF SaveReview, WriteReview, TypeOK, runVars, sheetVars
<1>8. ASSUME NEW w \in Workbooks, OpenWorkbook(w) PROVE TypeOK'
  BY <1>8, RowsBuilt, NoteTrustedType DEF OpenWorkbook, TypeOK, runVars, sheetVars
<1>9. ASSUME NEW w \in Workbooks, NEW T \in SUBSET Objectives, ReadRows(w, T),
             row' \in [Cells -> Rows \cup {NoRow}]
      PROVE  export' \in [Workbooks -> [Objectives -> Statuses \cup {Blank, NoRow}]]
  BY <1>9 DEF ReadRows, CellOf, TypeOK, Rows, Cells
<1>10. ASSUME NEW w \in Workbooks, ApplyBatch(w) PROVE TypeOK'
  BY <1>9, <1>10, RowsBuilt, NoteTrustedType DEF ApplyBatch, TypeOK, runVars
<1>11. ASSUME NEW w \in Workbooks, NEW o \in Objectives, ApplyOne(w, o) PROVE TypeOK'
  <2>1. row' \in [Cells -> Rows \cup {NoRow}] BY <1>11 DEF ApplyOne, TypeOK
  <2>2. export' \in [Workbooks -> [Objectives -> Statuses \cup {Blank, NoRow}]]
    BY <1>9, <1>11, <2>1 DEF ApplyOne
  <2> QED BY <1>11, <2>1, <2>2 DEF ApplyOne, TypeOK, runVars
<1>12. ASSUME NEW w \in Workbooks, FinishApply(w) PROVE TypeOK'
  <2>1. columnN' \in [Cells -> Statuses \cup {Blank}]
    BY <1>12, CellParts DEF FinishApply, WriteCells, TypeOK
  <2> QED BY <1>12, <2>1 DEF FinishApply, TypeOK, runVars
<1>13. CASE UNCHANGED vars
  BY <1>13 DEF vars, runVars, sheetVars, TypeOK
<1>14. ASSUME NEW r \in Runs, StartBatch(r) \/ StartSingle(r) PROVE TypeOK'
  BY <1>3, <1>14 DEF StartBatch, StartSingle
<1>15. ASSUME NEW r \in Runs, Respond(r) PROVE TypeOK'
  BY <1>15 DEF Respond, TypeOK, sheetVars
<1> QED
  <2>1. \A w \in Workbooks, o \in Objectives : <<w, o>> \in Cells BY DEF Cells
  <2> QED BY <1>1, <1>2, <1>4, <1>5, <1>6, <1>7, <1>8, <1>10, <1>11, <1>12, <1>13,
             <1>14, <1>15, <2>1 DEF Next, Runs

\* Every reachable state has the declared types; in particular no row lacks a status.
THEOREM TypeCorrect == Spec => []TypeOK
  BY InitType, NextType, PTL DEF Spec

-----------------------------------------------------------------------------
(* Stale trust *)

\* A tag edit changes what one workbook has on one objective and nothing else.
LEMMA OneBundleChanges ==
  ASSUME NEW w \in Workbooks, NEW o \in Objectives, NEW arts \in SUBSET Own(w),
         SetTags(w, o, arts), NEW c \in Cells, c # <<w, o>>
  PROVE  (Bundle(c[2]) \cap Own(c[1]))' = Bundle(c[2]) \cap Own(c[1])
<1>1. c[1] # w \/ c[2] # o BY CellParts
<1>2. ASSUME NEW a \in Artifacts, Home[a] = c[1]
      PROVE  <<a, c[2]>> \in tags' <=> <<a, c[2]>> \in tags
  BY <1>1, <1>2 DEF SetTags, Own
<1> QED BY <1>2 DEF Bundle, Own

LEMMA SameBundles ==
  ASSUME UNCHANGED tags, NEW o, NEW w PROVE (Bundle(o) \cap Own(w))' = Bundle(o) \cap Own(w)
  BY DEF Bundle, Own

LEMMA NextStale ==
  TypeOK /\ StaleTrustExplained /\ [Next]_vars => StaleTrustExplained'
<1> SUFFICES ASSUME TypeOK, StaleTrustExplained, [Next]_vars, NEW c \in Cells,
                    IsTrusted(row'[c]), ~row'[c].exempt,
                    row'[c].shown \cap Own(c[1]) # (Bundle(c[2]) \cap Own(c[1]))'
             PROVE  row'[c].moved
  BY DEF StaleTrustExplained, IsTrusted, Own
<1> DEFINE Kept == row'[c] = row[c] /\ (Bundle(c[2]) \cap Own(c[1]))' = Bundle(c[2]) \cap Own(c[1])
<1>1. CASE Kept
  BY <1>1 DEF StaleTrustExplained, IsTrusted
<1> HIDE DEF Kept
<1>2. row'[c] = row[c] /\ UNCHANGED tags => Kept
  BY SameBundles DEF Kept
<1>3. ASSUME NEW w \in Workbooks, NEW o \in Objectives, EditEvidence(w, o) PROVE row'[c].moved
  <2>1. CASE c = <<w, o>>
    BY <1>3, <2>1 DEF EditEvidence, FlagRow, TypeOK, Rows, IsTrusted
  <2>2. CASE c # <<w, o>>
    BY <1>1, <1>3, <2>2, OneBundleChanges DEF EditEvidence, Kept, TypeOK
  <2> QED BY <2>1, <2>2
<1>4. ASSUME NEW w \in Workbooks, NEW o \in Objectives, ShiftChain(w, o) PROVE row'[c].moved
  <2>1. CASE c = <<w, o>>
    BY <1>4, <2>1 DEF ShiftChain, TypeOK, Rows, IsTrusted
  <2>2. CASE c # <<w, o>>
    BY <1>1, <1>4, <2>2, OneBundleChanges DEF ShiftChain, Kept, TypeOK
  <2> QED BY <2>1, <2>2
<1>5. ASSUME NEW r \in Runs, NEW o \in Objectives, Persist(r, o) PROVE row'[c].moved
  <2>1. CASE row'[c] = row[c]
    BY <1>1, <1>2, <1>5, <2>1 DEF Persist
  <2>2. CASE c = <<Book[r], o>> /\ row'[c] = KernelRow(r, o)
    <3>1. c[2] = o BY <2>2
    <3>2. row'[c].shown = shown[r][o] /\ row'[c].moved = (shown[r][o] # Bundle(o))
      BY <2>2 DEF KernelRow
    <3>3. (Bundle(c[2]) \cap Own(c[1]))' = Bundle(c[2]) \cap Own(c[1])
      BY <1>5, SameBundles DEF Persist
    <3> QED BY <3>1, <3>2, <3>3
  <2>3. row'[c] = row[c] \/ (c = <<Book[r], o>> /\ row'[c] = KernelRow(r, o))
    BY <1>5 DEF Persist, TypeOK
  <2> QED BY <2>1, <2>2, <2>3
<1>6. ASSUME NEW d \in Cells, NEW s \in Statuses, SaveReview(d, s) PROVE row'[c].moved
  <2>1. CASE c = d
    BY <1>6, <2>1, SameBundles DEF SaveReview, WriteReview, ReviewerRow, TypeOK
  <2>2. CASE c # d
    BY <1>1, <1>2, <1>6, <2>2 DEF SaveReview, WriteReview, TypeOK
  <2> QED BY <2>1, <2>2
<1>7. ASSUME NEW w \in Workbooks, OpenWorkbook(w) \/ ApplyBatch(w) PROVE row'[c].moved
  <2>1. CASE row'[c] = row[c]
    BY <1>1, <1>2, <1>7, <2>1 DEF OpenWorkbook, ApplyBatch
  <2>2. row'[c] = row[c] \/ row'[c] = RuleRow
    BY <1>7 DEF OpenWorkbook, ApplyBatch, Backfilled
  <2> QED BY <2>1, <2>2 DEF RuleRow
<1>8. CASE UNCHANGED <<row, tags>>
  BY <1>1, <1>2, <1>8
<1> QED
  BY <1>3, <1>4, <1>5, <1>6, <1>7, <1>8, CellParts
     DEF Next, Runs, vars, StartBatch, StartSingle, Snapshot, Consult, AskModel,
         Respond, ApplyOne, FinishApply

\* A trusted verdict on evidence its workbook no longer has is always one that
\* was in flight, or was passed by a supersession link, when the evidence moved.
THEOREM StaleTrustIsExplained == Spec => []StaleTrustExplained
<1>1. Init => StaleTrustExplained
  BY DEF Init, StaleTrustExplained, IsTrusted
<1> QED BY <1>1, InitType, NextType, NextStale, PTL DEF Spec

-----------------------------------------------------------------------------
(* Exports *)

\* What the history of trust says of the present.
TrustNoted == \A c \in Cells : IsTrusted(row[c]) => row[c].status \in trusted[c]

LEMMA NotedAfter ==
  ASSUME TypeOK, NoteTrusted
  PROVE  TrustNoted' /\ \A c \in Cells : trusted[c] \subseteq trusted'[c]
  BY DEF TypeOK, NoteTrusted, TrustNoted, IsTrusted

\* Steps that neither write column N nor read rows for an export.
LEMMA ExportKept ==
  ASSUME TypeOK, ExportsOnlyTrusted, UNCHANGED sheetVars,
         \A c \in Cells : trusted[c] \subseteq trusted'[c]
  PROVE  ExportsOnlyTrusted'
  BY CellParts DEF ExportsOnlyTrusted, sheetVars

LEMMA ReadsTrusted ==
  ASSUME TypeOK, ExportsOnlyTrusted, TrustNoted', UNCHANGED columnN,
         \A c \in Cells : trusted[c] \subseteq trusted'[c],
         NEW w \in Workbooks, NEW targets \in SUBSET Objectives, ReadRows(w, targets)
  PROVE  ExportsOnlyTrusted'
<1>1. \A o \in Objectives :
        CellOf(row'[<<w, o>>]) \in trusted'[<<w, o>>] \cup {Blank, NoRow}
  BY CellParts DEF CellOf, TrustNoted, IsTrusted
<1>2. \A x \in Workbooks, o \in Objectives :
        export'[x][o] \in trusted'[<<x, o>>] \cup {Blank, NoRow}
  BY <1>1, CellParts DEF ReadRows, ExportsOnlyTrusted, TypeOK
<1> QED BY <1>2, CellParts DEF ExportsOnlyTrusted

LEMMA NextExport ==
  TypeOK /\ TrustNoted /\ ExportsOnlyTrusted /\ [Next]_vars
  => TrustNoted' /\ ExportsOnlyTrusted'
<1> SUFFICES ASSUME TypeOK, TrustNoted, ExportsOnlyTrusted, [Next]_vars
             PROVE  TrustNoted' /\ ExportsOnlyTrusted'
  OBVIOUS
<1>1. CASE NoteTrusted /\ UNCHANGED sheetVars
  BY <1>1, NotedAfter, ExportKept
<1>2. CASE UNCHANGED <<row, trusted, sheetVars>>
  BY <1>2, ExportKept DEF TrustNoted, IsTrusted
<1>3. ASSUME NEW w \in Workbooks, NEW o \in Objectives, ShiftChain(w, o)
      PROVE  TrustNoted' /\ ExportsOnlyTrusted'
  <2>1. \A c \in Cells : IsTrusted(row'[c])
                         => IsTrusted(row[c]) /\ row'[c].status = row[c].status
    <3> SUFFICES ASSUME NEW c \in Cells, IsTrusted(row'[c])
                 PROVE  IsTrusted(row[c]) /\ row'[c].status = row[c].status
      OBVIOUS
    <3>1. CASE c = <<w, o>>
      BY <1>3, <3>1 DEF ShiftChain, TypeOK, Rows, IsTrusted
    <3>2. CASE c # <<w, o>>
      BY <1>3, <3>2 DEF ShiftChain, TypeOK
    <3> QED BY <3>1, <3>2
  <2> QED BY <1>3, <2>1, ExportKept DEF ShiftChain, TrustNoted
<1>4. ASSUME NEW w \in Workbooks, ApplyBatch(w) PROVE TrustNoted' /\ ExportsOnlyTrusted'
  BY <1>4, NotedAfter, ReadsTrusted DEF ApplyBatch
<1>5. ASSUME NEW w \in Workbooks, NEW o \in Objectives, ApplyOne(w, o)
      PROVE  TrustNoted' /\ ExportsOnlyTrusted'
  BY <1>5, ReadsTrusted DEF ApplyOne, TrustNoted, IsTrusted
<1>6. ASSUME NEW w \in Workbooks, FinishApply(w) PROVE TrustNoted' /\ ExportsOnlyTrusted'
  <2>1. TrustNoted' BY <1>6 DEF FinishApply, TrustNoted, IsTrusted
  <2>2. \A c \in Cells : columnN'[c] \in trusted[c] \cup {Blank}
    <3>1. CASE UNCHANGED columnN
      BY <3>1, CellParts DEF ExportsOnlyTrusted
    <3>2. CASE WriteCells(w)
      <4> SUFFICES ASSUME NEW c \in Cells PROVE columnN'[c] \in trusted[c] \cup {Blank}
        OBVIOUS
      <4>1. /\ columnN[c] \in trusted[c] \cup {Blank}
            /\ export[c[1]][c[2]] \in trusted[c] \cup {Blank, NoRow}
        BY CellParts DEF ExportsOnlyTrusted
      <4> QED BY <3>2, <4>1 DEF WriteCells
    <3> QED BY <1>6, <3>1, <3>2 DEF FinishApply
  <2> QED BY <1>6, <2>1, <2>2, CellParts DEF FinishApply, ExportsOnlyTrusted, TypeOK
<1> QED
  BY <1>1, <1>2, <1>3, <1>4, <1>5, <1>6
     DEF Next, Runs, vars, EditEvidence, StartBatch, StartSingle, Snapshot, Consult,
         AskModel, Persist, Respond, SaveReview, WriteReview, OpenWorkbook

\* No status reaches column N that its row did not show as trusted.
THEOREM ExportsAreTrusted == Spec => []ExportsOnlyTrusted
<1>1. Init => TrustNoted /\ ExportsOnlyTrusted
  BY DEF Init, TrustNoted, ExportsOnlyTrusted, IsTrusted, Cells
<1> QED BY <1>1, InitType, NextType, NextExport, PTL DEF Spec

-----------------------------------------------------------------------------
(* Overrides *)

\* Nothing a workbook has read or cached is newer than its epoch, and what an
\* override found in the cache is older.
EpochsBehind ==
  /\ \A r \in Runs, o \in Objectives : since[r][o] <= epoch[<<Book[r], o>>]
  /\ \A c \in Cells : \A e \in cache : e.key.objective = c[2] => e.key.epoch <= epoch[c]
  /\ \A c \in Cells : \A e \in beforeOverride[c] :
        e.key.objective = c[2] => e.key.epoch < epoch[c]

LEMMA NextEpochs ==
  ASSUME NEW w \in Workbooks, Workbooks = {w}
  PROVE  TypeOK /\ EpochsBehind /\ [Next]_vars => EpochsBehind'
<1> SUFFICES ASSUME TypeOK, EpochsBehind, [Next]_vars PROVE EpochsBehind'
  OBVIOUS
<1>1. CASE UNCHANGED <<since, epoch, cache, beforeOverride>>
  BY <1>1 DEF EpochsBehind
<1>2. ASSUME NEW r \in Runs, NEW T \in SUBSET Objectives, Snapshot(r, T) PROVE EpochsBehind'
  <2>1. \A q \in Runs, o \in Objectives : since'[q][o] <= epoch[<<Book[q], o>>]
    BY <1>2, CellParts DEF Snapshot, EpochsBehind, TypeOK
  <2> QED BY <1>2, <2>1 DEF Snapshot, EpochsBehind
<1>3. ASSUME NEW r \in Runs, NEW o \in Objectives, AskModel(r, o) PROVE EpochsBehind'
  <2>1. \A c \in Cells : \A e \in cache' : e.key.objective = c[2] => e.key.epoch <= epoch[c]
    <3>1. \A e \in cache' : e \in cache \/ e.key = KeyOf(r, o)
      <4>1. ASSUME NEW s \in Statuses, Store(r, o, s)
            PROVE  \A e \in cache' : e \in cache \/ e.key = KeyOf(r, o)
        BY <4>1 DEF Store
      <4> QED BY <1>3, <4>1 DEF AskModel
    <3>2. \A c \in Cells : o = c[2] => c = <<Book[r], o>>
      BY CellParts
    <3> QED BY <3>1, <3>2 DEF KeyOf, EpochsBehind
  <2> QED BY <1>3, <2>1 DEF AskModel, EpochsBehind
<1>4. ASSUME NEW r \in Runs, NEW p \in Objectives, Persist(r, p) PROVE EpochsBehind'
  <2>1. \A q \in Runs, o \in Objectives : since'[q][o] <= epoch[<<Book[q], o>>]
    BY <1>4, CellParts DEF Persist, Forget, EpochsBehind, TypeOK
  <2> QED BY <1>4, <2>1 DEF Persist, EpochsBehind
<1>5. ASSUME NEW c \in Cells, NEW s \in Statuses, SaveReview(c, s) PROVE EpochsBehind'
  <2>1. epoch'[c] = epoch[c] + 1 /\ \A d \in Cells : d # c => epoch'[d] = epoch[d]
    BY <1>5 DEF SaveReview, TypeOK
  <2>2. \A d \in Cells : epoch[d] \in Nat /\ epoch[d] <= epoch'[d]
    <3>1. \A d \in Cells : epoch[d] \in 0..MaxEpoch BY DEF TypeOK
    <3>2. \A d \in Cells : epoch[d] \in Nat BY <3>1
    <3> SUFFICES ASSUME NEW d \in Cells PROVE epoch[d] <= epoch'[d]
      BY <3>2
    <3>3. CASE d = c BY <3>2, <3>3, <2>1
    <3>4. CASE d # c BY <3>2, <3>4, <2>1
    <3> QED BY <3>3, <3>4
  <2>3. \A r \in Runs, o \in Objectives : since'[r][o] <= epoch'[<<Book[r], o>>]
    BY <1>5, <2>2, CellParts DEF SaveReview, WriteReview, runVars, EpochsBehind, TypeOK
  <2>4. \A e \in Entries : e.key.epoch \in Nat BY DEF Entries, CacheKeys
  <2>5. \A d \in Cells : \A e \in cache' : e.key.objective = d[2] => e.key.epoch <= epoch'[d]
    BY <1>5, <2>2, <2>4 DEF SaveReview, WriteReview, EpochsBehind, TypeOK
  <2>6. \A d \in Cells : \A e \in beforeOverride'[d] :
          e.key.objective = d[2] => e.key.epoch < epoch'[d]
    <3>1. beforeOverride' = [beforeOverride EXCEPT ![c] = cache]
      BY <1>5 DEF SaveReview, WriteReview
    <3>2. \A e \in cache : e \in Entries /\ e.key.epoch \in Nat
      BY <2>4 DEF TypeOK
    <3>3. ASSUME NEW e \in cache, e.key.objective = c[2] PROVE e.key.epoch < epoch'[c]
      <4>1. e.key.epoch <= epoch[c] BY <3>3 DEF EpochsBehind
      <4> QED BY <4>1, <3>2, <2>1, <2>2
    <3>4. ASSUME NEW d \in Cells, d # c, NEW e \in beforeOverride[d], e.key.objective = d[2]
          PROVE  e.key.epoch < epoch'[d]
      BY <3>4, <2>1 DEF EpochsBehind
    <3>5. beforeOverride'[c] = cache /\ \A d \in Cells : d # c => beforeOverride'[d] = beforeOverride[d]
      BY <3>1 DEF TypeOK
    <3> QED BY <3>3, <3>4, <3>5
  <2> QED BY <2>3, <2>5, <2>6 DEF EpochsBehind
<1>6. ASSUME NEW r \in Runs, StartBatch(r) \/ StartSingle(r) PROVE EpochsBehind'
  BY <1>2, <1>6 DEF StartBatch, StartSingle
<1>7. ASSUME NEW u \in Workbooks, NEW o \in Objectives,
             EditEvidence(u, o) \/ ShiftChain(u, o) \/ ApplyOne(u, o)
      PROVE  EpochsBehind'
  BY <1>1, <1>7 DEF EditEvidence, ShiftChain, ApplyOne, runVars
<1>8. ASSUME NEW u \in Workbooks, OpenWorkbook(u) \/ ApplyBatch(u) \/ FinishApply(u)
      PROVE  EpochsBehind'
  BY <1>1, <1>8 DEF OpenWorkbook, ApplyBatch, FinishApply, runVars
<1>9. ASSUME NEW r \in Runs, NEW o \in Objectives, Consult(r, o) PROVE EpochsBehind'
  BY <1>1, <1>9 DEF Consult
<1>10. ASSUME NEW r \in Runs, Respond(r) PROVE EpochsBehind'
  BY <1>1, <1>10 DEF Respond
<1>11. CASE UNCHANGED vars
  BY <1>1, <1>11 DEF vars, runVars
<1> QED
  BY <1>3, <1>4, <1>5, <1>6, <1>7, <1>8, <1>9, <1>10, <1>11, CellParts DEF Next, Runs

\* With one workbook, a run that starts after an override never finds a decision
\* that was cached before it.
THEOREM OverridesAreFresh ==
  ASSUME NEW w \in Workbooks, Workbooks = {w}
  PROVE  Spec => []OverrideIsNotReplayed
<1>1. Init => EpochsBehind
  BY CellParts DEF Init, EpochsBehind
<1>2. TypeOK /\ EpochsBehind => OverrideIsNotReplayed
  BY DEF TypeOK, EpochsBehind, OverrideIsNotReplayed
<1> QED BY <1>1, <1>2, InitType, NextType, NextEpochs, PTL DEF Spec

=============================================================================
