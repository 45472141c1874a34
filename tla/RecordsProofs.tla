---------------------------- MODULE RecordsProofs ----------------------------
(***************************************************************************)
(* Theorems about the records of a run: what assess-batch requests leave   *)
(* behind, for every number of requests, every scope and any number of     *)
(* failed writes and crashes; what the client of the model makes of its    *)
(* answers, for every number of callers and every text; what the readers   *)
(* of the configuration make of it, for every number of requests; and what *)
(* upgrades leave of a database, for every chain of revisions that keeps   *)
(* to the rules, every released database and every number of starts.       *)
(***************************************************************************)
EXTENDS Migrations, BatchRuns, ModelClient, Settings, SequenceTheorems, FiniteSetTheorems,
        TLAPS

-----------------------------------------------------------------------------
(* The requests of assess-batch *)

RunRows == [at : {"none", "open", "finished"}, counts : SUBSET InScope]

BatchTyped ==
    /\ batch \in [Batches -> Locals]
    /\ runRow \in [Batches -> RunRows]
    /\ slot \in Slots \cup {NoSlot}
    /\ savedBy \in [InScope -> Batches \cup {NoBatch}]
    /\ calibrated \subseteq Batches \X InScope
    /\ crmEvents \subseteq Batches \X InScope
    /\ faults \in Nat
    /\ overlapped \in BOOLEAN

(* The parts of the invariant that are about one request: l are its        *)
(* locals, r the row of its run.                                           *)
Named(l, k) == {o \in DOMAIN l.told : l.told[o] = k}
Tried(l)    == l.saved \cup l.errored
Worth(l)    == IF l.keep THEN DOMAIN l.told \ Named(l, "raised") ELSE {}
Busy        == {"reading", "working", "saving", "closing", "events", "clearing"}

\* What each phase has behind it.
PhaseFits(l) ==
    /\ l.done \subseteq DOMAIN l.told
    /\ DOMAIN l.told \subseteq l.items
    /\ l.at \in {"new", "reading"} => DOMAIN l.told = {}
    /\ l.at \in {"new", "reading", "working", "saving", "answered"} => ~l.raised
    /\ l.at = "working" => l.left = l.items
    /\ l.at = "saving" => l.left \subseteq l.items
    /\ l.at \in {"saving", "closing", "events", "clearing", "answered"}
       => l.raised \/ l.done = l.items
    /\ IsFiniteSet(l.items)

\* What has become of the rows so far.
TriedFits(l) ==
    /\ l.saved \cap l.errored = {}
    /\ Tried(l) \subseteq DOMAIN l.told
    /\ l.at \in {"new", "reading", "working"} => Tried(l) = {}
    /\ l.at = "saving" => Tried(l) = Worth(l) \ l.left
    /\ l.at \in {"closing", "events", "clearing", "answered"} => l.raised
        \/ Tried(l) = Worth(l)

\* The row of a run follows its request.
RunFits(l, r, lapses) ==
    /\ l.at = "new" <=> r.at = "none"
    /\ l.at \in {"reading", "working", "saving", "closing"} => r.at = "open"
    /\ l.at \in {"events", "clearing", "answered"} => r.at = "finished"
    /\ r.counts = DOMAIN l.told \/ (lapses > 0 /\ r.at = "open")

RequestFits(l, r, lapses) == PhaseFits(l) /\ TriedFits(l) /\ RunFits(l, r, lapses)

\* A row names the run that saved it last.
SavesFit ==
    /\ \A o \in InScope : savedBy[o] # NoBatch => o \in batch[savedBy[o]].saved
    /\ \A b \in Batches : \A o \in batch[b].saved : savedBy[o] # NoBatch

\* The slot is of somebody who works or failed; and while nobody overlaps, it is of
\* the one who works, and tells what that one was told.
SlotFits ==
    /\ Active => Working(slot.of) \/ Is(slot.of, "failed")
    /\ ~overlapped =>
          /\ \A b, c \in Batches : Working(b) /\ Working(c) => b = c
          /\ Active => /\ slot.total = Cardinality(batch[slot.of].items)
                       /\ slot.completed = Cardinality(batch[slot.of].done)
                       /\ slot.errored
                          = Cardinality(batch[slot.of].done \cap Named(batch[slot.of],
                                                                       "raised"))
          /\ \A b \in Batches :
                batch[b].at \in {"working", "saving"} /\ batch[b].items # {} =>
                   Active /\ slot.of = b

\* The events of a request that has written them.
EventsFit ==
    /\ \A e \in crmEvents : runRow[e[1]].at = "finished"
    /\ \A b \in Batches :
          batch[b].at \in {"clearing", "answered"} /\ batch[b].keep /\ ~batch[b].lost =>
             {b} \X Named(batch[b], "crm") \subseteq crmEvents

BatchInv ==
    /\ BatchTyped
    /\ \A b \in Batches : RequestFits(batch[b], runRow[b], faults)
    /\ SavesFit /\ SlotFits /\ EventsFit /\ CalibratedByModel

LEMMA BatchInvIsSafe ==
  ASSUME BatchInv
  PROVE  BatchSafe
<1>1. BatchTypeOK
  <2>1. \A b \in Batches : batch[b].done \cup batch[b].saved \subseteq batch[b].items
    BY DEF BatchInv, RequestFits, PhaseFits, TriedFits, Tried
  <2> QED
    BY <2>1 DEF BatchInv, BatchTyped, BatchTypeOK
<1>2. RunsCatchUp
  <2> SUFFICES ASSUME NEW b \in Batches
               PROVE  /\ Is(b, "answered") => runRow[b].counts = batch[b].items
                      /\ runRow[b].at # "none" /\ RunStatus(b) = "in_progress" =>
                            Working(b) \/ batch[b].at \in {"failed", "dead"}
    BY DEF RunsCatchUp
  <2>1. /\ batch[b].at \in Busy \cup {"new", "answered", "failed", "dead"}
        /\ runRow[b].at \in {"none", "open", "finished"}
    BY DEF BatchInv, BatchTyped, Locals, RunRows, Busy
  <2>2. PhaseFits(batch[b]) /\ RunFits(batch[b], runRow[b], faults)
    BY DEF BatchInv, RequestFits
  <2>3. Is(b, "answered") => runRow[b].counts = batch[b].items
    BY <2>2 DEF PhaseFits, RunFits, Is
  <2>4. runRow[b].at # "none" /\ RunStatus(b) = "in_progress" =>
            Working(b) \/ batch[b].at \in {"failed", "dead"}
    BY <2>1, <2>2 DEF RunFits, RunStatus, Working, Busy
  <2> QED
    BY <2>3, <2>4
<1>3. SavedAreCounted
  <2> SUFFICES ASSUME NEW o \in InScope, savedBy[o] # NoBatch
               PROVE  /\ runRow[savedBy[o]].at # "none"
                      /\ \/ o \in runRow[savedBy[o]].counts
                         \/ faults > 0 /\ runRow[savedBy[o]].at = "open"
    BY DEF SavedAreCounted
  <2> DEFINE b == savedBy[o]
  <2>1. b \in Batches /\ o \in batch[b].saved
    BY DEF BatchInv, BatchTyped, SavesFit
  <2>2. RequestFits(batch[b], runRow[b], faults)
    BY <2>1 DEF BatchInv
  <2> HIDE DEF b
  <2>3. o \in DOMAIN batch[b].told /\ batch[b].at # "new"
    BY <2>1, <2>2 DEF RequestFits, TriedFits, Tried
  <2> QED
    BY <2>2, <2>3 DEF RequestFits, RunFits, b
<1>4. AnswersAddUp
  <2> SUFFICES ASSUME NEW b \in Batches, Is(b, "answered"), batch[b].keep
               PROVE  LET kept == batch[b].items \ Kind(b, "raised")
                      IN  /\ batch[b].saved = kept \ batch[b].errored
                          /\ \A o \in batch[b].saved : savedBy[o] # NoBatch
                          /\ Persisted(b) + PersistErrored(b) = Cardinality(kept)
                              \/ batch[b].lost
    BY DEF AnswersAddUp
  <2> DEFINE kept == batch[b].items \ Kind(b, "raised")
  <2>0. PhaseFits(batch[b]) /\ TriedFits(batch[b])
    BY DEF BatchInv, RequestFits
  <2>1. Told(b) = batch[b].items /\ IsFiniteSet(batch[b].items)
    BY <2>0 DEF PhaseFits, Is, Told
  <2>2. batch[b].saved \cap batch[b].errored = {} /\ batch[b].saved
      \cup batch[b].errored = kept
    BY <2>0, <2>1 DEF TriedFits, PhaseFits, Is, Tried, Worth, Named, Kind, Told
  <2>3. IsFiniteSet(batch[b].saved) /\ IsFiniteSet(batch[b].errored)
    BY <2>1, <2>2, FS_Subset
  <2>4. Cardinality(kept) = Cardinality(batch[b].saved) + Cardinality(batch[b].errored)
                            - Cardinality(batch[b].saved \cap batch[b].errored)
    BY <2>2, <2>3, FS_Union
  <2>a. Cardinality(batch[b].saved \cap batch[b].errored) = 0
    BY <2>2, FS_EmptySet
  <2>b. Cardinality(batch[b].saved) \in Nat /\ Cardinality(batch[b].errored) \in Nat
    BY <2>3, FS_CardinalityType
  <2>5. Cardinality(kept) = Cardinality(batch[b].saved) + Cardinality(batch[b].errored)
    BY <2>4, <2>a, <2>b
  <2>6. \A o \in batch[b].saved : savedBy[o] # NoBatch
    BY DEF BatchInv, SavesFit
  <2>7. batch[b].saved = kept \ batch[b].errored
    BY <2>2
  <2> QED
    BY <2>5, <2>6, <2>7 DEF Persisted, PersistErrored
<1>5. SlotIsSomebodys
  <2>0. SlotFits /\ \A b \in Batches : PhaseFits(batch[b])
    BY DEF BatchInv, RequestFits
  <2>1. Active => slot \in Slots /\ slot.of \in Batches
    BY DEF BatchInv, BatchTyped, Active, Slots
  <2>2. Active => \E b \in Batches : Working(b) \/ Is(b, "failed")
    BY <2>0, <2>1 DEF SlotFits
  <2>3. Active /\ ~overlapped => slot.completed <= slot.total
    <3> SUFFICES ASSUME Active, ~overlapped PROVE slot.completed <= slot.total
      OBVIOUS
    <3>1. batch[slot.of].done \subseteq batch[slot.of].items
        /\ IsFiniteSet(batch[slot.of].items)
      BY <2>0, <2>1 DEF PhaseFits
    <3>2. Cardinality(batch[slot.of].done) <= Cardinality(batch[slot.of].items)
      BY <3>1, FS_Subset
    <3> QED
      BY <2>0, <3>2 DEF SlotFits
  <2>4. ASSUME NEW b \in Batches, ~overlapped, Is(b, "saving"), batch[b].items # {}
        PROVE  /\ Active /\ slot.completed = Cardinality(batch[b].items)
               /\ slot.errored = Cardinality(Kind(b, "raised"))
    <3>1. Active /\ slot.of = b
      BY <2>0, <2>4 DEF SlotFits, Is
    <3>2. batch[b].done = batch[b].items /\ Told(b) = batch[b].items
      BY <2>0, <2>4 DEF PhaseFits, Is, Told
    <3>3. batch[b].done \cap Named(batch[b], "raised") = Kind(b, "raised")
      BY <3>2 DEF Kind, Named, Told
    <3> QED
      BY <2>0, <2>4, <3>1, <3>2, <3>3 DEF SlotFits
  <2> QED
    BY <2>2, <2>3, <2>4 DEF SlotIsSomebodys
<1>6. EventsFollowRuns
  BY DEF BatchInv, EventsFit, EventsFollowRuns, Is, Named, Kind, Told
<1> QED
  BY <1>1, <1>2, <1>3, <1>4, <1>5, <1>6 DEF BatchInv, BatchSafe

\* One request moves on; what is about it alone is a matter of its locals and its run.
LEMMA RequestMoves ==
  ASSUME BatchInv, NEW b \in Batches, NEW l \in Locals, NEW r \in RunRows,
         batch' = [batch EXCEPT ![b] = l], runRow' = [runRow EXCEPT ![b] = r],
         faults' \in Nat, faults' >= faults, RequestFits(l, r, faults')
  PROVE  /\ batch' \in [Batches -> Locals] /\ runRow' \in [Batches -> RunRows]
         /\ batch'[b] = l /\ runRow'[b] = r
         /\ \A c \in Batches : c # b => batch'[c] = batch[c] /\ runRow'[c] = runRow[c]
         /\ \A c \in Batches : RequestFits(batch'[c], runRow'[c], faults')
<1>1. batch \in [Batches -> Locals] /\ runRow \in [Batches -> RunRows] /\ faults \in Nat
  BY DEF BatchInv, BatchTyped
<1>2. batch'[b] = l /\ runRow'[b] = r
  BY <1>1
<1>3. \A c \in Batches : c # b => batch'[c] = batch[c] /\ runRow'[c] = runRow[c]
  BY <1>1
<1>4. ASSUME NEW c \in Batches, c # b
      PROVE  RequestFits(batch'[c], runRow'[c], faults')
  <2>1. RequestFits(batch[c], runRow[c], faults)
    BY DEF BatchInv
  <2>2. RequestFits(batch[c], runRow[c], faults')
    BY <1>1, <2>1 DEF RequestFits, RunFits
  <2> QED
    BY <1>3, <1>4, <2>2
<1> QED
  BY <1>1, <1>2, <1>3, <1>4

\* The slot stays as it is: the request goes on as somebody who works, or fails.
LEMMA SlotStays ==
  ASSUME BatchInv, NEW b \in Batches, NEW l \in Locals,
         batch' \in [Batches -> Locals],
         batch'[b] = l, \A c \in Batches : c # b => batch'[c] = batch[c],
         UNCHANGED <<slot, overlapped>>,
         l.items = batch[b].items, l.done = batch[b].done,
         l.done \cap Named(l, "raised") = batch[b].done \cap Named(batch[b], "raised"),
         batch[b].at \in Busy, l.at \in Busy \cup {"failed"},
         l.at \in {"working", "saving"} /\ l.items # {} => batch[b].at \in {"working",
                                                                            "saving"}
  PROVE  SlotFits'
<1>1. Active => slot.of \in Batches
  BY DEF BatchInv, BatchTyped, Active, Slots
<1>2. SlotFits
  BY DEF BatchInv
<1>3. \A c \in Batches : /\ Working(c)' => Working(c)
                         /\ Working(c) \/ Is(c, "failed") => Working(c)' \/ Is(c, "failed")'
  BY DEF Working, Busy, Is
<1>4. Active' <=> Active
  BY DEF Active
<1>5. \A c \in Batches :
         /\ batch'[c].items = batch[c].items /\ batch'[c].done = batch[c].done
         /\ batch'[c].done \cap Named(batch'[c], "raised")
            = batch[c].done \cap Named(batch[c], "raised")
         /\ batch'[c].at \in {"working", "saving"} /\ batch[c].items # {}
            => batch[c].at \in {"working", "saving"}
  OBVIOUS
<1> QED
  BY <1>1, <1>2, <1>3, <1>4, <1>5 DEF SlotFits

\* No row is saved.
LEMMA SavesStay ==
  ASSUME BatchInv, NEW b \in Batches,
         \A c \in Batches : batch'[c].saved = batch[c].saved, UNCHANGED savedBy
  PROVE  SavesFit'
<1>1. \A o \in InScope : savedBy[o] # NoBatch => savedBy[o] \in Batches
  BY DEF BatchInv, BatchTyped
<1> QED
  BY <1>1 DEF BatchInv, SavesFit

\* No event is written.
LEMMA EventsStay ==
  ASSUME BatchInv, NEW b \in Batches, UNCHANGED crmEvents,
         \A c \in Batches : c # b => batch'[c] = batch[c] /\ runRow'[c] = runRow[c],
         runRow[b].at = "finished" => runRow'[b].at = "finished",
         batch'[b].at \in {"clearing", "answered"} /\ batch'[b].keep /\ ~batch'[b].lost =>
            /\ batch[b].at \in {"clearing", "answered"} /\ batch[b].keep /\ ~batch[b].lost
            /\ batch'[b].told = batch[b].told
  PROVE  EventsFit'
<1>1. crmEvents \subseteq Batches \X InScope
  BY DEF BatchInv, BatchTyped
<1>2. \A e \in crmEvents : e[1] \in Batches
  BY <1>1
<1>3. \A e \in crmEvents' : runRow'[e[1]].at = "finished"
  BY <1>2 DEF BatchInv, EventsFit
<1>4. ASSUME NEW c \in Batches, batch'[c].at \in {"clearing", "answered"}, batch'[c].keep,
             ~batch'[c].lost
      PROVE  {c} \X Named(batch'[c], "crm") \subseteq crmEvents
  <2>1. /\ batch[c].at \in {"clearing", "answered"} /\ batch[c].keep /\ ~batch[c].lost
        /\ batch'[c].told = batch[c].told
    BY <1>4
  <2> QED
    BY <2>1 DEF BatchInv, EventsFit, Named
<1> QED
  BY <1>3, <1>4 DEF EventsFit

\* Nothing is calibrated, and what was told stays told.
LEMMA CalibrationStays ==
  ASSUME BatchInv, UNCHANGED calibrated,
         \A c \in Batches : \A o \in DOMAIN batch[c].told :
            o \in DOMAIN batch'[c].told /\ batch'[c].told[o] = batch[c].told[o]
  PROVE  CalibratedByModel'
<1>1. \A e \in calibrated : e[1] \in Batches /\ e[2] \in InScope
  BY DEF BatchInv, BatchTyped
<1> QED
  BY <1>1 DEF BatchInv, CalibratedByModel, Kind, Told

LEMMA FaultsGrow ==
  ASSUME BatchInv, faults' \in {faults, faults + 1}
  PROVE  faults' \in Nat /\ faults' >= faults
BY DEF BatchInv, BatchTyped

LEMMA LocalsOf ==
  ASSUME BatchInv, NEW b \in Batches
  PROVE  batch[b] \in Locals /\ runRow[b] \in RunRows /\ faults \in Nat
         /\ RequestFits(batch[b], runRow[b], faults)
         /\ batch \in [Batches -> Locals] /\ runRow \in [Batches -> RunRows]
         /\ runRow = [runRow EXCEPT ![b] = runRow[b]]
BY DEF BatchInv, BatchTyped

\* The fields of locals, and of locals of which one or two changed.
LEMMA FieldsOf ==
  ASSUME NEW l \in Locals
  PROVE  /\ l.at \in {"new", "reading", "working", "saving", "closing", "events", "clearing",
                      "answered", "failed", "dead"}
         /\ l.keep \in BOOLEAN /\ l.raised \in BOOLEAN /\ l.lost \in BOOLEAN
         /\ l.items \subseteq InScope /\ l.left \subseteq InScope /\ l.done \subseteq InScope
         /\ l.saved \subseteq InScope /\ l.errored \subseteq InScope
         /\ l.told \in UNION {[S -> Outcomes] : S \in SUBSET InScope}
BY DEF Locals

LEMMA StartRunInv ==
  ASSUME BatchInv, NEW b \in Batches, StartRun(b)
  PROVE  BatchInv'
<1>1. PICK keep \in BOOLEAN, skip \in BOOLEAN :
          batch' = [batch EXCEPT ![b].at = "reading", ![b].keep = keep,
                      ![b].items = {o \in ScopeOf[b] : skip => savedBy[o] = NoBatch}]
  BY DEF StartRun
<1> DEFINE items == {o \in ScopeOf[b] : skip => savedBy[o] = NoBatch}
           l == [batch[b] EXCEPT !.at = "reading", !.keep = keep, !.items = items]
           r == [runRow[b] EXCEPT !.at = "open"]
<1>2. items \subseteq InScope /\ IsFiniteSet(items)
  BY BatchAssumption, FS_Subset DEF InScope
<1> HIDE DEF items
<1>3. /\ l \in Locals /\ l.at = "reading" /\ l.keep = keep /\ l.items = items
      /\ l.left = batch[b].left /\ l.told = batch[b].told /\ l.done = batch[b].done
      /\ l.saved = batch[b].saved /\ l.errored = batch[b].errored /\ l.raised = batch[b].raised
      /\ l.lost = batch[b].lost
  BY <1>2, LocalsOf DEF Locals
<1>4. r \in RunRows /\ r.at = "open" /\ r.counts = runRow[b].counts
  BY LocalsOf DEF RunRows
<1>5. batch' = [batch EXCEPT ![b] = l] /\ runRow' = [runRow EXCEPT ![b] = r]
  BY <1>1, LocalsOf DEF StartRun, items
<1> HIDE DEF l, r
<1>6. batch[b].at = "new" /\ faults' = faults
  BY DEF StartRun, Is
<1>7. RequestFits(l, r, faults')
  BY <1>2, <1>3, <1>4, <1>6, LocalsOf DEF RequestFits, PhaseFits, TriedFits, RunFits,
      Tried, Worth, Named
<1>8. /\ batch' \in [Batches -> Locals] /\ runRow' \in [Batches -> RunRows]
      /\ batch'[b] = l /\ runRow'[b] = r
      /\ \A c \in Batches : c # b => batch'[c] = batch[c] /\ runRow'[c] = runRow[c]
      /\ \A c \in Batches : RequestFits(batch'[c], runRow'[c], faults')
  BY <1>3, <1>4, <1>5, <1>6, <1>7, RequestMoves, LocalsOf
<1>9. BatchTyped'
  BY <1>8 DEF StartRun, BatchInv, BatchTyped
<1>10. SavesFit'
  BY <1>3, <1>8, SavesStay DEF StartRun
<1>11. EventsFit'
  BY <1>3, <1>4, <1>6, <1>8, LocalsOf, EventsStay DEF StartRun, RequestFits, RunFits
<1>12. CalibratedByModel'
  BY <1>3, <1>8, CalibrationStays DEF StartRun
<1>13. SlotFits'
  <2>1. Active => slot.of \in Batches
    BY DEF BatchInv, BatchTyped, Active, Slots
  <2>2. Active => slot.of # b
    BY <1>6, <2>1 DEF BatchInv, SlotFits, Working, Is
  <2>3. \A c \in Batches : c # b => (Working(c)' <=> Working(c)) /\ (Is(c,
                                                                        "failed")' <=> Is(c, "failed"))
    BY <1>8 DEF Working, Is
  <2>4. Active' <=> Active
    BY DEF Active, StartRun
  <2>7. slot' = slot
    BY DEF StartRun
  <2>5. Active => Working(slot.of)' \/ Is(slot.of, "failed")'
    BY <2>1, <2>2, <2>3, <2>7 DEF BatchInv, SlotFits
  <2>6. ~overlapped' => ~overlapped /\ \A c \in Batches : c # b => ~Working(c)
    BY DEF StartRun
  <2>8. ~overlapped' => \A c \in Batches : c # b => batch[c].at \notin {"working", "saving"}
    BY <2>6 DEF Working
  <2> QED
    BY <1>3, <1>8, <2>1, <2>2, <2>3, <2>4, <2>5, <2>6, <2>7, <2>8 DEF BatchInv, SlotFits
<1> QED
  BY <1>8, <1>9, <1>10, <1>11, <1>12, <1>13 DEF BatchInv

\* A request moves on and leaves the slot, the rows, the events and the calibration.
LEMMA QuietStep ==
  ASSUME BatchInv, NEW b \in Batches, NEW l \in Locals, NEW r \in RunRows,
         batch' = [batch EXCEPT ![b] = l], runRow' = [runRow EXCEPT ![b] = r],
         faults' \in Nat, faults' >= faults, RequestFits(l, r, faults'),
         UNCHANGED <<slot, overlapped, savedBy, crmEvents, calibrated>>,
         l.keep = batch[b].keep, l.items = batch[b].items, l.told = batch[b].told,
         l.done = batch[b].done, l.saved = batch[b].saved, l.lost = batch[b].lost,
         batch[b].at \in Busy, l.at \in Busy \cup {"failed"},
         l.at \in {"working", "saving"} => batch[b].at \in {"working", "saving"},
         l.at = "clearing" => ~l.keep,
         runRow[b].at = "finished" => r.at = "finished"
  PROVE  BatchInv'
<1>1. /\ batch' \in [Batches -> Locals] /\ runRow' \in [Batches -> RunRows]
      /\ batch'[b] = l /\ runRow'[b] = r
      /\ \A c \in Batches : c # b => batch'[c] = batch[c] /\ runRow'[c] = runRow[c]
      /\ \A c \in Batches : RequestFits(batch'[c], runRow'[c], faults')
  BY RequestMoves
<1>2. BatchTyped'
  BY <1>1 DEF BatchInv, BatchTyped
<1>3. SavesFit'
  BY <1>1, SavesStay
<1>4. EventsFit'
  BY <1>1, EventsStay DEF Busy
<1>5. CalibratedByModel'
  BY <1>1, CalibrationStays
<1>6. l.done \cap Named(l, "raised") = batch[b].done \cap Named(batch[b], "raised")
  BY DEF Named
<1>7. SlotFits'
  BY <1>1, <1>6, SlotStays
<1> QED
  BY <1>1, <1>2, <1>3, <1>4, <1>5, <1>7 DEF BatchInv

LEMMA ReadFailsInv ==
  ASSUME BatchInv, NEW b \in Batches, ReadFails(b)
  PROVE  BatchInv'
<1> DEFINE l == [batch[b] EXCEPT !.at = "closing", !.raised = TRUE]
<1>1. /\ l \in Locals /\ l.at = "closing" /\ l.raised
      /\ l.keep = batch[b].keep /\ l.items = batch[b].items /\ l.left = batch[b].left
      /\ l.told = batch[b].told /\ l.done = batch[b].done /\ l.saved = batch[b].saved
      /\ l.errored = batch[b].errored /\ l.lost = batch[b].lost
  BY LocalsOf DEF Locals
<1>2. batch' = [batch EXCEPT ![b] = l] /\ runRow' = [runRow EXCEPT ![b] = runRow[b]]
  BY LocalsOf DEF ReadFails
<1> HIDE DEF l
<1>3. batch[b].at = "reading" /\ faults' = faults + 1
  BY DEF ReadFails, Is, Fails
<1>4. RequestFits(l, runRow[b], faults')
  BY <1>1, <1>3, LocalsOf DEF RequestFits, PhaseFits, TriedFits, RunFits, Tried, Worth, Named
<1>5. faults' \in Nat /\ faults' >= faults
  BY <1>3, FaultsGrow
<1>6. UNCHANGED <<slot, overlapped, savedBy, crmEvents, calibrated>>
  BY DEF ReadFails
<1>7. batch[b].at \in Busy /\ l.at \in Busy /\ l.at \notin {"working", "saving", "clearing"}
  BY <1>1, <1>3 DEF Busy
<1>8. runRow[b] \in RunRows
  BY LocalsOf
<1> QED
  BY <1>1, <1>2, <1>4, <1>5, <1>6, <1>7, <1>8, QuietStep

LEMMA EndWorkInv ==
  ASSUME BatchInv, NEW b \in Batches, EndWork(b)
  PROVE  BatchInv'
<1> DEFINE l == [batch[b] EXCEPT !.at = Saving(batch[b].left)]
<1>1. /\ l \in Locals /\ l.at = Saving(batch[b].left)
      /\ l.keep = batch[b].keep /\ l.items = batch[b].items /\ l.left = batch[b].left
      /\ l.told = batch[b].told /\ l.done = batch[b].done /\ l.saved = batch[b].saved
      /\ l.errored = batch[b].errored /\ l.raised = batch[b].raised
      /\ l.lost = batch[b].lost
  BY LocalsOf DEF Locals, Saving
<1>2. batch' = [batch EXCEPT ![b] = l] /\ runRow' = [runRow EXCEPT ![b] = runRow[b]]
  BY LocalsOf DEF EndWork
<1> HIDE DEF l
<1>3. batch[b].at = "working" /\ faults' = faults /\ batch[b].done = batch[b].items
  BY DEF EndWork, Is
<1>4. RequestFits(l, runRow[b], faults')
  BY <1>1, <1>3, LocalsOf DEF Saving, RequestFits, PhaseFits, TriedFits, RunFits, Tried,
      Worth, Named
<1>5. faults' \in Nat /\ faults' >= faults
  BY <1>3, FaultsGrow
<1>6. UNCHANGED <<slot, overlapped, savedBy, crmEvents, calibrated>>
  BY DEF EndWork
<1>7. batch[b].at \in Busy /\ l.at \in Busy /\ l.at # "clearing"
      /\ batch[b].at \in {"working", "saving"}
  BY <1>1, <1>3 DEF Busy, Saving
<1>8. runRow[b] \in RunRows
  BY LocalsOf
<1> QED
  BY <1>1, <1>2, <1>4, <1>5, <1>6, <1>7, <1>8, QuietStep

LEMMA FinishRunInv ==
  ASSUME BatchInv, NEW b \in Batches, FinishRun(b)
  PROVE  BatchInv'
<1>1. batch[b].at = "closing"
  BY DEF FinishRun, Is
<1>2. ASSUME NEW at \in {"events", "clearing", "failed"},
             NEW r \in RunRows, r.at \in {"open", "finished"},
             at = "failed" => r = runRow[b],
             at # "failed" => r.at = "finished" /\ r.counts = DOMAIN batch[b].told,
             at = "clearing" => ~batch[b].keep,
             batch' = [batch EXCEPT ![b].at = at], runRow' = [runRow EXCEPT ![b] = r],
             faults' \in {faults, faults + 1}
      PROVE  BatchInv'
  <2> DEFINE l == [batch[b] EXCEPT !.at = at]
  <2>1. /\ l \in Locals /\ l.at = at
        /\ l.keep = batch[b].keep /\ l.items = batch[b].items /\ l.left = batch[b].left
        /\ l.told = batch[b].told /\ l.done = batch[b].done /\ l.saved = batch[b].saved
        /\ l.errored = batch[b].errored /\ l.raised = batch[b].raised
        /\ l.lost = batch[b].lost
    BY LocalsOf DEF Locals
  <2>2. batch' = [batch EXCEPT ![b] = l]
    BY <1>2, LocalsOf
  <2> HIDE DEF l
  <2>3. RequestFits(l, r, faults')
    BY <1>1, <1>2, <2>1, LocalsOf DEF RequestFits, PhaseFits, TriedFits, RunFits, Tried,
        Worth, Named
  <2>4. UNCHANGED <<slot, savedBy, calibrated, crmEvents, overlapped>>
    BY DEF FinishRun
  <2>5. runRow[b].at # "finished"
    BY <1>1, LocalsOf DEF RequestFits, RunFits
  <2>6. faults' \in Nat /\ faults' >= faults
    BY <1>2, FaultsGrow
  <2>7. batch[b].at \in Busy /\ l.at \in Busy \cup {"failed"}
        /\ l.at \notin {"working", "saving"} /\ (l.at = "clearing" => ~l.keep)
    BY <1>1, <1>2, <2>1 DEF Busy
  <2> QED
    BY <1>2, <2>1, <2>2, <2>3, <2>4, <2>5, <2>6, <2>7, QuietStep
<1>3. DOMAIN batch[b].told \subseteq InScope
  BY LocalsOf, FieldsOf DEF RequestFits, PhaseFits
<1>4. CASE runRow' = [runRow EXCEPT ![b] = [at |-> "finished", counts |-> Told(b)]] /\ Works
           /\ batch' = [batch EXCEPT ![b].at = IF batch[b].keep THEN "events" ELSE "clearing"]
  <2> DEFINE r == [at |-> "finished", counts |-> Told(b)]
  <2>1. r \in RunRows /\ r.at = "finished" /\ r.counts = DOMAIN batch[b].told
    BY <1>3 DEF RunRows, Told
  <2>2. runRow' = [runRow EXCEPT ![b] = r] /\ faults' = faults
    BY <1>4 DEF Works
  <2> HIDE DEF r
  <2>3. CASE batch[b].keep
    BY <1>2, <1>4, <2>1, <2>2, <2>3
  <2>4. CASE ~batch[b].keep
    BY <1>2, <1>4, <2>1, <2>2, <2>4
  <2> QED
    BY <2>3, <2>4
<1>5. CASE batch' = [batch EXCEPT ![b].at = "failed"] /\ UNCHANGED runRow /\ Fails
  <2>1. runRow[b] \in RunRows /\ runRow[b].at = "open"
    BY <1>1, LocalsOf DEF RequestFits, RunFits
  <2>2. runRow' = [runRow EXCEPT ![b] = runRow[b]] /\ faults' = faults + 1
    BY <1>5, LocalsOf DEF Fails
  <2> QED
    BY <1>2, <1>5, <2>1, <2>2
<1> QED
  BY <1>4, <1>5 DEF FinishRun

LEMMA WriteEventsInv ==
  ASSUME BatchInv, NEW b \in Batches, WriteEvents(b)
  PROVE  BatchInv'
<1>1. batch[b].at = "events"
  BY DEF WriteEvents, Is
<1>2. PICK lost \in BOOLEAN :
         /\ batch' = [batch EXCEPT ![b].at = "clearing", ![b].lost = lost]
         /\ faults' \in {faults, faults + 1}
         /\ lost \/ crmEvents' = crmEvents \cup ({b} \X Kind(b, "crm"))
         /\ crmEvents' \in {crmEvents, crmEvents \cup ({b} \X Kind(b, "crm"))}
  <2>1. CASE /\ crmEvents' = crmEvents \cup ({b} \X Kind(b, "crm"))
             /\ batch' = [batch EXCEPT ![b].at = "clearing"]
             /\ Works
    <3>1. batch[b].lost \in BOOLEAN
      BY LocalsOf, FieldsOf
    <3>2. batch' = [batch EXCEPT ![b].at = "clearing", ![b].lost = batch[b].lost]
      BY <2>1, LocalsOf DEF Locals
    <3> QED
      BY <2>1, <3>1, <3>2 DEF Works
  <2>2. CASE /\ batch' = [batch EXCEPT ![b].at = "clearing", ![b].lost = TRUE]
             /\ UNCHANGED crmEvents /\ Fails
    BY <2>2 DEF Fails
  <2> QED
    BY <2>1, <2>2 DEF WriteEvents
<1> DEFINE l == [batch[b] EXCEPT !.at = "clearing", !.lost = lost]
<1>3. /\ l \in Locals /\ l.at = "clearing" /\ l.lost = lost
      /\ l.keep = batch[b].keep /\ l.items = batch[b].items /\ l.left = batch[b].left
      /\ l.told = batch[b].told /\ l.done = batch[b].done /\ l.saved = batch[b].saved
      /\ l.errored = batch[b].errored /\ l.raised = batch[b].raised
  BY LocalsOf DEF Locals
<1>4. batch' = [batch EXCEPT ![b] = l] /\ runRow' = [runRow EXCEPT ![b] = runRow[b]]
  BY <1>2, LocalsOf DEF WriteEvents
<1> HIDE DEF l
<1>5. RequestFits(l, runRow[b], faults')
  BY <1>1, <1>2, <1>3, LocalsOf DEF RequestFits, PhaseFits, TriedFits, RunFits, Tried,
      Worth, Named
<1>6. /\ batch' \in [Batches -> Locals] /\ runRow' \in [Batches -> RunRows]
      /\ batch'[b] = l /\ runRow'[b] = runRow[b]
      /\ \A c \in Batches : c # b => batch'[c] = batch[c] /\ runRow'[c] = runRow[c]
      /\ \A c \in Batches : RequestFits(batch'[c], runRow'[c], faults')
  <2>1. faults' \in Nat /\ faults' >= faults
    BY <1>2, FaultsGrow
  <2>2. runRow[b] \in RunRows
    BY LocalsOf
  <2> QED
    BY <1>3, <1>4, <1>5, <2>1, <2>2, RequestMoves
<1>7. Kind(b, "crm") = Named(batch[b], "crm") /\ Named(l, "crm") = Named(batch[b], "crm")
  BY <1>3 DEF Kind, Told, Named
<1>8. {b} \X Named(batch[b], "crm") \subseteq Batches \X InScope
  BY LocalsOf, FieldsOf DEF RequestFits, PhaseFits, Named
<1>9. BatchTyped'
  <2>1. crmEvents' \subseteq Batches \X InScope /\ faults' \in Nat
    BY <1>2, <1>7, <1>8 DEF BatchInv, BatchTyped
  <2> QED
    BY <1>6, <2>1 DEF WriteEvents, BatchInv, BatchTyped
<1>10. SavesFit'
  BY <1>3, <1>6, SavesStay DEF WriteEvents
<1>11. EventsFit'
  <2>1. runRow[b].at = "finished"
    BY <1>1, LocalsOf DEF RequestFits, RunFits
  <2>2. \A e \in crmEvents : e[1] \in Batches
    BY DEF BatchInv, BatchTyped
  <2>3. \A e \in crmEvents' : runRow'[e[1]].at = "finished"
    BY <1>2, <1>4, <1>6, <2>1, <2>2, LocalsOf DEF BatchInv, EventsFit
  <2>4. ASSUME NEW c \in Batches, batch'[c].at \in {"clearing", "answered"},
               batch'[c].keep, ~batch'[c].lost
        PROVE  {c} \X Named(batch'[c], "crm") \subseteq crmEvents'
    <3>1. CASE c = b
      BY <1>2, <1>3, <1>6, <1>7, <2>4, <3>1
    <3>2. CASE c # b
      BY <1>2, <1>6, <2>4, <3>2 DEF BatchInv, EventsFit
    <3> QED
      BY <3>1, <3>2
  <2> QED
    BY <2>3, <2>4 DEF EventsFit
<1>12. CalibratedByModel'
  BY <1>3, <1>6, CalibrationStays DEF WriteEvents
<1>13. SlotFits'
  <2>1. l.done \cap Named(l, "raised") = batch[b].done \cap Named(batch[b], "raised")
    BY <1>3 DEF Named
  <2> QED
    BY <1>1, <1>3, <1>6, <2>1, SlotStays DEF WriteEvents, Busy
<1> QED
  BY <1>6, <1>9, <1>10, <1>11, <1>12, <1>13 DEF BatchInv

LEMMA FanOutInv ==
  ASSUME BatchInv, NEW b \in Batches, FanOut(b)
  PROVE  BatchInv'
<1> DEFINE l == [batch[b] EXCEPT !.at = "working", !.left = batch[b].items]
<1>0. batch[b].at = "reading" /\ faults' = faults
  BY DEF FanOut, Is
<1>1. /\ l \in Locals /\ l.at = "working" /\ l.left = batch[b].items
      /\ l.keep = batch[b].keep /\ l.items = batch[b].items /\ l.told = batch[b].told
      /\ l.done = batch[b].done /\ l.saved = batch[b].saved /\ l.errored = batch[b].errored
      /\ l.raised = batch[b].raised /\ l.lost = batch[b].lost
  BY LocalsOf DEF Locals
<1>2. batch' = [batch EXCEPT ![b] = l] /\ runRow' = [runRow EXCEPT ![b] = runRow[b]]
  BY LocalsOf DEF FanOut
<1> HIDE DEF l
<1>3. RequestFits(l, runRow[b], faults')
  BY <1>0, <1>1, LocalsOf DEF RequestFits, PhaseFits, TriedFits, RunFits, Tried, Worth, Named
<1>4. /\ batch' \in [Batches -> Locals] /\ runRow' \in [Batches -> RunRows]
      /\ batch'[b] = l /\ runRow'[b] = runRow[b]
      /\ \A c \in Batches : c # b => batch'[c] = batch[c] /\ runRow'[c] = runRow[c]
      /\ \A c \in Batches : RequestFits(batch'[c], runRow'[c], faults')
  <2>1. faults' \in Nat /\ faults' >= faults
    BY <1>0, FaultsGrow
  <2>2. runRow[b] \in RunRows
    BY LocalsOf
  <2> QED
    BY <1>1, <1>2, <1>3, <2>1, <2>2, RequestMoves
<1>5. batch[b].done = {} /\ IsFiniteSet(batch[b].items)
  BY <1>0, LocalsOf DEF RequestFits, PhaseFits
<1>7. SavesFit' /\ EventsFit' /\ CalibratedByModel'
  <2>1. SavesFit'
    BY <1>1, <1>4, SavesStay DEF FanOut
  <2>2. EventsFit'
    BY <1>1, <1>4, EventsStay DEF FanOut
  <2>3. CalibratedByModel'
    BY <1>1, <1>4, CalibrationStays DEF FanOut
  <2> QED
    BY <2>1, <2>2, <2>3
<1>6. CASE batch[b].items = {}
  <2>1. UNCHANGED <<slot, overlapped>>
    BY <1>6 DEF FanOut
  <2>2. l.done \cap Named(l, "raised") = batch[b].done \cap Named(batch[b], "raised")
    BY <1>1 DEF Named
  <2>3. SlotFits'
    BY <1>0, <1>1, <1>4, <1>6, <2>1, <2>2, SlotStays DEF Busy
  <2>4. BatchTyped'
    BY <1>4, <2>1 DEF FanOut, BatchInv, BatchTyped
  <2> QED
    BY <1>4, <1>7, <2>3, <2>4 DEF BatchInv
<1>8. CASE batch[b].items # {}
  <2> DEFINE n == Cardinality(batch[b].items)
  <2>1. n \in Nat
    BY <1>5, FS_CardinalityType
  <2>2. /\ slot' = [of |-> b, total |-> n, completed |-> 0, errored |-> 0]
        /\ overlapped' = overlapped
    BY <1>8 DEF FanOut
  <2>3. /\ slot' \in Slots /\ slot'.of = b /\ slot'.total = n
        /\ slot'.completed = 0 /\ slot'.errored = 0
    BY <2>1, <2>2 DEF Slots
  <2>4. Active'
    BY <2>3, BatchAssumption DEF Active
  <2>5. BatchTyped'
    BY <1>4, <2>2, <2>3 DEF FanOut, BatchInv, BatchTyped
  <2>6. Working(b) /\ Working(b)' /\ \A c \in Batches : c # b => (Working(c)' <=> Working(c))
    BY <1>0, <1>1, <1>4 DEF Working
  <2>7. /\ batch'[b].items = batch[b].items /\ batch'[b].done = {}
        /\ Cardinality(batch'[b].done) = 0
        /\ Cardinality(batch'[b].done \cap Named(batch'[b], "raised")) = 0
    BY <1>1, <1>4, <1>5, FS_EmptySet
  <2>8. ~overlapped => \A c \in Batches : c # b => ~Working(c)
    BY <2>6 DEF BatchInv, SlotFits
  <2>9. ~overlapped => \A c \in Batches : c # b => batch'[c].at \notin {"working", "saving"}
    BY <1>4, <2>8 DEF Working
  <2> HIDE DEF n
  <2>a. ~overlapped' => \A c, d \in Batches : Working(c)' /\ Working(d)' => c = d
    BY <2>2, <2>6, <2>8
  <2>b. slot'.total = Cardinality(batch'[b].items)
    BY <2>3, <2>7 DEF n
  <2>10. SlotFits'
    BY <2>2, <2>3, <2>4, <2>6, <2>7, <2>9, <2>a, <2>b DEF SlotFits
  <2> QED
    BY <1>4, <1>7, <2>5, <2>10 DEF BatchInv
<1> QED
  BY <1>6, <1>8

LEMMA ClearSlotInv ==
  ASSUME BatchInv, NEW b \in Batches, ClearSlot(b)
  PROVE  BatchInv'
<1> DEFINE at == IF batch[b].raised THEN "failed" ELSE "answered"
           l  == [batch[b] EXCEPT !.at = at]
<1>0. batch[b].at = "clearing" /\ faults' = faults
  BY DEF ClearSlot, Is
<1>1. /\ l \in Locals /\ l.at = at
      /\ l.keep = batch[b].keep /\ l.items = batch[b].items /\ l.left = batch[b].left
      /\ l.told = batch[b].told /\ l.done = batch[b].done /\ l.saved = batch[b].saved
      /\ l.errored = batch[b].errored /\ l.raised = batch[b].raised
      /\ l.lost = batch[b].lost
  BY LocalsOf DEF Locals
<1>2. batch' = [batch EXCEPT ![b] = l] /\ runRow' = [runRow EXCEPT ![b] = runRow[b]]
  BY LocalsOf DEF ClearSlot
<1> HIDE DEF l
<1>3. RequestFits(l, runRow[b], faults')
  BY <1>0, <1>1, LocalsOf DEF RequestFits, PhaseFits, TriedFits, RunFits, Tried, Worth, Named
<1>4. /\ batch' \in [Batches -> Locals] /\ runRow' \in [Batches -> RunRows]
      /\ batch'[b] = l /\ runRow'[b] = runRow[b]
      /\ \A c \in Batches : c # b => batch'[c] = batch[c] /\ runRow'[c] = runRow[c]
      /\ \A c \in Batches : RequestFits(batch'[c], runRow'[c], faults')
  <2>1. faults' \in Nat /\ faults' >= faults
    BY <1>0, FaultsGrow
  <2>2. runRow[b] \in RunRows
    BY LocalsOf
  <2> QED
    BY <1>1, <1>2, <1>3, <2>1, <2>2, RequestMoves
<1>5. BatchTyped'
  BY <1>4 DEF ClearSlot, BatchInv, BatchTyped
<1>6. SavesFit'
  BY <1>1, <1>4, SavesStay DEF ClearSlot
<1>7. EventsFit'
  BY <1>0, <1>1, <1>4, EventsStay DEF ClearSlot
<1>8. CalibratedByModel'
  BY <1>1, <1>4, CalibrationStays DEF ClearSlot
<1>9. SlotFits'
  <2>1. slot' = NoSlot /\ overlapped' = overlapped /\ ~Active'
    BY DEF ClearSlot, Active
  <2>2. Working(b) /\ ~Working(b)' /\ \A c \in Batches : c # b => (Working(c)' <=> Working(c))
    BY <1>0, <1>1, <1>4 DEF Working
  <2>3. ~overlapped => \A c \in Batches : ~Working(c)'
    BY <2>2 DEF BatchInv, SlotFits
  <2>4. ~overlapped => \A c \in Batches : batch'[c].at \notin {"working", "saving"}
    BY <2>3 DEF Working
  <2> QED
    BY <2>1, <2>3, <2>4 DEF SlotFits
<1> QED
  BY <1>4, <1>5, <1>6, <1>7, <1>8, <1>9 DEF BatchInv

LEMMA RecordDoneInv ==
  ASSUME BatchInv, NEW b \in Batches, NEW o \in InScope, RecordDone(b, o)
  PROVE  BatchInv'
<1> DEFINE l == [batch[b] EXCEPT !.done = @ \cup {o}]
<1>0. /\ batch[b].at = "working" /\ faults' = faults
      /\ o \in DOMAIN batch[b].told /\ o \notin batch[b].done
  BY DEF RecordDone, Is, Told
<1>1. /\ l \in Locals /\ l.at = "working" /\ l.done = batch[b].done \cup {o}
      /\ l.keep = batch[b].keep /\ l.items = batch[b].items /\ l.left = batch[b].left
      /\ l.told = batch[b].told /\ l.saved = batch[b].saved /\ l.errored = batch[b].errored
      /\ l.raised = batch[b].raised /\ l.lost = batch[b].lost
  BY <1>0, LocalsOf DEF Locals
<1>2. batch' = [batch EXCEPT ![b] = l] /\ runRow' = [runRow EXCEPT ![b] = runRow[b]]
  BY LocalsOf DEF RecordDone
<1> HIDE DEF l
<1>3. RequestFits(l, runRow[b], faults')
  BY <1>0, <1>1, LocalsOf DEF RequestFits, PhaseFits, TriedFits, RunFits, Tried, Worth, Named
<1>4. /\ batch' \in [Batches -> Locals] /\ runRow' \in [Batches -> RunRows]
      /\ batch'[b] = l /\ runRow'[b] = runRow[b]
      /\ \A c \in Batches : c # b => batch'[c] = batch[c] /\ runRow'[c] = runRow[c]
      /\ \A c \in Batches : RequestFits(batch'[c], runRow'[c], faults')
  <2>1. faults' \in Nat /\ faults' >= faults
    BY <1>0, FaultsGrow
  <2>2. runRow[b] \in RunRows
    BY LocalsOf
  <2> QED
    BY <1>1, <1>2, <1>3, <2>1, <2>2, RequestMoves
<1>5. SavesFit'
  BY <1>1, <1>4, SavesStay DEF RecordDone
<1>6. EventsFit'
  BY <1>1, <1>4, EventsStay DEF RecordDone
<1>7. CalibratedByModel'
  BY <1>1, <1>4, CalibrationStays DEF RecordDone
<1>8. /\ Working(b) /\ \A c \in Batches : Working(c)' <=> Working(c)
      /\ \A c \in Batches : Is(c, "failed")' <=> Is(c, "failed")
  BY <1>0, <1>1, <1>4 DEF Working, Is
<1>9. CASE slot = NoSlot
  <2>1. slot' = slot /\ overlapped' = overlapped /\ ~Active /\ ~Active'
    BY <1>9 DEF RecordDone, Active
  <2>2. \A c \in Batches : batch'[c].at = batch[c].at /\ batch'[c].items = batch[c].items
    BY <1>0, <1>1, <1>4
  <2>3. SlotFits'
    BY <1>8, <2>1, <2>2 DEF BatchInv, SlotFits
  <2>4. BatchTyped'
    BY <1>4, <2>1 DEF RecordDone, BatchInv, BatchTyped
  <2> QED
    BY <1>4, <1>5, <1>6, <1>7, <2>3, <2>4 DEF BatchInv
<1>10. CASE slot # NoSlot
  <2> DEFINE more == IF batch[b].told[o] = "raised" THEN 1 ELSE 0
  <2>0. more \in {0, 1}
    OBVIOUS
  <2>1. slot \in Slots /\ Active
    BY <1>10 DEF BatchInv, BatchTyped, Active
  <2>2. /\ slot' = [slot EXCEPT !.completed = @ + 1, !.errored = @ + more]
        /\ overlapped' = overlapped
    BY <1>10 DEF RecordDone
  <2>3. /\ slot' \in Slots /\ slot'.of = slot.of /\ slot'.total = slot.total
        /\ slot'.completed = slot.completed + 1 /\ slot'.errored = slot.errored + more
    <3> HIDE DEF more
    <3>1. slot.completed \in Nat /\ slot.errored \in Nat
      BY <2>1 DEF Slots
    <3> DEFINE m == slot.completed + 1
               e == slot.errored + more
    <3>2. m \in Nat /\ e \in Nat
      BY <2>0, <3>1
    <3>3. slot' = [slot EXCEPT !.completed = m, !.errored = e]
      BY <2>2
    <3> HIDE DEF m, e
    <3>4. /\ slot' \in Slots /\ slot'.of = slot.of /\ slot'.total = slot.total
          /\ slot'.completed = m /\ slot'.errored = e
      BY <2>1, <3>2, <3>3 DEF Slots
    <3> QED
      BY <3>4 DEF m, e
  <2>4. Active'
    BY <2>3, BatchAssumption DEF Active
  <2>5. BatchTyped'
    BY <1>4, <2>2, <2>3 DEF RecordDone, BatchInv, BatchTyped
  <2>6. slot.of \in Batches /\ (Working(slot.of) \/ Is(slot.of, "failed"))
    BY <2>1 DEF BatchInv, SlotFits, Slots
  <2>7. ASSUME ~overlapped
        PROVE  /\ slot.of = b
               /\ slot'.total = Cardinality(batch'[b].items)
               /\ slot'.completed = Cardinality(batch'[b].done)
               /\ slot'.errored = Cardinality(batch'[b].done \cap Named(batch'[b], "raised"))
    <3>1. batch[b].items # {} /\ IsFiniteSet(batch[b].done)
      BY <1>0, LocalsOf, FS_Subset DEF RequestFits, PhaseFits
    <3>2. slot.of = b
      BY <1>0, <2>7, <3>1 DEF BatchInv, SlotFits
    <3> DEFINE D == batch[b].done
               R == batch[b].done \cap Named(batch[b], "raised")
    <3>3. /\ slot.total = Cardinality(batch[b].items)
          /\ slot.completed = Cardinality(D) /\ slot.errored = Cardinality(R)
      BY <2>1, <2>7, <3>2 DEF BatchInv, SlotFits
    <3>4. Cardinality(D \cup {o}) = Cardinality(D) + 1
      BY <1>0, <3>1, FS_AddElement
    <3>5. IsFiniteSet(R) /\ o \notin R
      BY <1>0, <3>1, FS_Subset
    <3>6. Cardinality(R \cup {o}) = Cardinality(R) + 1 /\ Cardinality(R) \in Nat
      BY <3>5, FS_AddElement, FS_CardinalityType
    <3>7. Named(l, "raised") = Named(batch[b], "raised")
      BY <1>1 DEF Named
    <3>8. l.done \cap Named(l, "raised") = IF batch[b].told[o] = "raised" THEN R
        \cup {o} ELSE R
      BY <1>0, <1>1, <3>7 DEF Named
    <3>9. Cardinality(l.done \cap Named(l, "raised")) = Cardinality(R) + more
      BY <3>6, <3>8
    <3> HIDE DEF D, R
    <3>10. l.done = D \cup {o}
      BY <1>1 DEF D
    <3> QED
      BY <1>1, <1>4, <2>3, <3>2, <3>3, <3>4, <3>9, <3>10
  <2>8. \A c \in Batches : batch'[c].at = batch[c].at /\ batch'[c].items = batch[c].items
    BY <1>0, <1>1, <1>4
  <2> HIDE DEF more
  <2>a. \A n \in Batches : n = slot'.of => Working(n)' \/ Is(n, "failed")'
    BY <1>8, <2>3, <2>6
  <2>b. ~overlapped => /\ \A c, d \in Batches : Working(c)' /\ Working(d)' => c = d
                       /\ \A c \in Batches :
                             batch'[c].at \in {"working", "saving"} /\ batch'[c].items # {}
                             => c = slot.of
    BY <1>8, <2>8 DEF BatchInv, SlotFits
  <2>9. SlotFits'
    BY <2>2, <2>3, <2>4, <2>6, <2>7, <2>a, <2>b DEF SlotFits
  <2> QED
    BY <1>4, <1>5, <1>6, <1>7, <2>5, <2>9 DEF BatchInv
<1> QED
  BY <1>9, <1>10

LEMMA AssessInv ==
  ASSUME BatchInv, NEW b \in Batches, NEW o \in InScope, Assess(b, o)
  PROVE  BatchInv'
<1>0. batch[b].at = "working" /\ o \in batch[b].items /\ o \notin DOMAIN batch[b].told
  BY LocalsOf DEF Assess, Is, Told, RequestFits, PhaseFits
<1>a. PICK k \in Outcomes : CommitOutcome(b, o, k)
  BY DEF Assess
<1> DEFINE told == [p \in Told(b) \cup {o} |-> IF p = o THEN k ELSE batch[b].told[p]]
           l    == [batch[b] EXCEPT !.told = told]
           more == [runRow[b] EXCEPT !.counts = DOMAIN told]
<1>b. batch[b].told \in [DOMAIN batch[b].told -> Outcomes]
    /\ DOMAIN batch[b].told \subseteq InScope
  BY LocalsOf, FieldsOf
<1>c. /\ DOMAIN told = DOMAIN batch[b].told \cup {o}
      /\ told[o] = k /\ \A p \in DOMAIN batch[b].told : told[p] = batch[b].told[p]
      /\ told \in [DOMAIN told -> Outcomes] /\ DOMAIN told \in SUBSET InScope
  BY <1>0, <1>b DEF Told
<1>d. /\ batch' = [batch EXCEPT ![b].told = told]
      /\ faults' \in {faults, faults + 1}
      /\ \/ runRow' = [runRow EXCEPT ![b].counts = DOMAIN told]
         \/ UNCHANGED runRow /\ faults' = faults + 1
      /\ calibrated' = calibrated \/ (k = "model" /\ calibrated' = calibrated \cup {<<b, o>>})
  BY <1>a DEF CommitOutcome, Works, Fails
<1> HIDE DEF told
<1>1. /\ l \in Locals /\ l.at = "working" /\ l.told = told
      /\ l.keep = batch[b].keep /\ l.items = batch[b].items /\ l.left = batch[b].left
      /\ l.done = batch[b].done /\ l.saved = batch[b].saved /\ l.errored = batch[b].errored
      /\ l.raised = batch[b].raised /\ l.lost = batch[b].lost
  BY <1>0, <1>c, LocalsOf DEF Locals
<1>e. more \in RunRows /\ more.at = runRow[b].at /\ more.counts = DOMAIN told
  BY <1>c, LocalsOf DEF RunRows
<1>2. batch' = [batch EXCEPT ![b] = l]
  BY <1>d, LocalsOf
<1> HIDE DEF l, more
<1>f. PICK r \in RunRows :
         /\ runRow' = [runRow EXCEPT ![b] = r] /\ r.at = runRow[b].at
         /\ r.counts = DOMAIN told \/ faults' > 0
  <2>1. CASE runRow' = [runRow EXCEPT ![b].counts = DOMAIN told]
    <3>1. runRow' = [runRow EXCEPT ![b] = more]
      BY <2>1, LocalsOf DEF more
    <3> QED
      BY <1>e, <3>1
  <2>2. CASE UNCHANGED runRow /\ faults' = faults + 1
    BY <2>2, LocalsOf
  <2> QED
    BY <1>d, <2>1, <2>2
<1>3. RequestFits(l, r, faults')
  <2>1. PhaseFits(batch[b]) /\ TriedFits(batch[b]) /\ RunFits(batch[b], runRow[b], faults)
    BY LocalsOf DEF RequestFits
  <2>2. PhaseFits(l)
    BY <1>0, <1>1, <1>c, <2>1 DEF PhaseFits
  <2>3. TriedFits(l)
    BY <1>0, <1>1, <2>1 DEF TriedFits, Tried
  <2>4. RunFits(l, r, faults')
    BY <1>0, <1>1, <1>f, <2>1 DEF RunFits
  <2> QED
    BY <2>2, <2>3, <2>4 DEF RequestFits
<1>4. /\ batch' \in [Batches -> Locals] /\ runRow' \in [Batches -> RunRows]
      /\ batch'[b] = l /\ runRow'[b] = r
      /\ \A c \in Batches : c # b => batch'[c] = batch[c] /\ runRow'[c] = runRow[c]
      /\ \A c \in Batches : RequestFits(batch'[c], runRow'[c], faults')
  <2>1. faults' \in Nat /\ faults' >= faults
    BY <1>d, FaultsGrow
  <2> QED
    BY <1>1, <1>2, <1>3, <1>f, <2>1, RequestMoves
<1>5. BatchTyped'
  <2>1. calibrated' \subseteq Batches \X InScope /\ faults' \in Nat
    BY <1>d, FaultsGrow DEF BatchInv, BatchTyped
  <2> QED
    BY <1>4, <2>1 DEF Assess, BatchInv, BatchTyped
<1>6. SavesFit'
  BY <1>1, <1>4, SavesStay DEF Assess
<1>7. EventsFit'
  BY <1>1, <1>4, <1>f, EventsStay DEF Assess
<1>8. CalibratedByModel'
  <2>1. \A e \in calibrated : e[1] \in Batches /\ e \in Batches \X InScope
    BY DEF BatchInv, BatchTyped
  <2>2. \A c \in Batches : \A p \in DOMAIN batch[c].told :
            p \in DOMAIN batch'[c].told /\ batch'[c].told[p] = batch[c].told[p]
    BY <1>1, <1>4, <1>c
  <2>3. \A e \in calibrated : e[2] \in DOMAIN batch'[e[1]].told
      /\ batch'[e[1]].told[e[2]] = "model"
    BY <2>1, <2>2 DEF BatchInv, CalibratedByModel, Kind, Told
  <2>4. k = "model" => o \in DOMAIN batch'[b].told /\ batch'[b].told[o] = "model"
    BY <1>1, <1>4, <1>c
  <2>5. \A e \in calibrated' : e[2] \in DOMAIN batch'[e[1]].told
      /\ batch'[e[1]].told[e[2]] = "model"
    BY <1>d, <2>3, <2>4
  <2> QED
    BY <2>5 DEF CalibratedByModel, Kind, Told
<1>9. SlotFits'
  <2>1. batch[b].done \subseteq DOMAIN batch[b].told
    BY LocalsOf DEF RequestFits, PhaseFits
  <2>2. l.done \cap Named(l, "raised") = batch[b].done \cap Named(batch[b], "raised")
    BY <1>1, <1>c, <2>1 DEF Named
  <2> QED
    BY <1>0, <1>1, <1>4, <2>2, SlotStays DEF Assess, Busy
<1> QED
  BY <1>4, <1>5, <1>6, <1>7, <1>8, <1>9 DEF BatchInv

LEMMA SaveRowInv ==
  ASSUME BatchInv, NEW b \in Batches, NEW o \in InScope, SaveRow(b, o)
  PROVE  BatchInv'
<1>0. /\ batch[b].at = "saving" /\ o \in batch[b].left
      /\ UNCHANGED <<runRow, slot, calibrated, crmEvents, overlapped>>
  BY DEF SaveRow, Is
<1>a. /\ DOMAIN batch[b].told = batch[b].items /\ batch[b].left \subseteq batch[b].items
      /\ Tried(batch[b]) = Worth(batch[b]) \ batch[b].left /\ ~batch[b].raised
      /\ batch[b].saved \cap batch[b].errored = {}
  BY <1>0, LocalsOf DEF RequestFits, PhaseFits, TriedFits
<1>b. ASSUME NEW l \in Locals,
             batch' = [batch EXCEPT ![b] = l], faults' \in {faults, faults + 1},
             l.left = batch[b].left \ {o}, l.at = Saving(l.left),
             l.keep = batch[b].keep, l.items = batch[b].items, l.told = batch[b].told,
             l.done = batch[b].done, l.raised = batch[b].raised, l.lost = batch[b].lost,
             \/ /\ o \notin Worth(batch[b]) /\ savedBy' = savedBy
                /\ l.saved = batch[b].saved /\ l.errored = batch[b].errored
             \/ /\ o \in Worth(batch[b]) /\ savedBy' = [savedBy EXCEPT ![o] = b]
                /\ l.saved = batch[b].saved \cup {o} /\ l.errored = batch[b].errored
             \/ /\ o \in Worth(batch[b]) /\ savedBy' = savedBy
                /\ l.saved = batch[b].saved /\ l.errored = batch[b].errored \cup {o}
      PROVE  BatchInv'
  <2>1. RequestFits(l, runRow[b], faults')
    <3>1. PhaseFits(batch[b]) /\ RunFits(batch[b], runRow[b], faults) /\ faults \in Nat
      BY LocalsOf DEF RequestFits
    <3>2. PhaseFits(l)
      BY <1>0, <1>a, <1>b, <3>1 DEF PhaseFits, Saving
    <3>3. Worth(l) = Worth(batch[b]) /\ Worth(l) \subseteq DOMAIN l.told
      BY <1>b DEF Worth, Named
    <3>4. Tried(l) = Worth(l) \ l.left /\ l.saved \cap l.errored = {}
      BY <1>0, <1>a, <1>b, <3>3 DEF Tried
    <3>5. TriedFits(l)
      BY <1>b, <3>3, <3>4 DEF TriedFits, Saving
    <3>6. RunFits(l, runRow[b], faults')
      BY <1>0, <1>b, <3>1 DEF RunFits, Saving
    <3> QED
      BY <3>2, <3>5, <3>6 DEF RequestFits
  <2>2. /\ batch' \in [Batches -> Locals] /\ runRow' \in [Batches -> RunRows]
        /\ batch'[b] = l /\ runRow'[b] = runRow[b]
        /\ \A c \in Batches : c # b => batch'[c] = batch[c] /\ runRow'[c] = runRow[c]
        /\ \A c \in Batches : RequestFits(batch'[c], runRow'[c], faults')
    <3>1. faults' \in Nat /\ faults' >= faults /\ runRow[b] \in RunRows
      BY <1>b, FaultsGrow, LocalsOf
    <3>2. runRow' = [runRow EXCEPT ![b] = runRow[b]]
      BY <1>0, LocalsOf
    <3> QED
      BY <1>b, <2>1, <3>1, <3>2, RequestMoves
  <2>3. savedBy' \in [InScope -> Batches \cup {NoBatch}]
    BY <1>b DEF BatchInv, BatchTyped
  <2>4. BatchTyped'
    BY <1>0, <1>b, <2>2, <2>3, FaultsGrow DEF BatchInv, BatchTyped
  <2>5. SavesFit'
    <3>1. savedBy \in [InScope -> Batches \cup {NoBatch}]
      BY DEF BatchInv, BatchTyped
    <3>2. \A c \in Batches : batch[c].saved \subseteq batch'[c].saved
      BY <1>b, <2>2
    <3>3. \A p \in InScope : \/ savedBy'[p] = savedBy[p]
                             \/ p = o /\ o \in l.saved /\ savedBy'[p] = b
      BY <1>b, <3>1
    <3>7. o \in l.saved => o \in batch[b].saved \/ savedBy'[o] = b
      BY <1>b, <3>1
    <3>4. \A p \in InScope : savedBy'[p] # NoBatch => p \in batch'[savedBy'[p]].saved
      BY <1>b, <2>2, <3>1, <3>2, <3>3 DEF BatchInv, SavesFit
    <3>5. \A c \in Batches : \A p \in batch'[c].saved : p \in InScope
      BY <2>2, FieldsOf
    <3>6. \A c \in Batches : \A p \in batch'[c].saved : savedBy'[p] # NoBatch
      BY <1>b, <2>2, <3>3, <3>5, <3>7, BatchAssumption DEF BatchInv, SavesFit
    <3> QED
      BY <3>4, <3>6 DEF SavesFit
  <2>6. EventsFit'
    BY <1>0, <1>b, <2>2, EventsStay DEF Saving
  <2>7. CalibratedByModel'
    BY <1>0, <1>b, <2>2, CalibrationStays
  <2>8. SlotFits'
    <3>1. l.done \cap Named(l, "raised") = batch[b].done \cap Named(batch[b], "raised")
      BY <1>b DEF Named
    <3> QED
      BY <1>0, <1>b, <2>2, <3>1, SlotStays DEF Busy, Saving
  <2> QED
    BY <2>2, <2>4, <2>5, <2>6, <2>7, <2>8 DEF BatchInv
<1> DEFINE left == batch[b].left \ {o}
           past == [batch EXCEPT ![b].left = left, ![b].at = Saving(left)]
<1>1. /\ o \in DOMAIN batch[b].told /\ o \in InScope
      /\ left \subseteq InScope /\ Saving(left) \in {"saving", "closing"}
  BY <1>0, <1>a, LocalsOf, FieldsOf DEF Saving
<1>2. CASE batch[b].told[o] = "raised" \/ ~batch[b].keep
  <2>1. o \notin Worth(batch[b])
    BY <1>2 DEF Worth, Named
  <2>2. CASE batch' = past /\ UNCHANGED <<savedBy, faults>>
    <3> DEFINE l == [batch[b] EXCEPT !.left = left, !.at = Saving(left)]
    <3>1. batch' = [batch EXCEPT ![b] = l]
      BY <2>2, LocalsOf DEF Locals
    <3>2. /\ l \in Locals /\ l.at = Saving(left) /\ l.left = left
          /\ l.saved = batch[b].saved /\ l.errored = batch[b].errored
          /\ l.keep = batch[b].keep /\ l.items = batch[b].items /\ l.told = batch[b].told
          /\ l.done = batch[b].done /\ l.raised = batch[b].raised /\ l.lost = batch[b].lost
      BY <1>0, <1>1, LocalsOf DEF Locals
    <3> HIDE DEF l
    <3>3. savedBy' = savedBy /\ faults' \in {faults, faults + 1}
      BY <2>2 DEF Works, Fails
    <3> QED
      BY <1>b, <2>1, <3>1, <3>2, <3>3
  <2> QED
    BY <1>2, <2>2 DEF SaveRow
<1>3. CASE ~(batch[b].told[o] = "raised" \/ ~batch[b].keep)
  <2>1. o \in Worth(batch[b])
    BY <1>1, <1>3 DEF Worth, Named
  <2>2. CASE /\ batch' = [past EXCEPT ![b].saved = @ \cup {o}]
             /\ savedBy' = [savedBy EXCEPT ![o] = b]
             /\ Works
    <3> DEFINE l == [batch[b] EXCEPT !.left = left, !.at = Saving(left),
                              !.saved = batch[b].saved \cup {o}]
    <3>0. /\ DOMAIN batch = Batches /\ DOMAIN batch[b] = DOMAIN Idle /\ "saved" \in DOMAIN Idle
          /\ "left" \in DOMAIN Idle /\ "at" \in DOMAIN Idle
      BY LocalsOf DEF Locals, Idle
    <3>1. batch' = [batch EXCEPT ![b] = l]
      BY <2>2, <3>0
    <3>2. /\ l \in Locals /\ l.at = Saving(left) /\ l.left = left
          /\ l.saved = batch[b].saved \cup {o} /\ l.errored = batch[b].errored
          /\ l.keep = batch[b].keep /\ l.items = batch[b].items /\ l.told = batch[b].told
          /\ l.done = batch[b].done /\ l.raised = batch[b].raised /\ l.lost = batch[b].lost
      BY <1>0, <1>1, LocalsOf DEF Locals
    <3> HIDE DEF l
    <3>3. savedBy' = [savedBy EXCEPT ![o] = b] /\ faults' \in {faults, faults + 1}
      BY <2>2 DEF Works, Fails
    <3> QED
      BY <1>b, <2>1, <3>1, <3>2, <3>3
  <2>3. CASE /\ batch' = [past EXCEPT ![b].errored = @ \cup {o}]
             /\ UNCHANGED savedBy /\ Fails
    <3> DEFINE l == [batch[b] EXCEPT !.left = left, !.at = Saving(left),
                              !.errored = batch[b].errored \cup {o}]
    <3>1. batch' = [batch EXCEPT ![b] = l]
      BY <2>3, LocalsOf DEF Locals
    <3>2. /\ l \in Locals /\ l.at = Saving(left) /\ l.left = left
          /\ l.saved = batch[b].saved /\ l.errored = batch[b].errored \cup {o}
          /\ l.keep = batch[b].keep /\ l.items = batch[b].items /\ l.told = batch[b].told
          /\ l.done = batch[b].done /\ l.raised = batch[b].raised /\ l.lost = batch[b].lost
      BY <1>0, <1>1, LocalsOf DEF Locals
    <3> HIDE DEF l
    <3>3. savedBy' = savedBy /\ faults' \in {faults, faults + 1}
      BY <2>3 DEF Works, Fails
    <3> QED
      BY <1>b, <2>1, <3>1, <3>2, <3>3
  <2> QED
    BY <1>3, <2>2, <2>3 DEF SaveRow
<1> QED
  BY <1>2, <1>3

LEMMA DieInv ==
  ASSUME BatchInv, Die
  PROVE  BatchInv'
<1> DEFINE over(c) == batch[c].at \in {"new", "answered", "failed", "dead"}
<1>1. ASSUME NEW c \in Batches
      PROVE  /\ batch'[c] \in Locals
             /\ batch'[c].at = IF over(c) THEN batch[c].at ELSE "dead"
             /\ batch'[c].keep = batch[c].keep /\ batch'[c].items = batch[c].items
             /\ batch'[c].told = batch[c].told /\ batch'[c].done = batch[c].done
             /\ batch'[c].saved = batch[c].saved /\ batch'[c].errored = batch[c].errored
             /\ batch'[c].left = batch[c].left /\ batch'[c].raised = batch[c].raised
             /\ batch'[c].lost = batch[c].lost
  <2>1. batch'[c] = IF over(c) THEN batch[c] ELSE [batch[c] EXCEPT !.at = "dead"]
    BY DEF Die
  <2>2. batch[c] \in Locals
    BY LocalsOf
  <2> HIDE DEF over
  <2> QED
    BY <2>1, <2>2 DEF Locals
<1>2. /\ faults' = faults + 1 /\ slot' = NoSlot
      /\ UNCHANGED <<runRow, savedBy, calibrated, crmEvents, overlapped>>
  BY DEF Die, Fails
<1>3. batch' \in [Batches -> Locals]
  <2>1. batch' = [c \in Batches |-> batch'[c]]
    BY DEF Die
  <2> QED
    BY <1>1, <2>1
<1>4. BatchTyped'
  BY <1>2, <1>3 DEF BatchInv, BatchTyped
<1>5. ASSUME NEW c \in Batches
      PROVE  RequestFits(batch'[c], runRow'[c], faults')
  <2>1. RequestFits(batch[c], runRow[c], faults) /\ faults \in Nat
    BY LocalsOf
  <2>2. batch'[c].at \in {batch[c].at, "dead"} /\ (batch[c].at = "new" => batch'[c].at = "new")
    BY <1>1
  <2>3. PhaseFits(batch'[c])
    BY <1>1, <2>1, <2>2 DEF RequestFits, PhaseFits
  <2>4. TriedFits(batch'[c])
    BY <1>1, <2>1, <2>2 DEF RequestFits, TriedFits, Tried, Worth, Named
  <2>5. RunFits(batch'[c], runRow'[c], faults')
    BY <1>1, <1>2, <2>1, <2>2 DEF RequestFits, RunFits
  <2> QED
    BY <2>3, <2>4, <2>5 DEF RequestFits
<1>6. SavesFit'
  BY <1>1, <1>2 DEF BatchInv, BatchTyped, SavesFit
<1>7. SlotFits'
  <2>1. \A c \in Batches : ~Working(c)'
    BY <1>1 DEF Working
  <2>2. \A c \in Batches : batch'[c].at \notin {"working", "saving"}
    BY <1>1
  <2>3. ~Active'
    BY <1>2 DEF Active
  <2> QED
    BY <2>1, <2>2, <2>3 DEF SlotFits
<1>8. EventsFit'
  <2>1. \A c \in Batches : batch'[c].at \in {"clearing", "answered"} =>
            batch[c].at \in {"clearing", "answered"}
    BY <1>1
  <2>2. \A c \in Batches : Named(batch'[c], "crm") = Named(batch[c], "crm")
    BY <1>1 DEF Named
  <2> QED
    BY <1>1, <1>2, <2>1, <2>2 DEF BatchInv, EventsFit
<1>9. CalibratedByModel'
  BY <1>1, <1>2, CalibrationStays
<1> QED
  BY <1>4, <1>5, <1>6, <1>7, <1>8, <1>9 DEF BatchInv

LEMMA InitBatchInv == BatchInit => BatchInv
<1> SUFFICES ASSUME BatchInit PROVE BatchInv
  OBVIOUS
<1>1. /\ Idle \in Locals /\ DOMAIN Idle.told = {} /\ Idle.at = "new" /\ Idle.done = {}
      /\ Idle.items = {} /\ Idle.saved = {} /\ Idle.errored = {} /\ ~Idle.raised
  BY DEF Idle, Locals
<1>2. \A b \in Batches : batch[b] = Idle /\ runRow[b] = [at |-> "none", counts |-> {}]
  BY DEF BatchInit
<1>3. BatchTyped
  BY <1>1 DEF BatchInit, BatchTyped, RunRows
<1>4. ASSUME NEW b \in Batches
      PROVE  RequestFits(batch[b], runRow[b], faults)
  <2>1. RequestFits(Idle, [at |-> "none", counts |-> {}], faults)
    BY <1>1, FS_EmptySet DEF RequestFits, PhaseFits, TriedFits, RunFits, Tried
  <2> QED
    BY <1>2, <2>1
<1>5. SavesFit /\ CalibratedByModel
  BY <1>1, <1>2 DEF BatchInit, SavesFit, CalibratedByModel
<1>6. EventsFit /\ SlotFits
  BY <1>1, <1>2 DEF BatchInit, EventsFit, SlotFits, Working, Active
<1> QED
  BY <1>3, <1>4, <1>5, <1>6 DEF BatchInv

LEMMA BatchNextInv ==
  ASSUME BatchInv, [BatchNext]_batchVars
  PROVE  BatchInv'
<1>1. CASE UNCHANGED batchVars
  <2> USE <1>1 DEF batchVars
  <2>1. BatchTyped' /\ CalibratedByModel'
    BY DEF BatchInv, BatchTyped, CalibratedByModel, Kind, Told
  <2>2. (\A b \in Batches : RequestFits(batch'[b], runRow'[b], faults')) /\ SavesFit'
      /\ EventsFit'
    BY DEF BatchInv, SavesFit, EventsFit
  <2>3. SlotFits'
    BY DEF BatchInv, SlotFits, Active, Working, Is
  <2> QED
    BY <2>1, <2>2, <2>3 DEF BatchInv
<1>2. ASSUME NEW b \in Batches, BatchStep(b)
      PROVE  BatchInv'
  BY <1>2, StartRunInv, ReadFailsInv, FanOutInv, EndWorkInv, FinishRunInv, WriteEventsInv,
     ClearSlotInv, AssessInv, RecordDoneInv, SaveRowInv DEF BatchStep
<1> QED
  BY <1>1, <1>2, DieInv DEF BatchNext

(* Whatever two batches on one workbook do to each other, and whatever     *)
(* write fails: a run row catches up with what its request was told,       *)
(* every saved row is counted by the run it names, an answer adds up, the  *)
(* progress slot is somebody's, CRM events follow their runs and only what *)
(* the model decided is calibrated                                         *)
(* (routes/controls.py assess_batch, routes/_batch_progress.py).           *)
THEOREM BatchesAreSafe == BatchSpec => []BatchSafe
<1>1. BatchInit => BatchInv
  BY InitBatchInv
<1>2. BatchInv /\ [BatchNext]_batchVars => BatchInv'
  BY BatchNextInv
<1>3. BatchInv => BatchSafe
  BY BatchInvIsSafe
<1> QED
  BY <1>1, <1>2, <1>3, PTL DEF BatchSpec

-----------------------------------------------------------------------------
(* The client of the model *)

(* The parts of the invariant that are about one call k: s is the flag, y  *)
(* that somebody's request is bad.                                         *)
CallTyped(k) ==
    /\ DOMAIN k = DOMAIN Fresh
    /\ k.at \in {"new", "opening", "sending", "answered", "done"} /\ k.op \in Ops
    /\ k.turn \in {1, 2} /\ k.tries \in 0..MaxAttempts
    /\ k.bad \in BOOLEAN /\ k.temp \in BOOLEAN /\ k.began \in BOOLEAN
    /\ k.refusals \in {0, 1} /\ k.answers \in Nat /\ k.counted \in Nat
    /\ k.first.said = "proposal" => k.first.sent \in BOOLEAN
    /\ k.op # "image" => k.image = "small"

\* How far a call has come.
CourseFits(k) ==
    /\ k.at = "new" => ~k.bad /\ k.turn = 1
    /\ k.at # "done" => /\ k.result = Unset
                        /\ k.answers = IF k.at = "answered" THEN k.turn ELSE k.turn - 1
                        /\ k.turn = 2 => k.op \in {"pair", "judge"}
                        /\ IF k.op = "pair" /\ k.turn = 2
                           THEN k.first.said = "proposal" /\ k.counted \in {0, Bill}
                           ELSE k.counted = 0

\* What a call knows of the endpoint, and the flag with it.
FlagFits(k, s) ==
    /\ k.refusals > 0 => ~s /\ ~k.temp
    /\ ~k.began => ~s /\ ~k.temp /\ k.refusals = 0
    /\ k.at = "new" => k.began /\ ~k.temp /\ k.refusals = 0
    /\ k.at \in {"sending", "answered"} => k.temp \/ ~s
    /\ k.at = "answered" /\ k.temp => takes
    /\ k.first.said = "proposal" => IF k.first.sent THEN takes ELSE ~s

\* What the text that was read backs.
Backed(p, text) ==
    p.said # "held" =>
       \E i \in DOMAIN text : /\ text[i].status = p.status /\ text[i].narrative = "text"
                              /\ text[i].abstain = (p.said = "abstain")
                              /\ text[i].confidence = {} => p.confidence = 0

RaisedFits(k) ==
    k.result.said = "raised" =>
       /\ k.result.cause \in {"bad", "broken", "throttled", "garbled"}
       /\ k.result.cause = "bad" => k.bad

ProposalFits(k, y) ==
    k.result.said = "proposal" =>
       /\ k.result.noted => k.result.sent
       /\ k.result.sent /\ ~k.result.noted => y
       /\ k.op = "pair" /\ k.result.sent # k.first.sent => y
       /\ Backed(k.result.of, k.result.whole)

ScoreFits(k) ==
    k.result.said = "score" =>
       /\ k.result.score = "stated" => k.result.answer = "stated"
       /\ k.result.score = "zero" => k.result.answer # "stated"
       /\ k.result.score = "zero" /\ k.result.answer = "garbled" => provider = "openai"
       /\ k.result.score = "error" /\ provider = "anthropic" =>
             k.result.answer = "garbled" /\ k.answers = 2

TokensFit(k) ==
    k.result.said # "raised" => /\ k.counted \in {Bill * n : n \in 0..k.answers}
                                /\ k.op = "judge" => k.counted <= Bill

ResultFits(k, y) ==
    k.at = "done" => RaisedFits(k) /\ ProposalFits(k, y) /\ ScoreFits(k) /\ TokensFit(k)

CallFits(k, s, y) == CallTyped(k) /\ CourseFits(k) /\ FlagFits(k, s) /\ ResultFits(k, y)

ClientInv ==
    /\ supports \in BOOLEAN
    /\ DOMAIN call = Callers
    /\ \A c \in Callers : CallFits(call[c], supports, SomeBad)
    /\ takes /\ ~SomeBad => supports

-----------------------------------------------------------------------------
LEMMA ClientInvIsSafe ==
  ASSUME ClientInv
  PROVE  ClientSafe
<1>1. ClientTypeOK
  BY DEF ClientInv, ClientTypeOK, CallFits, CallTyped
<1>2. \A c \in Callers : CallTyped(call[c]) /\ FlagFits(call[c], supports)
  BY DEF ClientInv, CallFits
<1>3. RefusalsAreFew
  BY <1>2 DEF ClientInv, RefusalsAreFew, CallTyped, FlagFits
<1>4. \A c \in Callers : Stands(c, "done") =>
         /\ RaisedFits(call[c]) /\ ProposalFits(call[c], SomeBad)
         /\ ScoreFits(call[c]) /\ TokensFit(call[c])
  BY DEF ClientInv, CallFits, ResultFits, Stands
<1>5. TemperatureFailsNobody
  BY <1>4 DEF TemperatureFailsNobody, Given, RaisedFits
<1>6. NotedAsSent
  BY <1>2, <1>4 DEF NotedAsSent, Given, ProposalFits, FlagFits
<1>7. VerdictsAreStated
  BY <1>4 DEF VerdictsAreStated, Given, ProposalFits, Backed
<1>8. ScoresAreRead
  BY <1>4 DEF ScoresAreRead, Given, ScoreFits
<1>9. TokensAreCounted
  BY <1>4 DEF TokensAreCounted, TokensFit
<1> QED
  BY <1>1, <1>3, <1>5, <1>6, <1>7, <1>8, <1>9 DEF ClientSafe

\* What is made of an answer, the answer says.
LEMMA ProposalsAreBacked ==
  ASSUME NEW text \in Replies, NEW cut \in BOOLEAN, NEW p \in Proposal(text, cut)
  PROVE  Backed(p, IF cut THEN <<>> ELSE text)
<1>1. CASE p = Held
  BY <1>1 DEF Backed, Held
<1>2. CASE p # Held
  <2>1. ~cut /\ p \in Parse(text)
    BY <1>2 DEF Proposal
  <2>2. PICK i \in DOMAIN text : text[i].narrative = "text" /\ p = Stated(text[i])
    BY <1>2, <2>1 DEF Parse, Firsts
  <2>3. text[i].abstain \in BOOLEAN
    BY ClientAssumption
  <2>4. text[i].confidence = {} => p.confidence = 0
    BY <2>2 DEF Stated, Confidence
  <2> QED
    BY <2>1, <2>2, <2>3, <2>4 DEF Backed, Stated
<1> QED
  BY <1>1, <1>2

\* A call stays fit as the flag falls and somebody's request turns out bad.
LEMMA FitStays ==
  ASSUME NEW k, NEW s \in BOOLEAN, NEW t \in BOOLEAN, NEW y \in BOOLEAN, NEW z \in BOOLEAN,
         CallFits(k, s, y), t => s, y => z
  PROVE  CallFits(k, t, z)
<1>1. FlagFits(k, t)
  BY DEF CallFits, FlagFits
<1>2. ResultFits(k, z)
  BY DEF CallFits, ResultFits, ProposalFits
<1> QED
  BY <1>1, <1>2 DEF CallFits

\* One call moves, the flag only falls: the others stay fit.
LEMMA CallMoves ==
  ASSUME ClientInv, NEW c \in Callers, NEW k,
         call' = [call EXCEPT ![c] = k],
         supports' \in BOOLEAN, supports' => supports,
         UNCHANGED <<provider, takes>>,
         call[c].bad => k.bad,
         CallFits(k, supports', SomeBad \/ k.bad),
         takes /\ ~SomeBad /\ ~k.bad => supports'
  PROVE  ClientInv'
<1>1. DOMAIN call' = Callers /\ call'[c] = k /\ \A d \in Callers \ {c} : call'[d] = call[d]
  BY DEF ClientInv
<1>2. SomeBad' <=> SomeBad \/ k.bad
  BY <1>1 DEF SomeBad
<1>3. \A d \in Callers : CallFits(call'[d], supports', SomeBad')
  <2> SUFFICES ASSUME NEW d \in Callers PROVE CallFits(call'[d], supports', SomeBad \/ k.bad)
    BY <1>2
  <2>1. CASE d = c
    BY <1>1, <2>1
  <2>2. CASE d # c
    <3>1. CallFits(call'[d], supports, SomeBad) /\ supports \in BOOLEAN /\ SomeBad \in BOOLEAN
      BY <1>1, <2>2 DEF ClientInv, SomeBad
    <3> QED
      BY <3>1, FitStays
  <2> QED
    BY <2>1, <2>2
<1>4. \A d \in Callers : CallFits(call[d], supports, SomeBad)'
  BY <1>3 DEF CallFits, FlagFits, ResultFits, ScoreFits
<1> QED
  BY <1>1, <1>2, <1>4 DEF ClientInv

\* What is known of the call that moves.
LEMMA CallOf ==
  ASSUME ClientInv, NEW c \in Callers
  PROVE  /\ CallTyped(call[c]) /\ CourseFits(call[c]) /\ FlagFits(call[c], supports)
         /\ call[c].bad \in BOOLEAN /\ SomeBad \in BOOLEAN /\ supports \in BOOLEAN
         /\ call[c].bad => SomeBad
         /\ takes /\ ~SomeBad => supports
         /\ DOMAIN call[c] = DOMAIN Fresh
  BY DEF ClientInv, CallFits, CallTyped, SomeBad

LEMMA BeginInv ==
  ASSUME ClientInv, NEW c \in Callers, Begin(c)
  PROVE  ClientInv'
<1>1. PICK op \in Ops, bad \in BOOLEAN, image \in {"small", "large", "huge"} :
         /\ op # "image" => image = "small"
         /\ call' = [call EXCEPT ![c].at = "opening", ![c].op = op, ![c].bad = bad,
                                 ![c].image = image, ![c].began = supports]
  BY DEF Begin
<1> DEFINE k == [call[c] EXCEPT !.at = "opening", !.op = op, !.bad = bad, !.image = image,
                                !.began = supports]
<1>2. call' = [call EXCEPT ![c] = k]
  BY <1>1, CallOf DEF Fresh
<1>3. CallFits(k, supports, SomeBad \/ k.bad) /\ ~call[c].bad
  <2>1. CallTyped(k)
    BY <1>1, CallOf DEF CallTyped, Fresh
  <2>2. CourseFits(k) /\ ~call[c].bad
    BY CallOf DEF CallTyped, CourseFits, Begin, Stands, Fresh
  <2>3. FlagFits(k, supports)
    BY CallOf DEF CallTyped, FlagFits, Begin, Stands, Fresh
  <2>4. ResultFits(k, SomeBad \/ k.bad)
    BY CallOf DEF ResultFits, Fresh
  <2> QED
    BY <2>1, <2>2, <2>3, <2>4 DEF CallFits
<1> HIDE DEF k
<1> QED
  BY <1>2, <1>3, CallOf, CallMoves DEF Begin

LEMMA OpenInv ==
  ASSUME ClientInv, NEW c \in Callers, Open(c)
  PROVE  ClientInv'
<1> DEFINE k == [call[c] EXCEPT !.at = "sending", !.temp = supports, !.tries = 1]
<1>1. call' = [call EXCEPT ![c] = k]
  BY CallOf DEF Open, Fresh
<1>2. CallFits(k, supports, SomeBad \/ k.bad) /\ k.bad = call[c].bad
  <2>1. CallTyped(k) /\ k.bad = call[c].bad
    BY CallOf, ClientAssumption DEF CallTyped, Fresh
  <2>2. CourseFits(k)
    BY CallOf DEF CallTyped, CourseFits, Open, Stands, Fresh
  <2>3. FlagFits(k, supports)
    BY CallOf DEF CallTyped, FlagFits, Open, Stands, Fresh
  <2>4. ResultFits(k, SomeBad \/ k.bad)
    BY CallOf DEF ResultFits, Fresh
  <2> QED
    BY <2>1, <2>2, <2>3, <2>4 DEF CallFits
<1> HIDE DEF k
<1> QED
  BY <1>1, <1>2, CallOf, CallMoves DEF Open

LEMMA RefuseTemperatureInv ==
  ASSUME ClientInv, NEW c \in Callers, RefuseTemperature(c)
  PROVE  ClientInv'
<1> DEFINE k == [call[c] EXCEPT !.temp = FALSE, !.refusals = call[c].refusals + 1]
<1>1. call' = [call EXCEPT ![c] = k]
  BY CallOf DEF RefuseTemperature, Fresh
<1>2. CallFits(k, FALSE, SomeBad \/ k.bad) /\ k.bad = call[c].bad
  <2>0. call[c].refusals = 0
    BY CallOf DEF CallTyped, FlagFits, RefuseTemperature
  <2>1. CallTyped(k) /\ k.bad = call[c].bad
    BY <2>0, CallOf DEF CallTyped, Fresh
  <2>2. CourseFits(k)
    BY CallOf DEF CallTyped, CourseFits, RefuseTemperature, Stands, Fresh
  <2>3. FlagFits(k, FALSE)
    BY CallOf DEF CallTyped, FlagFits, RefuseTemperature, Stands, Fresh
  <2>4. ResultFits(k, SomeBad \/ k.bad)
    BY CallOf DEF ResultFits, RefuseTemperature, Stands, Fresh
  <2> QED
    BY <2>1, <2>2, <2>3, <2>4 DEF CallFits
<1> HIDE DEF k
<1> QED
  BY <1>1, <1>2, CallOf, CallMoves DEF RefuseTemperature

LEMMA AcceptInv ==
  ASSUME ClientInv, NEW c \in Callers, Accept(c)
  PROVE  ClientInv'
<1> DEFINE k == [call[c] EXCEPT !.at = "answered", !.answers = call[c].answers + 1]
<1>1. call' = [call EXCEPT ![c] = k]
  BY CallOf DEF Accept, Fresh
<1>2. CallFits(k, supports, SomeBad \/ k.bad) /\ k.bad = call[c].bad
  <2>1. CallTyped(k) /\ k.bad = call[c].bad
    BY CallOf DEF CallTyped, Fresh
  <2>2. CourseFits(k)
    BY CallOf DEF CallTyped, CourseFits, Accept, Stands, Fresh
  <2>3. FlagFits(k, supports)
    BY CallOf DEF CallTyped, FlagFits, Accept, Stands, Fresh
  <2>4. ResultFits(k, SomeBad \/ k.bad)
    BY CallOf DEF ResultFits, Accept, Stands, Fresh
  <2> QED
    BY <2>1, <2>2, <2>3, <2>4 DEF CallFits
<1> HIDE DEF k
<1> QED
  BY <1>1, <1>2, CallOf, CallMoves DEF Accept

\* A call that is over is fit when what it is given is.
LEMMA GiveInv ==
  ASSUME ClientInv, NEW c \in Callers, NEW result, NEW counted \in {0, Bill},
         call[c].at # "done", Give(c, result, counted),
         UNCHANGED <<provider, takes, supports>>,
         LET k == Ended(c, result, counted) IN ResultFits(k, SomeBad)
  PROVE  ClientInv'
<1> DEFINE k == Ended(c, result, counted)
<1>1. call' = [call EXCEPT ![c] = k] /\ ResultFits(k, SomeBad)
  BY DEF Give
<1>2. CallFits(k, supports, SomeBad \/ k.bad) /\ k.bad = call[c].bad
  <2>1. CallTyped(k) /\ k.bad = call[c].bad
    BY CallOf, ClientAssumption DEF CallTyped, Ended, Fresh
  <2>2. CourseFits(k)
    BY CallOf DEF CallTyped, CourseFits, Ended, Fresh
  <2>3. FlagFits(k, supports)
    BY CallOf DEF CallTyped, FlagFits, Ended, Fresh
  <2>4. ResultFits(k, SomeBad \/ k.bad)
    BY <1>1 DEF ResultFits, ProposalFits
  <2> QED
    BY <1>1, <2>1, <2>2, <2>3, <2>4 DEF CallFits
<1> HIDE DEF k
<1> QED
  BY <1>1, <1>2, CallOf, CallMoves

\* An answer that is no proposal and no score: nothing, a text, or an error.
LEMMA PlainEndInv ==
  ASSUME ClientInv, NEW c \in Callers, NEW result, NEW counted \in {0, Bill},
         call[c].at # "done", Give(c, result, counted),
         UNCHANGED <<provider, takes, supports>>,
         \/ result.said \in {"nothing", "text"} /\ call[c].op \notin {"pair", "judge"}
            /\ (counted = 0 \/ call[c].at = "answered")
         \/ result.said = "raised" /\ result.cause \in {"bad", "broken", "throttled",
                                                        "garbled"}
            /\ (result.cause = "bad" => call[c].bad)
  PROVE  ClientInv'
<1> DEFINE k == Ended(c, result, counted)
<1>1. /\ k.result = result /\ k.bad = call[c].bad /\ k.op = call[c].op
      /\ k.counted = call[c].counted + counted /\ k.answers = call[c].answers
  BY CallOf DEF Ended, Fresh
<1>2. ASSUME result.said # "raised" PROVE TokensFit(k)
  <2>1. /\ call[c].counted = 0 /\ call[c].turn = 1
        /\ call[c].answers = IF call[c].at = "answered" THEN 1 ELSE 0
    BY <1>2, CallOf DEF CourseFits, CallTyped
  <2>2. k.counted = Bill * 0 \/ (k.counted = Bill * 1 /\ k.answers = 1)
    BY <1>1, <1>2, <2>1, ClientAssumption
  <2>3. 0 \in 0..k.answers /\ (k.answers = 1 => 1 \in 0..k.answers)
    BY <1>1, <2>1
  <2> QED
    BY <1>1, <1>2, <2>2, <2>3 DEF TokensFit
<1>3. RaisedFits(k) /\ ProposalFits(k, SomeBad) /\ ScoreFits(k)
  BY <1>1 DEF RaisedFits, ProposalFits, ScoreFits
<1>4. TokensFit(k)
  BY <1>1, <1>2 DEF TokensFit
<1>5. ResultFits(k, SomeBad)
  BY <1>3, <1>4 DEF ResultFits
<1> QED
  BY <1>5, GiveInv

LEMMA FailInv ==
  ASSUME ClientInv, NEW c \in Callers, NEW cause \in {"bad", "broken", "throttled"},
         call[c].at # "done", Fail(c, cause), cause = "bad" => call[c].bad,
         UNCHANGED <<provider, takes, supports>>
  PROVE  ClientInv'
<1> DEFINE nothing == [said |-> "nothing"]
           raised  == [said |-> "raised", cause |-> cause]
<1>1. CASE call[c].op \in {"expand", "image"}
  <2>1. Give(c, nothing, 0) /\ nothing.said = "nothing"
    BY <1>1 DEF Fail
  <2> HIDE DEF nothing
  <2> QED
    BY <1>1, <2>1, PlainEndInv
<1>2. CASE call[c].op \notin {"expand", "image"}
  <2>1. Give(c, raised, 0) /\ raised.said = "raised" /\ raised.cause = cause
    BY <1>2 DEF Fail
  <2> HIDE DEF raised
  <2> QED
    BY <1>2, <2>1, PlainEndInv
<1> QED
  BY <1>1, <1>2

LEMMA ThrottleInv ==
  ASSUME ClientInv, NEW c \in Callers, Throttle(c)
  PROVE  ClientInv'
<1>1. CASE call[c].tries < MaxAttempts
  <2> DEFINE k == [call[c] EXCEPT !.tries = call[c].tries + 1]
  <2>1. call' = [call EXCEPT ![c] = k]
    BY <1>1, CallOf DEF Throttle, Fresh
  <2>2. CallFits(k, supports, SomeBad \/ k.bad) /\ k.bad = call[c].bad
    <3>1. CallTyped(k) /\ k.bad = call[c].bad
      BY <1>1, CallOf, ClientAssumption DEF CallTyped, Fresh
    <3>2. CourseFits(k)
      BY CallOf DEF CallTyped, CourseFits, Throttle, Stands, Fresh
    <3>3. FlagFits(k, supports)
      BY CallOf DEF CallTyped, FlagFits, Throttle, Stands, Fresh
    <3>4. ResultFits(k, SomeBad \/ k.bad)
      BY CallOf DEF ResultFits, Throttle, Stands, Fresh
    <3> QED
      BY <3>1, <3>2, <3>3, <3>4 DEF CallFits
  <2> HIDE DEF k
  <2> QED
    BY <2>1, <2>2, CallOf, CallMoves DEF Throttle
<1>2. CASE ~(call[c].tries < MaxAttempts)
  BY <1>2, FailInv DEF Throttle, Stands
<1> QED
  BY <1>1, <1>2

LEMMA EndsInv ==
  ASSUME ClientInv, NEW c \in Callers,
         Skip(c) \/ RefuseForGood(c) \/ Break(c) \/ ReadProse(c) \/ ReadExtraction(c)
  PROVE  ClientInv'
<1> DEFINE nothing == [said |-> "nothing"]
           text    == [said |-> "text"]
           garbled == [said |-> "raised", cause |-> "garbled"]
<1>1. /\ nothing.said = "nothing" /\ text.said = "text" /\ garbled.said = "raised"
      /\ garbled.cause = "garbled"
  OBVIOUS
<1>2. CASE Skip(c)
  <2>1. call[c].op \notin {"pair", "judge"} /\ Give(c, nothing, 0) /\ call[c].at # "done"
    BY <1>2, CallOf DEF Skip, CallTyped, Sendable, Shrunk, Stands
  <2> HIDE DEF nothing
  <2> QED
    BY <1>1, <1>2, <2>1, PlainEndInv DEF Skip
<1>3. CASE RefuseForGood(c) \/ Break(c)
  BY <1>3, FailInv DEF RefuseForGood, Break, Stands
<1>4. CASE ReadProse(c)
  <2>1. Give(c, text, 0) /\ call[c].op \notin {"pair", "judge"} /\ call[c].at = "answered"
    BY <1>4 DEF ReadProse, Stands
  <2> HIDE DEF text
  <2> QED
    BY <1>1, <1>4, <2>1, PlainEndInv DEF ReadProse
<1>5. CASE ReadExtraction(c)
  <2>1. /\ Give(c, text, 0) \/ Give(c, garbled, 0)
        /\ call[c].op \notin {"pair", "judge"} /\ call[c].at = "answered"
    BY <1>5 DEF ReadExtraction, Stands
  <2> HIDE DEF text, garbled
  <2> QED
    BY <1>1, <1>5, <2>1, PlainEndInv DEF ReadExtraction
<1> QED
  BY <1>2, <1>3, <1>4, <1>5

\* Whatever envelope came, its tokens are counted, or none.
LEMMA EnvelopeCounts == ASSUME NEW u \in Usages PROVE Counted(u) \in {0, Bill}
  BY UsageAssumption DEF Counted

LEMMA ReadFirstPassInv ==
  ASSUME ClientInv, NEW c \in Callers, ReadFirstPass(c)
  PROVE  ClientInv'
<1> DEFINE f == [said |-> "proposal", sent |-> call[c].temp]
<1>1. PICK n \in {0, Bill} :
         call' = [call EXCEPT ![c].at = "opening", ![c].turn = 2, ![c].counted = n,
                              ![c].first = f]
  BY EnvelopeCounts DEF ReadFirstPass
<1>2. f.said = "proposal" /\ f.sent = call[c].temp
  OBVIOUS
<1> HIDE DEF f
<1> DEFINE k == [call[c] EXCEPT !.at = "opening", !.turn = 2, !.counted = n, !.first = f]
<1>3. call' = [call EXCEPT ![c] = k]
  BY <1>1, CallOf DEF Fresh
<1>4. /\ DOMAIN k = DOMAIN Fresh /\ k.at = "opening" /\ k.turn = 2 /\ k.counted = n
      /\ k.first = f /\ k.op = call[c].op /\ k.bad = call[c].bad /\ k.temp = call[c].temp
      /\ k.began = call[c].began /\ k.refusals = call[c].refusals /\ k.tries = call[c].tries
      /\ k.result = call[c].result /\ k.answers = call[c].answers /\ k.image = call[c].image
  BY CallOf DEF Fresh
<1> HIDE DEF k
<1>5. CallTyped(k)
  BY <1>2, <1>4, CallOf, ClientAssumption DEF CallTyped
<1>6. CourseFits(k)
  BY <1>2, <1>4, CallOf DEF CallTyped, CourseFits, ReadFirstPass, Stands
<1>7. FlagFits(k, supports)
  BY <1>2, <1>4, CallOf DEF CallTyped, FlagFits, ReadFirstPass, Stands
<1>8. ResultFits(k, SomeBad \/ k.bad)
  BY <1>4 DEF ResultFits
<1>9. CallFits(k, supports, SomeBad \/ k.bad)
  BY <1>5, <1>6, <1>7, <1>8 DEF CallFits
<1> QED
  BY <1>3, <1>4, <1>9, CallOf, CallMoves DEF ReadFirstPass

\* The tokens of a last answer, with those of the one before it.
LEMMA TokensAddUp ==
  ASSUME NEW n \in {0, Bill}, NEW m \in {0, Bill}, NEW a \in {1, 2}, a = 1 => m = 0
  PROVE  m + n \in {Bill * i : i \in 0..a}
<1>1. Bill \in Nat
  BY ClientAssumption
<1>2. CASE m + n = 0
  <2>1. 0 \in 0..a /\ Bill * 0 = 0
    BY <1>1
  <2> QED
    BY <1>2, <2>1
<1>3. CASE m + n = Bill
  <2>1. 1 \in 0..a /\ Bill * 1 = Bill
    BY <1>1
  <2> QED
    BY <1>3, <2>1
<1>4. CASE m = Bill /\ n = Bill
  <2>1. m = 0 \/ (2 \in 0..a /\ Bill * 2 = m + n)
    BY <1>1, <1>4
  <2>2. CASE m = 0
    BY <1>1, <1>3, <1>4, <2>2
  <2> QED
    BY <2>1, <2>2
<1> QED
  BY <1>1, <1>2, <1>3, <1>4

LEMMA ReadProposalInv ==
  ASSUME ClientInv, NEW c \in Callers, ReadProposal(c)
  PROVE  ClientInv'
<1>1. PICK text \in Replies, cut \in BOOLEAN, u \in Usages :
         \E p \in Proposal(text, cut) : Give(c, Noted(c, p, text, cut), Counted(u))
  BY DEF ReadProposal
<1>2. PICK p \in Proposal(text, cut) : Give(c, Noted(c, p, text, cut), Counted(u))
  BY <1>1
<1> DEFINE r == Noted(c, p, text, cut)
           n == Counted(u)
           k == Ended(c, r, n)
<1>3. /\ r.said = "proposal" /\ r.of = p /\ r.sent = call[c].temp /\ r.noted = supports
      /\ r.whole = IF cut THEN <<>> ELSE text
  BY DEF Noted
<1>4. n \in {0, Bill}
  BY EnvelopeCounts
<1>5. Backed(r.of, r.whole)
  BY <1>3, ProposalsAreBacked
<1>6. Give(c, r, n)
  BY <1>2
<1> HIDE DEF r, n
<1>7. /\ k.result = r /\ k.bad = call[c].bad /\ k.op = call[c].op /\ k.first = call[c].first
      /\ k.counted = call[c].counted + n /\ k.answers = call[c].answers
  BY CallOf DEF Ended, Fresh
<1>8. /\ call[c].at = "answered"
      /\ call[c].op = "propose" \/ (call[c].op = "pair" /\ call[c].turn = 2)
  BY DEF ReadProposal, Stands
<1>9. TokensFit(k)
  <2>1. /\ call[c].answers = call[c].turn /\ call[c].turn \in {1, 2}
        /\ call[c].counted \in {0, Bill} /\ (call[c].turn = 1 => call[c].counted = 0)
    BY <1>8, CallOf DEF CallTyped, CourseFits
  <2> QED
    BY <1>4, <1>7, <1>8, <2>1, TokensAddUp DEF TokensFit
<1>10. ProposalFits(k, SomeBad)
  <2>1. /\ supports => call[c].temp
        /\ call[c].temp => takes
        /\ call[c].op = "pair" => /\ call[c].first.said = "proposal"
                                  /\ call[c].first.sent \in BOOLEAN
                                  /\ IF call[c].first.sent THEN takes ELSE ~supports
        /\ call[c].temp \in BOOLEAN
    BY <1>8, CallOf DEF CallTyped, CourseFits, FlagFits
  <2>2. takes /\ ~supports => SomeBad
    BY CallOf
  <2>3. call[c].op = "pair" /\ call[c].temp # call[c].first.sent => SomeBad
    BY <2>1, <2>2
  <2> QED
    BY <1>3, <1>5, <1>7, <2>1, <2>2, <2>3 DEF ProposalFits
<1>11. ResultFits(k, SomeBad)
  BY <1>3, <1>7, <1>9, <1>10 DEF ResultFits, RaisedFits, ScoreFits
<1> HIDE DEF k
<1> QED
  BY <1>4, <1>6, <1>8, <1>11, GiveInv DEF ReadProposal, k

LEMMA ReadRelationshipInv ==
  ASSUME ClientInv, NEW c \in Callers, ReadRelationship(c)
  PROVE  ClientInv'
<1>1. PICK cut \in BOOLEAN, n \in {0, Bill} :
         Give(c, [said |-> IF provider = "openai" /\ cut THEN "nothing" ELSE "text"], n)
  BY EnvelopeCounts DEF ReadRelationship
<1> DEFINE r == [said |-> IF provider = "openai" /\ cut THEN "nothing" ELSE "text"]
<1>2. r.said \in {"nothing", "text"} /\ Give(c, r, n)
  BY <1>1
<1> HIDE DEF r
<1>3. call[c].op \notin {"pair", "judge"} /\ call[c].at = "answered"
  BY DEF ReadRelationship, Stands
<1> QED
  BY <1>2, <1>3, PlainEndInv DEF ReadRelationship

\* The end of a judge's call.
LEMMA ScoreInv ==
  ASSUME ClientInv, NEW c \in Callers, NEW answer, NEW s, Score(c, answer, s),
         call[c].at = "answered", call[c].op = "judge",
         s = "stated" => answer = "stated",
         s = "zero" => answer # "stated",
         s = "zero" /\ answer = "garbled" => provider = "openai",
         s = "error" /\ provider = "anthropic" => answer = "garbled" /\ call[c].turn = 2,
         UNCHANGED <<provider, takes, supports>>
  PROVE  ClientInv'
<1>1. PICK n \in {0, Bill} : Give(c, [said |-> "score", answer |-> answer, score |-> s], n)
  BY EnvelopeCounts DEF Score
<1> DEFINE r == [said |-> "score", answer |-> answer, score |-> s]
           k == Ended(c, r, n)
<1>2. r.said = "score" /\ r.answer = answer /\ r.score = s /\ Give(c, r, n)
  BY <1>1
<1> HIDE DEF r
<1>3. /\ k.result = r /\ k.op = "judge"
      /\ k.counted = call[c].counted + n /\ k.answers = call[c].answers
  BY CallOf DEF Ended, Fresh
<1>4. call[c].counted = 0 /\ call[c].answers = call[c].turn /\ call[c].turn \in {1, 2}
  BY CallOf DEF CallTyped, CourseFits
<1>5. TokensFit(k)
  <2>1. k.counted = n /\ n <= Bill
    BY <1>3, <1>4, ClientAssumption
  <2>2. 0 + n \in {Bill * i : i \in 0..call[c].turn}
    BY <1>4, TokensAddUp
  <2> QED
    BY <1>3, <1>4, <2>1, <2>2, ClientAssumption DEF TokensFit
<1>6. ResultFits(k, SomeBad)
  BY <1>2, <1>3, <1>4, <1>5 DEF ResultFits, RaisedFits, ProposalFits, ScoreFits
<1> HIDE DEF k
<1> QED
  BY <1>2, <1>6, GiveInv DEF k

LEMMA ReadScoreInv ==
  ASSUME ClientInv, NEW c \in Callers, ReadScore(c)
  PROVE  ClientInv'
<1>1. PICK answer \in JudgeAnswers :
         \/ Score(c, answer, "error")
         \/ Score(c, answer, IF answer = "stated" THEN "stated" ELSE "zero")
  BY DEF ReadScore
<1>2. /\ call[c].at = "answered" /\ call[c].op = "judge" /\ provider = "openai"
      /\ UNCHANGED <<provider, takes, supports>>
  BY DEF ReadScore, Stands
<1>3. CASE Score(c, answer, "error")
  BY <1>2, <1>3, ScoreInv
<1>4. CASE Score(c, answer, IF answer = "stated" THEN "stated" ELSE "zero")
  <2>1. CASE answer = "stated"
    BY <1>2, <1>4, <2>1, ScoreInv
  <2>2. CASE answer # "stated"
    BY <1>2, <1>4, <2>2, ScoreInv
  <2> QED
    BY <2>1, <2>2
<1> QED
  BY <1>1, <1>3, <1>4

LEMMA ReadScoreTwiceInv ==
  ASSUME ClientInv, NEW c \in Callers, ReadScoreTwice(c)
  PROVE  ClientInv'
<1>1. CASE \/ Score(c, "stated", "stated") \/ Score(c, "unstated", "zero")
           \/ (call[c].turn = 2 /\ Score(c, "garbled", "error"))
  BY <1>1, ScoreInv DEF ReadScoreTwice, Stands
<1>2. CASE call[c].turn = 1 /\ call' = [call EXCEPT ![c].at = "opening", ![c].turn = 2]
  <2> DEFINE k == [call[c] EXCEPT !.at = "opening", !.turn = 2]
  <2>1. call' = [call EXCEPT ![c] = k]
    BY <1>2, CallOf DEF Fresh
  <2>2. CallFits(k, supports, SomeBad \/ k.bad) /\ k.bad = call[c].bad
    <3>1. CallTyped(k) /\ k.bad = call[c].bad
      BY CallOf DEF CallTyped, Fresh
    <3>2. CourseFits(k)
      BY <1>2, CallOf DEF CallTyped, CourseFits, ReadScoreTwice, Stands, Fresh
    <3>3. FlagFits(k, supports)
      BY CallOf DEF CallTyped, FlagFits, Fresh
    <3>4. ResultFits(k, SomeBad \/ k.bad)
      BY CallOf DEF ResultFits, Fresh
    <3> QED
      BY <3>1, <3>2, <3>3, <3>4 DEF CallFits
  <2> HIDE DEF k
  <2> QED
    BY <2>1, <2>2, CallOf, CallMoves DEF ReadScoreTwice
<1> QED
  BY <1>1, <1>2 DEF ReadScoreTwice

LEMMA InitClientInv == ClientInit => ClientInv
<1> SUFFICES ASSUME ClientInit PROVE ClientInv
  OBVIOUS
<1>1. /\ DOMAIN call = Callers /\ supports = TRUE /\ \A c \in Callers : call[c] = Fresh
      /\ ~SomeBad
  BY DEF ClientInit, SomeBad, Fresh
<1>2. CallTyped(Fresh) /\ CourseFits(Fresh)
  BY ClientAssumption DEF CallTyped, CourseFits, Fresh, Unset, Ops
<1>3. FlagFits(Fresh, TRUE) /\ ResultFits(Fresh, SomeBad)
  BY DEF FlagFits, ResultFits, Fresh, Unset
<1> QED
  BY <1>1, <1>2, <1>3 DEF ClientInv, CallFits

LEMMA ClientNextInv ==
  ASSUME ClientInv, [ClientNext]_clientVars
  PROVE  ClientInv'
<1>1. CASE UNCHANGED clientVars
  <2>1. SomeBad' = SomeBad
    BY <1>1 DEF clientVars, SomeBad
  <2> QED
    BY <1>1, <2>1 DEF clientVars, ClientInv, CallFits, FlagFits, ResultFits, ScoreFits
<1>2. ASSUME NEW c \in Callers, ClientStep(c)
      PROVE  ClientInv'
  BY <1>2, BeginInv, OpenInv, RefuseTemperatureInv, AcceptInv, ThrottleInv, EndsInv,
     ReadFirstPassInv, ReadProposalInv, ReadScoreInv, ReadScoreTwiceInv, ReadRelationshipInv
     DEF ClientStep
<1> QED
  BY <1>1, <1>2 DEF ClientNext

(* However many callers share one client of the model, and whatever the    *)
(* endpoint refuses, cuts or throttles: a refused temperature fails no     *)
(* caller and is paid once by each (three times by OpenAI's HyDE, which is *)
(* three callers), a proposal is noted with the temperature it was sent    *)
(* with, no verdict and no score but 0 says more than its text, and the    *)
(* tokens of an answer are reported at most once (llm/client.py).          *)
THEOREM ClientIsSafe == ClientSpec => []ClientSafe
<1>1. ClientInit => ClientInv
  BY InitClientInv
<1>2. ClientInv /\ [ClientNext]_clientVars => ClientInv'
  BY ClientNextInv
<1>3. ClientInv => ClientSafe
  BY ClientInvIsSafe
<1> QED
  BY <1>1, <1>2, <1>3, PTL DEF ClientSpec

-----------------------------------------------------------------------------
(* The configuration *)

\* What a file can hold: an entry that is dropped is one whose default is None.
Lasting(s, c) ==
    /\ DOMAIN c = Entries[s]
    /\ \A e \in Entries[s] : c[e] = "none" => Default(e) = "none"

\* A writer's copy is what its request makes of what was agreed.
PutFits(p) ==
    /\ p.at \in {"idle", "loaded", "truncated"}
    /\ p.at # "idle" => Lasting(site, p.next)
    /\ p.at # "idle" /\ ~blurred => p.next = Coerced(agreed, p.asked)
    /\ p.at = "truncated" /\ ~blurred => form = "blank"

Quiet == \A w \in Writers : put[w].at # "truncated"

SettingsInv ==
    /\ site \in Sites
    /\ form \in {"none", "blank", "whole", "torn"}
    /\ blurred \in BOOLEAN
    /\ serving \in {"off", "up", "failed"}
    /\ DOMAIN put = Writers
    /\ \A w \in Writers : DOMAIN put[w] = DOMAIN AtRest
    /\ Lasting(site, agreed)
    /\ \A e \in DOMAIN stored : stored[e] # "none"
    /\ form = "none" => serving = "off" /\ stored = Empty /\ agreed = Defaults(site)
    /\ form = "torn" => blurred
    /\ serving = "failed" => form = "torn"
    /\ serving # "up" => \A w \in Writers : put[w].at = "idle"
    /\ \A w \in Writers : PutFits(put[w])
    /\ ~blurred => \A w, o \in Writers : put[w].at # "idle" /\ put[o].at # "idle" => w = o
    /\ ~blurred /\ Quiet => Loaded = agreed

(* What is read from a file that was saved is what was saved. *)
LEMMA RoundTrip ==
  ASSUME NEW s, NEW c, Lasting(s, c), c = [e \in DOMAIN c |-> c[e]]
  PROVE  Validated(s, FileOf(c)) = c
BY DEF Validated, FileOf, Lasting

LEMMA LoadedLasts ==
  ASSUME SettingsInv
  PROVE  Lasting(site, Loaded)
BY DEF SettingsInv, Lasting, Loaded, Validated

LEMMA DefaultsLast ==
  ASSUME NEW s \in Sites
  PROVE  Lasting(s, Defaults(s))
BY DEF Lasting, Defaults

LEMMA CoercedLasts ==
  ASSUME NEW c, NEW asked, Lasting(site, c),
         \A e \in DOMAIN asked : asked[e] # "none"
  PROVE  Lasting(site, Coerced(c, asked))
BY DEF Lasting, Coerced, Cleared, Default

LEMMA BodiesAsk ==
  ASSUME site \in Sites, NEW w \in Writers, NEW b \in Bodies(w)
  PROVE  \A e \in DOMAIN b : b[e] # "none"
<1> DEFINE fields == IF w = "links" THEN {"links"} ELSE Fields[site]
           plain == {[e \in fields |-> IF e \in on THEN "on" ELSE "clear"] : on \in SUBSET fields}
<1>1. \A p \in plain : \A e \in DOMAIN p : p[e] \in {"on", "clear"}
  OBVIOUS
<1>2. \A c \in OtherValues[site] : c[2] \in {"alt", "bad"}
  BY DEF OtherValues
<1>3. CASE b \in plain
  BY <1>1, <1>3
<1>4. CASE b \notin plain
  <2>1. PICK p \in plain, c \in OtherValues[site] : b = [p EXCEPT ![c[1]] = c[2]]
    BY <1>4 DEF Bodies
  <2> QED
    BY <2>1, <1>1, <1>2
<1> QED
  BY <1>3, <1>4

LEMMA InitSettingsInv == SettingsInit => SettingsInv
<1> SUFFICES ASSUME SettingsInit PROVE SettingsInv
  OBVIOUS
<1>1. Lasting(site, Defaults(site))
  BY DefaultsLast DEF SettingsInit
<1>2. Loaded = Defaults(site)
  BY DEF SettingsInit, Loaded, Validated, Empty, Defaults
<1> QED
  BY <1>1, <1>2 DEF SettingsInit, SettingsInv, AtRest, Writers, PutFits, Quiet, Empty

LEMMA ReceiveInv ==
  ASSUME SettingsInv, NEW w \in Writers, NEW b \in Bodies(w), Receive(w, b)
  PROVE  SettingsInv'
<1> DEFINE n == Coerced(Loaded, b)
<1>0. Loaded' = Loaded /\ Defaults(site)' = Defaults(site)
  BY DEF Receive, Loaded, Validated, Defaults
<1>1. CASE UNCHANGED <<put, blurred>>
  BY <1>0, <1>1 DEF Receive, SettingsInv, PutFits, Quiet
<1>2. CASE ~UNCHANGED <<put, blurred>>
  <2>1. /\ put' = [put EXCEPT ![w] = [at |-> "loaded", asked |-> b, next |-> n]]
        /\ blurred' = (blurred \/ \E o \in Writers : put[o].at # "idle")
        /\ UNCHANGED <<site, world, form, stored, vault, agreed, serving>>
        /\ put[w].at = "idle" /\ serving = "up"
    BY <1>2 DEF Receive
  <2>2. Lasting(site, n)
    BY LoadedLasts, BodiesAsk, CoercedLasts DEF SettingsInv
  <2>3. ~blurred' => ~blurred /\ Loaded = agreed /\ \A o \in Writers : put[o].at = "idle"
    BY <2>1 DEF SettingsInv, Quiet
  <2>4. \A o \in Writers \ {w} : put'[o] = put[o]
    BY <2>1
  <2>5. DOMAIN put' = Writers /\ put'[w] = [at |-> "loaded", asked |-> b, next |-> n]
    BY <2>1 DEF SettingsInv
  <2> HIDE DEF n
  <2>6. \A o \in Writers : PutFits(put[o])'
    <3>1. \A o \in Writers \ {w} : PutFits(put[o])'
      BY <2>1, <2>3, <2>4 DEF SettingsInv, PutFits
    <3>2. ~blurred' => n = Coerced(agreed, b)
      BY <2>3 DEF n
    <3>3. PutFits(put[w])'
      BY <2>1, <2>2, <2>5, <3>2 DEF PutFits
    <3> QED
      BY <3>1, <3>3
  <2>7. \A o \in Writers : DOMAIN put'[o] = DOMAIN AtRest
    BY <2>4, <2>5 DEF SettingsInv, AtRest
  <2>8. ~blurred' => \A v, o \in Writers : put'[v].at # "idle" /\ put'[o].at # "idle" => v = o
    BY <2>3, <2>4
  <2> QED
    BY <1>0, <2>1, <2>3, <2>5, <2>6, <2>7, <2>8 DEF SettingsInv
<1> QED
  BY <1>1, <1>2

LEMMA TruncateInv ==
  ASSUME SettingsInv, NEW w \in Writers, Truncate(w)
  PROVE  SettingsInv'
<1>1. /\ UNCHANGED <<site, world, vault, agreed, blurred, serving, clicks>>
      /\ form' = "blank" /\ stored' = Empty
      /\ put[w].at = "loaded"
      /\ \A o \in Writers \ {w} : put'[o] = put[o]
      /\ put'[w] = [put[w] EXCEPT !.at = "truncated"]
      /\ DOMAIN put' = Writers
  BY DEF Truncate, SettingsInv
<1>2. put'[w].at = "truncated" /\ put'[w].asked = put[w].asked /\ put'[w].next = put[w].next
      /\ DOMAIN put'[w] = DOMAIN AtRest
  BY <1>1 DEF SettingsInv, AtRest
<1>3. \A o \in Writers : PutFits(put[o])'
  <2>1. \A o \in Writers : PutFits(put[o])
    BY DEF SettingsInv
  <2>2. \A o \in Writers \ {w} : PutFits(put[o])'
    BY <1>1, <2>1 DEF PutFits
  <2>3. PutFits(put[w])'
    BY <1>1, <1>2, <2>1 DEF PutFits
  <2> QED
    BY <2>2, <2>3
<1>4. ~Quiet'
  BY <1>2 DEF Quiet
<1>5. \A e \in DOMAIN stored' : stored'[e] # "none"
  BY <1>1 DEF Empty
<1>6. serving = "up"
  BY <1>1 DEF SettingsInv
<1> QED
  BY <1>1, <1>2, <1>3, <1>4, <1>5, <1>6 DEF SettingsInv

LEMMA CloseInv ==
  ASSUME SettingsInv, NEW w \in Writers, Close(w)
  PROVE  SettingsInv'
<1> DEFINE n == put[w].next
           a == put[w].asked
<1>1. /\ UNCHANGED <<site, world, vault, blurred, serving, clicks>>
      /\ form' \in {"whole", "torn"}
      /\ form = "blank" => form' = "whole"
      /\ stored' = IF form' = "whole" THEN FileOf(n) ELSE Empty
      /\ agreed' = [e \in DOMAIN agreed |-> IF e \in DOMAIN a THEN n[e] ELSE agreed[e]]
      /\ put[w].at = "truncated"
      /\ \A o \in Writers \ {w} : put'[o] = put[o]
      /\ put'[w] = AtRest
      /\ DOMAIN put' = Writers
  BY DEF Close, SettingsInv
<1>2. Lasting(site, n) /\ (~blurred => n = Coerced(agreed, a) /\ form = "blank")
  BY <1>1 DEF SettingsInv, PutFits
<1>3. Lasting(site, agreed)'
  BY <1>1, <1>2 DEF SettingsInv, Lasting
<1>4. \A e \in DOMAIN stored' : stored'[e] # "none"
  BY <1>1 DEF Empty, FileOf
<1>5. serving = "up" /\ form # "none"
  BY <1>1 DEF SettingsInv
<1>6. ASSUME ~blurred
      PROVE  /\ form' = "whole"
             /\ \A o \in Writers \ {w} : put[o].at = "idle"
             /\ Loaded' = agreed'
  <2>1. n = Coerced(agreed, a) /\ form' = "whole" /\ stored' = FileOf(n)
    BY <1>1, <1>2, <1>6
  <2>2. Loaded' = Validated(site, FileOf(n))
    BY <1>1, <2>1 DEF Loaded
  <2>3. n = [e \in DOMAIN n |-> n[e]]
    BY <2>1 DEF Coerced
  <2>4. Loaded' = n
    BY <1>2, <2>2, <2>3, RoundTrip
  <2>5. agreed' = n
    BY <1>1, <2>1 DEF Coerced
  <2> QED
    BY <1>1, <1>6, <2>1, <2>4, <2>5 DEF SettingsInv
<1>7. \A o \in Writers : PutFits(put[o])'
  BY <1>1, <1>6 DEF SettingsInv, PutFits, AtRest
<1>8. \A o \in Writers : DOMAIN put'[o] = DOMAIN AtRest
  BY <1>1 DEF SettingsInv
<1>9. ~blurred => \A o \in Writers : put'[o].at = "idle"
  BY <1>1, <1>6 DEF AtRest
<1> HIDE DEF n, a
<1>10. ~blurred /\ form' = "torn" => FALSE
  BY <1>6
<1> QED
  BY <1>1, <1>3, <1>4, <1>5, <1>6, <1>7, <1>8, <1>9, <1>10 DEF SettingsInv

LEMMA StartUpInv ==
  ASSUME SettingsInv, StartUp
  PROVE  SettingsInv'
<1>1. /\ UNCHANGED <<site, world, vault, put, agreed, blurred, clicks>>
      /\ serving = "off"
      /\ serving' = IF form = "torn" THEN "failed" ELSE "up"
      /\ form' = IF form = "none" THEN "whole" ELSE form
      /\ stored' = IF form = "none" THEN FileOf(Defaults(site)) ELSE stored
  BY DEF StartUp
<1>2. Loaded' = IF form = "none" THEN Defaults(site) ELSE Loaded
  <2>1. Validated(site, FileOf(Defaults(site))) = Defaults(site)
    BY RoundTrip, DefaultsLast DEF SettingsInv, Defaults
  <2> QED
    BY <1>1, <2>1 DEF Loaded
<1>3. \A e \in DOMAIN stored' : stored'[e] # "none"
  BY <1>1 DEF SettingsInv, FileOf
<1>4. \A w \in Writers : put[w].at = "idle"
  BY <1>1 DEF SettingsInv
<1>5. \A w \in Writers : PutFits(put[w])'
  BY <1>1, <1>4 DEF SettingsInv, PutFits
<1> QED
  BY <1>1, <1>2, <1>3, <1>4, <1>5 DEF SettingsInv, Quiet

LEMMA KilledInv ==
  ASSUME SettingsInv, Killed
  PROVE  SettingsInv'
<1>1. /\ UNCHANGED <<site, world, vault, agreed, clicks>>
      /\ put' = [w \in Writers |-> AtRest]
      /\ serving' = "off"
      /\ stored' = IF form' = "torn" THEN Empty ELSE stored
      /\ blurred' = (blurred \/ form' = "torn" \/ ~Quiet)
      /\ form' = form \/ form' = "torn" \/ (form = "none" /\ form' = "blank")
  BY DEF Killed, Quiet
<1>2. \A w \in Writers : put'[w].at = "idle" /\ DOMAIN put'[w] = DOMAIN AtRest
  BY <1>1 DEF AtRest
<1>3. \A w \in Writers : PutFits(put[w])'
  BY <1>2 DEF PutFits
<1>4. ~blurred' => Loaded' = agreed'
  BY <1>1 DEF SettingsInv, Loaded
<1>5. \A e \in DOMAIN stored' : stored'[e] # "none"
  BY <1>1 DEF SettingsInv, Empty
<1> QED
  BY <1>1, <1>2, <1>3, <1>4, <1>5 DEF SettingsInv

LEMMA SettingsNextInv ==
  ASSUME SettingsInv, [SettingsNext]_settingsVars
  PROVE  SettingsInv'
<1>1. CASE UNCHANGED <<site, form, stored, put, agreed, blurred, serving>>
  BY <1>1 DEF SettingsInv, PutFits, Quiet, Loaded, Validated, Defaults
<1>2. ASSUME NEW k \in SlotsOf(site), StoreSecret(k) \/ ClearSecret(k)
      PROVE  SettingsInv'
  BY <1>1, <1>2 DEF StoreSecret, ClearSecret
<1>3. CASE UNCHANGED settingsVars
  BY <1>1, <1>3 DEF settingsVars
<1> QED
  BY <1>2, <1>3, ReceiveInv, TruncateInv, CloseInv, StartUpInv, KilledInv DEF SettingsNext

(* What is shown, tested, pulled from and run with agree for whatever a site *)
(* has.                                                                      *)
LEMMA ReadersAgree ==
  ASSUME site \in Sites, NEW h
  PROVE  IF site \in Models THEN TestsSpeakForRuns(h)
         ELSE BadgeIsHonest(h) /\ ScheduleFollowsTest(h)
<1>1. CASE site \in Models
  BY <1>1 DEF Models, TestsSpeakForRuns, Tests, ClientToken, AnthropicClient, OpenAIClient,
     AnthropicKeyTest, OpenAIKeyTest, AnthropicGatewayTest, OpenAIGatewayTest, AnthropicList,
     OpenAIList, AnthropicToken, OpenAIToken, GatewayToken, One, Or
<1>2. CASE site \notin Models
  <2>1. Testable(h) => Configured(h)
    BY <1>2 DEF Testable, Configured, EmassTestable, EmassConfigured, TenableTestable,
       TenableConfigured, SplunkTestable, SplunkConfigured, ArcherTestable, ArcherConfigured,
       GitLabTestable, GitLabConfigured, WikiTestable, WikiConfigured, JiraTestable,
       JiraConfigured, SnowTestable, SnowConfigured, SweepTestable, SweepConfigured,
       EmassGates, WikiGates
  <2>2. Testable(h) /\ site \notin {"emass", "confluence", "sharepoint"}
            => SecretShown(h) \/ "envSecret" \in h
    BY <1>2 DEF Testable, SecretShown, TenableTestable, SplunkTestable, ArcherTestable,
       GitLabTestable, JiraTestable, SnowTestable, SnowSecret
  <2>3. Configured(h) /\ ~Testable(h) => BadgeLeavesOut(h)
    BY <1>2 DEF Testable, Configured, EmassTestable, EmassConfigured, TenableTestable,
       TenableConfigured, SplunkTestable, SplunkConfigured, ArcherTestable, ArcherConfigured,
       GitLabTestable, GitLabConfigured, WikiTestable, WikiConfigured, JiraTestable,
       JiraConfigured, SnowTestable, SnowConfigured, SweepTestable, SweepConfigured,
       EmassGates, WikiGates, JiraGates, BadgeLeavesOut, Entries, Fields, Switches, Sites,
       Connectors, Scheduled, Models
  <2>4. ScheduleFollowsTest(h)
    BY <1>2 DEF ScheduleFollowsTest, Scheduled, Pullable, Testable, TenableTestable,
       SplunkTestable, GitLabTestable, SnowTestable, SweepTestable, BadgeLeavesOut
  <2> QED
    BY <1>2, <2>1, <2>2, <2>3, <2>4 DEF BadgeIsHonest
<1> QED
  BY <1>1, <1>2

LEMMA SettingsInvIsSafe == SettingsInv => SettingsSafe
<1> SUFFICES ASSUME SettingsInv PROVE SettingsSafe
  OBVIOUS
<1>1. SettingsTypeOK
  BY DEF SettingsInv, SettingsTypeOK, Loaded, Validated, Lasting
<1>2. AgreedIsRead
  BY DEF SettingsInv, AgreedIsRead, Quiet
<1> QED
  BY <1>1, <1>2, ReadersAgree DEF SettingsSafe, SettingsInv

(* For every site, every environment and any number of requests, overlaps  *)
(* and restarts: unless writers overlapped or one was killed, what is read *)
(* is what was asked for (config.py save_config and load_config,           *)
(* routes/settings.py), and whatever is read, the badge, the connection    *)
(* test, the schedule and the model's client agree on it but for what      *)
(* BadgeLeavesOut, ScheduleFollowsTest and TestsSpeakForRuns name.         *)
THEOREM SettingsAreSafe == SettingsSpec => []SettingsSafe
<1>1. SettingsInit => SettingsInv
  BY InitSettingsInv
<1>2. SettingsInv /\ [SettingsNext]_settingsVars => SettingsInv'
  BY SettingsNextInv
<1>3. SettingsInv => SettingsSafe
  BY SettingsInvIsSafe
<1> QED
  BY <1>1, <1>2, <1>3, PTL DEF SettingsSpec

-----------------------------------------------------------------------------
(* The upgrade of the database *)

(* Before(p, q): the upgrade passes p before it comes to q.                 *)
Before(p, q) == \/ p[1] < q[1]
                \/ p[1] = q[1] /\ (p[2] < q[2] \/ (p[2] = q[2] /\ p[3] < q[3]))

\* What a database can hold.
Objects == MadeAt(Making) \cup {"alembic_version"}
RowKinds == DOMAIN Needs \cup {"salt"} \cup MadeAt(Doing("insert"))
Databases == [at : 0..Newest, has : SUBSET Objects, copies : SUBSET {StmtAt(p).on : p \in Stmts},
              rows : SUBSET RowKinds]

\* What the upgrade passed was made, or follows in a block cut short.
PassedAreMade(d, q) ==
    \A p \in Making : Before(p, q) => \/ StmtAt(p).made \in d.has
                                      \/ boots > 1 /\ StmtAt(p).made \in Followers

\* Nothing of a block is there without the object the block looks for.
GuardsLead(d) ==
    \A p \in Making : Guard(p) # "nothing" /\ StmtAt(p).made \in d.has => Guard(p) \in d.has

\* A copy that was left is of a table that the next revision builds anew, at
\* the latest.
CopiesAreDue(d) ==
    \A p \in Doing("copy") : StmtAt(p).on \in d.copies => p[1] <= d.at + 1

\* The rows against those of the first start.
RowsFit(d) ==
    /\ d.rows \ start.rows \subseteq {"salt"} \cup MadeAt(Doing("insert"))
    /\ start.rows \ d.rows \subseteq {"tag", "pair"}
    /\ "tag" \in start.rows \ d.rows =>
          \E p \in Doing("swap") : p[1] > start.at /\ StmtAt(p).on = "evidence"

\* A database in which no transaction is open.
Rests(d) ==
    /\ d.at \in {start.at, Newest}
    /\ d.at = start.at => d.rows = start.rows
    /\ PassedAreMade(d, <<d.at + 1, 1, 1>>)
    /\ GuardsLead(d)
    /\ CopiesAreDue(d)
    /\ RowsFit(d)

\* The database before the first start: a stamp was true, nothing later there.
StartFits ==
    /\ start \in Databases
    /\ \A p \in Making : /\ p[1] <= start.at => StmtAt(p).made \in start.has
                         /\ StmtAt(p).made \in start.has =>
                               p[1] <= start.at \/ "alembic_version" \notin start.has
    /\ \A p \in Doing("fill") : p[1] <= start.at => "salt" \in start.rows

\* A place of the chain, or the end of a revision or of the chain.
PlaceFits(q) ==
    /\ q \in Nat \X Nat \X Nat
    /\ q[1] \in 1..(Newest + 1)
    /\ q[2] >= 1
    /\ q[1] <= Newest => /\ q[2] <= Len(Chain[q[1]]) + 1
                         /\ q[2] <= Len(Chain[q[1]]) => q \in Stmts
    /\ q \in Stmts \/ q[3] = 1

\* While a transaction is open, a copy was there before it or was just made.
CopiesAreHeld ==
    \A t \in db.copies : \/ t \in saved.copies
                         \/ \E p \in Doing("copy") : /\ StmtAt(p).on = t
                                                     /\ pc = [p EXCEPT ![3] = @ + 1]

\* What is still to be made by the block under way is not there.
AheadIsNew ==
    pc[3] > 1 => \A p \in Doing("make") :
                    p[1] = pc[1] /\ p[2] = pc[2] /\ p[3] >= pc[3] /\ Guard(p) # "nothing"
                      => StmtAt(p).made \notin db.has

\* The first start finds nothing of what lies ahead, and salts what it passes.
FirstBootFits ==
    /\ \A p \in Making : StmtAt(p).made \in db.has => p[1] <= start.at \/ Before(p, pc)
    /\ \A p \in Doing("fill") : Before(p, pc) /\ "workbook" \in db.rows => "salt" \in db.rows

\* An open transaction began at rest, in the revision the start found.
OpenFits ==
    open => /\ boot = "running"
            /\ Rests(saved) /\ saved.at = start.at /\ start.at < Newest
            /\ RowsFit(db) /\ CopiesAreHeld

\* An upgrade under way is at a place of the revision after the stamp.
UpgradeFits ==
    boot = "running" => /\ boots > 0 /\ PlaceFits(pc)
                        /\ pc[1] = db.at + 1 /\ start.at <= db.at
                        /\ PassedAreMade(db, pc) /\ GuardsLead(db) /\ AheadIsNew
                        /\ boots = 1 => FirstBootFits

\* Types, for any chain.
MigrateTypeOK ==
    /\ db \in Databases /\ saved \in Databases
    /\ boots \in Nat /\ open \in BOOLEAN

\* The inductive invariant of an upgrade.
MigrateInv ==
    /\ MigrateTypeOK /\ StartFits
    /\ boots = 0 => boot = "off" /\ db = start
    /\ ~open => Rests(db)
    /\ OpenFits
    /\ UpgradeFits
    /\ boot = "up" => db.at = Newest
    /\ SaltsAreFilled
    /\ RefusedStartsAreKnown

-----------------------------------------------------------------------------
(* The statements of the chain *)

\* What the chain is made of.
LEMMA ChainTyped ==
  ASSUME NEW i \in 1..Newest
  PROVE  /\ Newest \in Nat
         /\ DOMAIN Chain[i] = 1..Len(Chain[i]) /\ Len(Chain[i]) \in Nat
         /\ \A b \in 1..Len(Chain[i]) :
               /\ Chain[i][b].steps \in Seq(Statements)
               /\ DOMAIN Chain[i][b].steps = 1..Len(Chain[i][b].steps)
               /\ Len(Chain[i][b].steps) \in Nat /\ Len(Chain[i][b].steps) > 0
<1>1. Chain \in Seq(Seq(Blocks)) /\ Newest \in Nat
  BY ChainAssumption, LenProperties DEF Newest
<1>2. Chain[i] \in Seq(Blocks)
  BY <1>1, ElementOfSeq DEF Newest
<1>3. Len(Chain[i]) \in Nat /\ DOMAIN Chain[i] = 1..Len(Chain[i])
  BY <1>2, LenProperties
<1>4. ASSUME NEW b \in 1..Len(Chain[i])
      PROVE  /\ Chain[i][b].steps \in Seq(Statements)
             /\ DOMAIN Chain[i][b].steps = 1..Len(Chain[i][b].steps)
             /\ Len(Chain[i][b].steps) \in Nat /\ Len(Chain[i][b].steps) > 0
  <2>1. Chain[i][b] \in Blocks
    BY <1>2, ElementOfSeq
  <2>2. Chain[i][b].steps \in Seq(Statements)
    BY <2>1 DEF Blocks
  <2>3. Chain[i][b].steps # <<>>
    BY <1>3, ChainAssumption
  <2> QED
    BY <2>2, <2>3, EmptySeq, LenProperties
<1> QED
  BY <1>1, <1>3, <1>4

\* A statement is its revision, its block and its step.
LEMMA PartsOf ==
  ASSUME NEW p \in Stmts
  PROVE  /\ p = <<p[1], p[2], p[3]>>
         /\ p[1] \in 1..Newest
         /\ p[2] \in 1..Len(Chain[p[1]])
         /\ p[3] \in 1..Len(Chain[p[1]][p[2]].steps)
         /\ Newest \in Nat /\ Len(Chain[p[1]]) \in Nat
         /\ Len(Chain[p[1]][p[2]].steps) \in Nat
         /\ p \in Nat \X Nat \X Nat
<1>2. PICK i \in 1..Newest : \E b \in DOMAIN Chain[i] : \E k \in DOMAIN Chain[i][b].steps :
         p = <<i, b, k>>
  BY DEF Stmts
<1>3. PICK b \in DOMAIN Chain[i] : \E k \in DOMAIN Chain[i][b].steps : p = <<i, b, k>>
  BY <1>2
<1>4. PICK k \in DOMAIN Chain[i][b].steps : p = <<i, b, k>>
  BY <1>3
<1>5. p[1] = i /\ p[2] = b /\ p[3] = k /\ p = <<p[1], p[2], p[3]>>
  BY <1>4
<1>6. /\ i \in 1..Newest /\ Newest \in Nat /\ b \in 1..Len(Chain[i]) /\ Len(Chain[i]) \in Nat
  BY ChainTyped
<1>7. k \in 1..Len(Chain[i][b].steps) /\ Len(Chain[i][b].steps) \in Nat
  BY <1>6, ChainTyped
<1>8. i \in Nat /\ b \in Nat /\ k \in Nat
  BY <1>6, <1>7
<1> QED
  BY <1>5, <1>6, <1>7, <1>8

\* Every such place holds a statement.
LEMMA StmtHere ==
  ASSUME NEW i \in 1..Newest, NEW b \in 1..Len(Chain[i]), NEW k \in 1..Len(Chain[i][b].steps)
  PROVE  <<i, b, k>> \in Stmts
  BY ChainTyped DEF Stmts

\* A statement does one of seven things.
LEMMA StmtTyped ==
  ASSUME NEW p \in Stmts
  PROVE  StmtAt(p).do \in {"make", "copy", "swap", "discard", "insert", "fill", "dedup"}
<1>1. Chain[p[1]][p[2]].steps \in Seq(Statements)
  BY PartsOf, ChainTyped
<1>2. Chain[p[1]][p[2]].steps[p[3]] \in Statements
  BY <1>1, PartsOf, ElementOfSeq
<1> QED
  BY <1>2 DEF StmtAt, Statements

\* What it is to be among those that do one thing, or that make.
LEMMA OneDoes ==
  ASSUME NEW p
  PROVE  /\ \A what : p \in Doing(what) <=> p \in Stmts /\ StmtAt(p).do = what
         /\ p \in Making <=> p \in Stmts /\ StmtAt(p).do \in {"make", "swap"}
  BY DEF Doing, Making

\* Another step of the same block has the same guard.
LEMMA MovedTo ==
  ASSUME NEW p \in Stmts, NEW k
  PROVE  /\ [p EXCEPT ![3] = k] = <<p[1], p[2], k>>
         /\ Guard(<<p[1], p[2], k>>) = Guard(p)
  BY PartsOf DEF Guard

\* The statement that makes what a block looks for.
IsHead(h, p) ==
    /\ h \in Making \cup Doing("insert")
    /\ h[1] = p[1] /\ h[2] = p[2]
    /\ StmtAt(h).made = Guard(p) /\ Guard(h) = Guard(p)
    /\ \/ h[3] = 1
       \/ h[3] = 2 /\ h \in Doing("swap") /\ <<p[1], p[2], 1>> \in Doing("copy")

\* A guarded block makes what it looks for at its head.
LEMMA HeadOf ==
  ASSUME NEW p \in Stmts, Guard(p) # "nothing"
  PROVE  p[1] > 1 /\ \E h : IsHead(h, p)
<1> DEFINE first == <<p[1], p[2], 1>>
<1>1. first \in Stmts /\ [p EXCEPT ![3] = 1] = first
  BY PartsOf, StmtHere, MovedTo
<1>2. /\ p[1] > 1
      /\ \/ StmtAt(first).do \in {"make", "insert"} /\ StmtAt(first).made = Guard(p)
         \/ StmtAt(first).do = "copy" /\ StmtAt([p EXCEPT ![3] = 2]).made = Guard(p)
  <2>1. [p EXCEPT ![3] = 1] = first
    BY <1>1
  <2> HIDE DEF first
  <2> QED
    BY <2>1, ChainAssumption DEF BlocksAreGuarded
<1>3. CASE StmtAt(first).do \in {"make", "insert"} /\ StmtAt(first).made = Guard(p)
  <2>1. IsHead(first, p)
    BY <1>1, <1>3, OneDoes, MovedTo DEF IsHead
  <2> QED
    BY <2>1, <1>2
<1>4. CASE StmtAt(first).do = "copy" /\ StmtAt([p EXCEPT ![3] = 2]).made = Guard(p)
  <2> DEFINE second == <<p[1], p[2], 2>>
  <2>1. first \in Doing("copy")
    BY <1>1, <1>4, OneDoes
  <2>2. [first EXCEPT ![3] = @ + 1] = second
    OBVIOUS
  <2>3. second \in Doing("swap")
    <3> HIDE DEF second, first
    <3> QED
      BY <2>1, <2>2, ChainAssumption DEF StepsGoTogether
  <2>4. [p EXCEPT ![3] = 2] = second
    BY MovedTo
  <2>5. second \in Making
    BY <2>3, OneDoes
  <2>6. IsHead(second, p)
    BY <2>1, <2>3, <2>4, <2>5, <1>4, MovedTo DEF IsHead
  <2> QED
    BY <2>6, <1>2
<1> QED
  BY <1>2, <1>3, <1>4

\* What is made is made once, and is no row of the first release.
LEMMA OneMakes ==
  ASSUME NEW p \in Making \cup Doing("insert")
  PROVE  /\ p \in Stmts
         /\ \A q \in Making \cup Doing("insert") : StmtAt(p).made = StmtAt(q).made => p = q
         /\ StmtAt(p).made \notin {"nothing", "alembic_version", "salt"}
         /\ p[1] > 1 => StmtAt(p).made \notin DOMAIN Needs
  BY ChainAssumption, OneDoes DEF MadeOnce

\* A block that inserts does nothing else.
LEMMA AloneInserted ==
  ASSUME NEW p \in Doing("insert"), NEW q \in Stmts, q[1] = p[1], q[2] = p[2]
  PROVE  q = p
<1>1. Len(Chain[p[1]][p[2]].steps) = 1
  BY ChainAssumption DEF StepsGoTogether
<1>2. p \in Stmts
  BY OneDoes
<1>3. p[3] \in 1..Len(Chain[p[1]][p[2]].steps) /\ q[3] \in 1..Len(Chain[q[1]][q[2]].steps)
  BY <1>2, PartsOf
<1>4. p[3] = 1 /\ q[3] = 1
  BY <1>1, <1>3
<1>5. p = <<p[1], p[2], p[3]>> /\ q = <<q[1], q[2], q[3]>>
  BY <1>2, PartsOf
<1> QED
  BY <1>4, <1>5

\* The head of a block that makes something makes an object.
LEMMA HeadMakes ==
  ASSUME NEW p \in Stmts, StmtAt(p).do # "insert", NEW h, IsHead(h, p)
  PROVE  h \in Making
<1>1. CASE h \in Doing("insert")
  <2>1. p = h
    BY <1>1, AloneInserted DEF IsHead
  <2> QED
    BY <1>1, <2>1, OneDoes
<1> QED
  BY <1>1 DEF IsHead

\* No name stands for two things that a guard could look for.
LEMMA Names ==
  /\ "nothing" \notin Objects /\ "nothing" \notin RowKinds
  /\ {"workbook", "tag", "shown", "trace", "impl", "pair", "pairtrace"} \subseteq DOMAIN Needs
  /\ "salt" \notin DOMAIN Needs
  /\ \A p \in Doing("insert") : StmtAt(p).made \notin {"salt"} \cup DOMAIN Needs
<1>1. /\ {"workbook", "tag", "shown", "trace", "impl", "pair", "pairtrace"} \subseteq DOMAIN Needs
      /\ "nothing" \notin DOMAIN Needs /\ "salt" \notin DOMAIN Needs
  BY DEF Needs
<1>2. ASSUME NEW p \in Making \cup Doing("insert")
      PROVE  StmtAt(p).made # "nothing"
  BY OneMakes
<1>3. ASSUME NEW p \in Doing("insert")
      PROVE  StmtAt(p).made \notin {"salt"} \cup DOMAIN Needs
  <2>1. p \in Stmts /\ Guard(p) # "nothing"
    <3>1. p \in Stmts /\ StmtAt(p).do = "insert"
      BY OneDoes
    <3> QED
      BY <3>1, ChainAssumption DEF BlocksAreGuarded
  <2>2. p[1] > 1
    BY <2>1, HeadOf
  <2> QED
    BY <1>1, <2>2, OneMakes
<1> QED
  BY <1>1, <1>2, <1>3 DEF Objects, RowKinds, MadeAt

\* A block is skipped only where the schema has what the block looks for.
LEMMA SkippedIsMade ==
  ASSUME NEW p \in Stmts, StmtAt(p).do # "insert", NEW d \in Databases,
         Guard(p) \in d.has \cup d.rows
  PROVE  Guard(p) # "nothing" /\ Guard(p) \in d.has
<1>1. d.has \subseteq Objects /\ d.rows \subseteq RowKinds
  BY DEF Databases
<1>2. Guard(p) # "nothing"
  BY <1>1, Names
<1>3. PICK h : IsHead(h, p)
  BY <1>2, HeadOf
<1>4. h \in Making /\ h[1] > 1 /\ StmtAt(h).made = Guard(p)
  BY <1>2, <1>3, HeadMakes, HeadOf DEF IsHead
<1>5. Guard(p) \notin DOMAIN Needs /\ Guard(p) # "salt"
  BY <1>4, OneMakes
<1>6. Guard(p) \notin MadeAt(Doing("insert"))
  BY <1>4, OneMakes, OneDoes DEF MadeAt
<1> QED
  BY <1>1, <1>2, <1>5, <1>6 DEF RowKinds

\* What a block makes beside the object it looks for follows it.
LEMMA OthersFollow ==
  ASSUME NEW p \in Making, Guard(p) # "nothing", StmtAt(p).made # Guard(p)
  PROVE  StmtAt(p).made \in Followers
<1>1. p \in Stmts /\ StmtAt(p).do \in {"make", "swap"}
  BY OneDoes
<1>2. PICK h : IsHead(h, p)
  BY <1>1, HeadOf
<1>3. p[3] # 1
  <2> SUFFICES ASSUME p[3] = 1 PROVE FALSE
    OBVIOUS
  <2>1. p = <<p[1], p[2], 1>>
    BY <1>1, PartsOf
  <2>2. h \in Stmts /\ h = <<h[1], h[2], h[3]>>
    BY <1>2, OneDoes, PartsOf DEF IsHead
  <2>3. CASE h[3] = 1
    BY <1>2, <2>1, <2>2, <2>3 DEF IsHead
  <2>4. CASE <<p[1], p[2], 1>> \in Doing("copy")
    BY <1>1, <2>1, <2>4, OneDoes
  <2> QED
    BY <1>2, <2>3, <2>4 DEF IsHead
<1>4. p[3] > 1
  BY <1>1, <1>3, PartsOf
<1> QED
  BY <1>4 DEF Followers, MadeAt

-----------------------------------------------------------------------------
(* The places of the upgrade *)

Following(q) == IF q[3] < Len(Chain[q[1]][q[2]].steps) THEN <<q[1], q[2], q[3] + 1>>
                ELSE <<q[1], q[2] + 1, 1>>

\* A step further, one more statement is passed.
LEMMA PassOne ==
  ASSUME NEW q \in Stmts, NEW p \in Stmts
  PROVE  Before(p, Following(q)) <=> Before(p, q) \/ p = q
<1> DEFINE last == Len(Chain[q[1]][q[2]].steps)
<1>1. /\ q[1] \in Nat /\ q[2] \in Nat /\ q[3] \in Nat /\ last \in Nat /\ q[3] <= last
      /\ p[1] \in Nat /\ p[2] \in Nat /\ p[3] \in Nat
      /\ p[1] = q[1] /\ p[2] = q[2] => p[3] <= last
      /\ p[3] >= 1
  <2>1. q[1] \in Nat /\ q[2] \in Nat /\ q[3] \in 1..last /\ last \in Nat
    BY PartsOf
  <2>2. /\ p[1] \in Nat /\ p[2] \in Nat /\ p[3] \in 1..Len(Chain[p[1]][p[2]].steps)
        /\ Len(Chain[p[1]][p[2]].steps) \in Nat
    BY PartsOf
  <2> QED
    BY <2>1, <2>2
<1>2. p = q <=> p[1] = q[1] /\ p[2] = q[2] /\ p[3] = q[3]
  <2>1. p = <<p[1], p[2], p[3]>> /\ q = <<q[1], q[2], q[3]>>
    BY PartsOf
  <2> QED
    BY <2>1
<1>3. Following(q) = IF q[3] < last THEN <<q[1], q[2], q[3] + 1>> ELSE <<q[1], q[2] + 1, 1>>
  BY DEF Following
<1>4. CASE q[3] < last
  <2> HIDE DEF last
  <2>1. Following(q)[1] = q[1] /\ Following(q)[2] = q[2] /\ Following(q)[3] = q[3] + 1
    BY <1>3, <1>4
  <2> QED
    BY <1>1, <1>2, <2>1 DEF Before
<1>5. CASE ~(q[3] < last)
  <2> HIDE DEF last
  <2>1. Following(q)[1] = q[1] /\ Following(q)[2] = q[2] + 1 /\ Following(q)[3] = 1
    BY <1>3, <1>5
  <2> QED
    BY <1>1, <1>2, <1>5, <2>1 DEF Before
<1> QED
  BY <1>4, <1>5

\* A block further, the statements of one block are.
LEMMA PassBlock ==
  ASSUME NEW q \in Stmts, q[3] = 1, NEW p \in Stmts
  PROVE  Before(p, <<q[1], q[2] + 1, 1>>) <=> Before(p, q) \/ (p[1] = q[1] /\ p[2] = q[2])
<1>1. q[1] \in Nat /\ q[2] \in Nat
  BY PartsOf
<1>2. p[1] \in Nat /\ p[2] \in Nat /\ p[3] \in Nat /\ p[3] >= 1
  BY PartsOf
<1> QED
  BY <1>1, <1>2 DEF Before

\* At the end of a revision, going on to the next passes none.
LEMMA PassRevision ==
  ASSUME NEW q \in Nat \X Nat \X Nat, q[1] \in 1..Newest, q[2] > Len(Chain[q[1]]),
         NEW p \in Stmts
  PROVE  Before(p, <<q[1] + 1, 1, 1>>) <=> Before(p, q)
<1>1. /\ p[1] \in Nat /\ p[2] \in Nat /\ p[3] \in Nat /\ p[3] >= 1 /\ p[2] >= 1
      /\ p[1] = q[1] => p[2] <= Len(Chain[q[1]])
      /\ Len(Chain[q[1]]) \in Nat
  BY PartsOf, ChainTyped
<1> DEFINE n == Len(Chain[q[1]])
<1>2. /\ p[1] \in Nat /\ p[2] \in Nat /\ p[3] \in Nat /\ p[3] >= 1 /\ p[2] >= 1
      /\ p[1] = q[1] => p[2] <= n
      /\ n \in Nat /\ q[2] > n
  BY <1>1
<1> HIDE DEF n
<1> QED
  BY <1>2 DEF Before

\* At the start of a revision, those of the earlier ones are passed.
LEMMA FirstPlace ==
  ASSUME NEW at \in Nat, NEW p \in Stmts
  PROVE  Before(p, <<at + 1, 1, 1>>) <=> p[1] <= at
<1>1. p[1] \in Nat /\ p[2] \in Nat /\ p[3] \in Nat /\ p[3] >= 1 /\ p[2] >= 1
  BY PartsOf
<1> QED
  BY <1>1 DEF Before

\* Every revision has a place to start at.
LEMMA FirstPlaceFits ==
  ASSUME NEW at \in 0..Newest
  PROVE  PlaceFits(<<at + 1, 1, 1>>)
<1>1. Newest \in Nat
  BY ChainAssumption, LenProperties DEF Newest
<1>2. CASE at = Newest
  BY <1>1, <1>2 DEF PlaceFits
<1>3. CASE at # Newest
  <2>1. at + 1 \in 1..Newest
    BY <1>1, <1>3
  <2>2. Len(Chain[at + 1]) \in Nat
    BY <2>1, ChainTyped
  <2>3. 1 <= Len(Chain[at + 1]) => <<at + 1, 1, 1>> \in Stmts
    <3> SUFFICES ASSUME 1 <= Len(Chain[at + 1]) PROVE <<at + 1, 1, 1>> \in Stmts
      OBVIOUS
    <3>1. 1 \in 1..Len(Chain[at + 1])
      BY <2>2
    <3>2. 1 \in 1..Len(Chain[at + 1][1].steps)
      <4>1. Len(Chain[at + 1][1].steps) \in Nat /\ Len(Chain[at + 1][1].steps) > 0
        BY <2>1, <3>1, ChainTyped
      <4> QED
        BY <4>1
    <3> QED
      BY <2>1, <3>1, <3>2, StmtHere
  <2> QED
    BY <1>1, <2>1, <2>2, <2>3 DEF PlaceFits
<1> QED
  BY <1>2, <1>3

\* What follows a statement is a place of the same revision.
LEMMA FollowingFits ==
  ASSUME NEW q \in Stmts, NEW n, n = Following(q)
  PROVE  /\ n \in Nat \X Nat \X Nat
         /\ n[1] = q[1] /\ n[2] >= 1 /\ n[2] <= Len(Chain[q[1]]) + 1
         /\ n[2] <= Len(Chain[q[1]]) => n \in Stmts
         /\ n \in Stmts \/ n[3] = 1
         /\ n[3] > 1 => n = [q EXCEPT ![3] = @ + 1] /\ n[2] = q[2] /\ n[3] = q[3] + 1
<1>1. /\ q[1] \in 1..Newest /\ q[2] \in 1..Len(Chain[q[1]])
      /\ q[3] \in 1..Len(Chain[q[1]][q[2]].steps)
      /\ Len(Chain[q[1]][q[2]].steps) \in Nat /\ Len(Chain[q[1]]) \in Nat /\ Newest \in Nat
  BY PartsOf
<1>2. CASE q[3] < Len(Chain[q[1]][q[2]].steps)
  <2>1. Following(q) = <<q[1], q[2], q[3] + 1>>
    BY <1>2 DEF Following
  <2>2. q[3] + 1 \in 1..Len(Chain[q[1]][q[2]].steps)
    <3> DEFINE last == Len(Chain[q[1]][q[2]].steps)
    <3>1. q[3] \in 1..last /\ last \in Nat /\ q[3] < last
      BY <1>1, <1>2
    <3> HIDE DEF last
    <3>2. q[3] + 1 \in 1..last
      BY <3>1
    <3> QED
      BY <3>2 DEF last
  <2>3. <<q[1], q[2], q[3] + 1>> \in Stmts
    BY <1>1, <2>2, StmtHere
  <2>4. [q EXCEPT ![3] = @ + 1] = <<q[1], q[2], q[3] + 1>>
    BY PartsOf
  <2> QED
    BY <1>1, <2>1, <2>3, <2>4
<1>3. CASE ~(q[3] < Len(Chain[q[1]][q[2]].steps))
  <2>1. Following(q) = <<q[1], q[2] + 1, 1>>
    BY <1>3 DEF Following
  <2>2. q[2] + 1 <= Len(Chain[q[1]]) => <<q[1], q[2] + 1, 1>> \in Stmts
    <3> SUFFICES ASSUME q[2] + 1 <= Len(Chain[q[1]]) PROVE <<q[1], q[2] + 1, 1>> \in Stmts
      OBVIOUS
    <3>1. q[2] + 1 \in 1..Len(Chain[q[1]])
      BY <1>1
    <3>2. Len(Chain[q[1]][q[2] + 1].steps) \in Nat /\ Len(Chain[q[1]][q[2] + 1].steps) > 0
      BY <1>1, <3>1, ChainTyped
    <3>3. 1 \in 1..Len(Chain[q[1]][q[2] + 1].steps)
      BY <3>2
    <3> QED
      BY <1>1, <3>1, <3>3, StmtHere
  <2> QED
    BY <1>1, <2>1, <2>2
<1> QED
  BY <1>2, <1>3

\* What a step of the upgrade knows of its place.
LEMMA Here ==
  ASSUME MigrateInv, Running
  PROVE  /\ pc[1] \in 1..Newest /\ Newest \in Nat /\ db.at \in Nat /\ start.at \in Nat
         /\ pc[1] = db.at + 1 /\ start.at <= db.at /\ start.at < Newest
         /\ ~open => db.at = start.at
<1>1. db.at \in 0..Newest /\ start.at \in 0..Newest
  BY DEF MigrateInv, MigrateTypeOK, StartFits, Databases
<1>2. pc[1] \in 1..(Newest + 1) /\ pc[1] <= Newest /\ pc[1] = db.at + 1 /\ start.at <= db.at
  BY DEF MigrateInv, UpgradeFits, PlaceFits, Running
<1>3. ~open => db.at \in {start.at, Newest}
  BY DEF MigrateInv, Rests
<1>4. Newest \in Nat
  BY ChainAssumption, LenProperties DEF Newest
<1> QED
  BY <1>1, <1>2, <1>3, <1>4

\* In a block, the next statement is one of the chain.
LEMMA HereAtBlock ==
  ASSUME MigrateInv, AtBlock
  PROVE  /\ pc \in Stmts
         /\ Current = StmtAt(pc) /\ Block.unless = Guard(pc)
         /\ NextStep = Following(pc)
<1>1. pc \in Stmts
  BY DEF MigrateInv, UpgradeFits, PlaceFits, AtBlock, Running
<1> QED
  BY <1>1 DEF Current, Block, StmtAt, Guard, NextStep, Following

\* The heads of the blocks are made before what else they make, and are there
\* whatever has been skipped.
LEMMA HeadsAreKept ==
  ASSUME NEW h \in Making, StmtAt(h).made = Guard(h)
  PROVE  StmtAt(h).made \notin Followers
<1> SUFFICES ASSUME NEW q \in Making, StmtAt(q).made # Guard(q), StmtAt(q).made = StmtAt(h).made
             PROVE  FALSE
  BY DEF Followers, MadeAt
<1>1. q = h
  BY OneMakes
<1> QED
  BY <1>1

\* The head of a block is passed before the rest of it.
LEMMA HeadComesFirst ==
  ASSUME NEW p \in Making, NEW h, IsHead(h, p)
  PROVE  h = p \/ Before(h, p)
<1>1. p \in Stmts /\ h \in Stmts /\ StmtAt(p).do \in {"make", "swap"}
  BY OneDoes DEF IsHead
<1>2. p = <<p[1], p[2], p[3]>> /\ h = <<h[1], h[2], h[3]>> /\ p[3] \in Nat /\ p[3] >= 1
  BY <1>1, PartsOf
<1>3. CASE h[3] = 1
  BY <1>2, <1>3 DEF IsHead, Before
<1>4. CASE h[3] = 2 /\ <<p[1], p[2], 1>> \in Doing("copy")
  <2>1. p[3] # 1
    BY <1>1, <1>2, <1>4, OneDoes
  <2> QED
    BY <1>2, <1>4, <2>1 DEF IsHead, Before
<1> QED
  BY <1>3, <1>4 DEF IsHead

\* Where the head was passed, what it makes is there.
LEMMA PassedHeads ==
  ASSUME NEW d, NEW q, NEW p \in Making, Guard(p) # "nothing", NEW h, IsHead(h, p),
         PassedAreMade(d, q), Before(h, q)
  PROVE  Guard(p) \in d.has
<1>1. h \in Making
  BY HeadMakes, OneDoes
<1>2. StmtAt(h).made = Guard(p) /\ StmtAt(h).made = Guard(h)
  BY DEF IsHead
<1> QED
  BY <1>1, <1>2, HeadsAreKept DEF PassedAreMade

-----------------------------------------------------------------------------
(* The end of a start *)

\* A refused start leaves what the transaction began with.
LEMMA RefuseFits ==
  ASSUME MigrateInv, boot = "running", Refuse, RefusedStartsAreKnown'
  PROVE  MigrateInv'
<1>1. /\ boot' = "refused" /\ open' = FALSE
      /\ saved' = saved /\ pc' = pc /\ start' = start /\ boots' = boots
      /\ db' = IF open THEN saved ELSE db
  BY DEF Refuse
<1>2. MigrateTypeOK' /\ StartFits'
  BY <1>1 DEF MigrateInv, MigrateTypeOK, StartFits
<1>3. Rests(db')
  BY <1>1 DEF MigrateInv, OpenFits
<1>4. Rests(db)'
  BY <1>1, <1>3 DEF Rests, PassedAreMade, GuardsLead, CopiesAreDue, RowsFit
<1>5. boots' # 0
  BY <1>1 DEF MigrateInv, UpgradeFits
<1> QED
  BY <1>1, <1>2, <1>4, <1>5 DEF MigrateInv, OpenFits, UpgradeFits, SaltsAreFilled

\* So does one that dies.
LEMMA CrashFits ==
  ASSUME MigrateInv, Crash
  PROVE  MigrateInv'
<1>1. /\ boot \in {"running", "up"} /\ boot' = "off" /\ open' = FALSE
      /\ saved' = saved /\ pc' = pc /\ start' = start /\ boots' = boots
      /\ db' = IF open THEN saved ELSE db
  BY DEF Crash
<1>2. MigrateTypeOK' /\ StartFits'
  BY <1>1 DEF MigrateInv, MigrateTypeOK, StartFits
<1>3. Rests(db')
  BY <1>1 DEF MigrateInv, OpenFits
<1>4. Rests(db)'
  BY <1>1, <1>3 DEF Rests, PassedAreMade, GuardsLead, CopiesAreDue, RowsFit
<1>5. boots' # 0
  BY <1>1 DEF MigrateInv
<1> QED
  BY <1>1, <1>2, <1>4, <1>5 DEF MigrateInv, OpenFits, UpgradeFits, SaltsAreFilled,
     RefusedStartsAreKnown

\* The end of the upgrade.
LEMMA CommitFits ==
  ASSUME MigrateInv, Commit
  PROVE  MigrateInv'
<1>1. /\ boot = "running" /\ pc[1] > Newest /\ boot' = "up" /\ open' = FALSE
      /\ db' = db /\ saved' = saved /\ pc' = pc /\ start' = start /\ boots' = boots
  BY DEF Commit
<1>2. MigrateTypeOK' /\ StartFits'
  BY <1>1 DEF MigrateInv, MigrateTypeOK, StartFits
<1>3. Newest \in Nat /\ pc[1] = Newest + 1 /\ db.at = Newest
  <2>1. pc[1] \in 1..(Newest + 1) /\ pc[1] = db.at + 1 /\ db.at \in 0..Newest
    BY <1>1 DEF MigrateInv, UpgradeFits, PlaceFits, MigrateTypeOK, Databases
  <2>2. Newest \in Nat
    BY ChainAssumption, LenProperties DEF Newest
  <2> QED
    BY <1>1, <2>1, <2>2
<1>4. \A p \in Stmts : Before(p, pc) /\ p[1] <= Newest
  BY <1>3, PartsOf DEF Before
<1>5. Rests(db)
  <2>1. CASE open
    <3>1. PassedAreMade(db, <<db.at + 1, 1, 1>>)
      BY <1>1, <1>4, OneDoes DEF MigrateInv, UpgradeFits, PassedAreMade
    <3>2. CopiesAreDue(db)
      BY <1>3, <1>4, OneDoes, PartsOf DEF CopiesAreDue
    <3>3. db.at = start.at => db.rows = start.rows
      BY <1>3, <2>1 DEF MigrateInv, OpenFits
    <3> QED
      BY <1>1, <1>3, <2>1, <3>1, <3>2, <3>3 DEF MigrateInv, OpenFits, UpgradeFits, Rests
  <2> QED
    BY <2>1 DEF MigrateInv
<1>6. Rests(db)'
  BY <1>1, <1>5 DEF Rests, PassedAreMade, GuardsLead, CopiesAreDue, RowsFit
<1>7. SaltsAreFilled'
  <2> SUFFICES ASSUME "workbook" \in db.rows, ~(boots > 1) PROVE "salt" \in db.rows
    BY <1>1 DEF SaltsAreFilled
  <2>1. PICK p : p \in Doing("fill")
    BY ChainAssumption DEF DataFits
  <2>2. boots = 1
    BY <1>1 DEF MigrateInv, UpgradeFits, MigrateTypeOK
  <2> QED
    BY <1>1, <1>4, <2>1, <2>2, OneDoes DEF MigrateInv, UpgradeFits, FirstBootFits
<1>8. boots' # 0
  BY <1>1 DEF MigrateInv, UpgradeFits
<1> QED
  BY <1>1, <1>2, <1>3, <1>6, <1>7, <1>8 DEF MigrateInv, OpenFits, UpgradeFits, RefusedStartsAreKnown

\* Another start.
LEMMA BootFits ==
  ASSUME MigrateInv, Boot
  PROVE  MigrateInv'
<1>1. /\ boot \in {"off", "refused"} /\ boots' = boots + 1 /\ boots \in Nat /\ open = FALSE
      /\ db \in Databases
  BY DEF Boot, MigrateInv, MigrateTypeOK, OpenFits
<1>2. CASE db.has # {} /\ "alembic_version" \notin db.has
  <2>1. /\ boot' = "refused" /\ db' = db /\ saved' = saved /\ open' = open /\ pc' = pc
        /\ start' = start
    BY <1>2 DEF Boot
  <2>2. Rests(db)'
    BY <1>1, <2>1 DEF MigrateInv, Rests, PassedAreMade, GuardsLead, CopiesAreDue, RowsFit
  <2>3. RefusedStartsAreKnown'
    BY <1>2, <2>1 DEF RefusedStartsAreKnown
  <2>4. MigrateTypeOK' /\ StartFits' /\ boots' # 0
    BY <1>1, <2>1 DEF MigrateInv, MigrateTypeOK, StartFits
  <2> QED
    BY <1>1, <2>1, <2>2, <2>3, <2>4 DEF MigrateInv, OpenFits, UpgradeFits, SaltsAreFilled
<1>3. CASE ~(db.has # {} /\ "alembic_version" \notin db.has)
  <2>1. /\ boot' = "running" /\ open' = FALSE /\ pc' = <<db.at + 1, 1, 1>>
        /\ db' = [db EXCEPT !.has = @ \cup {"alembic_version"}]
        /\ saved' = saved /\ start' = start
    BY <1>3 DEF Boot
  <2>2. /\ db' \in Databases /\ db'.at = db.at /\ db'.rows = db.rows /\ db'.copies = db.copies
        /\ db'.has = db.has \cup {"alembic_version"}
    BY <1>1, <2>1 DEF Databases, Objects
  <2>3. MigrateTypeOK' /\ StartFits' /\ boots' \in Nat /\ boots' > 0
    <3>1. boots' \in Nat /\ boots' > 0
      BY <1>1
    <3>2. MigrateTypeOK'
      BY <2>1, <2>2, <3>1 DEF MigrateInv, MigrateTypeOK
    <3>3. StartFits'
      BY <2>1 DEF MigrateInv, StartFits
    <3> QED
      BY <3>1, <3>2, <3>3
  <2>4. \A p \in Making : StmtAt(p).made \in db'.has <=> StmtAt(p).made \in db.has
    BY <2>2, OneMakes
  <2>5. \A p \in Making : Guard(p) \in db.has => Guard(p) \in db'.has
    BY <2>2
  <2>6. Rests(db)
    BY <1>1 DEF MigrateInv
  <2>7. PassedAreMade(db, <<db.at + 1, 1, 1>>)'
    BY <1>1, <2>1, <2>2, <2>4, <2>6 DEF Rests, PassedAreMade
  <2>8. GuardsLead(db)'
    BY <2>4, <2>5, <2>6 DEF Rests, GuardsLead
  <2>9. Rests(db)'
    BY <2>1, <2>2, <2>6, <2>7, <2>8 DEF Rests, CopiesAreDue, RowsFit
  <2>10. /\ db.at \in 0..Newest /\ Newest \in Nat /\ start.at \in 0..Newest
         /\ db.at \in {start.at, Newest}
    <3>1. Newest \in Nat
      BY ChainAssumption, LenProperties DEF Newest
    <3> QED
      BY <1>1, <2>6, <3>1 DEF Rests, Databases, MigrateInv, StartFits
  <2>11. PlaceFits(pc)'
    <3>1. PlaceFits(<<db.at + 1, 1, 1>>)
      BY <2>10, FirstPlaceFits
    <3> QED
      BY <2>1, <3>1
  <2>12. boots' = 1 => FirstBootFits'
    <3> SUFFICES ASSUME boots' = 1 PROVE FirstBootFits'
      OBVIOUS
    <3>1. db = start
      BY <1>1 DEF MigrateInv
    <3>2. \A p \in Stmts : Before(p, pc') <=> p[1] <= start.at
      BY <2>1, <2>10, <3>1, FirstPlace
    <3>3. \A p \in Making : StmtAt(p).made \in db'.has => p[1] <= start'.at
      <4> SUFFICES ASSUME NEW p \in Making, StmtAt(p).made \in start.has
                   PROVE  p[1] <= start.at
        BY <2>1, <2>4, <3>1
      <4> QED
        BY <1>3, <3>1 DEF MigrateInv, StartFits
    <3>4. \A p \in Doing("fill") : Before(p, pc') => "salt" \in db'.rows
      BY <2>2, <3>1, <3>2, OneDoes DEF MigrateInv, StartFits
    <3> QED
      BY <3>3, <3>4 DEF FirstBootFits
  <2>13. UpgradeFits'
    BY <2>1, <2>2, <2>3, <2>7, <2>8, <2>10, <2>11, <2>12 DEF UpgradeFits, AheadIsNew
  <2> QED
    BY <2>1, <2>3, <2>9, <2>13 DEF MigrateInv, OpenFits, SaltsAreFilled, RefusedStartsAreKnown
<1> QED
  BY <1>2, <1>3

-----------------------------------------------------------------------------
(* A step of the upgrade *)

\* A block that is skipped.
LEMMA SkipFits ==
  ASSUME MigrateInv, SkipBlock
  PROVE  MigrateInv'
<1>1. /\ AtBlock /\ Running /\ pc[3] = 1 /\ Block.unless \in db.has \cup db.rows
      /\ pc' = <<pc[1], pc[2] + 1, 1>> /\ boot = "running"
      /\ boot' = boot /\ db' = db /\ saved' = saved /\ open' = open /\ start' = start
      /\ boots' = boots
  BY DEF SkipBlock, Skipped, AtBlock, Running
<1>2. pc \in Stmts /\ Guard(pc) \in db.has \cup db.rows /\ db \in Databases
  BY <1>1, HereAtBlock DEF MigrateInv, MigrateTypeOK
<1>3. \A p \in Stmts : Before(p, pc') <=> Before(p, pc) \/ (p[1] = pc[1] /\ p[2] = pc[2])
  BY <1>1, <1>2, PassBlock
<1>4. ASSUME NEW p \in Making, p[1] = pc[1], p[2] = pc[2]
      PROVE  /\ boots # 1
             /\ StmtAt(p).made \in db.has \/ StmtAt(p).made \in Followers
  <2>1. p \in Stmts /\ StmtAt(p).do # "insert" /\ Guard(p) = Guard(pc)
    BY <1>4, OneDoes DEF Guard
  <2>2. Guard(p) # "nothing" /\ Guard(p) \in db.has
    BY <1>2, <2>1, SkippedIsMade
  <2>3. PICK h : IsHead(h, p)
    BY <2>1, <2>2, HeadOf
  <2>4. h \in Making /\ StmtAt(h).made \in db.has /\ h[1] = pc[1] /\ h[2] = pc[2] /\ h \in Stmts
    BY <1>4, <2>1, <2>2, <2>3, HeadMakes, OneDoes DEF IsHead
  <2>5. boots # 1
    <3> SUFFICES ASSUME boots = 1 PROVE FALSE
      OBVIOUS
    <3>1. h[1] <= start.at \/ Before(h, pc)
      BY <1>1, <2>4 DEF MigrateInv, UpgradeFits, FirstBootFits
    <3>2. h[3] \in Nat /\ h[3] >= 1 /\ h[1] \in Nat /\ h[2] \in Nat
      BY <2>4, PartsOf
    <3> QED
      BY <1>1, <2>4, <3>1, <3>2, Here DEF Before
  <2> QED
    BY <2>2, <2>5, OthersFollow
<1>5. PassedAreMade(db, pc)'
  <2> SUFFICES ASSUME NEW p \in Making, Before(p, pc')
               PROVE  StmtAt(p).made \in db.has \/ (boots > 1 /\ StmtAt(p).made \in Followers)
    BY <1>1 DEF PassedAreMade
  <2>1. CASE Before(p, pc)
    BY <1>1, <2>1 DEF MigrateInv, UpgradeFits, PassedAreMade
  <2>2. CASE p[1] = pc[1] /\ p[2] = pc[2]
    <3>1. boots \in Nat /\ boots > 0
      BY <1>1 DEF MigrateInv, MigrateTypeOK, UpgradeFits
    <3> QED
      BY <1>4, <2>2, <3>1
  <2> QED
    BY <1>3, <2>1, <2>2, OneDoes
<1>6. PlaceFits(pc)'
  <2>1. /\ pc[1] \in 1..Newest /\ pc[2] \in 1..Len(Chain[pc[1]]) /\ Newest \in Nat
        /\ Len(Chain[pc[1]]) \in Nat
    BY <1>2, PartsOf
  <2>2. pc[2] + 1 <= Len(Chain[pc[1]]) => <<pc[1], pc[2] + 1, 1>> \in Stmts
    <3> SUFFICES ASSUME pc[2] + 1 <= Len(Chain[pc[1]]) PROVE <<pc[1], pc[2] + 1, 1>> \in Stmts
      OBVIOUS
    <3>1. pc[2] + 1 \in 1..Len(Chain[pc[1]])
      BY <2>1
    <3>2. 1 \in 1..Len(Chain[pc[1]][pc[2] + 1].steps)
      <4>1. /\ Len(Chain[pc[1]][pc[2] + 1].steps) \in Nat
            /\ Len(Chain[pc[1]][pc[2] + 1].steps) > 0
        BY <2>1, <3>1, ChainTyped
      <4> QED
        BY <4>1
    <3> QED
      BY <2>1, <3>1, <3>2, StmtHere
  <2> QED
    BY <1>1, <2>1, <2>2 DEF PlaceFits
<1>7. boots = 1 => FirstBootFits'
  <2> SUFFICES ASSUME boots = 1 PROVE FirstBootFits'
    OBVIOUS
  <2>1. FirstBootFits
    BY <1>1 DEF MigrateInv, UpgradeFits
  <2>2. \A p \in Doing("fill") : ~(p[1] = pc[1] /\ p[2] = pc[2])
    <3> SUFFICES ASSUME NEW p \in Doing("fill"), p[1] = pc[1], p[2] = pc[2] PROVE FALSE
      OBVIOUS
    <3>1. p \in Stmts /\ StmtAt(p).do = "fill" /\ Guard(p) = Guard(pc)
      BY OneDoes DEF Guard
    <3>2. Guard(p) # "nothing" /\ Guard(p) \in db.has
      BY <1>2, <3>1, SkippedIsMade
    <3>3. PICK h : IsHead(h, p)
      BY <3>1, <3>2, HeadOf
    <3>4. h \in Making /\ h[1] = pc[1] /\ h[2] = pc[2]
      BY <3>1, <3>2, <3>3, HeadMakes DEF IsHead
    <3> QED
      BY <1>4, <3>4
  <2> QED
    BY <1>1, <1>3, <2>1, <2>2, OneDoes DEF FirstBootFits
<1>8. UpgradeFits'
  BY <1>1, <1>5, <1>6, <1>7 DEF MigrateInv, UpgradeFits, AheadIsNew, GuardsLead
<1>9. OpenFits'
  <2> SUFFICES ASSUME open PROVE CopiesAreHeld'
    BY <1>1 DEF MigrateInv, OpenFits, Rests, PassedAreMade, GuardsLead, CopiesAreDue, RowsFit
  <2>1. \A p \in Doing("copy") : pc # [p EXCEPT ![3] = @ + 1]
    <3> SUFFICES ASSUME NEW p \in Doing("copy"), pc = [p EXCEPT ![3] = @ + 1] PROVE FALSE
      OBVIOUS
    <3>1. p = <<p[1], p[2], p[3]>> /\ p[3] \in Nat /\ p[3] >= 1
      BY PartsOf, OneDoes
    <3> QED
      BY <1>1, <3>1
  <2> QED
    BY <1>1, <2>1 DEF MigrateInv, OpenFits, CopiesAreHeld
<1>10. ~open => Rests(db)'
  BY <1>1 DEF MigrateInv, Rests, PassedAreMade, GuardsLead, CopiesAreDue, RowsFit
<1> QED
  BY <1>1, <1>8, <1>9, <1>10 DEF MigrateInv, MigrateTypeOK, StartFits, SaltsAreFilled,
     RefusedStartsAreKnown

\* A statement takes its part of the schema and the rows with it.

\* What the statements that take effect have in common.
Advances ==
    /\ AtBlock /\ ~Skipped /\ pc' = NextStep
    /\ boot' = boot /\ start' = start /\ boots' = boots
    /\ db' \in Databases /\ saved' \in Databases /\ open' \in BOOLEAN
    /\ db'.at = db.at
    /\ db'.has = IF pc \in Making THEN db.has \cup {StmtAt(pc).made} ELSE db.has
    /\ ~open' => ~open /\ db'.rows = db.rows /\ CopiesAreDue(db)'
    /\ open' => Rests(saved)' /\ saved'.at = start.at /\ RowsFit(db)' /\ CopiesAreHeld'
    /\ "workbook" \in db'.rows => "workbook" \in db.rows
    /\ "salt" \in db.rows => "salt" \in db'.rows
    /\ pc \in Doing("fill") /\ "workbook" \in db.rows => "salt" \in db'.rows

\* A statement that took effect, whichever it was.
LEMMA AdvanceFits ==
  ASSUME MigrateInv, Advances
  PROVE  MigrateInv'
<1>1. /\ Running /\ boot = "running" /\ boot' = "running" /\ boots \in Nat /\ boots > 0
      /\ start' = start /\ boots' = boots
  BY DEF Advances, AtBlock, Running, MigrateInv, MigrateTypeOK, UpgradeFits
<1>2. /\ pc \in Stmts /\ pc' = Following(pc) /\ Block.unless = Guard(pc)
  BY HereAtBlock DEF Advances
<1>3. \A p \in Stmts : Before(p, pc') <=> Before(p, pc) \/ p = pc
  BY <1>2, PassOne
<1>4. /\ pc[1] \in 1..Newest /\ Newest \in Nat /\ pc[1] = db.at + 1 /\ start.at <= db.at
      /\ start.at < Newest
  BY <1>1, Here
<1>5. /\ pc' \in Nat \X Nat \X Nat
      /\ pc'[1] = pc[1] /\ pc'[2] >= 1 /\ pc'[2] <= Len(Chain[pc[1]]) + 1
      /\ pc'[2] <= Len(Chain[pc[1]]) => pc' \in Stmts
      /\ pc' \in Stmts \/ pc'[3] = 1
      /\ pc'[3] > 1 => pc' = [pc EXCEPT ![3] = @ + 1] /\ pc'[2] = pc[2] /\ pc'[3] = pc[3] + 1
  BY <1>2, FollowingFits
<1>6. PlaceFits(pc)'
  BY <1>4, <1>5 DEF PlaceFits
<1>7. /\ \A x : x \in db.has => x \in db'.has
      /\ \A x : x \in db'.has => x \in db.has \/ (pc \in Making /\ x = StmtAt(pc).made)
      /\ pc \in Making => StmtAt(pc).made \in db'.has
  BY DEF Advances
<1>8. PassedAreMade(db, pc) /\ GuardsLead(db) /\ AheadIsNew /\ (boots = 1 => FirstBootFits)
  BY <1>1 DEF MigrateInv, UpgradeFits
<1>9. PassedAreMade(db, pc)'
  <2> SUFFICES ASSUME NEW p \in Making, Before(p, pc')
               PROVE  StmtAt(p).made \in db'.has \/ (boots > 1 /\ StmtAt(p).made \in Followers)
    BY <1>1 DEF PassedAreMade
  <2> QED
    BY <1>3, <1>7, <1>8, OneDoes DEF PassedAreMade
<1>10. ASSUME NEW p \in Making, StmtAt(p).made \in db'.has
       PROVE  StmtAt(p).made \in db.has \/ p = pc
  BY <1>7, <1>10, OneMakes
<1>11. GuardsLead(db)'
  <2> SUFFICES ASSUME NEW p \in Making, Guard(p) # "nothing", StmtAt(p).made \in db'.has
               PROVE  Guard(p) \in db'.has
    BY DEF GuardsLead
  <2>1. CASE StmtAt(p).made \in db.has
    BY <1>7, <1>8, <2>1 DEF GuardsLead
  <2>2. CASE p = pc
    <3>1. p \in Stmts
      BY OneDoes
    <3>2. PICK h : IsHead(h, p)
      BY <3>1, HeadOf
    <3>3. CASE h = p
      BY <3>2, <3>3 DEF IsHead
    <3>4. CASE Before(h, pc)
      BY <1>7, <1>8, <2>2, <3>2, <3>4, PassedHeads
    <3> QED
      BY <2>2, <3>2, <3>3, <3>4, HeadComesFirst
  <2> QED
    BY <1>10, <2>1, <2>2
<1>12. AheadIsNew'
  <2> SUFFICES ASSUME pc'[3] > 1, NEW p \in Doing("make"), p[1] = pc'[1], p[2] = pc'[2],
                      p[3] >= pc'[3], Guard(p) # "nothing"
               PROVE  StmtAt(p).made \notin db'.has
    BY DEF AheadIsNew
  <2>1. /\ p[1] = pc[1] /\ p[2] = pc[2] /\ p[3] >= pc[3] + 1 /\ pc[3] \in Nat /\ p[3] \in Nat
        /\ pc[3] >= 1 /\ p \in Making /\ p # pc /\ Guard(p) = Guard(pc)
    <3>1. p \in Stmts /\ p \in Making
      BY OneDoes
    <3>2. pc[3] \in Nat /\ p[3] \in Nat /\ pc[3] >= 1
      BY <1>2, <3>1, PartsOf
    <3> QED
      BY <1>5, <3>1, <3>2 DEF Guard
  <2>2. StmtAt(p).made \notin db.has
    <3>1. CASE pc[3] > 1
      BY <1>8, <2>1, <3>1 DEF AheadIsNew
    <3>2. CASE pc[3] = 1
      <4>1. Guard(p) \notin db.has
        BY <1>2, <2>1, <3>2 DEF Advances, Skipped
      <4> QED
        BY <1>8, <2>1, <4>1 DEF GuardsLead
    <3> QED
      BY <2>1, <3>1, <3>2
  <2> QED
    BY <1>10, <2>1, <2>2
<1>13. ASSUME boots = 1
       PROVE  FirstBootFits'
  <2>1. ASSUME NEW p \in Making, StmtAt(p).made \in db'.has
        PROVE  p[1] <= start.at \/ Before(p, pc')
    BY <1>3, <1>8, <1>10, <1>13, <2>1, OneDoes DEF FirstBootFits
  <2>2. ASSUME NEW p \in Doing("fill"), Before(p, pc'), "workbook" \in db'.rows
        PROVE  "salt" \in db'.rows
    BY <1>3, <1>8, <1>13, <2>2, OneDoes DEF FirstBootFits, Advances
  <2> QED
    BY <1>1, <2>1, <2>2 DEF FirstBootFits
<1>14. UpgradeFits'
  <2>1. pc'[1] = db'.at + 1 /\ start'.at <= db'.at
    BY <1>1, <1>4, <1>5 DEF Advances
  <2> QED
    BY <1>1, <1>6, <1>9, <1>11, <1>12, <1>13, <2>1 DEF UpgradeFits
<1>15. OpenFits'
  BY <1>1, <1>4 DEF OpenFits, Advances
<1>16. ~open' => Rests(db)'
  <2> SUFFICES ASSUME ~open' PROVE Rests(db)'
    OBVIOUS
  <2>1. Rests(db) /\ db'.rows = db.rows /\ CopiesAreDue(db)' /\ db'.at = db.at
    BY DEF MigrateInv, Advances
  <2>2. PassedAreMade(db, <<db.at + 1, 1, 1>>)'
    BY <1>1, <1>7, <2>1 DEF Rests, PassedAreMade
  <2> QED
    BY <1>1, <1>11, <2>1, <2>2 DEF Rests, RowsFit
<1>17. MigrateTypeOK' /\ StartFits'
  BY <1>1 DEF MigrateInv, MigrateTypeOK, StartFits, Advances
<1> QED
  BY <1>1, <1>14, <1>15, <1>16, <1>17 DEF MigrateInv, SaltsAreFilled, RefusedStartsAreKnown

\* Only a swap has a copy just before it.
LEMMA NoCopyPending ==
  ASSUME NEW q \in Stmts, StmtAt(q).do # "swap"
  PROVE  \A p \in Doing("copy") : q # [p EXCEPT ![3] = @ + 1]
<1> SUFFICES ASSUME NEW p \in Doing("copy"), q = [p EXCEPT ![3] = @ + 1] PROVE FALSE
  OBVIOUS
<1>1. q \in Doing("swap")
  BY ChainAssumption DEF StepsGoTogether
<1> QED
  BY <1>1, OneDoes

\* After a copy comes the next step of its block.
LEMMA CopyGoesOn ==
  ASSUME NEW q \in Doing("copy")
  PROVE  Following(q) = [q EXCEPT ![3] = @ + 1]
<1>1. q \in Stmts /\ [q EXCEPT ![3] = @ + 1] \in Stmts
  BY ChainAssumption, OneDoes DEF StepsGoTogether
<1>2. [q EXCEPT ![3] = @ + 1] = <<q[1], q[2], q[3] + 1>>
  BY <1>1, PartsOf
<1>3. <<q[1], q[2], q[3] + 1>> \in Stmts
  BY <1>1, <1>2
<1> DEFINE last == Len(Chain[q[1]][q[2]].steps)
           next == <<q[1], q[2], q[3] + 1>>
<1>4. next[3] \in 1..Len(Chain[next[1]][next[2]].steps)
  <2> HIDE DEF next, last
  <2> QED
    BY <1>3, PartsOf DEF next
<1>5. q[3] + 1 \in 1..last /\ last \in Nat /\ q[3] \in Nat
  BY <1>1, <1>4, PartsOf
<1>6. q[3] < last
  <2> HIDE DEF last
  <2> QED
    BY <1>5
<1> QED
  BY <1>2, <1>6 DEF Following

\* A statement that changes the schema.
LEMMA ChangeSchemaFits ==
  ASSUME MigrateInv, ChangeSchema
  PROVE  MigrateInv'
<1>1. AtBlock /\ ~Skipped /\ Running /\ boot = "running"
  BY DEF ChangeSchema, AtBlock, Running
<1>2. /\ pc \in Stmts /\ Current = StmtAt(pc) /\ Block.unless = Guard(pc)
      /\ NextStep = Following(pc)
  BY <1>1, HereAtBlock
<1>3. /\ pc[1] \in 1..Newest /\ Newest \in Nat /\ db.at \in Nat /\ start.at \in Nat
      /\ pc[1] = db.at + 1 /\ start.at <= db.at /\ start.at < Newest
      /\ ~open => db.at = start.at
  BY <1>1, Here
<1>4. db \in Databases /\ saved \in Databases /\ open \in BOOLEAN /\ boots \in Nat /\ boots > 0
  BY <1>1 DEF MigrateInv, MigrateTypeOK, UpgradeFits
<1>5. UpgradeFits /\ OpenFits /\ boot = "running"
  BY <1>1 DEF MigrateInv
<1>6. open => Rests(saved) /\ saved.at = start.at /\ RowsFit(db) /\ CopiesAreHeld
  BY <1>5 DEF OpenFits
<1>7. ~open => Rests(db)
  BY DEF MigrateInv
<1>8. ASSUME Current.do = "make", Current.made \in db.has, Refuse
      PROVE  MigrateInv'
  <2>1. pc \in Making /\ pc \in Doing("make")
    BY <1>2, <1>8, OneDoes
  <2>2. Guard(pc) = "nothing"
    <3> SUFFICES ASSUME Guard(pc) # "nothing" PROVE FALSE
      OBVIOUS
    <3>1. pc[3] \in Nat /\ pc[3] >= 1
      BY <1>2, PartsOf
    <3>2. CASE pc[3] > 1
      BY <1>2, <1>5, <1>8, <2>1, <3>1, <3>2 DEF UpgradeFits, AheadIsNew
    <3>3. CASE pc[3] = 1
      <4>1. Guard(pc) \notin db.has
        BY <1>1, <1>2, <3>3 DEF Skipped
      <4> QED
        BY <1>2, <1>5, <1>8, <2>1, <4>1 DEF UpgradeFits, GuardsLead
    <3> QED
      BY <3>1, <3>2, <3>3
  <2>3. pc[1] = 1
    BY <1>2, <1>8, <2>2, ChainAssumption DEF BlocksAreGuarded
  <2>4. db.at = 0 /\ start.at = 0
    BY <1>3, <2>3
  <2>5. boots # 1
    <3> SUFFICES ASSUME boots = 1 PROVE FALSE
      OBVIOUS
    <3>1. pc[1] <= start.at \/ Before(pc, pc)
      BY <1>2, <1>5, <1>8, <2>1 DEF UpgradeFits, FirstBootFits
    <3>2. pc[2] \in Nat /\ pc[3] \in Nat
      BY <1>2, PartsOf
    <3> QED
      BY <2>3, <2>4, <3>1, <3>2 DEF Before
  <2>6. db'.at = 0 /\ boots' > 1
    BY <1>4, <1>6, <1>8, <2>4, <2>5 DEF Refuse
  <2>7. RefusedStartsAreKnown'
    BY <2>6 DEF RefusedStartsAreKnown
  <2> QED
    BY <1>5, <1>8, <2>7, RefuseFits
<1>9. ASSUME Current.do = "copy", Current.on \in db.copies, Refuse
      PROVE  MigrateInv'
  <2>1. pc \in Doing("copy")
    BY <1>2, <1>9, OneDoes
  <2>2. db'.at + 1 = pc[1] /\ StmtAt(pc).on \in db'.copies
    <3>1. CASE open
      <4>1. StmtAt(pc).on \in saved.copies
        BY <1>2, <1>6, <1>9, <3>1, NoCopyPending DEF CopiesAreHeld
      <4>2. pc[1] <= saved.at + 1
        BY <1>6, <2>1, <3>1, <4>1 DEF Rests, CopiesAreDue
      <4> QED
        BY <1>3, <1>6, <1>9, <3>1, <4>1, <4>2 DEF Refuse
    <3>2. CASE ~open
      BY <1>2, <1>3, <1>9, <3>2 DEF Refuse
    <3> QED
      BY <3>1, <3>2
  <2>3. RefusedStartsAreKnown'
    BY <2>1, <2>2 DEF RefusedStartsAreKnown
  <2> QED
    BY <1>5, <1>9, <2>3, RefuseFits
<1>10. ASSUME pc' = NextStep, UNCHANGED <<boot, saved, open, start, boots>>
       PROVE  /\ open => Rests(saved)' /\ saved'.at = start.at
              /\ RowsFit(db) /\ db'.rows = db.rows => RowsFit(db)'
  BY <1>6, <1>10 DEF Rests, PassedAreMade, GuardsLead, CopiesAreDue, RowsFit
<1>11. ASSUME Current.do = "make", pc' = NextStep, UNCHANGED <<boot, saved, open, start, boots>>,
              db' = [db EXCEPT !.has = @ \cup {Current.made}]
       PROVE  MigrateInv'
  <2>1. pc \in Making /\ pc \notin Doing("fill") /\ StmtAt(pc).do # "swap"
    BY <1>2, <1>11, OneDoes
  <2>2. /\ db'.at = db.at /\ db'.rows = db.rows /\ db'.copies = db.copies
        /\ db'.has = db.has \cup {StmtAt(pc).made} /\ db' \in Databases
    <3>1. StmtAt(pc).made \in Objects
      BY <2>1 DEF Objects, MadeAt
    <3> QED
      BY <1>2, <1>4, <1>11, <3>1 DEF Databases
  <2>3. open => CopiesAreHeld'
    BY <1>2, <1>6, <1>11, <2>1, <2>2, NoCopyPending DEF CopiesAreHeld
  <2>4. ~open => CopiesAreDue(db)'
    BY <1>7, <2>2 DEF Rests, CopiesAreDue
  <2>5. Advances
    BY <1>1, <1>4, <1>6, <1>10, <1>11, <2>1, <2>2, <2>3, <2>4 DEF Advances
  <2> QED
    BY <2>5, AdvanceFits
<1>12. ASSUME Current.do = "copy", pc' = NextStep, UNCHANGED <<boot, saved, open, start, boots>>,
              db' = [db EXCEPT !.copies = @ \cup {Current.on}]
       PROVE  MigrateInv'
  <2>1. /\ pc \notin Making /\ pc \notin Doing("fill") /\ StmtAt(pc).do # "swap"
        /\ pc \in Doing("copy")
    BY <1>2, <1>12, OneDoes
  <2>2. /\ db'.at = db.at /\ db'.rows = db.rows /\ db'.has = db.has
        /\ db'.copies = db.copies \cup {StmtAt(pc).on} /\ db' \in Databases
    BY <1>2, <1>4, <1>12 DEF Databases
  <2>3. open => CopiesAreHeld'
    <3>1. pc' = [pc EXCEPT ![3] = @ + 1]
      BY <1>2, <1>12, <2>1, CopyGoesOn
    <3> QED
      BY <1>2, <1>6, <1>12, <2>1, <2>2, <3>1, NoCopyPending DEF CopiesAreHeld
  <2>4. ~open => CopiesAreDue(db)'
    <3> SUFFICES ASSUME ~open, NEW p \in Doing("copy"), StmtAt(p).on \in db'.copies
                 PROVE  p[1] <= db.at + 1
      BY <2>2 DEF CopiesAreDue
    <3>1. CASE StmtAt(p).on \in db.copies
      BY <1>7, <3>1 DEF Rests, CopiesAreDue
    <3>2. CASE StmtAt(p).on = StmtAt(pc).on
      <4>1. p = pc
        BY <2>1, <3>2, ChainAssumption DEF MadeOnce
      <4> QED
        BY <1>3, <4>1
    <3> QED
      BY <2>2, <3>1, <3>2
  <2>5. Advances
    BY <1>1, <1>4, <1>6, <1>10, <1>12, <2>1, <2>2, <2>3, <2>4 DEF Advances
  <2> QED
    BY <2>5, AdvanceFits
<1>13. ASSUME Current.do = "discard", pc' = NextStep,
              UNCHANGED <<boot, saved, open, start, boots>>,
              db' = [db EXCEPT !.copies = @ \ {Current.on}]
       PROVE  MigrateInv'
  <2>1. pc \notin Making /\ pc \notin Doing("fill") /\ StmtAt(pc).do # "swap"
    BY <1>2, <1>13, OneDoes
  <2>2. /\ db'.at = db.at /\ db'.rows = db.rows /\ db'.has = db.has
        /\ db'.copies \subseteq db.copies /\ db' \in Databases
    BY <1>2, <1>4, <1>13 DEF Databases
  <2>3. open => CopiesAreHeld'
    BY <1>2, <1>6, <1>13, <2>1, <2>2, NoCopyPending DEF CopiesAreHeld
  <2>4. ~open => CopiesAreDue(db)'
    BY <1>7, <2>2 DEF Rests, CopiesAreDue
  <2>5. Advances
    BY <1>1, <1>4, <1>6, <1>10, <1>13, <2>1, <2>2, <2>3, <2>4 DEF Advances
  <2> QED
    BY <2>5, AdvanceFits
<1> QED
  BY <1>8, <1>9, <1>11, <1>12, <1>13 DEF ChangeSchema, Change

\* What a statement finds when it opens the transaction, or when one is open.
LEMMA WrittenFits ==
  ASSUME MigrateInv, Running, NEW to, Written(to)
  PROVE  /\ db' = to /\ open' = TRUE /\ boot' = boot /\ start' = start /\ boots' = boots
         /\ saved' \in Databases /\ Rests(saved)' /\ saved'.at = start.at
         /\ \A t \in db.copies : \/ t \in saved'.copies
                                 \/ \E p \in Doing("copy") : /\ StmtAt(p).on = t
                                                             /\ pc = [p EXCEPT ![3] = @ + 1]
<1>1. /\ db' = to /\ open' = TRUE /\ boot' = boot /\ start' = start /\ boots' = boots
      /\ saved' = IF open THEN saved ELSE db
  BY DEF Written
<1>2. CASE open
  <2>1. saved' = saved /\ Rests(saved) /\ saved.at = start.at /\ CopiesAreHeld
    BY <1>1, <1>2 DEF MigrateInv, OpenFits
  <2>2. Rests(saved)'
    BY <1>1, <2>1 DEF Rests, PassedAreMade, GuardsLead, CopiesAreDue, RowsFit
  <2>3. saved' \in Databases
    BY <2>1 DEF MigrateInv, MigrateTypeOK
  <2> QED
    BY <1>1, <2>1, <2>2, <2>3 DEF CopiesAreHeld
<1>3. CASE ~open
  <2>1. saved' = db /\ Rests(db) /\ db.at = start.at
    BY <1>1, <1>3, Here DEF MigrateInv
  <2>2. Rests(saved)'
    BY <1>1, <2>1 DEF Rests, PassedAreMade, GuardsLead, CopiesAreDue, RowsFit
  <2>3. saved' \in Databases
    BY <2>1 DEF MigrateInv, MigrateTypeOK
  <2> QED
    BY <1>1, <2>1, <2>2, <2>3
<1> QED
  BY <1>2, <1>3

\* What the rows may have become, whether a transaction is open or not.
LEMMA RowsNow ==
  ASSUME MigrateInv
  PROVE  RowsFit(db)
  BY DEF MigrateInv, OpenFits, Rests, MigrateTypeOK

\* A statement that changes rows.
LEMMA ChangeRowsFits ==
  ASSUME MigrateInv, ChangeRows
  PROVE  MigrateInv'
<1>1. AtBlock /\ ~Skipped /\ Running /\ boot = "running"
  BY DEF ChangeRows, AtBlock, Running
<1>2. /\ pc \in Stmts /\ Current = StmtAt(pc) /\ NextStep = Following(pc)
  BY <1>1, HereAtBlock
<1>3. /\ pc[1] \in 1..Newest /\ Newest \in Nat /\ db.at \in Nat /\ start.at \in Nat
      /\ pc[1] = db.at + 1 /\ start.at <= db.at
  BY <1>1, Here
<1>4. db \in Databases /\ saved \in Databases /\ RowsFit(db) /\ open \in BOOLEAN
  BY RowsNow DEF MigrateInv, MigrateTypeOK
<1>5. ASSUME StmtAt(pc).do \in {"insert", "fill", "dedup"}, pc' = NextStep, NEW rows,
             rows \subseteq RowKinds, Written([db EXCEPT !.rows = rows]),
             rows \ start.rows \subseteq {"salt"} \cup MadeAt(Doing("insert")),
             start.rows \ rows \subseteq (start.rows \ db.rows) \cup {"pair"},
             "workbook" \in rows => "workbook" \in db.rows,
             "salt" \in db.rows => "salt" \in rows,
             StmtAt(pc).do = "fill" => "salt" \in rows
      PROVE  MigrateInv'
  <2>1. /\ db' = [db EXCEPT !.rows = rows] /\ open' = TRUE /\ boot' = boot /\ start' = start
        /\ boots' = boots /\ saved' \in Databases /\ Rests(saved)' /\ saved'.at = start.at
        /\ \A t \in db.copies : \/ t \in saved'.copies
                                \/ \E p \in Doing("copy") : /\ StmtAt(p).on = t
                                                            /\ pc = [p EXCEPT ![3] = @ + 1]
    BY <1>1, <1>5, WrittenFits
  <2>2. /\ db'.at = db.at /\ db'.rows = rows /\ db'.has = db.has /\ db'.copies = db.copies
        /\ db' \in Databases
    BY <1>4, <1>5, <2>1 DEF Databases
  <2>3. pc \notin Making
    BY <1>5, OneDoes
  <2>4. CopiesAreHeld'
    BY <1>2, <1>5, <2>1, <2>2, NoCopyPending DEF CopiesAreHeld
  <2>5. RowsFit(db)'
    <3>1. "tag" \in start.rows \ rows => "tag" \in start.rows \ db.rows
      BY <1>5
    <3> QED
      BY <1>4, <1>5, <2>1, <2>2, <3>1 DEF RowsFit
  <2>6. pc \in Doing("fill") => "salt" \in db'.rows
    BY <1>5, <2>2, OneDoes
  <2>7. Advances
    BY <1>1, <1>5, <2>1, <2>2, <2>3, <2>4, <2>5, <2>6 DEF Advances
  <2> QED
    BY <2>7, AdvanceFits
<1>6. ASSUME StmtAt(pc).do \in {"fill", "dedup"}, pc' = NextStep,
             UNCHANGED <<boot, db, saved, open, start, boots>>,
             StmtAt(pc).do = "fill" => "workbook" \notin db.rows
      PROVE  MigrateInv'
  <2>1. pc \notin Making /\ StmtAt(pc).do # "swap"
    BY <1>6, OneDoes
  <2>2. open => Rests(saved)' /\ saved'.at = start.at /\ CopiesAreHeld
    BY <1>6 DEF MigrateInv, OpenFits, Rests, PassedAreMade, GuardsLead, CopiesAreDue, RowsFit
  <2>3. open => CopiesAreHeld'
    BY <1>2, <1>6, <2>1, <2>2, NoCopyPending DEF CopiesAreHeld
  <2>4. ~open => CopiesAreDue(db)'
    BY <1>6 DEF MigrateInv, Rests, CopiesAreDue
  <2>5. RowsFit(db)'
    BY <1>4, <1>6 DEF RowsFit
  <2>6. pc \in Doing("fill") => "workbook" \notin db.rows
    BY <1>6, OneDoes
  <2>7. Advances
    BY <1>1, <1>4, <1>6, <2>1, <2>2, <2>3, <2>4, <2>5, <2>6 DEF Advances
  <2> QED
    BY <2>7, AdvanceFits
<1>7. CASE Current.do = "insert" /\ Written([db EXCEPT !.rows = @ \cup {Current.made}])
            /\ pc' = NextStep
  <2> DEFINE rows == db.rows \cup {StmtAt(pc).made}
  <2>1. pc \in Doing("insert")
    BY <1>2, <1>7, OneDoes
  <2>2. StmtAt(pc).made \in MadeAt(Doing("insert"))
    BY <2>1 DEF MadeAt
  <2>3. StmtAt(pc).made # "workbook"
    BY <2>1, Names
  <2>4. rows \subseteq RowKinds
    BY <1>4, <2>2 DEF RowKinds, Databases
  <2>5. rows \ start.rows \subseteq {"salt"} \cup MadeAt(Doing("insert"))
    BY <1>4, <2>2 DEF RowsFit
  <2>6. Written([db EXCEPT !.rows = rows])
    BY <1>2, <1>7
  <2> QED
    BY <1>2, <1>5, <1>7, <2>3, <2>4, <2>5, <2>6
<1>8. CASE Current.do = "fill" /\ pc' = NextStep
  <2>1. CASE "workbook" \in db.rows
    <3> DEFINE rows == db.rows \cup {"salt"}
    <3>1. rows \subseteq RowKinds
      BY <1>4 DEF RowKinds, Databases
    <3>2. rows \ start.rows \subseteq {"salt"} \cup MadeAt(Doing("insert"))
      BY <1>4 DEF RowsFit
    <3>3. Written([db EXCEPT !.rows = rows])
      BY <1>8, <2>1 DEF ChangeRows
    <3> QED
      BY <1>2, <1>5, <1>8, <2>1, <3>1, <3>2, <3>3
  <2>2. CASE "workbook" \notin db.rows
    BY <1>2, <1>6, <1>8, <2>2 DEF ChangeRows
  <2> QED
    BY <2>1, <2>2
<1>9. CASE Current.do = "dedup"
  <2>1. CASE "pairtrace" \in db.rows
    <3>1. Refuse
      BY <1>9, <2>1 DEF ChangeRows
    <3>2. "pairtrace" \in start.rows
      <4>1. "pairtrace" \in DOMAIN Needs
        BY Names
      <4> QED
        BY <1>4, <2>1, <4>1, Names DEF RowsFit, MadeAt
    <3>3. pc \in Doing("dedup") /\ pc[1] > start.at
      BY <1>2, <1>3, <1>9, OneDoes
    <3>4. RefusedStartsAreKnown'
      BY <3>1, <3>2, <3>3 DEF RefusedStartsAreKnown, Refuse
    <3> QED
      BY <1>1, <3>1, <3>4, RefuseFits
  <2>2. CASE "pairtrace" \notin db.rows
    <3>1. pc' = NextStep
      BY <1>9, <2>2 DEF ChangeRows
    <3>2. CASE "pair" \in db.rows
      <4> DEFINE rows == db.rows \ {"pair"}
      <4>1. rows \subseteq RowKinds
        BY <1>4 DEF Databases
      <4>2. rows \ start.rows \subseteq {"salt"} \cup MadeAt(Doing("insert"))
        BY <1>4 DEF RowsFit
      <4>3. Written([db EXCEPT !.rows = rows])
        BY <1>9, <2>2, <3>2 DEF ChangeRows
      <4> QED
        BY <1>2, <1>5, <1>9, <3>1, <4>1, <4>2, <4>3
    <3>3. CASE "pair" \notin db.rows
      BY <1>2, <1>6, <1>9, <2>2, <3>1, <3>3 DEF ChangeRows
    <3> QED
      BY <3>2, <3>3
  <2> QED
    BY <2>1, <2>2
<1> QED
  BY <1>7, <1>8, <1>9 DEF ChangeRows

\* Whenever evidence is built anew, its links go with it.
LEMMA LinksGo ==
  ASSUME MigrateInv, Running, pc \in Doing("swap"), StmtAt(pc).on = "evidence"
  PROVE  Going(db, "evidence") = {"tag"}
<1>1. PICK q \in Making : /\ q[1] < pc[1] /\ StmtAt(q).made = Guard(q)
                          /\ Guard(q) = "evidence cascades"
  BY ChainAssumption DEF DataFits
<1>2. Before(q, pc)
  BY <1>1 DEF Before
<1>3. "evidence cascades" \in db.has
  BY <1>1, <1>2, HeadsAreKept DEF MigrateInv, UpgradeFits, PassedAreMade, Running
<1> QED
  BY <1>3 DEF Going

\* The end of a rebuild.
LEMMA SwapFits ==
  ASSUME MigrateInv, Swap
  PROVE  MigrateInv'
<1>1. AtBlock /\ ~Skipped /\ Running /\ boot = "running"
  BY DEF Swap, AtBlock, Running
<1>2. /\ pc \in Stmts /\ Current = StmtAt(pc) /\ NextStep = Following(pc)
  BY <1>1, HereAtBlock
<1>3. /\ pc[1] \in 1..Newest /\ Newest \in Nat /\ db.at \in Nat /\ start.at \in Nat
      /\ pc[1] = db.at + 1 /\ start.at <= db.at
  BY <1>1, Here
<1>4. db \in Databases /\ saved \in Databases /\ RowsFit(db)
  BY RowsNow DEF MigrateInv, MigrateTypeOK
<1> DEFINE on == StmtAt(pc).on
           lost == Going(db, on)
<1>5. pc \in Doing("swap") /\ pc \in Making /\ pc \notin Doing("fill")
  BY <1>2, OneDoes DEF Swap
<1>6. lost \subseteq {"tag"} /\ (lost # {} => on = "evidence")
  BY DEF Going
<1>7. on = "evidence" => lost = {"tag"}
  BY <1>1, <1>5, LinksGo
<1>8. CASE (NamedBy(on) \ lost) \cap db.rows # {}
  <2>1. Refuse
    BY <1>2, <1>8 DEF Swap
  <2>2. PICK x \in NamedBy(on) \ lost : x \in db.rows
    BY <1>8
  <2>3. x \in DOMAIN Needs
    BY <2>2 DEF NamedBy
  <2>4. x \in start.rows
    BY <1>4, <2>2, <2>3, Names DEF RowsFit, MadeAt
  <2>5. x \in (IF on = "evidence" THEN NamedBy(on) \ {"tag"} ELSE NamedBy(on)) \cap start.rows
    BY <1>7, <2>2, <2>4
  <2>6. pc[1] > start.at
    BY <1>3
  <2>7. RefusedStartsAreKnown'
    <3> HIDE DEF lost
    <3> QED
      BY <1>5, <2>1, <2>5, <2>6 DEF RefusedStartsAreKnown, Refuse
  <2> QED
    BY <1>1, <2>1, <2>7, RefuseFits
<1>9. CASE ~((NamedBy(on) \ lost) \cap db.rows # {})
  <2> DEFINE to == [db EXCEPT !.rows = @ \ lost, !.copies = @ \ {on},
                              !.has = @ \cup {StmtAt(pc).made}]
  <2>1. Written(to) /\ pc' = NextStep
    BY <1>2, <1>9 DEF Swap
  <2>2. /\ to.at = db.at /\ to.rows = db.rows \ lost /\ to.copies = db.copies \ {on}
        /\ to.has = db.has \cup {StmtAt(pc).made} /\ to \in Databases
    <3>1. StmtAt(pc).made \in Objects
      BY <1>5 DEF Objects, MadeAt
    <3> HIDE DEF lost
    <3> QED
      BY <1>4, <3>1 DEF Databases
  <2> HIDE DEF to, lost
  <2>3. /\ db' = to /\ open' = TRUE /\ boot' = boot /\ start' = start
        /\ boots' = boots /\ saved' \in Databases /\ Rests(saved)' /\ saved'.at = start.at
        /\ \A t \in db.copies : \/ t \in saved'.copies
                                \/ \E p \in Doing("copy") : /\ StmtAt(p).on = t
                                                            /\ pc = [p EXCEPT ![3] = @ + 1]
    BY <1>1, <2>1, WrittenFits
  <2>4. \A p \in Doing("copy") : pc = [p EXCEPT ![3] = @ + 1] => StmtAt(p).on = on
    BY ChainAssumption DEF StepsGoTogether
  <2>5. CopiesAreHeld'
    <3> SUFFICES ASSUME NEW t \in db'.copies PROVE t \in saved'.copies
      BY DEF CopiesAreHeld
    <3>1. t \in db.copies /\ t # on
      BY <2>2, <2>3
    <3> QED
      BY <2>3, <2>4, <3>1
  <2>6. RowsFit(db)'
    <3>1. /\ to.rows \ start.rows \subseteq {"salt"} \cup MadeAt(Doing("insert"))
          /\ start.rows \ to.rows \subseteq {"tag", "pair"}
      BY <1>4, <1>6, <2>2 DEF RowsFit
    <3>2. "tag" \in start.rows \ to.rows =>
             \E p \in Doing("swap") : p[1] > start.at /\ StmtAt(p).on = "evidence"
      <4>1. CASE lost = {}
        BY <1>4, <2>2, <4>1 DEF RowsFit
      <4>2. CASE lost # {}
        <5>1. pc[1] > start.at
          BY <1>3
        <5> QED
          BY <1>5, <1>6, <4>2, <5>1
      <4> QED
        BY <4>1, <4>2
    <3> QED
      BY <2>3, <3>1, <3>2 DEF RowsFit
  <2>7. /\ "workbook" \in db'.rows => "workbook" \in db.rows
        /\ "salt" \in db.rows => "salt" \in db'.rows
    BY <1>6, <2>2, <2>3
  <2>8. Advances
    BY <1>1, <1>5, <2>1, <2>2, <2>3, <2>5, <2>6, <2>7 DEF Advances
  <2> QED
    BY <2>8, AdvanceFits
<1> QED
  BY <1>8, <1>9

\* A revision stamped as done.
LEMMA StampFits ==
  ASSUME MigrateInv, Stamp
  PROVE  MigrateInv'
<1>1. Running /\ boot = "running" /\ pc[2] > Len(Chain[pc[1]]) /\ pc' = <<pc[1] + 1, 1, 1>>
      /\ Written([db EXCEPT !.at = pc[1]])
  BY DEF Stamp, Running
<1>2. /\ pc[1] \in 1..Newest /\ Newest \in Nat /\ db.at \in Nat /\ start.at \in Nat
      /\ pc[1] = db.at + 1 /\ start.at <= db.at /\ start.at < Newest
  BY <1>1, Here
<1>3. /\ db' = [db EXCEPT !.at = pc[1]] /\ open' = TRUE /\ boot' = boot /\ start' = start
      /\ boots' = boots /\ saved' \in Databases /\ Rests(saved)' /\ saved'.at = start.at
      /\ \A t \in db.copies : \/ t \in saved'.copies
                              \/ \E p \in Doing("copy") : /\ StmtAt(p).on = t
                                                          /\ pc = [p EXCEPT ![3] = @ + 1]
  BY <1>1, WrittenFits
<1>4. db \in Databases /\ RowsFit(db) /\ UpgradeFits
  BY RowsNow DEF MigrateInv, MigrateTypeOK
<1>5. /\ db'.at = pc[1] /\ db'.rows = db.rows /\ db'.has = db.has /\ db'.copies = db.copies
      /\ db' \in Databases
  BY <1>2, <1>3, <1>4 DEF Databases
<1>6. PlaceFits(pc) /\ PassedAreMade(db, pc) /\ GuardsLead(db) /\ boots > 0
      /\ (boots = 1 => FirstBootFits)
  BY <1>1, <1>4 DEF UpgradeFits
<1>7. \A p \in Stmts : Before(p, pc') <=> Before(p, pc)
  BY <1>1, <1>2, <1>6, PassRevision DEF PlaceFits
<1>8. pc \notin Stmts
  <2>1. pc \in Stmts => pc[2] \in 1..Len(Chain[pc[1]]) /\ Len(Chain[pc[1]]) \in Nat
    BY PartsOf
  <2> QED
    BY <1>1, <2>1
<1>9. CopiesAreHeld'
  <2>1. \A p \in Doing("copy") : pc # [p EXCEPT ![3] = @ + 1]
    <3> SUFFICES ASSUME NEW p \in Doing("copy"), pc = [p EXCEPT ![3] = @ + 1] PROVE FALSE
      OBVIOUS
    <3>1. pc \in Stmts
      BY ChainAssumption, OneDoes DEF StepsGoTogether
    <3> QED
      BY <1>8, <3>1
  <2> QED
    BY <1>3, <1>5, <2>1 DEF CopiesAreHeld
<1>10. RowsFit(db)'
  BY <1>3, <1>4, <1>5 DEF RowsFit
<1>11. OpenFits'
  BY <1>1, <1>2, <1>3, <1>9, <1>10 DEF OpenFits
<1>12. PlaceFits(pc)'
  <2>1. pc[1] \in 0..Newest
    BY <1>2
  <2>2. PlaceFits(<<pc[1] + 1, 1, 1>>)
    BY <2>1, FirstPlaceFits
  <2> QED
    BY <1>1, <2>2
<1>13. PassedAreMade(db, pc)'
  BY <1>3, <1>5, <1>6, <1>7, OneDoes DEF PassedAreMade
<1>14. GuardsLead(db)' /\ AheadIsNew'
  BY <1>1, <1>5, <1>6 DEF GuardsLead, AheadIsNew
<1>15. boots = 1 => FirstBootFits'
  BY <1>3, <1>5, <1>6, <1>7, OneDoes DEF FirstBootFits
<1>16. UpgradeFits'
  <2>1. pc'[1] = db'.at + 1 /\ start'.at <= db'.at
    BY <1>1, <1>2, <1>3, <1>5
  <2> QED
    BY <1>3, <1>6, <1>12, <1>13, <1>14, <1>15, <2>1 DEF UpgradeFits
<1>17. MigrateTypeOK' /\ StartFits'
  BY <1>3, <1>5 DEF MigrateInv, MigrateTypeOK, StartFits
<1> QED
  BY <1>1, <1>3, <1>6, <1>11, <1>16, <1>17 DEF MigrateInv, SaltsAreFilled, RefusedStartsAreKnown

-----------------------------------------------------------------------------
(* The databases that upgrades start from *)

\* Every database that a start can find.
LEMMA InitFits == MigrateInit => MigrateInv
<1> SUFFICES ASSUME MigrateInit PROVE MigrateInv
  OBVIOUS
<1>1. /\ start = db /\ saved = db /\ boot = "off" /\ open = FALSE /\ boots = 0
      /\ db \in Released
  BY DEF MigrateInit
<1>2. Newest \in Nat /\ Newest > 0
  BY ChainAssumption, LenProperties DEF Newest
<1> DEFINE Good(d) ==
      /\ d \in Databases
      /\ \A p \in Making : /\ p[1] <= d.at => StmtAt(p).made \in d.has
                           /\ StmtAt(p).made \in d.has =>
                                 p[1] <= d.at \/ "alembic_version" \notin d.has
      /\ \A p \in Doing("fill") : p[1] <= d.at => "salt" \in d.rows
      /\ GuardsLead(d) /\ CopiesAreDue(d)
<1>3. \A p \in Stmts : p[1] \in Nat /\ p[1] >= 1 /\ p[1] <= Newest
  BY <1>2, PartsOf
<1>4. \A i : ObjectsAt(i) \subseteq Objects
  BY DEF ObjectsAt, Upto, MadeAt, Objects
<1>5. \A i : \A p \in Making : StmtAt(p).made \in ObjectsAt(i) <=> p[1] <= i
  BY OneMakes DEF ObjectsAt, Upto, MadeAt
<1>6. \A p \in Making : StmtAt(p).made # "alembic_version"
  BY OneMakes
<1>7. ASSUME NEW at \in 0..Newest, NEW copies, NEW rows,
             copies \subseteq {StmtAt(p).on : p \in Stmts}, rows \subseteq DOMAIN Needs,
             \A p \in Doing("copy") : StmtAt(p).on \in copies => p[1] <= at + 1
      PROVE  Good(Stamped(at, copies, rows))
  <2> DEFINE d == Stamped(at, copies, rows)
  <2>1. /\ d.at = at /\ d.has = ObjectsAt(at) \cup {"alembic_version"} /\ d.copies = copies
        /\ d.rows = rows \cup WrittenBy(at)
    BY DEF Holding, Stamped
  <2>2. WrittenBy(at) \subseteq RowKinds
    BY DEF WrittenBy, MadeAt, Upto, RowKinds
  <2>3. d \in Databases
    BY <1>4, <1>7, <2>2 DEF Databases, Holding, Stamped, Objects, RowKinds
  <2>4. \A p \in Making : StmtAt(p).made \in d.has <=> p[1] <= at
    BY <1>5, <1>6, <1>7, <2>1
  <2>5. \A p \in Doing("fill") : p[1] <= d.at => "salt" \in d.rows
    <3> SUFFICES ASSUME NEW p \in Doing("fill"), p[1] <= at PROVE "salt" \in WrittenBy(at)
      BY <2>1
    <3>1. p \in Upto(at, Doing("fill"))
      BY DEF Upto
    <3> QED
      BY <3>1 DEF WrittenBy
  <2>6. GuardsLead(d)
    <3> SUFFICES ASSUME NEW p \in Making, Guard(p) # "nothing", StmtAt(p).made \in d.has
                 PROVE  Guard(p) \in d.has
      BY DEF GuardsLead
    <3>1. p \in Stmts /\ StmtAt(p).do # "insert" /\ p[1] <= at
      BY <2>4, OneDoes
    <3>2. PICK h : IsHead(h, p)
      BY <3>1, HeadOf
    <3>3. h \in Making /\ h[1] <= at /\ StmtAt(h).made = Guard(p)
      BY <3>1, <3>2, HeadMakes DEF IsHead
    <3> QED
      BY <2>4, <3>3
  <2>7. CopiesAreDue(d)
    BY <1>7, <2>1 DEF CopiesAreDue
  <2> HIDE DEF d
  <2>8. Good(d)
    BY <2>1, <2>3, <2>4, <2>5, <2>6, <2>7
  <2> QED
    BY <2>8 DEF d
<1>8. Good(Holding(0, {}, {}, {}))
  <2> DEFINE d == Holding(0, {}, {}, {})
  <2>1. d.at = 0 /\ d.has = {} /\ d.copies = {} /\ d.rows = {} /\ d \in Databases
    BY <1>2 DEF Holding, Databases
  <2> HIDE DEF d
  <2>2. Good(d)
    BY <1>3, <2>1, OneDoes DEF GuardsLead, CopiesAreDue
  <2> QED
    BY <2>2 DEF d
<1>9. Good(Holding(0, ObjectsAt(1), {}, {"workbook"}))
  <2> DEFINE d == Holding(0, ObjectsAt(1), {}, {"workbook"})
  <2>1. d.at = 0 /\ d.has = ObjectsAt(1) /\ d.copies = {} /\ d.rows = {"workbook"}
    BY DEF Holding
  <2>2. d \in Databases
    BY <1>2, <1>4, Names DEF Holding, Databases, RowKinds
  <2>3. "alembic_version" \notin d.has
    BY <1>6, <2>1 DEF ObjectsAt, Upto, MadeAt
  <2>4. GuardsLead(d)
    <3> SUFFICES ASSUME NEW p \in Making, Guard(p) # "nothing", StmtAt(p).made \in d.has
                 PROVE  FALSE
      BY DEF GuardsLead
    <3>1. p \in Stmts /\ p[1] <= 1
      BY <1>5, <2>1, OneDoes
    <3>2. p[1] > 1
      BY <3>1, HeadOf
    <3> QED
      BY <1>3, <3>1, <3>2
  <2> HIDE DEF d
  <2>5. Good(d)
    BY <1>3, <2>1, <2>2, <2>3, <2>4, OneDoes DEF CopiesAreDue
  <2> QED
    BY <2>5 DEF d
<1>10. ASSUME NEW i \in 1..Newest, NEW rows \in Contents(i)
       PROVE  Good(Stamped(i, {}, rows))
  <2>1. rows \subseteq DOMAIN Needs
    BY DEF Contents
  <2>2. i \in 0..Newest
    BY <1>2
  <2> QED
    BY <1>7, <2>1, <2>2
<1>11. ASSUME NEW p \in Doing("discard")
       PROVE  Good(Stamped(p[1] - 1, {StmtAt(p).on}, {"workbook"}))
  <2>1. p \in Stmts
    BY OneDoes
  <2>2. p[1] - 1 \in 0..Newest
    BY <1>2, <1>3, <2>1
  <2>3. \A q \in Doing("copy") : StmtAt(q).on \notin {StmtAt(p).on}
    BY ChainAssumption DEF MadeOnce
  <2>4. {"workbook"} \subseteq DOMAIN Needs /\ {StmtAt(p).on} \subseteq {StmtAt(q).on : q \in Stmts}
    BY <2>1, Names
  <2> QED
    BY <1>7, <2>2, <2>3, <2>4
<1>12. Good(db)
  <2> HIDE DEF Good
  <2>1. \/ db = Holding(0, {}, {}, {})
        \/ db = Holding(0, ObjectsAt(1), {}, {"workbook"})
        \/ \E i \in 1..Newest : \E rows \in Contents(i) : db = Stamped(i, {}, rows)
        \/ \E p \in Doing("discard") : db = Stamped(p[1] - 1, {StmtAt(p).on}, {"workbook"})
    <3> DEFINE filled == UNION {{Stamped(i, {}, rows) : rows \in Contents(i)} : i \in 1..Newest}
               copied == {Stamped(p[1] - 1, {StmtAt(p).on}, {"workbook"}) : p \in Doing("discard")}
    <3>1. \/ db = Holding(0, {}, {}, {})
          \/ db = Holding(0, ObjectsAt(1), {}, {"workbook"})
          \/ db \in filled
          \/ db \in copied
      <4>1. Released = {Holding(0, {}, {}, {}), Holding(0, ObjectsAt(1), {}, {"workbook"})}
                       \cup filled \cup copied
        BY DEF Released
      <4>2. db \in Released
        BY <1>1
      <4> HIDE DEF filled, copied
      <4> QED
        BY <4>1, <4>2
    <3>2. db \in copied =>
             \E p \in Doing("discard") : db = Stamped(p[1] - 1, {StmtAt(p).on}, {"workbook"})
      OBVIOUS
    <3>3. db \in filled => \E i \in 1..Newest : \E rows \in Contents(i) : db = Stamped(i, {}, rows)
      OBVIOUS
    <3> HIDE DEF filled, copied
    <3> QED
      BY <3>1, <3>2, <3>3
  <2> QED
    BY <1>8, <1>9, <1>10, <1>11, <2>1
<1>13. Rests(db)
  <2>1. db.at \in Nat
    BY <1>2, <1>12 DEF Databases
  <2>2. PassedAreMade(db, <<db.at + 1, 1, 1>>)
    BY <1>12, <2>1, FirstPlace, OneDoes DEF PassedAreMade
  <2> QED
    BY <1>1, <1>12, <2>2 DEF Rests, RowsFit
<1>14. StartFits
  BY <1>1, <1>12 DEF StartFits
<1> QED
  BY <1>1, <1>12, <1>13, <1>14 DEF MigrateInv, MigrateTypeOK, OpenFits, UpgradeFits, SaltsAreFilled,
     RefusedStartsAreKnown

\* One step of an upgrade.
LEMMA StepFits == MigrateInv /\ [MigrateNext]_migrateVars => MigrateInv'
<1> SUFFICES ASSUME MigrateInv, [MigrateNext]_migrateVars PROVE MigrateInv'
  OBVIOUS
<1>1. CASE UNCHANGED migrateVars
  BY <1>1 DEF migrateVars, MigrateInv, MigrateTypeOK, StartFits, OpenFits, UpgradeFits, Rests,
     PassedAreMade, GuardsLead, CopiesAreDue, RowsFit, CopiesAreHeld, AheadIsNew, FirstBootFits,
     SaltsAreFilled, RefusedStartsAreKnown
<1> QED
  BY <1>1, BootFits, SkipFits, ChangeSchemaFits, ChangeRowsFits, SwapFits, StampFits, CommitFits,
     CrashFits DEF MigrateNext

\* The invariant is strong enough.
LEMMA MigrateInvIsSafe == MigrateInv => MigrationsSafe
<1> SUFFICES ASSUME MigrateInv PROVE MigrationsSafe
  OBVIOUS
<1>1. boot # "running" => Rests(db) /\ db.at \in Nat
  <2>1. Newest \in Nat /\ db.at \in 0..Newest
    BY ChainAssumption, LenProperties DEF Newest, MigrateInv, MigrateTypeOK, Databases
  <2> QED
    BY <2>1 DEF MigrateInv, OpenFits
<1>2. StampedIsMade
  <2> SUFFICES ASSUME boot # "running", NEW p \in Making, p[1] <= db.at,
                      StmtAt(p).made \notin db.has
               PROVE  boots > 1 /\ StmtAt(p).made \in Followers
    BY DEF StampedIsMade, ObjectsAt, Upto, MadeAt
  <2> QED
    BY <1>1, FirstPlace, OneDoes DEF Rests, PassedAreMade
<1>3. RowsLostAreKnown
  <2>1. RowsFit(db)
    BY RowsNow
  <2> QED
    BY <1>1, <2>1 DEF RowsLostAreKnown, RowsFit, Rests
<1> QED
  BY <1>2, <1>3 DEF MigrateInv, MigrationsSafe

(* Whatever revisions a release adds by the rules that ChainAssumption       *)
(* states, whatever release and rows a database comes from and however often *)
(* the sidecar starts and dies: what a stamp promises was made but for what  *)
(* followed in a block cut short, the salts are there after a start that ran *)
(* through, no rows go but for the known causes, and every refused start has *)
(* its reason (migrations.py, alembic/versions).                             *)
THEOREM UpgradesAreSafe == MigrateSpec => []MigrationsSafe
<1>1. MigrateInit => MigrateInv
  BY InitFits
<1>2. MigrateInv /\ [MigrateNext]_migrateVars => MigrateInv'
  BY StepFits
<1>3. MigrateInv => MigrationsSafe
  BY MigrateInvIsSafe
<1> QED
  BY <1>1, <1>2, <1>3, PTL DEF MigrateSpec
=============================================================================
