---------------------------- MODULE IntakeProofs ----------------------------
(***************************************************************************)
(* Theorems about what takes evidence in: the ingest-job registry, for     *)
(* every set of jobs and uploads, the walks of the connectors, for every   *)
(* content, page size and cap, the walk of an ingest over its files, for   *)
(* every shelf, batch size and cap, and the readers of SharePoint          *)
(* libraries, for every tree of folders and every answer of Graph.         *)
(***************************************************************************)
EXTENDS IngestJobs, SourceWalk, IngestWalk, GraphWalk, WellFoundedInduction, SequenceTheorems,
        FiniteSetTheorems, TLAPS

\* The strengthening that makes the three safety properties inductive: what
\* each program counter says of the lock, of the job's status and of the
\* active id.
IInv == /\ TypeOK
        /\ WritersExclude
        /\ NoStaleActive
        /\ \A j \in Jobs : pc[j] \in {"queued", "walking"} <=> status[j] = "running"
        /\ \A j \in Jobs : pc[j] \in {"new", "refused"} => active # j
        /\ \A u \in Uploads : active = u => pc[u] = "ingesting"

LEMMA InitIInv == Init => IInv
  BY IdsAssumption DEF Init, IInv, TypeOK, WritersExclude, NoStaleActive, Writing, Live,
         Threads, JobPc, UploadPc

LEMMA NextIInv == IInv /\ [Next]_vars => IInv'
<1> SUFFICES ASSUME IInv, [Next]_vars PROVE IInv'
  OBVIOUS
<1> USE IdsAssumption DEF IInv, TypeOK, WritersExclude, NoStaleActive, Writing, Live,
        Threads, JobPc, UploadPc, Goto
<1>1. ASSUME NEW j \in Jobs, StartJob(j) PROVE IInv'
  BY <1>1 DEF StartJob, Register, BatchRunning
<1>2. ASSUME NEW j \in Jobs, AcquireForWalk(j) PROVE IInv'
  BY <1>2 DEF AcquireForWalk
<1>3. ASSUME NEW j \in Jobs, EndWalk(j) PROVE IInv'
  BY <1>3 DEF EndWalk
<1>4. ASSUME NEW j \in Jobs, ReleaseAfterWalk(j) PROVE IInv'
  BY <1>4 DEF ReleaseAfterWalk
<1>5. ASSUME NEW j \in Jobs, FinishJob(j) PROVE IInv'
  BY <1>5 DEF FinishJob, ClearActive
<1>6. ASSUME NEW u \in Uploads, CheckClaim(u) PROVE IInv'
  BY <1>6 DEF CheckClaim, BatchRunning
<1>7. ASSUME NEW u \in Uploads, AcquireForFile(u) PROVE IInv'
  BY <1>7 DEF AcquireForFile
<1>8. ASSUME NEW u \in Uploads, SetSentinel(u) PROVE IInv'
  BY <1>8 DEF SetSentinel
<1>9. ASSUME NEW u \in Uploads, EndFile(u) PROVE IInv'
  BY <1>9 DEF EndFile, ClearActive
<1>10. ASSUME NEW u \in Uploads, ReleaseAfterFile(u) PROVE IInv'
  BY <1>10 DEF ReleaseAfterFile
<1>11. CASE UNCHANGED vars
  BY <1>11 DEF vars
<1> QED
  BY <1>1, <1>2, <1>3, <1>4, <1>5, <1>6, <1>7, <1>8, <1>9, <1>10, <1>11
     DEF Next, JobStep, UploadStep

\* Every reachable state satisfies the strengthened invariant.
THEOREM InvariantHolds == Spec => []IInv
<1> QED
  BY InitIInv, NextIInv, PTL DEF Spec

\* The variables keep their types (evidence/jobs.py state).
THEOREM TypeCorrect == Spec => []TypeOK
<1>1. IInv => TypeOK
  BY DEF IInv
<1> QED
  BY <1>1, InvariantHolds, PTL

\* No two threads write the evidence tables at the same time, whatever the
\* number of jobs and uploads (jobs.py:26-35).
THEOREM SerialWriters == Spec => []WritersExclude
<1>1. IInv => WritersExclude
  BY DEF IInv
<1> QED
  BY <1>1, InvariantHolds, PTL

\* A finished request never leaves its id behind in _active_job_id.
THEOREM ActiveIsNeverStale == Spec => []NoStaleActive
<1>1. IInv => NoStaleActive
  BY DEF IInv
<1> QED
  BY <1>1, InvariantHolds, PTL

-----------------------------------------------------------------------------
(* The registry implements the serial writer *)

LEMMA InitSerial == Init => Serial!Init
  BY DEF Init, Serial!Init, SerialPhase, Admitted, Writing, Threads

\* Each action of the registry is one step of the serial writer or a stutter.
LEMMA NextSerial == IInv /\ [Next]_vars => [Serial!Next]_SerialPhase
<1> SUFFICES ASSUME IInv, [Next]_vars PROVE [Serial!Next]_SerialPhase
  OBVIOUS
<1> USE IdsAssumption DEF IInv, TypeOK, WritersExclude, Writing, Threads, JobPc, UploadPc,
        Goto, SerialPhase, Admitted
<1>1. ASSUME NEW j \in Jobs, StartJob(j) PROVE Serial!Admit(j) \/ Serial!Refuse(j)
  BY <1>1 DEF StartJob, Register, Serial!Admit, Serial!Refuse
<1>2. ASSUME NEW j \in Jobs, AcquireForWalk(j) PROVE Serial!Write(j)
  BY <1>2 DEF AcquireForWalk, Serial!Write
<1>3. ASSUME NEW j \in Jobs, EndWalk(j) PROVE UNCHANGED SerialPhase
  BY <1>3 DEF EndWalk
<1>4. ASSUME NEW j \in Jobs, ReleaseAfterWalk(j) PROVE Serial!Finish(j)
  BY <1>4 DEF ReleaseAfterWalk, Serial!Finish
<1>5. ASSUME NEW j \in Jobs, FinishJob(j) PROVE UNCHANGED SerialPhase
  BY <1>5 DEF FinishJob
<1>6. ASSUME NEW u \in Uploads, CheckClaim(u) PROVE Serial!Admit(u) \/ Serial!Refuse(u)
  BY <1>6 DEF CheckClaim, Serial!Admit, Serial!Refuse
<1>7. ASSUME NEW u \in Uploads, AcquireForFile(u) PROVE Serial!Write(u) \/ Serial!Refuse(u)
  BY <1>7 DEF AcquireForFile, Serial!Write, Serial!Refuse
<1>8. ASSUME NEW u \in Uploads, SetSentinel(u) PROVE UNCHANGED SerialPhase
  BY <1>8 DEF SetSentinel
<1>9. ASSUME NEW u \in Uploads, EndFile(u) PROVE UNCHANGED SerialPhase
  BY <1>9 DEF EndFile
<1>10. ASSUME NEW u \in Uploads, ReleaseAfterFile(u) PROVE Serial!Finish(u)
  BY <1>10 DEF ReleaseAfterFile, Serial!Finish
<1>11. CASE UNCHANGED vars
  BY <1>11 DEF vars
<1> QED
  BY <1>1, <1>2, <1>3, <1>4, <1>5, <1>6, <1>7, <1>8, <1>9, <1>10, <1>11
     DEF Next, JobStep, UploadStep, Serial!Next

\* Whatever the interleaving, every request is refused or writes once, alone.
THEOREM RegistryIsSerial == Spec => ImplementsSerial
<1> QED
  BY InitSerial, NextSerial, InvariantHolds, PTL DEF Spec, ImplementsSerial, Serial!Spec

-----------------------------------------------------------------------------
(* The walk of a connector *)

Things == Items \cup {Fresh}

CurType == [unit : 1..(Len(Content) + 1), from : Nat, page : Seq(Things), asked : Nat, size : Nat,
            total : Nat, tries : 0..(Retries - 1), empty : Nat,
            session : {"none", "open", "renewed"}]

SourceTyped ==
    /\ conn \in Connectors
    /\ listing \in [Units -> Seq(Things)]
    /\ cur \in CurType
    /\ got \in [Units -> Seq(Things)]
    /\ lost \subseteq Units /\ capped \subseteq Units
    /\ fate \in {"new", "walking", "done", "raised"}
    /\ refused \in BOOLEAN /\ steady \in BOOLEAN

\* The units before the current one are over, those after it have not begun.
PlaceFits ==
    /\ cur.page # <<>> \/ cur.asked # 0 => cur.unit \in Units
    /\ cur.asked = 0 => cur.page = <<>>
    /\ \A u \in Units : u > cur.unit => got[u] = <<>>
    /\ \A u \in capped : u < cur.unit
    /\ \A u \in lost : u <= cur.unit
    /\ fate = "new" => lost = {} /\ cur = Start(1, "none")
    /\ fate = "done" => cur.unit \notin Units

\* What Splunk has left of a page fits under the cap.
CapFits ==
    /\ CapIsExact
    /\ conn = "splunk" /\ cur.unit \in Units => Taken + Len(cur.page) <= ItemCap

RefusalFits ==
    /\ RefusalIsLoud
    /\ refused /\ conn \in Archer \cup {"snow"} => fate = "raised"

\* The page is the part of the unit that was asked for, less what was delivered.
PageFits ==
    cur.asked # 0 =>
        LET all == Content[cur.unit]
        IN  /\ cur.size <= cur.asked /\ Len(cur.page) <= cur.size
            /\ cur.size = 0 \/ cur.from + cur.size <= Len(all)
            /\ cur.size = cur.asked \/ cur.from + cur.size >= Len(all)
            /\ \A j \in 1..Len(cur.page) :
                  cur.page[j] = all[cur.from + cur.size - Len(cur.page) + j]
            /\ cur.total = Len(all)
            /\ cur.empty > 0 => cur.size = 0
            /\ conn \in Archer => cur.asked = PageSize
            /\ conn \in AtOnce => cur.size < cur.asked

\* How many items of the unit have been dealt with.
PassedItems == IF cur.asked = 0 THEN cur.from ELSE cur.from + cur.size - Len(cur.page)

\* An item of a unit is yielded, for Jira perhaps as one of another unit.
Has(u, x) == \E v \in Units : x \in Members(got[v]) /\ (conn # "jira" => v = u)

ReadUpTo(u, n) == \A i \in 1..Len(Content[u]) : i <= n => Has(u, Content[u][i])

\* What was yielded is what was dealt with.
YieldFits ==
    /\ \A u \in Units : Simple(got[u])
    /\ \A u \in Units : u < cur.unit /\ u \notin lost \cup capped => ReadUpTo(u, Len(Content[u]))
    /\ cur.unit \in Units =>
          /\ cur.unit \notin lost => ReadUpTo(cur.unit, PassedItems)
          /\ \A k \in 1..Len(got[cur.unit]) :
                \E i \in 1..Len(Content[cur.unit]) :
                    i <= PassedItems /\ got[cur.unit][k] = Content[cur.unit][i]

\* What makes PullSafe inductive: with the lists as they were, what is read is known.
SourceInv == /\ SourceTyped
             /\ PlaceFits
             /\ CapFits
             /\ RefusalFits
             /\ steady => listing = Content /\ PageFits /\ YieldFits

LEMMA UnitsAreNumbered ==
  /\ Units = 1..Len(Content) /\ Len(Content) \in Nat
  /\ Content \in [Units -> Seq(Things)]
  /\ \A u \in Units : Len(Content[u]) \in Nat /\ Simple(Content[u])
<1>1. Content \in Seq(Seq(Items)) /\ \A u \in Units : Simple(Content[u])
  BY SourceAssumption
<1>2. Units = 1..Len(Content) /\ Len(Content) \in Nat /\ Content \in [Units -> Seq(Items)]
  BY <1>1, LenProperties DEF Units
<1>3. Seq(Items) \subseteq Seq(Things)
  BY SeqMonotonic DEF Things
<1>4. \A u \in Units : Len(Content[u]) \in Nat
  BY <1>2, LenProperties
<1> QED
  BY <1>1, <1>2, <1>3, <1>4

LEMMA InitSourceInv == SourceInit => SourceInv
<1> SUFFICES ASSUME SourceInit PROVE SourceInv
  OBVIOUS
<1>0. /\ cur.unit = 1 /\ cur.page = <<>> /\ cur.asked = 0 /\ cur.from = 0 /\ Len(<<>>) = 0
      /\ \A u \in Units : got[u] = <<>>
      /\ fate = "new" /\ lost = {} /\ capped = {}
  BY EmptySeq DEF SourceInit, Start
<1>1. cur \in CurType
  <2>1. 1 \in 1..(Len(Content) + 1) /\ 0 \in 0..(Retries - 1)
    BY UnitsAreNumbered, SourceAssumption
  <2> QED
    BY <2>1, EmptySeq DEF SourceInit, Start, CurType
<1>2. SourceTyped
  BY <1>1, UnitsAreNumbered, EmptySeq DEF SourceInit, SourceTyped
<1>3. PlaceFits
  BY <1>0 DEF SourceInit, PlaceFits
<1>4. CapFits
  BY <1>0, SourceAssumption DEF CapFits, CapIsExact, Taken
<1>5. RefusalFits
  BY <1>0 DEF SourceInit, RefusalFits, RefusalIsLoud
<1>6. PageFits
  BY <1>0 DEF PageFits
<1>7. YieldFits
  BY <1>0, UnitsAreNumbered DEF YieldFits, Simple, ReadUpTo, PassedItems
<1> QED
  BY <1>2, <1>3, <1>4, <1>5, <1>6, <1>7 DEF SourceInv, SourceInit

\* A step that only decides the fate of the walk.
LEMMA FateInv ==
  ASSUME SourceInv, UNCHANGED <<conn, listing, cur, got, lost, capped, steady>>,
         fate' \in {"walking", "done", "raised"}, refused' \in BOOLEAN,
         fate' = "done" => /\ cur.unit \notin Units
                           /\ conn = "emass" => lost # Units,
         refused' /\ conn \in Archer \cup {"snow"} => fate' = "raised"
  PROVE  SourceInv'
<1>1. SourceTyped' /\ PlaceFits'
  BY DEF SourceInv, SourceTyped, PlaceFits
<1>2. CapFits'
  BY DEF SourceInv, CapFits, CapIsExact, Caps, Taken
<1>3. RefusalFits'
  BY DEF RefusalFits, RefusalIsLoud
<1>4. PageFits' = PageFits /\ YieldFits' = YieldFits
  BY DEF PageFits, YieldFits, ReadUpTo, Has, PassedItems
<1> QED
  BY <1>1, <1>2, <1>3, <1>4 DEF SourceInv

\* A step of a walk after which nothing is refused or over.
LEMMA RefusalStays ==
  ASSUME SourceInv, fate' = "walking", refused' => conn \notin Archer \cup {"snow"},
         conn' = conn
  PROVE  RefusalFits'
  BY DEF RefusalFits, RefusalIsLoud

\* A call is made again, a session opened or renewed.
LEMMA RetryInv ==
  ASSUME SourceInv, fate = "walking",
         NEW tries \in 0..(Retries - 1), NEW session \in {"none", "open", "renewed"},
         cur' = [cur EXCEPT !.tries = tries, !.session = session],
         UNCHANGED <<conn, listing, got, lost, capped, steady, fate>>, refused' \in BOOLEAN,
         refused' => conn \notin Archer \cup {"snow"}
  PROVE  SourceInv'
<1>0. /\ cur'.unit = cur.unit /\ cur'.from = cur.from /\ cur'.page = cur.page
      /\ cur'.asked = cur.asked /\ cur'.size = cur.size /\ cur'.total = cur.total
      /\ cur'.empty = cur.empty /\ cur' \in CurType
  BY DEF SourceInv, SourceTyped, CurType
<1>1. SourceTyped' /\ PlaceFits'
  BY <1>0 DEF SourceInv, SourceTyped, PlaceFits
<1>2. CapFits'
  BY <1>0 DEF SourceInv, CapFits, CapIsExact, Caps, Taken
<1>3. RefusalFits'
  BY RefusalStays
<1>4. (PageFits => PageFits') /\ (YieldFits => YieldFits')
  BY <1>0 DEF PageFits, YieldFits, ReadUpTo, Has, PassedItems
<1> QED
  BY <1>1, <1>2, <1>3, <1>4 DEF SourceInv

\* The unit is over: given up, cut off, or read to its end.
LEMMA LeaveInv ==
  ASSUME SourceInv, fate = "walking", cur.unit \in Units,
         NEW session \in {"none", "open", "renewed"}, cur' = Start(cur.unit + 1, session),
         \/ got' = got
         \/ conn = "splunk" /\ got' = [got EXCEPT ![cur.unit] = <<>>] /\ cur.unit \in lost',
         lost' = lost \/ lost' = lost \cup {cur.unit},
         \/ capped' = capped
         \/ /\ capped' = capped \cup {cur.unit} /\ got' = got
            /\ conn # "jira" => Len(got[cur.unit]) = ItemCap,
         \/ cur.unit \in lost' \cup capped'
         \/ steady => ReadUpTo(cur.unit, Len(Content[cur.unit])),
         UNCHANGED <<conn, listing, steady, fate>>, refused' \in BOOLEAN,
         refused' => conn \notin Archer \cup {"snow"}
  PROVE  SourceInv'
<1> DEFINE u == cur.unit
<1>0. /\ cur'.unit = u + 1 /\ cur'.page = <<>> /\ cur'.asked = 0 /\ cur'.from = 0
      /\ u \in Nat /\ Len(<<>>) = 0
      /\ cur' \in CurType
  <2>1. u + 1 \in 1..(Len(Content) + 1) /\ u \in Nat
    BY UnitsAreNumbered
  <2>2. 0 \in 0..(Retries - 1)
    BY SourceAssumption
  <2> QED
    BY <2>1, <2>2, EmptySeq DEF Start, CurType
<1>1. /\ got' \in [Units -> Seq(Things)]
      /\ \A v \in Units : v # u => got'[v] = got[v]
      /\ got'[u] = got[u] \/ (conn = "splunk" /\ u \in lost' /\ got'[u] = <<>>)
  <2>1. got \in [Units -> Seq(Things)] /\ <<>> \in Seq(Things)
    BY EmptySeq DEF SourceInv, SourceTyped
  <2>2. CASE got' = got
    BY <2>1, <2>2
  <2>3. CASE conn = "splunk" /\ got' = [got EXCEPT ![u] = <<>>] /\ u \in lost'
    BY <2>1, <2>3
  <2> QED
    BY <2>2, <2>3
<1>2. SourceTyped'
  BY <1>0, <1>1 DEF SourceInv, SourceTyped
<1>3. PlaceFits'
  <2>1. \A v \in Units : v > u + 1 => v > u /\ v # u
    BY <1>0, UnitsAreNumbered
  <2>2. \A v \in Units : v > u + 1 => got'[v] = <<>>
    BY <2>1, <1>1 DEF SourceInv, PlaceFits
  <2>3. ASSUME NEW v \in capped' PROVE v < u + 1
    <3>1. v = u \/ (v < u /\ v \in Units)
      BY DEF SourceInv, SourceTyped, PlaceFits
    <3> QED
      BY <3>1, <1>0, UnitsAreNumbered
  <2>4. ASSUME NEW v \in lost' PROVE v <= u + 1
    <3>1. v = u \/ (v <= u /\ v \in Units)
      BY DEF SourceInv, SourceTyped, PlaceFits
    <3> QED
      BY <3>1, <1>0, UnitsAreNumbered
  <2> QED
    BY <1>0, <2>2, <2>3, <2>4 DEF PlaceFits
<1>4. CapFits'
  <2>0. \A v \in Units : Len(got[v]) \in Nat
    BY LenProperties DEF SourceInv, SourceTyped
  <2>1. Caps' => \A v \in Units : Len(got'[v]) <= ItemCap
    BY <1>1, <1>0, SourceAssumption DEF SourceInv, CapFits, CapIsExact, Caps
  <2>2. conn' # "jira" => \A v \in capped' : Len(got'[v]) = ItemCap
    <3> SUFFICES ASSUME conn # "jira", NEW v \in capped' PROVE Len(got'[v]) = ItemCap
      OBVIOUS
    <3>1. CASE v = u /\ v \notin capped
      BY <3>1
    <3>2. CASE v \in capped
      <4>1. v # u /\ v \in Units
        BY <3>2, <1>0, UnitsAreNumbered DEF SourceInv, PlaceFits, SourceTyped
      <4> QED
        BY <4>1, <3>2, <1>1 DEF SourceInv, CapFits, CapIsExact
    <3> QED
      BY <3>1, <3>2
  <2>3. u + 1 \in Units => got'[u + 1] = <<>>
    <3>1. u + 1 > u /\ u + 1 # u
      BY <1>0
    <3> QED
      BY <3>1, <1>1 DEF SourceInv, PlaceFits
  <2>4. cur'.unit \in Units => Len(got'[cur'.unit]) + Len(cur'.page) <= ItemCap
    <3>1. ItemCap \in Nat /\ 0 + 0 <= ItemCap
      BY SourceAssumption
    <3>2. cur'.unit \in Units => Len(got'[cur'.unit]) = 0 /\ Len(cur'.page) = 0
      BY <2>3, <1>0
    <3> QED
      BY <3>1, <3>2
  <2> QED
    BY <2>1, <2>2, <2>4 DEF CapFits, CapIsExact, Taken
<1>5. RefusalFits'
  BY RefusalStays
<1>6. PageFits'
  BY <1>0 DEF PageFits
<1>7. ASSUME steady PROVE YieldFits'
  <2>1. \A v \in Units : Simple(got'[v])
    BY <1>7, <1>1, <1>0 DEF SourceInv, YieldFits, Simple
  <2>2. ASSUME NEW v \in Units, v < u + 1, v \notin lost' \cup capped'
        PROVE  ReadUpTo(v, Len(Content[v]))'
    <3>1. ReadUpTo(v, Len(Content[v]))
      <4>1. CASE v = u
        BY <4>1, <1>7, <2>2
      <4>2. CASE v # u
        <5>1. v < u /\ v \notin lost \cup capped
          BY <4>2, <2>2, <1>0, UnitsAreNumbered
        <5> QED
          BY <5>1, <1>7 DEF SourceInv, YieldFits
      <4> QED
        BY <4>1, <4>2
    <3>2. \A x : Has(v, x) => Has(v, x)'
      <4> SUFFICES ASSUME NEW x, Has(v, x) PROVE Has(v, x)'
        OBVIOUS
      <4>1. CASE got' = got
        BY <4>1 DEF Has
      <4>2. CASE conn = "splunk" /\ u \in lost'
        BY <4>2, <2>2, <1>1 DEF Has
      <4> QED
        BY <4>1, <4>2
    <3> QED
      BY <3>1, <3>2 DEF ReadUpTo
  <2>3. PassedItems' = 0
    BY <1>0 DEF PassedItems
  <2>4. u + 1 \in Units => got'[u + 1] = <<>>
    <3>1. u + 1 > u /\ u + 1 # u
      BY <1>0
    <3> QED
      BY <3>1, <1>1 DEF SourceInv, PlaceFits
  <2>6. cur'.unit \in Units => ReadUpTo(cur.unit, PassedItems)'
    BY <2>3 DEF ReadUpTo
  <2>7. \A v \in Units : v < cur'.unit /\ v \notin lost' \cup capped' => ReadUpTo(v, Len(Content[v]))'
    BY <2>2, <1>0
  <2>8. cur'.unit \in Units => \A k \in 1..Len(got'[cur'.unit]) : FALSE
    BY <2>4, <1>0
  <2> QED
    BY <2>1, <2>6, <2>7, <2>8 DEF YieldFits
<1> QED
  BY <1>2, <1>3, <1>4, <1>5, <1>6, <1>7 DEF SourceInv

\* A page arrives: as much of the rest of the unit as was asked for.
LEMMA ReceiveInv ==
  ASSUME SourceInv, fate = "walking", cur.unit \in Units, cur.asked = 0, Receive,
         UNCHANGED <<conn, listing, steady, refused>>
  PROVE  SourceInv'
<1> DEFINE u == cur.unit
           all == listing[u]
           end == IF cur.from + Limit < Len(all) THEN cur.from + Limit ELSE Len(all)
           page == SubSeq(all, cur.from + 1, end)
<1>0. /\ cur \in CurType /\ cur.page = <<>> /\ all \in Seq(Things) /\ Len(all) \in Nat
      /\ Taken \in Nat /\ PageSize \in Nat \ {0} /\ ItemCap \in Nat /\ Retries \in Nat \ {0}
      /\ conn \in Connectors /\ cur.from \in Nat /\ cur.empty \in Nat
  BY LenProperties, SourceAssumption DEF SourceInv, SourceTyped, PlaceFits, CurType, Taken
<1>1. /\ Limit \in Nat
      /\ conn \in Archer => Limit = PageSize
      /\ conn \in AtOnce => Limit = Len(all) + 1
      /\ conn \in {"snow", "splunk"} => Limit = Rest /\ Rest <= ItemCap - Taken
  <2>1. conn \in {"snow", "splunk"} => Taken <= ItemCap
    BY <1>0 DEF SourceInv, CapFits, CapIsExact, Caps, Taken
  <2>2. conn \in {"snow", "splunk"} => Rest \in Nat /\ Rest <= ItemCap - Taken
    BY <2>1, <1>0 DEF Rest
  <2>3. conn \in {"jira", "snow", "splunk", "confluence"} \cup Archer \cup AtOnce
    BY <1>0, SourceAssumption
  <2> HIDE DEF u
  <2>4. CASE conn \in {"snow", "splunk"}
    BY <2>2, <2>4 DEF Limit, Archer, AtOnce
  <2>5. CASE conn \in AtOnce
    BY <2>5, <1>0 DEF Limit, Archer, AtOnce, u
  <2>6. CASE conn \in {"jira", "confluence"} \cup Archer
    BY <2>6, <1>0 DEF Limit, Archer, AtOnce
  <2> QED
    BY <2>3, <2>4, <2>5, <2>6
<1> HIDE DEF u, all
<1>2. end \in Nat /\ end <= Len(all) /\ end <= cur.from + Limit
      /\ (end < cur.from + Limit => end = Len(all))
  BY <1>0, <1>1
<1>3. \A i \in (cur.from + 1)..end : all[i] \in Things
  BY <1>0, <1>2, ElementOfSeq
<1> HIDE DEF end
<1>4. /\ page \in Seq(Things)
      /\ Len(page) = IF cur.from + 1 <= end THEN end - cur.from ELSE 0
      /\ \A j \in 1..(end - cur.from) : page[j] = all[cur.from + j]
  <2>1. /\ page \in Seq(Things)
        /\ Len(page) = IF cur.from + 1 <= end THEN end - (cur.from + 1) + 1 ELSE 0
        /\ \A j \in 1..(end - (cur.from + 1) + 1) : page[j] = all[cur.from + 1 + j - 1]
    BY <1>0, <1>2, <1>3, SubSeqProperties
  <2> HIDE DEF page
  <2> QED
    BY <2>1, <1>0, <1>2
<1>5. /\ cur' = [cur EXCEPT !.page = page, !.asked = Limit, !.size = Len(page),
                            !.total = Len(all), !.tries = 0,
                            !.empty = IF page = <<>> THEN cur.empty + 1 ELSE 0]
      /\ UNCHANGED <<got, lost, capped, fate>>
  BY DEF Receive, u, all, end
<1> HIDE DEF page
<1>6. /\ Len(page) \in Nat /\ Len(page) <= Limit
      /\ Len(page) = 0 \/ cur.from + Len(page) <= Len(all)
      /\ Len(page) = Limit \/ cur.from + Len(page) >= Len(all)
      /\ Len(page) = 0 <=> page = <<>>
  <2>1. Len(page) = 0 <=> page = <<>>
    BY <1>4, EmptySeq
  <2>2. Len(page) \in Nat /\ Len(page) <= Limit
    BY <1>0, <1>1, <1>2, <1>4
  <2> QED
    BY <2>1, <2>2, <1>0, <1>1, <1>2, <1>4
<1>7. /\ cur' \in CurType /\ cur'.unit = u /\ cur'.page = page /\ cur'.asked = Limit
      /\ cur'.size = Len(page) /\ cur'.total = Len(all) /\ cur'.from = cur.from
      /\ cur'.empty > 0 => page = <<>>
  <2> DEFINE blank == IF page = <<>> THEN cur.empty + 1 ELSE 0
  <2>1. 0 \in 0..(Retries - 1)
    BY <1>0
  <2>2. blank \in Nat /\ (blank > 0 => page = <<>>)
    BY <1>0
  <2>3. cur' = [cur EXCEPT !.page = page, !.asked = Limit, !.size = Len(page),
                           !.total = Len(all), !.tries = 0, !.empty = blank]
    BY <1>5
  <2> HIDE DEF blank
  <2>4. cur' \in CurType
    BY <2>1, <2>2, <2>3, <1>0, <1>1, <1>4, <1>6 DEF CurType
  <2>5. /\ cur'.unit = cur.unit /\ cur'.page = page /\ cur'.asked = Limit
        /\ cur'.size = Len(page) /\ cur'.total = Len(all) /\ cur'.from = cur.from
        /\ cur'.empty = blank
    BY <2>3, <1>0 DEF CurType
  <2> QED
    BY <2>2, <2>4, <2>5 DEF u
<1>8. SourceTyped' /\ RefusalFits'
  BY <1>5, <1>7 DEF SourceInv, SourceTyped, RefusalFits, RefusalIsLoud
<1>9. PlaceFits'
  BY <1>1, <1>5, <1>6, <1>7 DEF SourceInv, PlaceFits, u
<1>10. CapFits'
  <2>1. conn = "splunk" => Taken + Len(page) <= ItemCap
    BY <1>0, <1>1, <1>6
  <2> QED
    BY <2>1, <1>5, <1>7 DEF SourceInv, CapFits, CapIsExact, Caps, Taken, u
<1>11. ASSUME steady PROVE PageFits' /\ YieldFits'
  <2>1. all = Content[u]
    BY <1>11 DEF SourceInv, all
  <2>2. ASSUME NEW j \in 1..Len(page)
        PROVE  page[j] = all[cur.from + Len(page) - Len(page) + j]
    <3>1. j \in 1..(end - cur.from) /\ cur.from + Len(page) - Len(page) + j = cur.from + j
      BY <1>0, <1>2, <1>4, <1>6
    <3> QED
      BY <3>1, <1>4
  <2>3. conn \in AtOnce => Len(page) < Limit
    BY <1>0, <1>1, <1>2, <1>4
  <2>4. PageFits'
    BY <2>1, <2>2, <2>3, <1>1, <1>6, <1>7 DEF PageFits
  <2>5. PassedItems' = PassedItems
    BY <1>0, <1>6, <1>7 DEF PassedItems
  <2>6. YieldFits'
    BY <1>11, <2>5, <1>5, <1>7 DEF SourceInv, YieldFits, ReadUpTo, Has, u
  <2> QED
    BY <2>4, <2>6
<1> QED
  BY <1>5, <1>8, <1>9, <1>10, <1>11 DEF SourceInv

\* The items of the page that are still to come are those after what is passed.
LEMMA NextOfPage ==
  ASSUME SourceInv, steady, cur.page # <<>>
  PROVE  /\ cur.unit \in Units /\ cur.asked # 0
         /\ PassedItems \in Nat /\ PassedItems + 1 <= Len(Content[cur.unit])
         /\ Head(cur.page) = Content[cur.unit][PassedItems + 1]
<1>1. /\ cur.unit \in Units /\ cur.asked # 0 /\ cur \in CurType
      /\ cur.page \in Seq(Things) /\ Len(cur.page) \in Nat /\ Len(cur.page) >= 1
      /\ Len(Content[cur.unit]) \in Nat /\ PageFits
  BY EmptySeq, UnitsAreNumbered DEF SourceInv, SourceTyped, PlaceFits, CurType
<1>2. /\ Len(cur.page) <= cur.size /\ cur.size \in Nat /\ cur.from \in Nat
      /\ cur.size = 0 \/ cur.from + cur.size <= Len(Content[cur.unit])
      /\ cur.page[1] = Content[cur.unit][cur.from + cur.size - Len(cur.page) + 1]
  BY <1>1 DEF PageFits, CurType
<1>3. Head(cur.page) = cur.page[1]
  BY <1>1
<1>4. PassedItems = cur.from + cur.size - Len(cur.page)
  BY <1>1 DEF PassedItems
<1> DEFINE len == Len(cur.page)
           most == Len(Content[cur.unit])
<1>5. len \in Nat /\ len >= 1 /\ most \in Nat /\ len <= cur.size
      /\ (cur.size = 0 \/ cur.from + cur.size <= most) /\ PassedItems = cur.from + cur.size - len
  BY <1>1, <1>2, <1>4
<1> HIDE DEF len, most
<1>6. PassedItems \in Nat /\ PassedItems + 1 <= most /\ PassedItems + 1 = cur.from + cur.size - len + 1
  BY <1>5, <1>2
<1> QED
  BY <1>1, <1>2, <1>3, <1>6 DEF len, most

\* One item of the page is dealt with: yielded, yielded before, or left out.
LEMMA ItemInv ==
  ASSUME SourceInv, fate = "walking", cur.page # <<>>,
         cur' = [cur EXCEPT !.page = Tail(cur.page)],
         UNCHANGED <<conn, listing, steady, fate, refused, capped>>,
         \/ /\ lost' = lost
            /\ got' = [got EXCEPT ![cur.unit] = Append(got[cur.unit], Head(cur.page))]
            /\ Caps /\ conn # "splunk" => Taken < ItemCap
            /\ ~Repeated(Head(cur.page))
         \/ lost' = lost /\ got' = got /\ Repeated(Head(cur.page))
         \/ lost' = lost \cup {cur.unit} /\ got' = got
  PROVE  SourceInv'
<1>1. /\ cur.unit \in Units /\ cur.asked # 0 /\ cur.page \in Seq(Things) /\ cur.unit \in Nat
      /\ got \in [Units -> Seq(Things)] /\ cur \in CurType
      /\ Head(cur.page) \in Things /\ Tail(cur.page) \in Seq(Things)
      /\ Len(Tail(cur.page)) = Len(cur.page) - 1
      /\ \A j \in 1..Len(Tail(cur.page)) : Tail(cur.page)[j] = cur.page[j + 1]
      /\ Len(cur.page) \in Nat /\ Len(cur.page) >= 1
  <2>1. cur.unit \in Units /\ cur.page \in Seq(Things)
    BY DEF SourceInv, SourceTyped, PlaceFits, CurType
  <2>2. /\ Head(cur.page) \in Things /\ Tail(cur.page) \in Seq(Things)
        /\ Len(Tail(cur.page)) = Len(cur.page) - 1
        /\ \A j \in 1..Len(Tail(cur.page)) : Tail(cur.page)[j] = cur.page[j + 1]
    BY <2>1, HeadTailProperties
  <2>3. Len(cur.page) \in Nat /\ Len(cur.page) >= 1
    BY <2>1, EmptySeq
  <2> QED
    BY <2>1, <2>2, <2>3, UnitsAreNumbered DEF SourceInv, SourceTyped, PlaceFits
<1>2. PICK u \in Units, x \in Things : u = cur.unit /\ x = Head(cur.page)
  BY <1>1
<1> DEFINE more == Append(got[u], x)
           page == Tail(cur.page)
<1>3. /\ more \in Seq(Things)
      /\ Len(more) = Len(got[u]) + 1 /\ Len(got[u]) \in Nat
      /\ \A k \in 1..Len(got[u]) : more[k] = got[u][k]
      /\ more[Len(got[u]) + 1] = x
      /\ more # got[u]
  <2>1. got[u] \in Seq(Things)
    BY <1>1
  <2>2. Len(got[u]) \in Nat /\ Len(more) = Len(got[u]) + 1
    BY <2>1, AppendProperties, LenProperties
  <2>3. more # got[u]
    BY <2>2
  <2> QED
    BY <2>1, <2>2, <2>3, AppendProperties
<1>4. /\ cur'.unit = u /\ cur'.page = page /\ cur'.asked = cur.asked /\ cur'.size = cur.size
      /\ cur'.from = cur.from /\ cur'.total = cur.total /\ cur'.empty = cur.empty
      /\ cur' \in CurType
  BY <1>1, <1>2 DEF CurType
<1>5. /\ \/ /\ lost' = lost
            /\ got' = [got EXCEPT ![u] = more]
            /\ Caps /\ conn # "splunk" => Len(got[u]) < ItemCap
            /\ ~Repeated(x)
         \/ lost' = lost /\ got' = got /\ Repeated(x)
         \/ lost' = lost \cup {u} /\ got' = got
  BY <1>2 DEF Taken
<1>6. /\ Len(page) \in Nat /\ Len(page) = Len(cur.page) - 1 /\ page \in Seq(Things)
      /\ \A j \in 1..Len(page) : page[j] = cur.page[j + 1]
  <2>1. Len(page) \in Nat
    BY <1>1
  <2> QED
    BY <2>1, <1>1
<1>12. Len(page) \in Nat /\ Len(cur.page) \in Nat /\ Len(page) = Len(cur.page) - 1
  BY <1>1, <1>6
<1> HIDE DEF page, more
<1>7. /\ got' \in [Units -> Seq(Things)]
      /\ got' = got \/ (got'[u] = more /\ \A v \in Units : v # u => got'[v] = got[v])
      /\ got' = got \/ (lost' = lost /\ (Caps /\ conn # "splunk" => Len(got[u]) < ItemCap))
      /\ lost' \subseteq lost \cup {u} /\ lost \subseteq lost'
      /\ u \in lost' \/ got'[u] = more \/ Repeated(x)
  BY <1>1, <1>3, <1>5
<1>8. SourceTyped' /\ RefusalFits'
  BY <1>2, <1>4, <1>7 DEF SourceInv, SourceTyped, RefusalFits, RefusalIsLoud
<1>9. PlaceFits'
  <2>1. \A v \in Units : v > u => got'[v] = <<>>
    <3> SUFFICES ASSUME NEW v \in Units, v > u PROVE got'[v] = <<>>
      OBVIOUS
    <3>1. v # u
      BY UnitsAreNumbered
    <3> QED
      BY <3>1, <1>2, <1>7 DEF SourceInv, PlaceFits
  <2>2. \A v \in lost' : v <= u
    BY <1>1, <1>2, <1>7 DEF SourceInv, PlaceFits
  <2> QED
    BY <2>1, <2>2, <1>1, <1>2, <1>4 DEF SourceInv, PlaceFits
<1>10. CapFits'
  <2>0. \A v \in Units : Len(got[v]) \in Nat
    BY LenProperties DEF SourceInv, SourceTyped
  <2>1. conn = "splunk" => Len(got'[u]) + Len(page) <= ItemCap
    <3> SUFFICES ASSUME conn = "splunk" PROVE Len(got'[u]) + Len(page) <= ItemCap
      OBVIOUS
    <3>1. Len(got[u]) + Len(cur.page) <= ItemCap
      BY <1>2 DEF SourceInv, CapFits, Taken
    <3>2. Len(got'[u]) = Len(got[u]) \/ Len(got'[u]) = Len(got[u]) + 1
      BY <1>3, <1>7
    <3> QED
      <4> DEFINE a == Len(got[u])
                 b == Len(got'[u])
                 l == Len(cur.page)
                 k == Len(page)
      <4>1. /\ a \in Nat /\ l \in Nat /\ k = l - 1 /\ ItemCap \in Nat
            /\ a + l <= ItemCap /\ (b = a \/ b = a + 1)
        BY <1>3, <1>12, <3>1, <3>2, SourceAssumption
      <4> HIDE DEF a, b, l, k
      <4>2. b + k <= ItemCap
        BY <4>1
      <4> QED
        BY <4>2 DEF b, k
  <2>2. Caps => Len(got'[u]) <= ItemCap
    <3>1. CASE got' = got
      BY <3>1 DEF SourceInv, CapFits, CapIsExact
    <3>2. CASE conn = "splunk"
      <4>1. Len(got'[u]) \in Nat /\ ItemCap \in Nat
        BY <1>7, LenProperties, SourceAssumption
      <4> DEFINE b == Len(got'[u])
                 k == Len(page)
      <4>2. b \in Nat /\ k \in Nat /\ ItemCap \in Nat /\ b + k <= ItemCap
        BY <4>1, <3>2, <2>1, <1>12
      <4> HIDE DEF b, k
      <4>3. b <= ItemCap
        BY <4>2
      <4> QED
        BY <4>3 DEF b
    <3>3. CASE got' # got /\ conn # "splunk"
      <4>1. Len(got'[u]) = Len(got[u]) + 1 /\ (Caps => Len(got[u]) < ItemCap)
        BY <3>3, <1>3, <1>7
      <4> QED
        BY <4>1, <1>3, SourceAssumption
    <3> QED
      BY <3>1, <3>2, <3>3
  <2>3. \A v \in capped : v # u /\ v \in Units
    BY <1>2, UnitsAreNumbered DEF SourceInv, PlaceFits, SourceTyped
  <2>4. Caps' => \A v \in Units : Len(got'[v]) <= ItemCap
    BY <2>2, <1>7 DEF SourceInv, CapFits, CapIsExact, Caps
  <2>5. conn # "jira" => \A v \in capped : Len(got'[v]) = ItemCap
    BY <2>3, <1>7 DEF SourceInv, CapFits, CapIsExact
  <2> QED
    BY <2>1, <2>4, <2>5, <1>4 DEF CapFits, CapIsExact, Taken
<1>11. ASSUME steady PROVE PageFits' /\ YieldFits'
  <2> DEFINE all == Content[u]
  <2>1. PICK n \in Nat : n = PassedItems
    BY <1>11, NextOfPage
  <2>2. n + 1 <= Len(all) /\ x = all[n + 1] /\ Len(all) \in Nat
    BY <1>11, <1>2, <2>1, NextOfPage, UnitsAreNumbered
  <2>3. /\ cur.from \in Nat /\ cur.size \in Nat /\ cur.asked \in Nat
        /\ n = cur.from + cur.size - Len(cur.page)
    BY <2>1, <1>1 DEF PassedItems, CurType
  <2>4. PassedItems' = n + 1
    <3>1. PassedItems' = cur.from + cur.size - Len(page)
      BY <1>1, <1>4 DEF PassedItems
    <3> QED
      BY <3>1, <2>3, <1>12
  <2>5. PageFits'
    <3>1. PageFits
      BY <1>11 DEF SourceInv
    <3>2. \A j \in 1..Len(page) : page[j] = all[cur.from + cur.size - Len(page) + j]
      <4> SUFFICES ASSUME NEW j \in 1..Len(page)
                   PROVE  page[j] = all[cur.from + cur.size - Len(page) + j]
        OBVIOUS
      <4>1. j + 1 \in 1..Len(cur.page) /\ page[j] = cur.page[j + 1]
        BY <1>1, <1>6
      <4>2. cur.page[j + 1] = all[cur.from + cur.size - Len(cur.page) + (j + 1)]
        BY <4>1, <3>1, <1>1, <1>2 DEF PageFits
      <4>3. cur.from + cur.size - Len(cur.page) + (j + 1) = cur.from + cur.size - Len(page) + j
        <5> DEFINE from == cur.from
                   size == cur.size
                   l == Len(cur.page)
                   k == Len(page)
        <5>1. from \in Nat /\ size \in Nat /\ l \in Nat /\ k = l - 1 /\ j \in Nat
          BY <2>3, <1>12
        <5> HIDE DEF from, size, l, k
        <5>2. from + size - l + (j + 1) = from + size - k + j
          BY <5>1
        <5> QED
          BY <5>2 DEF from, size, l, k
      <4> QED
        BY <4>1, <4>2, <4>3
    <3>3. Len(page) <= cur.size
      <4>1. Len(cur.page) <= cur.size
        BY <3>1, <1>1 DEF PageFits
      <4> QED
        BY <4>1, <2>3, <1>12
    <3> QED
      BY <3>1, <3>2, <3>3, <1>1, <1>2, <1>4 DEF PageFits
  <2>6. ASSUME NEW v \in Units, NEW y, Has(v, y) PROVE Has(v, y)'
    <3>1. PICK w \in Units : y \in Members(got[w]) /\ (conn # "jira" => w = v)
      BY <2>6 DEF Has
    <3>2. PICK k \in 1..Len(got[w]) : y = got[w][k]
      BY <3>1 DEF Members
    <3>3. k \in 1..Len(got'[w]) /\ got'[w][k] = y
      <4>1. CASE got' = got \/ w # u
        BY <4>1, <3>2, <1>7
      <4>2. CASE w = u /\ got'[u] = more
        <5>1. k \in 1..Len(more)
          BY <4>2, <3>2, <1>3
        <5> QED
          BY <5>1, <4>2, <3>2, <1>3
      <4> QED
        BY <4>1, <4>2, <1>7
    <3>4. y \in Members(got'[w])
      BY <3>3 DEF Members
    <3> QED
      BY <3>1, <3>4 DEF Has, Members
  <2>7. u \notin lost' => Has(u, x)'
    <3> SUFFICES ASSUME u \notin lost' PROVE Has(u, x)'
      OBVIOUS
    <3>1. CASE got'[u] = more
      <4>1. Len(got[u]) + 1 \in 1..Len(got'[u]) /\ got'[u][Len(got[u]) + 1] = x
        BY <3>1, <1>3
      <4> QED
        BY <4>1 DEF Has, Members
    <3>2. CASE Repeated(x)
      <4>1. Has(u, x)
        BY <3>2 DEF Repeated, Has
      <4> QED
        BY <4>1, <2>6
    <3> QED
      BY <1>7, <3>1, <3>2
  <2>8. u \notin lost' => ReadUpTo(u, n + 1)'
    <3> SUFFICES ASSUME u \notin lost', NEW i \in 1..Len(all), i <= n + 1 PROVE Has(u, all[i])'
      BY DEF ReadUpTo
    <3>1. CASE i = n + 1
      BY <3>1, <2>2, <2>7
    <3>2. CASE i <= n
      <4>1. ReadUpTo(u, n)
        BY <1>2, <1>7, <1>11, <2>1 DEF SourceInv, YieldFits
      <4>2. Has(u, all[i])
        BY <3>2, <4>1 DEF ReadUpTo
      <4> QED
        BY <4>2, <2>6
    <3> QED
      BY <2>2, <3>1, <3>2
  <2>9. \A v \in Units : v < u /\ v \notin lost' \cup capped => ReadUpTo(v, Len(Content[v]))'
    <3> SUFFICES ASSUME NEW v \in Units, v < u, v \notin lost' \cup capped
                 PROVE  ReadUpTo(v, Len(Content[v]))'
      OBVIOUS
    <3>1. ReadUpTo(v, Len(Content[v]))
      BY <1>2, <1>7, <1>11 DEF SourceInv, YieldFits
    <3> QED
      BY <3>1, <2>6 DEF ReadUpTo
  <2>10. \A k \in 1..Len(got[u]) : \E i \in 1..Len(all) : i <= n /\ got[u][k] = all[i]
    BY <1>11, <1>2, <2>1 DEF SourceInv, YieldFits
  <2>11. \A k \in 1..Len(more) : \E i \in 1..Len(all) : i <= n + 1 /\ more[k] = all[i]
    <3> SUFFICES ASSUME NEW k \in 1..Len(more)
                 PROVE  \E i \in 1..Len(all) : i <= n + 1 /\ more[k] = all[i]
      OBVIOUS
    <3>1. CASE k = Len(got[u]) + 1
      <4>1. n + 1 \in 1..Len(all) /\ more[k] = all[n + 1]
        BY <3>1, <1>3, <2>2
      <4> QED
        BY <4>1
    <3>2. CASE k \in 1..Len(got[u])
      <4>1. PICK i \in 1..Len(all) : i <= n /\ got[u][k] = all[i]
        BY <3>2, <2>10
      <4>2. i <= n + 1 /\ more[k] = all[i]
        BY <3>2, <4>1, <1>3, <2>2
      <4> QED
        BY <4>2
    <3> QED
      BY <3>1, <3>2, <1>3
  <2>12. \A k \in 1..Len(got'[u]) : \E i \in 1..Len(all) : i <= n + 1 /\ got'[u][k] = all[i]
    <3>1. CASE got' = got
      <4> SUFFICES ASSUME NEW k \in 1..Len(got[u])
                   PROVE  \E i \in 1..Len(all) : i <= n + 1 /\ got[u][k] = all[i]
        BY <3>1
      <4>1. PICK i \in 1..Len(all) : i <= n /\ got[u][k] = all[i]
        BY <2>10
      <4>2. i <= n + 1
        BY <4>1, <2>2
      <4> QED
        BY <4>1, <4>2
    <3>2. CASE got'[u] = more
      BY <3>2, <2>11
    <3> QED
      BY <3>1, <3>2, <1>7
  <2>13. Simple(more)
    <3>1. Simple(got[u]) /\ Simple(all)
      BY <1>11, UnitsAreNumbered DEF SourceInv, YieldFits
    <3>2. ASSUME NEW k \in 1..Len(got[u]) PROVE got[u][k] # x
      <4>1. PICK i \in 1..Len(all) : i <= n /\ got[u][k] = all[i]
        BY <2>10
      <4>2. i # n + 1 /\ n + 1 \in 1..Len(all)
        BY <4>1, <2>2
      <4> QED
        BY <4>1, <4>2, <3>1, <2>2 DEF Simple
    <3>3. ASSUME NEW k \in 1..Len(more)
          PROVE  k \in 1..Len(got[u]) \/ (k = Len(got[u]) + 1 /\ more[k] = x)
      BY <1>3
    <3> SUFFICES ASSUME NEW i \in 1..Len(more), NEW j \in 1..Len(more), more[i] = more[j]
                 PROVE  i = j
      BY DEF Simple
    <3>4. CASE i \in 1..Len(got[u]) /\ j \in 1..Len(got[u])
      <4>1. got[u][i] = got[u][j]
        BY <3>4, <1>3
      <4> QED
        BY <4>1, <3>1, <3>4 DEF Simple
    <3>5. CASE i \notin 1..Len(got[u]) \/ j \notin 1..Len(got[u])
      BY <3>2, <3>3, <3>5, <1>3
    <3> QED
      BY <3>4, <3>5
  <2>14. \A v \in Units : Simple(got'[v])
    BY <1>7, <1>11, <2>13 DEF SourceInv, YieldFits
  <2>15. /\ \A v \in Units : Simple(got[v])'
         /\ \A v \in Units : v < cur'.unit /\ v \notin lost' \cup capped' => ReadUpTo(v, Len(Content[v]))'
    BY <2>9, <2>14, <1>4 DEF Simple
  <2>16. u \notin lost' => ReadUpTo(cur.unit, PassedItems)'
    BY <2>4, <2>8, <1>4 DEF ReadUpTo, Has
  <2> HIDE DEF all
  <2>17. \A k \in 1..Len(got'[cur'.unit]) :
            \E i \in 1..Len(Content[cur'.unit]) :
               i <= PassedItems' /\ got'[cur'.unit][k] = Content[cur'.unit][i]
    BY <2>4, <2>12, <1>4 DEF all
  <2>18. YieldFits'
    BY <2>15, <2>16, <2>17, <1>4 DEF YieldFits
  <2> QED
    BY <2>5, <2>18
<1> QED
  BY <1>8, <1>9, <1>10, <1>11 DEF SourceInv

\* As long as a walk goes on, nothing was refused for good.
LEMMA WalkingIsWelcome ==
  ASSUME SourceInv, fate = "walking"
  PROVE  /\ refused => conn \notin Archer \cup {"snow"}
         /\ cur \in CurType /\ refused \in BOOLEAN /\ cur.session \in {"none", "open", "renewed"}
         /\ cur.tries \in 0..(Retries - 1) /\ cur.tries \in Nat
  BY SourceAssumption DEF SourceInv, SourceTyped, RefusalFits, CurType

\* A unit at its cap holds as many items as the cap.
LEMMA CapIsMet ==
  ASSUME SourceInv, cur.unit \in Units, Caps, Taken >= ItemCap
  PROVE  Len(got[cur.unit]) = ItemCap
<1>1. Len(got[cur.unit]) \in Nat /\ ItemCap \in Nat
  BY LenProperties, SourceAssumption DEF SourceInv, SourceTyped
<1>2. Len(got[cur.unit]) <= ItemCap
  BY DEF SourceInv, CapFits, CapIsExact
<1> QED
  BY <1>1, <1>2 DEF Taken

LEMMA DeliverInv == SourceInv /\ Deliver => SourceInv'
<1> SUFFICES ASSUME SourceInv, Deliver PROVE SourceInv'
  OBVIOUS
<1>1. fate = "walking" /\ cur.page # <<>> /\ cur.unit \in Units
  BY DEF Deliver, SourceInv, PlaceFits
<1>2. CASE Caps /\ conn # "splunk" /\ Taken >= ItemCap
  <2> DEFINE session == IF cur.session = "renewed" THEN "open" ELSE cur.session
  <2>1. session \in {"none", "open", "renewed"}
    BY <1>1, WalkingIsWelcome
  <2>2. /\ capped' = capped \cup {cur.unit} /\ cur' = Start(cur.unit + 1, session)
        /\ UNCHANGED <<conn, listing, got, lost, fate, refused, steady>>
    BY <1>2 DEF Deliver, NextUnit
  <2>3. Len(got[cur.unit]) = ItemCap
    BY <1>1, <1>2, CapIsMet
  <2> HIDE DEF session
  <2> QED
    BY <1>1, <2>1, <2>2, <2>3, LeaveInv, WalkingIsWelcome
<1>3. CASE ~(Caps /\ conn # "splunk" /\ Taken >= ItemCap)
  <2>1. /\ cur' = [cur EXCEPT !.page = Tail(cur.page)]
        /\ got' = IF Repeated(Head(cur.page)) THEN got
                  ELSE [got EXCEPT ![cur.unit] = Append(got[cur.unit], Head(cur.page))]
        /\ UNCHANGED <<conn, listing, capped, lost, fate, refused, steady>>
    BY <1>3 DEF Deliver
  <2>2. Taken \in Nat /\ ItemCap \in Nat
    BY <1>1, LenProperties, SourceAssumption DEF SourceInv, SourceTyped, Taken
  <2>3. Caps /\ conn # "splunk" => Taken < ItemCap
    BY <1>3, <2>2
  <2> QED
    BY <1>1, <2>1, <2>3, ItemInv
<1> QED
  BY <1>2, <1>3

LEMMA SkipInv == SourceInv /\ SkipItem => SourceInv'
<1> SUFFICES ASSUME SourceInv, SkipItem PROVE SourceInv'
  OBVIOUS
<1> QED
  BY ItemInv DEF SkipItem

\* The last page that is not cut off ends with the unit.
LEMMA LastIsWhole ==
  ASSUME SourceInv, steady, fate = "walking", cur.page = <<>>, cur.asked # 0
  PROVE  /\ LastPage /\ ~Cut => PassedItems >= Len(Content[cur.unit])
         /\ ~LastPage => \/ cur.size = cur.asked
                         \/ cur.size <= cur.asked /\ PassedItems >= Len(Content[cur.unit])
<1> DEFINE most == Len(Content[cur.unit])
           from == cur.from
           size == cur.size
           limit == cur.asked
<1>1. /\ from \in Nat /\ size \in Nat /\ limit \in Nat /\ most \in Nat /\ PageSize \in Nat \ {0}
      /\ cur.empty \in Nat /\ limit # 0
      /\ conn \in {"jira", "snow", "splunk", "confluence"} \cup Archer \cup AtOnce
  BY UnitsAreNumbered, SourceAssumption DEF SourceInv, SourceTyped, PlaceFits, CurType
<1>2. /\ size <= limit
      /\ size = limit \/ from + size >= most
      /\ cur.total = most /\ (cur.empty > 0 => size = 0)
      /\ conn \in Archer => limit = PageSize
      /\ conn \in AtOnce => size < limit
  BY DEF SourceInv, PageFits
<1>3. PassedItems = from + size
  BY <1>1, EmptySeq DEF PassedItems
<1>4. Short <=> size # limit
  BY <1>1, <1>2 DEF Short
<1>5. Short => PassedItems >= most
  BY <1>2, <1>3, <1>4
<1>6. CASE conn = "jira"
  <2>1. LastPage <=> Short \/ from + size >= ItemCap
    BY <1>6 DEF LastPage, JiraLast, Archer, AtOnce
  <2>2. Cut <=> ~Short /\ from + size >= ItemCap
    BY <1>6 DEF Cut, Caps
  <2> QED
    BY <2>1, <2>2, <1>4, <1>5, Zenon DEF most, size, limit
<1>7. CASE conn \in {"snow", "splunk"}
  <2>1. LastPage <=> Short \/ Taken >= ItemCap
    BY <1>7 DEF LastPage, SnowLast, SplunkLast, Archer, AtOnce
  <2>2. Cut <=> ~Short /\ Taken >= ItemCap
    BY <1>7 DEF Cut, Caps
  <2> QED
    BY <2>1, <2>2, <1>4, <1>5, Zenon DEF most, size, limit
<1>8. CASE conn = "confluence" \/ conn \in AtOnce
  <2>1. (LastPage <=> Short) \/ Short
    <3>1. CASE conn = "confluence"
      BY <3>1 DEF LastPage, ConfluenceLast, Archer, AtOnce
    <3>2. CASE conn \in AtOnce
      <4>1. size # limit
        BY <3>2, <1>1, <1>2
      <4> QED
        BY <4>1, <1>4
    <3> QED
      BY <1>8, <3>1, <3>2
  <2>2. Short => LastPage
    BY <1>8 DEF LastPage, ConfluenceLast
  <2> QED
    BY <2>1, <2>2, <1>4, <1>5, Zenon DEF most, size, limit
<1>9. CASE conn \in Archer
  <2>1. limit = PageSize /\ (size = 0 => Short)
    <3>1. limit = PageSize
      BY <1>2, <1>9
    <3> QED
      BY <3>1, <1>1, <1>4
  <2>2. LastPage <=> ArcherLast
    BY <1>9 DEF LastPage, Archer, AtOnce
  <2>3. ArcherLast => PassedItems >= most
    <3>1. CASE conn = "archer"
      <4>1. ArcherLast => size = 0 \/ from + limit >= most
        BY <3>1, <2>1, <1>2 DEF ArcherLast
      <4>2. Short \/ PassedItems = from + limit
        BY <1>3, <1>4
      <4> QED
        BY <4>1, <4>2, <2>1, <1>5
    <3>2. CASE conn # "archer"
      <4>1. ArcherLast => cur.empty > 0
        BY <3>2, <1>1 DEF ArcherLast
      <4> QED
        BY <4>1, <2>1, <1>2, <1>5
    <3> QED
      BY <3>1, <3>2
  <2> QED
    BY <2>2, <2>3, <1>2, <1>3
<1> QED
  BY <1>1, <1>6, <1>7, <1>8, <1>9

LEMMA TurnPageInv == SourceInv /\ TurnPage => SourceInv'
<1> SUFFICES ASSUME SourceInv, TurnPage PROVE SourceInv'
  OBVIOUS
<1>1. /\ fate = "walking" /\ cur.page = <<>> /\ cur.asked # 0 /\ cur.unit \in Units
      /\ cur \in CurType
      /\ UNCHANGED <<conn, listing, got, lost, fate, refused, steady>>
  BY DEF TurnPage, SourceInv, SourceTyped, PlaceFits
<1> DEFINE session == IF cur.session = "renewed" THEN "open" ELSE cur.session
<1>2. session \in {"none", "open", "renewed"}
  BY <1>1, WalkingIsWelcome
<1>3. ASSUME steady, cur.unit \notin lost PROVE ReadUpTo(cur.unit, PassedItems)
  BY <1>1, <1>3 DEF SourceInv, YieldFits
<1>4. PassedItems \in Int /\ \A v \in Units : Len(Content[v]) \in Nat
  BY <1>1, UnitsAreNumbered, EmptySeq DEF PassedItems, CurType
<1>5. CASE LastPage
  <2>1. cur' = Start(cur.unit + 1, session) /\ capped' = IF Cut THEN capped \cup {cur.unit} ELSE capped
    BY <1>5 DEF TurnPage, NextUnit
  <2> HIDE DEF session
  <2>2. CASE Cut
    <3>1. conn # "jira" => Len(got[cur.unit]) = ItemCap
      BY <1>1, <2>2, CapIsMet DEF Cut
    <3> QED
      BY <1>1, <1>2, <2>1, <2>2, <3>1, LeaveInv, WalkingIsWelcome
  <2>3. CASE ~Cut
    <3>1. cur.unit \in lost \/ (steady => ReadUpTo(cur.unit, Len(Content[cur.unit])))
      <4> SUFFICES ASSUME steady, cur.unit \notin lost PROVE ReadUpTo(cur.unit, Len(Content[cur.unit]))
        OBVIOUS
      <4>1. PassedItems >= Len(Content[cur.unit])
        BY <1>1, <1>5, <2>3, LastIsWhole
      <4> QED
        BY <1>1, <1>3, <1>4, <4>1 DEF ReadUpTo
    <3> QED
      BY <1>1, <1>2, <2>1, <2>3, <3>1, LeaveInv, WalkingIsWelcome
  <2> QED
    BY <2>2, <2>3
<1>6. CASE ~LastPage
  <2>1. /\ cur' = [cur EXCEPT !.from = cur.from + cur.asked, !.asked = 0, !.session = session]
        /\ capped' = capped
    BY <1>6 DEF TurnPage
  <2> HIDE DEF session
  <2>2. cur.from \in Nat /\ cur.asked \in Nat /\ cur.from + cur.asked \in Nat
    BY <1>1 DEF CurType
  <2>3. /\ cur'.unit = cur.unit /\ cur'.page = <<>> /\ cur'.asked = 0
        /\ cur'.from = cur.from + cur.asked /\ cur' \in CurType
    BY <1>1, <1>2, <2>1, <2>2 DEF CurType
  <2>4. SourceTyped' /\ PlaceFits' /\ RefusalFits'
    BY <1>1, <2>1, <2>3 DEF SourceInv, SourceTyped, PlaceFits, RefusalFits, RefusalIsLoud
  <2>5. CapFits'
    BY <1>1, <2>1, <2>3 DEF SourceInv, CapFits, CapIsExact, Caps, Taken
  <2>6. PageFits'
    BY <2>3 DEF PageFits
  <2>7. ASSUME steady PROVE YieldFits'
    <3>1. PassedItems = cur.from + cur.size /\ cur.size \in Nat
      BY <1>1, EmptySeq DEF PassedItems, CurType
    <3>2. PassedItems' = cur.from + cur.asked
      BY <2>3 DEF PassedItems
    <3>3. cur.size = cur.asked \/ (cur.size <= cur.asked /\ PassedItems >= Len(Content[cur.unit]))
      BY <1>1, <1>6, <2>7, LastIsWhole
    <3>4. PassedItems <= PassedItems' /\ (PassedItems' = PassedItems \/ PassedItems >= Len(Content[cur.unit]))
          /\ PassedItems \in Nat /\ PassedItems' \in Nat
      BY <2>2, <3>1, <3>2, <3>3
    <3>5. PICK u \in Units, n \in Nat, m \in Nat : u = cur.unit /\ n = PassedItems /\ m = PassedItems'
      BY <1>1, <3>4
    <3>6. ReadUpTo(u, n) => ReadUpTo(u, m)'
      <4> SUFFICES ASSUME ReadUpTo(u, n), NEW i \in 1..Len(Content[u]), i <= m PROVE Has(u, Content[u][i])'
        BY DEF ReadUpTo
      <4>1. i <= n
        BY <3>4, <3>5, <1>4
      <4>2. Has(u, Content[u][i])
        BY <4>1 DEF ReadUpTo
      <4> QED
        BY <4>2, <1>1 DEF Has, Members
    <3>7. \A k \in 1..Len(got[u]) : \E i \in 1..Len(Content[u]) : i <= m /\ got[u][k] = Content[u][i]
      <4> SUFFICES ASSUME NEW k \in 1..Len(got[u])
                   PROVE  \E i \in 1..Len(Content[u]) : i <= m /\ got[u][k] = Content[u][i]
        OBVIOUS
      <4>1. PICK i \in 1..Len(Content[u]) : i <= n /\ got[u][k] = Content[u][i]
        BY <1>1, <2>7, <3>5 DEF SourceInv, YieldFits
      <4>2. i <= m
        BY <4>1, <3>4, <3>5, <1>4
      <4> QED
        BY <4>1, <4>2
    <3>8. /\ \A v \in Units : Simple(got[v])'
          /\ \A v \in Units : v < cur'.unit /\ v \notin lost' \cup capped' => ReadUpTo(v, Len(Content[v]))'
      <4>1. \A v \in Units : Simple(got[v])'
        BY <1>1, <2>7 DEF SourceInv, YieldFits, Simple
      <4>2. ASSUME NEW v \in Units, v < cur'.unit, v \notin lost' \cup capped'
            PROVE  ReadUpTo(v, Len(Content[v]))'
        <5>1. ReadUpTo(v, Len(Content[v]))
          BY <1>1, <2>1, <2>3, <2>7, <4>2 DEF SourceInv, YieldFits
        <5> QED
          BY <5>1, <1>1 DEF ReadUpTo, Has
      <4> QED
        BY <4>1, <4>2
    <3>9. u \notin lost => ReadUpTo(u, n)
      BY <1>1, <2>7, <3>5 DEF SourceInv, YieldFits
    <3>10. cur'.unit = u /\ PassedItems' = m /\ got' = got /\ lost' = lost
      BY <1>1, <2>3, <3>5
    <3>11. cur'.unit \notin lost' => ReadUpTo(cur.unit, PassedItems)'
      BY <3>6, <3>9, <3>10 DEF ReadUpTo, Has
    <3> QED
      BY <3>7, <3>8, <3>10, <3>11 DEF YieldFits
  <2> QED
    BY <1>1, <2>4, <2>5, <2>6, <2>7 DEF SourceInv
<1> QED
  BY <1>5, <1>6

\* A unit is given up.
LEMMA GiveUpInv ==
  ASSUME SourceInv, fate = "walking", cur.unit \in Units, GiveUp,
         UNCHANGED <<conn, listing, steady>>, refused' \in BOOLEAN,
         refused' => conn \notin Archer \cup {"snow"}
  PROVE  SourceInv'
<1>1. /\ lost' = lost \cup {cur.unit} /\ cur' = Start(cur.unit + 1, cur.session)
      /\ UNCHANGED <<got, capped, fate>>
  BY DEF GiveUp
<1> QED
  BY <1>1, LeaveInv, WalkingIsWelcome

\* A call is made again.
LEMMA AgainInv ==
  ASSUME SourceInv, fate = "walking", Again, cur.tries + 1 < Retries,
         UNCHANGED <<conn, listing, steady>>, refused' \in BOOLEAN,
         refused' => conn \notin Archer \cup {"snow"}
  PROVE  SourceInv'
<1>1. cur \in CurType /\ cur.session \in {"none", "open", "renewed"} /\ cur.tries \in Nat
  BY WalkingIsWelcome
<1>2. cur.tries + 1 \in 0..(Retries - 1)
  BY <1>1, SourceAssumption
<1>3. cur' = [cur EXCEPT !.tries = cur.tries + 1, !.session = cur.session]
  BY <1>1 DEF Again, CurType
<1> QED
  BY <1>1, <1>2, <1>3, RetryInv DEF Again

\* The walk ends with a failure.
LEMMA RaiseInv ==
  ASSUME SourceInv, Raise, UNCHANGED <<conn, listing, steady>>, refused' \in BOOLEAN
  PROVE  SourceInv'
  BY FateInv DEF Raise

LEMMA AskInv == ASSUME SourceInv, NEW reply \in Replies, Ask(reply) PROVE SourceInv'
<1>1. /\ fate = "walking" /\ cur.unit \in Units
      /\ reply = "page" => cur.asked = 0
      /\ refused' = (refused \/ (reply = "refused" /\ (conn \in Archer => cur.session = "renewed")))
      /\ UNCHANGED <<conn, listing, steady>>
  BY DEF Ask
<1>2. /\ refused' \in BOOLEAN
      /\ reply # "refused" => refused' = refused
      /\ conn \in Archer /\ cur.session # "renewed" => refused' = refused
      /\ refused => conn \notin Archer \cup {"snow"}
      /\ cur \in CurType /\ cur.tries \in Nat /\ cur.tries \in 0..(Retries - 1)
  BY <1>1, WalkingIsWelcome
<1>3. CASE reply = "page"
  BY <1>1, <1>2, <1>3, ReceiveInv DEF Ask
<1>4. CASE reply # "page"
  <2>1. Fails(reply)
    BY <1>4 DEF Ask
  <2>2. CASE conn = "jira" /\ JiraFails(reply)
    BY <1>1, <1>2, <2>2, GiveUpInv DEF JiraFails, Archer
  <2>3. CASE conn = "snow" /\ SnowFails(reply)
    <3>1. CASE reply = "refused"
      BY <1>1, <1>2, <2>3, <3>1, RaiseInv DEF SnowFails
    <3>2. CASE reply # "refused" /\ Again /\ cur.tries + 1 < Retries
      BY <1>1, <1>2, <2>3, <3>2, AgainInv
    <3>3. CASE reply # "refused" /\ GiveUp
      BY <1>1, <1>2, <2>3, <3>3, GiveUpInv
    <3> QED
      BY <2>3, <3>1, <3>2, <3>3 DEF SnowFails
  <2>4. CASE conn = "gitlab" /\ GitLabFails(reply)
    <3>1. CASE Raise
      BY <1>1, <1>2, <3>1, RaiseInv
    <3>2. CASE Again /\ cur.tries + 1 < Retries
      BY <1>1, <1>2, <2>4, <3>2, AgainInv DEF Archer
    <3>3. CASE GiveUp
      BY <1>1, <1>2, <2>4, <3>3, GiveUpInv DEF Archer
    <3> QED
      BY <2>4, <3>1, <3>2, <3>3 DEF GitLabFails
  <2>5. CASE conn \in Archer /\ ArcherFails(reply)
    <3>1. CASE reply = "refused" /\ cur.session # "renewed"
      <4>1. /\ cur' = [cur EXCEPT !.session = "renewed"]
            /\ UNCHANGED <<got, lost, capped, fate>>
        BY <2>5, <3>1 DEF ArcherFails
      <4>2. cur' = [cur EXCEPT !.tries = cur.tries, !.session = "renewed"]
        BY <1>2, <4>1 DEF CurType
      <4> QED
        BY <1>1, <1>2, <2>5, <3>1, <4>1, <4>2, RetryInv
    <3>2. CASE ~(reply = "refused" /\ cur.session # "renewed")
      BY <1>1, <1>2, <2>5, <3>2, RaiseInv DEF ArcherFails
    <3> QED
      BY <3>1, <3>2
  <2>6. CASE conn = "confluence" /\ ConfluenceFails(reply)
    BY <1>1, <1>2, <2>6, RaiseInv DEF ConfluenceFails
  <2>7. CASE conn = "splunk" /\ SplunkFails(reply)
    <3>1. /\ got' = [got EXCEPT ![cur.unit] = <<>>] /\ lost' = lost \cup {cur.unit}
          /\ cur' = Start(cur.unit + 1, cur.session) /\ UNCHANGED <<capped, fate>>
      BY <2>7 DEF SplunkFails
    <3> QED
      BY <1>1, <1>2, <2>7, <3>1, LeaveInv, WalkingIsWelcome DEF Archer
  <2>8. CASE conn = "tenable" /\ TenableFails(reply)
    BY <1>1, <1>2, <2>8, GiveUpInv DEF TenableFails, Archer
  <2>9. CASE conn = "emass" /\ EmassFails(reply)
    BY <1>1, <1>2, <2>9, GiveUpInv DEF EmassFails, Archer
  <2>10. CASE conn = "folder" /\ FolderFails(reply)
    <3>1. CASE reply = "broken"
      BY <1>1, <1>2, <2>10, <3>1, GiveUpInv DEF FolderFails, Archer
    <3>2. CASE reply # "broken"
      BY <1>1, <1>2, <2>10, <3>2, RaiseInv DEF FolderFails
    <3> QED
      BY <3>1, <3>2
  <2> QED
    BY <2>1, <2>2, <2>3, <2>4, <2>5, <2>6, <2>7, <2>8, <2>9, <2>10 DEF Fails
<1> QED
  BY <1>3, <1>4

LEMMA OpenInv == SourceInv /\ Open => SourceInv'
<1> SUFFICES ASSUME SourceInv, Open PROVE SourceInv'
  OBVIOUS
<1>1. /\ fate = "walking" /\ UNCHANGED <<conn, listing, refused, steady>>
      /\ \/ cur' = [cur EXCEPT !.session = "open"] /\ UNCHANGED <<got, lost, capped, fate>>
         \/ Raise
  BY DEF Open
<1>2. cur \in CurType /\ cur.tries \in 0..(Retries - 1) /\ refused \in BOOLEAN
      /\ (refused => conn \notin Archer \cup {"snow"})
  BY <1>1, WalkingIsWelcome
<1>3. CASE Raise
  BY <1>1, <1>2, <1>3, RaiseInv
<1>4. CASE cur' = [cur EXCEPT !.session = "open"] /\ UNCHANGED <<got, lost, capped, fate>>
  <2>1. cur' = [cur EXCEPT !.tries = cur.tries, !.session = "open"]
    BY <1>2, <1>4 DEF CurType
  <2> QED
    BY <1>1, <1>2, <1>4, <2>1, RetryInv
<1> QED
  BY <1>1, <1>3, <1>4

LEMMA FinishInv == SourceInv /\ (Finish \/ IterFiles) => SourceInv'
<1>1. ASSUME SourceInv, Finish PROVE SourceInv'
  BY <1>1, FateInv, WalkingIsWelcome DEF Finish
<1>2. ASSUME SourceInv, IterFiles PROVE SourceInv'
  BY <1>2, FateInv DEF IterFiles, SourceInv, SourceTyped, RefusalFits
<1> QED
  BY <1>1, <1>2

LEMMA ServerInv == SourceInv /\ ServerChanges => SourceInv'
<1> SUFFICES ASSUME SourceInv, ServerChanges PROVE SourceInv'
  OBVIOUS
<1>1. /\ fate = "walking" /\ steady' = FALSE
      /\ UNCHANGED <<conn, got, lost, capped, fate, refused>>
  BY DEF ServerChanges
<1>2. CASE /\ \E u \in Units : \/ listing' = [listing EXCEPT ![u] = <<Fresh>> \o listing[u]]
                               \/ listing[u] # <<>> /\ listing' = [listing EXCEPT ![u] = Tail(listing[u])]
           /\ UNCHANGED cur
  <2>1. \A s \in Seq(Things) : <<Fresh>> \o s \in Seq(Things)
    <3>1. <<Fresh>> \in Seq(Things)
      BY DEF Things
    <3> QED
      BY <3>1, ConcatProperties
  <2>2. \A s \in Seq(Things) : s # <<>> => Tail(s) \in Seq(Things)
    BY HeadTailProperties
  <2>3. listing' \in [Units -> Seq(Things)]
    BY <1>2, <2>1, <2>2 DEF SourceInv, SourceTyped
  <2>4. SourceTyped' /\ PlaceFits' /\ RefusalFits' /\ CapFits'
    BY <1>1, <1>2, <2>3
    DEF SourceInv, SourceTyped, PlaceFits, RefusalFits, RefusalIsLoud, CapFits, CapIsExact, Caps,
        Taken
  <2> QED
    BY <1>1, <2>4 DEF SourceInv
<1>3. CASE /\ conn \in Archer /\ cur.asked = 0 /\ cur.unit \in Units
           /\ cur' = [cur EXCEPT !.asked = PageSize, !.size = 0, !.total = Len(listing[cur.unit]),
                                 !.empty = cur.empty + 1]
           /\ UNCHANGED listing
  <2>1. /\ cur \in CurType /\ cur.empty + 1 \in Nat /\ Len(listing[cur.unit]) \in Nat
        /\ PageSize \in Nat /\ PageSize # 0
    BY <1>3, LenProperties, SourceAssumption DEF SourceInv, SourceTyped, CurType
  <2>2. /\ cur'.unit = cur.unit /\ cur'.page = cur.page /\ cur'.asked = PageSize
        /\ cur' \in CurType
    BY <1>3, <2>1 DEF CurType
  <2>3. SourceTyped' /\ PlaceFits' /\ RefusalFits'
    BY <1>1, <1>3, <2>1, <2>2
    DEF SourceInv, SourceTyped, PlaceFits, RefusalFits, RefusalIsLoud
  <2>4. CapFits'
    BY <1>1, <1>3, <2>2 DEF SourceInv, CapFits, CapIsExact, Caps, Taken, Archer
  <2> QED
    BY <1>1, <2>3, <2>4 DEF SourceInv
<1> QED
  BY <1>2, <1>3 DEF ServerChanges

LEMMA SourceInvIsPullSafe == SourceInv => PullSafe
<1> SUFFICES ASSUME SourceInv PROVE PullSafe
  OBVIOUS
<1>1. SourceTypeOK
  BY SourceAssumption DEF SourceInv, SourceTyped, CurType, SourceTypeOK
<1>2. CapIsExact /\ RefusalIsLoud
  BY DEF SourceInv, CapFits, RefusalFits
<1>3. ReadWhole
  <2> SUFFICES ASSUME fate = "done", steady, NEW u \in Units
               PROVE  /\ Simple(got[u])
                      /\ u \notin lost \cup capped =>
                            Members(listing[u]) \subseteq UNION {Members(got[v]) : v \in Units}
    BY DEF ReadWhole
  <2>1. Simple(got[u]) /\ listing = Content /\ cur.unit \notin Units
    BY DEF SourceInv, YieldFits, PlaceFits
  <2>2. u < cur.unit
    BY <2>1, UnitsAreNumbered DEF SourceInv, SourceTyped, CurType
  <2>3. u \notin lost \cup capped => ReadUpTo(u, Len(Content[u]))
    BY <2>2 DEF SourceInv, YieldFits
  <2>4. ASSUME ReadUpTo(u, Len(Content[u])), NEW x \in Members(listing[u])
        PROVE  x \in UNION {Members(got[v]) : v \in Units}
    <3>1. PICK i \in 1..Len(Content[u]) : x = Content[u][i]
      BY <2>1, <2>4 DEF Members
    <3>2. i <= Len(Content[u])
      BY UnitsAreNumbered
    <3>3. Has(u, x)
      BY <2>4, <3>1, <3>2 DEF ReadUpTo
    <3> QED
      BY <3>3 DEF Has
  <2> QED
    BY <2>1, <2>3, <2>4
<1> QED
  BY <1>1, <1>2, <1>3 DEF PullSafe

LEMMA NextSourceInv == SourceInv /\ [SourceNext]_sourceVars => SourceInv'
<1> SUFFICES ASSUME SourceInv, [SourceNext]_sourceVars PROVE SourceInv'
  OBVIOUS
<1>1. CASE IterFiles \/ Finish
  BY <1>1, FinishInv
<1>2. CASE Open
  BY <1>2, OpenInv
<1>3. CASE Deliver
  BY <1>3, DeliverInv
<1>4. CASE SkipItem
  BY <1>4, SkipInv
<1>5. CASE TurnPage
  BY <1>5, TurnPageInv
<1>6. CASE \E r \in Replies : Ask(r)
  BY <1>6, AskInv
<1>7. CASE ServerChanges
  BY <1>7, ServerInv
<1>8. CASE UNCHANGED sourceVars
  <2>1. UNCHANGED <<conn, listing, cur, got, lost, capped, fate, refused, steady>>
    BY <1>8 DEF sourceVars
  <2>2. SourceTyped' = SourceTyped /\ PlaceFits' = PlaceFits /\ CapFits' = CapFits
    BY <2>1 DEF SourceTyped, PlaceFits, CapFits, CapIsExact, Caps, Taken
  <2>3. RefusalFits' = RefusalFits /\ PageFits' = PageFits /\ YieldFits' = YieldFits
    BY <2>1 DEF RefusalFits, RefusalIsLoud, PageFits, YieldFits, ReadUpTo, Has, PassedItems
  <2> QED
    BY <2>1, <2>2, <2>3 DEF SourceInv
<1> QED
  BY <1>1, <1>2, <1>3, <1>4, <1>5, <1>6, <1>7, <1>8 DEF SourceNext, SourceStep

\* A pull that ends as if all was well has read the whole of what the connectors'
\* servers hold up to the caps, each item once, and was not refused: for every
\* connector, page size, cap and listing.
THEOREM PullsAreWhole == SourceSpec => []PullSafe
<1>1. SourceInit => SourceInv
  BY InitSourceInv
<1>2. SourceInv /\ [SourceNext]_sourceVars => SourceInv'
  BY NextSourceInv
<1>3. SourceInv => PullSafe
  BY SourceInvIsPullSafe
<1> QED
  BY <1>1, <1>2, <1>3, PTL DEF SourceSpec

-----------------------------------------------------------------------------
(* The walk of one ingest: rows and texts.                                 *)
All == rows \cup pend

Marks(f) == {FirstText[f], NewText[f]}

(* What a content has to its account: a row, or one that went since.        *)
Held == walk.gone \cup {r.sha : r \in All}

Accounted(f) == f \in walk.unread \/ Marks(f) \cap Held # {}

WalkTyped ==
    /\ OnShelf \subseteq DOMAIN says /\ \A f \in OnShelf : says[f] \in Marks(f)
    /\ \A r \in All : r.id \in Ids /\ r.file \in OnShelf /\ r.sha \in Marks(r.file)
    /\ evicting \subseteq IdsOf(rows) /\ unlinking \subseteq Ids
    /\ DOMAIN texts = Ids
    /\ DOMAIN walk = {"at", "todo", "file", "sha", "batch", "unread", "gone", "steady"}
    /\ walk.at \in {"idle", "walking", "counting", "evicting", "done", "failed"}
    /\ walk.todo \in Seq(OnShelf)
    /\ walk.batch \in Nat /\ walk.batch < BatchSize
    /\ walk.unread \subseteq OnShelf
    /\ mishaps \in 0..MaxMishaps

PhasesFit ==
    /\ pend # {} => walk.at \in {"walking", "counting"}
    /\ evicting # {} => walk.at = "evicting"
    /\ walk.at \in {"evicting", "done"} => walk.todo = <<>>

(* The file that was hashed has no row yet. *)
HashedFits ==
    walk.file # NoFile =>
        /\ walk.at = "walking" /\ walk.todo # <<>>
        /\ walk.file = Head(walk.todo) /\ walk.sha \in Marks(walk.file)
        /\ \A r \in All : r.file # walk.file /\ r.sha # walk.sha

(* The ids last to the end of the walk. *)
IdsSuffice ==
    walk.at \in {"walking", "counting"} =>
        \A i \in {0} \cup IdsOf(All) : i + Len(walk.todo) <= MaxId

RowsDiffer ==
    \A r, other \in All :
        r # other => r.file # other.file /\ r.sha # other.sha /\ r.id # other.id

TextsFit == \A r \in All : r.words # NoText => texts[r.id] \in {r.words, NoText}

EvictedAreGone == \A r \in rows : r.id \in evicting => r.sha \in walk.gone

FilesAreAccounted ==
    walk.at \in {"walking", "counting", "evicting", "done"} =>
        \A f \in OnShelf \ Unsupported :
            Accounted(f) \/ \E i \in DOMAIN walk.todo : walk.todo[i] = f

WalkInv ==
    /\ WalkTyped
    /\ PhasesFit
    /\ HashedFits
    /\ IdsSuffice
    /\ RowsDiffer
    /\ TextsFit
    /\ EvictedAreGone
    /\ FilesAreAccounted

LEMMA WalkInvIsSafe == WalkInv => WalkSafe
<1> SUFFICES ASSUME WalkInv PROVE WalkSafe
  OBVIOUS
<1>1. IngestWalkTypeOK
  BY DEF WalkInv, WalkTyped, PhasesFit, IngestWalkTypeOK, All, IdsOf
<1>2. Visible \subseteq All
  BY DEF Visible, All
<1>3. OneRowPerFile /\ NoForeignText
  BY <1>2 DEF WalkInv, RowsDiffer, TextsFit, OneRowPerFile, NoForeignText
<1>4. WalkAccounts
  <2> SUFFICES ASSUME walk.at = "done", NEW f \in OnShelf \ Unsupported, f \notin walk.unread
               PROVE  Marks(f) \cap (walk.gone \cup {r.sha : r \in rows}) # {}
    BY DEF WalkAccounts, Marks
  <2>1. pend = {} /\ walk.todo = <<>>
    BY DEF WalkInv, PhasesFit
  <2>2. Accounted(f)
    BY <2>1 DEF WalkInv, FilesAreAccounted
  <2>3. Held = walk.gone \cup {r.sha : r \in rows}
    BY <2>1 DEF Held, All
  <2> QED
    BY <2>2, <2>3 DEF Accounted
<1> QED
  BY <1>1, <1>3, <1>4 DEF WalkSafe

LEMMA LeastExists ==
  ASSUME NEW S \in SUBSET Nat, S # {}
  PROVE  \E i \in S : \A j \in S : i <= j
<1>1. PICK i \in S : \A j \in S : ~(<<j, i>> \in OpToRel(<, Nat))
  BY NatLessThanWellFounded, WFMin
<1>2. ASSUME NEW j \in S, ~(i <= j) PROVE FALSE
  <2>1. <<j, i>> \in Nat \X Nat /\ <<j, i>>[1] = j /\ <<j, i>>[2] = i
    OBVIOUS
  <2>2. j < i
    BY <1>2
  <2>3. <<j, i>>[1] < <<j, i>>[2]
    BY <2>1, <2>2
  <2>4. <<j, i>> \in {ss \in Nat \X Nat : ss[1] < ss[2]}
    BY <2>1, <2>3
  <2>5. <<j, i>> \in OpToRel(<, Nat)
    BY <2>4, Zenon DEF OpToRel
  <2> QED
    BY <1>1, <2>5
<1> QED
  BY <1>2

LEMMA LargestExists ==
  ASSUME NEW n \in Nat, NEW S \in SUBSET (0..n), S # {}
  PROVE  Max(S) \in S /\ \A y \in S : y <= Max(S)
<1> DEFINE T == {n - x : x \in S}
<1>1. \A x \in S : x \in Nat /\ n - x \in Nat
  <2> TAKE x \in S
  <2>1. x \in Nat /\ x <= n
    OBVIOUS
  <2> QED
    BY <2>1
<1>2. T \in SUBSET Nat /\ T # {}
  BY <1>1
<1>3. PICK t \in T : \A u \in T : t <= u
  <2> HIDE DEF T
  <2> QED
    BY <1>2, LeastExists
<1>4. PICK m \in S : t = n - m
  BY <1>3
<1>5. ASSUME NEW y \in S PROVE m >= y
  <2>1. n - m <= n - y /\ m \in Nat /\ y \in Nat
    BY <1>1, <1>3, <1>4
  <2> QED
    BY <2>1
<1>6. \A y \in S : m >= y
  BY <1>5
<1>7. Max(S) \in S /\ \A y \in S : Max(S) >= y
  BY <1>6 DEF Max
<1>8. \A y \in S : y \in Nat
  BY <1>1
<1> QED
  BY <1>7, <1>8

LEMMA FreeIdIs ==
  ASSUME WalkTyped
  PROVE  /\ FreeId \in Nat \ {0}
         /\ \A r \in Visible : r.id < FreeId
         /\ \E i \in {0} \cup IdsOf(All) : FreeId = i + 1
<1> DEFINE S == {0} \cup IdsOf(Visible)
<1>1. MaxId \in Nat
  BY IngestWalkAssumption
<1>2. S \in SUBSET (0..MaxId) /\ S # {}
  BY <1>1 DEF WalkTyped, IdsOf, Visible, All, Ids
<1> DEFINE m == Max(S)
<1>3. FreeId = m + 1
  BY DEF FreeId
<1>4. S \subseteq {0} \cup IdsOf(All)
  BY DEF IdsOf, Visible, All
<1>5. \A r \in Visible : r.id \in S
  BY DEF IdsOf
<1> HIDE DEF S
<1>6. m \in S /\ \A y \in S : y <= m
  BY <1>1, <1>2, LargestExists
<1> HIDE DEF m
<1>7. \A y \in S : y \in Nat
  <2> TAKE y \in S
  <2>1. y \in 0..MaxId
    BY <1>2
  <2> QED
    BY <1>1, <2>1
<1>8. \A r \in Visible : r.id \in Nat /\ r.id <= m
  BY <1>5, <1>6, <1>7
<1>9. m \in Nat
  BY <1>6, <1>7
<1> QED
  BY <1>3, <1>4, <1>6, <1>8, <1>9
LEMMA TailIs ==
  ASSUME NEW S, NEW s \in Seq(S), s # <<>>
  PROVE  /\ Tail(s) \in Seq(S) /\ Head(s) \in S
         /\ Len(s) \in Nat \ {0} /\ Len(Tail(s)) + 1 = Len(s)
         /\ \A i \in DOMAIN s :
               s[i] = Head(s) \/ \E j \in DOMAIN Tail(s) : Tail(s)[j] = s[i]
<1>1. Len(s) \in Nat \ {0} /\ DOMAIN s = 1..Len(s) /\ Head(s) = s[1] /\ Head(s) \in S
  OBVIOUS
<1>2. /\ Tail(s) \in Seq(S) /\ Len(Tail(s)) = Len(s) - 1
      /\ \A j \in 1..(Len(s) - 1) : Tail(s)[j] = s[j + 1]
  OBVIOUS
<1>3. ASSUME NEW i \in DOMAIN s, i # 1
      PROVE  \E j \in DOMAIN Tail(s) : Tail(s)[j] = s[i]
  <2>1. i - 1 \in 1..(Len(s) - 1) /\ (i - 1) + 1 = i
    BY <1>1, <1>3
  <2>2. Tail(s)[i - 1] = s[i] /\ i - 1 \in DOMAIN Tail(s)
    BY <1>2, <2>1
  <2> QED
    BY <2>2
<1> QED
  BY <1>1, <1>2, <1>3

LEMMA AccountStays ==
  ASSUME walk.unread \subseteq walk'.unread, Held \subseteq Held'
  PROVE  \A f : Accounted(f) => Accounted(f)'
  BY DEF Accounted, Marks

(* A step of the walk within its files keeps what was accounted for.        *)
LEMMA FilesStay ==
  ASSUME FilesAreAccounted, walk.at \in {"walking", "counting", "evicting", "done"},
         walk.unread \subseteq walk'.unread, Held \subseteq Held', walk'.todo = walk.todo
  PROVE  FilesAreAccounted'
  BY AccountStays DEF FilesAreAccounted

(* The next file was passed, and is accounted for or of no known type.      *)
LEMMA FilePassed ==
  ASSUME FilesAreAccounted, walk.at \in {"walking", "counting", "evicting", "done"},
         walk.todo \in Seq(OnShelf), walk.todo # <<>>, NEW file, file = Head(walk.todo),
         walk.unread \subseteq walk'.unread, Held \subseteq Held', walk'.todo = Tail(walk.todo),
         Accounted(file)' \/ file \in Unsupported
  PROVE  FilesAreAccounted'
<1>1. \A i \in DOMAIN walk.todo :
         \/ walk.todo[i] = file
         \/ \E j \in DOMAIN Tail(walk.todo) : Tail(walk.todo)[j] = walk.todo[i]
  BY TailIs
<1> QED
  BY <1>1, AccountStays DEF FilesAreAccounted

LEMMA StartWalkKeeps ==
  ASSUME WalkInv, StartWalk
  PROVE  WalkInv'
<1>1. /\ walk.at \in {"idle", "done", "failed"} /\ IdsLast
      /\ walk' = [Idle EXCEPT !.at = "walking", !.todo = Shelf]
      /\ says' = says /\ rows' = rows /\ pend' = pend /\ evicting' = evicting
      /\ texts' = texts /\ unlinking' = unlinking /\ mishaps' = mishaps
  BY DEF StartWalk
<1>2. /\ walk'.at = "walking" /\ walk'.todo = Shelf /\ walk'.file = NoFile /\ walk'.batch = 0
      /\ walk'.unread = {}
      /\ DOMAIN walk' = {"at", "todo", "file", "sha", "batch", "unread", "gone", "steady"}
  BY <1>1 DEF Idle
<1>3. pend = {} /\ evicting = {} /\ All' = All /\ Visible = All
  BY <1>1 DEF WalkInv, PhasesFit, All, Visible
<1>4. WalkTyped'
  BY <1>1, <1>2, <1>3, IngestWalkAssumption DEF WalkInv, WalkTyped, Marks
<1>5. IdsSuffice'
  <2> DEFINE n == Len(Shelf)
             k == FreeId
  <2>1. n \in Nat /\ k \in Nat \ {0} /\ MaxId \in Nat /\ k + n <= MaxId + 1
    BY <1>1, FreeIdIs, IngestWalkAssumption DEF WalkInv, IdsLast
  <2>2. \A i \in {0} \cup IdsOf(All) : i \in Nat /\ i < k
    BY <2>1, <1>3, FreeIdIs, IngestWalkAssumption DEF WalkInv, WalkTyped, IdsOf, Ids
  <2> HIDE DEF n, k
  <2>3. \A i \in {0} \cup IdsOf(All) : i + n <= MaxId
    BY <2>1, <2>2
  <2> QED
    BY <1>2, <1>3, <2>3 DEF IdsSuffice, IdsOf, n
<1>6. RowsDiffer' /\ TextsFit'
  BY <1>1, <1>3 DEF WalkInv, RowsDiffer, TextsFit
<1>7. PhasesFit' /\ HashedFits' /\ EvictedAreGone'
  BY <1>1, <1>2, <1>3 DEF PhasesFit, HashedFits, EvictedAreGone
<1>8. FilesAreAccounted'
  BY <1>2 DEF FilesAreAccounted, OnShelf
<1> QED
  BY <1>4, <1>5, <1>6, <1>7, <1>8 DEF WalkInv

LEMMA PassedIs ==
  ASSUME WalkTyped
  PROVE  /\ Passed.at = walk.at /\ Passed.todo = Tail(walk.todo) /\ Passed.file = NoFile
         /\ Passed.batch = walk.batch /\ Passed.unread = walk.unread /\ Passed.gone = walk.gone
         /\ DOMAIN Passed = DOMAIN walk
  BY DEF WalkTyped, Passed

(* A step that passes the next file and writes no row. *)
LEMMA PassingKeeps ==
  ASSUME WalkInv, walk.at = "walking", walk.todo # <<>>, NEW file, file = Head(walk.todo),
         UNCHANGED <<says, rows, pend, evicting, texts, unlinking>>, mishaps' \in 0..MaxMishaps,
         DOMAIN walk' = DOMAIN walk,
         walk'.at = "walking", walk'.todo = Tail(walk.todo), walk'.file = NoFile,
         walk'.batch = walk.batch, walk'.gone = walk.gone,
         walk.unread \subseteq walk'.unread, walk'.unread \subseteq OnShelf,
         Accounted(file)' \/ file \in Unsupported
  PROVE  WalkInv'
<1>1. All' = All /\ Held' = Held
  BY DEF All, Held
<1>2. /\ Tail(walk.todo) \in Seq(OnShelf) /\ Len(Tail(walk.todo)) + 1 = Len(walk.todo)
      /\ Len(walk.todo) \in Nat /\ Len(Tail(walk.todo)) \in Nat
  BY TailIs DEF WalkInv, WalkTyped
<1>3. WalkTyped'
  BY <1>1, <1>2 DEF WalkInv, WalkTyped, Marks
<1>4. PhasesFit' /\ HashedFits' /\ RowsDiffer' /\ TextsFit' /\ EvictedAreGone'
  BY <1>1 DEF WalkInv, PhasesFit, HashedFits, RowsDiffer, TextsFit, EvictedAreGone
<1>5. IdsSuffice'
  <2> DEFINE n == Len(walk.todo)
             k == Len(Tail(walk.todo))
  <2>1. n \in Nat /\ k \in Nat /\ k + 1 = n /\ MaxId \in Nat
    BY <1>2, IngestWalkAssumption
  <2>2. \A i \in {0} \cup IdsOf(All) : i \in Nat /\ i + n <= MaxId
    BY IngestWalkAssumption DEF WalkInv, WalkTyped, IdsSuffice, IdsOf, Ids
  <2>3. Len(walk'.todo) = k
    OBVIOUS
  <2> HIDE DEF n, k
  <2>4. \A i \in {0} \cup IdsOf(All) : i + k <= MaxId
    <3> TAKE i \in {0} \cup IdsOf(All)
    <3>1. i \in Nat /\ i + n <= MaxId
      BY <2>2
    <3> QED
      BY <2>1, <3>1
  <2> QED
    BY <1>1, <2>3, <2>4 DEF IdsSuffice, IdsOf
<1>6. FilesAreAccounted'
  BY <1>1, FilePassed DEF WalkInv, WalkTyped
<1> QED
  BY <1>3, <1>4, <1>5, <1>6 DEF WalkInv

LEMMA HashFileKeeps ==
  ASSUME WalkInv, HashFile
  PROVE  WalkInv'
<1> PICK file : file = Head(walk.todo)
  OBVIOUS
<1>1. /\ walk.at = "walking" /\ walk.file = NoFile /\ walk.todo # <<>> /\ WalkTyped
      /\ UNCHANGED <<says, rows, pend, evicting, texts, unlinking>>
      /\ mishaps \in 0..MaxMishaps
  BY DEF HashFile, WalkInv, WalkTyped
<1>2. file \in OnShelf /\ says[file] \in Marks(file)
  BY <1>1, TailIs DEF WalkTyped
<1>3. evicting = {} /\ Visible = All /\ All' = All /\ Held = walk.gone \cup {r.sha : r \in All}
  BY <1>1 DEF WalkInv, PhasesFit, All, Visible, Held
<1>4. \/ walk' = Passed /\ Known(file, says[file]) /\ UNCHANGED mishaps
      \/ /\ walk' = [walk EXCEPT !.file = file, !.sha = says[file]] /\ UNCHANGED mishaps
         /\ ~Known(file, says[file])
      \/ walk' = [Passed EXCEPT !.unread = @ \cup {file}, !.steady = FALSE] /\ Mishap
  BY DEF HashFile
<1>5. CASE walk' = Passed /\ Known(file, says[file]) /\ UNCHANGED mishaps
  <2>1. PICK r \in All : r.file = file \/ r.sha = says[file]
    BY <1>3, <1>5 DEF Known
  <2>2. r.sha \in Marks(file)
    BY <1>1, <1>2, <2>1 DEF WalkTyped
  <2>3. Held' = Held /\ walk'.unread = walk.unread
    BY <1>1, <1>3, <1>5, PassedIs DEF Held, All
  <2>4. Accounted(file)
    BY <2>2, <1>3 DEF Accounted
  <2>5. Accounted(file)'
    BY <2>3, <2>4, AccountStays
  <2> QED
    BY <1>1, <1>5, <2>5, PassedIs, PassingKeeps DEF WalkTyped
<1>6. CASE walk' = [Passed EXCEPT !.unread = @ \cup {file}, !.steady = FALSE] /\ Mishap
  <2>1. /\ walk'.at = walk.at /\ walk'.todo = Tail(walk.todo) /\ walk'.file = NoFile
        /\ walk'.batch = walk.batch /\ walk'.unread = walk.unread \cup {file}
        /\ walk'.gone = walk.gone /\ DOMAIN walk' = DOMAIN walk
    BY <1>1, <1>6, PassedIs DEF WalkTyped
  <2>2. Accounted(file)'
    BY <2>1 DEF Accounted
  <2>3. mishaps' \in 0..MaxMishaps
    BY <1>1, <1>6, IngestWalkAssumption DEF Mishap
  <2>4. walk'.unread \subseteq OnShelf
    BY <1>1, <1>2, <2>1 DEF WalkTyped
  <2> QED
    BY <1>1, <2>1, <2>2, <2>3, <2>4, PassingKeeps
<1>7. CASE /\ walk' = [walk EXCEPT !.file = file, !.sha = says[file]] /\ UNCHANGED mishaps
           /\ ~Known(file, says[file])
  <2>1. /\ walk'.at = walk.at /\ walk'.todo = walk.todo /\ walk'.file = file
        /\ walk'.sha = says[file]
        /\ walk'.batch = walk.batch /\ walk'.unread = walk.unread
        /\ walk'.gone = walk.gone /\ DOMAIN walk' = DOMAIN walk
    BY <1>1, <1>7 DEF WalkTyped
  <2>2. WalkTyped'
    BY <1>1, <1>3, <1>7, <2>1 DEF WalkTyped, Marks
  <2>3. PhasesFit' /\ RowsDiffer' /\ TextsFit' /\ EvictedAreGone' /\ IdsSuffice'
    BY <1>1, <1>3, <2>1 DEF WalkInv, PhasesFit, RowsDiffer, TextsFit, EvictedAreGone,
       IdsSuffice, IdsOf
  <2>4. HashedFits'
    BY <1>1, <1>2, <1>3, <1>7, <2>1 DEF HashedFits, Known, Marks
  <2>5. Held' = Held
    BY <1>3, <2>1 DEF Held
  <2>6. FilesAreAccounted'
    BY <1>1, <2>1, <2>5, FilesStay DEF WalkInv
  <2> QED
    BY <2>2, <2>3, <2>4, <2>6 DEF WalkInv
<1> QED
  BY <1>4, <1>5, <1>6, <1>7

LEMMA SkipTypeKeeps ==
  ASSUME WalkInv, SkipType
  PROVE  WalkInv'
<1>1. /\ walk.at = "walking" /\ walk.file \in Unsupported /\ walk' = Passed
      /\ UNCHANGED <<says, rows, pend, evicting, texts, unlinking>> /\ mishaps' = mishaps
  BY DEF SkipType
<1>2. walk.todo # <<>> /\ Head(walk.todo) = walk.file
  BY <1>1, IngestWalkAssumption DEF WalkInv, HashedFits
<1>3. WalkTyped /\ mishaps \in 0..MaxMishaps /\ walk.unread \subseteq OnShelf
  BY DEF WalkInv, WalkTyped
<1> QED
  BY <1>1, <1>2, <1>3, PassedIs, PassingKeeps
LEMMA ReadFileKeeps ==
  ASSUME WalkInv, NEW whole \in BOOLEAN, NEW tagged \in BOOLEAN, ReadFile(whole, tagged)
  PROVE  WalkInv'
<1>1. /\ walk.at = "walking" /\ walk.file \in OnShelf \ Unsupported
      /\ walk' = [Passed EXCEPT !.at = "counting", !.steady = @ /\ whole]
      /\ says' = says /\ rows' = rows /\ evicting' = evicting /\ unlinking' = unlinking
      /\ WalkTyped
  BY DEF ReadFile, WalkInv
<1>2. PICK words, id, file, sha :
         /\ id = FreeId /\ file = walk.file /\ sha = walk.sha
         /\ pend' = pend \cup {[id |-> id, file |-> file, sha |-> sha,
                                words |-> words, whole |-> whole, tagged |-> tagged]}
         /\ texts' = Written(id, words)
  BY DEF ReadFile
<1> DEFINE new == [id |-> id, file |-> file, sha |-> sha,
                   words |-> words, whole |-> whole, tagged |-> tagged]
<1>3. /\ new.id = id /\ new.file = file /\ new.sha = sha /\ new.words = words
      /\ pend' = pend \cup {new}
  BY <1>2
<1> HIDE DEF new
<1>4. All' = All \cup {new}
  BY <1>1, <1>3 DEF All
<1>5. evicting = {} /\ Visible = All
  BY <1>1 DEF WalkInv, PhasesFit, Visible, All
<1>6. /\ walk.file # NoFile
      /\ walk.todo # <<>> /\ file = Head(walk.todo) /\ sha \in Marks(file)
      /\ \A r \in All : r.file # file /\ r.sha # sha
  BY <1>1, <1>2, IngestWalkAssumption DEF WalkInv, HashedFits
<1>7. /\ id \in Nat \ {0}
      /\ \A r \in All : r.id < id
      /\ \E i \in {0} \cup IdsOf(All) : id = i + 1
  BY <1>1, <1>2, <1>5, FreeIdIs
<1>8. /\ walk'.at = "counting" /\ walk'.todo = Tail(walk.todo) /\ walk'.file = NoFile
      /\ walk'.batch = walk.batch /\ walk'.unread = walk.unread /\ walk'.gone = walk.gone
      /\ DOMAIN walk' = DOMAIN walk
  BY <1>1, PassedIs DEF WalkTyped
<1>9. /\ Tail(walk.todo) \in Seq(OnShelf) /\ Len(Tail(walk.todo)) + 1 = Len(walk.todo)
      /\ Len(walk.todo) \in Nat /\ Len(Tail(walk.todo)) \in Nat
  BY <1>1, <1>6, TailIs DEF WalkTyped
<1>10. \A i \in {0} \cup IdsOf(All) : i \in Nat /\ i + Len(walk.todo) <= MaxId
  BY <1>1, IngestWalkAssumption DEF WalkInv, WalkTyped, IdsSuffice, IdsOf, Ids
<1>11. id + Len(Tail(walk.todo)) <= MaxId /\ id \in Ids
       /\ \A i \in {0} \cup IdsOf(All) : i + Len(Tail(walk.todo)) <= MaxId
  <2> DEFINE n == Len(walk.todo)
             k == Len(Tail(walk.todo))
  <2>1. n \in Nat /\ k \in Nat /\ k + 1 = n /\ MaxId \in Nat
    BY <1>9, IngestWalkAssumption
  <2>2. \A i \in {0} \cup IdsOf(All) : i \in Nat /\ i + n <= MaxId
    BY <1>10
  <2> HIDE DEF n, k
  <2>3. PICK i \in {0} \cup IdsOf(All) : id = i + 1
    BY <1>7
  <2>4. id + k <= MaxId /\ id <= MaxId
    BY <2>1, <2>2, <2>3, <1>7
  <2>5. ASSUME NEW j \in {0} \cup IdsOf(All) PROVE j + k <= MaxId
    <3>1. j \in Nat /\ j + n <= MaxId
      BY <2>2
    <3> QED
      BY <2>1, <3>1
  <2>6. id \in Ids
    BY <2>1, <2>4, <1>7 DEF Ids
  <2> QED
    BY <2>4, <2>5, <2>6 DEF k
<1>12. mishaps' \in 0..MaxMishaps
  BY <1>1, IngestWalkAssumption DEF ReadFile, Mishap, WalkTyped
<1>13. DOMAIN texts' = Ids /\ (words = NoText \/ texts'[id] = words)
       /\ \A j \in Ids : j # id => texts'[j] = texts[j]
  BY <1>1, <1>2, <1>11 DEF Written, WalkTyped
<1>14. \A r \in All : r.id # id /\ r.id \in Ids
  <2> TAKE r \in All
  <2>1. r.id \in Ids /\ r.id < id /\ MaxId \in Nat
    BY <1>1, <1>7, IngestWalkAssumption DEF WalkTyped
  <2> QED
    BY <2>1, <1>7 DEF Ids
<1>15. WalkTyped'
  <2>1. \A r \in All' : r.id \in Ids /\ r.file \in OnShelf /\ r.sha \in Marks(r.file)
    BY <1>1, <1>2, <1>3, <1>4, <1>6, <1>11 DEF WalkTyped
  <2>2. evicting' \subseteq IdsOf(rows)' /\ unlinking' \subseteq Ids
    BY <1>1, <1>5 DEF WalkTyped
  <2>3. OnShelf \subseteq DOMAIN says' /\ \A f \in OnShelf : says'[f] \in Marks(f)
    BY <1>1 DEF WalkTyped
  <2> QED
    BY <1>1, <1>8, <1>9, <1>12, <1>13, <2>1, <2>2, <2>3 DEF WalkTyped, Marks
<1>16. PhasesFit' /\ HashedFits' /\ EvictedAreGone'
  BY <1>1, <1>5, <1>8 DEF PhasesFit, HashedFits, EvictedAreGone
<1>17. RowsDiffer'
  BY <1>3, <1>4, <1>6, <1>14 DEF WalkInv, RowsDiffer
<1>18. IdsSuffice'
  <2>1. \A i \in {0} \cup IdsOf(All)' : i = id \/ i \in {0} \cup IdsOf(All)
    BY <1>3, <1>4 DEF IdsOf
  <2> QED
    BY <2>1, <1>8, <1>11 DEF IdsSuffice
<1>19. TextsFit'
  BY <1>3, <1>4, <1>13, <1>14 DEF WalkInv, TextsFit
<1>20. FilesAreAccounted'
  <2>1. Held' = Held \cup {sha}
    BY <1>3, <1>4, <1>8 DEF Held
  <2>2. Accounted(file)'
    BY <1>6, <2>1 DEF Accounted, Marks
  <2> QED
    BY <1>1, <1>6, <1>8, <2>1, <2>2, FilePassed DEF WalkInv, WalkTyped
<1> QED
  BY <1>15, <1>16, <1>17, <1>18, <1>19, <1>20 DEF WalkInv

(* A step that only moves rows between the transaction and the database, or *)
(* only moves the walk on.                                                 *)
LEMMA RowsStay ==
  ASSUME WalkInv, All' = All, IdsOf(rows) \subseteq IdsOf(rows)', evicting = {},
         evicting' = {},
         UNCHANGED <<says, texts, unlinking>>, mishaps' \in 0..MaxMishaps,
         DOMAIN walk' = DOMAIN walk,
         walk'.at \in {"walking", "evicting"}, walk.at \in {"walking", "counting"},
         pend' # {} => walk'.at = "walking",
         walk'.todo = walk.todo, walk'.file = walk.file, walk'.sha = walk.sha,
         walk'.gone = walk.gone, walk'.unread = walk.unread,
         walk'.batch \in Nat /\ walk'.batch < BatchSize,
         walk'.at = "evicting" => walk.todo = <<>>
  PROVE  WalkInv'
<1>1. WalkTyped'
  BY DEF WalkInv, WalkTyped, Marks
<1>2. HashedFits'
  BY DEF WalkInv, HashedFits, Marks
<1>3. PhasesFit' /\ EvictedAreGone'
  BY DEF PhasesFit, EvictedAreGone
<1>4. RowsDiffer' /\ TextsFit' /\ IdsSuffice'
  BY DEF WalkInv, RowsDiffer, TextsFit, IdsSuffice, IdsOf
<1>5. Held' = Held
  BY DEF Held
<1>6. FilesAreAccounted'
  BY <1>5, FilesStay DEF WalkInv
<1> QED
  BY <1>1, <1>2, <1>3, <1>4, <1>6 DEF WalkInv

LEMMA CommitBatchKeeps ==
  ASSUME WalkInv, CommitBatch
  PROVE  WalkInv'
<1> DEFINE n == walk.batch
<1>1. /\ walk.at = "counting" /\ WalkTyped /\ evicting = {}
      /\ UNCHANGED <<says, evicting, texts, unlinking, mishaps>>
      /\ n \in Nat /\ BatchSize \in Nat \ {0} /\ mishaps \in 0..MaxMishaps
  BY IngestWalkAssumption DEF CommitBatch, WalkInv, WalkTyped, PhasesFit
<1>2. CASE n + 1 >= BatchSize
  <2>1. /\ rows' = rows \cup pend /\ pend' = {}
        /\ walk' = [walk EXCEPT !.at = "walking", !.batch = 0]
    BY <1>2 DEF CommitBatch
  <2>2. All' = All /\ IdsOf(rows) \subseteq IdsOf(rows)'
    BY <2>1 DEF All, IdsOf
  <2>3. /\ walk'.at = "walking" /\ walk'.batch = 0 /\ DOMAIN walk' = DOMAIN walk
        /\ walk'.todo = walk.todo /\ walk'.file = walk.file /\ walk'.sha = walk.sha
        /\ walk'.gone = walk.gone /\ walk'.unread = walk.unread
    BY <1>1, <2>1 DEF WalkTyped
  <2>4. walk'.batch \in Nat /\ walk'.batch < BatchSize
    BY <1>1, <2>3
  <2> QED
    BY <1>1, <2>1, <2>2, <2>3, <2>4, RowsStay
<1>3. CASE ~(n + 1 >= BatchSize)
  <2>1. /\ rows' = rows /\ pend' = pend
        /\ walk' = [walk EXCEPT !.at = "walking", !.batch = n + 1]
    BY <1>3 DEF CommitBatch
  <2>2. All' = All /\ IdsOf(rows) \subseteq IdsOf(rows)'
    BY <2>1 DEF All, IdsOf
  <2>3. /\ walk'.at = "walking" /\ walk'.batch = n + 1 /\ DOMAIN walk' = DOMAIN walk
        /\ walk'.todo = walk.todo /\ walk'.file = walk.file /\ walk'.sha = walk.sha
        /\ walk'.gone = walk.gone /\ walk'.unread = walk.unread
    BY <1>1, <2>1 DEF WalkTyped
  <2> HIDE DEF n
  <2>4. walk'.batch \in Nat /\ walk'.batch < BatchSize
    BY <1>1, <1>3, <2>3
  <2> QED
    BY <1>1, <2>1, <2>2, <2>3, <2>4, RowsStay
<1> QED
  BY <1>2, <1>3

LEMMA EndFilesKeeps ==
  ASSUME WalkInv, EndFiles
  PROVE  WalkInv'
<1>1. /\ walk.at = "walking" /\ walk.todo = <<>> /\ WalkTyped /\ evicting = {}
      /\ UNCHANGED <<says, evicting, texts, unlinking, mishaps>>
      /\ mishaps \in 0..MaxMishaps /\ walk.batch \in Nat /\ walk.batch < BatchSize
      /\ rows' = rows \cup pend /\ pend' = {} /\ walk' = [walk EXCEPT !.at = "evicting"]
  BY DEF EndFiles, WalkInv, WalkTyped, PhasesFit
<1>2. All' = All /\ IdsOf(rows) \subseteq IdsOf(rows)'
  BY <1>1 DEF All, IdsOf
<1>3. /\ walk'.at = "evicting" /\ walk'.batch = walk.batch /\ DOMAIN walk' = DOMAIN walk
      /\ walk'.todo = walk.todo /\ walk'.file = walk.file /\ walk'.sha = walk.sha
      /\ walk'.gone = walk.gone /\ walk'.unread = walk.unread
  BY <1>1 DEF WalkTyped
<1> QED
  BY <1>1, <1>2, <1>3, RowsStay

(* What was flushed goes when the session is rolled back.                   *)
LEMMA RollbackKeeps ==
  ASSUME WalkInv, rows' = rows, pend' = {}, evicting' \subseteq evicting,
         unlinking' \subseteq unlinking, UNCHANGED <<says, texts>>, Mishap,
         DOMAIN walk' = DOMAIN walk, walk'.at \in {"failed", "idle"}, walk'.file = NoFile,
         walk'.todo \in Seq(OnShelf), walk'.batch \in Nat /\ walk'.batch < BatchSize,
         walk'.unread \subseteq OnShelf, evicting' = {}
  PROVE  WalkInv'
<1>1. All' \subseteq All
  BY DEF All
<1>2. mishaps' \in 0..MaxMishaps
  BY IngestWalkAssumption DEF WalkInv, WalkTyped, Mishap
<1>3. WalkTyped'
  BY <1>1, <1>2 DEF WalkInv, WalkTyped, Marks
<1>4. RowsDiffer' /\ TextsFit'
  BY <1>1 DEF WalkInv, RowsDiffer, TextsFit
<1> QED
  BY <1>3, <1>4 DEF WalkInv, PhasesFit, HashedFits, IdsSuffice, EvictedAreGone,
     FilesAreAccounted

LEMMA BreaksOffKeeps ==
  ASSUME WalkInv, BreaksOff
  PROVE  WalkInv'
<1>1. /\ walk.at = "walking" /\ walk.file = NoFile /\ WalkTyped /\ evicting = {} /\ Mishap
      /\ UNCHANGED <<says, rows, evicting, texts, unlinking>> /\ pend' = {}
      /\ walk' = [walk EXCEPT !.at = "failed", !.steady = FALSE]
  BY DEF BreaksOff, WalkInv, PhasesFit
<1>2. /\ walk'.at = "failed" /\ walk'.batch = walk.batch /\ DOMAIN walk' = DOMAIN walk
      /\ walk'.todo = walk.todo /\ walk'.file = NoFile /\ walk'.unread = walk.unread
  BY <1>1 DEF WalkTyped
<1> QED
  BY <1>1, <1>2, RollbackKeeps DEF WalkTyped

LEMMA CrashKeeps ==
  ASSUME WalkInv, Crash
  PROVE  WalkInv'
<1>1. /\ UNCHANGED <<says, rows, texts>> /\ pend' = {} /\ evicting' = {} /\ unlinking' = {}
      /\ Mishap /\ walk' = [Idle EXCEPT !.steady = FALSE]
  BY DEF Crash
<1>2. /\ walk'.at = "idle" /\ walk'.batch = 0 /\ DOMAIN walk' = DOMAIN walk
      /\ walk'.todo = <<>> /\ walk'.file = NoFile /\ walk'.unread = {}
  BY <1>1 DEF WalkInv, WalkTyped, Idle
<1>3. walk'.batch < BatchSize /\ walk'.batch \in Nat /\ walk'.todo \in Seq(OnShelf)
  BY <1>2, IngestWalkAssumption
<1> QED
  BY <1>1, <1>2, <1>3, RollbackKeeps
LEMMA EvictKeeps ==
  ASSUME WalkInv, Evict
  PROVE  WalkInv'
<1>1. /\ walk.at = "evicting" /\ Evicts /\ WalkTyped /\ pend = {}
      /\ UNCHANGED <<says, rows, pend, unlinking, mishaps>>
  BY DEF Evict, WalkInv, PhasesFit
<1>2. \E r \in Visible : ~r.tagged /\ \A older \in Visible : older.id < r.id => older.tagged
  <2> DEFINE S == {r.id : r \in {q \in Visible : ~q.tagged}}
  <2>1. \A r \in Visible : r.id \in Nat
    BY <1>1, IngestWalkAssumption DEF WalkTyped, Visible, All, Ids
  <2>2. S \in SUBSET Nat /\ S # {}
    BY <1>1, <2>1 DEF Evicts
  <2>3. PICK least \in S : \A i \in S : least <= i
    <3> HIDE DEF S
    <3> QED
      BY <2>2, LeastExists
  <2>4. PICK r \in Visible : ~r.tagged /\ r.id = least
    BY <2>3
  <2>5. ASSUME NEW older \in Visible, ~older.tagged PROVE ~(older.id < r.id)
    <3>1. older.id \in S
      BY <2>5
    <3>2. r.id <= older.id /\ r.id \in Nat /\ older.id \in Nat
      BY <2>1, <2>3, <2>4, <3>1
    <3> QED
      BY <3>2
  <2> QED
    BY <2>4, <2>5
<1>3. PICK row \in Visible :
         /\ evicting' = evicting \cup {row.id}
         /\ texts' = IF row.words = NoText THEN texts ELSE [texts EXCEPT ![row.id] = NoText]
         /\ walk' = [walk EXCEPT !.gone = @ \cup {row.sha}]
  <2> DEFINE row == CHOOSE r \in Visible :
                      ~r.tagged /\ \A older \in Visible : older.id < r.id => older.tagged
  <2>1. row \in Visible
    BY <1>2
  <2>2. /\ evicting' = evicting \cup {row.id}
        /\ texts' = IF row.words = NoText THEN texts ELSE [texts EXCEPT ![row.id] = NoText]
        /\ walk' = [walk EXCEPT !.gone = @ \cup {row.sha}]
    BY DEF Evict
  <2> QED
    BY <2>1, <2>2
<1>4. row \in rows /\ All = rows /\ All' = All
  BY <1>1 DEF Visible, All
<1>5. /\ walk'.at = "evicting" /\ walk'.todo = walk.todo /\ walk'.file = walk.file
      /\ walk'.sha = walk.sha
      /\ walk'.batch = walk.batch /\ walk'.unread = walk.unread
      /\ walk'.gone = walk.gone \cup {row.sha} /\ DOMAIN walk' = DOMAIN walk
  BY <1>1, <1>3 DEF WalkTyped
<1>6. DOMAIN texts' = Ids /\ \A i \in Ids : texts'[i] \in {texts[i], NoText}
  BY <1>1, <1>3 DEF WalkTyped
<1>7. WalkTyped'
  BY <1>1, <1>3, <1>4, <1>5, <1>6 DEF WalkTyped, Marks, IdsOf
<1>8. PhasesFit' /\ HashedFits' /\ IdsSuffice'
  BY <1>1, <1>4, <1>5 DEF WalkInv, PhasesFit, HashedFits, IdsSuffice
<1>9. RowsDiffer' /\ TextsFit'
  BY <1>1, <1>4, <1>6 DEF WalkInv, RowsDiffer, TextsFit, WalkTyped
<1>10. EvictedAreGone'
  BY <1>1, <1>3, <1>4, <1>5 DEF WalkInv, EvictedAreGone, RowsDiffer
<1>11. FilesAreAccounted'
  <2>1. Held \subseteq Held'
    BY <1>4, <1>5 DEF Held
  <2> QED
    BY <1>1, <1>5, <2>1, FilesStay DEF WalkInv
<1> QED
  BY <1>7, <1>8, <1>9, <1>10, <1>11 DEF WalkInv

LEMMA CloseSessionKeeps ==
  ASSUME WalkInv, CloseSession
  PROVE  WalkInv'
<1>1. /\ walk.at = "evicting" /\ WalkTyped /\ pend = {}
      /\ UNCHANGED <<says, pend, texts, unlinking, mishaps>>
      /\ rows' = {r \in rows : r.id \notin evicting}
      /\ evicting' = {}
      /\ walk' = [walk EXCEPT !.at = "done"]
  BY DEF CloseSession, WalkInv, PhasesFit
<1>2. All = rows /\ All' = rows' /\ All' \subseteq All
  BY <1>1 DEF All
<1>3. /\ walk'.at = "done" /\ walk'.todo = walk.todo /\ walk'.file = walk.file
      /\ walk'.sha = walk.sha
      /\ walk'.batch = walk.batch /\ walk'.unread = walk.unread
      /\ walk'.gone = walk.gone /\ DOMAIN walk' = DOMAIN walk
  BY <1>1 DEF WalkTyped
<1>4. WalkTyped'
  BY <1>1, <1>2, <1>3 DEF WalkTyped, Marks
<1>5. PhasesFit' /\ HashedFits' /\ IdsSuffice'
  BY <1>1, <1>3 DEF WalkInv, PhasesFit, HashedFits, IdsSuffice
<1>6. RowsDiffer' /\ TextsFit' /\ EvictedAreGone'
  BY <1>1, <1>2 DEF WalkInv, RowsDiffer, TextsFit, EvictedAreGone
<1>7. FilesAreAccounted'
  <2>1. Held \subseteq Held'
    BY <1>1, <1>2, <1>3 DEF Held, WalkInv, EvictedAreGone
  <2> QED
    BY <1>1, <1>3, <2>1, FilesStay DEF WalkInv
<1> QED
  BY <1>4, <1>5, <1>6, <1>7 DEF WalkInv

LEMMA DeleteKeeps ==
  ASSUME WalkInv, NEW row \in rows, Delete(row)
  PROVE  WalkInv'
<1>1. /\ WalkTyped /\ pend = {} /\ evicting = {} /\ Mishap
      /\ UNCHANGED <<says, pend, evicting, texts>>
      /\ unlinking' = IF row.words = NoText THEN unlinking ELSE unlinking \cup {row.id}
      /\ walk' = [walk EXCEPT !.gone = @ \cup {row.sha}]
      /\ rows' = rows \ {row}
  BY DEF Delete, WalkInv
<1>2. All = rows /\ All' = rows' /\ All' \subseteq All
  BY <1>1 DEF All
<1>3. /\ walk'.at = walk.at /\ walk'.todo = walk.todo /\ walk'.file = walk.file
      /\ walk'.sha = walk.sha
      /\ walk'.batch = walk.batch /\ walk'.unread = walk.unread
      /\ walk'.gone = walk.gone \cup {row.sha} /\ DOMAIN walk' = DOMAIN walk
  BY <1>1 DEF WalkTyped
<1>4. mishaps' \in 0..MaxMishaps
  BY <1>1, IngestWalkAssumption DEF WalkTyped, Mishap
<1>5. unlinking' \subseteq Ids
  BY <1>1, <1>2 DEF WalkTyped
<1>6. WalkTyped'
  BY <1>1, <1>2, <1>3, <1>4, <1>5 DEF WalkTyped, Marks
<1>7. PhasesFit'
  BY <1>1, <1>3 DEF WalkInv, PhasesFit
<1>8. HashedFits'
  BY <1>2, <1>3 DEF WalkInv, HashedFits, Marks
<1>9. IdsSuffice'
  <2>1. IdsOf(All)' \subseteq IdsOf(All)
    BY <1>2 DEF IdsOf
  <2> QED
    BY <1>3, <2>1 DEF WalkInv, IdsSuffice
<1>10. RowsDiffer' /\ TextsFit' /\ EvictedAreGone'
  BY <1>1, <1>2 DEF WalkInv, RowsDiffer, TextsFit, EvictedAreGone
<1>11. FilesAreAccounted'
  <2>1. Held \subseteq Held'
    BY <1>1, <1>2, <1>3 DEF Held
  <2>2. CASE walk.at \in {"walking", "counting", "evicting", "done"}
    BY <1>3, <2>1, <2>2, FilesStay DEF WalkInv
  <2>3. CASE walk.at \notin {"walking", "counting", "evicting", "done"}
    BY <1>3, <2>3 DEF FilesAreAccounted
  <2> QED
    BY <2>2, <2>3
<1> QED
  BY <1>6, <1>7, <1>8, <1>9, <1>10, <1>11 DEF WalkInv

LEMMA UnlinkKeeps ==
  ASSUME WalkInv, NEW id \in Ids, Unlink(id)
  PROVE  WalkInv'
<1>1. /\ WalkTyped /\ UNCHANGED <<says, rows, pend, evicting, walk, mishaps>>
      /\ unlinking' = unlinking \ {id} /\ texts' = [texts EXCEPT ![id] = NoText]
  BY DEF Unlink, WalkInv
<1>2. All' = All /\ DOMAIN texts' = Ids /\ \A i \in Ids : texts'[i] \in {texts[i], NoText}
  BY <1>1 DEF WalkTyped, All
<1>3. WalkTyped'
  BY <1>1, <1>2 DEF WalkTyped, Marks, IdsOf
<1>4. PhasesFit' /\ HashedFits' /\ IdsSuffice' /\ RowsDiffer' /\ EvictedAreGone'
  BY <1>1, <1>2 DEF WalkInv, PhasesFit, HashedFits, IdsSuffice, RowsDiffer, EvictedAreGone,
     Marks, IdsOf
<1>5. TextsFit'
  BY <1>1, <1>2 DEF WalkInv, TextsFit, WalkTyped
<1>6. FilesAreAccounted'
  BY <1>1, <1>2 DEF WalkInv, FilesAreAccounted, Accounted, Held, Marks
<1> QED
  BY <1>3, <1>4, <1>5, <1>6 DEF WalkInv

LEMMA EditKeeps ==
  ASSUME WalkInv, NEW file \in OnShelf, Edit(file)
  PROVE  WalkInv'
<1>1. /\ WalkTyped /\ UNCHANGED <<rows, pend, evicting, texts, unlinking, walk>> /\ Mishap
      /\ says' = [says EXCEPT ![file] = NewText[file]]
  BY DEF Edit, WalkInv
<1>2. All' = All
  BY <1>1 DEF All
<1>3. OnShelf \subseteq DOMAIN says' /\ \A f \in OnShelf : says'[f] \in Marks(f)
  BY <1>1 DEF WalkTyped, Marks
<1>4. mishaps' \in 0..MaxMishaps
  BY <1>1, IngestWalkAssumption DEF WalkTyped, Mishap
<1>5. WalkTyped'
  BY <1>1, <1>2, <1>3, <1>4 DEF WalkTyped, Marks, IdsOf
<1>6. PhasesFit' /\ HashedFits' /\ IdsSuffice' /\ RowsDiffer' /\ EvictedAreGone' /\ TextsFit'
  BY <1>1, <1>2 DEF WalkInv, PhasesFit, HashedFits, IdsSuffice, RowsDiffer, EvictedAreGone,
     Marks, IdsOf, TextsFit
<1>7. FilesAreAccounted'
  BY <1>1, <1>2 DEF WalkInv, FilesAreAccounted, Accounted, Held, Marks
<1> QED
  BY <1>5, <1>6, <1>7 DEF WalkInv

LEMMA WalkStuttering ==
  ASSUME WalkInv, UNCHANGED walkVars
  PROVE  WalkInv'
<1>1. UNCHANGED <<says, rows, pend, evicting, texts, unlinking, walk, mishaps>>
  BY DEF walkVars
<1>2. All' = All
  BY <1>1 DEF All
<1> QED
  BY <1>1, <1>2 DEF WalkInv, WalkTyped, PhasesFit, HashedFits, IdsSuffice, RowsDiffer,
     EvictedAreGone, Marks, IdsOf, TextsFit, FilesAreAccounted, Accounted, Held

LEMMA WalkStart == WalkInit => WalkInv
<1> SUFFICES ASSUME WalkInit PROVE WalkInv
  OBVIOUS
<1>1. All = {}
  BY DEF WalkInit, All
<1>2. walk.at = "idle" /\ walk.file = NoFile
  BY DEF WalkInit, Idle
<1>3. WalkTyped
  BY <1>1, IngestWalkAssumption DEF WalkInit, Idle, WalkTyped, Marks, IdsOf
<1> QED
  BY <1>1, <1>2, <1>3 DEF WalkInit, WalkInv, PhasesFit, HashedFits, IdsSuffice, RowsDiffer,
     TextsFit, EvictedAreGone, FilesAreAccounted

LEMMA WalkNextKeeps == WalkInv /\ [WalkNext]_walkVars => WalkInv'
<1> SUFFICES ASSUME WalkInv, [WalkNext]_walkVars PROVE WalkInv'
  OBVIOUS
<1>1. CASE WalkStep
  <2>1. ASSUME NEW whole \in BOOLEAN, NEW tagged \in BOOLEAN, ReadFile(whole, tagged)
        PROVE  WalkInv'
    BY <2>1, ReadFileKeeps
  <2> QED
    BY <1>1, <2>1, StartWalkKeeps, SkipTypeKeeps, CommitBatchKeeps, EndFilesKeeps, EvictKeeps,
       CloseSessionKeeps, HashFileKeeps, BreaksOffKeeps DEF WalkStep
<1>2. ASSUME NEW row \in rows, Delete(row) PROVE WalkInv'
  BY <1>2, DeleteKeeps
<1>3. ASSUME NEW id \in Ids, Unlink(id) PROVE WalkInv'
  BY <1>3, UnlinkKeeps
<1>4. ASSUME NEW file \in OnShelf, Edit(file) PROVE WalkInv'
  BY <1>4, EditKeeps
<1>5. CASE Crash
  BY <1>5, CrashKeeps
<1>6. CASE UNCHANGED walkVars
  BY <1>6, WalkStuttering
<1> QED
  BY <1>1, <1>2, <1>3, <1>4, <1>5, <1>6 DEF WalkNext

(* For any shelf, batch, cap and number of mishaps: no file and no content  *)
(* ever has two rows of a workbook, no row shows the words of another, and  *)
(* an ingest that reports success accounts for every file it was handed.    *)
THEOREM IngestsAddUp == WalkSpec => []WalkSafe
<1>1. WalkInit => WalkInv
  BY WalkStart
<1>2. WalkInv /\ [WalkNext]_walkVars => WalkInv'
  BY WalkNextKeeps
<1>3. WalkInv => WalkSafe
  BY WalkInvIsSafe
<1> QED
  BY <1>1, <1>2, <1>3, PTL DEF WalkSpec

-----------------------------------------------------------------------------
(* Reading a library over Graph *)

Nesting == Cardinality(Folders)

Queued == [at : Folders \cup Files, depth : Nat]

LibraryItems == Files \cup UNION {Contents(f) : f \in Folders}

\* A way that a walk may take from the root down to depth d.
Way(p, d) == /\ p \in [0..d -> Folders]
             /\ p[0] = Root
             /\ \A i \in 0..(d - 1) : Descends(i) /\ p[i + 1] \in Contents(p[i])

PagesOf(u) == IF reader = "picks" THEN <<{u.at}>> ELSE Listing[u.at]

\* Every folder within reach has been gone through, or lies on or below one
\* that is still to list.
Covered ==
    \A d \in 0..(Nesting - 1) : \A p \in [0..d -> Folders] :
        Way(p, d) => \/ Contents(p[d]) \cap Wanted \subseteq found
                     \/ \E i \in 0..d : [at |-> p[i], depth |-> i] \in unlisted

PageFitsWalk ==
    Walking => /\ asked.page \in 1..Len(PagesOf(Here))
               /\ asked.items = UNION {PagesOf(Here)[i] : i \in 1..(asked.page - 1)}

GraphInv ==
    /\ GraphTypeOK
    /\ unlisted \subseteq Queued
    /\ asked \in [page : Nat, attempt : 1..MaxAttempts, refreshed : BOOLEAN,
                  items : SUBSET LibraryItems]
    /\ stage = "idle" => /\ found = {} /\ snippets = {} /\ unlisted = {} /\ asked = FirstPage
                         /\ ~partial /\ ~denied
    /\ stage \in {"search", "fetch", "ended"} => unlisted = {}
    /\ reader = "picks" => \A u \in unlisted : u.at \in Matching
    /\ reader # "picks" => /\ found \subseteq Listed
                           /\ \A u \in unlisted : /\ u.at \in Folders
                                                  /\ u.depth \in 0..(Nesting - 1)
                                                  /\ Reached(u.at, u.depth)
    /\ found \subseteq Wanted
    /\ PageFitsWalk
    /\ reader # "picks" /\ stage \in {"walk", "search", "fetch", "ended"} /\ ~partial /\ ~denied
         => Covered
    /\ asked.refreshed => denied
    /\ DeniedSweepRaises

LEMMA NestingType == Nesting \in Nat \ {0}
<1>1. Folders # {} /\ IsFiniteSet(Folders)
  BY GraphAssumption
<1> QED
  BY <1>1, FS_EmptySet, FS_CardinalityType DEF Nesting

\* The queue's head.
LEMMA Shallowest ==
  ASSUME NEW Q \in SUBSET Queued, Q # {}
  PROVE  (CHOOSE u \in Q : \A v \in Q : u.depth <= v.depth) \in Q
<1> DEFINE S == {u.depth : u \in Q}
<1>1. S \in SUBSET Nat /\ S # {}
  BY DEF Queued
<1>2. PICK k \in S : \A j \in S : k <= j
  <2> HIDE DEF S
  <2> QED
    BY <1>1, LeastExists
<1>3. PICK u \in Q : u.depth = k
  OBVIOUS
<1>4. \A v \in Q : u.depth <= v.depth
  BY <1>2, <1>3
<1> QED
  BY <1>3, <1>4

LEMMA HereIsQueued ==
  ASSUME GraphInv, Walking
  PROVE  Here \in unlisted /\ Here \in Queued
<1>1. Here \in unlisted
  BY Shallowest DEF GraphInv, Walking, Here
<1> QED
  BY <1>1 DEF GraphInv

\* The pages of what a reader is to read.
LEMMA PagesFit ==
  ASSUME NEW u \in Queued, IF reader = "picks" THEN u.at \in Files ELSE u.at \in Folders
  PROVE  /\ Len(PagesOf(u)) \in Nat \ {0} /\ DOMAIN PagesOf(u) = 1..Len(PagesOf(u))
         /\ \A i \in DOMAIN PagesOf(u) : PagesOf(u)[i] \subseteq LibraryItems
         /\ reader # "picks" => UNION {PagesOf(u)[i] : i \in DOMAIN PagesOf(u)} = Contents(u.at)
<1>1. CASE reader = "picks"
  BY <1>1 DEF PagesOf, LibraryItems, Queued
<1>2. CASE reader # "picks" /\ u.at \in Folders
  <2>1. Listing[u.at] # <<>> /\ Listing[u.at] \in Seq(SUBSET Contents(u.at))
    BY <1>2, GraphAssumption
  <2>2. PagesOf(u) = Listing[u.at]
    BY <1>2 DEF PagesOf
  <2>3. \A i \in DOMAIN Listing[u.at] : Listing[u.at][i] \subseteq Contents(u.at)
    BY DEF Contents
  <2>4. Contents(u.at) \subseteq LibraryItems
    BY <1>2 DEF LibraryItems
  <2>5. Len(Listing[u.at]) \in Nat \ {0} /\ DOMAIN Listing[u.at] = 1..Len(Listing[u.at])
    BY <2>1
  <2> QED
    BY <1>2, <2>2, <2>3, <2>4, <2>5 DEF Contents
<1> QED
  BY <1>1, <1>2

\* A folder one level further down is within reach, and not below the bound.
LEMMA ReachesOn ==
  ASSUME NEW f \in Folders, NEW d \in 0..(Nesting - 1), Reached(f, d), Descends(d),
         NEW g \in Contents(f) \cap Folders
  PROVE  d + 1 \in 0..(Nesting - 1) /\ Reached(g, d + 1)
<1>0. Nesting \in Nat \ {0} /\ d \in Nat /\ d < Nesting
  BY NestingType
<1>1. PICK p \in [0..d -> Folders] :
          /\ p[0] = Root /\ p[d] = f
          /\ \A i \in 0..(d - 1) : Descends(i) /\ p[i + 1] \in Contents(p[i])
  BY DEF Reached
<1> DEFINE q == [i \in 0..(d + 1) |-> IF i = d + 1 THEN g ELSE p[i]]
<1>2. \A i \in 0..(d + 1) : i = d + 1 \/ i \in 0..d
  BY <1>0
<1>3. q \in [0..(d + 1) -> Folders]
  BY <1>1, <1>2
<1>4. \A i \in 0..d : q[i] = p[i]
  BY <1>0
<1>5. q[d + 1] = g /\ q[0] = Root
  BY <1>0, <1>1, <1>4
<1>6. ASSUME NEW i \in 0..((d + 1) - 1) PROVE Descends(i) /\ q[i + 1] \in Contents(q[i])
  <2> HIDE DEF q
  <2>1. CASE i = d
    <3>1. q[i] = f
      BY <1>0, <1>1, <1>4, <2>1
    <3> QED
      BY <1>5, <2>1, <3>1
  <2>2. CASE i # d
    <3>1. i \in 0..(d - 1) /\ i \in 0..d /\ i + 1 \in 0..d
      BY <1>0, <2>2
    <3> QED
      BY <1>1, <1>4, <3>1
  <2> QED
    BY <2>1, <2>2
<1> HIDE DEF q
<1>7. Reached(g, d + 1)
  BY <1>3, <1>5, <1>6 DEF Reached
<1>8. d + 1 # Nesting
  <2> SUFFICES ASSUME d + 1 = Nesting PROVE FALSE
    OBVIOUS
  <2>1. q \in [0..Nesting -> Folders]
    BY <1>3
  <2>2. PICK i \in 0..(Nesting - 1) : q[i + 1] \notin Contents(q[i])
    BY <2>1, GraphAssumption DEF Nests, Nesting
  <2>3. i \in 0..((d + 1) - 1)
    BY <1>0
  <2> QED
    BY <1>6, <2>2, <2>3
<1> QED
  BY <1>0, <1>7, <1>8

LEMMA HereFits ==
  ASSUME GraphInv, Walking
  PROVE  /\ Here \in unlisted /\ Here \in Queued
         /\ IF reader = "picks" THEN Here.at \in Files ELSE Here.at \in Folders
<1>1. Here \in unlisted /\ Here \in Queued
  BY HereIsQueued
<1> QED
  BY <1>1, GraphAssumption DEF GraphInv

\* Going through the items of a folder, all of them unless the walk is no
\* longer clean.
LEMMA ProcessInv ==
  ASSUME GraphInv, Walking, NEW items, Process(items),
         items \subseteq UNION {PagesOf(Here)[i] : i \in DOMAIN PagesOf(Here)},
         UNCHANGED <<reader, exists, snippets>>,
         {partial', denied', graphToken', msalCache'} \subseteq BOOLEAN,
         denied => denied', reader = "sweep" => ~denied',
         ~partial' /\ ~denied' /\ reader # "picks" => /\ ~partial /\ ~denied
                                                      /\ items = Contents(Here.at)
  PROVE  GraphInv'
<1> DEFINE u == Here
           below == Subfolders(items, u.depth)
<1>1. /\ u \in unlisted /\ u \in Queued
      /\ IF reader = "picks" THEN u.at \in Files ELSE u.at \in Folders
      /\ stage = "walk"
  BY HereFits DEF Walking
<1>2. /\ items \subseteq LibraryItems
      /\ reader # "picks" => items \subseteq Contents(u.at)
  BY <1>1, PagesFit
<1>3. /\ unlisted' = (unlisted \ {u}) \cup below /\ asked' = FirstPage
      /\ found' = found \cup (items \cap Wanted)
      /\ stage' \in {"truncated", "walk", "ended", "fetch", "search"}
      /\ stage' \notin {"truncated", "walk"} => unlisted' = {}
  BY DEF Process
<1>4. \A v \in below : /\ v.at \in items \cap Folders /\ v.depth = u.depth + 1
                       /\ Descends(u.depth) /\ v \in Queued
  BY <1>1 DEF Subfolders, Queued
<1>5. \A e \in items \cap Folders : Descends(u.depth) => [at |-> e, depth |-> u.depth + 1] \in below
  BY DEF Subfolders
<1>6. /\ Listed' = Listed /\ Wanted' = Wanted
      /\ \A f, d : Reached(f, d)' <=> Reached(f, d)
      /\ \A p, d : Way(p, d)' <=> Way(p, d)
  BY DEF Listed, Wanted, Reached, Way, Descends
<1> HIDE DEF u, below
<1>7. unlisted' \subseteq Queued
  BY <1>3, <1>4 DEF GraphInv
<1>8. /\ asked' \in [page : Nat, attempt : 1..MaxAttempts, refreshed : BOOLEAN, items : SUBSET LibraryItems]
      /\ asked'.page = 1 /\ asked'.items = {} /\ ~asked'.refreshed /\ asked'.attempt = 1
  BY <1>3, GraphAssumption DEF FirstPage
<1>9. reader # "picks" =>
        /\ found' \subseteq Listed
        /\ \A v \in unlisted' : v.at \in Folders /\ v.depth \in 0..(Nesting - 1) /\ Reached(v.at, v.depth)
  <2> SUFFICES ASSUME reader # "picks"
               PROVE  /\ found' \subseteq Listed
                      /\ \A v \in unlisted' : /\ v.at \in Folders /\ v.depth \in 0..(Nesting - 1)
                                              /\ Reached(v.at, v.depth)
    OBVIOUS
  <2>1. u.at \in Folders /\ u.depth \in 0..(Nesting - 1) /\ Reached(u.at, u.depth)
    BY <1>1 DEF GraphInv
  <2>2. Contents(u.at) \subseteq Listed
    BY <2>1 DEF Listed, Nesting
  <2>3. found' \subseteq Listed
    BY <1>2, <1>3, <2>2 DEF GraphInv
  <2>4. ASSUME NEW v \in below
        PROVE  v.at \in Folders /\ v.depth \in 0..(Nesting - 1) /\ Reached(v.at, v.depth)
    <3>1. v.at \in Contents(u.at) \cap Folders /\ v.depth = u.depth + 1 /\ Descends(u.depth)
      BY <1>2, <1>4
    <3> QED
      BY <2>1, <3>1, ReachesOn
  <2> QED
    BY <1>3, <2>3, <2>4 DEF GraphInv
<1>10. reader = "picks" => \A v \in unlisted' : v.at \in Matching
  <2> SUFFICES ASSUME reader = "picks" PROVE below = {}
    BY <1>3 DEF GraphInv
  <2> QED
    BY <1>4 DEF Descends
<1>11. found' \subseteq Wanted /\ Wanted \subseteq Files
  BY <1>3, GraphAssumption DEF GraphInv, Wanted
<1>12. PageFitsWalk'
  <2> SUFFICES ASSUME Walking'
               PROVE  /\ asked'.page \in 1..Len(PagesOf(Here)')
                      /\ asked'.items = UNION {PagesOf(Here)'[i] : i \in 1..(asked'.page - 1)}
    BY DEF PageFitsWalk
  <2>1. Here' \in unlisted'
    BY <1>7, Shallowest DEF Walking, Here
  <2>2. Here' \in Queued /\ IF reader = "picks" THEN Here'.at \in Files ELSE Here'.at \in Folders
    BY <1>7, <1>9, <1>10, <2>1, GraphAssumption
  <2>3. PagesOf(Here)' = PagesOf(Here')
    BY DEF PagesOf
  <2> DEFINE h == Here'
  <2> HIDE DEF h
  <2>4. Len(PagesOf(h)) \in Nat \ {0}
    BY <2>2, PagesFit DEF h
  <2>5. 1..(1 - 1) = {}
    OBVIOUS
  <2> QED
    BY <1>8, <2>3, <2>4, <2>5 DEF h
<1>13. reader # "picks" /\ ~partial' /\ ~denied' => Covered'
  <2> SUFFICES ASSUME reader # "picks", ~partial', ~denied',
                      NEW d \in 0..(Nesting - 1), NEW p \in [0..d -> Folders], Way(p, d)
               PROVE  \/ Contents(p[d]) \cap Wanted \subseteq found'
                      \/ \E i \in 0..d : [at |-> p[i], depth |-> i] \in unlisted'
    BY <1>6 DEF Covered
  <2>1. items = Contents(u.at) /\ Covered
    BY <1>1 DEF GraphInv, u
  <2>2. CASE Contents(p[d]) \cap Wanted \subseteq found
    BY <1>3, <2>2
  <2>3. CASE \E i \in 0..d : [at |-> p[i], depth |-> i] \in unlisted
    <3>1. PICK i \in 0..d : [at |-> p[i], depth |-> i] \in unlisted
      BY <2>3
    <3>2. CASE [at |-> p[i], depth |-> i] # u
      BY <1>3, <3>1, <3>2
    <3>3. CASE [at |-> p[i], depth |-> i] = u
      <4>0. u.at = p[i] /\ u.depth = i /\ d \in Nat
        BY <3>3, NestingType
      <4>1. CASE i = d
        BY <1>3, <2>1, <4>0, <4>1
      <4>2. CASE i # d
        <5>1. i \in 0..(d - 1) /\ i + 1 \in 0..d
          BY <4>0, <4>2
        <5>2. Descends(i) /\ p[i + 1] \in Contents(p[i]) /\ p[i + 1] \in Folders
          BY <5>1 DEF Way
        <5>3. [at |-> p[i + 1], depth |-> i + 1] \in below
          BY <1>5, <2>1, <4>0, <5>2
        <5> QED
          BY <1>3, <5>1, <5>3
      <4> QED
        BY <4>1, <4>2
    <3> QED
      BY <3>2, <3>3
  <2> QED
    BY <2>1, <2>2, <2>3 DEF Covered
<1>14. GraphTypeOK'
  <2>1. \A v \in unlisted' : v.at \in Folders \cup Files
    BY <1>7 DEF Queued
  <2>2. stage' \in {"idle", "walk", "search", "fetch"} \cup Over
    BY <1>3 DEF Over
  <2>3. asked'.attempt \in 1..MaxAttempts /\ asked'.refreshed \in BOOLEAN
    BY <1>8
  <2> QED
    BY <1>11, <2>1, <2>2, <2>3 DEF GraphInv, GraphTypeOK
<1>15. DeniedSweepRaises'
  BY DEF DeniedSweepRaises
<1> QED
  BY <1>3, <1>6, <1>7, <1>8, <1>9, <1>10, <1>11, <1>12, <1>13, <1>14, <1>15 DEF GraphInv

\* A step that leaves the queue and what was found as they are.
LEMMA StayingInv ==
  ASSUME GraphInv, UNCHANGED <<reader, exists, unlisted, found>>,
         stage' \in {stage, "raised"},
         asked' \in [page : Nat, attempt : 1..MaxAttempts, refreshed : BOOLEAN, items : SUBSET LibraryItems],
         stage # "idle",
         PageFitsWalk', DeniedSweepRaises',
         {partial', denied', graphToken', msalCache'} \subseteq BOOLEAN, snippets' \subseteq Files,
         asked'.refreshed => denied',
         ~partial' /\ ~denied' => ~partial /\ ~denied
  PROVE  GraphInv'
<1>1. /\ Listed' = Listed /\ Wanted' = Wanted
      /\ \A f, d : Reached(f, d)' <=> Reached(f, d)
      /\ \A p, d : Way(p, d)' <=> Way(p, d)
  BY DEF Listed, Wanted, Reached, Way, Descends
<1>2. reader # "picks" /\ stage' \in {"walk", "search", "fetch", "ended"} /\ ~partial' /\ ~denied'
        => Covered'
  BY <1>1 DEF GraphInv, Covered
<1>3. GraphTypeOK'
  BY DEF GraphInv, GraphTypeOK, Over
<1> QED
  BY <1>1, <1>2, <1>3 DEF GraphInv

LEMMA PageArrivesInv == ASSUME GraphInv, PageArrives PROVE GraphInv'
<1> DEFINE pages == IF reader = "picks" THEN <<{Here.at}>> ELSE Listing[Here.at]
           items == asked.items \cup pages[asked.page]
           n == Len(pages)
<1>1. /\ Walking /\ pages = PagesOf(Here)
      /\ UNCHANGED <<reader, exists, partial, denied, graphToken, msalCache, snippets>>
  BY DEF PageArrives, PagesOf, account
<1>2. /\ Here \in Queued
      /\ IF reader = "picks" THEN Here.at \in Files ELSE Here.at \in Folders
  BY <1>1, HereFits
<1>3. /\ n \in Nat \ {0} /\ DOMAIN pages = 1..n
      /\ \A i \in DOMAIN pages : pages[i] \subseteq LibraryItems
      /\ reader # "picks" => UNION {pages[i] : i \in DOMAIN pages} = Contents(Here.at)
  BY <1>1, <1>2, PagesFit
<1>4. /\ asked.page \in 1..n
      /\ asked.items = UNION {pages[i] : i \in 1..(asked.page - 1)}
      /\ asked \in [page : Nat, attempt : 1..MaxAttempts, refreshed : BOOLEAN, items : SUBSET LibraryItems]
  BY <1>1 DEF GraphInv, PageFitsWalk
<1>5. IF asked.page = n THEN Process(items)
      ELSE /\ asked' = [FirstPage EXCEPT !.page = asked.page + 1, !.items = items]
           /\ UNCHANGED <<stage, unlisted, found>>
  BY DEF PageArrives
<1> HIDE DEF pages, n
<1>6. items = UNION {pages[i] : i \in 1..asked.page}
  <2>1. 1..asked.page = (1..(asked.page - 1)) \cup {asked.page}
    BY <1>4
  <2> QED
    BY <1>4, <2>1
<1>7. items \subseteq LibraryItems
  BY <1>3, <1>4, <1>6
<1> HIDE DEF items
<1>8. CASE asked.page = n
  <2>1. items = UNION {pages[i] : i \in DOMAIN pages}
    BY <1>3, <1>6, <1>8
  <2>2. /\ {partial', denied', graphToken', msalCache'} \subseteq BOOLEAN
        /\ reader = "sweep" => ~denied'
    BY <1>1 DEF GraphInv, GraphTypeOK, DeniedSweepRaises, Walking
  <2> QED
    BY <1>1, <1>3, <1>5, <1>8, <2>1, <2>2, ProcessInv
<1>9. CASE asked.page # n
  <2>1. /\ asked' = [FirstPage EXCEPT !.page = asked.page + 1, !.items = items]
        /\ UNCHANGED <<stage, unlisted, found>>
    BY <1>5, <1>9
  <2>2. /\ asked'.page = asked.page + 1 /\ asked'.items = items /\ ~asked'.refreshed
        /\ asked' \in [page : Nat, attempt : 1..MaxAttempts, refreshed : BOOLEAN, items : SUBSET LibraryItems]
    <3>1. asked' = [page |-> asked.page + 1, attempt |-> 1, refreshed |-> FALSE, items |-> items]
      BY <2>1 DEF FirstPage
    <3>2. 1 \in 1..MaxAttempts /\ asked.page + 1 \in Nat
      BY <1>4, GraphAssumption
    <3> QED
      BY <1>7, <3>1, <3>2
  <2>3. PageFitsWalk'
    <3>1. PagesOf(Here)' = PagesOf(Here)
      BY <1>1, <2>1 DEF PagesOf, Here
    <3>2. asked.page + 1 \in 1..n /\ (asked.page + 1) - 1 = asked.page
      BY <1>3, <1>4, <1>9
    <3> QED
      BY <1>1, <1>6, <2>2, <3>1, <3>2 DEF PageFitsWalk, n
  <2>4. /\ {partial', denied', graphToken', msalCache'} \subseteq BOOLEAN /\ snippets' \subseteq Files
        /\ stage # "idle" /\ DeniedSweepRaises'
    BY <1>1, <2>1 DEF GraphInv, GraphTypeOK, DeniedSweepRaises, Walking
  <2> QED
    BY <1>1, <2>1, <2>2, <2>3, <2>4, StayingInv
<1> QED
  BY <1>8, <1>9

LEMMA ThrottledInv == ASSUME GraphInv, Throttled PROVE GraphInv'
<1>1. asked \in [page : Nat, attempt : 1..MaxAttempts, refreshed : BOOLEAN, items : SUBSET LibraryItems]
  BY DEF GraphInv
<1>2. /\ asked' \in [page : Nat, attempt : 1..MaxAttempts, refreshed : BOOLEAN, items : SUBSET LibraryItems]
      /\ asked'.page = asked.page /\ asked'.items = asked.items
      /\ asked'.refreshed = asked.refreshed
  BY <1>1, GraphAssumption DEF Throttled
<1>3. PagesOf(Here)' = PagesOf(Here) /\ (Walking' <=> Walking)
  BY DEF Throttled, PagesOf, Here, Walking
<1>4. PageFitsWalk'
  BY <1>2, <1>3 DEF GraphInv, PageFitsWalk
<1> QED
  BY <1>2, <1>4, StayingInv
     DEF Throttled, GraphInv, GraphTypeOK, DeniedSweepRaises, Walking, account

\* What a page asked for already lies among the pages of its folder.
LEMMA AskedItems ==
  ASSUME GraphInv, Walking
  PROVE  asked.items \subseteq UNION {PagesOf(Here)[i] : i \in DOMAIN PagesOf(Here)}
<1>1. /\ asked.page \in 1..Len(PagesOf(Here))
      /\ asked.items = UNION {PagesOf(Here)[i] : i \in 1..(asked.page - 1)}
  BY DEF GraphInv, PageFitsWalk
<1>2. Len(PagesOf(Here)) \in Nat /\ DOMAIN PagesOf(Here) = 1..Len(PagesOf(Here))
  BY HereFits, PagesFit
<1>3. 1..(asked.page - 1) \subseteq DOMAIN PagesOf(Here)
  BY <1>1, <1>2
<1> QED
  BY <1>1, <1>3

LEMMA GivesUpInv == ASSUME GraphInv, GivesUp PROVE GraphInv'
<1>1. /\ Walking /\ Process(asked.items) /\ partial' = TRUE
      /\ UNCHANGED <<reader, exists, denied, graphToken, msalCache, snippets>>
  BY DEF GivesUp, account
<1>2. asked.items \subseteq UNION {PagesOf(Here)[i] : i \in DOMAIN PagesOf(Here)}
  BY <1>1, AskedItems
<1>3. /\ {partial', denied', graphToken', msalCache'} \subseteq BOOLEAN
      /\ reader = "sweep" => ~denied'
  BY <1>1 DEF GraphInv, GraphTypeOK, DeniedSweepRaises, Walking
<1> QED
  BY <1>1, <1>2, <1>3, ProcessInv

\* A 401 ends a sweep, and what the browser and the probe ask for.
LEMMA RaisedInv == ASSUME GraphInv, SweepDenied \/ CallDenied PROVE GraphInv'
<1>1. /\ UNCHANGED <<reader, exists, unlisted, found, asked, snippets>> /\ stage' = "raised"
      /\ stage # "idle" /\ denied' = TRUE
      /\ {partial', denied', graphToken', msalCache'} \subseteq BOOLEAN
  BY DEF SweepDenied, CallDenied, GraphInv, GraphTypeOK, Walking, account
<1>2. PageFitsWalk'
  BY <1>1 DEF PageFitsWalk, Walking
<1>3. DeniedSweepRaises'
  BY DEF SweepDenied, CallDenied, DeniedSweepRaises
<1>4. snippets' \subseteq Files
      /\ asked' \in [page : Nat, attempt : 1..MaxAttempts, refreshed : BOOLEAN, items : SUBSET LibraryItems]
  BY <1>1 DEF GraphInv, GraphTypeOK
<1> QED
  BY <1>1, <1>2, <1>3, <1>4, StayingInv

LEMMA FolderDeniedInv == ASSUME GraphInv, FolderDenied PROVE GraphInv'
<1>1. /\ Walking /\ Process({}) /\ denied' = TRUE /\ reader # "sweep"
      /\ UNCHANGED <<reader, exists, partial, graphToken, msalCache, snippets>>
  BY DEF FolderDenied, account
<1>2. {partial', denied', graphToken', msalCache'} \subseteq BOOLEAN
  BY <1>1 DEF GraphInv, GraphTypeOK
<1> QED
  BY <1>1, <1>2, ProcessInv

LEMMA ScanInv == ASSUME GraphInv, ScanRefreshes \/ ScanDenied PROVE GraphInv'
<1>1. /\ Walking /\ reader = "boundary" /\ denied' = TRUE
      /\ UNCHANGED <<reader, exists, partial, snippets>>
      /\ {partial', denied', graphToken', msalCache'} \subseteq BOOLEAN
  BY DEF ScanRefreshes, ScanDenied, GraphInv, GraphTypeOK, account
<1>2. CASE Process(asked.items)
  BY <1>1, <1>2, AskedItems, ProcessInv
<1>3. CASE ScanRefreshes /\ ~Process(asked.items)
  <2>1. /\ asked' = [asked EXCEPT !.refreshed = TRUE, !.attempt = 1]
        /\ UNCHANGED <<stage, unlisted, found>>
    BY <1>3 DEF ScanRefreshes
  <2>2. /\ asked' \in [page : Nat, attempt : 1..MaxAttempts, refreshed : BOOLEAN, items : SUBSET LibraryItems]
        /\ asked'.page = asked.page /\ asked'.items = asked.items
    <3>1. 1 \in 1..MaxAttempts
      BY GraphAssumption
    <3>2. asked \in [page : Nat, attempt : 1..MaxAttempts, refreshed : BOOLEAN, items : SUBSET LibraryItems]
      BY DEF GraphInv
    <3> QED
      BY <2>1, <3>1, <3>2
  <2>3. PageFitsWalk'
    <3>1. PagesOf(Here)' = PagesOf(Here) /\ (Walking' <=> Walking)
      BY <1>1, <2>1 DEF PagesOf, Here, Walking
    <3> QED
      BY <2>2, <3>1 DEF GraphInv, PageFitsWalk
  <2> QED
    BY <1>1, <2>1, <2>2, <2>3, StayingInv
       DEF GraphInv, GraphTypeOK, DeniedSweepRaises, Walking
<1> QED
  BY <1>2, <1>3 DEF ScanDenied

LEMMA ReacquireInv == ASSUME GraphInv, Reacquire PROVE GraphInv'
<1>1. /\ UNCHANGED <<reader, exists, stage, unlisted, asked, found, partial, denied, snippets>>
      /\ {graphToken', msalCache'} \subseteq BOOLEAN /\ stage = "walk"
  BY DEF Reacquire, Walking
<1>2. PagesOf(Here)' = PagesOf(Here) /\ (Walking' <=> Walking)
  BY <1>1 DEF PagesOf, Here, Walking
<1>3. PageFitsWalk' /\ DeniedSweepRaises'
  BY <1>1, <1>2 DEF GraphInv, PageFitsWalk, DeniedSweepRaises
<1>4. /\ {partial', denied', graphToken', msalCache'} \subseteq BOOLEAN /\ snippets' \subseteq Files
      /\ asked' \in [page : Nat, attempt : 1..MaxAttempts, refreshed : BOOLEAN, items : SUBSET LibraryItems]
      /\ asked'.refreshed => denied'
  BY <1>1 DEF GraphInv, GraphTypeOK
<1> QED
  BY <1>1, <1>3, <1>4, StayingInv

\* The queries of a sweep and the downloads that follow.
LEMMA SnippetsInv == ASSUME GraphInv, Search \/ Fetch PROVE GraphInv'
<1>1. /\ UNCHANGED <<reader, exists, unlisted, asked, found, partial, denied, graphToken, msalCache>>
      /\ stage \in {"search", "fetch"} /\ stage' \in {"fetch", "ended"}
  BY DEF Search, Fetch, account
<1>2. snippets' \subseteq snippets \cup found
  BY DEF Search, Fetch
<1>3. /\ Listed' = Listed /\ Wanted' = Wanted
      /\ \A f, d : Reached(f, d)' <=> Reached(f, d)
      /\ \A p, d : Way(p, d)' <=> Way(p, d)
  BY <1>1 DEF Listed, Wanted, Reached, Way, Descends
<1>4. Covered => Covered'
  BY <1>1, <1>3 DEF Covered
<1>5. GraphTypeOK' /\ PageFitsWalk' /\ DeniedSweepRaises'
  BY <1>1, <1>2 DEF GraphInv, GraphTypeOK, Over, PageFitsWalk, Walking, DeniedSweepRaises
<1> QED
  BY <1>1, <1>3, <1>4, <1>5 DEF GraphInv

LEMMA StartReaderInv == ASSUME GraphInv, NEW r \in Modes, StartReader(r) PROVE GraphInv'
<1>1. /\ reader' = r /\ stage' = "walk" /\ graphToken' = TRUE /\ msalCache' = TRUE
      /\ UNCHANGED <<exists, asked, found, partial, denied, snippets>>
      /\ found = {} /\ snippets = {} /\ asked = FirstPage /\ ~partial /\ ~denied
      /\ exists \in BOOLEAN /\ partial \in BOOLEAN /\ denied \in BOOLEAN
  BY DEF StartReader, GraphInv, GraphTypeOK
<1> DEFINE top == [at |-> Root, depth |-> 0]
           picks == {[at |-> f, depth |-> 0] : f \in Matching}
<1>2. unlisted' = IF r = "picks" THEN picks ELSE {top}
  BY DEF StartReader
<1>3. /\ top \in Queued /\ top.at = Root /\ top.depth = 0
      /\ \A v \in picks : v \in Queued /\ v.at \in Matching
  BY GraphAssumption DEF Queued
<1> HIDE DEF top, picks
<1>4. /\ FirstPage \in [page : Nat, attempt : 1..MaxAttempts, refreshed : BOOLEAN, items : SUBSET LibraryItems]
      /\ FirstPage.page = 1 /\ FirstPage.items = {} /\ ~FirstPage.refreshed /\ FirstPage.attempt = 1
  <2>1. 1 \in 1..MaxAttempts
    BY GraphAssumption
  <2> QED
    BY <2>1 DEF FirstPage
<1>5. unlisted' \subseteq Queued
  BY <1>2, <1>3
<1>6. 0 \in 0..(Nesting - 1) /\ Root \in Folders
  <2>1. Nesting - 1 \in Nat
    BY NestingType
  <2> QED
    BY <2>1, GraphAssumption
<1>7. Reached(Root, 0)'
  <2> DEFINE p == [i \in 0..0 |-> Root]
  <2>1. p \in [0..0 -> Folders] /\ p[0] = Root /\ 0..(0 - 1) = {}
    BY <1>6
  <2> QED
    BY <2>1 DEF Reached
<1>8. PageFitsWalk'
  <2> SUFFICES ASSUME Walking'
               PROVE  /\ asked'.page \in 1..Len(PagesOf(Here)')
                      /\ asked'.items = UNION {PagesOf(Here)'[i] : i \in 1..(asked'.page - 1)}
    BY DEF PageFitsWalk
  <2>1. Here' \in unlisted'
    BY <1>5, Shallowest DEF Walking, Here
  <2> DEFINE h == Here'
  <2>2. h \in unlisted' /\ h \in Queued
    BY <1>5, <2>1
  <2>3. PagesOf(Here)' = IF r = "picks" THEN <<{h.at}>> ELSE Listing[h.at]
    BY <1>1 DEF PagesOf
  <2> HIDE DEF h
  <2>4. r # "picks" => h.at \in Folders
    BY <1>2, <1>3, <1>6, <2>2
  <2> DEFINE pages == PagesOf(Here)'
  <2>5. Len(pages) \in Nat \ {0}
    <3>1. CASE r = "picks"
      BY <2>3, <3>1
    <3>2. CASE r # "picks"
      <4>1. Listing[h.at] # <<>> /\ Listing[h.at] \in Seq(SUBSET Contents(h.at))
        BY <2>4, <3>2, GraphAssumption
      <4>2. pages = Listing[h.at]
        BY <2>3, <3>2
      <4> QED
        BY <4>1, <4>2
    <3> QED
      BY <3>1, <3>2
  <2> HIDE DEF pages
  <2>6. asked'.page = 1 /\ asked'.items = {}
    BY <1>1, <1>4
  <2>7. 1 \in 1..Len(pages) /\ UNION {pages[i] : i \in 1..(1 - 1)} = {}
    BY <2>5
  <2> QED
    BY <2>6, <2>7 DEF pages
<1>9. r # "picks" => Covered'
  <2> SUFFICES ASSUME r # "picks", NEW d \in 0..(Nesting - 1), NEW p \in [0..d -> Folders],
                      Way(p, d)'
               PROVE  \E i \in 0..d : [at |-> p[i], depth |-> i] \in unlisted'
    BY DEF Covered
  <2>1. 0 \in 0..d /\ p[0] = Root
    <3>1. d \in Nat
      BY NestingType
    <3> QED
      BY <3>1 DEF Way
  <2>2. [at |-> p[0], depth |-> 0] = top
    BY <2>1 DEF top
  <2> QED
    BY <1>2, <2>1, <2>2
<1>10. GraphTypeOK'
  BY <1>1, <1>4, <1>5 DEF GraphTypeOK, Queued
<1>11. DeniedSweepRaises'
  BY <1>1 DEF DeniedSweepRaises
<1>12. r # "picks" => /\ found' \subseteq Listed'
                      /\ \A v \in unlisted' : /\ v.at \in Folders /\ v.depth \in 0..(Nesting - 1)
                                              /\ Reached(v.at, v.depth)'
  BY <1>1, <1>2, <1>3, <1>6, <1>7
<1>13. r = "picks" => \A v \in unlisted' : v.at \in Matching
  BY <1>2, <1>3
<1> QED
  BY <1>1, <1>4, <1>5, <1>8, <1>9, <1>10, <1>11, <1>12, <1>13 DEF GraphInv

LEMMA GraphStart == GraphInit => GraphInv
<1> SUFFICES ASSUME GraphInit PROVE GraphInv
  OBVIOUS
<1>1. /\ FirstPage \in [page : Nat, attempt : 1..MaxAttempts, refreshed : BOOLEAN, items : SUBSET LibraryItems]
      /\ ~FirstPage.refreshed /\ FirstPage.attempt \in 1..MaxAttempts
  <2>1. 1 \in 1..MaxAttempts
    BY GraphAssumption
  <2> QED
    BY <2>1 DEF FirstPage
<1>2. GraphTypeOK
  BY <1>1 DEF GraphInit, GraphTypeOK, Modes
<1> QED
  BY <1>1, <1>2 DEF GraphInit, GraphInv, PageFitsWalk, Walking, DeniedSweepRaises

LEMMA GraphStep == GraphInv /\ [GraphNext]_graphVars => GraphInv'
<1> SUFFICES ASSUME GraphInv, [GraphNext]_graphVars PROVE GraphInv'
  OBVIOUS
<1>1. CASE Answered
  BY <1>1, PageArrivesInv, ThrottledInv, RaisedInv, FolderDeniedInv, ScanInv DEF Answered
<1>2. CASE GivesUp
  BY <1>2, GivesUpInv
<1>3. CASE Reacquire
  BY <1>3, ReacquireInv
<1>4. CASE Search \/ Fetch
  BY <1>4, SnippetsInv
<1>5. CASE \E r \in Modes : StartReader(r)
  BY <1>5, StartReaderInv
<1>6. CASE UNCHANGED graphVars
  <2>1. UNCHANGED <<reader, exists, stage, unlisted, asked, found, partial, denied, graphToken,
                    msalCache, snippets>>
    BY <1>6 DEF graphVars, account
  <2>2. /\ Listed' = Listed /\ Wanted' = Wanted
        /\ \A f, d : Reached(f, d)' <=> Reached(f, d)
        /\ \A p, d : Way(p, d)' <=> Way(p, d)
    BY <2>1 DEF Listed, Wanted, Reached, Way, Descends
  <2>3. Covered' <=> Covered
    BY <2>1, <2>2 DEF Covered
  <2>4. PageFitsWalk' <=> PageFitsWalk
    BY <2>1 DEF PageFitsWalk, PagesOf, Here, Walking
  <2> QED
    BY <2>1, <2>2, <2>3, <2>4 DEF GraphInv, GraphTypeOK, DeniedSweepRaises
<1> QED
  BY <1>1, <1>2, <1>3, <1>4, <1>5, <1>6 DEF GraphNext, Read

\* A walk that ends has gone through everything within reach.
LEMMA GraphInvIsSafe == GraphInv => GraphReadsSafe
<1> SUFFICES ASSUME GraphInv, stage = "ended", ~partial, ~denied, reader # "picks"
             PROVE  found = Listed \cap Wanted
  BY DEF GraphInv, GraphReadsSafe, CleanWalkIsComplete
<1>1. Covered /\ unlisted = {} /\ found \subseteq Listed /\ found \subseteq Wanted
  BY DEF GraphInv
<1>2. ASSUME NEW f \in Folders, NEW d \in 0..(Nesting - 1), Reached(f, d)
      PROVE  Contents(f) \cap Wanted \subseteq found
  <2>1. PICK p \in [0..d -> Folders] : Way(p, d) /\ p[d] = f
    BY <1>2 DEF Reached, Way
  <2> QED
    BY <1>1, <2>1 DEF Covered
<1> QED
  BY <1>1, <1>2 DEF Listed, Nesting

(* For any library, reader, depth, cap and number of retries: a walk that     *)
(* ends with nothing given up and nothing refused has found every file        *)
(* within its reach, whatever was throttled on the way, and a sweep that was  *)
(* refused raises and forgets the account (sharepoint.py, sp_boundary_sweep). *)
THEOREM LibrariesAreRead == GraphSpec => []GraphReadsSafe
  BY GraphStart, GraphStep, GraphInvIsSafe, PTL DEF GraphSpec

=============================================================================
