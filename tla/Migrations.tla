----------------------------- MODULE Migrations -----------------------------
(***************************************************************************)
(* The sidecar's start brings the database to the newest revision: db.py's *)
(* init_db, migrations.py's upgrade_to_head and the revisions under        *)
(* alembic/versions, in the order of their down_revision.  The upgrade     *)
(* runs on one connection of sqlite3: a statement that changes the schema  *)
(* takes effect at once, until the first that changes rows opens the       *)
(* transaction which the end of the upgrade commits.  Batch mode builds a  *)
(* table anew, and dropping the old one deletes its rows under             *)
(* foreign_keys=ON.  The sidecar may die between any two statements.       *)
(* What is said of an upgrade is said of any chain of revisions that keeps *)
(* to the rules of ChainAssumption, as those of this release do.           *)
(***************************************************************************)
EXTENDS Naturals, Sequences, SequencesExt

CONSTANTS Chain,    \* the revisions, each a sequence of blocks of statements
          MaxBoots  \* bound on the starts of the sidecar

VARIABLES boot,     \* off, running, up, refused
          db,       \* the database as the connection sees it
          saved,    \* as it was when the transaction began
          open,     \* a transaction is open
          pc,       \* the next statement: revision, block and step
          start,    \* the database before the first start
          boots

migrateVars == <<boot, db, saved, open, pc, start, boots>>

-----------------------------------------------------------------------------
(* Statements, and blocks of them that run unless something is there.      *)

Stmt(do, on, made) == [do |-> do, on |-> on, made |-> made]
Make(x) == Stmt("make", x, x)
Insert(x) == Stmt("insert", x, x)
Rebuild(t, made) == <<Stmt("copy", t, ""), Stmt("swap", t, made)>>

Unless(x, steps) == [unless |-> x, steps |-> steps]
Each(objects) == [i \in 1..Len(objects) |-> Unless(objects[i], <<Make(objects[i])>>)]
Together(t, objects) == <<Unless(t,
                                 <<Make(t)>> \o [i \in 1..Len(objects) |-> Make(objects[i])])>>

(* The revisions.  evidencetag stands for the six tables that link         *)
(* evidence, and an index for all those a revision makes on its table.     *)
FirstTables == <<"framework", "baseline", "sweepweights", "workbook", "evidence",
                 "assessment", "poam", "evidencetag", "stigfinding", "assessmenttrace",
                 "assessmentevidenceshown", "odpassignment", "odpauditlog">>
Initial == <<Unless("nothing", [i \in 1..Len(FirstTables) |-> Make(FirstTables[i])])>>
SeedSweepWeights == <<Unless("seed", <<Insert("seed")>>)>>
OdpSlotIndex == Each(<<"odpassignment.slot_index", "odpassignment.slot_total">>)
AddBoundaryProvenance == Each(<<"boundarytokensource", "ix_boundarytokensource", "sweephit",
                             "ix_sweephit">>)
AddIngestReport == Each(<<"ingestreport", "ix_ingestreport">>)
AssessmentImplementations ==
    Each(<<"baseline.scope_label", "ix_baseline", "assessmentimplementation",
           "ix_assessmentimplementation">>)
AddPoamRisk == Each(<<"poam.risk", "poamriskhistory", "ix_poamriskhistory">>)
ResidualSuggestionCache == Each(<<"residualsuggestioncache", "ix_residualsuggestioncache">>)

(* The salt: a column, a value for each workbook, NOT NULL.                *)
EvidenceWorkbookScope ==
    <<Unless("workbook.scope_salt",
             <<Make("workbook.scope_salt"), Stmt("fill", "workbook", "salt")>>
             \o Rebuild("workbook", "salt NOT NULL"))>>
    \o Each(<<"quarantinedevidence", "ix_quarantinedevidence">>)
    \o <<Unless("evidence cascades", Rebuild("evidencetag", "evidence cascades"))>>

EvidenceCompositeUnique == <<Unless("uq_evidence", Rebuild("evidence", "uq_evidence"))>>

(* A first version of this revision left its copy of the table behind.     *)
FrameworkEnabled ==
    <<Unless("nothing", <<Stmt("discard", "framework", "")>>)>>
    \o Each(<<"framework.enabled", "ix_framework_enabled">>)

EvidenceShownDisposition ==
    Each(<<"assessmentevidenceshown.disposition", "assessmentevidenceshown.rank_score",
           "assessmentevidenceshown.deferred_reason", "ix_assessmentevidenceshown">>)

AddRetention == Each(<<"stigfinding.group_id", "stigfinding.texts", "ix_stigfinding">>)
             \o Together("evidenceretentionevent", <<"ix_evidenceretentionevent">>)
             \o Together("automationschedule", <<"ix_automationschedule">>)
Epochs == Together("overrideepoch", <<"ix_overrideepoch">>)

AssessmentUnique ==
    <<Unless("nothing", <<Stmt("dedup", "assessment", "")>>),
      Unless("uq_assessment", Rebuild("assessment", "uq_assessment"))>>

ImplStatusNullable == <<Unless("status NULL", Rebuild("assessmentimplementation",
                                                      "status NULL"))>>
EvidenceHostPairs == Each(<<"evidence.host_pairs">>)
StigBenchmark == Each(<<"stigfinding.benchmark">>)

ScopeOdps ==
    <<Unless("odpassignment.workbook_id",
             Rebuild("odpassignment", "odpassignment.workbook_id")
             \o <<Make("ix_odpassignment")>>),
      Unless("odpauditlog.workbook_id",
             <<Make("odpauditlog.workbook_id"), Make("ix_odpauditlog")>>)>>

Revisions == <<Initial, SeedSweepWeights, OdpSlotIndex, AddBoundaryProvenance,
               AddIngestReport, AssessmentImplementations, AddPoamRisk,
               ResidualSuggestionCache, EvidenceWorkbookScope, EvidenceCompositeUnique,
               FrameworkEnabled, EvidenceShownDisposition, AddRetention, Epochs,
               AssessmentUnique, ImplStatusNullable, EvidenceHostPairs, StigBenchmark,
               ScopeOdps>>

-----------------------------------------------------------------------------
(* The statements of the chain, by revision, block and step.               *)

Newest == Len(Chain)
Stmts == UNION {UNION {{<<i, b, k>> : k \in DOMAIN Chain[i][b].steps} :
                          b \in DOMAIN Chain[i]} : i \in 1..Newest}
StmtAt(p) == Chain[p[1]][p[2]].steps[p[3]]
Guard(p) == Chain[p[1]][p[2]].unless

Doing(what) == {p \in Stmts : StmtAt(p).do = what}
Making == Doing("make") \cup Doing("swap")
Upto(i, places) == {p \in places : p[1] <= i}
MadeAt(places) == {StmtAt(p).made : p \in places}
ObjectsAt(i) == MadeAt(Upto(i, Making))

-----------------------------------------------------------------------------
(* What the rows hold that an upgrade can lose: a pair is a second         *)
(* assessment of an objective.                                             *)

Needs == [workbook |-> {}, evidence |-> {"workbook"}, tag |-> {"evidence"},
          assessment |-> {"workbook"}, shown |-> {"assessment", "evidence"},
          trace |-> {"assessment"}, impl |-> {"assessment"}, pair |-> {"assessment"},
          pairtrace |-> {"pair"}]

Unborn(i) == (IF "assessmentimplementation" \in ObjectsAt(i) THEN {} ELSE {"impl"})
             \cup (IF Upto(i, Doing("dedup")) # {} THEN {"pair", "pairtrace"} ELSE {})

Contents(i) == {some \in SUBSET (DOMAIN Needs \ Unborn(i)) :
                   \A x \in some : Needs[x] \subseteq some}

(* Dropping a table deletes its rows first: those that name them go or     *)
(* refuse.                                                                 *)
NamedBy(t) == {x \in DOMAIN Needs \ {"pair"} : t \in Needs[x]}
Going(d, t) == IF t = "evidence" /\ "evidence cascades" \in d.has THEN {"tag"} ELSE {}

-----------------------------------------------------------------------------
(* The rules that the authors of the revisions keep to.                    *)

Statements == [do : {"make", "copy", "swap", "discard", "insert", "fill", "dedup"},
               on : STRING, made : STRING]
Blocks == [unless : STRING, steps : Seq(Statements)]

(* What a block looks for is what it makes first, so a block that is       *)
(* skipped is one whose beginning was made. The first revision looks for   *)
(* nothing, since it only makes; after it only what leaves the schema as   *)
(* it is may look for nothing.                                             *)
BlocksAreGuarded ==
    \A p \in Stmts :
        LET first == StmtAt([p EXCEPT ![3] = 1])
        IN  IF Guard(p) = "nothing"
            THEN StmtAt(p).do \in (IF p[1] = 1 THEN {"make"} ELSE {"dedup", "discard"})
            ELSE /\ p[1] > 1
                 /\ \/ first.do \in {"make", "insert"} /\ first.made = Guard(p)
                    \/ first.do = "copy" /\ StmtAt([p EXCEPT ![3] = 2]).made = Guard(p)

(* A table is built anew by a copy and then the swap; a row is inserted    *)
(* in a block of its own.                                                  *)
StepsGoTogether ==
    /\ \A p \in Doing("copy") : LET next == [p EXCEPT ![3] = @ + 1]
                               IN  next \in Doing("swap") /\ StmtAt(next).on = StmtAt(p).on
    /\ \A p \in Doing("swap") : p[3] > 1 /\ [p EXCEPT ![3] = @ - 1] \in Doing("copy")
    /\ \A p \in Doing("insert") : Len(Chain[p[1]][p[2]].steps) = 1

(* No two statements make one object or build one table anew, and a table  *)
(* whose copy was left behind once is never built anew.                    *)
MadeOnce ==
    /\ \A p, q \in Making \cup Doing("insert") : StmtAt(p).made = StmtAt(q).made => p = q
    /\ \A p, q \in Doing("copy") : StmtAt(p).on = StmtAt(q).on => p = q
    /\ \A p \in Doing("copy"), q \in Doing("discard") : StmtAt(p).on # StmtAt(q).on
    /\ \A p \in Making \cup Doing("insert") :
          /\ StmtAt(p).made \notin {"nothing", "alembic_version", "salt"}
          /\ p[1] > 1 => StmtAt(p).made \notin DOMAIN Needs

(* Workbooks are salted; evidence is built anew when its links cascade.    *)
DataFits ==
    /\ Doing("fill") # {}
    /\ \A p \in Doing("swap") : StmtAt(p).on = "evidence" =>
          \E q \in Making : q[1] < p[1] /\ StmtAt(q).made = Guard(q)
                                       /\ Guard(q) = "evidence cascades"

ASSUME ChainAssumption ==
    /\ Chain \in Seq(Seq(Blocks)) /\ Newest > 0
    /\ \A i \in 1..Newest : \A b \in DOMAIN Chain[i] : Chain[i][b].steps # <<>>
    /\ BlocksAreGuarded /\ StepsGoTogether /\ MadeOnce /\ DataFits

-----------------------------------------------------------------------------
(* copies: the tables of which a rebuild has left a copy.                  *)
Holding(at, has, copies, rows) == [at |-> at, has |-> has, copies |-> copies, rows |-> rows]

(* The seed and the salt, where the upgrades so far wrote them.            *)
WrittenBy(i) == MadeAt(Upto(i, Doing("insert")))
                \cup (IF Upto(i, Doing("fill")) # {} THEN {"salt"} ELSE {})

Stamped(i, copies, rows) ==
    Holding(i, ObjectsAt(i) \cup {"alembic_version"}, copies, rows \cup WrittenBy(i))

(* Nothing, a database from before alembic, one that an earlier release    *)
(* brought to its newest revision and the user filled, or one in which it  *)
(* left a copy that a later revision discards.                             *)
Released ==
    {Holding(0, {}, {}, {}), Holding(0, ObjectsAt(1), {}, {"workbook"})}
    \cup (UNION {{Stamped(i, {}, rows) : rows \in Contents(i)} : i \in 1..Newest})
    \cup {Stamped(p[1] - 1, {StmtAt(p).on}, {"workbook"}) : p \in Doing("discard")}

MigrateInit ==
    /\ db \in Released /\ start = db /\ saved = db
    /\ boot = "off" /\ open = FALSE /\ pc = <<1, 1, 1>> /\ boots = 0

(* init_db and upgrade_to_head; the version table is made outside of any   *)
(* transaction.                                                            *)
Boot ==
    /\ boot \in {"off", "refused"} /\ boots < MaxBoots
    /\ boots' = boots + 1
    /\ IF db.has # {} /\ "alembic_version" \notin db.has
       THEN boot' = "refused" /\ UNCHANGED <<db, saved, open, pc, start>>
       ELSE /\ boot' = "running" /\ open' = FALSE
            /\ pc' = <<db.at + 1, 1, 1>>
            /\ db' = [db EXCEPT !.has = @ \cup {"alembic_version"}]
            /\ UNCHANGED <<saved, start>>

Running == boot = "running" /\ pc[1] <= Newest
Block == Chain[pc[1]][pc[2]]
AtBlock == Running /\ pc[2] <= Len(Chain[pc[1]])
Skipped == AtBlock /\ pc[3] = 1 /\ Block.unless \in db.has \cup db.rows
Current == Block.steps[pc[3]]

NextStep == IF pc[3] < Len(Block.steps) THEN <<pc[1], pc[2], pc[3] + 1>>
            ELSE <<pc[1], pc[2] + 1, 1>>

Refuse ==
    /\ boot' = "refused" /\ open' = FALSE
    /\ db' = IF open THEN saved ELSE db
    /\ UNCHANGED <<saved, pc, start, boots>>

SkipBlock ==
    /\ Skipped
    /\ pc' = <<pc[1], pc[2] + 1, 1>>
    /\ UNCHANGED <<boot, db, saved, open, start, boots>>

(* CREATE TABLE, ADD COLUMN, CREATE INDEX, the copy of a rebuild and a     *)
(* DROP of one that was left.                                              *)
Change(there, to) ==
    IF there THEN Refuse
    ELSE /\ db' = to
         /\ pc' = NextStep
         /\ UNCHANGED <<boot, saved, open, start, boots>>

ChangeSchema ==
    /\ AtBlock /\ ~Skipped
    /\ \/ Current.do = "make"
          /\ Change(Current.made \in db.has, [db EXCEPT !.has = @ \cup {Current.made}])
       \/ Current.do = "copy"
          /\ Change(Current.on \in db.copies, [db EXCEPT !.copies = @ \cup {Current.on}])
       \/ Current.do = "discard"
          /\ Change(FALSE, [db EXCEPT !.copies = @ \ {Current.on}])

(* Mutant: each statement is committed.                                    *)
WrittenAtOnce(to) ==
    /\ db' = to
    /\ open' = FALSE
    /\ UNCHANGED <<boot, saved, start, boots>>

(* The first statement that changes rows opens the transaction.            *)
Written(to) ==
    /\ db' = to
    /\ saved' = IF open THEN saved ELSE db
    /\ open' = TRUE
    /\ UNCHANGED <<boot, start, boots>>

(* The seed, the salts and the duplicates: nothing is written when there   *)
(* is no workbook to salt and no duplicate.  A duplicate goes with its     *)
(* implementation rows only.                                               *)
ChangeRows ==
    /\ AtBlock /\ ~Skipped
    /\ \/ /\ Current.do = "insert"
          /\ Written([db EXCEPT !.rows = @ \cup {Current.made}])
          /\ pc' = NextStep
       \/ /\ Current.do = "fill"
          /\ pc' = NextStep
          /\ IF "workbook" \in db.rows THEN Written([db EXCEPT !.rows = @ \cup {"salt"}])
             ELSE UNCHANGED <<boot, db, saved, open, start, boots>>
       \/ /\ Current.do = "dedup"
          /\ IF "pairtrace" \in db.rows THEN Refuse
             ELSE /\ pc' = NextStep
                  /\ IF "pair" \in db.rows THEN Written([db EXCEPT !.rows = @ \ {"pair"}])
                     ELSE UNCHANGED <<boot, db, saved, open, start, boots>>

(* The copied rows, the old table dropped, the new one renamed.            *)
Swap ==
    /\ AtBlock /\ ~Skipped /\ Current.do = "swap"
    /\ LET lost == Going(db, Current.on)
       IN  IF (NamedBy(Current.on) \ lost) \cap db.rows # {} THEN Refuse
           ELSE /\ Written([db EXCEPT !.rows = @ \ lost,
                                      !.copies = @ \ {Current.on},
                                      !.has = @ \cup {Current.made}])
                /\ pc' = NextStep

Stamp ==
    /\ Running /\ pc[2] > Len(Chain[pc[1]])
    /\ Written([db EXCEPT !.at = pc[1]])
    /\ pc' = <<pc[1] + 1, 1, 1>>

Commit ==
    /\ boot = "running" /\ pc[1] > Newest
    /\ boot' = "up" /\ open' = FALSE
    /\ UNCHANGED <<db, saved, pc, start, boots>>

Crash ==
    /\ boot \in {"running", "up"} /\ boots < MaxBoots
    /\ boot' = "off" /\ open' = FALSE
    /\ db' = IF open THEN saved ELSE db
    /\ UNCHANGED <<saved, pc, start, boots>>

MigrateNext == Boot \/ SkipBlock \/ ChangeSchema \/ ChangeRows \/ Swap \/ Stamp \/ Commit
    \/ Crash

MigrateSpec == MigrateInit /\ [][MigrateNext]_migrateVars

-----------------------------------------------------------------------------
(* What a block makes after the object it looks for.                       *)
Followers == MadeAt({p \in Making : p[3] > 1 /\ Guard(p) \notin {"nothing", StmtAt(p).made}})

(* A revision that is stamped as done has made all it makes; where a start *)
(* was cut short, all but what follows the object its guard looks for,     *)
(* which the next start then takes for done.                               *)
StampedIsMade ==
    boot # "running" =>
        ObjectsAt(db.at) \ db.has \subseteq (IF boots > 1 THEN Followers ELSE {})

(* A workbook has its salt once the application is up, unless a start that *)
(* failed or died left the empty column (EvidenceWorkbookScope).           *)
SaltsAreFilled ==
    boot = "up" /\ "workbook" \in db.rows => "salt" \in db.rows \/ boots > 1

(* An upgrade deletes the duplicates and, where evidence is built anew     *)
(* after its links cascade, the links; a refused or a later one nothing.   *)
RowsLostAreKnown ==
    LET lost == start.rows \ db.rows
    IN  /\ boot \in {"off", "refused"} /\ db.at = start.at => lost = {}
        /\ "tag" \in lost => \E p \in Doing("swap") : p[1] > start.at
                                                     /\ StmtAt(p).on = "evidence"
        /\ lost \subseteq {"tag", "pair"}

(* A start is refused for a database from before alembic, one that died    *)
(* over its first tables, a copy of a table that an earlier start left, or *)
(* rows that name those of a table to be built anew.                       *)
RefusedStartsAreKnown ==
    boot = "refused" =>
        \/ "alembic_version" \notin db.has
        \/ db.at = 0 /\ boots > 1
        \/ \E p \in Doing("copy") : p[1] = db.at + 1 /\ StmtAt(p).on \in db.copies
        \/ \E p \in Doing("swap") :
              LET named == NamedBy(StmtAt(p).on)
              IN  /\ p[1] > start.at
                  /\ (IF StmtAt(p).on = "evidence" THEN named \ {"tag"} ELSE named)
                       \cap start.rows # {}
        \/ \E p \in Doing("dedup") : p[1] > start.at /\ "pairtrace" \in start.rows

(* Whatever release a database comes from, whatever rows it holds and      *)
(* wherever starts die: what a stamp promises is there, no rows go but for *)
(* the known causes, and every refused start has its reason.               *)
MigrationsSafe == StampedIsMade /\ SaltsAreFilled /\ RowsLostAreKnown /\ RefusedStartsAreKnown

(* alembic/versions/0010_evidence_composite_unique.py on its rebuild of    *)
(* the table: drop, recreate with new constraints, copy rows.  What the    *)
(* user had before an upgrade is there after it, but for the duplicates.   *)
RowsAreKept == boot = "up" => start.rows \ {"pair"} \subseteq db.rows
=============================================================================
