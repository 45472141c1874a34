------------------------------ MODULE Cascade -------------------------------
(***************************************************************************)
(* What deleting something takes with it.  The rows of the database under  *)
(* the references of Schema, every request that deletes rows as the        *)
(* sequence of DELETE and UPDATE statements it runs, and SQLite with       *)
(* foreign_keys=ON (db.py) carrying each one out: it cascades, clears a    *)
(* column, or refuses and rolls the request back.                          *)
(*                                                                         *)
(* At most one row per table, owner and kind; rows of one workbook name    *)
(* that workbook's rows unless their kind says otherwise.                  *)
(***************************************************************************)
EXTENDS Schema, Naturals, Sequences, SequencesExt

CONSTANT MaxRequests  \* bound on the requests and what is written between them

Main == "w1"      \* a workbook with everything a workbook can have
Other == "w2"     \* a second one, as far as the first one's rows can meet it
Owners == {Main, Other}

VARIABLES rows,      \* the rows there are
          at,        \* the workbook_id of each system context
          deleting,  \* a workbook deletion that has read its ids
          last,      \* the last request: what it was about, whether it was refused
          requests   \* how many there were

cascadeVars == <<rows, at, deleting, last, requests>>

-----------------------------------------------------------------------------
(* Rows: second is a part of a component, an older version of an evidence  *)
(* or the overlay of a program; cross is linked to the other workbook's    *)
(* evidence; loose lost its nullable reference.                            *)

Row(t, o, n) == [t |-> t, o |-> o, n |-> n]

OfCatalog == {"framework", "control", "objective", "sweepweights", "promptsnapshot"}
OfProgram == {"requirementsource", "requirementmap", "ingestreport"}
Meeting == {"workbook", "baseline", "baselineobjective", "evidence", "evidencetag",
            "assessment", "poam"}
OfWorkbook ==
    Links \cup Meeting \cup
    {"baselinecontrol", "workbookoverlay", "workbooksyncevent", "asset", "component",
     "boundarysegment", "assessmentrun", "assessmentimplementation", "assessmenttrace",
     "assessmentevidenceshown", "assessmentcitation", "calibrationentry", "poamobjective",
     "poammilestone", "poamriskhistory", "residualsuggestioncache", "sweepdecision",
     "sweeprun", "sweephit", "crmsuspicionlog", "crmshortcircuitevent", "crmcorpusfeatures",
     "overrideepoch", "evidenceretentionevent", "automationschedule", "odpassignment",
     "odpauditlog"}
Crossing == {"poamevidence", "evidencecomponent", "evidenceasset", "evidenceboundary"}

Contexts == {Row("systemcontext", o, "plain") : o \in Owners \cup {"pending"}}

AllRows == UNION {
    {Row(t, "catalog", "plain") : t \in OfCatalog}, {Row(t, "program",
                                                         "plain") : t \in OfProgram},
    {Row(t, o, "plain") : t \in {"baseline", "baselinecontrol"}, o \in {"crm", "program"}},
    {Row(t, Main, "plain") : t \in OfWorkbook}, {Row(t, Other, "plain") : t \in Meeting},
    {Row(t, Main, "second") : t \in {"component", "evidence", "workbookoverlay"}},
    {Row(t, Main, "cross") : t \in Crossing}, Contexts,
    {Row("boundarytokensource", Main, n) : n \in {"plain", "loose"}},
    {Row(t, "pending", "plain") : t \in {"sweeprun", "sweephit"}},
    {Row(t, Main, "loose") : t \in {"assessmentimplementation", "evidence"}}}

IsSet(r, to) ==
    CASE to = "workbook" -> r.o # "pending" /\ r.t # "systemcontext"
      [] to = r.t -> r.n = "second" /\ to \in {"component", "evidence"}
      [] to = "systemcontext" -> r.t # "sweeprun" \/ r.o = "pending"
      [] to \in {"evidence", "baseline"} -> r.n # "loose"
      [] to \in {"system", "engagement"} -> FALSE
      [] OTHER -> TRUE

OwnerOf(r, to) ==
    CASE to \in OfCatalog -> "catalog"
      [] to \in OfProgram -> "program"
      [] to = "baseline" /\ r.t \notin {"workbook", "baselineobjective", "baselinecontrol"} ->
            IF r.n = "second" THEN "program" ELSE "crm"
      [] to = "evidence" /\ r.n = "cross" -> Other
      [] OTHER -> r.o

Pointed(r, refs) == {[to |-> Row(f.to, OwnerOf(r, f.to), "plain"), on |-> f.on] :
                      f \in {g \in refs : g.from = r.t /\ IsSet(r, g.to)
                                         /\ Row(g.to, OwnerOf(r, g.to), "plain") \in AllRows}}

(* What SQLite enforces, and what a statement finds in the columns.        *)
Parents == [r \in AllRows |-> Pointed(r, Built)]
Columns == [r \in AllRows |-> {p.to : p \in Pointed(r, Declared)}]

(* What the program writes before it writes a row of the table.            *)
Before == [r \in AllRows |->
             Columns[r]
             \cup {Row(t, r.o, "plain") :
                     t \in CASE r.t = "assessment" -> {"baselineobjective"}
                             [] r.t = "overrideepoch" -> {"assessment"}
                             [] OTHER -> {}}]

Widened(S) == S \cup UNION {Before[r] : r \in S}
WithBefore == [r \in AllRows |-> Widened(Widened(Widened(Widened(Widened({r})))))]

Naming(some, t, keys) == {r \in some : r.t = t /\ Columns[r] \cap keys # {}}
Of(some, t, o) == {r \in some : r.t = t /\ r.o = o}

-----------------------------------------------------------------------------
(* Statements *)

Delete(t, keys) == [do |-> "delete", t |-> t, keys |-> keys]    \* those naming keys
DeleteRows(keys) == [do |-> "rows", t |-> "", keys |-> keys]
Clear(t, keys) == [do |-> "clear", t |-> t, keys |-> keys]      \* set the reference NULL
Unlink(w) == [do |-> "unlink", t |-> "systemcontext", keys |-> {w}]

Loosened(all, some) == (all \ some) \cup {[r EXCEPT !.n = "loose"] : r \in some}

(* Those rows, also where a reference was cleared since.                   *)
Still(all, some) ==
    all \cap (some \cup {[r EXCEPT !.n = "loose"] : r \in {q \in some : q.n = "second"}})

(* Two partial unique indexes: one context per workbook, one pending.      *)
IndexHolds(db) ==
    \A c \in Contexts \cap db.rows, d \in Contexts \cap db.rows : db.at[c] = db.at[d] => c = d

Without(db, gone) ==
    LET kept == db.rows \ gone
        unset == {r \in kept : \E p \in Parents[r] : p.on = "null" /\ p.to \in gone}
    IN  [rows |-> Loosened(kept, unset),
         ok |-> /\ \A r \in kept, g \in gone : [to |-> g, on |-> "refuse"] \notin Parents[r]
                /\ \A c \in Contexts \cap kept : Row("workbook", db.at[c], "plain") \notin gone,
         at |-> [c \in Contexts |-> IF c \in gone THEN c.o ELSE db.at[c]]]

Deleted(db, some) ==
    IF some = {} THEN db
    ELSE Without(db, some \cup {r \in db.rows : \E p \in Parents[r] : p.on = "cascade"
                                                                     /\ p.to \in some})

Unlinked(db, w) ==
    LET moved == [db EXCEPT !.at = [c \in Contexts |->
                                       IF c \in db.rows
                                           /\ @[c] = w.o THEN "pending" ELSE @[c]]]
    IN  [moved EXCEPT !.ok = IndexHolds(moved)]

Carried(db, s) ==
    CASE ~db.ok -> db
      [] db.ok /\ s.do \in {"delete", "rows"} ->
            Deleted(db, IF s.do = "rows" THEN Still(db.rows, s.keys)
                                         ELSE Naming(db.rows, s.t, s.keys))
      [] db.ok /\ s.do = "clear" -> [db EXCEPT !.rows = Loosened(@, Naming(@, s.t, s.keys))]
      [] db.ok /\ s.do = "unlink" -> Unlinked(db, CHOOSE w \in s.keys : TRUE)

Carry(db, statements) == FoldLeft(Carried, db, statements)

-----------------------------------------------------------------------------
(* Requests, as the statements they run *)

Trail(assessments) ==
    <<Delete("assessmentcitation", assessments), Delete("assessmenttrace", assessments),
      Delete("assessmentevidenceshown", assessments)>>

WithPoam(poams) ==
    <<Delete("poamriskhistory", poams), Delete("poammilestone", poams),
      Delete("poamobjective", poams), Delete("poamevidence", poams), DeleteRows(poams)>>

(* workbooks.py:delete_workbook in four parts.  ids are the rows of the    *)
(* workbook as they were before it deleted anything; runs, sweeps and the  *)
(* rows that name the workbook itself are found by the statements.         *)
Typed(ids, t) == {r \in ids : r.t = t}
Live(w, t) == {Row(t, w.o, "plain")}

(* Mutant: the implementation rows have no statement of their own.         *)
NoSliceRows(w, ids) ==
    Trail(Typed(ids, "assessment"))
    \o <<Delete("assessment", {w}),
         Delete("calibrationentry", Live(w, "assessmentrun")), Delete("assessmentrun", {w})>>

AssessmentRows(w, ids) ==
    Trail(Typed(ids, "assessment"))
    \o <<Delete("assessmentimplementation", Typed(ids, "assessment")), Delete("assessment",
                                                                              {w}),
         Delete("calibrationentry", Live(w, "assessmentrun")), Delete("assessmentrun", {w})>>

PoamRows(w, ids) ==
    LET poams == Typed(ids, "poam")
    IN  <<Delete("poamobjective", poams), Delete("poamevidence", poams),
          Delete("poammilestone", poams), Delete("poamriskhistory", poams),
          Delete("residualsuggestioncache", poams), Delete("poam", {w})>>

ScopeRows(w, ids) ==
    <<Delete("sweepdecision", {w}), Delete("sweephit", Live(w, "sweeprun")),
      Delete("sweeprun", {w}), Delete("crmshortcircuitevent", {w}),
      Delete("crmsuspicionlog", {w}), Delete("crmcorpusfeatures", {w}),
      Delete("evidenceasset", Typed(ids, "asset")), Delete("asset", {w}),
      Delete("evidenceboundary", Typed(ids, "boundarysegment")),
      Delete("boundarysegment", {w}), Delete("stigfinding", Typed(ids, "evidence")),
      Delete("workbookoverlay", {w}), Delete("workbooksyncevent", {w}),
      Delete("evidencecomponent", Typed(ids, "component")), Delete("component", {w}),
      Delete("overrideepoch", {w}), Delete("evidenceretentionevent", {w}),
      Delete("automationschedule", {w}), Delete("odpauditlog", {w}),
      Delete("odpassignment", {w})>>

CorpusRows(w, ids) ==
    LET corpus == Typed(ids, "evidence")
    IN  <<Delete("evidencetag", corpus), Delete("boundarytokensource", corpus),
          Clear("evidence", corpus), DeleteRows(corpus), Unlink(w), DeleteRows({w})>>

WorkbookRows(w, ids) == AssessmentRows(w, ids) \o PoamRows(w, ids) \o ScopeRows(w, ids)
                        \o CorpusRows(w, ids)

(* crm_backfill.py:purge_baseline_contribution; derived are the rows whose *)
(* verdict came from a CRM and whom no human signed.                       *)
Purge(db, b, owners, derived) ==
    LET of(t) == {r \in Naming(db.rows, t, {b}) : r.o \in owners}
        slices == of("assessmentimplementation")
        emptied == {a \in db.rows \cap derived :
                      LET own == Naming(db.rows, "assessmentimplementation", {a})
                      IN  own # {} /\ own \subseteq slices}
    IN  <<Delete("crmshortcircuitevent", of("crmsuspicionlog")),
          DeleteRows(of("crmsuspicionlog")), DeleteRows(of("crmcorpusfeatures")),
          DeleteRows(slices)>>
        \o Trail(emptied) \o <<DeleteRows(emptied)>>

Scoping(b) == <<Delete("baselinecontrol", {b}), Delete("baselineobjective", {b}),
                Delete("workbookoverlay", {b})>>

BaselineRows(db, b, derived) ==
    Scoping(b) \o Purge(db, b, Owners, derived)
    \o <<Clear("assessmentimplementation", {b}), DeleteRows({b})>>

EvidenceRows(db, some) ==
    <<Delete("assessmentcitation", Naming(db.rows, "assessmentevidenceshown", some)),
      Delete("assessmentevidenceshown", some), Delete("evidencetag", some),
      Delete("stigfinding", some), Delete("poamevidence", some),
      Delete("evidencecomponent", some), Delete("evidenceasset", some),
      Delete("evidenceboundary", some), Delete("boundarytokensource", some),
      Clear("evidence", some), DeleteRows(some)>>

RequirementRows(source, synthetic) ==
    <<Delete("requirementmap", {source})>> \o Scoping(synthetic)
    \o <<Clear("assessmentimplementation", {synthetic}), DeleteRows({synthetic}),
         DeleteRows({source})>>

-----------------------------------------------------------------------------
(* A refused statement rolls the request's transaction back.               *)

Database == [rows |-> rows, at |-> at, ok |-> TRUE]

Committed(db, done) == IF done.ok THEN done ELSE [db EXCEPT !.ok = FALSE]

Transaction(db, statements) == Committed(db, Carry(db, statements))

(* After the workbook its primary baseline goes, in a second transaction.  *)
BaselineAfter(w, first) ==
    IF first.ok
    THEN Transaction(first, BaselineRows(first, Row("baseline", w.o, "plain"), {}))
    ELSE first

WorkbookDeleted(db, w, ids) == BaselineAfter(w, Transaction(db, WorkbookRows(w, ids)))

Respond(op, on, db) ==
    /\ requests < MaxRequests
    /\ rows' = db.rows /\ at' = db.at
    /\ last' = [op |-> op, on |-> on, ok |-> db.ok]
    /\ requests' = requests + 1

Request(op, on, statements) ==
    /\ on \subseteq rows
    /\ Respond(op, on, Transaction(Database, statements))
    /\ UNCHANGED deleting

Known == {Row(t, "catalog", "plain") : t \in OfCatalog}
         \cup {Row(t, o, "plain") : t \in {"workbook", "baseline"}, o \in Owners}
         \cup {Row("baseline", "crm", "plain")}

(* A database with nothing beside its workbooks, with one link between two *)
(* rows, and with everything but the one or the other context.             *)
Populated ==
    {Known} \cup {Known \cup WithBefore[r] :
                      r \in {q \in AllRows : q.n # "loose" /\ q.t \in Links}}
    \cup {Known \cup UNION {WithBefore[r] : r \in {q \in AllRows : q.n # "loose"
                                                   /\ c \notin WithBefore[q]}} :
             c \in {Row("systemcontext", o, "plain") : o \in {Main, "pending"}}}

CascadeInit ==
    /\ rows \in Populated
    /\ at = [c \in Contexts |-> c.o]
    /\ deleting = {}
    /\ last = [op |-> "none", on |-> {}, ok |-> TRUE]
    /\ requests = 0

(* Any part of the program commits a row and those it needs.  Populated    *)
(* stands for what was written earlier, so this is between the two steps   *)
(* of a deletion.                                                          *)
Write(r) ==
    LET new == WithBefore[r] \ rows
        db == [Database EXCEPT !.rows = @ \cup new]
    IN  /\ requests + 1 < MaxRequests /\ r \notin rows /\ deleting # {}
        /\ r.n = "loose" => r.t \in {"boundarytokensource", "assessmentimplementation"}
        /\ \A q \in new : q.t # "workbook" /\ ~(q.t = "baseline" /\ q.o \in Owners)
        /\ IndexHolds(db)
        /\ rows' = db.rows /\ requests' = requests + 1
        /\ UNCHANGED <<at, deleting, last>>

BeginDeleteWorkbook(w) ==
    /\ deleting = {} /\ w \in rows /\ requests < MaxRequests
    /\ deleting' = {[of |-> w, ids |-> {r \in rows : r.o = w.o}]}
    /\ UNCHANGED <<rows, at, last, requests>>

DeleteWorkbook ==
    \E d \in deleting :
        /\ Respond("workbook", d.ids, WorkbookDeleted(Database, d.of, d.ids))
        /\ deleting' = {}

(* baselines.py:delete_baseline, forced when a workbook is scoped by it.   *)
ForceDeleteBaseline(w) ==
    LET b == Row("baseline", w.o, "plain")
    IN  /\ {w, b} \subseteq rows
        /\ Respond("baseline", Of(rows, "workbook", w.o) \cup {b},
                  WorkbookDeleted(Database, w, {r \in rows : r.o = w.o}))
        /\ UNCHANGED deleting

(* The same statements when another upload replaces a CRM by its label.    *)
DeleteBaseline(b, derived) ==
    /\ Row("workbook", b.o, "plain") \notin rows
    /\ Request("baseline", {b}, BaselineRows(Database, b, derived))

DetachOverlay(derived) ==
    LET overlay == Row("workbookoverlay", Main, "plain")
        crm == Row("baseline", "crm", "plain")
    IN  Request("detach", {overlay},
                <<DeleteRows({overlay})>> \o Purge(Database, crm, {Main}, derived))

DeleteRequirementSource ==
    LET source == Row("requirementsource", "program", "plain")
    IN  Request("requirements", {source},
                RequirementRows(source, Row("baseline", "program", "plain")))

DeleteOneEvidence(e) == Request("evidence", {e}, EvidenceRows(Database, {e}))

ClearEvidence(w) ==
    LET all == Of(rows, "evidence", w.o)
    IN  Request("clear", {w}, EvidenceRows(Database, all))

(* evidence_retention.py: rows nothing rests on go, and leave a ledger row.*)
Evictable(e) ==
    /\ \A t \in {"evidencetag", "stigfinding", "poamevidence", "assessmentevidenceshown"} :
          Naming(rows, t, {e}) = {}
    /\ Naming(rows, "evidence", {e}) = {}

Retention(e) ==
    /\ Evictable(e)
    /\ LET done == Transaction(Database, <<DeleteRows({e})>>)
           ledger == Row("evidenceretentionevent", Main, "plain")
       IN  Respond("retention", {e}, IF done.ok /\ e.o = Main
                                    THEN [done EXCEPT !.rows = @ \cup {ledger}] ELSE done)
    /\ e \in rows
    /\ UNCHANGED deleting

DeleteComponent(c) ==
    Request("component", {c}, <<Delete("evidencecomponent", {c}), DeleteRows({c})>>)
DeleteAsset(a) == Request("asset", {a}, <<Delete("evidenceasset", {a}), DeleteRows({a})>>)
DeleteBoundarySegment(b) ==
    Request("segment", {b}, <<Delete("evidenceboundary", {b}), DeleteRows({b})>>)

(* set_evidence_boundary: one link instead of those there were, to a       *)
(* segment of the workbook the caller names.                               *)
SetEvidenceBoundary(e, n) ==
    LET link == Row("evidenceboundary", Main, n)
        done == Transaction(Database, <<Delete("evidenceboundary", {e})>>)
    IN  /\ e \in rows /\ e \in Columns[link] /\ Row("workbook", Main, "plain") \in rows
        /\ Respond("boundary", {e}, [done EXCEPT !.rows = @ \cup Columns[link] \cup {link}])
        /\ UNCHANGED deleting

DeletePoam(p) == Request("poam", {p}, WithPoam({p}))

(* controls.py:_sync_poams_for_objective and the two prunes of             *)
(* generator.py: the link goes, a POAM without links goes with it.         *)
DropPoamLinks(p) ==
    LET left == <<Delete("poamobjective", {p}), Delete("poammilestone", {p}),
                  Delete("poamevidence", {p}), Delete("poamriskhistory", {p}),
                  Delete("residualsuggestioncache", {p}), DeleteRows({p})>>
    IN  Naming(rows, "poamobjective", {p}) # {} /\ Request("links", {p}, left)

DeleteSchedule(x) == Request("schedule", {x}, <<DeleteRows({x})>>)

(* A run, a narrative import and the rules replace what hangs on a row.    *)
ReplaceTrail(a) == Request("trail", {a}, Trail({a}))
ImportNarratives(a) ==
    Request("narratives", {a}, <<Delete("assessmentimplementation", {a})>> \o Trail({a}))

(* crm_backfill.py: a row the columns no longer settle, one the rules do   *)
(* not allow.                                                              *)
Heal(a) == Request("heal", {a}, <<Delete("assessmentimplementation", {a}), DeleteRows({a})>>)
RemoveStaleNa(a) ==
    Request("stale", {a}, Trail({a}) \o <<Delete("assessmentimplementation", {a}),
                                          DeleteRows({a})>>)

(* Loaders that rewrite their rows.                                        *)
RewriteRequirements ==
    LET source == Row("requirementsource", "program", "plain")
    IN  Request("reload", {source},
                <<Delete("requirementmap", {source}),
                  Delete("baselinecontrol", {Row("baseline", "program", "plain")})>>)
RefreshBaseline(b) == Request("refresh", {b}, <<Delete("baselinecontrol", {b})>>)

(* disa_cci_loader.py: stubs go unless one of seven columns names them.    *)
Referring == {"assessment", "baselineobjective", "crosswalk", "requirementmap",
              "evidencetag", "poamobjective"}
CleanObjectives(o) ==
    /\ \A t \in Referring : Naming(rows, t, {o}) = {}
    /\ Request("objectives", {o}, <<DeleteRows({o})>>)

(* A control withdrawn in, or no longer altered by, a reloaded catalog.    *)
DropControl(c) == Request("control", {c}, <<DeleteRows({c})>>)

-----------------------------------------------------------------------------
(* routes/system_context.py *)

ResetContext(c) == Request("context", {c}, <<DeleteRows({c})>>)

(* Each extraction replaces the tokens of its context.                     *)
Extract(c, tokens) ==
    LET done == Transaction(Database, <<Delete("boundarytokensource", {c})>>)
    IN  /\ c \in rows /\ \A t \in tokens : Columns[t] \subseteq rows
        /\ Respond("extract", {c}, [done EXCEPT !.rows = @ \cup tokens])
        /\ UNCHANGED deleting

(* An opened workbook without a context takes the pending one.             *)
Promote(c, w) ==
    /\ {c, w} \subseteq rows /\ at[c] = "pending" /\ requests < MaxRequests
    /\ \A d \in Contexts \cap rows : at[d] # w.o
    /\ at' = [at EXCEPT ![c] = w.o]
    /\ requests' = requests + 1 /\ last' = [op |-> "promote", on |-> {c}, ok |-> TRUE]
    /\ UNCHANGED <<rows, deleting>>


-----------------------------------------------------------------------------
CascadeNext ==
    \/ DeleteWorkbook \/ DeleteRequirementSource \/ RewriteRequirements
    \/ \E derived \in {{}, {Row("assessment", w, "plain") : w \in Owners}} :
          DetachOverlay(derived) \/ \E b \in rows : b.t = "baseline" /\ DeleteBaseline(b,
                                                                                       derived)
    \/ \E r \in AllRows : Write(r)
    \/ \E w \in Of(rows, "workbook", Main) \cup Of(rows, "workbook", Other) :
          BeginDeleteWorkbook(w) \/ ForceDeleteBaseline(w) \/ ClearEvidence(w)
          \/ \E c \in Contexts : Promote(c, w)
    \/ \E r \in rows :
          \/ r.t = "evidence" /\ (DeleteOneEvidence(r) \/ Retention(r)
                                 \/ \E n \in {"plain", "cross"} : SetEvidenceBoundary(r, n))
          \/ r.t = "component" /\ DeleteComponent(r)
          \/ r.t = "asset" /\ DeleteAsset(r)
          \/ r.t = "boundarysegment" /\ DeleteBoundarySegment(r)
          \/ r.t = "poam" /\ (DeletePoam(r) \/ DropPoamLinks(r))
          \/ r.t = "automationschedule" /\ DeleteSchedule(r)
          \/ r.t = "assessment" /\ (ReplaceTrail(r) \/ ImportNarratives(r) \/ Heal(r)
                                   \/ RemoveStaleNa(r))
          \/ r.t = "baseline" /\ RefreshBaseline(r)
          \/ r.t = "objective" /\ CleanObjectives(r)
          \/ r.t = "control" /\ DropControl(r)
          \/ r.t = "systemcontext" /\ (ResetContext(r)
                \/ \E ns \in SUBSET {"plain", "loose"} :
                      Extract(r, {Row("boundarytokensource", Main, n) : n \in ns}))

CascadeTyped ==
    /\ rows \subseteq AllRows /\ at \in [Contexts -> Owners \cup {"pending"}]
    /\ requests \in 0..MaxRequests
    /\ \A d \in deleting : d.of.t = "workbook" /\ d.ids \subseteq AllRows

(* No row names a row that is gone, not even in a column that is no        *)
(* foreign key of the database: the statements of every request cover it.  *)
NothingDangles == \A r \in rows : Columns[r] \subseteq rows

(* What workbooks.py:delete_workbook leaves behind, whatever was written    *)
(* while it ran: the system context, which becomes pending (845-853), and   *)
(* boundary tokens that name no evidence.  The code also takes the primary  *)
(* baseline with it, in a second transaction (859-886), where no other      *)
(* workbook is scoped by it; its docstring still has the baseline untouched *)
(* (495-498) and every boundary token deleted (480-484).                    *)
DeletedLeavesContext ==
    \A r \in rows : r.o \in Owners /\ Row("workbook", r.o, "plain") \notin rows
                    => \/ r.t = "systemcontext"
                       \/ r.t = "boundarytokensource" /\ r.n = "loose"

(* A request is refused, and rolled back, for no other reason than these.  *)
(* The deletion of a workbook (with force, that of its baseline) meets the *)
(* pending context that its own would have to become, or rows written      *)
(* after it read its ids; a component its parts; a row to be healed its    *)
(* trail; a context the sweep that ran on it; and the catalog's loaders    *)
(* rows they do not look for.                                              *)
Children(op) ==
    CASE op = "component" -> {"component"}
      [] op = "heal" -> {"assessmenttrace", "assessmentevidenceshown"}
      [] op = "objectives" -> {"overrideepoch"}
      [] op = "control" -> {"objective", "baselinecontrol", "crmshortcircuitevent"}
      [] op = "context" -> {"sweeprun"}
      [] OTHER -> {}

TwoContexts == \E c \in Contexts \cap rows, d \in Contexts \cap rows :
                  at[c] # "pending" /\ at[d] = "pending"
                  /\ \E w \in last.on : w.t = "workbook" /\ w.o = at[c]

WrittenSince == \E r \in rows \ last.on : \E w \in last.on : w.t = "workbook" /\ w.o = r.o

RefusalsAreKnown ==
    \/ last.ok
    \/ \E r \in rows : r.t \in Children(last.op) /\ Columns[r] \cap last.on # {}
    \/ last.op \in {"workbook", "baseline"} /\ TwoContexts
    \/ last.op = "workbook" /\ WrittenSince

(* A request about one workbook's rows costs the other workbook none but   *)
(* its links to the first one's evidence: it loses the rest to requests    *)
(* that name its rows, a shared CRM or the program.                        *)
OthersAreKept == [][\A w \in Owners :
    (\E r \in rows \ rows' : r.o = w /\ r.n # "cross")
    => \E r \in last'.on : r.o \in {w, "crm", "program"}]_cascadeVars

(* Retention asks that no tag, finding, POAM or trail rests on an evidence *)
(* before it deletes it: what its deletion cascades to is only the links   *)
(* to scope and the tokens read from it.                                   *)
EvictionCostsLinks == [][last'.op = "retention" /\ rows' # rows /\ deleting' = deleting =>
    \A r \in rows \ rows' :
        r \in last'.on \/ r.t \in {"evidencecomponent", "evidenceasset", "evidenceboundary",
                                 "boundarytokensource"}]_cascadeVars

(* Whatever requests delete rows, and whatever is written meanwhile: no row *)
(* outlives one it refers to, a refusal has its reason, and nobody loses    *)
(* more than the request was about.                                         *)
CascadeSafe ==
    /\ [](CascadeTyped /\ NothingDangles /\ DeletedLeavesContext /\ RefusalsAreKnown)
    /\ SchemasAgree /\ OthersAreKept /\ EvictionCostsLinks
=============================================================================
