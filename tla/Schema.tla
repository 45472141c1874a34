------------------------------- MODULE Schema -------------------------------
(***************************************************************************)
(* The references between the tables of the database: as models.py         *)
(* declares them and as the revisions under alembic/versions build them,   *)
(* which is what db.py:init_db runs.  The columns that are not foreign     *)
(* keys are left out.                                                      *)
(***************************************************************************)

(* A row of from names one of to; need: the column is NOT NULL; on: what   *)
(* deleting the row of to does.                                            *)
Ref(from, to, need, on) == [from |-> from, to |-> to, need |-> need, on |-> on]

(* Columns without ON DELETE: those that must and those that may be set.   *)
Refs(from, must, may) == {Ref(from, to, TRUE, "refuse") : to \in must}
                         \cup {Ref(from, to, FALSE, "refuse") : to \in may}

Cascades(refs, tables, to) ==
    {[r EXCEPT !.on = IF r.from \in tables /\ r.to = to THEN "cascade" ELSE @] : r \in refs}

Links == {"evidencetag", "evidencecomponent", "evidenceasset", "evidenceboundary",
          "poamevidence", "stigfinding"}

-----------------------------------------------------------------------------
(* alembic/versions/0001_initial.py, in the order of its tables.           *)

InitialCatalog == UNION {
    Refs("framework", {}, {"framework"}), Refs("sweepweights", {}, {"sweepweights"})}

InitialBaselines == UNION {
    Refs("baseline", {"framework"}, {"system"}), Refs("baselinemembership", {"framework"}, {}),
    Refs("control", {"framework"}, {}), Refs("engagement", {}, {"framework", "system"}),
    Refs("requirementsource", {"framework"}, {}),
    Refs("baselinecontrol", {"baseline", "control"}, {}),
    Refs("controlcrosswalk", {"control"}, {}), Refs("controlobjective", {"engagement"}, {}),
    Refs("objective", {"control"}, {})}

InitialWorkbooks == UNION {
    Refs("workbook", {}, {"baseline", "framework", "system"}),
    Refs("assessmentrun", {}, {"workbook"}), Refs("asset", {"workbook"}, {}),
    Refs("baselineobjective", {"baseline", "objective"}, {}),
    Refs("boundarysegment", {"workbook"}, {}), Refs("component", {"workbook"}, {"component"}),
    Refs("crmcorpusfeatures", {"baseline", "workbook"}, {})}

InitialWork == UNION {
    Refs("crmsuspicionlog", {"baseline", "workbook"}, {}), Refs("crosswalk", {"objective"}, {}),
    Refs("evidence", {}, {"evidence", "workbook"}), Refs("poam", {"workbook"}, {}),
    Refs("requirementmap", {"objective", "requirementsource"}, {}),
    Refs("sweepdecision", {"sweepweights", "workbook"}, {})}

InitialContext == UNION {
    Refs("systemcontext", {}, {"workbook"}), Refs("workbookoverlay", {"baseline", "workbook"}, {}),
    Refs("workbooksyncevent", {"workbook"}, {}),
    Refs("assessment", {"objective"}, {"engagement", "assessmentrun", "workbook"}),
    Refs("calibrationentry", {"assessmentrun"}, {}),
    Refs("componentasset", {"asset", "component"}, {}),
    Refs("crmshortcircuitevent", {"control", "workbook"}, {"crmsuspicionlog"})}

InitialLinks == UNION {
    Refs("evidenceasset", {"asset", "evidence"}, {}),
    Refs("evidenceboundary", {"boundarysegment", "evidence"}, {}),
    Refs("evidencecomponent", {"component", "evidence"}, {}),
    Refs("evidencetag", {"evidence", "objective"}, {"framework"}),
    Refs("poamevidence", {"evidence", "poam"}, {}), Refs("poammilestone", {"poam"}, {}),
    Refs("poamobjective", {"objective", "poam"}, {}), Refs("stigfinding", {"evidence"}, {}),
    Refs("sweeprun", {"sweepweights"}, {"systemcontext", "workbook"})}

InitialTrail == UNION {
    Refs("assessmentevidenceshown", {"assessment", "evidence"}, {}),
    Refs("assessmenttrace", {"assessment", "promptsnapshot"}, {}),
    Refs("testofcontrol", {"assessment"}, {}),
    Refs("assessmentcitation", {"assessment", "assessmentevidenceshown"}, {})}

(* The later revisions that add or change a reference.                     *)

BoundaryProvenance == {Ref("boundarytokensource", "systemcontext", TRUE, "cascade"),
                       Ref("boundarytokensource", "evidence", FALSE, "null"),
                       Ref("sweephit", "sweeprun", TRUE, "cascade")}

IngestReport == {Ref("ingestreport", "requirementsource", FALSE, "cascade"),
                 Ref("ingestreport", "framework", FALSE, "refuse")}

Implementations == {Ref("assessmentimplementation", "assessment", TRUE, "refuse"),
                    Ref("assessmentimplementation", "baseline", FALSE, "null")}

PoamRiskProvenance == {Ref("poamriskhistory", "poam", TRUE, "cascade")}

ResidualCache == {Ref("residualsuggestioncache", "poam", TRUE, "cascade")}

EvidenceCascades(refs) == Cascades(refs, Links, "evidence")

RetentionAndSchedules == Refs("evidenceretentionevent", {"workbook"}, {})
                         \cup Refs("automationschedule", {"workbook"}, {})

OverrideEpochs == Refs("overrideepoch", {"workbook", "objective"}, {})

(* The audit log gets its workbook_id as a plain column.                   *)
OdpWorkbookScope == Refs("odpassignment", {}, {"workbook"})

Built == EvidenceCascades(UNION {InitialCatalog, InitialBaselines, InitialWorkbooks,
                                 InitialWork, InitialContext, InitialLinks, InitialTrail,
                                 BoundaryProvenance, IngestReport, Implementations,
                                 PoamRiskProvenance, ResidualCache})
         \cup RetentionAndSchedules \cup OverrideEpochs \cup OdpWorkbookScope

-----------------------------------------------------------------------------
(* models.py, where an ondelete is a note SQLModel does not read.          *)

DeclaredCatalog == UNION {
    Refs("framework", {}, {"framework"}), Refs("control", {"framework"}, {}),
    Refs("objective", {"control"}, {}), Refs("crosswalk", {"objective"}, {}),
    Refs("controlcrosswalk", {"control"}, {}), Refs("baselinemembership", {"framework"}, {})}

DeclaredRequirements == UNION {
    Refs("requirementsource", {"framework"}, {}),
    Refs("requirementmap", {"requirementsource", "objective"}, {}),
    Refs("ingestreport", {}, {"requirementsource", "framework"})}

DeclaredEvidence == Refs("evidence", {}, {"evidence", "workbook"})

DeclaredFindings == UNION {
    Refs("evidencetag", {"evidence", "objective"}, {"framework"}),
    Refs("stigfinding", {"evidence"}, {})}

DeclaredScope == UNION {
    Refs("component", {"workbook"}, {"component"}), Refs("asset", {"workbook"}, {}),
    Refs("boundarysegment", {"workbook"}, {}), Refs("componentasset", {"component", "asset"}, {}),
    Refs("evidencecomponent", {"evidence", "component"}, {}),
    Refs("evidenceasset", {"evidence", "asset"}, {}),
    Refs("evidenceboundary", {"evidence", "boundarysegment"}, {})}

DeclaredWorkbooks == UNION {
    Refs("workbook", {}, {"system", "framework", "baseline"}),
    Refs("workbooksyncevent", {"workbook"}, {}), Refs("workbookoverlay", {"workbook", "baseline"}, {})}

DeclaredContext == Refs("systemcontext", {}, {"workbook"})

DeclaredBaselines == UNION {
    Refs("baseline", {"framework"}, {"system"}),
    Refs("baselinecontrol", {"baseline", "control"}, {})}

DeclaredAssignments == UNION {
    Refs("odpassignment", {}, {"workbook"}), Refs("odpauditlog", {}, {"workbook"}),
    Refs("baselineobjective", {"baseline", "objective"}, {})}

DeclaredAssessment ==
    Refs("assessment", {"objective"}, {"workbook", "engagement", "assessmentrun"})

DeclaredImplementation == Refs("assessmentimplementation", {"assessment"}, {"baseline"})

DeclaredEngagements == UNION {
    Refs("controlobjective", {"engagement"}, {}), Refs("engagement", {}, {"system", "framework"}),
    Refs("testofcontrol", {"assessment"}, {})}

DeclaredRuns == Refs("assessmentrun", {}, {"workbook"})

DeclaredPoams == UNION {
    Refs("poam", {"workbook"}, {}), Refs("poamobjective", {"poam", "objective"}, {}),
    Refs("poamevidence", {"poam", "evidence"}, {}), Refs("poammilestone", {"poam"}, {})}

DeclaredRiskHistory == Refs("poamriskhistory", {"poam"}, {})

DeclaredSweeps == UNION {
    Refs("sweepdecision", {"workbook", "sweepweights"}, {}),
    Refs("sweepweights", {}, {"sweepweights"}),
    Refs("sweeprun", {"sweepweights"}, {"workbook", "systemcontext"})}

DeclaredTokens == UNION {
    Refs("boundarytokensource", {"systemcontext"}, {"evidence"}),
    Refs("sweephit", {"sweeprun"}, {})}

DeclaredCrm == UNION {
    Refs("crmsuspicionlog", {"workbook", "baseline"}, {}),
    Refs("crmshortcircuitevent", {"workbook", "control"}, {"crmsuspicionlog"}),
    Refs("crmcorpusfeatures", {"baseline", "workbook"}, {})}

DeclaredCaches == UNION {
    Refs("overrideepoch", {"workbook", "objective"}, {}),
    Refs("residualsuggestioncache", {"poam"}, {}), Refs("calibrationentry", {"assessmentrun"}, {})}

DeclaredTrail == UNION {
    Refs("assessmenttrace", {"assessment", "promptsnapshot"}, {}),
    Refs("assessmentevidenceshown", {"assessment", "evidence"}, {}),
    Refs("assessmentcitation", {"assessment", "assessmentevidenceshown"}, {})}

DeclaredUpkeep == Refs("evidenceretentionevent", {"workbook"}, {})
                  \cup Refs("automationschedule", {"workbook"}, {})

Declared == UNION {DeclaredCatalog, DeclaredRequirements, DeclaredEvidence, DeclaredFindings,
                   DeclaredScope, DeclaredWorkbooks, DeclaredContext, DeclaredBaselines,
                   DeclaredAssignments, DeclaredAssessment, DeclaredImplementation,
                   DeclaredEngagements, DeclaredRuns, DeclaredPoams, DeclaredRiskHistory,
                   DeclaredSweeps, DeclaredTokens, DeclaredCrm, DeclaredCaches, DeclaredTrail,
                   DeclaredUpkeep}

(* The migrated database has every reference the models declare, and the   *)
(* models every reference of the database, but the audit log's.            *)
SchemasAgree ==
    LET plain(refs) == {[r EXCEPT !.on = "refuse"] : r \in refs}
    IN  plain(Declared) \ plain(Built) = Refs("odpauditlog", {}, {"workbook"})
        /\ plain(Built) \subseteq plain(Declared)
=============================================================================
