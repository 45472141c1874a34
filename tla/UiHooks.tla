------------------------------- MODULE UiHooks -------------------------------
(***************************************************************************)
(* The query keys of the pages and what each mutation hook does to them    *)
(* when its request is answered (ui/src/lib/queries.ts).                   *)
(*                                                                         *)
(* A key is the path of its parts, with one id of each kind; a prefix of a *)
(* key names everything below it.                                          *)
(***************************************************************************)
EXTENDS Integers, Sequences, SequencesExt, TLC

-----------------------------------------------------------------------------
(* The keys *)

one == "id"

FrameworksKey           == <<"frameworks">>
CatalogStatusKey        == <<"catalog", "status">>
RequirementsKey         == <<"catalog", "requirement-sources">>
ControlsKey             == <<"controls">>
EachControlKey          == <<"control">>
WorkbooksKey            == <<"workbooks">>
EachWorkbookKey         == <<"workbook">>
PartKey(part)                == <<"workbook", one, part>>
ContextKey              == <<"system-context", one>>
PendingKey              == <<"system-context", "pending">>
AssessmentsKey          == <<"assessments">>
EvidenceKey             == <<"evidence">>
EvidencePagedKey        == <<"evidence-paged">>
EvidenceForObjectiveKey == <<"evidence-for-objective", one>>
BaselinesKey            == <<"baselines">>
OneBaselineKey          == <<"baseline", one>>
SuspicionKey            == <<"crm-suspicion", one>>
MetricsKey              == <<"metrics">>
RunsKey                 == <<"runs">>
PoamsKey                == <<"poams">>
EachPoamKey             == <<"poam">>
OnePoamKey              == <<"poam", one>>
SettingsKey             == <<"settings">>
LastSweepKey            == <<"sharepoint", "sweep-runs", "latest", one>>
PriorityLinksKey        == <<"sharepoint", "priority-links">>
StatusKey(c)               == <<c, "status">>
SchedulesKey            == <<"automation", "schedules">>
ScheduleKey             == <<"automation", "schedule", one>>

Connectors == {"emass", "confluence", "jira", "sharepoint", "gitlab", "splunk", "archer",
               "tenable", "servicenow_grc"}

PageKeys == {FrameworksKey, <<"scope-labels">>, CatalogStatusKey, Append(ControlsKey, one),
             Append(EachControlKey, one), <<"control", one, "objectives">>,
             <<"control", one, "program-controls">>, <<"control", one, "odp-history">>}

WorkbookKeys == {WorkbooksKey} \cup {PartKey(p) : p \in {"summary", "control-status",
                                                         "col-l-status",
                    "review-queue", "overlays", "overlay-membership", "boundary-docs"}}

ReviewKeys == {ContextKey, PendingKey, Append(AssessmentsKey, one), <<"assessment", one,
                                                                      "audit">>}

EvidenceKeys == {Append(EvidenceKey, "all"), EvidencePagedKey, EvidenceForObjectiveKey,
                 <<"evidence", "crosscheck", one>>}

ScopeKeys == {<<k, one>> : k \in {"components", "assets", "boundary-segments"}}
                \cup {<<"evidence", one, k>> : k \in {"components", "assets",
                                                      "boundary-segments"}}

RunKeys == {Append(RunsKey, one), <<"run", one>>, MetricsKey, <<"supersession", "chains", one>>}

BaselineKeys == {BaselinesKey, OneBaselineKey, Append(OneBaselineKey, "objectives"),
                 Append(OneBaselineKey, "controls"), SuspicionKey}

PollKeys == {<<"ingest-job", one>>, <<"ingest-job", "active">>}

BatchKeys == {<<"assess-batch-progress", one>>}

CatalogKeys == {<<"catalog", "overlay-sheets", one>>, RequirementsKey}

SettingsKeys == {SettingsKey, <<"settings", "anthropic-models">>, <<"settings",
                                                                    "openai-models">>}

StatusKeys == {StatusKey(c) : c \in Connectors}

SweepKeys == {LastSweepKey, PriorityLinksKey}

PoamKeys == {Append(PoamsKey, one), OnePoamKey, <<"poam", "risk-levels">>,
             Append(OnePoamKey, "risk-history"), Append(OnePoamKey, "residual-suggestion")}

ScheduleKeys == {Append(SchedulesKey, one)}

Queries == UNION {PageKeys, WorkbookKeys, ReviewKeys, EvidenceKeys, ScopeKeys, RunKeys,
                  BaselineKeys, PollKeys, BatchKeys, CatalogKeys, SettingsKeys, StatusKeys,
                  SweepKeys, PoamKeys, ScheduleKeys}

\* Fetched only by a click on the page.
ByHand == {SuspicionKey}

\* Fetched again every few seconds while a page shows them.
Polled == {Append(RunsKey, one), <<"ingest-job", one>>} \cup BatchKeys
             \cup {StatusKey(c) : c \in Connectors \ {"confluence", "jira", "splunk"}}

\* Never old by the clock.
Timeless == {<<"scope-labels">>, <<"poam", "risk-levels">>,
             Append(OnePoamKey, "residual-suggestion")}

Unretried == {SuspicionKey} \cup StatusKeys \cup (SettingsKeys \ {SettingsKey})

-----------------------------------------------------------------------------
(* The hooks: what each answer names, one element per request of the hook *)

Named(refresh, forget, store) == [refresh |-> refresh, forget |-> forget, store |-> store]

Refresh(keys) == <<Named(keys, {}, {})>>

EachOf(names, effects) == [h \in names |-> effects]

FrameworkHooks == EachOf({"useSetFrameworkEnabled"},
                       Refresh({FrameworksKey, CatalogStatusKey, WorkbooksKey}))

OverlayHooks == EachOf({"useAttachOverlay", "useDetachOverlay"},
    Refresh({PartKey("overlays"), PartKey("overlay-membership"), WorkbooksKey,
             PartKey("control-status"),
             PartKey("col-l-status"), AssessmentsKey, SuspicionKey}))

ContextHooks ==
    EachOf({"useUpsertSystemContext", "useResetSystemContext",
            "useBumpSystemContextConfidence"},
         Refresh({ContextKey}))
    @@ EachOf({"useResetSweepAttempts"}, Refresh({WorkbooksKey}))

PendingHooks ==
    EachOf({"useUpsertPendingSystemContext", "useResetPendingSystemContext"},
         Refresh({PendingKey, EvidenceKey}))
    @@ EachOf({"useBumpPendingSystemContextConfidence"}, Refresh({PendingKey}))
    @@ EachOf({"usePromotePendingSystemContext"},
            Refresh({PendingKey, ContextKey, PartKey("boundary-docs"),
                     Append(EachWorkbookKey, one)}))

TagHooks == EachOf({"useAddManualTag", "useRemoveManualTag"},
                 Refresh({EvidenceForObjectiveKey, Append(AssessmentsKey, one), ControlsKey}))

AssetHooks == EachOf({"useSetAssetList", "useSetEvidenceBoundary"}, Refresh({EvidenceKey}))

UploadHooks == EachOf({"usePatchBoundaryDoc", "useIngestFile"},
                    Refresh({EvidenceKey, EachWorkbookKey, PendingKey}))

ScopeHooks ==
    EachOf({"useCreateComponent"}, Refresh({<<"components", one>>}))
    @@ EachOf({"useDeleteComponent"}, Refresh({<<"components", one>>, EvidenceKey}))
    @@ EachOf({"useCreateAsset"}, Refresh({<<"assets", one>>, <<"evidence", "crosscheck", one>>}))
    @@ EachOf({"useDeleteAsset"}, Refresh({<<"assets", one>>, EvidenceKey}))
    @@ EachOf({"useCreateBoundarySegment"}, Refresh({<<"boundary-segments", one>>}))
    @@ EachOf({"useDeleteBoundarySegment"}, Refresh({<<"boundary-segments", one>>,
                                                     EvidenceKey}))

LinkHooks == EachOf({"useAttachEvidenceComponents", "useDetachEvidenceComponent",
                   "useAttachEvidenceAssets", "useDetachEvidenceAsset",
                   "useAttachEvidenceBoundarySegments", "useDetachEvidenceBoundarySegment"},
                  Refresh({EvidenceKey}))

OpenHooks == EachOf({"useOpenWorkbook"},
    Refresh({WorkbooksKey, BaselinesKey, Append(EachWorkbookKey, one), OneBaselineKey,
             PendingKey, ContextKey,
             PartKey("boundary-docs")}))

BaselineHooks ==
    EachOf({"useRefreshBaseline", "useLoadCrm"}, Refresh({BaselinesKey, OneBaselineKey}))
    @@ EachOf({"useDeleteWorkbook"}, Refresh({WorkbooksKey, EachWorkbookKey, BaselinesKey,
                                              EvidenceKey}))
    @@ EachOf({"useDeleteBaseline"}, Refresh({BaselinesKey, WorkbooksKey, EachWorkbookKey,
                                              AssessmentsKey}))

SuspicionHooks == EachOf({"useMarkSuspicionFalsePositive"}, Refresh({SuspicionKey}))

\* Not a mutation: what a poll of the job names, at a new row and at the end.
IngestEffects ==
    EachOf({"useIngestJobStatus"},
         <<Named({EvidenceKey, <<"evidence-for-objective">>}, {}, {}),
           Named({EvidenceKey, <<"evidence-for-objective">>, EachWorkbookKey, PendingKey},
                 {}, {})>>)

ClearHooks ==
    EachOf({"useClearEvidence"},
         <<Named({EvidenceKey, EachWorkbookKey, AssessmentsKey, PoamsKey},
                 {<<"evidence-for-objective">>}, {})>>)

DeleteHooks ==
    EachOf({"useDeleteEvidence"},
         <<Named({EvidenceKey, EachWorkbookKey, AssessmentsKey, PoamsKey, <<"system-context">>,
                  <<"sharepoint", "sweep-runs">>}, {<<"evidence-for-objective">>}, {})>>)

\* A saved verdict is applied by a second request, and only its answer names column L.
ReviewHooks ==
    EachOf({"useUpsertAssessment"},
         <<Named({AssessmentsKey, PartKey("control-status"), PartKey("review-queue")}, {}, {}),
           Named({PartKey("control-status"), PartKey("col-l-status")}, {}, {})>>)
    @@ EachOf({"useAssessObjective"},
            Refresh({AssessmentsKey, PartKey("control-status"), PartKey("col-l-status"),
                     PartKey("review-queue")}))

\* The batch, and then the apply that it sends by itself.
BatchHooks ==
    EachOf({"useAssessBatch"},
         <<Named({AssessmentsKey, PartKey("control-status"), PartKey("review-queue"),
                  RunsKey, MetricsKey,
                  WorkbooksKey}, {}, {}),
           Named({AssessmentsKey, PartKey("control-status"), PartKey("col-l-status")}, {},
                 {})>>)

ApplyHooks ==
    EachOf({"useApplyToWorkbook"}, Refresh({AssessmentsKey, EachWorkbookKey}))
    @@ EachOf({"useApplyAllToWorkbook"},
            Refresh({AssessmentsKey, PartKey("control-status"), PartKey("col-l-status")}))

CatalogHooks ==
    EachOf({"useLoadNist", "useLoadNistR4", "useLoadNistCsf", "useLoadNist800171"},
         Refresh({FrameworksKey, CatalogStatusKey}))
    @@ EachOf({"useLoadFedramp"}, Refresh({FrameworksKey, CatalogStatusKey, BaselinesKey}))

LicensedHooks == EachOf({"useLoadIso27001", "useLoadCisV8", "useLoadPciDss", "useLoadSoc2"},
                      Refresh({FrameworksKey, CatalogStatusKey}))

DisaHooks == EachOf({"useLoadDisaCci"},
    Refresh({FrameworksKey, ControlsKey, EachControlKey, CatalogStatusKey, BaselinesKey,
             <<"baseline">>,
             <<"evidence-for-objective">>}))

ImportHooks == EachOf({"useImportOverlay"},
    Refresh({BaselinesKey, CatalogStatusKey, RequirementsKey, ControlsKey, EachControlKey,
             OneBaselineKey, EachWorkbookKey,
             WorkbooksKey}))

ProgramHooks ==
    EachOf({"useLoadProgramControls"},
         Refresh({CatalogStatusKey, RequirementsKey, ControlsKey, EachControlKey,
                  EachWorkbookKey, WorkbooksKey}))
    @@ EachOf({"useDeleteRequirementSource"},
            Refresh({RequirementsKey, CatalogStatusKey, ControlsKey, EachControlKey}))

AnthropicHooks ==
    EachOf({"useUpdateSettings", "useSetAnthropicKey", "useClearAnthropicKey"},
           Refresh({SettingsKey}))
    @@ EachOf({"useSetAnthropicGatewayToken", "useClearAnthropicGatewayToken"},
            Refresh({SettingsKey, <<"settings", "anthropic-models">>}))

OpenAIHooks == EachOf({"useSetOpenAIKey", "useClearOpenAIKey", "useSetOpenAIGatewayToken",
                     "useClearOpenAIGatewayToken"},
                    Refresh({SettingsKey, <<"settings", "openai-models">>}))

EmassHooks == EachOf({"useTestEmass"}, Refresh({StatusKey("emass")}))
              @@ EachOf({"useSetEmassKey", "useClearEmassKey"},
                      Refresh({SettingsKey, StatusKey("emass")}))

ConfluenceHooks == EachOf({"useTestConfluence"}, Refresh({StatusKey("confluence")}))
                   @@ EachOf({"useSetConfluencePat", "useClearConfluencePat"},
                           Refresh({SettingsKey, StatusKey("confluence")}))

JiraHooks == EachOf({"useTestJira"}, Refresh({StatusKey("jira")}))
             @@ EachOf({"useSetJiraPat", "useClearJiraPat"}, Refresh({SettingsKey,
                                                                      StatusKey("jira")}))

SharePointHooks == EachOf({"useTestSharePoint", "useSignOutSharePoint"},
                        Refresh({StatusKey("sharepoint")}))
                   @@ EachOf({"useTestGitlab"}, Refresh({StatusKey("gitlab")}))

SplunkHooks == EachOf({"useTestSplunk", "useSetSplunkToken", "useClearSplunkToken"},
                    Refresh({StatusKey("splunk")}))

ArcherHooks == EachOf({"useTestArcher", "useSetArcherPassword", "useClearArcherPassword"},
                    Refresh({StatusKey("archer")}))

SweepHooks == EachOf({"useSweepSharePoint"}, Refresh({WorkbooksKey, LastSweepKey}))
              @@ EachOf({"useSetSharePointPriorityLinks"}, Refresh({PriorityLinksKey}))

TenableHooks == EachOf({"useTestTenable"}, Refresh({StatusKey("tenable")}))
                @@ EachOf({"useSetTenableAccessKey", "useClearTenableAccessKey",
                         "useSetTenableSecretKey", "useClearTenableSecretKey"},
                        Refresh({SettingsKey, StatusKey("tenable")}))

GrcHooks == EachOf({"useTestServicenowGrc", "useSetServicenowGrcOauthSecret",
                  "useClearServicenowGrcOauthSecret", "useSetServicenowGrcBasicPassword",
                  "useClearServicenowGrcBasicPassword"},
                 Refresh({StatusKey("servicenow_grc")}))

PoamHooks ==
    EachOf({"useGeneratePoams"}, Refresh({PoamsKey}))
    @@ EachOf({"useExportPoams", "useImportPoams"}, Refresh({PoamsKey, EachPoamKey}))
    @@ EachOf({"useApplyPoamResidualSuggestion"},
            <<Named({PoamsKey, Append(OnePoamKey, "risk-history")}, {}, {OnePoamKey})>>)

ControlSheetHooks ==
    EachOf({"useExportControlsEmass"}, Refresh({EachWorkbookKey, WorkbooksKey}))
    @@ EachOf({"useImportControlsNarratives"},
            Refresh({AssessmentsKey, ControlsKey, EachControlKey, EachWorkbookKey,
                     WorkbooksKey, PoamsKey}))

PoamEditHooks ==
    EachOf({"useCreatePoam", "useUpdatePoam"}, <<Named({PoamsKey}, {}, {OnePoamKey})>>)
    @@ EachOf({"useDeletePoam"}, <<Named({PoamsKey}, {OnePoamKey}, {})>>)
    @@ EachOf({"useDeleteAllPoams"}, Refresh({PoamsKey, EachPoamKey}))

PoamLinkHooks ==
    EachOf({"useLinkPoamObjective", "useUnlinkPoamObjective", "useLinkPoamEvidence",
          "useUnlinkPoamEvidence", "useCreatePoamMilestone", "useDeletePoamMilestone"},
         Refresh({OnePoamKey, PoamsKey}))
    @@ EachOf({"useUpdatePoamMilestone"}, Refresh({OnePoamKey}))

ScheduleHooks ==
    EachOf({"useCreateAutomationSchedule"}, Refresh({Append(SchedulesKey, one)}))
    @@ EachOf({"useUpdateAutomationSchedule", "useRunAutomationScheduleNow"},
            Refresh({Append(SchedulesKey, one), ScheduleKey}))
    @@ EachOf({"useDeleteAutomationSchedule"}, <<Named({Append(SchedulesKey, one)},
                                                       {ScheduleKey}, {})>>)

Hooks ==
    FrameworkHooks @@ OverlayHooks @@ ContextHooks @@ PendingHooks @@ TagHooks @@ AssetHooks
    @@ UploadHooks @@ ScopeHooks @@ LinkHooks @@ OpenHooks @@ BaselineHooks @@ SuspicionHooks
    @@ IngestEffects @@ ClearHooks @@ DeleteHooks @@ ReviewHooks @@ BatchHooks @@ ApplyHooks
    @@ CatalogHooks @@ LicensedHooks @@ DisaHooks @@ ImportHooks @@ ProgramHooks
    @@ AnthropicHooks @@ OpenAIHooks @@ EmassHooks @@ ConfluenceHooks @@ JiraHooks
    @@ SharePointHooks @@ SplunkHooks @@ ArcherHooks @@ SweepHooks @@ TenableHooks @@ GrcHooks
    @@ PoamHooks @@ ControlSheetHooks @@ PoamEditHooks @@ PoamLinkHooks @@ ScheduleHooks

Hit(keys, query) == \E k \in keys : IsPrefix(k, query)

NamesQuery(effect, query) == Hit(effect.refresh \cup effect.forget, query)

\* Only the query with the very key is overwritten.
Touches(effect, query) == NamesQuery(effect, query) \/ query \in effect.store

=============================================================================
