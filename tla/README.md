# Cybersecurity Assessor in TLA+

Cybersecurity Assessor is a desktop application for control assessments. An
Electron shell (`src/ui`) starts a Python sidecar
(`src/backend/cybersecurity_assessor`, written `BE/` below): FastAPI routes on a
thread pool over one SQLite file, plus a few daemon threads. An assessor opens a
CCIS workbook, pulls evidence from connectors, lets a model propose a verdict per
objective, corrects it, writes the result into copies of the workbook, and
tracks what is left as plans of action and milestones (POAMs).

Most functions of the program are sequential and well tested one by one. What is
hard is what happens between them: request threads, ingest threads, the scheduler
and the assessor change the same rows without a common lock, a run takes minutes
between reading and writing, services throttle, refuse and time out, and the
process may be killed at any point. This project models those parts, checks them
with TLC on small instances and proves most of what it checks with TLAPS for every
size.

Contents: [1 Inventory](#1-inventory), [2 Modules](#2-modules),
[3 Runs](#3-runs), [4 Divergences](#4-what-the-code-does-not-do-as-its-text-says),
[5 Proofs](#5-proofs), [6 Not modelled](#6-not-modelled).

## 1. Inventory

| Component | Source (`BE/` unless said) | State | Operations | Interacts with | Modules |
|---|---|---|---|---|---|
| Ingest job registry | `evidence/jobs.py` | job table, active id, `_INGEST_LOCK` | start a batch job, claim a single file, poll | scheduler, evidence and boundary routes | `IngestJobs`, `SerialIngest` |
| Evidence sources | `evidence/sources/*.py` | a walk in progress | fetch pages under caps, retries, denials | ingest | `SourceWalk`, `GraphWalk`, `IngestWalk` |
| SharePoint sign-in and sweep | `routes/sharepoint.py`, `evidence/sources/sweep_judge.py`, `engine/sweep_online.py` | two slots, device-code globals, token cache, sweep rows, weights | test, sweep, sign out, watchdogs, judge, train | model client, connectors | `SignIn`, `SweepJudge`, `SweepRuns` |
| Evidence corpus | `evidence/ingest.py`, `supersession_tracker.py`, `evidence_retention.py`, `routes/evidence.py`, `engine/supersession.py` | `Evidence`, `EvidenceTag`, `superseded_by_id`, text files | ingest, tag, retag, untag, delete, clear, evict | verdicts (invalidation), bundles | `EvidenceCorpus`, `IngestWalk` |
| Evidence tagger | `evidence/tagger.py` | none (a cascade per file) | match, judge, escalate, guess | model client, corpus | `Tagger` |
| Assessment lifecycle | `routes/controls.py`, `engine/decision_cache.py`, `override_epoch.py`, `invalidation.py`, `evidence_bundle.py` | `Assessment`, `DecisionCache`, `OverrideEpoch` | assess one, assess a batch, reviewer's save, rule backfill, apply | evidence, model, POAMs, working copies | `Verdicts` |
| Assessment kernel | `engine/assessor.py`, `rules.py`, `validator.py`, `crm_context.py` | none (a cascade per row) | classify, ask, validate, retry, abstain, roll up | model client, decision cache | `KernelRules`, `Kernel` |
| CRM overlays, implementation rows | `engine/crm_backfill.py`, `impl_persistence.py`, `routes/workbooks.py`, `routes/baselines.py` | overlays, `ControlImplementation`, statuses | attach, refresh, detach, backfill, heal, purge | runs, reviewers | `Overlays` |
| Run accounting | `engine/measurement.py`, `routes/_batch_progress.py` | `AssessmentRun`, progress slots | start, commit an outcome, finish | the batch's session | `BatchRuns` |
| Model-call admission | `llm/_rate_limit.py` | semaphore, `_cooldown_until` | admit, call, back off, retry | every assess, judge and sweep worker | `RateLimitGate` |
| Model client | `llm/client.py` | `_supports_temperature`, usage | propose, verify, judge, describe | everyone who asks a model | `ModelClient` |
| Automation scheduler | `evidence/scheduler.py`, `routes/automation.py` | `AutomationSchedule`, the tick thread | tick, fire, poll, chain, edit, run now | registry, assess route | `Scheduler` |
| POAMs | `poam/generator.py`, `importer.py`, `risk.py`, `routes/poams.py` | `Poam`, `PoamObjective`, `PoamRiskHistory` | generate, prune, edit, grade, link, delete, import | verdicts | `Poams` |
| Residual-risk advisor | `poam/residual_advisor.py` | suggestion cache | suggest, apply | POAMs, model | `Advisor` |
| Working copies | `excel/working_copy.py`, `ccis_writer.py`, `xlsx_surgery.py` | files, `Workbook.working_path` | copy forward, patch, verify, roll back | apply routes, the user's file manager and Excel | `WorkingCopy` |
| Deletion of records | every route that deletes | all tables | delete statements, cascades | runs that still write | `Schema`, `Cascade` |
| Database and migrations | `migrations.py`, `db.py`, `alembic/` | schema version, rows | upgrade, refuse, crash, start again | everything | `Schema`, `Migrations` |
| Settings and connector routes | `config.py`, `routes/settings.py` and the connectors' routes | `config.toml`, vault, environment | save, set and clear secrets, badge, test | sources, scheduler, model client | `Settings` |
| Sidecar and desktop shell | `server.py`, `src/ui/electron/main.cts` | processes, port, PID file | spawn, reap, watch, quit | each other | `Shell`, `Scheduler` |
| User interface | `src/ui/src/lib/queries.ts` | query cache | mutate, invalidate, refetch, poll | every route | `UiHooks`, `UiCache` |
| Catalogs, baselines, system context | `catalogs`, `baselines`, `system_context` | reference data | load, replace, delete | overlays, deletion | `Overlays`, `Cascade` in part |
| Extractors, exporters, reports, workbook reader and sync, narrative import, calibration, metrics, scripts | several | none of their own | functions of their input | rows and files | none |

What makes each of the components correct:

- *Registry*: one writer of the evidence tables; the active id never goes stale;
  every accepted job ends and the registry becomes idle.
- *Sources*: a pull that ends as if all was well read everything the server lists up
  to the cap, each item once; a refusal is never mistaken for an empty service.
- *Sign-in*: a held slot has a thread and a watchdog; a device code shown on the
  screen is of the flow that holds the slot.
- *Sweep*: why a judging batch stopped is true; in one that ends a failed call hides no
  candidate; a cap lets no call start once its cancelling is through;
  decisions marked consumed were trained on; the totals of a workbook are covered.
- *Corpus*: a superseded row points directly at a current one; some revision of a
  document is always current; a change of tags puts the right verdicts in review;
  eviction changes nobody's evidence; a row has one text and nobody else's.
- *Tagger*: no guess overrules a judge; every change of tags is flagged; tags that a
  person confirmed stay.
- *Verdicts*: no trusted verdict on stale evidence without a reason; a reviewer's
  override is not replayed over from the cache; only trusted statuses reach the
  exported column.
- *Kernel*: a pass has a basis; on scans alone nothing passes but what a scope of somebody
  else carries; the model never exempts; a slice of one scope is not answered for another.
- *Overlays*: scopes are attached, a row's status is the roll-up of its slices, and
  decided rows stay.
- *Run accounting*: counters equal what was saved; answers add up.
- *Admission*: slots are conserved; a cooldown holds everyone who has not passed
  it; every call ends.
- *Model client*: a refused parameter fails nobody; what is noted was sent; scores
  and tokens are read as written.
- *Scheduler*: one pull at a time; a run that was cut short fires again; an enabled
  schedule is attempted for ever.
- *POAMs*: a POAM without a link goes away; generation covers every finding that the CRM
  leaves to the customer and drops links to resolved ones; each risk level has a history.
- *Advisor*: no suggestion above the raw severity, none for another POAM.
- *Working copies*: copies accumulate; a crash leaves a whole file; a failed apply
  leaves no trace.
- *Deletion*: nothing dangles, others' rows stay, a refusal is known.
  *Migrations*: what is stamped was made, rows are lost only in known ways.
- *Settings*: what was asked for is what is read; badge, test, schedule and client agree.
- *Shell*: no two recorded sidecars, no stranger killed, nothing left after quitting.
- *Pages*: a page does not settle on an answer older than a change it was named for.

The hazards, each at its line with the properties that would catch it, are in
`PROJECT.json`.

## 2. Modules

Every module uses the source's names for its state and names its actions after the
handlers; comments name the function when the two differ. Definitions that begin
with a "Mutant:" comment are deliberate bugs. No specification uses them: each is
what one mapped definition is replaced by to see that a property notices, as
`PROJECT.json`, `mutants`, lists them: one for each property of each run.

Modules that have no mutual state are checked together, in a *suite* (section 3).
Those that do are composed: `Scheduler` instantiates `IngestJobs` as its registry, so
a pull is a job of that module and every lock-guarded block of the registry
interleaves with the tick thread; `Kernel` and `Overlays` share `KernelRules`;
`Cascade` runs over `Schema`, `UiCache` over `UiHooks`;
`SerialIngest` is the abstract specification that `IngestJobs` implements.

### Getting evidence in

**IngestJobs, SerialIngest.** `status`, `active`, `ingestLock` are
`IngestJob.status`, `_active_job_id` and the holder of `_INGEST_LOCK`; `pc` is where
each request's thread stands. One action per block that runs under `self._lock`, so
the steps of `claim_single_file` (check, try the lock, set the sentinel) interleave
with `start_ingest_job` and the daemon threads exactly as the code allows.
`SerialIngest` says what users of the registry rely on: a request is refused, or it
writes once and alone. The mapping reads the phase of a request from its `pc`.

**SignIn.** The connection test and the sweep each own a slot: a lock, an event and
the device code on the screen. A click may find the slot held and force its release;
threads of abandoned flows run on; a watchdog fires whatever became of its flow; sign
out drops the token cache while a thread may still write it.

**GraphWalk.** All readers of SharePoint libraries (boundary sweep, search, ingest
walk, browser, cherry-pick, probe) over `_graph_get`: throttling with retries, an
expired token that is refreshed once, denial, missing folders, pages, and the cap on
fetches. The code's recursive listing is a set of folders still to list, the
shallowest first; a library is assumed to hold no folder within itself.

**SourceWalk.** The page loop of each of the ten other connectors: its paging (token,
offset, count, none), what a failed page does (kept and reported, swallowed, fatal),
retries, caps, empty pages and duplicates between units. `conn` chooses the
connector, which settles how its operators behave. An item may appear on the server
during the walk; the history variable `steady` tells whether the lists stayed as they
were, and the properties speak of walks for which they did (section 4 says what offset
paging misses otherwise).

**IngestWalk.** `ingest_source` over a shelf of files: hash, skip of what is known,
row, text file named after the row's id, vision for pictures, tags, commits in batches,
retention at the end, with another thread deleting and editing rows, the file changing
on disk, and a kill at any step. Ids are SQLite's, so the id of a deleted last row is
used again.

### What is made of it

**EvidenceCorpus.** `born` is the order of ingestion, 0 for absent. `Ingest` is one
file's transaction: insert, supersede by number (`SupersederAfter`), tag, flag. The
tagger's result is any set of objectives, and it may fail halfway, in which case its
tags stay but the verdicts are not flagged (`slipped`). `Enforce` evicts the oldest
evictable rows down to the cap. An assessment is one step here; its duration is what
`Verdicts` is about.

**Tagger.** One document through the tiers: explicit references, keywords, the judge
with its strict pass, verification, escalation to the stronger model, the floor, the
text fallback, and hints of tools and file names; each call may fail. Then the
reviewer confirms tags and retags. What a tier matches is an attribute of the artifact.

**Verdicts.** A cell is an objective in a workbook. A batch reads bundles and epochs
(`StartBatch`), asks the model without any lock (`Consult`, `AskModel`), then
invalidates, commits row by row and answers (`Forget`, `Persist`, `Respond`). Evidence
edits, supersession, a reviewer's save, rule backfill when a workbook is opened, and
applies run in between. `row` has three history fields (who wrote it, what it was
shown, whether that moved unflagged); `trusted` and `beforeOverride` are history
variables. Reduced: column-D exemptions, the status of a rule verdict, the cascade of
`Assessor._run` (here "cache hit, answer or abstention"), and `written_to_workbook_at`.

**KernelRules, Kernel.** That cascade in full: `classify_row` and the CRM scopes as
operators; then, for one objective assessed twice, the plan per scope, the cache, the
proposals and their verification, validation with retries, confidence and abstention,
the roll-up and what is saved as row and slices. An answer of the model is a record of
the things the code looks at: status, confidence, whether it cites, contradicts, names
hybrid scopes and so on. Between the two calls an overlay or the evidence may change.

**Overlays.** One control of one workbook with its baselines and CRM overlays:
opening, attaching, importing, replacing, refreshing, detaching and deleting them;
backfill with its self-heal and purge; a run that read its overlays earlier; a
reviewer's form loaded earlier. A baseline is found by file and label (`Target`): a refresh
asks without a label, so it leaves a labelled one as it is and writes an unlabelled one. Ids of
overlays and rows are used again as in SQLite.

**BatchRuns.** Two overlapping assess-batch requests on one workbook: run row, progress
slot, calibration entries, CRM events, saved rows and answer, with failing writes and
a crash.

**RateLimitGate.** Timers count down with `Tick`; a thread whose timer is 0 may be
late. `owed` is history: the longest cooldown published while a worker had yet to pass
the check. A worker's 429, its publication and its sleep are separate steps. The
variant of the helper for an installation without the SDK calls once and is left out.

**SweepJudge, SweepRuns.** A judging batch: pool, cost and time caps, failed calls, in the
order futures complete; after a cap the collecting thread cancels future by future
(`CancelNext`) while the workers go on taking work. Then the runs around it: a workbook's totals,
the reviewer's decisions, and the online training across crashes and concurrent updates.

**ModelClient.** Callers share one client object and its flag; OpenAI's HyDE call is three
of them, one thread for each scaffold. Each caller builds a
request, may be refused for its temperature and resend, be throttled, truncated, and
reads verdict, score and usage out of the answer, for both providers and each kind
of call.

### What follows from it

**Poams.** `findings` is the set of objectives with a trusted Non-Compliant verdict,
`crmSkips` of those that the attached overlays give to somebody else; the two change
independently. Healing looks at the verdict only (`Stale`), clustering leaves out what the
CRM skips (`Items`). A cluster key stands for control family and scope; an objective may
have several. `text` is the set of findings a description names, or `OwnText`. Risk is
five levels and a blank; the matrix is the code's. `NewIds` follows SQLite's
`max(rowid) + 1`. `Generate` is the whole handler: heal, cluster, rewrite or insert,
link, record. Reduced: milestones, mitigations, evidence links and wording; scope keys
do not change over time; narrative import has the effect of a reviewer's save.

**Advisor.** Two overlapping requests with the cache keyed by a digest, invalid and
failing answers of the model, apply, and grading, deletion and re-creation of the POAM
under the same id; and the card a page shows.

**WorkingCopy.** `files` holds, for each timestamped name, whether the file is absent,
half written or whole, and which applies it holds. An apply reads the row, derives a
source and a free name, copies, stores the name (its own commit), saves a backup, patches by
one move, verifies, and on failure restores; every step may fail, and `Crash` ends all
of them and may leave a copy in progress half written. The user deletes copies and
moves the original. Names are not reserved, so two calls in one second can choose
the same one, as in the code. Reduced: a copy that is not interrupted is one step; a
backup belongs to its apply; quarantine of foreign files and row insertion are left out.

**UiHooks, UiCache.** `UiHooks` lists the mutation hooks of `queries.ts` with the
queries each names, removes or overwrites, request by request: saving a verdict and
assessing a batch send an apply of their own afterwards, whose answer names other queries
than the first. `UiCache` runs one query and one hook: fetches in
flight, failures, answers out of order, unmounting, polling; `version` counts the
changes of the server.

### What it rests on

**Scheduler.** `loop`, `queue` and `fire` are the tick thread's control and locals, `row`
the schedule rows with `next_run_at` reduced to due, one tick away, or later. Users edit
rows, start ingests and flip the master switch at any time; `Restart` loses all
threads and the registry and keeps the rows. The request of the chained assessment
is one step with no outcome, since the fire ignores its outcome.

**Shell.** Launches of the application: reap the recorded sidecar, spawn, wait for the
port, record the PID, open the window, close, reopen, quit or crash; the sidecar's watch
on its parent; PIDs that the system gives to strangers.

**Settings.** Two requests that write `config.toml` (load, truncate, write), with kills
between, secrets in the vault, the environment, and for each connector and provider
what badge, test, schedule and client take from them. An entry is set, set to another
choice, cleared or unset.

**Schema, Cascade, Migrations.** `Schema` holds the references between tables as the
revisions build them (`Built`) and as `models.py` declares them (`Declared`).
`Cascade` runs each deleting request as its statements under `foreign_keys=ON`, beside a
request that still writes. `Migrations` runs a chain of revisions as blocks of
statements with sqlite3's implicit transactions (statements that change the schema commit
on their own until the first row change opens a transaction), table rebuilds, and a crash
between any two, from every released revision and every consistent set of rows. The chain
is a parameter: `Revisions` is that of this release, its 19 revisions in the order of their
`down_revision`, and `ChainAssumption` states the rules that their authors keep to, which
TLC evaluates for `Revisions`.

## 3. Runs

A suite checks components that share no state in one run: the variable `part` says which
of them a behaviour is about; that one runs, the others rest in one of their initial
states. Its state space is the disjoint union of theirs, so each is checked in full, and
its invariants and properties are those of all its parts. Where several properties of a
component belong together they are one definition (`CopySafe`, `ClientSafe`, ...) whose
conjuncts are named for what they say and commented one by one in the module.

| Run | Module | Components | Shows |
|---|---|---|---|
| `ingest` | `MCIntake` | IngestJobs, SignIn, GraphWalk, SourceWalk, IngestWalk | one writer, no stale id, refinement of `SerialIngest` (`ImplementsSerial`); held slots are watched and freed (`SignInSafe`); a walk reported complete was read (`GraphReadsSafe`, `PullSafe`); rows, texts and tags keep together (`WalkSafe`); all of it ends (`IntakeSettles`) |
| `verdict_safety` | `MCReview` | Verdicts, WorkingCopy, UiCache, Advisor | flags follow tags, exports are trusted, overrides are not replayed; `CopySafe`, `UiSafe`, `AdvisorSafe` |
| `corpus` | `MCAssessment` | EvidenceCorpus, Kernel | one-hop chains, a live revision, flagged tags, neutral eviction; `VerdictSafe` |
| `gate` | `MCModelCalls` | RateLimitGate, SweepJudge, SweepRuns, Tagger | slots, cooldown; `JudgeSafe`, `RunsSafe`, `TaggerSafe`; every call ends (`CallsEnd`) |
| `upkeep` | `MCUpkeep` | Scheduler, Poams, Overlays, Shell | `SchedulerSafe`, `PoamsSafe`, `OverlaySafe`, `ShellSafe`; all of them go on (`UpkeepGoesOn`) |
| `records` | `MCRecords` | Cascade, Migrations, BatchRuns, ModelClient, Settings | `CascadeSafe`, `MigrationsSafe`, `BatchSafe`, `ClientSafe`, `SettingsSafe` |

Six further runs each check one statement of the repository's text that the code does not
keep; TLC's counterexample is the evidence, and `PROJECT.json`, `findings`, quotes the text.

| Run | Violated | What happens |
|---|---|---|
| `verdict_lost` | `ReviewSurvivesOlderRuns` | a batch that was already asking the model overwrites a reviewer's save when it commits |
| `verdict_current` | `WrittenOnCurrentEvidence` | a batch commits a trusted verdict on evidence that was edited after it was read |
| `corpus_home` | `ChainsStayHome` | a file ingested into one workbook supersedes another workbook's row |
| `poams_linked` | `FindingsAreLinked` | a further finding of a cluster is written into its POAM's text and never linked |
| `ingest_retry` | `RetryReadsTheRest` | a picture that vision could not read is known by its hash and never read again |
| `upgrade_rows` | `RowsAreKept` | revision 0010 drops a table under `foreign_keys=ON` and loses the tags that hang on it |

**Instances and bounds.**

- `ingest`: two jobs and two uploads give every pair of contenders for the lock, a refused
  third, and an id overwritten and cleared in both orders. Two flows over the two slots
  meet in one slot or in different ones. A library of three folders, one with two pages,
  `Depth` within it, 3 attempts and a `FetchCap` of 2 reaches each cut-off. Each connector
  with two units that share an item, one longer than the cap (pages of 2, `ItemCap` 3,
  2 tries). A shelf of two documents of one content, a picture and an unknown type with
  `RowCap` 2, `BatchSize` 2, ids to 6, and two mishaps (`MaxMishaps`: a fault, a delete, an
  edit or a kill).
- `verdict_safety`: one cell is enough because a batch treats its objectives independently
  but for the two points where it reads and commits; what crosses cells is in
  `EvidenceCorpus`. `MaxEpoch` 2 gives an override of an override. Three applies with two
  names let a third build on copies that two others left after failing or racing, and
  names collide. Each hook with each query it names and clicks `{1, 2}` for three of the
  hooks; two asks of the advisor with levels `{1, 2}` and two touches of the POAM.
- `corpus`: three revisions are needed for a chain that must be re-pointed; a cap of one
  makes every further row an eviction; two workbooks share an objective (files are
  symmetric where titles allow). The kernel gets five kinds of row, four kinds of bundle, at
  most one overlay at the start and two in all, one change, two calls, one retry, and
  fifteen answers chosen so that each gate of the cascade sees both of its outcomes.
- `gate`: three workers are needed for one to be parked on a first deadline while a second
  publishes another and a third is queued; two attempts give one backoff and one final
  failure. Three candidates with a pool of two, a cost cap of one and a
  time cap, so that one answer may leave two calls to cancel or to start meanwhile. Two sweeps, four
  decisions (one unreadable), two updaters. Eight kinds of file over two controls.
- `upkeep`: one edit at any point reaches every interleaving of a fire with a change of its
  row or a restart. Two findings, three POAM rows and two edits (a change of overlays is one) reach every
  pair such as "unlink, then delete", "import, then grade" or "link, then inherit". Two CRM
  overlays from two files, with a label or without, and five steps. Two
  launches.
- `records`: two requests on every row a workbook can have; every released revision with
  every consistent set of rows and three boots, over the chain of this release; batches over objectives `{1, 2}` and `{2}`
  with one fault; two symmetric callers of a model with two attempts; each connector and
  provider with every environment and vault content, each request once (`MaxClicks`).

`MaxEdits`, `MaxIngests`, `MaxEpoch`, `MaxId`, `MaxMishaps`, `MaxFaults`, `MaxSteps`,
`MaxTouches` and the like only bound how often users and faults act. `MaxAttempts`,
`Retries`, `PageSize`, `RowCap`, `FetchCap`, `PoolSize`, `CostCap` and the caps of the
gate are the code's own constants with smaller values.

**Deadlock.** `CHECK_DEADLOCK FALSE` wherever requests are served once and the system then
rests, which is every run but `corpus_home`, whose corpus is edited for ever.

**Fairness.** Threads that were started keep running (`JobStep`, `UploadStep`, `Proceed`,
`Read`, `SourceStep`, `WalkStep`, `Step`, `PoolStep`, `MainStep`, `Update`, `TagStep`,
`LaunchStep`, `Watch`), and time passes (`Tick`, `TimePasses`): weak fairness of exactly these
actions. Nobody has to send a request, click, edit or answer a sign-in, a fault need
not end. Calls to services are answered because the clients set timeouts.
`Semaphore.acquire` gets no strong fairness: the workers are finite and each makes
finitely many attempts. An ingest always ends for the scheduler because it stops
polling after two hours; a pull that outlives that is remembered in `late`, and
`SchedulesRecur` claims nothing about behaviours in which such a pull never ends.
No liveness is claimed of the other modules: their handlers run to the end or the
process dies.

**Scope of some properties.** `OverrideIsNotReplayed` and its theorem hold when there
is one workbook: the cache key has the epoch but not the workbook, so an override in
one workbook can be followed by a hit on an entry that another workbook stored under
the same number (`override_epoch.py:14-15` says epochs are per workbook and
objective). `RiskIsExplained` leaves out rows that an import has written to.
`OneSidecar` speaks of launches one after another whose PIDs were recorded;
`SettingsSafe` of times when writers do not overlap and none was killed while writing;
`ShellSettles` leaves out a parent PID that the system gave to a stranger.
`NamedIsRefetched` counts from the answer that names a query: when a verdict is saved and
its apply fails, the page of column L is named by nobody and stays as it is.
Each of these exceptions is a history variable or a named operator, so that what it lets
through is stated in the module and what is beyond it is still checked.

## 4. What the code does not do as its text says

Besides the six findings of section 3, the following was met while modelling.

*Ingest and sources*

- `evidence/jobs.py:12-13`: "Only one ingest job can be active at a time". A job
  that registers between an upload's check (301-308) and its sentinel (319-321) loses
  its active id; when the upload ends, a further job is accepted and waits for the
  lock. `WritersExclude` shows that they still write one after the other.
  `jobs.py:296-299` says that the sentinel makes `get_active_job` report busy; it
  returns None for an id that is not in the table.
- `evidence/ingest.py`, "each row owns its text exclusively": an id that is used again
  while its predecessor's text file is being unlinked loses its text, and a crash between
  retention's unlink and its commit leaves a row without one. Retention's docstring says
  that `ingest_source` commits before and after; it does not.
- Confluence swallows a 401 of a page although its docstring says that auth failures
  propagate; GitLab swallows a 401 where it opens a project's tree, though not on a later page
  of it; exactly-cap results of Splunk are marked
  truncated; a smaller page cap on the server ends Jira, Confluence and ServiceNow walks
  early; offset paging misses shifted items; Archer records without id share one URI.
- `evidence/sources/sharepoint.py`: the sweep builds `{graph_base}/v1.0/...` from a base
  that already ends in `/v1.0`; a second 401 returns silently though the docstring says it
  propagates; `on_device_code` is not passed on when the token is refreshed; an ingest that
  Graph denies ends "done" with no files.
- `routes/sharepoint.py:380-384`: a live code is not always shown again, since the watchdog
  gives up after 300 s and the code lives about 15 minutes; signing out while a thread polls
  lets that thread persist a token afterwards; "only one test at a time" (376) is not kept
  after a forced release.
- `sweep_judge.py:426-429`: after a cap, not-yet-started calls are cancelled and their slots
  default to "cap_skipped". A cancelled future raises `CancelledError` from `fut.result()`
  (502), so a batch that a cap cut short of a call loses all its answers and the sweep
  answers 502; no batch that ends has an unfilled slot (`CutLosesTheBatch`). And calls still
  start while the loop that cancels (507-510) is under way; `CancelStopsSpending` says which
  do not. Concurrent sweeps lose one's spend; concurrent updates train on the same
  decisions; unreadable decisions count to the threshold and are never consumed.
- `evidence/tagger.py:2871`, "non-empty file must never end at ZERO": it does when the
  stronger model's calls all fail. Retag passes neither the references, verifier,
  escalation model nor vision (`routes/evidence.py:1395-1427`), against 1350-1354.

*Verdicts*

- `llm/_rate_limit.py:88`: a cooldown "makes EVERY admission (new dispatch + retry)
  hold until it passes". The cooldown is awaited before the semaphore (175-180), so a
  worker queued for a slot calls during a cooldown published meanwhile.
- `engine/invalidation.py:52-69`: rows of rule and CRM verdicts are exempt; a row that a
  reviewer rewrote keeps the source it had and so stays exempt. Ingest that mutes an
  older revision, and a delete that revives one, change bundles without flagging
  (`routes/evidence.py:1161-1165`, `683-690`).
- `engine/evidence_bundle.py:455-463` has no workbook filter, against
  `evidence/ingest.py:662-668`; `supersession_tracker.py:183-188`: a disjoint title never
  creates a false link, but a generic title in between links two documents whose titles
  contradict.
- `routes/controls.py:2714-2719`: a row in review is written "with a BLANK Compliance
  Status"; `ccis_writer.py:244-249` writes no cell for a blank, so the status of an
  earlier apply stays in the copy.
- `engine/assessor.py:2597-2598`: the roll-up of scopes must "never ... relax a verdict".
  It does: where column L inherits the on-premises scope, a Non-Compliant verdict becomes
  Compliant (2599-2604) if the cloud scopes are the provider's or their own texts sound
  compliant, and those texts are not checked for corroboration, so scan output alone can
  pass an objective. `ScanPassIsInherited` and `ScanPassIsSharedOut` say that nothing else
  lets it.
- `engine/assessor.py:2465-2467` against 2500-2505 on held scopes; the no-evidence comment
  (1669-1676) says abstain, the code says Non-Compliant; the saved roll-up of provider
  slices can override a Non-Compliant verdict; a flexibly inherited objective is Not
  Applicable in memory and Compliant as saved. `impl_persistence.py:21-27`, "always a
  fresh snapshot", holds only when there are plans.
- `routes/controls.py:2490-2503`: rows are committed at their savepoint's release, so after a
  persist error the answer says 0 although rows are saved; a `finish()` that raises
  leaves the progress slot and the run "in_progress" for ever (against 2519-2522). Two
  batches of a workbook share the slot, which `_batch_progress.py:41-44` calls impossible.
- `llm/client.py`, `propose_twice`: the two passes may run at different temperatures if a
  sibling's refusal flips the flag in between. A NaN confidence passes every threshold
  (`assessor.py:2239`) and 1.5 becomes 0.015. `judge_relevance` reports the usage of its
  last attempt only; both clients read an object without a score as 0.0, "not relevant"
  (1652, 2598), though the comment at 1626-1634 wants an error told from 0.0, and its docstring
  (1621-1624) has malformed output give 0.0 where Anthropic's gives -1.0. A HyDE call of
  OpenAI's reads the flag in three threads, so it may pay three refusals for one model.
- Overlays: a reviewer's edits per scope are matched by the id of an implementation row
  (`controls.py:1299-1347`), and every run and backfill deletes and re-inserts those rows,
  so the edits are lost or meet another scope. A blank tester counts as "system". A purge
  overwrites a reviewer's status with the roll-up of what is left, and a CRM without
  labels leaves its parent Compliant though the docstring of the purge says otherwise.
  "Re-run the adapter for this baseline's source" (`baselines.py:367`) drops the label:
  375-379 builds the adapter from type and file alone (`base.py:91-96`), so refreshing a
  labelled CRM inserts or rewrites a baseline without label (`crm_xlsx.py:226-241`), which
  nothing attaches, and leaves the labelled one as it was. An import that replaces a
  label commits the removal before it reads the new file (`catalog.py:1132`).

*What follows*

- `poam/generator.py:774-791`: healing asks whether the verdict is Non-Compliant and not in
  review; what a CRM skips is only left out of the clusters (1000-1021). A link to a finding
  that became inherited stays after a generation, with its POAM and the POAM's text.
  `GenerateSettles` claims nothing else of it.
- `poam/generator.py:28-29`: generation "will NOT overwrite their work"; healing
  deletes a POAM that was edited or taken out of draft once its findings are gone.
- `poam/risk.py:147-151`: every code path that changes a risk field must record it;
  `poam/importer.py:178-181` does not. Importing the same export twice also inserts
  its DRAFT- rows twice. `models.py:2026` says risk history is never deleted; it goes with
  its POAM.
- `poam/residual_advisor.py`: `force_refresh` does not overwrite an existing suggestion,
  though 749-751 says so; two requests with one digest give a 500 although `store_cache`
  says "silently no-op"; the digest lacks fields of the prompt; a deleted and re-created
  POAM may show its predecessor's card.
- `excel/working_copy.py:34-36`: copies are cumulative. Two applies that overlap each
  copy the same file, and the one that stores its name last wins; the other's cells
  are in an older copy although it was answered "ok". After a restore that stopped
  halfway, the row names an unreadable file, every later apply copies it and fails,
  and deleting it by hand restarts from the original. A verification that raises
  (333-375 of `ccis_writer.py`) skips the rollback.
- Pages: the Evidence table's key "evidence-paged" is named by no hook; the query of
  suspicions is disabled, so naming it refetches nothing; a change during the first fetch
  is lost; `setQueryData` cancels no older fetch; requests have no timeout.

*What it rests on*

- `evidence/scheduler.py:10-13`: "if the registry is busy it defers the schedule by one
  tick interval". If it becomes busy between the check and the start, the run is
  recorded as an error and the next one is a whole interval away. The write-back of a
  fire also overwrites a run-now, a new interval or a disabling that came during it,
  and `enabled` is not read again at fire time. The chained request goes to the port given
  when the scheduler was configured, which is always 8000 (`server.py:136-145`).
- `src/ui/electron/main.cts:517-518`: "never have two sidecars fighting". There is no
  single-instance lock: a second launch kills the first one's sidecar, and the first one's
  exit handler clears the second one's PID. A sidecar that dies is never respawned; after 60 s
  without a port the window opens without an address for ever; an empty address does not
  fall back (`api.ts:50`).
- `config.py:627-630` truncates in place without lock or temporary file: a request that
  loads meanwhile reads all defaults and may save them; overlapping saves lose entries; two
  writers may leave the tail of the longer text, after which nothing starts. Badges and tests of
  Splunk, Jira, Archer, eMASS and ServiceNow ignore gates or secrets that the pull needs, and
  the Anthropic key test refuses although the client would take the key of the environment.
- `routes/system_context.py:234-243`: resetting the pending context is refused with 500 once
  a pending sweep ran. Deleting a component with children, or a workbook with its own context
  while a pending one exists, is refused. The docstring of `delete_workbook` has the primary
  baseline "Not touched" (`workbooks.py:495-498`) and every `BoundaryTokenSource` deleted
  (480-484); the code deletes the baseline with the workbook (859-886), and tokens that name no
  evidence stay with the system context. `DeletedLeavesContext` follows the code. `delete_poam` relies on a cascade that
  `routes/poams.py:908` says SQLite lacks.
- Migrations: 0009 refuses a database whose workbook has children on the first start and
  passes without its salts on the second; 0016 is refused when rows that it rebuilds have
  children; a leftover `_alembic_tmp_` table blocks every later start. The migration tests do
  not set `foreign_keys=ON`, under which the program runs.
- `workbook_sync.py:97-100` says itself that the snapshot moves before events are committed.

## 5. Proofs

TLAPS proves the following for every value of the constants that satisfies the named
assumption of the module (`...Assumption`, which TLC evaluates in the runs). Each proof
goes through an inductive invariant that TLC checked first; the safety property alone was
inductive in none of them. A proof has one lemma per action, and under it a step per
conjunct that the action can disturb.

| Proofs | Component | Theorems | The inductive invariant, and what it adds |
|---|---|---|---|
| `IntakeProofs` | IngestJobs | `TypeCorrect`, `SerialWriters`, `ActiveIsNeverStale`, `RegistryIsSerial` | `IInv`: a job's status goes with its `pc`; the lock's holder is exactly the writing thread; the active id is a request in flight, an upload only while it ingests. `WritersExclude` needs that a thread about to release still holds the lock. The refinement follows step by step. |
| | SourceWalk | `PullsAreWhole` | `SourceInv`: where the walk is in its unit fits what it has got (`PlaceFits`, `PageFits`, `YieldFits`), caps and refusals fit its course, and while lists are steady the listing is the content. Items of a page are counted against the offset, so that nothing is skipped or read twice. |
| `VerdictsProofs` | Verdicts | `TypeCorrect`, `StaleTrustIsExplained`, `ExportsAreTrusted`, `OverridesAreFresh` | What a running request has in hand is what the cells had when it read them or moved in a recorded way; `trusted` only grows; no cached key and no running request is ahead of its cell's epoch. |
| | IngestWalk | `IngestsAddUp` | `WalkInv`: every file is accounted for or still to do; what a phase may hold uncommitted; rows differ in file, content and id; a text belongs to its row or to an id that is to be unlinked or used again. |
| | GraphWalk | `LibrariesAreRead` | `GraphInv`: while nothing failed, what is within reach has been found or lies below a folder that is still to list, whose depth is one it can be reached at; the page asked for fits what it has brought (`Covered`, `PageFitsWalk`). |
| `AssessmentProofs` | EvidenceCorpus | `TypeCorrect`, `OneHop`, `SomeRevisionIsLive`, `TrustFollowsTags`, `EvictionsAreNeutral` | A superseded row is older than its superseder and shares its number; without that a deletion could revive nothing. That evictions are neutral is an action property, from the types alone. |
| | Kernel | `VerdictsAreSound` | `KernelInv`: what is cached has a basis for the fingerprint it is stored under, and what is decided has one for the route the call took. |
| `RateLimitGateProofs` | RateLimitGate | `TypeCorrect`, `NoSlotLeaks`, `CooldownHoldsTheHerd` | Slots by the cardinality of the calls in flight; what a worker is owed is never more than the cooldown left. |
| `SweepProofs` | SignIn | `SignInIsSafe` | `SignInInv` adds that a thread which lost its slot shows no code. |
| | SweepJudge | `JudgeIsSafe`, `CancelStopsAll` | `JudgeInv`: the queue is taken in order; where the cancelling loop has been nothing is queued, and nothing at all once it is through (`LoopIsThorough`); the pool is left for a cancelled call only (`EndIsEarned`); no more calls than workers; what was spent is at most what was answered. |
| | SweepRuns | `SweepBooksAreTrue` | `RunsInv`: the totals a request read are covered by the number and the cost of the runs recorded; an update that is marking has stored the weights it fitted. |
| | Tagger | `TagsAreSafe` | `TaggerInv`: unasked calls, verdicts, tally, guesses, answers and kept tags fit the tier the cascade is in. |
| `ReviewProofs` | WorkingCopy | `CopiesAreSafe` | `CopyInv`: an apply that is not overlapped has the row's path as its prior or has stored its name; what was kept is covered by the current copy; a torn file is dead or its holder is known. |
| | UiCache | `PagesAreSafe` | `UiInv`: an answer older than a change is stale or its refetch is under way (`OldIsStale`); versions count the commits. |
| | Advisor | `AdvisorIsSafe` | `AdvisorInv`: what a request looked up stands unless the POAM moved; the page's card is of the POAM or history says why not. |
| `UpkeepProofs` | Scheduler | `SchedulerTypeCorrect`, `SchedulerIsSafe` | `SchedulerInv`: listed schedules are due unless touched; the job that is polled is the fire's; a running pull is the one polled. |
| | Shell | `ShellIsSafe` | `ShellInv`: stages, PIDs and the file fit; launches are one by one while `met` is false; a live sidecar is written down. |
| | Poams | `PoamsAreSafe`, `GeneratorSettles` | `PoamInv` adds that a blank row is clean. Generation is proved to settle as an action property: after it every cluster of a finding that the CRM does not skip has a POAM, and no link is left to an objective that is not Non-Compliant. |
| | Overlays | `OverlaysAreSafe` | `OverlayInv`: the labels of CRM baselines are unique but for the missing one, so an import replaces one at most; attached overlays are distinct and not deleted, so a detached one is gone; the overlays a run read are attached still, unless it is outdated. |
| `RecordsProofs` | BatchRuns | `BatchesAreSafe` | `BatchInv`: per request, phase, tries, run row and saves fit; the slot and the events fit their requests. |
| | ModelClient | `ClientIsSafe` | `ClientInv`: per caller, its course, what it believes of the flag and its result fit; while nobody sent a bad request to an endpoint that takes temperatures, the flag is up. |
| | Settings | `SettingsAreSafe` | `SettingsInv`: a writer's copy is what was agreed plus its own change; entries that are dropped are those whose default is none; unless blurred, at most one writer is active. |
| | Migrations | `UpgradesAreSafe` | `MigrateInv`: what an upgrade has passed was made, or follows in a block that was cut short; a block's own object comes before what follows it; a copy that was left is of a table that the next revision builds anew at the latest; an open transaction began at the revision the start found; on the first start nothing ahead is there. |

`UpgradesAreSafe` is about every chain that keeps `ChainAssumption`, so about the next
revision too, if its author keeps the rules: a block looks for what it makes first; only
the first revision makes objects without looking; a table is copied and then swapped, and
at most once in the chain; no object is made twice; a row is inserted in a block of its own;
workbooks are salted; the tables that link evidence are rebuilt to cascade before evidence
is. What the rules do not rule out stays in the statement: a block that was cut short after
its first object is taken for done by the next start, a copy that was left refuses it.

Composition: `RegistryIsSerial` is the implementation of the abstract registry; the
proof about the scheduler takes the registry's steps as they are in `IngestJobs`, which it
instantiates. The suites need no theorem of their own, since their parts share nothing.

What stays with TLC, and why:

- everything about liveness and fairness (`IntakeSettles`, `CallsEnd`, `UpkeepGoesOn`
  but for `GenerateSettles` and `CancelStopsSpending`, which are action properties): the
  prover handles neither ENABLED nor fairness;
- `CascadeSafe`: its only parameter is the number of requests. Which statement of which of
  the deleting requests breaks which reference is a finite table of cases, over concrete
  tables, that TLC goes through whole; a proof would repeat it case by case.

## 6. Not modelled

Extractors, parsers, exporters, reports, prompt building, similarity scores and the wording
of every text are functions of their input; the models take their results as arbitrary
choices or as attributes of an input. Not modelled either: the workbook reader and its sync
with the file (sequential, one order hazard that its docstring admits), narrative import
(has the effect of a reviewer's save), catalog loaders (insert reference data; what they
replace or delete is in `Overlays` and `Cascade`), calibration and embeddings (numeric
functions), metrics, scope and report routes (read-only views, single-row inserts), the
evidence links of POAMs, milestones, ODP import, the asset cross-check, the pages' drafts
and layout, and scripts and demo data. `PROJECT.json`, `components`, says for each component
what is left out of the part that is modelled.

The map in `PROJECT.json` names, for each definition that stands for code, the lines it
stands for. Keys of the pages' query cache that name one query only have no entry of their
own: the sets and hooks that use them do.
