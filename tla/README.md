# RemedyGraph in TLA+

RemedyGraph takes the postmortem of an incident and the repository it is about,
extracts the corrective actions the postmortem promises, compiles each into an
invariant with deterministic checks, investigates the repository, gives every
action a verdict (`VERIFIED`, `PARTIAL`, `MISSING`, `UNVERIFIABLE`) with an
evidence graph, and proposes guards: generated programs that a person approves
and the server then runs. It is a FastAPI server over one SQLite file
(`src/backend/app`), with a React dashboard (`src/frontend`) and two command
lines.

The modules here model that server, TLC checks them on small instances, and
TLAPS proves the most important results for every instance. Paths below are
relative to `src/backend/app` unless they begin with `src/`.

Contents: 1 inventory, 2 what is hard, 3 modules and how they correspond to the
code, 4 runs and bounds, 5 fairness, 6 proofs, 7 findings, 8 what is not
modelled, 9 plan.

## 1. Inventory

| Component | State it keeps | Operations | Talks to | Correct when |
|---|---|---|---|---|
| Guard lifecycle: `guards/service.py`, `runner.py` | rows `guard_specs`, `guard_approvals`, `guard_executions`; generated files | preview, list, decide, execute, executions | store, generator, file system, a subprocess per execution | nothing runs or is reported without a standing approval of exactly the installed text; decisions are final; a failed write is undone |
| Guard generator: `guards/generator.py` | none | generate, render | compiler's specs, verdicts | a guard asks for what the audit found absent and does not pass for want of files |
| Incident creation: `services.py` | rows `incidents`, `corrective_actions` | create project, create incident | store, provider | resubmission is idempotent; an audited incident keeps its project and actions |
| Model-call budget: `audit/budget.py`, `storage.py` 368-416 | row `incident_budget_counters` | reserve, gateway's generate | store, provider | one slot per call, never more than the strictest limit, charges survive everything |
| Audit workflow: `audit/workflow.py` | the run's rows (ten tables, one snapshot) | start, seven nodes, exception handler | store, retriever, checks, verdict engine, graph builder | a COMPLETE run is whole and stays; every failure ends as a stored FAILED run; rounds are charged first |
| Evidence graph: `audit/graph.py` | none (nodes and edges are rows of the run) | build, validate | workflow, store | one node per record, one parent each; a stored graph fits one set of records |
| Invariant compiler, checks, verdict engine: `audit/compiler.py`, `checks.py`, `verifier.py` | none | compile_action, run, verify_action | the working copy | a verdict says what the files support |
| Store: `storage.py` | the database file, its version | open, create, migrate, all reads and writes | everything | an opened store is current; a foreign file is untouched; a migration loses nothing |
| Chunking: `rag/chunking.py` | none | split a document into spans, spans into bounded chunks | ingestion | chunks cover the text, keep to the bound and name what they quote |
| Retrieval: `rag/` | lexical index (FTS5), vectors in memory | walk, ingest, build, search | the working copy | limits hold, every file is accounted for, both indexes agree, candidates are current |
| Providers: `llm/` | none | generate | a model; here a deterministic mock | called only when charged |
| HTTP API: `main.py`, `schemas.py` | none | routes, exception handlers | services | answers agree with what is stored |
| Pilot and evaluation: `pilot/`, `evaluation/` | files they write | sequential scripts over the services | services | exit codes and scores follow the verdicts |
| Dashboard: `src/frontend/src/App.tsx` | run, details, guards, results, one pending action | start, preview, decide, execute | HTTP API, with a timeout per request | what it shows is of one run and true; no action hangs |

**How they interact.** Routes are synchronous functions; FastAPI runs each
request in a thread of a pool. All threads share one `SQLiteStore` whose lock is
held for one method at a time, so a service method is a sequence of atomic store
calls and file operations between which any other request may run. Several
server processes may open the same file; then SQLite's own transactions order
the calls. The audit runs inside the request that starts it. The repository
under audit is a working copy that other tools write at any time. The dashboard
sends one request after the other; one it gives up is served all the same. The
server has no callbacks, no message queues and no background task.

## 2. What is hard

* *Interleaved requests.* Check-then-act sequences span store calls: the preview
  loop (`guards/service.py` 47-52), decide-write-compensate (60-97),
  execute-record (100-136), lookup-and-save of an incident (`services.py` 80-88),
  load-charge-save of the gateway (`audit/budget.py` 93-124).
* *Crashes.* A server may die between any two of those calls, between two
  statements of the schema script, or between a migration's `CREATE TABLE` and
  its version. Nothing resumes work at the next start.
* *Partial failure.* A file write, the encoder, the database or a check can fail
  in the middle; there are three compensations (a guard's preview is restored,
  a run is marked FAILED, an index build leaves the old index), and a
  compensation may fail in its turn.
* *Stale reads.* An incident may change while its audit runs; a file may change
  between the walk that measured it and the read; every check walks again.
* *Timeouts and repeats.* The page gives a request up after two minutes or when
  the network fails, the user repeats the action, and the service may serve the
  first request before, between or after the requests of the second. A body may
  be lost, also under status 200 (`src/frontend/src/api/client.ts` 6-32).
* *Limits.* Model calls, investigation rounds, files, bytes, characters of a
  chunk.
* *Combination.* A verdict is decided by the order of branches over several
  outcomes and kinds of evidence; a guard is derived from the verdict and reads
  the repository in its own way; two rankings are merged into one.

`PROJECT.json` lists each hazard at its line with the properties about it.

## 3. Modules

Each state machine has the constants it needs with named assumptions, one action
per step of the code, `TypeOK`, its properties at the end, and a module `MC...`
with the values TLC uses. Definitions headed "Mutant of" are plausible bugs; the
specification never uses them.

### GuardPolicy and GuardLifecycle

`GuardPolicy` says what the user is promised: a guard is `open`, `approved`,
`released` or `rejected`; an approval may be withdrawn until the file is in
place; results are reported for released guards only.

`GuardLifecycle` is the code. `status`, `approval` and `executions` are the
three tables; `artifact` is the generated file (`absent`, `partial`, `preview`,
`edited`); `pc`, `job` and `run` are the request threads.

| Actions | Code |
|---|---|
| `RequestPreview`, `SaveGuard` | `GuardService.preview`, one `save_guard` per guard |
| `RequestDecision`, `RecordRejection`, `RecordApproval` | `decide`; the row's primary key makes one of two concurrent decisions fail |
| `OpenArtifact`, `FlushArtifact`, `RestorePreview` | `write_approved` (the `write_text` of `runner.py` 43: open and truncate, then write) and the compensation |
| `RequestExecution`, `LookupApproval`, `CheckArtifact`, `RunGuard`, `ConfirmApproval`, `SaveExecution` | `execute`, the digest check, the subprocess, `save_guard_execution` with its approval read before the transaction |
| `StoreRaises`, a disjunct of every step that calls the store | the database is locked, full or gone: the call is rolled back and the request ends, the compensation of a failed write included |
| `Crash`, `EditArtifact` | the server dies and its requests are lost; somebody edits a file |

Any thread serves any request. `overlapped`, `cut` and `abandoned` are history:
whether previews overlapped, whether a preview ended before its last guard, and
which guards lost the thread that was writing or compensating them.
An edit may also come between the digest check and the start of the process; the
edited file then runs. The code does not claim otherwise and neither does a
property.

`Policy` is the refinement mapping: a guard's phase is computed from its approval
row and whether its file was ever in place.

### IncidentBudget

`owner` and `actions` are the incident's rows, `used` and `limit` its counter,
`audited` and `pinned` what a run stores of it. `Create` is
`IncidentService.create` (lookup, base save, reserve, extract, save), `Generate`
the bounded gateway (load, charge, record, call), which in this repository only
the tests construct: it is another caller beside the requests, and how two
gateways of one run would share its events is not modelled. `ServiceLimit` gives every
thread its server's setting, so servers with different settings share a file.
`called` and `calls` are history: which slots the provider was called with.

### AuditPolicy and AuditRun

`AuditPolicy` says what the user is promised of an audit: the stored status goes
through the stages in order; a round is charged once, before its retrieval, and
never given back; a run completes from its last stage with every charged round
searched, may fail from any stage, and nothing happens to it after its answer.

`AuditRun` is the code. One thread per run. After a save the state in memory and the stored snapshot
agree, so `row` stands for both; `known` (the actions in memory) and `found`
(invariants searched) are what memory holds beyond it. One action per node of
the workflow, split where it saves more than once: `SaveInitial`, `ReadActions`,
`SaveParsed`, `CompileInvariants`, `BuildIndex`, `ReserveRound`, `Search`,
`SaveIndexed`, `InvestigateChecks`, `AssignVerdicts`, `BuildEvidenceGraph`,
`PersistCompletion`, then the exception handler: `Reload`, `ValidateReloaded`,
`SaveFailed`. `Valid` is `_validate_audit_state` against the incident as it is
now. `SaveIncident` is a resubmission that changes the actions; `Pinned` says
which rows the foreign keys hold. A run of an incident whose actions are not yet
stored is an initial state, because `services.py` 87-106 stores them in a second
call. `Policy` is the refinement mapping: the stage of a run is its stored status,
its rounds are those of the stored budget.

### SnapshotReader

`AuditRun` composed with a request that reads the run it writes
(`GET /runs/{id}` and every preview of guards). `load_audit_state` selects from
one table after another: `at` is the next of them in `Order`, `copy` what has
been read, `ReadPart` one select, `AnswerRead` the validation of the whole
(`Readable`) and the answer. Between two selects the audit saves, the postmortem
is resubmitted or the server dies (`ServerStep`). The summary comes first and the
graph last, and `ReadsStand` rests on it: a status that says the run is finished
is older than everything read after it, and a graph vouches for the records read
before it. Of an unfinished run, a mixture without a graph may be answered or
refused.

### EvidenceGraph

Pure operators: `Build` and `Validate` over a record of ids and owners, and
`WellOwned`, what the store requires of the records before the graph. `AuditRun`
keeps in a row the records its graph was built from and validates the rebuilt
graph, so graph and records can come apart exactly as in the store.

### ActionAssessment

One action and one repository. Of a file the model keeps its kind, whether it
decodes, which values of matching keys satisfy or contradict the action, which
terms occur in executable syntax, and whether a test asserts on the
implementation. `Specs` is the compiler, `Run` with `Configuration`,
`StaticCode` and `TestProtection` the checks, `Verdict` the engine with its
branches in order. `RetrieveCandidates`, `RunCheck` and `AssignVerdict` are the
steps of the audit for this action; `Commit` changes the repository between them.
It begins with any repository of at most `MaxFiles` files, which the theorems
leave arbitrary.

### GeneratedGuard

Extends `ActionAssessment` by the guard that `GuardGenerator` derives when the
audit is done. `GenerateGuard` is `generate`: no guard for a verified or
unverifiable action, for one without a check, or without a term that is safe to
quote; `Protected` and `TypeFor` are `_strategy`. `LookedAt` and `MayPass` are
the generated program: which files it reads and what it demands. The program
looks for substrings of one joined text where the checks compare names, keys and
values, so what a file lends to that text is left open: `MayPass` says that the
program *can* end with 0.

### StoreSchema

`Script` is the order in which tables are created, `version` and `tables` the
file. Every statement that commits on its own is a step: `ReadVersion`,
`ReadTables`, `CreateTable`, `SetCreated`, `CreateCounters`, `CopyTotals`,
`CreateGuardTable`, `SetMigrated`, `CheckTables`. Any number of processes, and a
crash between any two steps. The file may begin with any version and any tables,
the program's own or not; `intact` is history: an old file that was as its
release left it. Tables are names: one of another program that has a name of this
one but other columns is not modelled.

### RepositoryIndex

`Build` lists the repository; `names` are the names the walker has yet to look
at, which `WalkFile` takes in their order and judges by `Denial`, the walker's
checks in order; `ReadFile` reads what was accepted; `PrepareSnapshot`,
`ReplaceLexical` and `InstallSnapshot` are the three steps of
`RepositoryIndexer.build`, of which the first two can fail. `Converted` are the
names that end in `.pdf`, `.docx` or `.pptx`: their path is resolved once more
before they are converted, and if the file is gone `DocumentVanished` ends the
build, where of a text file `ReadFile` records a failure and goes on. `raised` is
history: where the last build raised. `Search` cuts any
ranking of the matching chunks and any ranking of all chunks to the pool, merges
them by the sum of their reciprocal ranks (`Share`) and a bonus, and cuts to
`top_k`; `Merges` is the one order by score and id, stated as the set of its
solutions. `Change` edits the working copy between any two steps.

### Chunking

`DocumentChunker.chunk` over any text: of each line its offset, whether it is
blank, a heading, or part of a python symbol. `Split` makes the spans
(`DocumentSpans`, `PythonSpans`), `TakeSpan` takes the next one in order,
`AddLine` and `CloseChunk` are the two branches of the loop in
`_bounded_chunks`. `uncounted` are the lines that `str.splitlines` counts and
`ast` does not (a form feed inside a line).

### Dashboard

`pending`, `error`, `run`, `details`, `guards`, `executions` are the state of
`App.tsx`; `blank` says that rendering raised and React removed the page. `call`
is the request the page waits for, `late` the ones it gave up that still travel.

| Actions | Code |
|---|---|
| `StartAudit`, `PreviewGuards`, `DecideGuard`, `ExecuteGuard` | the four handlers of `App.tsx`, each enabled as its button is |
| `Receive` (`TakeRegistered`, `TakeRun`, `TakeDetails`, `TakeGuards`, `TakeDecision`, `TakeExecution`) | what a handler does with an answer: the next request, or `Settle` |
| `ReceiveRefusal`, `Expire`, `ReceiveCut` | an error answer, a timeout or network failure, a body that cannot be read (`requestJson`) |
| `Serve` (`Register`, `CreateRun`, `ListGuards`, `Reject`, `Execute`, `Refuse`) | a route, for the awaited request or a late one; the inner steps are in `GuardLifecycle` and `AuditRun` |
| `Serve` (`FindNoGuards`, `SaveGuards`, `SaveRaises`; `Approve`, `WriteArtifact`, `RestorePreview`, `RestoreRaises`) | preview and approve, split where another request can be served between: the check and the saves; the decision's commit, the file, and the compensation of a write that failed, which may fail too |
| `Reload` | the browser loads the page anew |

`written` are the guards whose file is in place. `clicks`, `stale`, `withdrawn`
and `bare` are history: what the user decided, which guards changed without the
page being told, which approvals a failed write took back, whether detail
requests failed.

## 4. Runs and bounds

| Run | Instance | Question |
|---|---|---|
| `guard_requests` | two guards, two threads, two results, two executions, a store call that raises, a crash, an edit | are results, files and statuses tied to standing approvals, who holds an approval without a file, are previews all or nothing, is the policy implemented |
| `guard_overlap_reset` | one guard, two threads, no failure | does a recorded decision stay visible (it does not: 7.1) |
| `budget_shared` | two creators for two projects and a gateway; limits 2, 3 and 3, cap 3 | are calls charged and capped; do budgets only tighten; does an audit keep its incident |
| `audit_runs` | one run and a reader of it, three actions of which two have a supported check, counters within and beyond the limit, one resubmission, one fault, one crash | is a COMPLETE run whole, do answers agree with rows, do failures end well, does a reader see one run, does every audit settle, is the policy implemented |
| `audit_empty_incident` | one run | does a stored graph fit its incident (not always: 7.2) |
| `verdict_audit` | every repository of at most two files, two terms, one change between checks, and the guard generated at the end | do VERIFIED and MISSING stand on files, is the assessment monotone, does the guard ask for what is absent |
| `verdict_test_constant` | one file, one term | a documented rule the code breaks (7.3) |
| `schema_open` | two processes, versions 0 to 4 with any of five tables, two old runs of two incidents, one crash | is an opened store current, a foreign one untouched, no charge lost, an upgrade completed |
| `schema_crash` | one process, one crash | do old versions always migrate (no: 7.4) |
| `index_builds` | every repository of three names, one of them a document, with sizes 0 to 3, per-file limit 2, total 3, two files, two builds, one change, one failure | is an ingestion whole, is none of a repository that stays aborted, do the indexes agree, are candidates current, does agreement of the rankings win |
| `chunk_spans` | every text of up to four lines of length 0, 1, 3 or 4 with the bound 3, as a document with any headings, as python with up to two symbols, as python `ast` refuses | do chunks cover the text within the bound and name what they quote, does chunking end |
| `dashboard_session` | one run of one guard, any number of audits and reloads, two requests given up and served late, one lost body, two failing writes or restores | is the screen of one run, does a shown decision stand, is a card stale only after a failure, does every action end |

Why the bounds are enough. Two actors are the least that race, and each racing
pair of the code is two requests about one guard, one incident, one run or one
file. One crash or fault at every point covers each single failure; a second one
only meets states a first could have left. Two guards, two terms and three
actions are the least with a first, a rest and a remaining one. In
`guard_requests` the two executions are of one guard or of both; its threads are
a symmetry, and its `VIEW` leaves out only what an idle thread last worked on,
which the next request overwrites. The index
instance has a file that fits alone and not with its neighbour, one that is too
large, one more than the count limit allows, and all reasons to skip. The line
lengths of `chunk_spans` are the empty line, one that fits beside another, one
that is exactly the bound and one beyond it; four lines hold two symbols in a
row, nested, or with text before, between and after. On the dashboard one late
request is what meets its own repetition; with two, a late approval that fails is
seen by a late preview. A second audit there is refused, given up or lost, which
is when what is left of the first would stay on the screen; a second run beside
the first is left to the proof of `ScreenIsOneRun`, because runs share no row.
Runs share nothing but their incident's rows, which a resubmission
changes beside one run as beside two; for any number of runs the properties of
`audit_runs` are proved. A reader reads once: what it is told depends on no
earlier read. Every bound is a constant that occurs in a guard. The
safety properties are proved for all bounds besides (section 6).

Deadlock is checked in every run: where the system rests, a step that changes
nothing (`Quiet`, `Read`, `ReadOrRefuse`) says so.

## 5. Fairness

* `AuditRun`: `WF` on the steps of a run's thread. A thread of a live process is
  scheduled, and its store calls return or raise.
* `StoreSchema`: `WF` on the steps of a process that has begun to open the file,
  for the same reason.
* `Chunking`: `WF` on the steps of the call, which runs alone.
* `Dashboard`: `WF` on `Page` only: the browser's event loop runs and its timer
  (`setTimeout` with an `AbortController`, `client.ts` 6-7) fires. The service and the network owe
  nothing: a request may never be served.

Nothing is assumed of users, editors, resubmissions, crashes or closings. A crash
ends a thread without an answer, so `AuditSettles` and `UpgradeCompletes` claim
nothing after one.

## 6. Proofs

All for arbitrary constants under the assumptions the modules name: numbers of
guards, threads, processes, tables, actions, files, lines and bounds.

* **GuardLifecycle_proofs.** `TypeCorrect`. The approval row is a lock, which is
  what `LockInv` says: a thread in the writing steps holds its guard's approval
  and is alone in it; installed guards are approved; a thread past the digest
  check, a finished and a recorded execution belong to an installed guard.
  Without these, `ExecutionsApproved` is not inductive: the approval is read
  before the transaction that records the result. From `LockInv` follow
  `ExecutionsApprovedCorrect`, `InstalledMeansApprovedCorrect` and
  `GuardLifecycleImplementsPolicy` (initial states map to initial states, every
  step to a policy step or a stutter). The other four hold in every history, for
  any number of threads that preview, any store calls that raise and any crashes:
  each names the histories it excepts in its own statement, by a history variable
  that only the excepted event sets. `StatusReflectsDecisionCorrect` and
  `StatusIsReportedCorrect` except a guard that shows PREVIEWED again after
  previews overlapped (7.1). They rest on: without an overlap saves come first
  (`SavesAreFirst`) and a thread about to decide saw a preview
  (`DecidersSawPreview`); a thread about to record finished what it records
  (`RecordersFinished`). `ApprovalUsableCorrect` says who holds an approval: an
  installed guard, a thread that writes or compensates, or a guard abandoned by
  one, and that an abandoned guard stays alone (`AbandonedAlone`).
  `PreviewsCompleteCorrect`: a saving thread has saved every guard before its own
  (`SavesInOrder`), and nothing is decided or run without a row (`RowsPresent`).
* **IncidentBudget_proofs.** `CallInv`: slots that threads hold are at most
  `used`, differ from each other and were not called with. So every call has a
  slot of its own: `CallsChargedCorrect`, `CapHoldsCorrect`.
  `AuditKeepsIncidentCorrect` follows from referential integrity
  (`pinned \subseteq actions`, an audited incident has an owner).
  `BudgetOnlyTightensCorrect` is an action property.
* **AuditRun_proofs.** First, facts about every evidence graph: `BuildIsValid` (a
  built graph passes the validation of every later save and load, so
  `audit/graph.py` never ends an audit that the other checks let through),
  `GraphDeterminesRecords` (a graph is valid for one set of record ids: none can
  appear or vanish unnoticed) and `OneParent` (every record but the incident
  hangs below exactly one other). Then the runs. A step of a run changes that run
  alone, so the invariant is a predicate of one run: `RunInv`. `RunOK` says what
  the snapshot holds at each step (`Progress`), that its parts speak of its own
  invariants and COMPLETE of all of them (`Sound`), and that a run with a
  terminal row or answer has ended; `RowPinned`, that invariants keep to existing
  actions; `Undisturbed`, that without a resubmission memory, total and graph fit
  the incident; `NoEscape`, that then only an error of the store lets an
  exception out. `Progress` is needed because a stage overwrites one part of the
  snapshot and trusts the others; `Undisturbed` because the handler validates
  what it finds a second time. That this validation succeeds is `SoundIsValid`,
  by `BuildIsValid`. Hence every safety property of the run `audit_runs`, the
  action property `TerminalFinal` included, and `TypeCorrect`. Last, the reader.
  `GraphIsOwn`: a stored graph is of the records stored with it, and once there
  is one, only the status changes (`RowSteps`). `CopyInv`: of a run that was
  finished when its summary was read, every part read so far is the stored one; a
  graph that was read is the stored one. Hence `ReadsStandCorrect`; that the
  copied graph has the copied records is `NodesNameRecords`, that a finished run
  is readable is `SoundIsValid`'s argument again. `ReadsChangeNothing`: what is
  proved of `Spec` holds beside a reader.
  `AuditRunImplementsPolicy` is the refinement. A policy step needs the stored
  stage, and the code keeps its place in the thread: `AtStage` says, for each
  place, which statuses the row can have, and that past the retrieval the charged
  invariants are the searched ones. A crash is a stutter.
  `NoStepRepeats`: `Measure` counts the steps a run may still take, two for each
  round that is left; that a charged round is for an invariant no round before it
  searched (`RoundIsNew`) is what makes it fall. `OnlyEmptyAuditsMismatch` bounds
  finding 7.2: a run whose graph is no longer that of its incident audited no
  action (`AllOrNothing`).
* **StoreSchema_proofs.** `IInv` is four conjuncts: `Typed`; `Grown`, tables a
  process saw are there; `Versioned`, what the version can be by how far each
  process is; `OneCopies`, one process created the counters. Hence `TypeCorrect`,
  `ReadyIsCurrentCorrect`, `ForeignUntouchedCorrect` and `NeverDowngrades`: a slow
  process takes nothing back, and counters are written once, so those a newer
  server has charged meanwhile are not overwritten. `CallsCarriedOverCorrect` is
  about sums over a set of runs, which are folds. A fold is a recursive function
  on subsets; that it exists (`FoldExists`), and what it yields, is proved by
  taking a counterexample of least size instead of by induction, then the three
  folds of the migration are compared subset by subset (`FoldsAgree`).
  `OnlyCrashesBlockUpgrade` bounds finding 7.4: `Migrating` adds that, in a file as
  its release left it and without a crash, counters at version 1 belong to a
  process about to fill them.
  `OpeningDescends`: `Left` counts the statements a process may still execute.
* **GeneratedGuard_proofs.** Over `GuardedSpec`, the audit of an action with its
  guard. `IInv`: every result and every piece of evidence comes from a run of its
  check on some repository, on the present one if nobody changed it (`Traced`,
  `Cited`); each stage has its results (`Staged`); a guard is that of a gap
  (`Guarding`). `VerdictStandsOnFilesCorrect` is about an audit during which
  the repository stays (`Stable`), of any number of files, and follows from what
  each check says of the files it saw. For `AssessmentMonotoneCorrect` a file more changes each
  outcome in few ways; a table of the outcomes of both checks settles the rest.
  `GuardAddressesGapCorrect` holds however often the repository changes.
  `OnlyTestConstantsVerify` bounds finding 7.3: it happens to numbers only, by the
  value in a readable test file.
* **RepositoryIndex_proofs.** `IInv`: types, finiteness, `OneSnapshot` (the
  vectors are those of the last whole build, and the lexical index is a step
  ahead only before they are installed), `Accepting`
  (what waits to be read was text or broken when it was measured), `Quoting` (what
  was read is current while nobody changes the repository), `Answering` (what a
  search selected). Hence `TypeCorrect`, `IndexesAgreeCorrect` and
  `CandidatesCurrentCorrect`. `IngestionWholeCorrect` rests on an account that the
  walk and every read keep (`Accounted`, `Counted`, `Sized`): a listed name is yet
  to be walked, taken or denied, in one way only; a taken one waits to be read or
  was ingested, which moves no byte; and a text that was denied for want of room
  did not fit beside what was taken by then, hence not beside what is taken in the
  end, because bytes and files taken only grow. While nobody changes the
  repository what waits to be read is there, so no ingestion is aborted. `AgreementWinsCorrect` is arithmetic about
  quotients: two shares of rank 61 (`1/(60+61)` each) exceed one of rank 1
  (`1/61`), and at rank 62 no longer. The instance TLC checks is too small to
  meet that limit; the proof is what gives it.
* **Chunking_proofs.** `IInv`: the text is as `ast` can see it (`Documented`),
  types, what the chunk being filled holds (`Filling`), the bound (`Bounded`), and,
  of the pieces that are done, being cut or to do: they stay within their spans
  (`Within`), those of a document do not overlap (`Apart`), and together they
  cover the text and each symbol (`Whole`). That maximal ranges cover a set of
  lines uses the least element of a set of numbers, by the well-foundedness of
  `<`. Hence `TypeCorrect` and `ChunksFaithfulCorrect`; names are claimed where
  `uncounted` is empty. `ChunkingDescends`: `Rank` falls with every step, so no
  text makes a loop run without taking a span or a line.
* **Dashboard_proofs.** `IInv`: types; that late requests and the awaited one are
  well formed (`LateOK`, `CallOK`); that a request that is writing an artifact
  holds its guard's approval and is alone in it (`WritersOK`); per guard, that the stored status, the card,
  the list in an answer and the value in an answer are backed by the decision row
  and the results (`Stored`, `Card`, `Listed`, `AnswerOK`); and that a card agrees
  with the row unless a change is in flight or the guard is stale (`Fresh`).
  Hence `TypeCorrect`, `ScreenIsOneRunCorrect`, `ShownDecisionStandsCorrect` and
  `StaleOnlyAfterFailureCorrect`. `ActionAdvances`: an action makes at most four
  requests, and every end of a request brings it on.

The `TypeOK` of `GuardLifecycle`, `IncidentBudget`, `AuditRun`, `StoreSchema`,
`RepositoryIndex`, `Chunking` and `Dashboard` is proved and therefore not checked
by a run again.

So every safety property and every action property of a passing run is proved,
and both refinements. Only model-checked: liveness (`AuditSettles`,
`UpgradeCompletes`, `ChunkingEnds`, `ActionSettles`), because it rests on
fairness and `ENABLED`, which are beyond the prover. Of each, the part that needs
neither is proved: a number that every step of the audit, the opening, the
chunking or the action lowers, and that nobody else raises (`NoStepRepeats`,
`OpeningDescends`, `ChunkingDescends`, `ActionAdvances`). What is left to TLC is
that a thread that has not ended has a step to take, and takes it. The properties
of the four runs of section 7 do not hold; theorems say how far they fail (for 7.1
`StatusReflectsDecisionCorrect`: only after previews overlapped).

## 7. Findings

1. *Overlapping previews undo a decision* (`guard_overlap_reset`). Two preview
   requests both find no guards; the first saves and is decided; the second saves
   the same guard again, which puts its status back to PREVIEWED while the
   decision row stays. The guard can neither be decided nor executed.
   `storage.py` 695 calls a preview immutable and 743 a decision.
2. *A run of an incident without actions becomes unreadable*
   (`audit_empty_incident`). Between the two saves of `IncidentService.create` an
   audit may complete with a graph of the incident alone; when the actions
   arrive, every load of the run raises.
3. *A constant in a test makes a number VERIFIED* (`verdict_test_constant`).
   `_configuration_values` reads test files as well.
4. *A crash in the 1 to 2 migration is final* (`schema_crash`). The table is
   created outside the transaction and without `IF NOT EXISTS`.

Observed, without a run of their own:

* An approval whose server crashed before the file was written, or whose failed
  write could not be compensated because the store raised as well, stays without
  a file (`ApprovalUsable` says that nothing else leads there); a preview loop cut
  off by a crash or by a save that raised hides the guards it had not saved
  (`PreviewsComplete`); a run cut off by a crash stays in its stage;
  `_create_schema` interrupted by a crash leaves a file every start rejects.
* A document that vanishes between the walk and its conversion aborts the whole
  ingestion: the path of a PDF, DOCX or PPTX is resolved again outside the
  adapter's `try` (`rag/ingestion.py` 205), and the `PathSafetyError` it raises is
  a `ValueError`, which line 265 does not catch. `src/docs/ARCHITECTURE.md` 210
  says that a failed conversion is recorded without aborting the remaining index.
  `IngestionWhole` says that this needs a change of the repository.
* A file of another program whose `user_version` happens to be 1 or 2 is migrated
  before its tables are checked (`storage.py` 110-138), so it gains tables and a
  version before the start fails; `ForeignUntouched` does not speak of it.
* A page may list a guard as WRITTEN whose approval a failed write then takes back
  (`ShownDecisionStands` exempts that card and no other).
* Two first requests for different projects may move an unaudited incident. A
  lowered `max_model_calls` makes an audit request fail before its try block, and
  an incident that changes before a run's first save makes the handler fail too
  (`SafeFailure` states these exceptions).
* A number whose subject no key family names, and a python file that is not
  UTF-8, end as MISSING although `src/docs/DECISIONS.md` 58 says that unknown
  context must not be collapsed into missing.
* A generated guard may fail on a repository whose check passes or pass on one
  whose check fails: a term that only an import contains is no call,
  `pytest.raises` is no `Assert`, files named `..._test.py` are not read by a
  test guard, and python constants are no facts of a configuration guard.
* A chunk exceeds `max_chars` by one after an empty line, or by all of a line
  that is too long by itself (`Bounded` states both). A form feed or U+2028
  inside a python file shifts the symbols of what follows.
* A chunk behind place 61 of either ranking may lose to the top of one
  (`AgreementWins` states the limit).
* An answer with status 200 whose body is lost is read as `{}`: a decision is
  recorded and the card stays as it was without an error; any other answer
  cannot be rendered and the page disappears until it is loaded anew.

## 8. Not modelled

* Text: the compiler's patterns, the provider's sentence splitting, redaction,
  rationale, labels and names. The models keep what the outcome depends on, and
  where a comparison of texts decides, every outcome it can have.
* The guard subprocess: an execution has one of the four results.
  `validate_preview` compares the preview with the template it was rendered
  from, so in the lifecycle it passes.
* Path boundaries: a name the walker refuses is one kind of file.
* Reads of single rows. `GET` routes change nothing. `SnapshotReader` models the
  read of a whole run, without its events and its incident's counter, which no
  other part is compared with. Workflow events are history for a reader; no step
  depends on them.
* The end of the process (`main.py` 51): the store closes while requests of the
  thread pool may still run. To such a request it is an error of the database,
  which `AuditRun` has as `Fault` and the guards as a refused request.
* `STATIC_PATTERN`, which the compiler never emits; the investigation tools,
  read-only helpers that no route or node calls; the pilot, a sequential script
  that maps a finished run to a report and an exit code; the evaluation, which
  scores runs over benchmark cases; the cases themselves, which are data.

## 9. Plan

Order: the components that decide what runs and what is charged first, then the
audit, then what it reads, then what it shows.

| | Modules | State |
|---|---|---|
| 1 | `GuardPolicy`, `GuardLifecycle`, `GuardLifecycle_proofs` | done; every property proved |
| 2 | `IncidentBudget`, `IncidentBudget_proofs` | done; every property proved |
| 3 | `EvidenceGraph`, `AuditPolicy`, `AuditRun`, `AuditRun_proofs` | done; every safety property and the refinement proved |
| 4 | `StoreSchema`, `StoreSchema_proofs` | done; every safety property proved |
| 5 | `ActionAssessment`, `GeneratedGuard`, `GeneratedGuard_proofs` | done; every property proved |
| 6 | `RepositoryIndex`, `RepositoryIndex_proofs` | done; every property proved |
| 7 | `Chunking`, `Chunking_proofs` | done; every safety property proved |
| 8 | `Dashboard`, `Dashboard_proofs` | done; every safety property proved |
| 9 | `SnapshotReader`, proofs in `AuditRun_proofs` | done; proved |
| 10 | theorems that no thread short of its end is stuck, with its guards written out | open: with the measures, all of liveness but fairness |
| 11 | the pilot and the evaluation | open: exit codes and scores against verdicts, as operators over bounded inputs |
