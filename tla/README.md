# Verification of cidef-data-loader

TLA+ models of the program under `src/`, checked with TLC on small instances and proved with TLAPS
for every instance. The program is a commercial-data backend: it imports spreadsheets into
PostgreSQL (Neon), refreshes canonical tables from them, answers analytical questions over those
tables, and drives a *decision protocol* that decides which evidence a question needs, asks the
user to select it, executes the capability that produces it, and closes when the evidence is
sufficient. Its concurrency is that of serverless handlers: no process outlives a request, so
whatever two requests share is either a value the client sends back (protocol state, tokens) or
rows of the database.

## 1. Inventory

### Decision protocol (`lib/protocol`)

A protocol is one immutable, hashed value, `protocol_state.v1`. Every operation takes a state and
returns its successor with `state_version + 1`, or throws. The caller keeps the state and,
beside it, an evidence ledger, the execution attempts made so far, evaluations it has not applied
yet and the lifecycle of each record.

| Part | State it owns | Operations | What is hard | What makes it correct |
|---|---|---|---|---|
| runtime (`runtime/`) | goals, initial menu, actions on offer, objective, budget, open obligations | `initializeProtocol`, `selectAction`, `validateProtocolState` | commands arrive late, twice, or for an older menu | a selection is taken once and paid once; only what is on offer can be taken; no handler builds a state its own validation rejects |
| planning (`planning/`) | physical authorizations | `evaluateApplicability`, `authorizeExecution` | the command must match the version it was made from | one authorization for each selected goal, none without a selection |
| execution (`execution/`) | ledger, attempts | `executeAuthorizedMotor`, `evaluateEvidenceAdmission`, `executeAndAdmitEvidence` | retries, timeouts, rejected evidence, overlapping calls | nothing runs after a success or a final failure; evidence enters once, from the success |
| sufficiency (`sufficiency/`) | evaluations, closure evaluations | `evaluateGoalSufficiencyV2`, `applySufficiencyEvaluation`, `evaluateProtocolClosure`, `applyProtocolClosure` | evaluation and application are separate calls; evidence ages between them; what blocks closure is an argument | a goal is satisfied only by evidence that proves it; COMPLETE has no work left and is final |
| investigation (`investigation/`) | signals, candidates, activations, assessment | `assessBroadCandidateViability`, `assessInvestigationFixedPoint`, `selectTransitionAction` | a fixed point with caps, early return and candidates handed back by the caller | what is offered still leads somewhere; one goal at a time; offers are not lost |
| synthesis (`sufficiency/synthesis.js`) | none | packet from a COMPLETE state | expects exactly one evaluation a blocking goal | refuses what is not complete |
| grounding (`grounding/`) | question draft, clarification requests, consumed fingerprints (kept by the caller) | `groundQuestion`, `issueClarification`, `applyClarification` | expiry racing the answer, answers repeated or for an older draft, a harness that forgets on restart, fields nobody asks about | every accepted answer is the first to its request and settles its field; a draft with nothing open makes a contract, and that contract is final |
| resolution (`resolution/`) | none | `resolveUniverse`, availability | — | pure lookup |

The parts call one another only through the state: selection writes the objective, authorization
reads it and writes the authorization, execution reads both and writes evidence, sufficiency reads
the evidence and satisfies the goal, investigation reads satisfied goals and writes candidates,
which selection consumes; closure reads everything.

### Data pipelines

| Part | State | Operations | What is hard | What makes it correct |
|---|---|---|---|---|
| table snapshots and importers (`lib/neon.js`, `lib/motors/import-*.js`, `lib/inventory-sync.js`, the cleaning modules) | raw tables, staging tables | begin / append / clean / commit / abort; inventory merge | each SQL statement commits on its own; retries of inserts; two importers of one table; a crash between two statements | a table is never lost or half replaced, no row is loaded twice |
| RVM import (`lib/rvm-cleaner.js`, `import-rvm.js`, `import-rvm-preliminary.js`) | `rvm_raw`, one staging for all requests | look, stage, clean, copy; count, delete and insert a preliminary month | requests share a staging by its fixed name; BEGIN and COMMIT hold no transaction; preliminary months are replaced | a document that counts as loaded is whole; a chunk that ran alone is there once |
| canonical refresh (`refresh-vehiculo-canonico-v01.js`, `vehiculo-salida-v01.js`) | `vehiculo_canonico` | preflight, base upsert and delete, exit resolution, resolution status, audit | seven statements of overlapping refreshes, stops, raw tables dropped and renamed in between | a success has rebuilt every row from the raw tables; the exit columns agree in every row |
| price lists (`import-lista-precios.js`, `price-episode-canonicalizer-v01.js`, `pricing-history-v01.js`) | `price_import_staging`, `price_versions`, `price_history`, episodes and their vehicles | import, resume, canonicalize, report | a failed run is resumed, perhaps twice; versions and history are read apart; identifiers start again at each publication | nothing staged is forgotten; episodes tile time; a report counts a vehicle inside its episode |
| commercial operations (`import-forum.js`, `import-crm-cidef.js`, `forum-canonicalizer-v01.js`, the Forum/CRM bridge, `commercial-operation-master-v01.js`) | `forum_raw`, `CRM_Cidef_raw`, aliases, canonical operations, bridge, master | imports that go on to the bridge, the canonicalizer and the master | upsert then delete by stamp; exports replayed in the order of their names; identifiers counted from a MAX read before | a refresh that ran alone leaves what its sources say; overlap erases nothing unnoticed |
| weekly projections (`api/weekly-projections`, `lib/weekly-projections`, the page that sends them) | `weekly_sales_projection` | POST, PATCH, DELETE | read, validate and write are separate statements; lines are sent again | an opportunity is projected once; what was suggested did resolve; what is deleted stays deleted |
| dashboard (`lib/dashboard`) | one materialized payload a date | materialize, read | reads many tables while imports run | the stored payload belongs to one cut |
| masters (`lib/master`, `refresh-*` motors) | alias and model tables | delete and insert, upsert | partial failure | idempotence |

### Questions and analytics

| Part | State | Operations | What is hard | What makes it correct |
|---|---|---|---|---|
| agent pipeline (`lib/resolve`, `lib/decide`, `lib/analyze`, `lib/custom-gpt`) | sealed tokens the client holds | resolve, execute one investigation, continue | tokens are replayed and crossed, and carry all progress | progress was earned by the plan it is counted for; an answer compares like with like |
| sales (`lib/ventas*`, contribution, concentration, the `ventas-*` motors) | none | recognition, audits, universes, explanations of change | repeated, tied and undated rows; commercial against calendar months; masters with open dates; several reads a report | five implementations of one rule agree; every decomposition adds up |
| forecasts and deterioration (`daily-close-*`, `predictability-day`, `current-month-forecast`, `expectation`, `deterioration`) | none | live forecasts, backtests, signals | a resale moves a unit from one month, day or store to another; gaps; baselines of another time | nothing dated after the day is used; an unknown month is not a zero |
| market (`competitive-*`, `rvm-universe`) | none | context, trajectory, signals, relation, movements, transfer, growth | several queries beside imports; ties and missing months; identities that meet | shares, gains and losses reconcile; a month to date is of one file |
| OLAP, longitudinal series | none | one query each | — | — |
| routing (`api/router.js`, `lib/custom-gpt-router.js`, `lib/public-motors.js`) | none | dispatch | — | — |

The parts meet in the tables. Importers write the raw tables that the canonical refresh and the
analytics read, with no lock and no shared version; the recognition of a sale decides what every
sales report counts; the certified store of a vehicle, which the canonical refresh writes, decides
whom a sale is credited to. The capabilities the decision protocol executes are queries over those
tables; the protocol sees them only as motors that answer, fail or time out.

## 2. Plan

The modules, in the order in which they were written; those of the first block are the core.

| Modules | What they add | Composed with |
|---|---|---|
| `ProtocolRuntime`, `EvidenceLifecycle` | the state machine, its caller, the abstract specification it implements | one another, by refinement |
| `TableSnapshots` | statements that commit alone, lost answers, retries, stops, overlap | — |
| `Clarification` | drafts, requests, expiry, late and repeated answers, restarts | — |
| `ExitResolution`, `CanonicalRefresh` | the exit of one vehicle as a function; its table rebuilt statement by statement | imports as environment |
| `RvmImport` | the shared staging and the preliminary month | `MarketReports` reads it query by query |
| `WeeklyProjections` | editors, retries and masters that change | — |
| `DecisionPlan`, `AgentPlan` | the plan of a question; tokens brought back in any combination | one another |
| `PriceEpisodes`, `PriceImport`, `PriceLists` | import, publication and report of price lists | one another |
| `OperationIdentity`, `CommercialOperations` | what one operation is; the motors that keep its tables | one another |
| `SalesRecognition`, `SalesAudits`, `SalesUniverse`, `SalesContribution`, `SalesForecast`, `SalesDeterioration`, `SalesReports` | the sales engines as operators; reports that read table by table | one another |
| `MarketShares`, `MarketTransfers`, `MarketGrowth`, `MarketReports` | the competitive engines as operators; reports drawn beside the RVM import | `RvmImport` |

What remains worth doing, in this order: a refinement of `TableSnapshots` into *a table is a
sequence of whole files*; the overlap of two executions of one authorization of the protocol, should
a caller ever do it; the summary of the projections (`admin.js`); the dashboard.

## 3. The modules and the code

### `ProtocolRuntime`

One protocol and its caller. `protocolVars` are the fields of `protocol_state.v1`
(`runtime/contracts.js`), `callerVars` what the caller keeps and hands back.

| Variable | Code |
|---|---|
| `version`, `status` | `state_version`, `status`; `terminal.status` is TERMINAL exactly when the status is COMPLETE |
| `goals` | `goals[]`; ABSENT for a goal not yet created |
| `menu`, `actions`, `candidates` | `initial_goal_candidates`, `actions`, `candidate_goal_refs` |
| `objective` | `pending_execution_objective` and the selected action it names |
| `open`, `authorized`, `consumed`, `used`, `proofs` | `open_obligations`, goals with a `physical_authorization_ref`, `consumed_action_fingerprints`, `budget.semantic_selections_used`, `sufficiency_evaluation_refs` |
| `signals`, `activations`, `assessment` | `typed_signal_refs`, `transition_activation_refs`, the investigation assessment |
| `ledger`, `attempts` | evidence ledger and `previousAttempts`; `admitted_evidence_refs` names the same records |
| `stale` | records the evidence lifecycle does not report CURRENT |
| `offered`, `evaluations`, `closures` | actions shown to a client, evaluations and closure evaluations computed and perhaps not applied yet |

| Action | Code |
|---|---|
| `SelectAction`, `SelectTransitionAction` | `selectAction`, `selectTransitionAction`, for any action ever offered |
| `AuthorizeExecution` | `authorizeExecution`, for any action ever consumed |
| `ExecuteAndAdmitEvidence` | `executeAndAdmitEvidence` with its three outcomes: the motor fails, the evidence is rejected, the evidence is admitted |
| `EvidenceAges` | external: the lifecycle the caller passes |
| `EvaluateSufficiency`, `ApplySufficiencyEvaluation` | the two calls of sufficiency |
| `EvaluateProtocolClosure`, `ApplyProtocolClosure` | the two calls of closure |
| `AssessBroadCandidateViability`, `AssessInvestigationFixedPoint` | `investigation/runtime.js` |

A handler that throws changes nothing, so what it checks of its inputs is the guard of its action.
The check of the state it has just built is *not* a guard: `ValidState` says that it never fails.
Goals of a protocol share one semantic binding, so a goal is identified by its type and evidence
class, an action by its kind, goal, candidate and the version it was issued at. Hashes and
fingerprints are the values they are computed from. Whether a record's claims prove its goal is one
bit (`proof`), the 25 admission predicates are one verdict, and which capability is applicable is
the constant `Applicable`.

`HonestCaller` is the caller's behaviour. TRUE: it passes to the closure what the state says about
active executions and blocking selections, and returns the candidates the state holds. FALSE: it
takes the defaults, omits candidates, or brings back any candidate that was ever activated.

### `EvidenceLifecycle`

What the protocol promises, with neither version nor command: each goal goes *unasked, asked,
authorized, evidenced, proven*, one goal is in progress at a time, and *closed* is final and
requires every blocking goal that was asked to be proven. `ProtocolRuntime` implements it under the
mapping `Stage` and `closed <- status = "COMPLETE"`; ageing, failures, offers, assessments and
repeated closures are stuttering steps.

### `TableSnapshots`

The importers of one table, each request an element of `Imports`. `pc` is the statement the request
is about to send; `live` and `staging` are tables, a table a set of physical rows, each of which
remembers the insertion that put it there (so that a repeated insertion gives two rows). `Strategy`
selects the importer: REPLACE for `import-estadisticas-venta.js` and `import-notas-venta.js`, DEDUP
for `import-vehiculos.js`, MERGE for `import-inventario.js`.

| Action | Code |
|---|---|
| `Begin` | the download and `beginTableSnapshot`, whose failure is outside the importer's `try` |
| `InsertBatch`, `InsertFails`, `Loaded` | `insertRows` under `runWithRetry`: three attempts, each of which may insert and fail |
| `Clean`, `CleanFails` | `cleanVehicleSource`, `cleanInventoryTable` |
| `DropLive`, `DropFails`, `RenameStaging`, `RenameRefused`, `RenameFails` | the two statements of `commitTableSnapshot` |
| `UpdateLive`, `InsertReads`, `InsertWrites`, `MergeFails` | `mergeInventoryStaging`; the INSERT reads when it begins and writes when it ends, as READ COMMITTED allows |
| `AbortTableSnapshot` | `abortTableSnapshot`, which swallows its own failure |
| `Stop` | external: the platform stops the function |

Each batch stands for its rows (one statement inserts them all); rows that the cleaning removes for
other reasons than repetition, columns and dates are left out. A statement that has failed is not
carried out later: the model has no request that reaches the database after the request that
follows it. Two stagings are assumed to have different names; a CREATE TABLE of a name that exists
fails as any other.

### `Clarification`

One question and its caller.

| Variable | Code |
|---|---|
| `draft` | the `QuestionDraft` the caller holds: `field` maps each path to its status, value and provenance, `clash` says whether the explicit constraints contradict one another, `issues` are `unresolved_material_fields`, `refs` are `clarification_refs` |
| `requests` | every `ClarificationRequest` issued so far |
| `consumed` | `InMemoryClarificationHarness.#consumed` |
| `version`, `clock` | the version of the protocol state a request is bound to, and the time |
| `contract` | the draft the `QuestionContract` was made of |

| Action | Code |
|---|---|
| `Init` | `groundQuestion` for any question of `Asked`: `CreateGroundedQuestionDraft` merges the lexical and the external candidates, infers scope, comparison and grain, carries over a prior contract and defers what a broad question leaves open |
| `IssueClarification` | `finalizeQuestionContract` when something is open: a request for the first issue |
| `FinalizeQuestionContract` | the same call when nothing is, with the checks of `createQuestionContract` |
| `Answer` | `InMemoryClarificationHarness.apply` over `applyClarification`, for any request ever issued, by an option (`SelectOption`) or by the patch of a grounder (`GroundFreeText`, external: any field of `FreeText` on the path of the request) |
| `Restart`, `AdvanceState`, `Tick` | external: the memory of the harness is lost, the protocol state moves on, time passes |

An answer in flight needs no variable: every request ever issued may be answered at every moment,
with each choice, so late, repeated and crossed answers are behaviours of `Answer`. A request holds
the draft it was issued for, in place of its hash. `OTHER` stands for every value the grounding does
not tell apart; texts, labels, calendar arithmetic and evidence references are left out. The
explicit constraints are reduced to whether they contradict each other, because no patch can name
them. `ContractIsValid` has the checks that an answered draft could fail.

### `ExitResolution` and `CanonicalRefresh`

`ExitResolution` translates the common table expressions of `vehiculo-salida-v01.js`, one operator
each, applied to one vehicle: `Exact`, `SameDate`, `CompatibleNotes` and `CurrentSale` find its
sale, `CommentDealers` the dealers its notes mention, `Resolution` and `Exit` the six columns
written. Which dealers a text mentions, or a buyer's name is an alias of, is an input.

`CanonicalRefresh` has the seven statements of `refreshVehiculoCanonicoV01` as actions of each
request (`Preflight`, `BaseRefresh`, `Preview`, `ReadResolution` and `WriteResolution` for the two
halves of the UPDATE, `CheckExit`, `EnsureResolutionStatus`, `PostAudit`), `Stop`, and `Import`,
which drops or renames a raw table. A writing statement whose answer is lost is carried out again
(`Answered`). `resolved` is what an UPDATE has read and not written: rows it has read and another
deletes are lost to it. `epoch`, `since` and `spoiled` are history: a request is *undisturbed* while
no import came and no request of other tables wrote after its preflight.

### `RvmImport`

`final` is `rvm_raw`, a row of which remembers the document it is filed under, the one it came from
and the request that put it there; `stage` is the one staging table of all requests; `statement` is
what each request is about to send. Whole imports and chunks go through `Look`, `DropStage`,
`CreateStage`, `PassRow` (a row that is read and is out of the range), `AppendStage`,
`NormalizeAndAppend` and `CleanStage`; preliminary loads through `EnsureSchema`,
`CountConsolidated`, `DeletePreliminary`, `InsertMonthBatch`, `CountLoaded` and `CompareRest`. Rows
of a preliminary file are counted in batches: of two loads of one file the rows agree exactly when
the batches do, a shorter last batch included. The checks after the load are the code's: the number
of rows and one `snapshot_date` (`SnapshotDate`, the last date in the file), and the number and
quantity of the month's consolidated rows (`MonthRows`, `QuantityOf`); none of them says which file a
row comes from. All preliminary files are of one month. The register begins with any documents that earlier imports filed whole. `Unanswered` is a statement carried out whose answer is lost:
nothing is retried here. `lib/rvm-state.js` is imported by nothing and is not modelled.

### `WeeklyProjections`

`ReadCurrent`, `ValidateDimensions`, `FindOpen`, `FindCompatible` and the three writes are the
statements of a POST, PATCH or DELETE; `Change` is the environment editing the roster, the portfolio
or the CRM table between any two of them; `Ask` and `SaveLine` are the page, which keeps a line
until it is answered. `Resolves` is the matching of `crm.js`: open tickets of the branch, names
whose tokens determine one seller, and the longest model named. Names are sets of tokens.

### `DecisionPlan` and `AgentPlan`

`DecisionPlan` has, as operators, what a question defaults to and allows
(`resolveSemanticParse.js`), its investigations (`decideIntent.js`), the execution of each
(`executionRegistry.js`) and what can be projected from it. `AgentPlan` adds the client: resolutions
and continuations are sealed tokens, brought back in any combination until they expire (`Analyze`,
`Continue`). A step executes one investigation, with any outcome.

### `PriceEpisodes`, `PriceImport`, `PriceLists`

`PriceImport` has the statements of `import-lista-precios.js`, run and resumption. Which fields a
record is required to have depends on whether its sheet, its name or its fuel is electric
(`RequiredFingerprintFields`); the sheet is not in the key of a version, which keeps that of its first
record. The status of a version is the last writer's: of the record alone in a run, of the records
merged in a resumption. `PriceEpisodes` has
the canonicalizer's algorithm (points, episodes, conflicts, assignment of vehicles) and the
projection of the report; `PriceLists` composes both with canonicalizations, which read versions and
history in two statements and publish in one, and reports, which read episodes and vehicles in two.

### `OperationIdentity` and `CommercialOperations`

`OperationIdentity` says which names are one seller (names are sequences of tokens), which deal a
Forum operation belongs to and which rows the master has. `CommercialOperations` has the requests:
Forum and CRM imports, the seeding of aliases, the canonicalizer, the bridge and the master, a
statement or a batch at a time. Consecutive statements that only read are one step. The check that
aliases are of own stores cannot fail, since only own stores are seeded; Forum's final states, dates
of delivery, brand and model are left out; the link of a deal to a VIN is a constant function.

### The sales modules

`SalesRecognition` is the rule: a VIN is sold once, by its last dated row, unless a row of it is
undated; a row without VIN is a sale; months are commercial, from the second day of a month to the
first of the next. `SalesAudits` has the four motors that classify the VINs again, each with its own
code, over calendar months. `SalesUniverse` attributes a sale to channel, store, seller and product.
`SalesContribution` explains the change between two months by store, seller and model.
`SalesForecast` has the daily snapshots, their backtest, the learned completion, the live forecast
and the expected month. `SalesDeterioration` has the cutoff snapshots, baselines, signals,
persistence and notes. `SalesReports` composes them: a report reads `ventas_raw`,
`vehiculo_canonico`, the masters and the SKU evidence each at its own moment (`ReadSales`,
`ReadCanonical`, `ReadMasters`, `ReadEvidence`), `Compute`s and `Deliver`s; `ImportSales`,
`RefreshCanonical` and `EditMasters` come in between.

Days are numbers and months have one length; times of day are left out, so two rows of one day are
a tie; a brand stands for brand and description; a store has one channel; the four master queries
are one read (the masters are arbitrary). Forecasts and signals read their tables in one step: every
pair of readings is the table of some initial state. Quotients are exact fractions; percentages and
formatting are left out, and the two error metrics, which order candidates alike, are one. The three
months of level of `adjusted_last_year` are taken from the window of the baseline.

### The market modules

`MarketShares` resolves the identity of registrations, the peers of the targets, monthly shares, the
features of pairs, relations and inverse movements; `MarketTransfers` who lost the share a subject
gained, by month, quarter, year, rolling year or month to date; `MarketGrowth` the growth of the
company's sales beside the market's. `MarketReports` composes them with `RvmImport`: each report is
asked for once and its queries (`Find`) are answered with the register as it is at that moment,
between the statements of the imports. Names, ranks, geography, means, deviations, growth
percentages and rankings, and versions in the historical rules are left out; ties that the code ends
by a text key are ended by an arbitrary chosen order; months have one length. The company's sales in
`MarketGrowth` are arbitrary; they are not those of `SalesReports`.

### The MC modules

Values of the constants. The protocol's instance follows the registered rules: one observed result,
which opens a change and a risk (CONDITIONAL) and an extra (SUPPLEMENTAL), and a trajectory as the
second entry of a BROAD menu. The importers' instance has two imports and two files, one of which
repeats a vehicle and lacks the others. The questions of `MCClarification` are those of the golden
corpus (`lib/protocol/grounding/fixtures/goldenCorpus.js`): fifteen asked alone, the questions of
context without a recognized intent among them (G08, G09, G12), four asked after the contract of G02
or of G01, three readings an external candidate may add, and one that contradicts itself. Left out are
G10 and G20, which ground as G09 does, G16 and G17, as G15, and G11 and G13, which leave open nothing
that G12 does not. The instances of the later
modules are described at the head of each: `MCCanonicalRefresh` (two vehicles, four vehicle files,
seven pairs of sales tables, one for each way a sale is found and its dealer named), `MCRvmImport`
(ten sets of requests, and four histories of registrations), `MCWeeklyProjections` (two sellers who
share tokens, two models one named inside the other, one opportunity), `MCAgentPlan` (every kind of
question over three periods), `MCPriceLists` (every history of up to three rows, and lists that
agree, complete one another, clash, or name one version in two sheets or with two fuels), `MCCommercialOperations` (two operations of one client with
one deal or two), `MCSalesReports` (35 tables of up to twelve rows, each awkward row there or not).

## 4. What the runs show

| Run | Question | Answer |
|---|---|---|
| `protocol` | Can late, repeated or interleaved calls of an honest caller spend twice, execute after a success, satisfy without proof, move a closed protocol, close over active work? Does a selection always come to an end? | No, and every step is a step of `EvidenceLifecycle`; yes: COMPLETE, the user's turn, or one of seven named stops. |
| `careless` | Can a caller that declares nothing and returns old candidates make a handler build a state its own validation rejects, offer what cannot be taken, or pursue two goals? | No. |
| `snapshots_vehicles` | Can overlap, retries, failures and stops leave a partial or mixed table, repeat a VIN, or lose the table without a fault? | No. |
| `inventory_merge` | Does a merge that answers success put its whole file in the table, and repeat or forget no VIN? | Yes, when merges do not overlap. |
| `clarification` | Can requests repeated at other times and versions, answered late, twice, with other choices or after a restart, count twice, undo what a person settled, change a finalized question, or leave a draft with nothing open and no contract? Does a question whose person keeps answering become a contract? | No, but for a draft without a breadth: a question without a recognized intent, asked alone, has none and never becomes a contract. Yes, of a question that has one and does not contradict itself. |
| `canonical_refresh` | Does a success mean that every row is what the raw tables say, whatever stopped requests left and overlapping ones do? What stops a refresh that passed its preflight? Can a reader see a row that contradicts itself? | Yes; only a sale whose rows name two own branches; no. |
| `rvm_import` | Is a document that counts as loaded whole, a chunk there once, a preliminary load whose checks pass the whole file? Does every competitive report drawn beside the imports add up? | Yes, of documents and chunks imported alone, and of two loads that cross if the dates of their files tell them apart; yes. |
| `weekly_projections` | Can retries and crossed edits project an opportunity twice, store the link of one request with the seller of another, or bring back what was deleted? | No. |
| `agent_plan` | Can replayed or crossed tokens count progress of another plan, an answer mix periods or universes, or /analyze refuse what /resolve called ready? | No, but for the expectation of a closed period. |
| `price_lists` | Can a resumed or overlapping import forget a staged record or what is known of a version, or call one complete that lacks what its records require? Do published episodes tile time, and reports of mixed publications count outside an episode? Has a canonicalization that succeeds alone published all there was? | No; no, if the records agree on whether it is electric, and otherwise not what some record requires; they do, and no; yes. |
| `commercial_operations` | Does a refresh that ran alone leave every table exactly what its sources say, after whatever others left? Can overlap erase rows unnoticed? Does the last export win? | Yes; no; yes. |
| `sales_reports` | Do the four audits agree with the rule and one another? Does every universe and change add up? Are sellers credited where they worked? Do forecasts and signals use only what was known? Does what was recognized at a cutoff stay? | Yes to each. |

### Observations

Behaviours of the code met while modelling. What the repository says of most of them is weaker than
a claim, so no run is kept for them; those that touch a property are named in its comment.

Decision protocol:

- `evaluateProtocolClosure` takes what blocks closure as arguments whose defaults say that nothing
  does; the README of the target protocol (line 159) speaks of the state;
- of two CONDITIONAL candidates on offer, selecting one forgets the other
  (`investigation/runtime.js:43` skips a candidate as soon as a goal has its evidence class);
- evidence that ages between its evaluation and the application still satisfies the goal;
- a satisfied SUPPLEMENTAL goal whose evaluation is passed as well makes the synthesis throw;
- a question without a recognized intent, asked with no contract before it (G08 to G13 and G20 of the
  corpus), is never asked for its breadth: once all that is asked has been answered,
  `createQuestionContract` throws; a contradiction is asked about (`clarification.js:64`) and every answer to it refused;
- an answer in free text is accepted by a request that says `allow_free_text: false`; every option
  of the universe sets the organization CIDEF.

Importers:

- a failed RENAME after the DROP (`neon.js:97`) leaves no table; a retried insertion repeats rows
  (`neon.js:49`); two merges of the inventory that overlap insert one VIN twice; an import that
  downloaded an older file may commit after a newer one; stopped imports leave staging tables;
- RVM: a document of which one range is loaded counts as loaded; consolidated rows loaded before
  `data_status` existed wait for it; two preliminary loads that cross, of different files with one
  last day and as many rows, can pass every check over a mixture of both (one deletes and inserts its
  first batch, the other deletes that and inserts, the first adds its last); three can with one file
  (the third deletes between the batches of the other two);
- canonical refresh: the audit compares with `<>`, which is not true of a NULL status;
- price lists: a version is called complete by what its last record requires, so one stored from an
  electric sheet and written again from another may lack its traction; a run and its resumption
  flag different conflicts; a run resumed from a partial
  staging answers complete; a corrected list under the same file name is ignored by DO NOTHING; an
  older canonicalization may publish after a newer; the INSERT of a new version, sent again after a
  lost answer, fails the run;
- commercial operations: each CRM import replays old exports; overlapping refreshes of the master
  may empty it, loudly; a homonym is known by a name alone; two links of one deal make every
  refresh fail; the validation recounts the sources, not the table;
- weekly projections: of two editors the last wins.

Agent pipeline: an EXPECTATION over a closed period is called ready and refused by /analyze;
CURRENT_MTD with SAME_CUTOFF_YOY is never COMPLETE; PREVIOUS_PERIOD with CURRENT_MTD compares a
part of a month with a whole one; STORE_CHANGE_CONTRIBUTION ignores the universe and the entity
(`executionRegistry.js:47-50`).

Sales:

- `loadSkuEvidence` reads all of `ventas_raw`, whatever the cutoff, while
  product-change-contribution reports `no_post_cutoff_evidence_used`;
- the evidence engine's `cross_partition_ok` is false when an unresolved VIN lies wholly outside the
  window; `cross_month_vins` uses calendar months beside commercial ones; a VIN excluded without
  cutoff may be recognized with one; the identity coverage SQL reads fewer date formats than
  `parseFechaFactura`;
- four input parsers accept, on day 1, the previous calendar month, whose commercial month is open;
  `buildVentasOrganizationalContext` labels a cutoff by its calendar month; `findTrainingStartMonth`
  and the forecast of the daily close use calendar months and days beside commercial ones;
- a resale at another store makes what was observed exceed the close: a learned completion above 1;
- the expected-monthly backtest takes prior months as later resales have left them, the daily-close
  backtest as they were; `test/daily-close-forecast.test.js` expects a status `ok` that
  `validateBacktestObservations.js:29-30` makes impossible;
- the roster of the live forecast is read apart from the identity maps;
- sales notes count in calendar months, sales in commercial ones; three `validation` flags of
  `buildOrgSalesDeteriorationBacktest.js:44-47` are constants (the run checks what they say); a
  store's notes enter its history only once it has sold.

Market:

- context and trajectory read `rvm_raw` without `data_status`: a preliminary month and the
  consolidated document that follows it are both counted until the next preliminary load;
- a repeated `entity_key` overwrites units (`assembleMonthlyRows.js:59-60`) and no validation
  compares the months with the context, which is another query;
- a load between the inventory of snapshots and the rows gives a partial month to date;
- two flags of `validateBacktest.js:66,71` are constants (the run checks what they say); the first
  and the last month of a trajectory may be partial;
- on day 1 the growth to date compares a commercial month of sales with one day of registrations;
  first observed periods, and null against 0, depend on the window queried; twelve months to
  December and the calendar year differ by the sales of January 1.

### Bounds

Bounds of the protocol. `MaxSelections`, `MaxConditional`, `MaxDepth` and `MaxIterations` are the
code's own budget, small: two or three selections are a goal, the goal it opens and one more that
the budget refuses; depth 3 is over `MaxDepth`, so that a rule is cut. `MaxRetries` bounds retryable
failures of one authorization (after one, another only repeats the same state with a longer
history), `MaxReviews` reviews of the menu (two make the first one's actions obsolete), `MaxVersion`
only what repeats for ever (closures of a closed protocol, and assessments of a careless caller).
Every other growth is bounded by the goals. `protocol` uses one rule for each class (`OneOfEach`):
with two CONDITIONAL candidates the lost candidate of the list above also breaks
`NothingBlockingAtClose`. `careless` uses
`AllRules`.

Bounds of the importers. Two imports are enough for every order of two commits or two merges; three
attempts are the code's own; two batches let a failure come before, between and after insertions.

Bounds of clarification. A request lives one tick (`Ttl`) and the clock has two, so that it can be
answered in time, at its last moment and too late, and be issued again in between. `MaxVersion` 2
lets the state move under a request. `MaxAnswers` 4 bounds the answers of a draft: the questions that
have a breadth leave three fields to settle at most, G08 leaves four. G09 and G12 leave five and six
and make no contract anyway. The grounder of the run binds what it returns,
since no answer is awaited of one that does not.

Bounds of the canonical refresh. Three refreshes are one that stops, one that overlaps and one that
repairs; two imports drop a table and put another in its place (`MaxImports`).

Bounds of the RVM import. Two requests, one or none, in ten combinations; documents of three rows
and of one, files of one and two batches. One report a behaviour; a report of which an import
changes the register between any two queries, and richer registers at rest: a year of four months of
two days, a history of three years, quarters of two months. The thresholds of the relation are the
code's (3 points, 6 months, 1 crossing).

Bounds of the weekly projections. A line saved twice and two edits or a removal; `MaxChanges` 2 lets
a master change and change back under a request; `MaxRows` 2 lets two rows compete for a link.

Bounds of the agent plan. `Ttl` 0 and `MaxTime` 1 let a token be used in time and expire; `MaxCalls`
3 is a first call, its continuation, and a token brought back after a later one.

Bounds of the price lists. A failed run and two resumptions, two runs, or an import with two
canonicalizations or one and a report; batches of one and two records, so that a failure falls
between batches; `MaxStaged` 5 is a staging of three records with a batch repeated.

Bounds of the commercial operations. Three requests, two at a time (`MaxRunning`): one leaves
something behind, two cross. The jobs are the import of Forum, of one CRM export and of two, and the
refresh of the master alone; a refresh that fails after the canonicalizer is one of the
canonicalizer alone.

Bounds of the sales. Months of three days; five months; years of two months (`YearLength`); one
change of a table while a report runs (`MaxChanges`), which falls between any two of its four reads;
forecasts on the last day of a month and on a day with an unresolved month (6 and 9); one month of
history of errors and of status; windows of one month and of four.

The runs disable the deadlock check: a protocol whose motor failed for good, whose evidence was
rejected or whose capability does not exist has nothing more to do (`SelectionIsAnswered` names
these stops), requests end, and a finalized or expired question is not touched again.

## 5. Fairness

`FairSpec` assumes of the backend that it keeps driving a selected objective: weak fairness of
`Authorize`, `Settle`, `Evaluate`, `Apply`, `Assess`, `EvaluateProtocolClosure` and
`ApplyProtocolClosure`. Nothing in the repository schedules these calls; they are what a request
handler does in sequence after a selection, each enabled by the state the one before returned.
`Settle` is an execution that does not answer FAILED_RETRYABLE: a motor may fail retryably, but
not for ever. `Select`, `Review` and `EvidenceAges` are the user's and the environment's, and never
fair.

`SelectionIsAnswered` names the stops that remain: `NoCapability` (nothing is applicable),
`ExecutionOver` (a final failure, a timeout, a cancellation, or a success whose evidence was
rejected), `NotSufficient` (admitted evidence that does not prove), `BudgetSpent`, `OfferLost` (the
early return of the fixed point does not put held candidates back on offer), besides COMPLETE and
`UserToDecide`. A handler that should have been enabled and is not, such as an execution that
expects another phase of the objective, shows up as a stop with no name.

`LiveClarificationSpec` assumes weak fairness of `IssueClarification` and
`FinalizeQuestionContract`, which are the same call, made by whoever wants the contract, and strong
fairness of `Answer`: a person who can again and again answer in time finally does. Weak fairness
would not do, because a request expires and is issued again. Nothing is assumed of `Restart`,
`AdvanceState` or `Tick`, which the bounds stop. `EveryQuestionIsFinalized` has a breadth and no
contradiction for its premise: of a question without the one or with the other it is false, whoever
answers. The run asks questions of every kind.

All other modules state safety only: retries are bounded and every request ends or is stopped, so
what they promise is what holds when a request ends.

## 6. Proofs

Eight modules hold the proofs, each of one component except where said:

| Module | Proves |
|---|---|
| `ProtocolRuntimeProofs` | types, invariants and action properties of the protocol, what closes it, and that it implements `EvidenceLifecycle` |
| `ImportProofs` | `TableSnapshots`: whole tables, one row a VIN, nothing lost by overlap, what a success leaves. `RvmImport`: documents, chunks and preliminary months are whole |
| `LateAnswersProofs` | what people answer late, twice or from two tabs. Clarifications: answers count once and stick, contracts are final, nothing asked is enough. Projections: one row a link, links that did resolve, deletion |
| `CanonicalRefreshProofs` | the canonical refresh: what a success rebuilt, what a preflight covers, rows that agree |
| `SalesReportsProofs` | the recognition rule, the credit of sellers, forecasts and backtests, the universes of a report |
| `AgentPlanProofs` | the agent pipeline: progress is earned, answers compare like with like, what is ready is answered |
| `CommercialOperationsProofs` | the master of operations: nothing erased silently, exact after a refresh alone, the last export wins |
| `PriceListsProofs` | the price lists: nothing staged forgotten, episodes that say what was in force, publications that are whole, reports that stay inside |

All hold for every value of the constants that satisfies the named assumptions:

- `GoalsAssumption`: goals have classes, and what questions start from is REQUIRED (the compiler
  creates nothing else);
- `RulesAssumption`: transition rules target goals that are not REQUIRED;
- `BudgetAssumption`: the budget is positive, the model's bounds are naturals;
- `TablesAssumption` of `TableSnapshots`: files are sequences of VINs, and no row is the marker of a
  missing table;
- `RvmAssumption`: the documents of a folder, rows and batches are finite sequences and numbers; a
  folder has a document and a preliminary file a batch, which is what the code throws without;
  documents (`RVM_...`) and preliminary files have different names; requests made together are
  finitely many, each of one kind;
- `QuestionsAssumption`: a question's lexical candidate is one the grammar can produce, and an
  external candidate or a prior contract is any assignment of fields to paths;
- `FreeTextAssumption`, `BoundsAssumption`: grounders return fields, and time is a natural number;
- `DealersAssumption`, `RefreshAssumption`: dealers are finitely many, the null is none of the texts
  of the columns, sales tables are finite and their rows name known buyers, branches and dealers;
- `ProjectionsAssumption`: a seller has a name, names are finite sets of tokens, lengths and bounds
  are naturals, and a request is a line, an edit or a removal, not two of them;
- `TablesAssumption` of `SalesReports`: sales tables are finite sets of rows, none of them the
  marker of "no sale was replaced"; days are integers, and an entry of the masters is current or not;
- `NullAssumption` of `DecisionPlan`, `AgentAssumption` of `AgentPlan`: the null is none of the named
  values, sessions are sequences of questions, and an intent is one of `Intents`;
- `IdentityAssumption`, `JobsAssumption`: operations and deals are finitely many, stores are numbers,
  an import has at least one file, and every file of it is a batch of its kind;
- `MastersAssumption` of `PriceEpisodes`, `PriceAssumption` of `PriceImport`, `PricesAssumption` of
  `PriceLists`: masters and aliases are finitely many and give numbers, batches are not empty, the null
  is no fuel; a record has a date and a price; the tables before are ones the schema and earlier
  imports allow (`StoredIsSound`: one row of `price_versions` a key, no history without its version,
  and the record that made a version complete is still in the lists, every file of the folder being
  read each time; `TableIsSound`: an episode's
  vehicles were invoiced within it); identifiers of vehicles are unique.

Four theorems have hypotheses of their own, since without them the statement is false:

- `SuccessLeavesAll` and `UniqueVins`: merges of the inventory do not overlap (two that do insert one
  VIN twice, see the observations; replacements of a whole table may overlap as they like);
- `NothingAskedIsEnough`: an operation or a concept that is bound, in a question or in a free answer,
  has a value (`QuestionsAreMeant`, `AnswersHaveValues`). That the draft has a breadth is a premise of
  the property itself: nobody asks for one, and a draft without it makes no contract;
- `ClosesWithNothingBlocking`: the caller looks at the state, and the rules offer one CONDITIONAL
  candidate, whose goal is not observed again (`HonestCaller`, `OneConditionalRule`,
  `ObservedOnce`). Both rule sets of `registries.js` are such: one is empty, the other has one rule.

The inductive invariant of the protocol, `InductiveInv`, has one part for each pair of things that
must agree:

- `PhaseInv`: status, objective, authorization and record agree. It is what makes "a satisfied goal
  was authorized" inductive: a pending objective has no authorization yet, an authorized one has a
  record exactly when the status has left EXECUTING;
- `OfferInv`: actions are on offer only when nothing is pursued, and each one leads somewhere.
  Without it a selection could start a second goal;
- `SelectionInv`: consumed actions belong to past versions and to goals that exist, so no new
  selection can repeat a goal and the count equals the budget spent;
- `EvidenceInv`: attempts end in their only success, evaluations and closures the caller still
  holds were true at their version, and true now if that is the current version (which is why the
  version check of the apply calls is enough for a goal to rest on a proving record);
- `OneGoalAtATime` and `open = PendingBlocking(goals)`, which need the former.

The refinement is proved from it: each handler is an `Ask`, `Permit`, `Admit`, `Prove` or `Close`,
or leaves every stage as it was.

What blocks a closure is not in it, because it depends on how candidates are found again. The
invariant `NavigationInv` says that a candidate on offer keeps the signal it was derived from
(`Founded`), that its evidence includes all that is current of whatever was ever activated, and that
a CONDITIONAL candidate waits only while no CONDITIONAL goal exists. An assessment of the same state
then finds the candidate again instead of dropping it (`ConditionalIsKept`), so that an evaluation
of the closure that is still of this version was made with nothing waiting.

The inductive invariant of the importers, `SnapshotsInv`, says what each staging holds at each
statement (`LoadingInv` while it is loaded, `Whole` from then on, one row a VIN once cleaned), that
what a merge is about to insert is still absent unless merges overlap (`MergeInv`), and that
imports exclude one another when they may not overlap (`OneAtATime`). The rename then puts a whole
file in place whatever the other imports have done.

What a success leaves needs one more, `MergeProgress`: after the UPDATE every row of the file's VINs
is the file's, what the merge is about to insert is exactly what is absent, and before the answer
the table has the whole file. Each part fails if another merge may write between two statements.

The inductive invariant of the RVM import, `RegisterInv`, follows the staging all requests share. A
request that is alone has in it exactly the rows it has read (`StagingHoldsWhatWasRead`), so what it
files is its document or its range; while whole imports run alone, a document is in the register
whole or not at all, and not at all between the look and the filing (`WholesFileDocuments`); a chunk
that is alone has cleared its range before it files it (`ChunksFileRanges`). `AloneIsAlone` ties the
history variable to who runs now. The month needs an argument about counts: what it holds is, of
every load, the batches since some point up to its last one (`MonthHoldsLastBatches`), because a
load that deletes takes a beginning of what every load has inserted, and the load that deleted last
has lost nothing. If two loads have rows there and the number is that of the file, then what one of
them repeats is as much as the other has lost, and those are the same rows. The argument is about one
file, and `snapshot_date` is all that says which file a row is of: that the loaded rows have the one
date of the request's file makes them all of that file only if no other file has this date
(`DatesTellFiles`). Without it the claim is false, as it is with a third load, where two loads
repeat as many rows as the third made both lose. So `CountIsWhole` speaks of at most two
preliminary loads made together, of one file or of files with different dates. The
theorem is of `RvmSpec`; the run checks it under `MarketSpec`, whose imports are its steps and whose
initial registers are among its own.

The inductive invariant of clarification, `ClarificationInv`, says that a stored issue is still
open, that every request is about a path open in the draft it was issued for, and (`RefsArePast`)
that an answered request was issued for a draft with fewer answers than this one. The last is why
comparing the hash of the draft is enough: the draft of an answered request never returns, so a
replay is refused even by a harness that has forgotten it. `SettledStays` needs, besides, that only
the universe's options write a second field, and that they are offered only while the universe is
open.

That nothing asked is enough needs `MeantInv`: a broad draft has its period and comparison deferred,
and what is bound keeps a value through every answer. Then each field the validator of a contract
looks at is one the analysis would have found open.

The inductive invariant of the canonical refresh, `RefreshInv`, says what the table holds for a
request that is *current*, that is, since whose preflight no raw table changed, at each statement:
past the base statement every row is that of its vehicle (`BaseOk`), what was read for the UPDATE is
the exit the raw tables give (`ReadOk`), past the UPDATE the exits are those and, past the next, the
statuses follow (`ExitsOk`). `ReadOk` is what makes overlap harmless: two current requests have read
the same, so that whichever writes last writes the same row. That only two branches fail the check
of the exit rests on `OnlyTwoBranchesFail`, a lemma about the common table expressions alone.

The inductive invariant of the projections says that identifiers are never used again and rows are
what a request may store (`RowsInv`), that a request under way is about the owner of the row it is
to write, also if that row was edited meanwhile (`RequestsInv`, `AboutInv`), that a suggested link
about to be stored has resolved since the request began (`HeldInv`), and that the unique index has
kept an opportunity to one row (`ProjectedOnce`). The second is why an old page cannot store the
link of one seller in the row of another; deletion stays because the UPDATE finds no row.

`SalesReportsProofs` proves of the rule, for any finite table, that every VIN it can assign has one
sale (`OneSaleEach`: the last row of a finite set of dated rows exists, ties included), that an
import of rows dated after a cutoff moves nothing recognized at it, and that a sale is credited
exactly when role and assignment held. The invariant it needs of the reports (`SalesInv`) is that
the tables read are tables that were there, and that a forecast under way asked for a day whose
history there was.

That forecasts are live (`AlwaysForecastsAreLive`) rests on one lemma about the counters. The code
keeps them event by event: a row that comes adds one sale, and takes back the sale it replaces if
that sale was counted in the same month. `SoldAreKept` says that the rows that came in a month by a
day, less those replaced by that day, are what the recognition rule sells in that month of the rows
dated by that day; it is proved from the order of the rows alone (`StepsAreRows`, `NextReplaces`: the
rows of a VIN replace each other one by one, so no induction over them is needed). `SnapshotIs` and
`CountsAreSaid` carry it to the counts of the stores, and `HistoryIs` to every day a history shows.
The rest is about days: what the rule and the forecasts say as of a day is the same after the rows
of later days are cut off (`SameDay`, `SaidThen`), and a closed month is reached by its last day.
`SalesArePartitioned` proves of the universes that every sale of the
company is of the own stores, of the dealers or of neither, and of one of them only.

The inductive invariant of the agent pipeline, `AgentInv`, is about tokens that only the client
keeps: the progress in any of them is the outcome of the first investigations of the plan of its own
resolution and intent, and what it calls available was obtained by an answer of that resolution and
intent (`Settled`). It holds of a token brought back a second time because answers are only added.
That answers compare like with like is then a fact about plans: what each investigation may find
available was projectable (`Projectable`), and a question that is complete has nothing else.

Commercial operations have two. `MasterInv` holds whatever crosses: keys belong to their rows, what
is bridged is canonical, and if something bridged is not in the master then a request is between
bridge and master, or one failed (`ErasureIsPending`); that is all `NothingErasedSilently` needs.
`AloneInv` is about a request beside which nobody else wrote, whatever was there when it began:
which tables it has made exact, which stamps the rows of the master have before the older ones are
deleted, and that after the first k files of an export the raw CRM holds the last version of every
deal named in them (`Held`, defined by "the last of these files that names it", since a fold could
not be reasoned about). Both are induction over the steps of a request; no induction over the files
is needed because `Held` at k + 1 follows from `Held` at k.

The price lists need an argument about data and one about steps. The first is
`EpisodeSaysWhatWasInForce`: points that collapse into the one before them say the same
(`CollapsedSays`), so the last segment up to a date speaks for every point between (`OneInForce`), and
no other segment's range holds the date (`OneEpisode`). Ranges, places in a payload and *the latest
point* are choices from finite sets, whose existence rests on one lemma (`Greatest`, by
well-foundedness of inclusion) and on one about ranks (`RanksAreOnce`: in a finite linear order
the number of those before tells each element apart). From it, `PersistedIs`: what is published fails
none of the seven checks, since the bridge has each vehicle once, in the episode that `Matches` found.

The invariant of the steps, `PricesInv`, says that versions keep their place and key, that a complete
one has what some record of its key requires (`AreVersions`), that no row of
the history comes before its version (`KeysInv`), that what is staged is in the history or still among
what the run carries (`StagedInv`), that a staging is filled by its own run alone and not once that
has ended (`RunInv`, which is why a resumption may delete it), that a canonicalization has read at
least what there was when it began (`ReadInv`), and that one that runs alone audits what it wrote
(`AloneInv`). Every step of an import is shown to leave the others able to go on (`StepOf`,
`OthersGoOn`). A record that completes a version is such a record itself, and no later write takes a
field away; a merged candidate is electric exactly if its first record is, or the one its fuel is
taken from (`MergedIs`), so that one of the two requires what it does. A report of two publications stays inside its episodes because the first and last dates
of a published episode are in its range, and the vehicles the report reads must have the same ones.

Only model-checked, and why:

- `SelectionIsAnswered` and `EveryQuestionIsFinalized`: liveness under fairness is out of the
  prover's reach;
- `ReportsReconcile`, `ReportsAreSound`, `AuditsAgree`: sums, medians and cardinalities over tables,
  whose induction the installed provers cannot do. Of `ReportsAreSound`, the division of the sales
  into universes is proved (`SalesArePartitioned`).

## 7. Not modelled

- The overlap of two executions of one authorization, the attempt lost when the projector throws,
  and callers that drop the ledger: `ExecuteAndAdmitEvidence` is one step, and nothing in the
  repository overlaps two executions. The ledger and the attempts are what the last call returned.
- Synthesis: it reads a COMPLETE state and changes nothing. Universe resolution and availability:
  lookups whose result is an input of the protocol.
- OLAP, longitudinal series, sales pace, relative performance and the other engines that build one
  query or regroup rows already read: arithmetic over one result, within reach of a unit test.
- The dashboard: a recount of rows modelled elsewhere, upserted one row a date, on which no other
  state depends. It counts zero on the 1st and never counts the last commercial day.
- The summary of the projections (`admin.js`), intake orchestration, the custom GPT routes, the
  wording of answers, the entity and availability queries of the agent pipeline.
- The operational masters and the motors that only query: single upserts and single reads.
- Routing and registries: dispatch without state. User interface, SQL text, parsing of
  spreadsheets, names, ranks, percentages and formatting: outside what these models tell apart.
