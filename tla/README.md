# Formal specifications of the track-access planner

The repository is a planning system for railway track possessions: a C++ solver
that builds weekly plans (OR-Tools CP-SAT), an independent validator, a service
(HTTP, SQLite, worker processes) that runs solves and keeps versioned plans with
approvals, and two browser interfaces, a React client and the legacy one it
replaces. This directory holds TLA+ models of its own logic, TLC configurations
that check them on small instances, and TLAPS proofs for every size.

Paths below are relative to the repository; line numbers are those `map` in
`PROJECT.json` records for each definition.

## Running the checks

    tlc -workers 2 -config MCPlanStore.cfg MCPlanStore       # a run of PROJECT.json
    tlapm PlanStoreProofs.tla                                # a proof module

`PROJECT.json` lists the runs with their configuration, the mutated form of the
code that each property catches, the source lines of each definition, the
theorems, the findings and the hazards.

## Inventory of the system

| component | source | state | operations | where it is hard |
|---|---|---|---|---|
| plan store | `src/service/store.cpp`, `store.h` | tables `instances`, `plan_versions`, `approvals`, in SQLite under one process-wide mutex | `AddInstance`, `InvalidateApprovalsForChangedInput`, `AddPlanVersion`, `ApprovePlan`, `RevokeApproval`, listings | several statements per call, several calls per request, crashes between them, solves that outlive their input |
| job service | `src/service/main.cpp` | `g_queue`, `g_jobs`, `g_running` under `g_mu`, one condition variable, a pool of threads, a process per solve | submit, cancel, `WorkerLoop`, `RunWorker`, `RecordPlanVersions`, `WorkerSlot` for analyses | interleavings, wakeups, cancellation at every moment, the solver's life, the queue's limit |
| solver process | `src/cli/main.cpp` | a directory per scenario with a marker file, exit code | `RunSolve`, `RunRepair`, diagnose, explain | half-written directories, being killed |
| scheduling model | `src/solver/solver.cpp` | a CP-SAT model over activity, week and ECLO variables | workload, precedence, windows, capacity, exclusive pairs, repair | closed forms that stand for rules stated elsewhere |
| schedule construction | `src/core/schedule.cpp` | a `Plan`: accesses, slots, nights, score | `ComputeOccupancy`, `AssignAccessNights`, `ComputeScore`, `ExportPlan`, `LoadPlan` | greedy algorithms that must not fail on an admitted plan |
| validator | `src/validator/validator.cpp` | a report | one check per rule, from the exported files alone | must agree with the solver without sharing its code |
| instance loading | `src/core/instance.cpp`, `csv.cpp` | locations, spans, contracts, calendar | parsing, topology, closure, buffers | cycles, closures, row numbering |
| accounts and sessions | `store.cpp`, `main.cpp` | `users`, `sessions`, login throttle | login, expiry, disabling, password change | sliding against absolute expiry, disabling during a login |
| projects and revisions | `store.cpp` | `projects.revision` | `BumpProjectRevision` | a compare-and-swap whose answer must be used |
| assignments, audit | `store.cpp` | `assignments`, hash-chained `audit` | upsert, append | optimistic saves in the client |
| client: plan choice | `client/src/lib/planChoice.js` | none: a function of the listing | `choosePlan`, `planState` | reading approval out of three columns |
| client: requests | `client/src/lib/api.js` | a semaphore and its queue, an epoch, kept answers, shared reads | `request`, `acquire`, `release`, `setToken` | aborts of waiting requests, answers of an old session, a server that never answers |
| client: session, resources | `state/auth.jsx`, `routes/SignIn.jsx`, `lib/useResource.js` | user, tab storage, `needsBootstrap`; a sequence number per resource | restore, `signIn`, `signOut`, expiry; run, reload, cleanup | each is several steps, and they settle in any order |
| client: generating plans | `routes/ProjectDetail.jsx` | a table of jobs, chains of polls | start, poll, cancel, leave | polls belong to no batch |
| client: photos | `lib/photos.js`, `components/Avatar.jsx`, `routes/Settings.jsx` | a cache, a generation | `loadPhoto`, `forgetPhotos`, replacing one's photo | fetches of the replaced photo |
| client: forms | `routes/Projects.jsx`, `Sample.jsx`, `ProjectUpload.jsx`, `Settings.jsx`, `components/ActivityDetail.jsx` | a handler each | create, upload, accounts, assign | a save shown before it is made; handlers that outlive their page |
| client: lists and schedules | `lib/useProjectIndex.js`, `lib/useProjectSchedule.js`, `lib/scheduleModel.js`, `routes/Schedules.jsx` | cursors; five resources; page, order and window of a table | turn a page, choose a plan, filter, group, sort | positions that outlive the rows they were chosen for |
| legacy interface | `web/app.js` | one global `S`, one view, a wizard | every handler of the page | handlers read and write `S` across their awaits |
| the rest | `client/src/routes`, `deploy/`, `scripts/`, `tools/`, `web/i18n.js` | | rendering, operator tooling | not modelled |

How they interact: a browser uploads an instance (main → store), submits a solve
(main → queue), a worker thread forks the solver process, which writes plan
directories; when it has ended, the worker reads the directories and records one
plan version each (main → store); reviewers approve or revoke versions; a later
upload invalidates what was solved from other input; the client shows one of the
listed versions as *the* plan. In the browser every page asks through one request
layer, most of them by way of `useResource`; a change of session, made by the
sign-in code or by any answer of 401, aborts whatever is out. Jobs are followed by
polling; nothing is pushed. The solver's plan goes through `ComputeOccupancy`
into files, and the validator judges the files.

What makes each part correct, in a sentence: the store keeps at most one approved
version per project and scenario, of checked plans of the current input, with a
history that agrees; the service loses no job, no slot and no wakeup, and reports
nothing before it is recorded; solver, exporter and validator count the same
slots; the client calls published what the store approved, lets nothing of one
session into another, shows what was asked last, and comes back from a server that
does not answer.

## Modules

| module | models | depends on |
|---|---|---|
| `PlanStore` | the three plan tables, the upload handler's calls, crashes | |
| `ApprovalRegister` | what callers of the store rely on: one standing plan per project and scenario, retired plans never return | |
| `PlanChoice` | the client's choice over any reachable store | `PlanStore` |
| `PlanStoreProofs` | proofs about the two, and that the store is the register | `PlanStore`, `PlanChoice` |
| `ApiClient` | the request layer | |
| `ClientSession` | sign-in, restore, sign-out, expiry and one resource, each step a step of the request layer | `ApiClient` |
| `ApiClientProofs`, `ClientSessionProofs` | proofs about them, and that one implements the other | `ApiClient`, `ClientSession`, `Queues` |
| `Queues` | lemmas on queues without repetitions | |
| `JobPhases` | one job of the service as its pollers see it, cancellation included | |
| `GeneratePlans` | the Generate section and its polls | `JobPhases` |
| `Photos` | the photo cache, an avatar, replacing a photo, signing out and in | |
| `PageForms` | the handlers that change something on the server | |
| `ProjectIndex` | the project list, a page at a time | |
| `ScheduleData` | the resources behind a plan's rows | |
| `ScheduleTables` | filters, groups, order, pages and weeks of those rows | |
| `LegacyClient` | the global state of the legacy interface and its handlers | |
| `LegacyWizard` | its new-plan wizard | `JobPhases` |
| `ClientPages` | composes the eight modules before this line | the first five by `EXTENDS`, the others by `INSTANCE` |
| `ClientPagesProofs` | proofs about all eight | `ClientPages` |
| `ClientLive` | composes what must go on, with its fairness | `ClientSession`, `LegacyWizard` |
| `SolveJobs` | queue, pool, solver processes, slots, handlers | `JobBoard` (by `INSTANCE`) |
| `JobBoard` | what users of the service rely on: a line of limited length served in order, slots shared with analyses, jobs that end as they were told to | |
| `JobsLive` | composes what must go on with jobs, in the service and on the page, with its fairness | `SolveJobs`, `GeneratePlans` |
| `SolveJobsProofs` | proofs about it, and that the service is the board | `SolveJobs`, `Queues` |
| `PossessionMix` | what a possession slot holds, and the solver's inequalities for slots | |
| `PossessionSlots` | one location-week through solver, exporter and validator | `PossessionMix` |
| `PossessionSlotsProofs` | proofs about it | `PossessionSlots` |
| `PlanRules` | whole plans: topology and zones, the solver's model, the nights, the validator's rules; `solve`, `diagnose`, `explain` | `PossessionMix` |
| `PlanRepair` | `repair`: objective, score, the two passes | `PlanRules` |
| `Planning` | composes the two scales | `PossessionSlots`, `PlanRepair` |
| `PlanRulesProofs` | proofs about the three before this line | `Planning`, `PossessionSlotsProofs` |
| `MC*` | model-checking instances: verdicts, symmetry | |

In each module some definitions are preceded by *mutated forms*, variants with a
plausible bug (`SupersedeNone`, `FinishKeepingSlot`, ...). They take no part in
the specification; they exist so that each property can be seen to fail.

### PlanStore

A table is a sequence, a row id a position in it; nothing is ever deleted. Each
Store method runs under the mutex and is one action, with one exception:
`InvalidateApprovalsForChangedInput` commits its two UPDATEs separately, so it is
`InvalidateVersions` then `RevokeStaleApprovals`, with the mutex held in between
(`StoreFree`), and only `Crash` can come between. The upload handler is
`AddInstance` followed by the invalidation, two calls between which anything may
happen (`main.cpp:1228-1230`; the demo handler does the same). `AddPlanVersion`
takes any instance row, because a solve works on the row it was started with,
however old it is by then, and reads the input hash back from that row.
`UncrashedSpec` is the same store in a process that never dies (`Serve` without
`Crash`), for what goes wrong all the same.
`ApprovePlan` and `RevokeApproval` are transactions. Left out: content and
validation hashes (a row's never change, so the binding check in `ApprovePlan`
compares a value with itself), user names, texts, dates other than whether
`approved_at` is set, and SQL statements that fail.

Properties: `OneApproved`; `HistoryAgrees` (`LedgerAgrees` and `OpenRowStands`), the
version table against the approval history in both directions; `NumberedInOrder`; the action property `StatusMoves`; and `ImplementsRegister`:
`INSTANCE ApprovalRegister` with `standing` mapped to the approved versions of a
group and `retired` to the superseded and invalidated.

### SolveJobs

An action is a stretch of code under `g_mu`, one store call, or a step of a
solver process. The one condition variable is modelled by who sleeps on it: a
thread sleeps only after it found its predicate false, `notify_all` sends every
sleeper back to its test, and notifying is a step of its own where the code
notifies after releasing `g_mu`. A worker goes through `CheckForJob`,
`MarkRunning`, `Launch`, `Reap`, `BeginRecording`, `RecordPlan` (once per plan,
each of which the store may refuse) and `EndRecording`, `Finish`,
`NotifyAfterJob`. A solver may exit at any moment with any outcome, which
includes what a SIGTERM or a resource limit does to it. Analyses (`explain`,
`repair`) hold a `WorkerSlot`: `TakeSlot`, `WaitTimesOut`, `GiveSlotBack`,
`NotifyAfterAnalysis`. A submit handler loads the project (`Submit`), queues
(`Enqueue`), bumps the revision (`Bump`) and notifies (`Answer`).

Properties: `SlotsAccounted`, `JobsHeldOnce`, `RecordedWhenReported`, `NoIdleSlot` (no lost wakeup); under
fairness `JobSettles` and `SlotsComeBack`; and `ImplementsBoard`: `INSTANCE JobBoard`
with `waiting` mapped to the queue, `taken` to the jobs that workers hold, `lent` to
the analyses that hold a slot, and `told` and `stopped` to the state and the cancel
flag of each job. The board has no counter: a slot is left when fewer are taken and
lent than there are workers. So the mapping says that `g_running`, four places that
write it, two predicates and a timeout amount to that. Which way a job's state may
move (`JobStateMoves`) is part of it, and proved by itself.

Fairness: `Fairness` assumes weak fairness of each worker thread, each analysis
handler, each submit handler that has begun, and of the exit of each solver.
Threads are scheduled by the operating system and hold `g_mu` for short stretches
only; a solver ends because the service starts it with a budget and a limit on
its CPU time. Nothing is assumed of clients: they need not submit, cancel or
analyse, and a solver need not write any plan. Weak fairness is enough, since no
step of a thread is disabled again and again by others except `CheckForJob`,
which is enabled whenever the worker is awake.

### PlanChoice

`choosePlan` and `planState` as operators over the store's state, checked in every
store that the `plan_store` run reaches and for every version the viewer may
prefer. `First` is the order of both sorts (version number, then id as the listing
orders it). A plan is shown as failed when it is infeasible or the `violations`
column is not 0 (`violated`); both are read off one validation report, which counts
violations only when it is infeasible.
`PublishedIsUsable`: what is labelled published passed the check and is
no fallback, whatever became of its approval. `SolveNeverReplaces`: a plan recorded
by a solve changes neither what is shown as published nor its label.

### PossessionSlots

A location-week is a number of PM, PC and C activities. `Solve` picks any the
solver's inequalities admit (`Fits`, `MaxExcess`, `Admits`); `PlaceMaster`,
`PlaceHost` and `PlaceShared` are the loops of `ComputeOccupancy`, one iteration a
step; `Judge` is the validator's capacity and mix rule, which sees the slots only.
The set of activities is abstracted to counts because the three programs look at
the access type alone here; one supply stands for the nominal one or an override.
The relaxation of the capacity rule and overrides that contradict each other belong
to whole plans (`PlanRules`).

`AdmittedPasses`: what is admitted is accepted. `ExcessIsPriced`: the excess the
score counts is the least that would have been admitted. `FewestSlots`: the
packing is whole and no packing the validator accepts is shorter -- checked
against `Holding`, which is defined by the mix rule alone.

### PlanRules, PlanRepair and Planning

`PlanRules` is about whole plans of small loaded instances. `Zone` and `Excluded`
are what `BuildTopology` derives from the chain of a line and bound, which is what
of it has a supply and may have gaps (`ChainOf`, `Between`): spans widened by the
next location of the chain at either end, closures mirrored to the other bound and
crossed at every interchange tunnel (`Peers`; a line may have several), buffers
grown by sectors, pairs that may not share a week. `Rows` and `Admitted` are the solver's
model, constraint by constraint, each with the group that lifts it (`Enforced`);
the search is taken to end with any plan of `Solutions`, with infeasible if there
is none, or out of time. `Night` is `AssignAccessNights`, and a plan it refuses is
an internal error. `Breaks` is the validator, rule by rule, in its own terms. The
commands are sequences of such searches on one option object: `Fallback` prices the
policy, `Require` asks for one night, `Lift` lifts the next group. A plan is a
yield of 0, 10 or 15 tenths for each activity and week; a location-week takes
`SlotsUsed` slots, which `PossessionSlots` justifies step by step. The zones are
the one thing the two sides share, in the code as in the model: the validator reads
closures and buffers from the same topology, so an error there shows in neither.

`OnlyLiftedBroken`: a plan that is found passes the validator but for what was
lifted, and does fail there, so a plan marked not ready for submission never is and
a group named as binding is. `ProofsAreRight`: when the answer is infeasible, no
plan at all passes the validator's rules, checked against every assignment of
nights, including those the model forbids as redundant.

`PlanRepair` adds the objective as the search pays it, the score as it is computed
from the plan, and the two passes of a repair: a proven optimum of the first is
held, and the second changes as little of the plan before as that allows.
`RepairIsBest`: what is called optimal is, against the disrupted supply, and no
optimal plan is nearer to the plan before.

Two things are stated with exceptions, because the code does not hold them
otherwise (see Findings): two disruptions of one location-week (`Unambiguous`) and,
in Scenario B, an activity without work of a contract due before the horizon
(`Unworked`); and `RepairIsBest` is for lowered supplies, and says of the change
only what holds while both sides count the same excess.

Sums are counts: the yield of a row, the weighted days and the excess of a plan are
cardinalities of sets of units, which is what they are and can be reasoned about.
`Planning` lets a run look into one of the scales at a time. What it assumes of the
instances is what `LoadInstance` lets through (`Loaded`: ranges of columns, rows that
exist, spans with a supply), and that repairs are of loaded instances, at their
locations and weeks; TLC evaluates it on the fourteen.

### ApiClient and ClientSession

JavaScript runs to the next `await`, so an action is such a stretch. A call is one
use of `request()`: it waits for a slot, is granted one, fetches, and settles
(`resolved` or `rejected`) before its caller is told (`Deliver`). Between settling
and delivery anything else may run, and that is where an answer of an old session
meets the new one. `SetToken` is the whole of `setToken`: the epoch, the cache, the
shared reads, and the abort of every call with what each abort does to its place in
the queue. `Expire` is an answer of 401, which ends the session in the same stretch.
The timer of a call covers its wait for a slot as well (`TimerFires`). The number of
calls is the bound, and the cache hands a kept answer over with no call at all.

`ClientSession` adds the code that awaits: the effect of `AuthProvider` in its five
steps, `signIn` with the bootstrap before it, `signOut`, the expiry listener, and
one `useResource` with cleanup, disabled branch and reload. Every action is an
action of `ApiClient` together with what follows it; `ClientIsApi` proves that no
step goes around it. The server is what the session needs of it: whether there is
an account, which tokens were handed out, and the answer of a login on its way; it
may act and lose its answer. One abstraction to know: a change of the deps of a
resource and the first render with the new ones are one step, so the single frame
in which `useResource.js:23` still shows the old data is not a state here.

Properties: `SlotsCounted`, `SessionIsolation`, `JoinersAreServed`, `SessionAgrees`,
`ShownIsAsked`, and under fairness `RequestsSettle`, `LoadingEnds`, `FormsComeBack`.

### The pages

Each module is a part of the interface with the part of the server it talks to.
An answer sets out when the server acts (`Serve`, `Work`, ...) and arrives in a
step of its own, in any order with the others, or not at all; a handler goes on
after its page was left.

- `JobPhases`: what is left of a job when its queue, slots and threads are somebody
  else's concern. A job cancelled while it waits is told cancelled at once, and the
  worker takes it all the same; one cancelled while it runs is told running until
  its solver has stopped (`main.cpp:430`, `:1412-1414`).
- `GeneratePlans`: one creation per scenario, `Promise.all` over them, a chain of
  polls per job. A chain is a request or a timer, tied to no batch. The creations of
  a batch go on after the page was left, and still start its polls.
  `EndedAsReported`; under fairness `BatchEnds`. `JobsLive` puts it beside
  `SolveJobs`, one of the two at work, and does not leave the page, of which
  `BatchEnds` would ask nothing any more.
- `Photos`: a photo is the number of the change that put it in place, so that an
  old one can be told. A fetch carries the generation and the token it set out
  with; signing out forgets everything, and fetches of the session before may
  answer in the next. `PhotosFresh`.
- `PageForms`: one handler on the open page and those that outlived theirs; the
  upload's matching of picked files to slots by exact name or leading number; the
  coordinator, shown before it is saved and put back when it is not.
  `ShownWasSaved`.
- `ProjectIndex`: the cursors met, the position, the resource. `IndexInOrder`.
- `ScheduleData`: five resources whose deps are functions of the others' data.
  `OnePlanShown`: what is joined belongs together.
- `ScheduleTables`: `filterRows` and `groupRows` (a recursive function over the
  rows, as the code fills its map), `sortRows` and `activityRows` (by ranks), the
  page and the window of weeks, while rows and width change under them.
  `EveryAccessShown`: each access that matches is in one group once; the pages of a
  table, put together, are the table, which misses no access and no activity of its
  group; and the page and the window in sight are not empty.
- `LegacyClient`: `S` and up to `MaxHandlers` handlers, each at the request it
  awaits, with the project and the token it carries; a handler that finds its
  state gone fails as the JavaScript would. Drawing a view starts the view's own
  requests. The button that creates a project is never disabled, so a double press
  makes two. Beside the page other planners make plans and inputs, sessions end, and
  another client (a browser, the command line) may create the first administrator;
  a bootstrap that is out by then is outrun and refused, which `BootstrapsOnce`
  allows: it forbids to ask for one once there is one. `BootstrapsOnce`; `ProjectAgrees`, stated for projects opened while
  nothing of another is under way (`crossed`), because the code does not hold it
  otherwise (see Findings).
- `LegacyWizard`: the wizard objects, each handler with the one it began with, the
  line of a followed run that any redraw takes away. Picking a file enables the
  button of a check that is under way (`PickFile`), and the stop button cancels the
  job its wizard created last, which need not be the one that is followed
  (`CancelRun`). `ReviewFollowsRun`; under
  fairness `HandlersEnd`.

What these modules say of the service (`Make`, `Work`, `Store`, `Listing`, ...) is
translated from its handlers in `src/service`, as far as the page can tell.

`ClientPages` shows one of the eight at a time: they share no state in the
program, and composing them by choice lets one run look into all of them without
multiplying their states.

Fairness in `ClientLive` and `JobsLive`. `Fairness` of `ClientSession`: microtasks run (`Restore`, `SignIn`,
`SignsOut`, `StartRun`, delivery), an aborted fetch rejects, and a request's timer
goes off, which `api.js:53` starts for every request; that the server ever answers
is not assumed, nor that anybody presses anything. `GenerateFairness` and
`WizardFairness`: a request settles, which `RequestsSettle` shows of the React
client and the browser does for the legacy one; a timer goes off; and the service
works its jobs off, which `JobSettles` shows. Weak fairness is enough: a step of a
handler, once enabled, is disabled only by the step itself or by what ends the
handler.

## Runs

| run | asks | bounds |
|---|---|---|
| `plan_store` | all of the properties of `PlanStore` and `PlanChoice` | 2 projects, 2 scenarios, 2 inputs, 1 approver, 2 uploads in flight, 2 instances, 3 versions, 3 approval rows |
| `plan_store_crash` | is an invalidation whole? (no) | the same |
| `plan_store_stale` | is what stands approved solved from current input, if nothing crashes? (no) | the same, 1 upload in flight, no crash |
| `plan_choice_superseded` | does the approved version win in the client? (no) | 1 project, 2 scenarios, 1 upload in flight, 3 versions, 2 approval rows |
| `solve_jobs` | all safety of `SolveJobs`; is it a `JobBoard`? | 2 jobs, 2 workers, 1 analysis, queue of 1, 2 plans per job |
| `solve_jobs_live` | does every job end, every slot come back, every batch of plans end on its page? | 2 jobs, 1 worker, 1 analysis, queue of 2, 1 plan; 2 scenarios in 2 batches, 1 job that is cancelled |
| `solve_jobs_cancel` | does cancelling keep the plans? (no) | 1 job |
| `solve_jobs_revision` | is one of two planners refused? (no) | 2 jobs that state a revision |
| `possession_slots` | do the three programs count the same, and do whole plans, proofs and repairs hold what they claim? | up to 8 activities at a location, supplies 0 to 4, all scenarios; 14 instances of 2 or 3 activities in 2 or 3 weeks on two lines of two tunnels, one of them with both tunnels between interchanges and a platform missing; one or two disruptions of two location-weeks |
| `client_session` | all safety of `ApiClient` and `ClientSession` | 1 slot, 2 requests of pages and 3 of the session, 2 tokens, 4 changes of session, 2 kept resources, a cache of 1 |
| `client_live` | does everything else in the browser come to its end? | 1 slot, 1 request of pages, 1 token, 3 changes of session; 1 wizard, 2 handlers, 2 jobs |
| `client_pages` | the safety of the eight modules | 2 scenarios and batches, 1 job that is cancelled; 2 people, 2 photos, 2 sessions; 2 slots, 3 files; 7 projects, 2 on a page; 2 plans, 2 saves; 3 plans of rows, 3 weeks; 2 handlers, 2 wizards, 1 job |

Why the bounds are enough. Three versions give two of one group and one of another
project or scenario, so that superseding, scoping and numbering all matter; three
approval rows allow approve, revoke, approve again, and one more elsewhere. Two
jobs and two workers with one analysis let the analysis take a slot from a worker,
a job wait behind another, and the queue be full; two plans let recording be
interrupted between them. The liveness run has one worker, so that a job waits
behind another and behind the analysis, in a queue of two. Eight activities allow
two hosts with all their guests, or a host and a shared slot both full. Each of the
instances makes one kind of case happen: live work at an interchange, contracts of
several workfronts or nights, chains, an overloaded week, buffered pairs with more
work than weeks, work that only early closures get done, masters that compete for a
platform. Between them every group of rules binds when it is lifted, each scenario
has its fallback, a lifted weekly rule ends in an internal error, and a repair ends
in all of its ways.

One slot of the request layer makes every second call queue, so that waiting calls
are cancelled, time out and change session; two requests of pages let one join the
other, be the older run of a resource, or hold the slot the other waits for; four
changes of session let a token come, go, and another follow; a cache of one evicts
at the second answer. The liveness run keeps one of each kind that can hold up
another; two jobs let the wizard hold another job than the one that is followed. Two
batches of two scenarios let a creation fail part way, with its other job made or
yet to be made, and polls of the first batch run into the second and write its
table. Two photos and two sessions let a fetch be a change old, a session old, or
both. Three files for two slots let one be
refused. Seven projects at two a page are more pages than are met before the first
creation. The plans of rows hold an owner, a week and a contract that several rows
share, and one is empty; a page of two and a window of one week make both overrun.
Two handlers of the legacy interface are enough for any two to cross. Symmetry is
used in safety runs only.

Deadlock is not checked: the tables are bounded, clients need not send anything,
and a judged location-week has no further step.

## Findings

Five runs end in a counterexample on purpose; each checks a statement the
repository makes.

- `plan_store_crash`: `store.h:5-6` says every mutating call is a transaction. A
  crash between the two UPDATEs of the invalidation leaves an invalidated version
  with an open approval; a retry finds no row to change and stops before the
  second UPDATE.
- `plan_store_stale`: `docs/API.md:177` lists plans of replaced input as refused
  for approval. A solve that ends after the upload records a draft of the old
  input, and it is approved like any other. The run leaves crashes out, so its
  trace shows just that.
- `solve_jobs_cancel`: `docs/API.md:138-139` says cancelling keeps the best plan
  already written. The worker skips `RecordPlanVersions` for a cancelled job.
- `solve_jobs_revision`: `docs/API.md:117-119` promises 409 to the second of two
  planners. The revision is compared before the queue, and the answer of the
  compare-and-swap afterwards is dropped.
- `plan_choice_superseded`: `planChoice.js:8` says the approved version wins. A
  superseded version keeps its `approved_at` and, with a higher number, is shown
  instead.

The others were met while reading the code for the models and have no run of their
own. The models contain what the code does in each case, except where it says so.

- `solver.cpp:90-95` says that the cap on a workload excludes no legal combination
  of nights, yet two ECLO nights (30 tenths) for a need of 20 exceed the cap of 29
  although neither can be dropped. The model
  has the cap; `ProofsAreRight` shows that it costs no feasibility there.
- `cli/main.cpp:256`: `diagnose` and `explain` lift one group of rules at a time and
  name those whose removal helps. Without the weekly rule every plan found breaks
  it, the assignment of nights refuses the plan, and the rule is never named.
  `explain` prints "still impossible without it" for a probe that merely timed out.
- `solver.cpp:398`: the second pass of a repair is locked at a score that counts
  excess against the nominal supply, because the overrides enter the plan only
  afterwards. After a raised supply a plan that is not optimal is returned as
  optimal; after a lowered one the change may not be minimised.
- `solver.cpp:157`: of two disruptions of one location-week the solver keeps the
  last, the validator and the score read the first (`schedule.cpp:217`).
- `solver.cpp:240`: in Scenario B an activity without work of a contract due before
  the horizon is "proven infeasible"; the validator skips it, and the fallback marks
  a conforming plan as not ready.
- `instance.cpp:306`: pairs whose zones merely touch never enter
  `exclusive_pairs_no_overlap`, the set made for them. (Not modelled.)
- `validator.cpp:33`: `strict_buffers` is copied into the report and changes no check.
- `auth.jsx:53`: a sign-in while a logout is still out is undone when the logout
  settles, and a wrong password typed while signed in ends the session in use.
- `ProjectDetail.jsx:137`: one failed poll writes the row as failed for good though
  the job goes on; a poll of an earlier batch writes its job over the newer row.
- `ProjectDetail.jsx:110`: after one refused creation the jobs of the other
  scenarios run, and the page shows, polls and cancels none of them.
- `photos.js:37`: any answer that is not ok, a 503 too, is kept as "no photo".
- `instanceFiles.js:17`: a file with a leading number takes the slot from a later
  one with the exact name.
- `useProjectSchedule.js:11`: cells are split at commas, although the exporter
  quotes a cell that holds one. (Not modelled: a cell is a value here.)
- `web/app.js:129`: a change of language takes away the line of a followed run, and
  the next poll gives up.
- `web/app.js:366`: opening a project while another's requests are out can leave it
  on screen with the other's plans.
- `web/app.js:683`: the review never shows the run's own plans, because the list is
  read from the answer that created the job.

## Proofs

`PlanStoreProofs` proves, for every set of projects, scenarios, inputs, users and
handlers and every bound, from `StoreAssumption` (the "no user" value is no user,
the bounds are naturals, a verdict with violations is infeasible):

- `Numbering`: `TypeOK` and `NumberedInOrder`, which are inductive together. The
  core is `NextNumber`: with versions numbered in order, the MAX plus one of a
  group is one more than its size. It needs that a bounded set of naturals has a
  largest element, taken from the well-foundedness of `<`.
- `Exclusive`: `OneApproved`, from the types alone, since `Supersede` demotes every
  other approved version of the group in the transaction that approves.
- `Checked`: `PublishedWasChecked`, whatever carries an approval date was feasible
  and no fallback: the flags of a row never change. (The runs check what the client
  makes of it, `PublishedIsUsable`.)
- `StatusMovesAlways`: `StatusMoves`, one case per action.
- `Ledger`: `HistoryAgrees`. Not inductive by themselves; the
  strengthening adds `RowsPoint` (an approval row names an existing version) and
  `MarkedDone` (an upload between its two UPDATEs has left no approved or draft
  version of replaced input, so the second UPDATE revokes nothing that stands), and
  `OneApproved`. A crash keeps all of it, because none of the parts says that an
  invalidated version's approval is closed.
- `Implements`: `ImplementsRegister`, the store with all its steps is the register
  its callers rely on. `ApprovePlan` is the register's publish (the versions that
  stood retire), `RevokeApproval` its withdrawal, the first UPDATE of an upload its
  expiry, a new version its submission; the rest, a crash too, are stutters. It
  rests on `TypeOK`, `NumberedInOrder` and the bound on rows (`Bounded`).

- `StoreTyped`: `TypeOK` alone, from `Numbering`.

The same module proves of `PlanChoice`, over every behaviour of `PlanStore`:

- `Usable`: `PublishedIsUsable`. What the label says comes from two columns, the
  status and the date, where the store guards only the approval; `ApprovedIsDated`
  ties them, and `PublishedWasChecked` does the rest.
- `NeverReplaced`: `SolveNeverReplaces`. The choice is the first of an order, which
  exists because numbers are bounded (`FirstIsFirst`), so with no preference it is
  the newest published version if there is one (`WellChosen`); a new row has no date
  and takes nobody's place.

`SolveJobsProofs` proves, for every set of jobs, workers, analyses and plans and
every length of the queue, from `JobsAssumption` (the sets are finite, "no job" is
no job, a job has at least one plan to write):

- `JobsInvariant`: the inductive invariant. `TypeOK` says that a worker with a job
  holds a slot; `SlotsOK` counts holders; `PlacesOK` puts each job at one place at
  most, the queue or one worker, and says for each place what the job's state, its
  solver and its records are there (`AtPlace`, and `AtNoPlace` for a job that is not
  asked for or over); `NoIdleSlot` needs nothing more.
- `SlotsAlways`, `HeldOnce`, `Recorded`, `NoneIdle`: `SlotsAccounted`,
  `JobsHeldOnce`, `RecordedWhenReported`, `NoIdleSlot` follow from it. For the first,
  each running solver is mapped to the worker that reads it, which is an injection.
- `Moves`: `JobStateMoves`, one case per action.
- `IsBoard`: `ImplementsBoard`, the service is the board of jobs. `Enqueue` is the
  board's acceptance, a worker's pop its next job, `MarkRunning` the beginning,
  `Finish` the end, and an analysis borrows a slot both when it is woken and when
  its wait times out; the rest, from the fork to the recording and every wakeup, are
  stutters. The step that needs the invariant is a slot: the service tests a
  counter, the board counts jobs and analyses. `TakenAreHeld` maps the workers that
  hold a job one to one to the jobs taken (`PlacesOK`), so that with `SlotsOK` a free
  slot is left on the board (`FreeIsLeft`). `Begin` and `End` need to know of a
  worker's job what its place says of it (`Held`).

`PossessionSlotsProofs` proves, for every number of activities and every set of
supplies (`SlotsAssumption`: at least one activity can occupy the location, fewer
than the validator's "no limit", and supplies are naturals):

- `Typing`, `Accepted`, `Priced`, `Unbounded`: `TypeOK`, `AdmittedPasses`,
  `ExcessIsPriced`, and `BoundNeverBinds`, that the bound on excess excludes nothing
  where excess is only scored. The inductive invariant is `Packing`: the
  slots so far are enough for the activities packed so far; each has a PM or a PC
  at its head as long as one waits; all are full as long as a C waits; and a slot
  without a head follows full ones. So a finished packing takes exactly the least
  number of slots that both inequalities allow (`LeastSlots`), from which the
  three properties follow by arithmetic.
- `Fewest`: `FewestSlots`, that a finished packing is whole and no legal packing is
  shorter. `Holding[n]` is the set of choices that `n` legal slots can hold, a
  recursive function: that it exists (`HoldsExists`) is proved by taking the smallest
  `n` up to which it would not, and so are `HoldingFits` (what `n` slots hold fits
  into `n` by both inequalities) and the invariant `Held` (what is packed is held by
  the slots so far).

`PlanRulesProofs` proves, for every set of loaded instances (`InstancesAssumption`),
all repairs of them (`RepairAssumption`) and every number of activities, weeks and
locations, of the specification that the run checks (`PlanningSpec`):

- `LiftedAreBroken`: `OnlyLiftedBroken`. One lemma per rule of the validator says
  that the solver's constraint for it implies it (`WorkloadRule`, `WeeklyRule`,
  `StartRule`, `PrecedenceRule`, `CapacityRule`, `FrontsSuffice`, `ClosureRule`,
  `EcloRule`, `DateRule`); together they are `ModelPasses`: what the model admits
  passes the validator but for what was lifted. `CapacityRule` goes through
  `LeastSlots` of the other scale; `FrontsSuffice` through the ranks that
  `AssignAccessNights` deals out (`Dealt`). That a plan found with a group lifted
  does break it comes from the proof before: nothing passes without.
- `InfeasibleIsRight`: `ProofsAreRight`, the converse. `PassingIsSolved`: if any plan
  passes the validator, `Solutions` is not empty. The model forbids redundant nights,
  which the rules do not, so the plan is first thinned (`ThinRow`: an ECLO night
  that is not needed becomes a standard one, a night that is not needed is dropped,
  until the row conforms), which no other rule minds (`ThinnedConforms`).
- `Planned`: the inductive invariant `PlanInv` of all commands. `AnswerIsRight` (a
  plan found is a solution of the question asked, an answer of infeasible means there
  is none), `OneAtATime` (at most one thing is changed of the question at once), and
  `LiftedForCause` (while something is lifted, no plan without is worthy of the
  question). The last is why diagnose must start from a proof: without it a group
  could be named that binds nothing.
- `RepairedBest`: `RepairIsBest`, from `RepairInv`. After the first pass was proved
  the plan is optimal (`Optimal`); the lock at its score leaves optimal plans only,
  and all of them where score and objective agree (`LockIsOptimal`), since with a
  lowered supply the score is at most the objective (`ScoreWithinObjective`). That is
  where the property needs `Lowered`.
- `SlotsWithin`: the run's other scale is `PossessionSlots`, with its properties.

The exceptions of the properties (`Comparable`, `Lowered`) are their own, stated
where they are defined, and are inputs on which the code does otherwise (see
Findings); the proofs add none.

`ApiClientProofs` proves, for every set of calls, paths and tokens, every number of
slots and every size of the cache, from `ApiAssumption`:

- `ApiInvariant`: the inductive invariant, `TypeOK`, `SlotsCounted`,
  `JoinersAreServed`, `SessionIsolation`, and two parts that make them inductive:
  `SharedAreLive` (what is in the table of shared reads is a call under way that
  asks that question and that nobody can cancel) and `ScopeIsAuth` (a call of this
  epoch carries this token). The core is `Released`: giving a slot back either
  hands it to the head of the queue or lowers the count, with the queue's elements
  still distinct; `Slots`, `Isolation` and `Joiners` are its parts.

`ClientSessionProofs` proves, from `SessionAssumption` as well:

- `ClientIsApi`: every behaviour of the session and its resource is one of the
  request layer, so the theorems above hold of it (`StepIsApi`, one case per
  action).
- `SessionInvariant`, with `Agreement` and `Shown`: `SessionAgrees` and
  `ShownIsAsked`. The strengthening says that from the moment the effect has read it
  the tab's token is the one in use (`SessionOK`), and that the newest run is a call
  under way that asks for what is to be shown, in this session (`ViewOK`). The
  second needs the isolation of the request layer: a value that is delivered carries
  the token in use (`ValueIsOfSession`).

`ClientPagesProofs` proves, for every number of scenarios, batches, people, plans,
saves, projects, handlers, wizards, jobs, rows, pages and weeks, the invariants of
all eight modules, from `PagesAssumption` and `PlansAssumption` (a page and a window
hold at least one line; the rows of a plan are a sequence without repetitions, whose
weeks count from 1):

- `Reported` (`EndedAsReported`: every row names a job there is, and a job's state
  only moves on), `Fresh` (`PhotosFresh`: a fetch of this generation set out after
  the last change its person was told of), `Coordinator` (`ShownWasSaved`) and
  `OnePlan` (`OnePlanShown`: each hook has asked for what it is to show, whatever the
  others have answered), each over the module's own specification; `PagesKeep` says
  that the composition keeps them.
- `InOrder` (`IndexInOrder`), for every page size. The cursors met fall, all but the
  first are ids of projects there are, and what a page that was answered says of the
  next one continues them (`Continues`); a project created later lies above. That a
  page has its number of projects is about intervals (`ListingContinues`). While a
  page is loading nothing is said of where it goes on, which is why the buttons must
  wait (`CanMove`).
- `ReviewFollows` (`ReviewFollowsRun`). Every handler of a run is bound to a wizard
  there is by a job that was asked for that wizard (`Bound`); past its polls the job
  has ended well, and jobs that ended stay as they are (`Kept`).
- `AdministratorOnce` and `ProjectIsItsOwn` (`BootstrapsOnce`, `ProjectAgrees`), from
  one invariant (`LInv`): there is one sign-in form under way, only it asks for an
  administrator, and only while there is none; and unless projects have crossed,
  each handler waits for nothing or for what is open (`OfOpen`), one that creates a
  project excepted. `HandlerWritten` is the one lemma about a step: it rewrites one
  handler, and either keeps the project or leaves nothing else under way.

- `AccessShown` (`EveryAccessShown`), for every sequence of rows, page size and
  width. What the invariant (`Tabled`) keeps of the state is little, because the
  property is about what is computed from it:
  - the map of groups. `Filled` is a recursive function over the rows; that it exists
    is proved by taking the smallest number of rows for which it would not
    (`FilledExists`). `GroupedMore` adds a row: an access kept stands at one place of
    one group, one dropped stands nowhere, and no group is empty (`GroupsAre`,
    `PlacedOnce`).
  - the order. A table is given by ranks: the line at `n` is the one that `n - 1`
    lines precede. In a finite set under a strict order the ranks of two elements
    differ (`RanksDiffer`), so they are a bijection to the positions, and the table
    misses nothing (`SortedIs`, `ActivitiesAre`).
  - the pages. `PagesJoined`: pages cut up at multiples of the page size and put
    together are the sequence, for every page size, by taking the smallest number of
    pages for which they are not; it needs that the last page is where the quotient
    that counts the pages says it is (`PagesCount`, `PageEnds`).
  - the page in sight is clamped to the last one (`CurrentIs`), and the window to the
    last week (`WindowIs`), so neither is ever empty. The latter needs that a
    finite set of weeks has a largest (`LastWeekIs`).

Every safety property that a passing run checks, the two refinements among them, is
thus a theorem too. Model-checked only: all liveness (`JobSettles`, `SlotsComeBack`, `RequestsSettle`, `LoadingEnds`,
`FormsComeBack`, `BatchEnds`, `HandlersEnd`), which needs fairness and `ENABLED`, and
these the prover does not handle.

## Not modelled

HTTP routing, JSON, text, logging and static files; accounts, login throttling and
the service's side of sessions; the audit chain (a hash chain appended under the
store's mutex); parsing, CSV, the predecessor walk and the calendar of an instance,
which is taken as loaded; the CP-SAT search itself, which is taken as any plan the
constraints admit; the files of a plan, and the validator's rules that compare those
files with themselves (occupancy, `access_seq`, RESULTS); the literal reading of
buffers behind `--no-zone-overlap`; deployment, backup and
derivation scripts. In the browser: everything that only renders, wording and
translations, preferences kept on the device, the text search; the routes that
`App.jsx` no longer mounts (`Project.jsx`, `Workspace.jsx`) and `ScheduleView.jsx`,
which only they use. `PROJECT.json` gives the reason per component.

## Plan

Done, each with its proofs: `PlanStore` and its register, `PlanChoice`, `SolveJobs`,
`PossessionSlots`, whole plans and their repair, the request layer, the session, the
pages and the legacy interface, the tables of the schedules page included.
Next, most important first:

1. `ExportProtocol`: the order of the files of a plan directory, the marker, and
   what `RecordPlanVersions` reads when the solver is killed at any point.
2. `Sessions`: sliding and absolute expiry, disabling and password change against
   a login, the throttle.
3. The `--no-zone-overlap` reading, with a run for the finding above.
4. Pure operators against references: the predecessor cycle walk, the calendar, the
   CSV record splitter; `SolverPipes` for descriptors across forks.
