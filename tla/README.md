# i-STEMer: formal models

TLA+ models of the parts of the i-STEMer system that keep state and run
concurrently, the TLC runs that check them on small instances, and the theorems
TLAPS proves about them for every instance. Paths below are relative to the
repository; SQL files are named by their timestamp and live in
`supabase/migrations/`. When a command is redefined by a later migration, the
last definition is the one modelled.

## The system

A member of a tenant submits a research brief. Three agents work on it one
after the other, each through a durable queue in PostgreSQL: research, reel
analysis, content calendar. A finished calendar becomes a strategy approval for
an owner; an approved strategy lets members prepare one post per calendar day,
each again an approval. Usage is metered and limited per member and month.
Everything that writes is a SQL function (`security definer`), called by pages
or by long-running worker processes. A shell script and a receiver deploy the
application to a staging host. Beside the tenant application there is a demo
of fixtures: an organization, agents, workflows and approvals to look at.

| Component | State | Operations | Modules |
|---|---|---|---|
| Research queue | `agent_runs`, `agent_tasks`, `research_attempts`, `research_outcomes` | submit, claim, fail, complete, retry | `LeaseQueue`, `FencedResult` |
| Reel and calendar queues | the same four tables each | claim, fail, complete, retry | `ChainPipeline` (two more instances of `LeaseQueue`) |
| Fan-out and hand-off | task rows and strategy approvals made by triggers | enqueue in the transaction of a completion; look the evidence up in a claim | `ChainPipeline` |
| Research worker and service | a process with one cycle in flight | poll, observe, dispatch, complete or fail, record usage, stop | `WorkerCycle`, `ResearchWorker`, `ExecutorService` |
| Reel and calendar workers | the same | the same, without observation and metering | `WorkerCycle`, `ExecutorService` |
| Public-source observation | the deadline and the receipts of one cycle | read or give a source up | `ExecutorService` |
| Contracts | none | validate a task, an artifact, a code | `AgentContracts` |
| Approvals and packages | `approvals`, revisions | approve, reject, package, revise | `ApprovalGate`, `AtomicDecisions`, `ApprovalRecords` |
| Allowances and metering | `usage_allowances`, `usage_records` | set a limit, record usage, gate a submission | `UsageAllowance`, `ResearchWorker` |
| Tenants and memberships | `tenants`, `memberships` | any transaction; triggers keep an active owner | `Membership` |
| Read models | none of their own; several statements per read | read a run, a chain, approvals, allowances, the trail | `RunRecords`, `ApprovalRecords`, `BriefPanel`, `TenantDesk` |
| Sessions | a cookie with an assurance level | sign in, second factor, sign out; checks of every request | `TenantDesk` |
| Tenant pages and routes | a screen, requests under way | submit, retry, refresh, decide, prepare, set a limit | `BriefPanel`, `TenantDesk` |
| Staging deployment | release directories, link, systemd drop-in, running service | receive, activate, roll back | `StagingRelease` |
| Demo shell and pages | language and theme in `localStorage`, an address, a palette, a sheet | load, choose, follow a link | `DemoShell`, `DemoSite` |
| Organization graph, diagrams | none | order, lay out, build a tree, list | `PairedViews` |
| Invitations | `tenant_invitations` | a transition guard; no command moves one | not modelled |
| Legacy workflow | `agent_runs` and artifacts of the first migrations | create, deliver, fail, retry; nothing calls them | not modelled |

How they meet:

- The queue commands, submission and every membership change first **write the
  tenant row**. PostgreSQL's row lock makes them one at a time, so a queue
  command is one action of `LeaseQueue`. Approvals, packages, allowances and
  metering take **no** tenant lock; they are modelled one step per statement.
- A queue command reads `memberships` and `tenants`; `LeaseQueue` and
  `ChainPipeline` let both change at any step.
- A completion calls the next queue by a trigger in its own transaction, so
  `ChainPipeline` makes both one action.
- Workers and database share nothing but commands: any of them may be lost,
  may run late, or may run and lose its answer (`ResearchWorker`). What a worker
  does about an attempt it has is `WorkerCycle`: `ResearchWorker` puts several such
  workers on the queue, and each cycle of `ExecutorService` is shown to be one.
- Pages read in several statements and requests what workers and other members
  change in between. What those others may do to the rows a page reads is a
  module of its own, which page and database side share: `RunRecords` between
  `ChainPipeline` and `BriefPanel`, `ApprovalRecords` between `ApprovalGate` and
  `TenantDesk`.

What is hard, with the line and the property for each, is the list `hazards` of
`PROJECT.json`. In short: results that arrive after their lease, reclaim racing
retry, a poisoned queue head, fan-out that costs a finished result, reads
without a lock followed by writes, two writers of one calendar day, revocation
of the last two owners at once, a limit checked around the turn of a month, a
cycle that drops its lease without a word, answers that cross on a page, a
preflight that is stale when the command runs, and a deployment interrupted at
any step.

## The modules

### `LeaseQueue` (with `FencedResult`, `LeaseQueueProofs`, `MCLeaseQueue`)

`run`, `attempts`, `outcome` are the rows of a task; `requester`, `created`
the columns of the task row that commands read. Actions: `Enqueue` (the insert
of `submit_research_brief`), `Claim` split into what it does in its three cases
(`ClaimReap`, `ClaimRefuse`, `ClaimIssue`), `Fail`, `Complete`, `Retry`, the
environment `SetTenant` and `SetMember`, and `Tick`. A command that raises rolls
back and is not a step; its refusals are the guards. Callers are absent: any
attempt ever issued may be reported at any time. `expires_at` is the number of
ticks left. `ORDER BY created_at, id` is `Chosen`: ids are random, so tasks of
one `created_at` come in any order.

`FencedResult` is the abstract promise: a register per task takes one value,
only from the holder of the newest token. `ImplementsFencedResult` is the
refinement, by token = number of attempts, open = some attempt running.

### `ChainPipeline` (with `ChainPipelineProofs`)

Three instances of `LeaseQueue` over their own rows, sharing tenant and members.
Identity of a downstream task is the upstream attempt it came from, the
idempotency key of the fan-out triggers. `ResearchComplete` and `ReelComplete`
insert the next task; `CalendarComplete` inserts the strategy approval; the
claims guard on the evidence they look up. `StagesAreQueues` says that the
composition still gives each stage the behaviour of `LeaseQueue`.

`RunRecords` is the chain as a reader of the tables sees it, without leases,
members or workers: by brief and stage a run with the state, number and offer of
its last attempt, where the run of a stage comes with the completion of the stage
before. `ReadersSeeOneChain` is the refinement, by `ShownRecords`; the one thing a
reader cannot tell apart is a claim that was refused from an attempt that failed
at once.

### `WorkerCycle`

What a worker is from the outside: `Take` an attempt, settle it without the agent
(`SettleUnasked`: no source inspected, evidence that does not bind, no media, an
endpoint nobody may talk to) or `Ask` the agent, `Answer` with one verdict, `Meter`
a completion, `Leave` at any time. There is no clock, no source and no validator
in it. It is the seam between the two models of a worker below: the phases of
`worker` in `ResearchWorker` are its own, and `ExecutorService` maps the statement
a cycle stands at to one of them (`ShownWorker`).

### `ResearchWorker` (with `ResearchWorkerProofs`, `MCResearchWorker`)

Extends `LeaseQueue` with the workers of `WorkerCycle`. `Poll`, `Observed`, `Dispatched`,
`CompleteAnswered`/`FailAnswered`/`CommandRefused`, `UsageRecorded`/`UsageLost`
follow `runResearchWorkerCycle` by what reaches the database. `Abandon` is a
process that dies or gives a command up, which then becomes a `stray` that
`Deliver` may run at any later moment. A worker reads its own clock: with
`SkewedClocks` the comparison with `expiresAt` may come out either way. A handoff
that does not bind to its task fails before a source is looked at (`Take`).
`WorkersUseTheQueue` and `WorkersKeepTheCycle` say that the composition gives the
queue the behaviour of `LeaseQueue` and the workers that of `WorkerCycle`.

### `ExecutorService` (with `AgentContracts`, `ExecutorServiceProofs`)

The other side of the same worker: one process, statement by statement, and
for all three agents, because the three services are the same code over other
contracts. `agent` is chosen at the start. A record of `cycles` is one call of
`run…WorkerCycle`: `at` is the `await` it stands at, `left` what its clock says
remains of the lease, `timer` the timeout that is running, `body` the pieces
of the response so far, `sent` the commands issued. `TimerTick` is the interval
with its `cycleInFlight` guard, `Settle` the `finally`. `ObserveStart` and
`SourceTimeout` are the deadline of `source-observer.ts`; `ResponseData` shows
that the dispatch timeout is the idle timeout of a socket and only the size
limit ends an answer that keeps coming; `Answered` reads the clock again and
asks `ArtifactProblem`. Where the executors differ the action says so: the
research cycle checks the binding before the clock and takes the remainder of
the lease as its timeout as it is, the reel cycle completes without an agent
when no media was supplied. `CyclesAreWorkers` is the refinement of `WorkerCycle`.

`AgentContracts` holds the failure codes, the mapping of wire codes to them and
the validators, reduced to what they tell apart.

### `ApprovalGate` (with `AtomicDecisions`, `ApprovalGateProofs`, `MCApprovalGate`)

`strategy` is the status of a calendar's approval, `posts` the finished-post
approvals. Each session runs one command, one action per statement that locks,
reads or writes what others write; `rowLock` and `dayLock` are held until the
commit. A waiting `UPDATE` re-reads the row when the lock comes free, so
`PackageSupersede` acts on the rows that are pending then. `WaitsFor(s)` are the
sessions whose locks keep `s` where it is; `NoStandoff` is about the graph they
make.

`AtomicDecisions` is the abstract promise: no statements, no locks, no sessions,
each decision, package and revision at one moment. `CommandsAreAtomic` is the
refinement, under which only the last write of a command is a step. It does not
promise that a post's strategy is approved at that moment, only that it once
was (`everApproved`): the gate is read by an earlier statement (see findings).

`ApprovalRecords` is what a reader sees of one calendar's approvals: the status
of the strategy and of each post, where rejected, superseded and overtaken are
one status, closed. It is what the page's environment takes its steps from.
`ReadersSeeOneApproval` says that `ApprovalGate` keeps to it for every calendar,
by `ShownRows(c)` and `Given(c)`.

### `UsageAllowance` (with `BriefProofs`, `MCUsageAllowance`)

`submit_research_brief` from its first write of the tenant row to its insert,
`set_usage_allowance` and `record_agent_usage`, with `NextMonth` between any two
statements. A replay ends in `SubmitBegin` and is therefore no step. `spent`
remembers the submissions that began with nothing left. The consumption of a
month is the number of its tokens (`ConsumedTokens`): a row of `usage_records`
stands for as many tokens as it reports.

### `Membership` (with `TenancyProofs`, `MCMembership`)

The schema ships triggers but no commands for memberships, so the writers are
all the transactions a command could be: `Begin` with or without a snapshot,
`WriteMember`, `WriteStatus`, `Commit` with the deferred check, `Rollback`. The
row version of the tenant is the set `stale` of sessions whose snapshot it has
overtaken.

### `StagingRelease` (with `StagingReleaseProofs`, `MCStagingRelease`)

A job is one deployment: receiver, then activation script. One action per
command that changes the host, `StepFails` for `set -e`, `Signal` for the traps,
`Kill` and `Reboot` for what no trap sees. `disk` tells an absent, a partial and
a complete release directory apart; `unit` is what systemd has loaded, which
lags behind `dropin` until a reload. What the service answers is what it was
started from. `RollbackLink` and `RollbackDropin` follow the `set +e` of the
rollback (`:90`): renaming the old link back may fail and is then critical
(`:97-100`), removing the link of a first activation or its drop-in may fail and
nobody looks (`:103`, `:105`).

### `BriefPanel` (with `RunRecords`, `BriefProofs`, `MCBriefPanel`)

`WorkflowBriefForm.tsx`, its routes and `research-read.ts`, `chain-read.ts` and
their neighbours. `db` is `RunRecords` for each idempotency key, so the page is
checked against exactly the environment that `ChainPipeline` is shown to be.
`ops` are the requests of the page: a refresh reads the research run (`ReadRun`:
`ReadState`, `ReadAttempt`, `ReadOutcome`), then `ShowRun` and `ReadChain`, then
each later stage that has a run by the same statements over its own tables
(`ReadReel`, `ShowReel`, `ReadCalendar`, `ShowCalendar`), with the workers between
any two of them. A run that has succeeded by one statement and whose artifact
belongs to another attempt is the `invalid_contract` of each read (`Broken`). The
later reads also compare the revision their artifact cites with the one the brief
of its task names; both are written once and compared when the attempt completes,
so that comparison has no moment of its own. A POST that fails for its caller, of
a brief or of a retry, may still arrive (`late`); one that would do nothing any
more is dropped from there. A retry of an attempt that was retried already is
answered as accepted and does nothing (`Effect`), as `retry_research_attempt`
does. `Load` is a reload of the address, which forgets the form but not the run.

### `TenantDesk` (with `TenancyProofs`)

The tenant page with one of its panels (`panel`), the session it is opened with
and the routes of its posts. A request passes `Gate`, `Identity`, `Member`,
`Assurance` and `Tenant`, each a statement that awaits, and ends in `Verdict`,
`Package` or `Limit`, the command with its own checks. `Others` decide, prepare,
set limits, change membership and tenant meanwhile; the approvals they submit,
decide, prepare and overtake are steps of `ApprovalRecords`, so a strategy may be
approved, a post packaged and the strategy gone before the page has read both.
`DeskKeepsTheApprovals` says the desk adds nothing to them. `Answered` remembers what
was done and reloads the panel; `Read` and `Show` are that load.

### `DemoShell`, `DemoSite`, `PairedViews` (composed in `MCDemo`, with `TenancyProofs`)

`DemoShell`: windows that share a `localStorage`. `GetLang`, `GetTheme`,
`SetLang`, `SetTheme` are the effects of `AppShell.tsx`, each read and write of a key
a step. `LastChoiceSurvives` holds while windows do not get in each other's way
(`undisturbed`): a page that reads a key while another window writes, one that is
left while it writes, and one that stood between its reads and its writes at the
choice do lose it, and nothing is claimed until a choice none of these overlaps.
`DemoSite`: the roster, the adapter that renames members into agents,
the pages each of the two applications answers for and the links each page
draws, those of sign-in and recovery in both languages among them, the command
palette, and the sheet of further links over the quick bar of small screens.
`PairedViews`: each page that
draws a picture and lists it beside, with the lists of statuses and the captions
below; `OrderNodes`, `Layout` and `ToTree` are
`packages/core/organization`, with `Projections` all small hierarchies. The
three share no variable, so `MCDemo` lets only one of them move at a time.

### Named bounds

`MaxAttempts` is the code's own limit (3 in the SQL); in `RunRecords` and
`BriefPanel` it is given by key and stage. `Lease`, `IdleTimeout` and
`ObserveLimit` count clock ticks, `Chunks` the pieces of a response that fit into
its size limit. `MaxPosts`, `MaxRevisions` and `MaxLimits` bound packages,
revisions and limits, `MaxKeys` the idempotency keys a page draws, `MaxMonth` the
clock of `UsageAllowance`. Everything else is finite because the sets of tasks,
members, keys, sessions and jobs are.

## The runs

| Run | Instance | What it shows |
|---|---|---|
| `lease_queue` | 2 tasks, 1 user, 2 digests, 3 attempts, 3 codes, 2 stamps, lease of 2 ticks | every further attempt was asked for, revocation stops work at once, the queue refines `FencedResult` |
| `chain_pipeline` | 2 briefs, 1 user, 2 attempts a stage, 2 codes, lease of 1 tick | one successor per outcome, fan-out never refuses, hand-off finds its evidence, the tables refine `RunRecords`, a brief is answered |
| `research_worker` | 2 workers, 2 tasks, 2 attempts, 4 codes, skewed clocks | exclusive leases, one dispatch per attempt, true reports |
| `usage_gap` | 1 worker, 1 task | *violation*, see findings |
| `executor_service` | each agent, 2 items, 2 slots, lease of 3 ticks, timeouts of 2, 2 pieces | no overlapping cycles, one verdict, grounded completions, no silent drop, the cycles refine `WorkerCycle`, the service keeps claiming |
| `approval_gate` | 2 sessions, 2 calendars, 1 day, 3 packages, 2 revisions | one open decision per day, gates, the commands refine `AtomicDecisions`, none waits in a circle |
| `membership` | 2 users, 2 sessions | an active tenant keeps an active owner |
| `usage_allowance` | 2 members, 2 keys, 2 sessions, 2 months | the gate, its replays, its race with revocation |
| `staging_release` | 3 jobs, 2 commits | whole releases, no wedged host, true success, a rollback that is one, but for removals that fail |
| `brief_panel` | 2 drafts, 2 requests at once, 2 keys; of the first, 2 attempts at the research and 1 at each later stage, of the second 1 at research and reel | one run per brief, reads of all three stages that never look corrupt, a coherent screen after a lone refresh, retries only of what failed |
| `tenant_desk` | 2 requests at once, 1 package, 2 limits, each panel | preflights are not trusted, what the panel says is so, a panel at rest shows what was done in it |
| `demo` | 2 windows; both applications; organizations of up to 3 nodes and the two fixtures | an undisturbed choice survives every page that follows, every link resolves and the palette highlights what it lists, picture and list agree |

Why the bounds are enough to be of use: two tasks let one queue head block
another; three attempts is the code's limit, so the last one is reached; two
digests tell a conflicting result from a repeated one; a lease of two ticks
separates live from expired and leaves room for a step between. The pipeline
needs two briefs for a result to be handed to the wrong one, and two attempts
for a late one. Two sessions are what a race of two takes; three packages let a
day be superseded twice. Two limits' worth of usage arise from two keys and a
figure that equals the limit. Three jobs allow a success, a deployment that
dies, and one that has to cope with what it left. A lease of three ticks and
timeouts of two let each end before the other; two items tell some from all;
a second slot is where a second cycle would show. Two requests at once are what
it takes for answers to cross, two keys for a brief to be submitted twice; a
second attempt at the research is what a late or repeated retry needs. The later
stages are read by the same statements; they have one attempt here, retries at
them are left to the theorem. In
the demo the reader and the palette have no bound at all, and three nodes make
every shape of a reporting line: a chain, a fork, two roots, a line to nobody.
What needs *more* actors than these is covered where a theorem exists and is not
covered elsewhere.

`CHECK_DEADLOCK` is on where time, members or a reboot can always move.
`executor_service`, `brief_panel`, `tenant_desk` and `demo` turn it off: a stopped
service, a page whose runs are finished and whose keys are spent, and a chart
with nothing beside it really stop.

Symmetry is used for sets whose elements no definition tells apart, and in no
run with a liveness property.

### Fairness

- `ChainPipeline!FairSpec`: each of the three queues has a service that keeps
  claiming, and time passes. The services claim on a timer for as long as they
  run. Nothing else is owed: a cycle may die anywhere with its lease, a person
  may never retry.
- `ExecutorService!FairSpec` says why a service keeps claiming: the event loop
  runs the next statement, timers fire, time passes, and the database answers or
  its client gives up. Nothing is assumed of sources and agents. `Untimed` is the
  exception the property makes: a research request opened in the tick in which
  its lease ends has a timeout of 0, which Node takes for none.
- All other modules state safety only: callers, transactions, readers and
  deployments owe nothing. That approval commands never block each other for
  good is the invariant `NoStandoff`, which needs no fairness to say.

## Findings

`usage_gap`: `research-worker.ts:194-195` says the gap left by a lost metering
call "is visible either way". An attempt whose call is lost has no row in
`usage_records`, and the summary counts rows only, so it is neither among the
consumed tokens nor among the unreported runs.

Met while modelling, without a run of their own:

- The calendar gate of a post is read in a statement before the decision is
  written and without a lock (`20260921130000:49`), although
  `20260921110000:10-11` says it is "re-checked when the decision is actually
  recorded". No code appends a second calendar revision today, so nothing can
  come in between. In the same command the approver's role is read once at the
  start (`:34`).
- The verdict and allowance commands check the tenant's status before they lock
  anything; a suspension that commits in between does not stop them.
- `istemer-staging-activate.sh:115` prints "Previous service is responding after
  rollback." after any answer on the port; the restart before it may have failed.
  `FailureIsUndone` therefore claims nothing of the service after a rollback whose
  own restart fails. The same message follows a removal of link or drop-in that
  failed (`:103-108`). It happens in the first activation only, so what can be left
  is that activation's own release, on a host where none has succeeded before; the
  property says exactly that.
- A kill during the *first* activation, between drop-in and link, leaves a host
  the script refuses to touch (`NeverWedgedAgain` starts with the first success).
  A kill between the switch and the check (`:166`) leaves an unchecked release as
  the one the next deployment rolls back to.
- `research-worker.ts:151-155` passes a remainder of 0 on as the timeout of the
  request, which Node takes for no timeout; the other two workers leave the
  cycle. `docs/ADAM_OMAR_REPAIR_PACKET.md:195` calls the timeout "capped at the
  remaining lease budget".
- Two tabs that enrol a second factor at once both find none
  (`mfa-actions.ts:13`) and leave two unverified ones behind.
- Two tables give a role its domain: by `fixture-adapter.ts:159-164` the Content
  Creator belongs to social, by `organization.ts:52-58` to marketing, so the agent
  page and the graph put Nour in different domains. `RoleDomain` is the adapter's.
- The organization graph draws every kind of edge and the tree only
  `reports_to`. A node whose supervisor is not in the projection is in the graph
  and not in the tree, and a loop of reporting lines would not end; `Hierarchies`
  has neither, nor have the fixtures. Five nodes in one rank, as Northwind has,
  put circles over the edge of the canvas.

## What is proved

All theorems are of the form `Spec => ...` for every value of the constants that
meets the named assumption of the module; the assumptions say that sentinel
values differ from real ones and that bounds are natural numbers;
`BriefPanelAssumption` also numbers the requests of a page, because the first free
number is taken. Proofs that a
step keeps an invariant have a lemma per action and one that combines them.

### `LeaseQueueProofs`

`IInv` is `TypeOK` and, for every task, `TaskInv`: codes and offers obey the
table's checks, every row but the last had its retry requested, the run row and
the last attempt row agree, and an outcome exists exactly when the run succeeded
and is the work of the last attempt. The invariants are not inductive one by
one: that `Complete` leaves one winner needs that only the last attempt runs,
which needs that `Retry` and `Claim` open a new one only over a failed row, which
needs that the run row tells the truth. The commands of one task leave the others
alone by a frame lemma. From `IInv` follow `TypeCorrectness`,
`QueueNeverPoisoned`, `RunsMatchAttempts`, `OneResultPerTask`, `ChecksNeverTrip`,
`RetriesAreAskedFor`, the action properties `FinishedStaysFinished` and
`RevocationStopsWork`, and the refinement `QueueIsFenced`: initial states map to
initial states and every step to a step of `FencedResult` or a stutter. Five of
these (`NoPoisonedHead`, `RunMatchesAttempts`, `OneWinner`,
`AttemptRowsPassChecks`, `FinishedIsFinal`) are stated here only: the theorem
covers every instance and no run repeats them.

### `ChainPipelineProofs`

`IInv` has three parts. `Queues`: the invariant of `LeaseQueue` for each stage.
`Links`: a downstream row exists exactly for the attempt that won upstream, and
has its requester. `Approvals`: the same of the approvals. Each action of
the composition is a `LeaseQueue` step of one stage and no step, or one `Enqueue`,
of the others, so the queue theorems are used, not repeated (`EveryStageIsAQueue`).
That the fan-out meets no row in its place (`FanOutIsFree`) needs that an
attempt finishes once, which is the queue's; that a claim finds its evidence
needs that outcomes are never taken away.

`ChainKeepsTheRecords` is the refinement of `RunRecords`. What each command of a
queue does to the row a reader sees is a lemma of `LeaseQueueProofs` (`ClaimSeen`,
`FailSeen`, `RetrySeen` and the rest); which task stands for a later stage of a
brief follows from the outcomes upstream (`OutcomesTellRows`), because `Links`
holds and one attempt wins. Together every action of the pipeline shows a reader one step of
`RunRecords` or none, for any number of briefs, members and attempts.

### `ResearchWorkerProofs`

On top of the queue's `IInv`: what a worker holds was issued (`OwnInv`), to it
alone (`Apart`), an attempt that does not exist was not dispatched
(`DispatchInv`), strays and reports are about attempts that exist (`StrayInv`,
`ReportInv`). Every step is shown to be a queue step first
(`WorkersKeepToTheQueue`) and next to it a step of one worker
(`WorkIsCycleStep`, `WorkersKeepTheirCycle`). With the first the refinement
composes to `FencedResult` (`WorkersAreFenced`), and `KeepsVerdicts`, an action property of the queue,
carries what was reported through every later step. `LeasesAreExclusive`,
`NoDispatchIsRepeated` and `ReportsStayTrue` hold for any number of workers
and clocks that disagree.

### `ExecutorServiceProofs`

`IInv`: at most one cycle is under way and only while `cycleInFlight` is set;
`PlaceInv` says what a cycle has done at each place, `VerdictInv` that there is at
most one verdict and a fit one, `EvidenceInv` what a completion rests on. Each
statement is shown to leave the record of its cycle in order and to settle
without a verdict only for a reason (`InOrder`); the invariant and the action
property `LeasesAreAnswered` both follow from that one fact, and so does the
refinement `ServiceIsAWorker`: each statement also says which step of a worker it
shows, if any (`Shows`), and the tick of the clock, which touches every cycle at
once, shows nothing (`TickShowsNothing`). It needs the invariant in two places: a
timer starts a cycle only in a slot that is at rest, and the call a cycle waits
for is the one it has sent (`OwnCalls`). With `WorkersKeepTheirCycle` the two
models of a worker share one abstraction, written once: the worker steps of
`ResearchWorker` are those of `WorkerCycle` with what they do to the queue beside
them, and a service makes no others. The lemmas about `FailureCode` and
`ArtifactProblem` say what the validators let through.

### `ApprovalGateProofs`

`SessionInv` says, for each statement a session stands before, what it relies
on: the row or the day it has locked and, before it inserts a package, that it
holds every decision still open for that day. `RowInv` says what the others
respect: a locked row is pending and its holder has a reason. `StrategyInv` and
`PostInv` remember that a post belongs to a calendar whose strategy was approved,
`DayInv` that a day is locked only by a session preparing a package for it.
`OneDecisionPerDay`, `PostsTraceToApproval` and `DecisionsStay` follow;
`DecisionsAreFinal` is stated here only.

`NobodyWaitsForever`: a package waits for rows while it holds its day, and an
approval or a rejection holds its row while it waits for nothing (`RowHolder`),
so of any number of sessions none waits in a circle. `LocksMakeAtomic` maps each
last write to a command of `AtomicDecisions`; for a package it needs that the
rows it locked are all that is open for its day and still are when it inserts.

`GateKeepsTheRecords` takes those commands one level up, to what a reader of one
calendar sees: a decision or a package of another calendar leaves its rows alone
(`RowDecided`, `PostPrepared`), a revision closes one row, and a verdict approves
a post only after the strategy was approved once.

### `StagingReleaseProofs`

`LockInv`: the lock makes the jobs one sequential program that may stop anywhere.
`DiskInv`: nothing refers to a release that is not whole. `PlaceInv`: for each
place at which the script can stop, what the host looks like and what the script
remembers of it. `ActiveReleaseIsComplete`, `HostStaysUsable`,
`SuccessMeansServed` and `FailureMeansUndone` follow. The last is two statements: a
job that replaced a release reports a rollback only with that release and its
drop-in back in place, and one that found no link can have left no link but its
own, because a host where an activation has once succeeded keeps a link.

### `BriefProofs`

*The brief page.* `PanelTypeOK` and `IInv`: keys are drawn in order (a key that
has a run, or may still get one, was drawn), two keys of one page with one
content have another content between them, and what a request has read agrees
with a run that only goes on; a run of a later stage comes only of a finished one
(`RowsInv`). That reads never look corrupt, of whichever stage, needs that runs go
on (`RunsGoOn`): an artifact is asked for after the run was seen finished, and a
finished run keeps its last attempt. That a lone refresh is coherent needs that while it
is alone nobody else writes the screen. `OneRunPerBriefHolds`,
`ReadsNeverTripHolds`, `LoneRefreshIsCoherentHolds` and the action property
`RetryOnlyWhatFailedHolds` follow. `PageKeepsTheRecords` shows that page, routes
and late requests make only steps of `RunRecords` (`StepReads`): the page adds
nothing to the records that the pipeline would not do.

*The allowance.* `SubmissionInv`: a submission past its first statement holds the
tenant row, so tenant, membership and key are as it read them;
`ReplaysPassTheGate` and `CreationIsAuthorised` follow, for any number of
sessions that send the same key. `SpentInv` adds that the consumption of a month
is the number of elements of a finite set that only grows until the month turns,
so a submission that began with nothing left has nothing left unless the limit is
raised; `ExhaustedStays` follows.

### `TenancyProofs`

*The desk.* `DeskInvariance`: what a request in flight has read, what was done in
the panel and what it shows of it, with decisions that stay decided.
`RestedPanelShowsItsActsHolds`, `WhatIsSaidIsTrueHolds` and the action property
`PreflightIsNotTrustedHolds` follow for any number of overlapping requests.
`DeskKeepsTheRecords` shows every step of the tab and of the others to be one of
`ApprovalRecords` (`StepIsShown`). It and `GateKeepsTheRecords` are two halves of
one argument: what is proved of the approvals panel holds over what the commands
of `ApprovalGate` do to a calendar, because the others of the desk take every step
of the records that those commands are shown to keep. The panel that prepares
posts reads the strategy only, so there the others move no post.

*Memberships.* A commit checks an owner in its own view; that says something
about the database only because the view is the database plus its own rows.
`OwnerInv` adds why: only the holder of the tenant row has uncommitted writes,
the holder is not stale, and a snapshot that is not stale equals the database.
`LastOwnerStays` and `NoStaleWriters` (a theorem only) follow.

*The demo shell.* `ShellInv`, while windows keep out of each other's way and the
browser stores what it is given: of each key the store has the last choice, or a
window at work will still write it (`Kept`), and what a window has read since the
choice is the choice (`Knows`). `ChoiceSurvives` follows for any number of windows
and has the same condition (`undisturbed`): it promises nothing for a choice that
another window overlapped, and the code keeps no such promise.

Several components are proved in one module, so their specifications carry the
component's name: `AllowanceSpec`, `MembershipSpec`, `ShellSpec`.

### What stays with TLC

- Liveness (`EveryBriefAnswered`, `ServiceKeepsClaiming`): what is owed under
  fairness is out of the prover's reach.
- `EveryLinkResolves` and `BothViewsAgree`: the first is about the two fixtures as
  they are, without a parameter, so the run is already exhaustive; the second
  compares what folds and recursion compute over hierarchies, which needs
  induction over data. TLC evaluates all fixtures and all small hierarchies.
- `UsageGapIsVisible` is refuted, not proved.

Every other property of a run is a theorem. Eight more are theorems without a run,
because the theorem covers every instance: `StagesAreQueues`, `WorkersUseTheQueue`,
`WorkersKeepTheCycle`, `DecisionsAreFinal`, `NoStaleWriters`, the records of the
brief page, `ReadersSeeOneApproval` and `DeskKeepsTheApprovals`, with the five of the
queue above.

## What is not modelled, and why

- **Legacy workflow** (`20260915225316`, `20260915225557`, `20260915230015`):
  nothing calls these commands. `persistence.ts`, their one client, has no
  importer. The approval command of that time lives on, redefined, in
  `ApprovalGate`.
- **Invitations**: a transition guard without a command that moves one.
- **Contract validation** of briefs, of packets and of the fields of outcomes:
  pure checks of a payload, each passing or refusing before anything is written.
  What the validators of the executors tell apart is in `AgentContracts`.
- **Signing, framing, TLS** of the dispatch and the screening of source
  addresses: outcomes of `ResponseEnd` and `SourceRead`.
- **Row-level security and grants**: who may call a command is static; the
  authority that can change (membership, tenant) is in the guards.
- **Audit rows**: written with every command in the same transaction, read by
  nothing that decides. How the trail is shown is in `TenantDesk`.
- **The usage summary** is a sum over rows; what it leaves out is `usage_gap`.
- **Password recovery and enrolment of a second factor**: left to the identity
  service but for one redirect.
- **Demo**: `RehearsalFlowPanel`, cards, badges and the body of the detail views are
  wording and layout over one fixture; `runInitialMarketingWorkflow` of the engine
  is a straight line no application calls; the staging-task registry and the
  agent transport client have no caller; `support.js` in the workflow exports
  is a vendored bundle.
- **Packaging and host installation** (`verify-staging.py`, the installer, the
  workflow file) and the lint scripts: run once, by hand or on a build machine.
