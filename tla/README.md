# SparkPilot in TLA+

SparkPilot is a control plane for Spark: an HTTP API (FastAPI) writes runs,
environments and their operations into PostgreSQL, and worker processes poll
that database and drive AWS (EMR on EKS, Terraform, Athena). Nothing but the
database connects the processes, so everything that can go wrong between them
goes wrong through rows, locks and transactions. That is what is modelled here.

Contents: [the system](#the-system-and-its-parts), [the
modules](#the-modules), [what TLC checks](#what-tlc-checks), [what TLAPS
proves](#what-tlaps-proves), [where the documents and the code
differ](#where-the-documents-and-the-code-differ), [seen while
modelling](#seen-while-modelling), [what is not
modelled](#what-is-not-modelled), [plan](#plan).

## The system and its parts

| Part | Code (under `src/src/sparkpilot/`) | State it keeps | Operations | What makes it hard | What makes it correct |
|---|---|---|---|---|---|
| Run lifecycle | `services/crud.py`, `services/workers_common.py`, `workers_scheduling.py`, `workers_reconciliation.py`, `workers.py` | `runs`, `usage_records` | submit, cancel; claim, dispatch, retry; time out, cancel on EMR, copy EMR's state | several workers of a kind, batches committed at once after calls to EMR, cancels that do not lock | one job per run, terminal states that agree with EMR, usage with the outcome, every run settles that EMR lets settle |
| Submission and quota | `create_run`, `quota.py` | `runs`, `environments` (limits, status) | admit a run under `FOR UPDATE` of its environment | status read before the lock, deletion beside it | limits hold, only ready environments get runs |
| Idempotency | `idempotency.py` | `idempotency_records` | reserve, execute, replay, conflict | two requests with one key, a failure in between | at most one effect per key, true replays |
| Provisioning | `services/workers_provisioning.py`, `terraform_orchestrator.py`, environment functions of `crud.py` | `provisioning_operations`, checkpoints in `audit_events`, `environments.status` | create, retry, delete; claim with a TTL, stage by stage, resume | claims that expire under a slow Terraform, no fencing, unlocked checks | ready means built, one worker per operation, no stage lost, every operation ends |
| Preflight | `services/preflight.py`, `preflight_checks.py`, `preflight_byoc.py`, `iam_validation.py`, `lake_formation.py` | a dictionary per process | build, merge, cache for a TTL, trim | a result outlives what it was made of; the key leaves the run out | what is let through or failed is what checks within the TTL say |
| BYOC-Lite | `workers_provisioning.py:538`, `aws_clients.py` | `environments`, the namespace in AWS | prerequisites, trust, look, create, commit, retry | a crash between AWS and the commit, strangers in the namespace | ready means a virtual cluster of its own |
| Trust policy | `aws_clients.py:656-900` | the role's trust policy, in AWS | check, merge and write, check again | read, merge and write without a version | updates suffice, take nothing away, converge |
| Usage and cost | `services/finops.py` | `usage_records`, `cost_allocations`, budgets | record, query the bill, reconcile | a query that fails, the oldest 200 only | actual costs are final, none is starved |
| Policies, golden paths, releases | `policy_engine.py`, `services/golden_paths.py`, `emr_releases.py` | policies, paths, catalogue | evaluate, create, deactivate, synchronise | they change between submission and dispatch | hard policies bind at both gates |
| Contact form, invites, identities | `api.py`, `services/internal_admin.py`, `invite_email.py` | submissions, links, identities | submit, decide, create, regenerate, accept, call back | threads that look before they write; mails and states that get lost | one tenant per approval, one sign-in per link, one actor per user |
| Airflow and Dagster providers | `src/providers/` | a task's or trigger's memory | submit, poll, cancel, retry | lost answers, late effects, deaths | one run per key, the run's outcome, no endless wait |
| Other clients and surroundings | CLI, UI, Terraform of the control plane | none of the control plane's | | | |

They interact as follows. A provider posts a run; `post_run` goes through
idempotency and quota and inserts it; the scheduler claims it, runs preflight
and starts an EMR job; the reconciler copies EMR's answer back and records
usage; the provisioner makes environments ready, which submission and preflight
depend on; the reconciliation with the cost report (CUR) joins usage with the bill, and the
budget check of preflight reads the sum. Apart from the sign-in callback, and from preflight,
which may write the trust policy it looks at, there are no callbacks and no
messages besides HTTP: each process sees the others only through committed rows
and through AWS.

`PROJECT.json` has the same inventory with every part of the repository, and
the list of hazards that the properties answer to.

## The modules

    OnceRegister  <--- extends --- ProviderClients ------> RunStates       abstract
         ^ implements                                         ^ implements
    Idempotency                                         RunLifecycle    detailed
         ^ extends, implements
    RunAdmission      Provisioning      Onboarding      TrustPolicy

    PreflightChecks   CostLedger
            ^ extend     ^
            DispatchGate                                                composed

`MC<Module>` adds the model values and the symmetry of TLC's instances;
`<Module>Proofs` has the theorems. Mutants, each beside the definition it
varies and named after it, are plausible mistakes in the code; each property of
a run is violated by one of them.

PostgreSQL is modelled at READ COMMITTED throughout: a statement sees what is
committed when it runs, an UPDATE waits for the row's lock and then tests its
WHERE clause on what it finds, and SQLAlchemy writes the attributes that the
session changed, on the objects it loaded.

### RunStates and RunLifecycle

`RunStates` is what a reader of the table `runs` may see: the state of each run
and the edges between states: `ForwardEdges`, those of `docs/architecture.md`,
and `LateCancelEdges`, which only the code has.

In `RunLifecycle` the database is the committed rows `db`, the version `draft`
that the holder of a row's lock has, and `lock`. A worker iteration is a
transaction: `Poll` selects candidates, `ClaimRow`/`SkipRow` is the conditional
UPDATE of one candidate (rowcount 1 or 0), the loop body is one action per
outcome, `CommitTxn` publishes the drafts.

| Action | Code |
|---|---|
| `CreateRun` | `create_run`, the insert |
| `CancelRead`, `CancelWrite` | `post_cancel_run` loads the run, `cancel_run` decides on that and writes |
| `Poll`, `ClaimRow`, `SkipRow` | `_claim_runs` |
| `DeclineDispatch` | `process_scheduler_once`: cancelled already, or preflight not ready |
| `Dispatch`, `DispatchError`, `DispatchAnswerLost` | `_dispatch_run` with `_apply_dispatch_result`, or `_handle_dispatch_failure`; the last when EMR got the request and the answer did not arrive |
| `TimeOut`, `CancelDispatch`, `Observe`, `ReconcileError` | one savepoint of `process_reconciler_once` |
| `CommitTxn`, `Crash`, `DeadlockVictim` | the end of an iteration: commit, death or failed commit, aborted by PostgreSQL |
| `JobMoves`, `Tick` | EMR and the clock, external |

A claim token never outlives its transaction, so it is not a variable: the lock
and the state test of the UPDATE, evaluated again when the lock is granted, are
what keeps workers apart.

EMR accepts CancelJobRun for a job that is live or already being cancelled, and
refuses it for one that is over. Both `_mark_run_timed_out_if_needed` and
`_dispatch_run_cancel_if_requested` send it before anything asks how the job is,
so for such a job only `ReconcileError` is left, at every poll: the run is
`Stranded`. `job` and `jobs` keep which EMR job a row points at and
how EMR sees it; `starts` counts StartJobRun requests that EMR accepted.

Abstracted: the resources, arguments and logs of a run, audit events, the
outcome of preflight (either), the LIMIT of a poll, engines other than EMR on
EKS. `dispatching` is never committed, so no row has it.

### OnceRegister and Idempotency

`OnceRegister` is the contract of an idempotency key: a key is done at most
once, for one body, and a reply is either that of the request that did it or a
refusal. `Idempotency` is `with_idempotency`, one action per database operation:

| Action | Code (`idempotency.py`) |
|---|---|
| `LoadHit`, `LoadMiss` | the look-up: replay or conflict, or go on |
| `Reserve`, `ReserveRefused` | the flush of the placeholder: the unique index lets one in, makes others wait for its transaction, and refuses them if it committed |
| `Reload` | rollback and second look-up of the loser |
| `Execute` | `execute()`, whose writes are uncommitted, and the final status |
| `Commit`, `Fail`, `Crash` | the commit of both, the rollback of both by an exception or by the end of the process |

The caller's resource is abstracted to the fact that it took effect (`made`).

### RunAdmission

`post_run` is `Idempotency` around `create_run`; the module EXTENDS Idempotency
and gives its `Execute` a body. One environment is enough: keys and locks of
different environments do not meet.

| Action | Code |
|---|---|
| `Arrive` | `post_run` loads the environment, before `with_idempotency`; all that follows decides on the `status` seen here |
| `AroundExecute` | the steps of Idempotency other than `Execute` and `Commit` |
| `LockEnvironment` | `SELECT ... FOR UPDATE`, which does not refresh the loaded object |
| `Admit`, `Refuse` | `create_run` from the lock on: status, both quotas, golden path and policies (a free refusal) |
| `CommitRun`, `Die` | the commit, which releases the lock; the end of the process |
| `ReadEnvironment`, `CheckRuns`, `CheckOperations`, `RetryWrite`, `DeleteWrite` | `retry_environment_provisioning` and `delete_environment`: four statements, no lock |
| `LoadForOperation`, `EndOperation` | the provisioner's `_set_provisioning_ready` and `_failed` |
| `EndRun` | RunLifecycle, seen from here |

`Assign` is what SQLAlchemy does with an attribute: an UPDATE if the value is not
the one loaded, else nothing. It is how a write of `ready` over a status that
somebody has changed in between gets lost or goes through.

### Provisioning

`process_provisioning_once` for full BYOC: several workers, operations numbered by
`created_at`, stages `1..Last`. A worker claims all it can in one transaction,
then goes through its operations; every stage ends with a commit that also
refreshes the claim of this operation, and of no other.

| Action | Code |
|---|---|
| `Submit` | the environment functions of `crud.py` insert an operation |
| `Poll`, `ClaimRow`, `SkipRow` | `_claim_provisioning_operations`: available means no token or one older than the TTL, tested again by the UPDATE |
| `Begin`, `BeginDone` | the next operation is taken up, by the checkpoint, the row's step or from the start; neither state nor token is looked at again |
| `Apply` | Terraform or the validation of a stage takes effect |
| `CommitStage`, `CommitLast` | checkpoint, state and claim time of a stage |
| `RejectStage`, `Raise` | a failure that is reported, an exception at any point of the loop body |
| `FinishPass` | the commit at the end of the pass and the release of the claims, whoever has them by now |
| `Crash`, `Tick` | the end of a process; time |

The worker keeps in memory how an operation ended (`ends`) until its next commit.
`batched` is a history variable: some worker once claimed two operations. Time is
in ticks, and passes only while every worker sleeps, waits for AWS or waits for a
row (`MayWait`): what Python does in between takes milliseconds against a TTL of
half an hour. Two workers at one operation need no more than that (see below).

Abstracted: Terraform's plan, apply and output calls are one stage of at most
`StageTime`; the cutoff of a claim is taken when the UPDATE runs instead of when
the candidates were selected, the time between the two being that of a lock;
commits are atomic, so the deadlocks of two flushes are left out; only 25
checkpoint events are read in the code and all in the model.

### PreflightChecks, CostLedger and DispatchGate

`PreflightChecks` is what a preflight finds, as operators of a reading `x` (the
row, the tables, the settings and AWS's facts that are in order): each check of
`_build_preflight` with what it depends on, the rules of `policy_engine.py`,
the merge of checks with one key (`Build`), the verdict (`Ready`), and when the
build raises instead (`Raises`).

`CostLedger` is the allocation of a run's cost: `Record` (the estimate, when a
run ends), `BillArrives`, `StartQuery` with the oldest `Limit` pending
allocations, `ApplyCosts`, `QueryFails`, and the month's sum that budgets
compare.

`DispatchGate` composes them with one environment:

| Action | Code |
|---|---|
| `LiteValidate`, `LiteUpdateTrust`, `LiteLook`, `LiteCreate`, `LiteCommit` | `_run_byoc_lite_provisioning`: prerequisites, trust statement, collision, virtual cluster, the one commit |
| `LiteRestart` | the worker dies and another takes the operation up, or somebody asks for a retry after a failure |
| `DeleteLooks`, `DeleteWrites` | `delete_environment` |
| `Submit` | the policies of `create_run` |
| `Begin`, `PassEnds`, `SchedulerCrash` | an iteration of `process_scheduler_once` around the gate; the row of the environment is read once |
| `LookHit`, `LookMiss`, `BuildEnds` | `_build_preflight_cached`: an entry within its TTL, or a build that reads the tables, then AWS, and is stored under the time at which it began |
| `SyncReleases`, `CreatePolicy`, `DeletePolicy` | `sync_emr_releases_once` and the policies' routes |
| `FactChanges`, `StrangerComes`, `Publish`, `Tick` | AWS and the clock, external |

The verdicts of all readings are computed once (`Verdicts`). `Remember` keeps,
as history, how long ago the tables and AWS would have let a Spark configuration
through; it says so in words of its own (`Needed`, `AwsAllows`, `TablesAllow`),
not with `Build`, so that the two can disagree; that they do not is
`PreflightIsExact`. Runs are numbered in the order in which they are submitted, and a
pass takes them in that order. Abstracted: one Spark
configuration is one value; the claims, leases, dispatch and cancels of runs,
which are RunLifecycle's; a namespace has at most one virtual cluster, as EMR
has it; transient errors put a run back up to `MaxAttempts`; one worker
reconciles costs; settings and columns of the row do not change.

### TrustPolicy

The execution role is one setting for all BYOC-Lite environments. A policy is a
set of statements; `Merge` is `_merge_trust_policy` with its consolidation,
`Trusts` the check. `Begin`, `Check`, `Recheck` are a preflight, `Provision` the
provisioner, `Read` and `Write` the update they share, `CheckRefused` and
`GiveUp` calls that are refused and processes that die, `CustomerEdits` the
owner of the account. AWS has no version of the policy to test, so a write
undoes what came between; `overtaken` remembers whom. Left out: statements with
several providers, Deny statements and conditions other than StringLike and
StringEquals; the size limit is one of the refusals.

### Onboarding

One e-mail address from the contact form to the sign-in. `desk[c]` and `visit[v]`
are threads: what they have read and will write; all else is committed.

| Action | Code |
|---|---|
| `CheckContact`, `PostContact`, `LeaveWindow` | `post_public_contact`: the look-ups, then the insert |
| `TakeUp`, `Reject` | the desk's `SELECT ... FOR UPDATE`, and a rejection |
| `BeginCreate`, `MakeTenant`, `NameTaken` | tenant, administrator and link, by approval or directly |
| `Invalidate`, `MakeLink` | `regenerate`: the UPDATE that voids the links it sees, then the new one |
| `Commit`, `Notify`, `DeskCrash` | the one commit; webhook and mail after it; death |
| `Accept`, `Expire` | `/v1/invite/accept` and the lifetimes |
| `Callback`, `Provision`, `Finish`, `VisitCrash` | the sign-in: the state's token is consumed and the rows read; the write; and a callback that comes to nothing |

Left out: users that come with a tenant made by the ordinary `POST /v1/tenants`,
and the guard of the bootstrap that no identity exists yet.

### ProviderClients

Airflow operators (`sync`, `deferred`) and Dagster ops against the API, which is
OnceRegister: the client's properties rest on the contract that Idempotency is shown to
implement. `Serve` lets a request take effect at any time after it was
sent, also when its client has given it up. The runs it makes move as RunStates
says, which RunLifecycle is shown to implement: along `ForwardEdges` by the workers,
and to `cancelled` from wherever they are by a cancel that found them queued
(`stale`), which decides on what it read and writes later.

| Action | Code |
|---|---|
| `Ask`, `Hear`, `AskAgain`, `TurnedAway`, `AskRefused` | `submit_run` and `_request`, with its retries and the renewal of the token |
| `Poll`, `PollMisses`, `PollRefused` | `wait_for_terminal_state`, the trigger's loop |
| `AskCancel`, `HearCancel`, `CancelFails` | the cancel operator and op: the request, its answer (with a configured key maybe that of an earlier try), and giving up |
| `ReadForCancel`, `CancelIsWritten` | `post_cancel_run` loads the run, `cancel_run` writes; both may come after the client has gone |
| `RunMoves` | the scheduler and the reconciler, as far as a client sees them |
| `WorkerDies`, `TriggererDies` | death, and the orchestrator's next try |

Left out: the sensor, the assets, `wait_for_completion=False`, the parsing of
configurations.

## What TLC checks

Every run ends without error, or with the violation it is there to show. Every
action of every module fires.

| Run | Instance | States | Question |
|---|---|---|---|
| `run_lifecycle_workers` | 1 run, 2 schedulers, 2 reconcilers, 1 cancel, 2 attempts, 1 fault, ages to 2 | 155 667 | the safety properties and `IInv`; `RunsSettleOrStrand`, even if EMR never finishes a job, and `CancelSettlesOrStrands` |
| `run_lifecycle_batch` | 2 runs, 1 scheduler, 2 reconcilers, 1 cancel | 1 341 989 | `RefinesLifecycle`, with partial claims, lock waits and deadlock victims |
| `cancel_strands` | 1 run, 1 scheduler, 2 reconcilers, 1 cancel, 1 fault | | violates `CancelSettles` |
| `cancel_race` | 1 run, 1 worker of each kind, 1 cancel | | violates `CancelledJobIsStopped` |
| `admission_quota` | 3 submissions of 1 or 2 vCPUs with keys and bodies of their own or shared, limits 2 runs and 3 vCPUs | 62 900 | both limits, and the contract of idempotency under create_run (`AtMostOnce`, `RecordMatchesEffect`, `LoserFindsTheRow`, `RefinesOnce`) |
| `admission_edits` | 2 submissions with one key, 1 retry, 1 deletion, limit 1 run | 109 852 | `ProvisioningHasAnOperation`, `NobodyHangs` |
| `provisioning` | 2 workers, 2 operations of 2 stages, TTL 1, stage time 1, 1 crash | 186 504 | `ReadyIsBuilt`, `AloneUnlessBatched`, `NothingIsUndone`, `EveryOperationEnds` |
| `onboarding` | 1 submission, 2 tenants, 3 links, 2 actors, 2 clerks, 2 visitors | 1 380 158 | approvals, links, sign-ins and identities; `IInv` |
| `dispatch_gate` | 1 scheduler, 2 runs of one configuration, 2 policies, a budget, 2 releases, 3 facts that drift, TTL 2, cache of 1, 2 attempts, 2 changes, ledger limit 1 | 488 846 | what the gate lets through and fails, ready clusters, the ledger |
| `fresh_checks` | the same, with the other order of the runs and 1 change | | violates `RunChecksAreFresh` |
| `provider_clients` | 1 task (deferred without a key, sync with one, ops with and without), its canceller, 2 tries of 2 requests, 1 death | 680 124 | `OneRunPerKey`, `OutcomeIsTheRuns`, `EveryTaskEnds` |
| `trust_policy` | 2 environments on one cluster, 2 preflights of each, 1 provisioner, 4 policies to begin with, 1 pass, 1 edit, 1 fault | 360 950 | `UpdateSuffices`, `UpdatesOnlyAdd`, `UpdatesAreTidy`, `Converges` |

Why these bounds are enough to be interesting. Two workers of a kind are what a
rolling deploy gives, and what every race between workers needs; a third waits
for the same lock. Runs meet only in a batch: two show a commit that is partly
one worker's. Two attempts have one retry and the last; a fault is a crash or a lost
answer, and shows the second job it may start. The run of the liveness of runs has
one run: with two, the model lets two reconcilers claim them in opposite orders and
be aborted by PostgreSQL for ever, since it leaves open which of them a poll takes
first, and `updated_at`, which decides it in the code, is not modelled. So these two
properties say nothing of deadlocks; `run_lifecycle_batch` has those, and shows that
each of them is undone as a whole. Three requests are a winner, a loser that
waits and one that comes after; two keys show that keys do not meet, two bodies
the conflict. Limits of two and three are reached by runs of both sizes, singly
and together. Two stages have a resumption between them, before and after; a TTL
of one tick and a stage of one tick are the boundary `StageTime = TTL`; two
operations make the batch whose second claim gets stale; one crash hits each
point of a pass, and the claim it leaves expires. Ages are cut one above the last
limit they are compared with. Three links are two regenerations that overlap and
the link they supersede; two tenants want one submission, two actors one user.
A TTL of two ticks has a fresh entry, an old one, and a build that starts in one tick and ends in the
next; a cache of one is full at once; runs of one configuration share an
entry, and the first of them breaks the hard policy; two changes fix what a build
found and break it again; an environment's two attempts leave a cluster behind and meet it. A ledger limit of one is reached by one run
whose bill never comes. Two tries of two requests have a late effect of each
request under the next one and under the next try. `Reached` leaves three of the
states of a run to the workers: to a client `failed` and `timed_out` are what
`cancelled` is, and `running` what `accepted` is. Two preflights of one
environment undo another's update after it was found, the four policies are
what older versions of the code and customers leave.

The bounds that are not the system's: `MaxFaults`, `MaxAge`, `MaxCrashes`,
`MaxChanges`, `MaxPeriod`, `MaxFailures`, `MaxDeaths`, `MaxPasses`, `MaxEdits`, `Reached`, and the finite sets.

### Fairness

- `RunLifecycle!Fairness`: weak fairness of each worker's steps, since
  `workers.py` polls for ever and continues after errors; strong fairness of
  `TimeOut` and `CancelDispatch` while the row's job is live, since of the
  CancelJobRun requests for a live job, one at each poll, AWS accepts one in the
  end (`ReconcileError` may always be taken instead, so weak fairness of the
  worker alone would let it fail for ever). Nothing is assumed of a job that is over
  or is being cancelled already: there the code may fail at every poll, and both
  properties except such a run as `Stranded`. That time passes is a premise of
  `RunsSettleOrStrand`; `CancelSettlesOrStrands` does without. None for EMR: a job
  may hang. None for faults.
- `RunAdmission!FairAdmission`: strong fairness of a submission and of an edit,
  since PostgreSQL grants a row in the order of the waiting. `Die` and the
  workers have none.
- `Provisioning!FairSpec`: strong fairness of a worker's steps, for the same
  reason and because AWS calls have timeouts; weak fairness of time. Crashes and
  submissions have none.
- `DispatchGate!LedgerFairness`: weak fairness of the reconciling worker's query
  and of the use of its result; `_run_forever` polls. Nothing else is fair, and
  queries may fail.
- `ProviderClients!FairClients`: weak fairness of a task's steps and of the end of a
  cancel request: HTTP calls have timeouts and sleeps end. None for the API, and none for runs.
- `TrustPolicy!FairTrust`: weak fairness of a caller that has begun. `Converges`
  has two premises that the code does not guarantee and an installation mostly
  has: each environment is preflighted again and again by a process with the
  remediation on, and there are again and again moments without a caller. TLC shows that the second one is
  needed: without it, two overlapping preflights of each of two environments
  can undo one another for ever.

## What TLAPS proves

For every value of the constants that their named assumptions allow. These say
that special values are none of the ordinary ones, that runs and operations are
numbered, that bounds, estimates and bills are natural numbers, that there is at
least one attempt and a preflight TTL of two ticks or more, that requests are
finitely many, and that made-up keys (uuid4) are nobody's given one. Every safety
property of the passing runs is stated by a theorem: 6173 proof obligations in
eight modules.

**RunLifecycleProofs.** None of the safety properties is inductive. `IInv` adds to
`TypeOK`:

- `DraftsAreLocal`: a draft differs from its committed row only under a lock, for
  a run its holder is done with, and by an edge of the lifecycle. It is why a
  commit of a whole batch is a step of `RunStates`.
- `ClaimsAreWanted`: a held row is committed in a state its holder wants. It is why
  nobody but a late cancel writes under a worker's feet.
- `StartsAreAccounted`: a draft that is still to be dispatched leaves room for
  one more StartJobRun.
- `CallsAreMonotonic`: a cancel that saw a run past the queue is right about that
  for ever, so only the cancel of a queued run can be late.
- `RowsFit`: what state, job, cancel request and usage say of one another, in
  committed rows and in drafts alike, given EMR's jobs.

The loop body has seven actions of one shape; `LoopEffect` is that shape, each
action is shown to be one, and preservation is proved for it once. `Invariance` is
`Spec => []IInv`; `TypeCorrectness`, `DuplicatesNeedFaults`, `TimeoutStopsTheJob`,
`SuccessIsTrue`, `UsageFollowsOutcome` and `TheQueueIsFresh` follow. `Refinement`
shows that RunLifecycle implements RunStates; its core, `StepsFollowEdges`, needs
`DraftsAreLocal` for the commits and `CallsAreMonotonic` for the cancels.

**IdempotencyProofs.** `IInv` is `TypeOK`, `RecordMatchesEffect`,
`ReservationsAreHeld` and `WorkersHoldTheirKey` (an uncommitted row belongs to one
request at work, and the other way round), `LosersHaveARow`,
`AnsweredAtTheEnd` and `LoserFindsTheRow`. From it `OneEffectPerKey`,
`RepliesAreTrue`, `TheRaiseIsDead` (the bare `raise` after the rollback is
unreachable) and `Refinement` to OnceRegister.

**RunAdmissionProofs.** `SubmissionIsOnce`: each step of RunAdmission is a step of
Idempotency or leaves its variables alone, so the contract of OnceRegister holds
for submissions. `AdmissionInvariance` and `RunLimit`: `RunLimitHolds` is not
inductive, `AdmittedHasRoom` is what it needs: between the count and the commit
there is room, because the lock is held and others can only end runs. The
cardinality facts are lemmas of their own. `VcpuLimit` is the same argument for the
sum of the vCPUs (`AdmittedHasVcpus` strengthens `VcpuLimitHolds`), and takes
more: that a run's size is a natural number as long as it counts, that what joins
the active runs adds its size and no more, and that a smaller set has no larger sum.
The sum is a fold over a set; the section "Sums over finite sets" proves what is
needed of it, of any function and any finite set, by taking a least finite set
among those for which the claim fails (strict inclusion is well-founded on the
subsets of a finite set), since an induction theorem that takes the claim as a
parameter is out of reach. `ProvisioningIsUnderWay`: with
`SomeoneWillEndIt`, which says of every operation in progress and of every editor
about to write what it may still assign.

**ProvisioningProofs.** `IInv` has two halves. Whatever happens, `BeliefsAreTrue`,
`WorkersAreRight` and `HandsAreClean`: checkpoints, rows and workers never claim a
stage that is not built. From it `ReadyIsTrue`, without any condition: even
duplicated work makes nothing ready that is not built. As long as `ClaimsSuffice`,
`HandsAreApart`: an operation in hand is under its worker's lock or under its live
claim, and its checkpoint is the one the worker has loaded. From it `Exclusion`
and `Monotonicity`. `ClaimsSuffice` has two parts: no worker has claimed two
operations at once, and `StageTime <= TTL`. The code guarantees neither: the
claim has no limit, and a stage may run several Terraform commands of 900 s each
against a TTL of 1800 s. The theorem says that in this model (time
passes only where `MayWait` says so) these are the only two ways in which claims
fail.

**OnboardingProofs.** `IInv` adds to the types what open transactions hold:
`ClerksHoldTheirRows`, `ClerksShareNothing` (the locks on submissions, the unique
names), `LinksArePaired` and `VisitsAreApart` (a state's token is one visitor's).
From it `Approvals`, `Supersession`, `SingleUse`, and, as action properties,
`Finality` and `Ownership`.

**DispatchGateProofs.** `ReadyClusterIsItsOwn`, by an invariant over the provisioner
alone (`ClusterInv`: between the creation and the commit the namespace is the attempt's, and
whoever provisions is not ready). `KnownCostsAreFinal`: what a query has found
is pending until it is applied (`QueryInv`), since one worker reconciles.

`PreflightIsExact` is about the checks alone, for any row, configuration, budget
and policies, and whatever is missing in AWS: a run's preflight passes
if and only if the environment was read as ready, AWS has what `AwsAllows` asks for
and the tables have what `TablesAllow` asks for. It goes through each group of checks,
the merge of several results under one key, what makes a build end in an error,
and the remediation, which fixes the trust policy after another check has
already failed for it.

On it rests the cache. `GateInv` has four parts:

- `RowsInv` (with `LedgerInv`): the types, and what a pass has read.
- `HistoryInv`: what holds now, the history puts at zero ticks.
- `PassInv`: the runs of a pass are queued and in no other pass; what a build has
  read of the tables was so within the ticks since it began (`SoundPass`).
- `CacheInv`: an entry's age bounds the age of what it says (`Sound`), and the cache is
  never longer than its limit.

None of the two gate properties is inductive without it: a hit shows what some
other build saw for some other run of the same configuration. From it
`ClearedRecently` (`ClearedOnRecentChecks`), `FailedRecently`
(`FailedOnRecentChecks`) and `GateTypeCorrect`. The expiry of the cache is a fold over
a sequence; `TrimsExist`, `TrimsAgree` and `GoodIs` show, by least counterexample
once more, that it keeps only entries of the cache that are within the TTL.

**ProviderClientsProofs.** `OneRunForAKey`: the register's contract joined with
`KeysAreFixed`, that every request carries the key of its try. `OutcomeIsCorrect`: a
task succeeds or fails as the run did that its own request made, and what it was told
stays true, except that a cancel which found the run queued may still write over a run
that has succeeded. It needs a chain from the worker to the run (`ClientInv`): who
waits knows a run (`WorkersKnow`), who is told of a run is told of one that was made
for what it wants (`AnswersAreTrue`, `RunsAreMade`), all requests of a try want
the same (`BodiesAreFixed`), so that an answer to an earlier send is as good as one to
the last, and a run that a cancel found over is over (`FindingsLast`): the workers
leave it as it is, and a late cancel only exchanges one end for another.
`ClientTypeCorrect` comes with it.

**TrustPolicyProofs.** First facts about the merge as a function of any policy:
it has the statement (also where it found it as a StringEquals), loses no grant
and no foreign statement, and is tidy. Then `CopiesAreMerges`: a copy is the
merge of the present policy unless its caller was overtaken. Together
`UpdatesSuffice`, `UpdatesTakeNothingAway`, `UpdatesStayTidy`, `TrustTypeCorrect`.

Proved and not in a run of their own: `PreflightIsExact`, the invariants `IInv` of Idempotency and
Provisioning, `AdmissionInv`, `VcpuInv`, `GateInv`, `ClientInv`, `TrustTypeOK`, and
`QueuedIsFresh` and `OneActorPerUser`, which the `IInv` of their module contains.

Only model-checked: liveness (`RunsSettleOrStrand`, `CancelSettlesOrStrands`, `NobodyHangs`,
`EveryOperationEnds`, `ReconciledUnlessStarved`, `EveryTaskEnds`, `Converges`), which is beyond
this prover, as fairness brings in ENABLED.

What the proofs found out about the models: the arms of the dispatch gate's checks
(`GateChecks`) overlapped for an environment that is not BYOC-Lite, so that its
meaning was left open; the words in which the history said what AWS must allow
were stricter than the code for a namespace or grants that cannot be looked at; and
`MaxAttempts = 0` contradicts the first attempt. All three are put right.

## Where the documents and the code differ

Shown by a run:

- `cancel_race`: a cancel that read a run as queued and writes after its dispatch
  leaves it `cancelled`, and no reconciler ever cancels its job
  (`crud.py:901`; `docs/validation/byoc-lite-cancel-retry-behavior.md:28`).
- `cancel_strands`: a job that ends after the cancel was requested (or the run fell
  due) and before the reconciler gets to it is one that EMR refuses to cancel, at every
  poll; the run keeps its state and its quota
  (`workers_reconciliation.py:113`, and 77 for the timeout;
  `docs/validation/byoc-lite-cancel-retry-behavior.md:28`: "reconciler dispatches EMR
  cancel and converges to terminal state"). That EMR refuses a finished job is
  what its API says, not something the repository shows.
- `fresh_checks`: the scheduler's preflight is cached as a whole, under a key of
  the environment and the Spark configuration (`preflight.py:137`), so that the
  policy checks of one run answer for another, whose timeout a hard policy
  forbids (`preflight.py:1028`: "Run-level checks always run fresh.").

## Seen while modelling

Runs and submissions:

- a late cancel turns any terminal state into `cancelled` (`LateCancelEdges`);
  `docs/architecture.md` has no such edge; a task of a provider that was told that its
  run has succeeded may so stand beside a cancelled run;
- a deletion and a submission that overlap leave an active run in a deleted
  environment (`crud.py:549`, `crud.py:558`; `tests/test_api.py:720`); two
  retries that overlap both insert an operation (`crud.py:497`, `crud.py:505`);
- `post_environment_retry` takes an Idempotency-Key and does not look it up
  (`api.py:2071`; `docs/architecture.md:50`);
- admission compares a policy with the timeout that was asked for, preflight with
  the one that was granted.

Provisioning:

- the second operation of a batch expires while its worker is at the first, and
  two workers apply its stages (`workers_provisioning.py:868`;
  `SparkPilot-threat-model.md:74`);
- the provisioner and a retry assign `ready`, `failed` or `provisioning` to an
  environment that was deleted in between (`Assign`), which brings it back;
- the stages run in the order network, eks, emr, validating_bootstrap,
  validating_runtime, not in that of `docs/architecture.md:40`;
- a virtual cluster made by an attempt that died stays in AWS, and the next
  attempt fails on the collision;
- `docs/pod-identity-setup.md:124` and `docs/runbooks/live-byoc-lite-from-scratch.md:74`
  say that the provisioner updates the trust policy; the prerequisites before
  that step already fail for a missing statement.

Preflight, policies and releases:

- a run has no column `golden_path_name`: at dispatch `preflight.py:824` passes None, and
  a hard `allowed_golden_paths` that requires one fails every run there;
- a release label is never passed to the policies, nor a security configuration
  by `create_run` (`docs/security-configuration-setup.md:58`); the hints of
  `ui/app/policies/page.tsx:56` are not the keys that `policy_engine.py` reads;
- `iam.assume_role_chain` uses the global ExternalId, the check of the dispatch
  gate the environment's own;
- `_lookup_release_row` raises when a label is there both with and without its
  `-latest`; a synchronisation does not remove labels that AWS no longer lists,
  and a newly published major version makes the older ones end-of-life;
- `session_for_environment` is called outside the `try` of several checks in
  `aws_clients.py`, so that an error there ends the build;
- the trust policy is put right in a build that has already found it wrong, so the
  next build is the first to pass; results that failed are cached like others,
  and each scheduler process has a cache of its own;
- the columns of the YuniKorn queue are set by no route;
- two overlapping updates of the trust policy undo each other; for how long, see
  `Converges`;
- `resolve` of a golden path orders by `environment_id DESC`, whose NULLs come
  first in PostgreSQL and last in SQLite.

Costs: the actual cost is what the report has when the allocation is first found
in it, and what arrives later is not taken.

Clients:

- `SparkPilotCancelRunOperator`, its docstring and `tests/test_airflow_provider.py:452`
  expect success for a run that ends `cancelled`, for which the hook's
  `wait_for_terminal_state` raises; `cancel_run_with_client` of Dagster does the
  same;
- 409 and 429 count as errors worth a retry; a trigger does not renew its token after a
  401; an Airflow task without a configured key submits a second run when it is
  retried, while the first may be active; killing a task does not cancel its run; a
  templated `golden_path` can make the next try of a task with a configured key a conflict.

## What is not modelled

- Engines other than EMR on EKS (Serverless, EC2, Databricks): the reconciler
  describes every run through the EKS client, so their runs have no model of
  their own to fit in.
- The dry run, which replaces every AWS call by an answer made up on the spot.
- The LIMIT of polls, and with it the order of service among more runs than fit.
- The workspace cache and the artifacts of `terraform_orchestrator.py`.
- How facts about AWS are computed from its answers, messages and remediation
  texts: facts are given as true or false.
- The prices behind an estimate, the widths of money columns, showback reports.
- What a role may do: each request decides it from the tables alone.
- Users made without an administrator, the rate limit of the form, listings.
- Provider sensors and assets, and the parsing of their configurations.
- Job templates, metrics, audit rows, cost centres, the CLI and the end-to-end
  matrix, the UI, Terraform code: plain inserts, I/O or presentation.

## Plan

What is left, the most consequential first:

1. `PollFairness`: `LIMIT` and the order by `updated_at`; which runs are looked at
   when there are more than a batch.
2. The workspace cache of `terraform_orchestrator.py` across the environments of one
   pass.
3. Abstract specifications: a lease for the claims of Provisioning, implemented while
   `ClaimsSuffice`; a counter with a limit for RunAdmission; a register that is at
   most a TTL behind for the cache of DispatchGate.
4. The other engines, once the reconciler tells them apart.
