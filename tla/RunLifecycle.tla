---------------------------- MODULE RunLifecycle ----------------------------
(***************************************************************************)
(* The life of a SparkPilot run on EMR on EKS: the API inserts it and may  *)
(* cancel it, scheduler processes dispatch it to EMR, reconciler processes *)
(* copy EMR's view back, and EMR runs the job.                             *)
(*                                                                         *)
(* The database is PostgreSQL at READ COMMITTED.  One worker iteration is  *)
(* one transaction: a SELECT of candidates, one conditional UPDATE per     *)
(* candidate (which takes the row lock and sets the claim token), the work *)
(* on every claimed run, the release of the claims and a single COMMIT.    *)
(* A claim token is therefore never visible to another transaction: what   *)
(* keeps two workers apart is the row lock and the WHERE clause that is    *)
(* evaluated again once the lock is granted.  db holds committed rows,     *)
(* draft the version of the transaction that holds the row's lock.         *)
(*                                                                         *)
(* The API does not lock: cancel_run decides on a row read at the start of *)
(* the request and writes later.                                           *)
(***************************************************************************)
EXTENDS Naturals

CONSTANTS
  Run,                \* run ids, in the order of created_at
  Scheduler,          \* scheduler processes (more than one in a rolling deploy)
  Reconciler,         \* reconciler processes
  Caller,             \* API requests that cancel a run
  NoWorker,           \* the value of lock[r] when nobody holds it
  NoRun,              \* the run of an API request that has not begun
  MaxAttempts,        \* job.retry_max_attempts
  SubmittedStaleAge,  \* settings.submitted_stale_minutes
  AcceptedStaleAge,   \* settings.accepted_stale_minutes
  TimeoutAge,         \* run.timeout_seconds
  MaxAge,             \* bound: where the clock of a run stops
  MaxFaults           \* bound: crashes and lost EMR responses, together

ASSUME RunAssumption == Run \subseteq Nat
ASSUME WorkerAssumption ==
  /\ Scheduler \cap Reconciler = {}
  /\ NoWorker \notin Scheduler \cup Reconciler
ASSUME CallerAssumption == NoRun \notin Run
ASSUME BoundAssumption ==
  /\ MaxAttempts \in Nat \ {0}
  /\ MaxFaults \in Nat
  /\ MaxAge \in Nat

Worker == Scheduler \cup Reconciler

VARIABLES
  db,      \* db[r]: the committed row of run r
  draft,   \* draft[r]: the row as the holder of its lock has it
  lock,    \* lock[r]: the worker whose transaction holds the row lock
  todo,    \* todo[w]: candidates worker w has selected and not yet claimed
  done,    \* done[w]: claimed runs w has finished with in this transaction
  call,    \* call[c]: the run and the state of it that cancel request c read
  jobs,    \* jobs[r][i]: the i-th EMR job run started for r
  starts,  \* starts[r]: how many EMR job runs were started for r
  age,     \* age[r]: time since started_at of r
  faults   \* crashes and lost responses so far

vars == <<db, draft, lock, todo, done, call, jobs, starts, age, faults>>
world == <<call, jobs, starts, age, faults>>

------------------------------------------------------------------------------
(* Rows and EMR job runs *)

Terminal == {"succeeded", "failed", "cancelled", "timed_out"}
State    == {"absent", "queued", "accepted", "running"} \cup Terminal

MaxStarts == MaxFaults + 1     \* more cannot happen: see DuplicateNeedsFault
Slot      == 1 .. MaxStarts

\* job is the index of emr_job_run_id among the run's jobs, 0 while it is NULL;
\* usage says whether usage_records has a row for the run.
Row == [state: State, cancelReq: BOOLEAN, attempt: 1 .. MaxAttempts,
        job: 0 .. MaxStarts, usage: BOOLEAN]

AbsentRow == [state |-> "absent", cancelReq |-> FALSE, attempt |-> 1,
              job |-> 0, usage |-> FALSE]

Live     == {"PENDING", "SUBMITTED", "RUNNING"}
Stopped  == {"COMPLETED", "FAILED", "CANCELLED"}
JobState == {"NONE", "CANCEL_PENDING"} \cup Live \cup Stopped

TypeOK ==
  /\ db \in [Run -> Row]
  /\ draft \in [Run -> Row]
  /\ lock \in [Run -> Worker \cup {NoWorker}]
  /\ todo \in [Worker -> SUBSET Run]
  /\ done \in [Worker -> SUBSET Run]
  /\ call \in [Caller -> [run: Run \cup {NoRun}, seen: State]]
  /\ jobs \in [Run -> [Slot -> JobState]]
  /\ starts \in [Run -> 0 .. MaxStarts]
  /\ age \in [Run -> 0 .. MaxAge]
  /\ faults \in 0 .. MaxFaults

NoCall == [run |-> NoRun, seen |-> "absent"]

Init ==
  /\ db = [r \in Run |-> AbsentRow]
  /\ draft = [r \in Run |-> AbsentRow]
  /\ lock = [r \in Run |-> NoWorker]
  /\ todo = [w \in Worker |-> {}]
  /\ done = [w \in Worker |-> {}]
  /\ call = [c \in Caller |-> NoCall]
  /\ jobs = [r \in Run |-> [i \in Slot |-> "NONE"]]
  /\ starts = [r \in Run |-> 0]
  /\ age = [r \in Run |-> 0]
  /\ faults = 0

------------------------------------------------------------------------------
(* The API *)

\* Mutant of Publish: the UPDATE does not wait for the row lock.
PublishUnlocked(r, row) ==
  /\ db' = [db EXCEPT ![r] = row]
  /\ draft' = [draft EXCEPT ![r] = row]
  /\ UNCHANGED <<lock, todo, done>>

\* An API transaction: write row r in one statement and commit.
Publish(r, row) ==
  /\ lock[r] = NoWorker
  /\ db' = [db EXCEPT ![r] = row]
  /\ draft' = [draft EXCEPT ![r] = row]
  /\ UNCHANGED <<lock, todo, done>>

CreateRun(r) ==
  /\ db[r].state = "absent"
  /\ Publish(r, [AbsentRow EXCEPT !.state = "queued"])
  /\ UNCHANGED world

\* post_cancel_run loads the run before it reserves the idempotency key.
CancelRead(c, r) ==
  /\ call[c] = NoCall
  /\ db[r].state # "absent"
  /\ call' = [call EXCEPT ![c] = [run |-> r, seen |-> db[r].state]]
  /\ UNCHANGED <<db, draft, lock, todo, done, jobs, starts, age, faults>>

\* What cancel_run makes of a row whose state it believes to be seen.
Cancelled(row, seen) ==
  IF seen = "queued" THEN [row EXCEPT !.state = "cancelled"]
                     ELSE [row EXCEPT !.cancelReq = TRUE]

\* The UPDATE waits for a worker that holds the row, and then overwrites.
CancelWrite(c) ==
  LET r == call[c].run IN
  /\ r # NoRun
  /\ call' = [call EXCEPT ![c] = NoCall]
  /\ IF call[c].seen \in Terminal
       THEN UNCHANGED <<db, draft, lock, todo, done>>
       ELSE Publish(r, Cancelled(db[r], call[c].seen))
  /\ UNCHANGED <<jobs, starts, age, faults>>

------------------------------------------------------------------------------
(* The claim: common to both workers *)

Held(w) == {r \in Run : lock[r] = w}

Wanted(w) == IF w \in Scheduler THEN {"queued"} ELSE {"accepted", "running"}

\* The scheduler goes through its runs by created_at.  The reconciler's order
\* is updated_at, which every write changes: any run may be its first.
Foremost(w, r, S) == r \in S /\ (w \in Scheduler => \A q \in S : r <= q)

Poll(w) ==
  LET candidates == {r \in Run : db[r].state \in Wanted(w)} IN
  /\ todo[w] = {} /\ Held(w) = {}
  /\ candidates # {}
  /\ todo' = [todo EXCEPT ![w] = candidates]
  /\ UNCHANGED <<db, draft, lock, done>> /\ UNCHANGED world

\* Mutant of ClaimRow: the UPDATE's WHERE clause names the id only.
ClaimRowById(w, r) ==
  /\ Foremost(w, r, todo[w])
  /\ lock[r] = NoWorker
  /\ lock' = [lock EXCEPT ![r] = w]
  /\ todo' = [todo EXCEPT ![w] = @ \ {r}]
  /\ UNCHANGED <<db, draft, done>> /\ UNCHANGED world

\* rowcount = 1: the lock is free, and the state still is one of those wanted.
ClaimRow(w, r) ==
  /\ Foremost(w, r, todo[w])
  /\ db[r].state \in Wanted(w)
  /\ lock[r] = NoWorker
  /\ lock' = [lock EXCEPT ![r] = w]
  /\ todo' = [todo EXCEPT ![w] = @ \ {r}]
  /\ UNCHANGED <<db, draft, done>> /\ UNCHANGED world

\* rowcount = 0: another transaction moved the run since the SELECT.
SkipRow(w, r) ==
  /\ Foremost(w, r, todo[w])
  /\ db[r].state \notin Wanted(w)
  /\ todo' = [todo EXCEPT ![w] = @ \ {r}]
  /\ UNCHANGED <<db, draft, lock, done>> /\ UNCHANGED world

\* The run whose turn it is in the loop over the claimed runs.
Working(w, r) ==
  /\ todo[w] = {}
  /\ Foremost(w, r, Held(w) \ done[w])

\* The end of one loop iteration: the run's row in this transaction.
Finish(w, r, row) ==
  /\ draft' = [draft EXCEPT ![r] = row]
  /\ done' = [done EXCEPT ![w] = @ \cup {r}]
  /\ UNCHANGED <<db, lock, todo, call>>

CommitTxn(w) ==
  /\ todo[w] = {} /\ Held(w) # {} /\ done[w] = Held(w)
  /\ db' = [r \in Run |-> IF lock[r] = w THEN draft[r] ELSE db[r]]
  /\ lock' = [r \in Run |-> IF lock[r] = w THEN NoWorker ELSE lock[r]]
  /\ done' = [done EXCEPT ![w] = {}]
  /\ UNCHANGED <<draft, todo>> /\ UNCHANGED world

Rollback(w) ==
  /\ draft' = [r \in Run |-> IF lock[r] = w THEN db[r] ELSE draft[r]]
  /\ lock' = [r \in Run |-> IF lock[r] = w THEN NoWorker ELSE lock[r]]
  /\ todo' = [todo EXCEPT ![w] = {}]
  /\ done' = [done EXCEPT ![w] = {}]
  /\ UNCHANGED <<db, call, jobs, starts, age>>

\* The process dies, or COMMIT fails and _run_forever drops the iteration:
\* the database forgets what the transaction did, EMR does not.
Crash(w) ==
  /\ Held(w) # {}
  /\ faults < MaxFaults
  /\ faults' = faults + 1
  /\ Rollback(w)

\* Two transactions wait for each other's row; PostgreSQL aborts one.
DeadlockVictim(w) ==
  /\ \E v \in Worker \ {w} :
       /\ \E r \in todo[w] : Foremost(w, r, todo[w]) /\ lock[r] = v
       /\ \E r \in todo[v] : Foremost(v, r, todo[v]) /\ lock[r] = w
  /\ UNCHANGED faults
  /\ Rollback(w)

------------------------------------------------------------------------------
(* The scheduler: one claimed run *)

\* The run asked to be cancelled, or its preflight does not pass.
DeclineDispatch(w, r) ==
  /\ w \in Scheduler /\ Working(w, r)
  /\ Finish(w, r, [draft[r] EXCEPT !.state =
                     IF draft[r].cancelReq THEN "cancelled" ELSE "failed"])
  /\ UNCHANGED <<jobs, starts, age, faults>>

\* EMR accepts StartJobRun: a new job run, which it has not scheduled yet.
StartJob(r) ==
  /\ starts[r] < MaxStarts
  /\ starts' = [starts EXCEPT ![r] = @ + 1]
  /\ jobs' = [jobs EXCEPT ![r] = [@ EXCEPT ![starts[r] + 1] = "PENDING"]]

Dispatch(w, r) ==
  /\ w \in Scheduler /\ Working(w, r)
  /\ ~ draft[r].cancelReq
  /\ StartJob(r)
  /\ age' = [age EXCEPT ![r] = 0]
  /\ Finish(w, r, [draft[r] EXCEPT !.state = "accepted", !.job = starts[r] + 1])
  /\ UNCHANGED faults

\* Mutant of AfterDispatchError: the attempts are not counted.
AfterDispatchErrorAgain(row, transient) ==
  IF transient THEN row ELSE [row EXCEPT !.state = "failed"]

\* _handle_dispatch_failure: another attempt after a transient error, while
\* there are attempts left.
AfterDispatchError(row, transient) ==
  IF transient /\ row.attempt < MaxAttempts
    THEN [row EXCEPT !.attempt = @ + 1]
    ELSE [row EXCEPT !.state = "failed"]

DispatchError(w, r) ==
  /\ w \in Scheduler /\ Working(w, r)
  /\ ~ draft[r].cancelReq
  /\ \E transient \in BOOLEAN : Finish(w, r, AfterDispatchError(draft[r], transient))
  /\ UNCHANGED <<jobs, starts, age, faults>>

\* The same, when the request reached EMR and only the answer was lost
\* (a read timeout): EMR runs a job whose id no row holds.
DispatchAnswerLost(w, r) ==
  /\ w \in Scheduler /\ Working(w, r)
  /\ ~ draft[r].cancelReq
  /\ faults < MaxFaults
  /\ faults' = faults + 1
  /\ StartJob(r)
  /\ \E transient \in BOOLEAN : Finish(w, r, AfterDispatchError(draft[r], transient))
  /\ UNCHANGED age

------------------------------------------------------------------------------
(* The reconciler: one claimed run, in a savepoint *)

Overdue(r) == age[r] > TimeoutAge

\* Mutant of CancelJob: the request is not sent.
CancelJobOmitted(r) == jobs' = jobs

\* CancelJobRun goes through.  EMR refuses it for a job that is over, which
\* raises: that is ReconcileError, at every poll.
CancelJob(r) ==
  LET i == draft[r].job IN
  /\ i # 0
  /\ jobs[r][i] \in Live \cup {"CANCEL_PENDING"}
  /\ jobs' = [jobs EXCEPT ![r] = [@ EXCEPT ![i] = "CANCEL_PENDING"]]

\* Mutant of Recorded: usage is written for successful runs only.
RecordedOnSuccess(row, s) ==
  [row EXCEPT !.state = s, !.usage = @ \/ s = "succeeded"]

\* The row once the run has reached state s: usage goes with a terminal one.
Recorded(row, s) ==
  [row EXCEPT !.state = s, !.usage = @ \/ s \in Terminal]

TimeOut(w, r) ==
  /\ w \in Reconciler /\ Working(w, r)
  /\ Overdue(r)
  /\ CancelJob(r)
  /\ Finish(w, r, [Recorded(draft[r], "timed_out") EXCEPT !.cancelReq = TRUE])
  /\ UNCHANGED <<starts, age, faults>>

\* Mutant of Platform: an unknown or failed state counts as success.
PlatformDefault(s) ==
  CASE s \in {"PENDING", "SUBMITTED"}        -> "accepted"
    [] s \in {"RUNNING", "CANCEL_PENDING"}   -> "running"
    [] s = "CANCELLED"                       -> "cancelled"
    [] OTHER                                 -> "succeeded"

\* EMR_TO_PLATFORM_STATE
Platform(s) ==
  CASE s \in {"PENDING", "SUBMITTED"}        -> "accepted"
    [] s \in {"RUNNING", "CANCEL_PENDING"}   -> "running"
    [] s = "COMPLETED"                       -> "succeeded"
    [] s = "CANCELLED"                       -> "cancelled"
    [] OTHER                                 -> "failed"

\* describe_job_run answers CANCELLED without asking EMR once a cancel was
\* requested, so the run is settled in the iteration that sends the cancel.
CancelDispatch(w, r) ==
  /\ w \in Reconciler /\ Working(w, r)
  /\ ~ Overdue(r)
  /\ draft[r].cancelReq
  /\ CancelJob(r)
  /\ Finish(w, r, Recorded(draft[r], "cancelled"))
  /\ UNCHANGED <<starts, age, faults>>

\* _apply_reconciler_stale_overrides
Stale(s, t) ==
  \/ s = "SUBMITTED" /\ t > SubmittedStaleAge
  \/ Platform(s) = "accepted" /\ t > AcceptedStaleAge

\* EMR's answer, or FAILED when DescribeJobRun raises a ClientError.
Observe(w, r) ==
  /\ w \in Reconciler /\ Working(w, r)
  /\ ~ Overdue(r) /\ ~ draft[r].cancelReq
  /\ \E s \in {jobs[r][draft[r].job], "FAILED"} :
       Finish(w, r, Recorded(draft[r],
                             IF Stale(s, age[r]) THEN "failed" ELSE Platform(s)))
  /\ UNCHANGED <<jobs, starts, age, faults>>

\* Mutant of ReconcileError: the request to cancel goes with the call that failed.
ReconcileErrorForgets(w, r) ==
  /\ w \in Reconciler /\ Working(w, r)
  /\ UNCHANGED jobs
  /\ Finish(w, r, [draft[r] EXCEPT !.cancelReq = FALSE])
  /\ UNCHANGED <<starts, age, faults>>

\* An exception, a refused CancelJobRun among them, rolls the savepoint back:
\* the run keeps its row and is left to the next poll.  A cancel that was sent
\* before it stays sent.
ReconcileError(w, r) ==
  /\ w \in Reconciler /\ Working(w, r)
  /\ \/ UNCHANGED jobs
     \/ (Overdue(r) \/ draft[r].cancelReq) /\ CancelJob(r)
  /\ Finish(w, r, draft[r])
  /\ UNCHANGED <<starts, age, faults>>

------------------------------------------------------------------------------
(* EMR and the clock *)

Following(s) ==
  CASE s = "PENDING"        -> {"SUBMITTED", "FAILED"}
    [] s = "SUBMITTED"      -> {"RUNNING", "FAILED"}
    [] s = "RUNNING"        -> {"COMPLETED", "FAILED"}
    [] s = "CANCEL_PENDING" -> Stopped
    [] OTHER                -> {}

JobMoves(r, i) ==
  /\ \E s \in Following(jobs[r][i]) :
       jobs' = [jobs EXCEPT ![r] = [@ EXCEPT ![i] = s]]
  /\ UNCHANGED <<db, draft, lock, todo, done, call, starts, age, faults>>

\* Time passes for a run that has started_at and is not over.
Tick(r) ==
  /\ db[r].state \in {"accepted", "running"}
  /\ age[r] < MaxAge
  /\ age' = [age EXCEPT ![r] = @ + 1]
  /\ UNCHANGED <<db, draft, lock, todo, done, call, jobs, starts, faults>>

------------------------------------------------------------------------------
RunStep(w, r) ==
  \/ ClaimRow(w, r) \/ SkipRow(w, r)
  \/ DeclineDispatch(w, r) \/ Dispatch(w, r)
  \/ DispatchError(w, r) \/ DispatchAnswerLost(w, r)
  \/ TimeOut(w, r) \/ CancelDispatch(w, r)
  \/ Observe(w, r) \/ ReconcileError(w, r)

WorkerStep(w) ==
  \/ Poll(w) \/ CommitTxn(w) \/ DeadlockVictim(w)
  \/ \E r \in Run : RunStep(w, r)

Next ==
  \/ \E r \in Run : CreateRun(r) \/ Tick(r)
  \/ \E c \in Caller, r \in Run : CancelRead(c, r)
  \/ \E c \in Caller : CancelWrite(c)
  \/ \E w \in Worker : WorkerStep(w) \/ Crash(w)
  \/ \E r \in Run, i \in Slot : JobMoves(r, i)

Spec == Init /\ [][Next]_vars

(***************************************************************************)
(* Fairness.  _run_forever polls until it is killed, so a worker that can  *)
(* take a step takes one.  A cancel that fails is sent again at every poll, *)
(* and of those for a job that is still live AWS accepts one: strong       *)
(* fairness, for errors come between.  A job that is over, or already      *)
(* being cancelled, owes nothing, and so do callers and EMR: a streaming   *)
(* job may run for ever.  That time passes is said where it is needed.     *)
(***************************************************************************)
HasLiveJob(row, r) == row.job # 0 /\ jobs[r][row.job] \in Live

Fairness ==
  /\ \A w \in Worker : WF_vars(WorkerStep(w))
  /\ \A w \in Reconciler, r \in Run :
       /\ SF_vars(HasLiveJob(draft[r], r) /\ TimeOut(w, r))
       /\ SF_vars(HasLiveJob(draft[r], r) /\ CancelDispatch(w, r))

FairSpec == Spec /\ Fairness

------------------------------------------------------------------------------
(* Properties *)

\* The job the row knows of, as EMR has it.
TrackedJob(r) == IF db[r].job = 0 THEN "NONE" ELSE jobs[r][db[r].job]

\* EMR runs a second job for a run only if a scheduler crashed (or its commit
\* failed) after StartJobRun, or EMR's answer was lost: retries and concurrent
\* schedulers alone never start one twice (workers_common._claim_runs,
\* process_scheduler_once).
DuplicateNeedsFault == \A r \in Run : starts[r] <= 1 + faults

\* A run is timed_out only after CancelJobRun was sent for its job or the job
\* was over: the timeout never leaves a job behind
\* (_mark_run_timed_out_if_needed).
TimedOutJobIsStopped ==
  \A r \in Run : db[r].state = "timed_out" => TrackedJob(r) \notin Live

\* A run succeeded only if EMR completed the very job the row points at
\* (process_reconciler_once): no stale answer and no error turns into success.
SuccessIsEmrs ==
  \A r \in Run : db[r].state = "succeeded" => TrackedJob(r) = "COMPLETED"

\* Usage is recorded in the transaction that settles a dispatched run, so a
\* succeeded or timed out run always has its row in usage_records and a run
\* that is active or never reached EMR has none (_record_usage_if_needed).
UsageMatchesOutcome ==
  \A r \in Run :
    /\ db[r].state \in {"succeeded", "timed_out"} => db[r].usage
    /\ db[r].usage => db[r].state \in Terminal /\ db[r].job # 0

\* A run in the queue, new or put back after a transient error, carries nothing
\* of an earlier dispatch and no cancel request: a cancel never waits in the
\* queue behind a dispatch (cancel_run, _handle_dispatch_failure).
QueuedIsFresh ==
  \A r \in Run :
    db[r].state = "queued" => db[r].job = 0 /\ ~ db[r].cancelReq /\ ~ db[r].usage

\* Every commit moves every run along an edge of RunStates: no worker and no
\* request brings a settled run back, skips the dispatch or forgets a submitted
\* run, however their transactions interleave.
Lifecycle == INSTANCE RunStates WITH state <- [r \in Run |-> db[r].state]
RefinesLifecycle == Lifecycle!Spec

\* The reconciler would have to cancel a job that EMR no longer lets it cancel:
\* it ended, or began to, before the run was settled.
Stranded(r) ==
  /\ db[r].state \in {"accepted", "running"}
  /\ db[r].cancelReq \/ Overdue(r)
  /\ ~ HasLiveJob(db[r], r)

\* A submitted run does not stay active for ever, unless it is stranded: the
\* scheduler gives up after MaxAttempts, and the timeout, as time passes, ends
\* what EMR does not (process_scheduler_once, process_reconciler_once).
RunsSettleOrStrand ==
  (\A r \in Run : WF_vars(Tick(r)))
  => \A r \in Run : db[r].state = "queued" ~> db[r].state \in Terminal \/ Stranded(r)

\* A cancel request recorded on a run is served, without waiting for the
\* timeout, even if time stands still, unless the run's job ends first
\* (_dispatch_run_cancel_if_requested).
CancelSettlesOrStrands ==
  \A r \in Run : db[r].cancelReq ~> db[r].state \in Terminal \/ Stranded(r)

------------------------------------------------------------------------------
(* The inductive invariant behind the safety properties: what transactions, *)
(* their drafts and EMR's jobs have to do with each other.                   *)

\* A draft differs from the committed row only for a run its holder is done
\* with, and then by an edge of the lifecycle.
DraftsAreLocal ==
  \A r \in Run :
    /\ lock[r] = NoWorker \/ r \notin done[lock[r]] => draft[r] = db[r]
    /\ \/ draft[r].state = db[r].state
       \/ <<db[r].state, draft[r].state>> \in Lifecycle!ForwardEdges

\* A worker holds only rows in a state it wants; it finishes none before it has
\* claimed all.
ClaimsAreWanted ==
  /\ \A r \in Run : lock[r] # NoWorker => db[r].state \in Wanted(lock[r])
  /\ \A w \in Worker : done[w] \subseteq Held(w) /\ (todo[w] # {} => done[w] = {})

\* Nothing has to be undone of a run that is still to be dispatched.
StartsAreAccounted ==
  \A r \in Run :
    /\ starts[r] <= 1 + faults
    /\ draft[r].state \in {"absent", "queued"} => starts[r] <= faults

\* A request that saw a run past the queue is right for ever.
CallsAreMonotonic ==
  \A c \in Caller : call[c].run # NoRun =>
    /\ db[call[c].run].state # "absent"
    /\ call[c].seen # "queued" => db[call[c].run].state # "queued"

\* What a row says about its usage and its job, given its run's EMR jobs js.
RowFits(row, js) ==
  /\ row.state \in {"absent", "queued"} => row.job = 0 /\ ~ row.cancelReq /\ ~ row.usage
  /\ row.state \in {"accepted", "running"} => row.job # 0 /\ ~ row.usage
  /\ row.state = "running" => js[row.job] \notin {"PENDING", "SUBMITTED"}
  /\ row.state = "succeeded" => row.usage /\ js[row.job] = "COMPLETED"
  /\ row.state = "timed_out" => row.usage /\ js[row.job] \notin Live
  /\ row.usage => row.state \in Terminal /\ row.job # 0

\* Committed or not, every row fits.
RowsFit == \A r \in Run : RowFits(db[r], jobs[r]) /\ RowFits(draft[r], jobs[r])

\* The conjunction TLAPS proves inductive (RunLifecycleProofs).
IInv ==
  /\ TypeOK
  /\ DraftsAreLocal
  /\ ClaimsAreWanted
  /\ StartsAreAccounted
  /\ CallsAreMonotonic
  /\ RowsFit

------------------------------------------------------------------------------
(* What the documentation says, and the code does not do *)

\* docs/validation/byoc-lite-cancel-retry-behavior.md: a cancel of an accepted
\* or running run goes to the reconciler, which dispatches the EMR cancel.  So a
\* cancelled run would have no live job.
CancelledJobIsStopped ==
  \A r \in Run : db[r].state = "cancelled" => TrackedJob(r) \notin Live

\* The same, of a cancel of an accepted or running run: "reconciler dispatches EMR
\* cancel and converges to terminal state".
CancelSettles ==
  \A r \in Run : db[r].cancelReq ~> db[r].state \in Terminal
=============================================================================
