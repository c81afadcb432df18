----------------------------- MODULE RunAdmission -----------------------------
(***************************************************************************)
(* One environment and the API requests that meet at its row: submissions  *)
(* of runs (with_idempotency around create_run, so the steps of module     *)
(* Idempotency are steps of a submission), retries of its provisioning and *)
(* deletions, with the provisioner and the run workers at the other end.   *)
(*                                                                         *)
(* Only create_run locks the row.  Retry and delete read it, check, and    *)
(* write at the end; their UPDATE waits for the lock but looks at nothing  *)
(* again.  An ORM session keeps the environment it loaded first: the       *)
(* status create_run tests under the lock is the one post_run loaded       *)
(* before it, while the quota is counted in the database afresh.           *)
(***************************************************************************)
EXTENDS Idempotency, FiniteSets, FiniteSetsExt, Naturals

CONSTANTS
  Retrier,            \* requests to retry provisioning, each with its operation
  Deleter,            \* requests to delete the environment
  Creation,           \* the operation that create_environment queued
  MaxConcurrentRuns,  \* environment.max_concurrent_runs
  MaxVcpu,            \* environment.max_vcpu
  Vcpu                \* Vcpu[b]: the vCPUs that body b asks for

Op == Retrier \cup {Creation}

ASSUME FiniteAssumption == IsFiniteSet(Request)
ASSUME QuotaAssumption ==
  /\ MaxConcurrentRuns \in Nat
  /\ MaxVcpu \in Nat
  /\ Vcpu \in [Body -> Nat]

VARIABLES
  status,   \* environments.status, committed
  lockedBy, \* the submission that holds FOR UPDATE on the row, or NoRequest
  seen,     \* seen[x]: the status that request or operation x loaded last
  run,      \* run[q]: the committed run that submission q inserted
  op,       \* op[o]: the committed state of a provisioning operation
  step      \* step[x]: how far retry or deletion x has come

envVars  == <<status, lockedBy, seen, run, op, step>>
allVars  == <<vars, envVars>>

Status == {"provisioning", "ready", "failed", "deleted"}
Editor == Retrier \cup Deleter
Session == Request \cup Editor \cup Op

AdmissionTypeOK ==
  /\ TypeOK
  /\ status \in Status
  /\ lockedBy \in Request \cup {NoRequest}
  /\ seen \in [Session -> Status \cup {"unread"}]
  /\ run \in [Request -> {"absent", "active", "ended"}]
  /\ op \in [Op -> {"absent", "active", "ended"}]
  /\ step \in [Editor -> {"read", "runs", "operations", "write", "end"}]

AdmissionInit ==
  /\ Init
  /\ status = "provisioning"
  /\ lockedBy = NoRequest
  /\ seen = [x \in Session |-> "unread"]
  /\ run = [q \in Request |-> "absent"]
  /\ op = [o \in Op |-> IF o = Creation THEN "active" ELSE "absent"]
  /\ step = [x \in Editor |-> "read"]

ActiveRuns == {q \in Request : run[q] = "active"}
ActiveOps  == {o \in Op : op[o] = "active"}
Unlocked   == lockedBy = NoRequest

\* An attribute set to the value it was loaded with is not part of the UPDATE.
Assign(x, value) == status' = IF seen[x] = value THEN status ELSE value

Sizes      == [q \in Request |-> Vcpu[want[q].body]]
VcpuOf(qs) == SumFunctionOnSet(Sizes, qs)

------------------------------------------------------------------------------
(* Submissions *)

\* post_run loads the job's environment to check access.
Arrive(q) ==
  /\ pc[q] = "load"
  /\ seen[q] = "unread"
  /\ seen' = [seen EXCEPT ![q] = status]
  /\ UNCHANGED <<vars, status, lockedBy, run, op, step>>

\* The steps around execute(); the session still has what post_run loaded.
AroundExecute(q) ==
  /\ seen[q] # "unread"
  /\ LoadHit(q) \/ LoadMiss(q) \/ Reserve(q) \/ ReserveRefused(q) \/ Reload(q)
  /\ UNCHANGED envVars

\* Mutant of LockEnvironment: a plain SELECT.
LockEnvironmentNot(q) ==
  /\ pc[q] = "execute"
  /\ lockedBy' = q
  /\ UNCHANGED <<vars, status, seen, run, op, step>>

\* lock_environment_for_quota: SELECT ... FOR UPDATE waits for its turn.
LockEnvironment(q) ==
  /\ pc[q] = "execute"
  /\ Unlocked
  /\ lockedBy' = q
  /\ UNCHANGED <<vars, status, seen, run, op, step>>

\* Mutant of WithinQuota: the run that is asked for is not counted.
WithinQuotaAlready(q) ==
  /\ Cardinality(ActiveRuns) <= MaxConcurrentRuns
  /\ VcpuOf(ActiveRuns) <= MaxVcpu

\* enforce_quota_for_run; every statement sees what has been committed.
WithinQuota(q) ==
  /\ Cardinality(ActiveRuns) < MaxConcurrentRuns
  /\ VcpuOf(ActiveRuns) + Sizes[q] <= MaxVcpu

\* create_run goes through.  Its search for a run with the same key finds
\* none: that is RecordMatchesEffect.
Admit(q) ==
  /\ lockedBy = q
  /\ seen[q] = "ready"
  /\ WithinQuota(q)
  /\ Execute(q)
  /\ UNCHANGED envVars

\* Mutant of Release: the transaction is left open.
ReleaseNot(q) == UNCHANGED lockedBy

\* with_idempotency commits or rolls back, which ends the row lock.
Release(q) == lockedBy' = IF lockedBy = q THEN NoRequest ELSE lockedBy

CommitRun(q) ==
  /\ Commit(q)
  /\ run' = [run EXCEPT ![q] = "active"]
  /\ Release(q)
  /\ UNCHANGED <<status, seen, op, step>>

\* Not ready, over quota, a policy or a golden path that forbids it, or an
\* error of the commit.
Refuse(q) ==
  /\ lockedBy = q
  /\ Fail(q)
  /\ Release(q)
  /\ UNCHANGED <<status, seen, run, op, step>>

\* The API process dies, or the database gives up on the transaction.
Die(q) ==
  /\ Crash(q)
  /\ Release(q)
  /\ UNCHANGED <<status, seen, run, op, step>>

SubmissionStep(q) ==
  \/ Arrive(q) \/ AroundExecute(q) \/ LockEnvironment(q) \/ Admit(q)
  \/ CommitRun(q) \/ Refuse(q)

------------------------------------------------------------------------------
(* Retry and delete: load, check, check, write *)

At(x, from, to) ==
  /\ step[x] = from
  /\ step' = [step EXCEPT ![x] = to]

ReadEnvironment(x) ==
  /\ At(x, "read", IF status = "deleted" THEN "end"
                   ELSE IF x \in Deleter THEN "runs" ELSE "operations")
  /\ seen' = [seen EXCEPT ![x] = status]
  /\ UNCHANGED <<vars, status, lockedBy, run, op>>

CheckRuns(x) ==
  /\ At(x, "runs", IF ActiveRuns = {} THEN "operations" ELSE "end")
  /\ UNCHANGED <<vars, status, lockedBy, seen, run, op>>

CheckOperations(x) ==
  /\ At(x, "operations", IF ActiveOps = {} THEN "write" ELSE "end")
  /\ UNCHANGED <<vars, status, lockedBy, seen, run, op>>

\* Mutant of RetryWrite: the operation is left to another transaction.
RetryWriteStatusOnly(x) ==
  /\ x \in Retrier
  /\ At(x, "write", "end")
  /\ Unlocked
  /\ Assign(x, "provisioning")
  /\ UNCHANGED <<vars, lockedBy, seen, run, op>>

RetryWrite(x) ==
  /\ x \in Retrier
  /\ At(x, "write", "end")
  /\ Unlocked
  /\ Assign(x, "provisioning")
  /\ op' = [op EXCEPT ![x] = "active"]
  /\ seen' = [seen EXCEPT ![x] = "unread"]
  /\ UNCHANGED <<vars, lockedBy, run>>

DeleteWrite(x) ==
  /\ x \in Deleter
  /\ At(x, "write", "end")
  /\ Unlocked
  /\ Assign(x, "deleted")
  /\ UNCHANGED <<vars, lockedBy, seen, run, op>>

EditorStep(x) ==
  \/ ReadEnvironment(x) \/ CheckRuns(x) \/ CheckOperations(x)
  \/ RetryWrite(x) \/ DeleteWrite(x)

------------------------------------------------------------------------------
(* The workers *)

\* The provisioner loads the environment again after each of its commits.
LoadForOperation(o) ==
  /\ op[o] = "active"
  /\ seen' = [seen EXCEPT ![o] = status]
  /\ UNCHANGED <<vars, status, lockedBy, run, op, step>>

\* It ends the operation and assigns the status that this implies, whatever
\* the environment has become: _set_provisioning_ready and _failed.
EndOperation(o) ==
  /\ op[o] = "active"
  /\ seen[o] # "unread"
  /\ Unlocked
  /\ op' = [op EXCEPT ![o] = "ended"]
  /\ Assign(o, "ready") \/ Assign(o, "failed")
  /\ UNCHANGED <<vars, lockedBy, seen, run, step>>

\* A run reaches a terminal state, from which it never returns to an active
\* one (module RunLifecycle).
EndRun(q) ==
  /\ run[q] = "active"
  /\ run' = [run EXCEPT ![q] = "ended"]
  /\ UNCHANGED <<vars, status, lockedBy, seen, op, step>>

Quiet ==
  /\ \A q \in Request : pc[q] = "end"
  /\ \A x \in Editor : step[x] = "end"
  /\ ActiveRuns = {} /\ ActiveOps = {}
  /\ UNCHANGED allVars

AdmissionNext ==
  \/ \E q \in Request : SubmissionStep(q) \/ Die(q) \/ EndRun(q)
  \/ \E x \in Editor : EditorStep(x)
  \/ \E o \in Op : LoadForOperation(o) \/ EndOperation(o)
  \/ Quiet

AdmissionSpec == AdmissionInit /\ [][AdmissionNext]_allVars

\* PostgreSQL grants a row lock in the order of arrival, so that whoever waits
\* for the environment gets it; the API serves whom it has accepted.
FairAdmission ==
  /\ AdmissionSpec
  /\ \A q \in Request : SF_allVars(SubmissionStep(q))
  /\ \A x \in Editor : SF_allVars(EditorStep(x))

------------------------------------------------------------------------------
(* Properties *)

(***************************************************************************)
(* However many submissions arrive at once, and whatever becomes of the    *)
(* environment meanwhile, its runs never exceed max_concurrent_runs        *)
(* (docs/architecture.md:55-61; tests/test_load_concurrent_submissions.py).*)
(***************************************************************************)
RunLimitHolds == Cardinality(ActiveRuns) <= MaxConcurrentRuns

(***************************************************************************)
(* Why it does: between the count and the commit the counter of runs can   *)
(* only fall, because the lock keeps every other submission out.           *)
(***************************************************************************)
AdmittedHasRoom ==
  \A q \in Request : pc[q] = "commit" =>
    lockedBy = q /\ Cardinality(ActiveRuns) < MaxConcurrentRuns

AdmissionInv == AdmissionTypeOK /\ AdmittedHasRoom /\ RunLimitHolds

(***************************************************************************)
(* Nor do they ask together for more than max_vcpu, with runs of different *)
(* sizes admitted in any order as others end.                              *)
(***************************************************************************)
VcpuLimitHolds == VcpuOf(ActiveRuns) <= MaxVcpu

(***************************************************************************)
(* An environment that says it is being provisioned is: some operation is  *)
(* under way that will end and set the status, through any race of retries *)
(* and deletions.                                                          *)
(***************************************************************************)
ProvisioningHasAnOperation == status = "provisioning" => ActiveOps # {}

(***************************************************************************)
(* Submissions wait for a key first and for the environment second, so no  *)
(* two wait for each other: every request comes to an end.                 *)
(***************************************************************************)
NobodyHangs ==
  /\ EveryRequestEnds
  /\ \A x \in Editor : <>(step[x] = "end")
=============================================================================
