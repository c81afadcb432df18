--------------------------- MODULE ProviderClients ---------------------------
(***************************************************************************)
(* The Airflow and Dagster providers: tasks that submit a run over HTTP,   *)
(* wait for it, and are retried by their orchestrator, and tasks that      *)
(* cancel what another one submitted.                                      *)
(*                                                                         *)
(* The API is module OnceRegister, which module Idempotency implements.    *)
(* Request <<t, n, i>> is the i-th that try n of task t sends; one that    *)
(* the client has given up may still take effect.  A GET changes nothing:  *)
(* a poll, with the retries it makes inside, is one step.                  *)
(*                                                                         *)
(* Its runs move as RunStates says, which RunLifecycle implements: a       *)
(* cancel that found a run queued makes it cancelled whatever became of it *)
(* in between.  Tasks wait for their run (wait_for_completion, by default). *)
(***************************************************************************)
EXTENDS OnceRegister, Naturals

CONSTANTS
  Task,        \* tasks that submit a run
  Canceller,   \* tasks that cancel it
  GivenKey,    \* idempotency keys that configurations give
  Plans,       \* the choices of conf, and of body[t, n]: what t's n-th try submits
  Target,      \* Target[c]: the task whose run c cancels
  NoKey,
  MaxTries,    \* tries that the orchestrator gives a task
  MaxSends,    \* request_retries + 1
  MaxMisses,   \* max_transient_failures of a trigger
  Deadline,    \* polls until the time to wait is over
  MaxDeaths,   \* bound: workers and triggerers that die
  Reached      \* bound: the states that the workers take a run to

VARIABLES
  conf,     \* conf[t].kind: "sync", "deferred" (Airflow) or "ops" (Dagster);
            \* conf[t].key: the idempotency_key of its configuration, or NoKey
  asked,    \* the requests that reach the API
  state,    \* state[q]: of the run that request q made, "absent" without one
  stale,    \* the runs that a cancel request found queued: it may write late
  at,       \* at[x]: where task x is
  try,      \* try[x]: its try, from 1
  sends,    \* sends[x]: submissions that this try has sent
  watched,  \* watched[x]: the run it waits for, by the request that made it
  seen,     \* seen[c]: how the cancel request of c found the run
  waited,   \* waited[x]: polls of this wait so far
  misses,   \* misses[x]: polls in a row that failed
  deaths    \* workers and triggerers that have died

Runs == INSTANCE RunStates WITH Run <- Request

\* Mutant of KeyOf: submit_run makes a new key for each request it sends.
KeyOfRequest(t, n, i) == IF conf[t].key = NoKey THEN <<t, n, i>> ELSE conf[t].key

\* submit_run: the configured key, or one made up for all requests of the try.
KeyOf(t, n, i) == IF conf[t].key = NoKey THEN <<t, n>> ELSE conf[t].key

Conf == [kind : {"sync", "deferred", "ops"}, key : GivenKey \cup {NoKey}]

ASSUME ClientAssumption ==
  /\ {MaxTries, MaxSends, Deadline} \subseteq Nat \ {0}
  /\ {MaxMisses, MaxDeaths} \subseteq Nat
  /\ Request = Task \X (1 .. MaxTries) \X (1 .. MaxSends)
  /\ NoRequest \notin Request
  /\ NoKey \notin GivenKey
  /\ Plans \subseteq [conf : [Task -> Conf], body : [Task \X (1 .. MaxTries) -> Body]]
  /\ Target \in [Canceller -> Task]
  /\ Task \cap Canceller = {}
  /\ Reached \subseteq Runs!State

\* uuid4: a key that is made up is nobody's.
ASSUME KeyAssumption ==
  /\ GivenKey \subseteq Key
  /\ \A t \in Task, n \in 1 .. MaxTries : <<t, n>> \in Key \ GivenKey

runVars    == <<state, stale>>
apiVars    == <<conf, want, made, answer, asked, runVars>>
taskVars   == <<at, try, sends, watched, seen, waited, misses>>
clientVars == <<apiVars, taskVars, deaths>>

Worker   == Task \cup Canceller
Deferred == {t \in Task : conf[t].kind = "deferred"}
Ops      == {t \in Task : conf[t].kind = "ops"}
Failure  == {"failed", "cancelled", "timed_out"}
Terminal == {"succeeded"} \cup Failure
Done     == {"success", "run_failed", "failed"}

ClientTypeOK ==
  /\ conf \in [Task -> Conf]
  /\ want \in [Request -> [key : Key, body : Body]]
  /\ made \subseteq Request
  /\ answer \in [Request -> Answer]
  /\ asked \subseteq Request
  /\ state \in [Request -> Runs!State]
  /\ stale \subseteq Request
  /\ at \in [Worker -> {"ready", "asking", "waiting"} \cup Done]
  /\ try \in [Worker -> 1 .. MaxTries]
  /\ sends \in [Worker -> 0 .. MaxSends]
  /\ watched \in [Worker -> Request \cup {NoRequest}]
  /\ seen \in [Canceller -> {"unread"} \cup Runs!State]
  /\ waited \in [Worker -> 0 .. Deadline]
  /\ misses \in [Worker -> 0 .. MaxMisses]
  /\ deaths \in 0 .. MaxDeaths

\* Airflow renders golden_path, a part of the body, for every try anew.
ClientInit ==
  /\ \E plan \in Plans :
       /\ conf = plan.conf
       /\ \A t \in Ops, n \in 1 .. MaxTries : plan.body[<<t, n>>] = plan.body[<<t, 1>>]
       /\ want = [q \in Request |->
                    [key |-> KeyOf(q[1], q[2], q[3]), body |-> plan.body[<<q[1], q[2]>>]]]
  /\ made = {}
  /\ answer = [q \in Request |-> Unanswered]
  /\ asked = {}
  /\ Runs!Init
  /\ stale = {}
  /\ at = [x \in Worker |-> "ready"]
  /\ try = [x \in Worker |-> 1]
  /\ sends = [x \in Worker |-> 0]
  /\ watched = [x \in Worker |-> NoRequest]
  /\ seen = [c \in Canceller |-> "unread"]
  /\ waited = [x \in Worker |-> 0]
  /\ misses = [x \in Worker |-> 0]
  /\ deaths = 0

------------------------------------------------------------------------------
(* The API and its runs *)

Current(t)   == <<t, try[t], sends[t]>>
Following(t) == <<t, try[t], sends[t] + 1>>
Heard(t)     == answer[Current(t)].kind
Awaited(q)   == at[q[1]] = "asking" /\ q = Current(q[1])

\* with_idempotency around create_run, at any time after the request was sent.
\* A request that its client has given up, or whose answer is lost,
\* matters only if it takes effect.
Serve(q) ==
  /\ q \in asked
  /\ \/ /\ TakeEffect(q)
        /\ Awaited(q) \/ answer'[q].kind = "lost"
        /\ state' = [state EXCEPT ![q] = "queued"]
     \/ /\ Awaited(q)
        /\ Fail(q) \/ \E p \in made : Replay(q, p) \/ Conflict(q, p)
        /\ answer'[q].kind # "lost"
        /\ UNCHANGED state
  /\ UNCHANGED <<conf, asked, stale, taskVars, deaths>>

\* The scheduler and the reconciler.
RunMoves(q) ==
  /\ state[q] # "absent"
  /\ \E s \in Reached :
       /\ <<state[q], s>> \in Runs!ForwardEdges
       /\ state' = [state EXCEPT ![q] = s]
  /\ UNCHANGED <<conf, want, made, answer, asked, stale, taskVars, deaths>>

\* cancel_run writes for what was read, whatever the run has become.
CancelIsWritten(q) ==
  /\ q \in stale
  /\ state' = [state EXCEPT ![q] = "cancelled"]
  /\ UNCHANGED <<conf, want, made, answer, asked, stale, taskVars, deaths>>

------------------------------------------------------------------------------
(* A task and its tries *)

Move(x, place) == at' = [at EXCEPT ![x] = place]

\* The variables of a call that is over.
Reset(x) ==
  /\ sends' = [sends EXCEPT ![x] = 0]
  /\ waited' = [waited EXCEPT ![x] = 0]
  /\ misses' = [misses EXCEPT ![x] = 0]
  /\ seen' = IF x \in Canceller THEN [seen EXCEPT ![x] = "unread"] ELSE seen

Ends(x, place) ==
  /\ Move(x, place)
  /\ Reset(x)
  /\ UNCHANGED <<try, watched>>

\* An error that may pass (AirflowException, RetryRequested): the orchestrator
\* tries the task again.  Waiting is an op of its own in Dagster.
TryFails(x) ==
  /\ try[x] < MaxTries
  /\ try' = [try EXCEPT ![x] = @ + 1]
  /\ Reset(x)
  /\ IF x \in Ops /\ at[x] = "waiting" THEN UNCHANGED <<at, watched>>
     ELSE /\ Move(x, "ready")
          /\ watched' = [watched EXCEPT ![x] = NoRequest]

LastTryFails(x) ==
  /\ try[x] = MaxTries
  /\ Ends(x, "failed")

FailsForNow(x) == TryFails(x) \/ LastTryFails(x)

------------------------------------------------------------------------------
(* Submission: _request around POST /v1/jobs/{id}/runs *)

Ask(t) ==
  /\ at[t] = "ready"
  /\ Move(t, "asking")
  /\ sends' = [sends EXCEPT ![t] = 1]
  /\ asked' = asked \cup {<<t, try[t], 1>>}
  /\ UNCHANGED <<conf, want, made, answer, runVars, try, watched, seen, waited, misses, deaths>>

\* The response names a run.  From here on the tries of an op are another op's.
Hear(t) ==
  /\ at[t] = "asking"
  /\ Heard(t) \in {"made", "replayed"}
  /\ Move(t, "waiting")
  /\ watched' = [watched EXCEPT ![t] = answer[Current(t)].of]
  /\ try' = [try EXCEPT ![t] = IF t \in Ops THEN 1 ELSE @]
  /\ Reset(t)
  /\ UNCHANGED <<apiVars, deaths>>

\* The next request of the same call, if there is one left.
SendAgain(t) ==
  /\ sends[t] < MaxSends
  /\ sends' = [sends EXCEPT ![t] = @ + 1]
  /\ UNCHANGED <<at, try, watched, seen, waited, misses>>

\* No answer within the timeout, a connection that breaks, or a status that is
\* worth a retry; 409 and 429 are among them.
AskAgain(t) ==
  /\ at[t] = "asking"
  /\ Heard(t) \in {"none", "lost", "conflict", "refused"}
  /\ \/ SendAgain(t) /\ asked' = asked \cup {Following(t)}
     \/ sends[t] = MaxSends /\ FailsForNow(t) /\ UNCHANGED asked
  /\ UNCHANGED <<conf, want, made, answer, runVars, deaths>>

\* 401 comes before the handler: the token is renewed once more and the request
\* sent again, unless it was the last.  The token's endpoint may refuse, too:
\* Airflow tries again whatever it says, Dagster if its status is worth it.
TurnedAway(t) ==
  /\ at[t] = "asking"
  /\ Heard(t) = "none"
  /\ \/ SendAgain(t) /\ asked' = (asked \ {Current(t)}) \cup {Following(t)}
     \/ /\ \/ sends[t] = MaxSends /\ Ends(t, "failed")
           \/ t \in Ops /\ Ends(t, "failed")
           \/ FailsForNow(t)
        /\ asked' = asked \ {Current(t)}
  /\ UNCHANGED <<conf, want, made, answer, runVars, deaths>>

\* Any other status fails the task.
AskRefused(t) ==
  /\ at[t] = "asking"
  /\ Heard(t) = "refused"
  /\ Ends(t, "failed")
  /\ UNCHANGED <<apiVars, deaths>>

------------------------------------------------------------------------------
(* Waiting: wait_for_terminal_state, or the trigger's loop *)

\* Mutant of WaitOn: the loop does not look at the time.
WaitOnAnyway(x, inARow) ==
  /\ waited' = [waited EXCEPT ![x] = @ + 1]
  /\ misses' = [misses EXCEPT ![x] = inARow]
  /\ UNCHANGED <<at, try, sends, watched, seen>>

\* One more turn of the loop.
WaitOn(x, inARow) ==
  /\ waited[x] < Deadline
  /\ waited' = [waited EXCEPT ![x] = @ + 1]
  /\ misses' = [misses EXCEPT ![x] = inARow]
  /\ UNCHANGED <<at, try, sends, watched, seen>>

\* Mutant of PollEnded: a run that was cancelled has ended well, too.
PollEndedOrCancelled(x) ==
  /\ state[watched[x]] \in Terminal
  /\ Ends(x, IF state[watched[x]] = "failed" THEN "run_failed" ELSE "success")

PollEnded(x) ==
  /\ state[watched[x]] \in Terminal
  /\ Ends(x, IF state[watched[x]] \in Failure THEN "run_failed" ELSE "success")

\* It looks at the time only if the run is not over.
Poll(x) ==
  /\ at[x] = "waiting"
  /\ \/ PollEnded(x)
     \/ /\ state[watched[x]] \notin Terminal
        /\ \/ WaitOn(x, 0)
           \/ waited[x] = Deadline /\ FailsForNow(x)
  /\ UNCHANGED <<apiVars, deaths>>

\* Mutant of PollMisses: the time to wait starts anew.
PollMissesForEver(x) ==
  /\ at[x] = "waiting"
  /\ waited' = [waited EXCEPT ![x] = 0]
  /\ UNCHANGED <<apiVars, at, try, sends, watched, seen, misses, deaths>>

\* A poll that fails for now; only a trigger counts how many in a row.
PollMisses(x) ==
  /\ at[x] = "waiting"
  /\ \/ x \in Deferred /\ misses[x] = MaxMisses /\ FailsForNow(x)
     \/ x \in Deferred /\ misses[x] < MaxMisses /\ WaitOn(x, misses[x] + 1)
     \/ x \notin Deferred /\ WaitOn(x, 0)
     \/ waited[x] = Deadline /\ FailsForNow(x)
  /\ UNCHANGED <<apiVars, deaths>>

\* A poll that is refused, by a token that no longer serves for one.
PollRefused(x) ==
  /\ at[x] = "waiting"
  /\ Ends(x, "failed")
  /\ UNCHANGED <<apiVars, deaths>>

------------------------------------------------------------------------------
(* Cancelling: POST /v1/runs/{id}/cancel *)

FoundQueued(q) == IF state[q] = "queued" THEN {q} ELSE {}

AskCancel(c) ==
  LET q == watched[Target[c]]
  IN /\ at[c] = "ready"
     /\ q # NoRequest
     /\ Move(c, "asking")
     /\ watched' = [watched EXCEPT ![c] = q]
     /\ UNCHANGED <<apiVars, try, sends, seen, waited, misses, deaths>>

\* post_cancel_run loads the run; of the requests of a try, the one that counts.
ReadForCancel(c) ==
  LET q == watched[c]
  IN /\ at[c] = "asking"
     /\ seen[c] = "unread"
     /\ seen' = [seen EXCEPT ![c] = state[q]]
     /\ stale' = stale \cup FoundQueued(q)
     /\ UNCHANGED <<conf, want, made, answer, asked, state>>
     /\ UNCHANGED <<at, try, sends, watched, waited, misses, deaths>>

\* The answer says how the run was found, or that it is cancelled now.  With a key
\* from its configuration a task may be given the answer of an earlier try.
HearCancel(c) ==
  LET q == watched[c]
      over == \/ seen[c] \in Terminal
              \/ seen[c] = "queued" /\ state[q] = "cancelled"
      goesOn == seen[c] \in {"accepted", "running"}
      earlier == try[c] > 1
  IN /\ at[c] = "asking"
     /\ \/ over /\ Ends(c, "success")
        \/ earlier /\ state[q] \in Terminal /\ Ends(c, "success")
        \/ /\ goesOn \/ earlier
           /\ Move(c, "waiting")
           /\ Reset(c)
           /\ UNCHANGED <<try, watched>>
     /\ UNCHANGED <<apiVars, deaths>>

\* Its answer is lost, or nothing came of it: the client gives up, for now or, as
\* it is refused, for good.  What it has sent may be read and written still.
CancelFails(c) ==
  /\ at[c] = "asking"
  /\ FailsForNow(c) \/ Ends(c, "failed")
  /\ stale' = stale \cup FoundQueued(watched[c])
  /\ UNCHANGED <<conf, want, made, answer, asked, state, deaths>>

------------------------------------------------------------------------------
(* Deaths *)

\* An Airflow worker dies: the scheduler finds the task dead and tries it again.
WorkerDies(t) ==
  /\ deaths < MaxDeaths
  /\ deaths' = deaths + 1
  /\ \/ at[t] = "asking" /\ t \notin Ops
     \/ at[t] = "waiting" /\ conf[t].kind = "sync"
  /\ FailsForNow(t)
  /\ UNCHANGED apiVars

\* A trigger is run from its serialized form, which knows the run and nothing
\* of the time it has waited.
TriggererDies(t) ==
  /\ deaths < MaxDeaths
  /\ deaths' = deaths + 1
  /\ at[t] = "waiting"
  /\ t \in Deferred
  /\ waited' = [waited EXCEPT ![t] = 0]
  /\ misses' = [misses EXCEPT ![t] = 0]
  /\ UNCHANGED <<apiVars, at, try, sends, watched, seen>>

------------------------------------------------------------------------------

TaskStep(t) ==
  Ask(t) \/ Hear(t) \/ AskAgain(t) \/ TurnedAway(t) \/ AskRefused(t)
CancelStep(c) == AskCancel(c) \/ ReadForCancel(c) \/ HearCancel(c) \/ CancelFails(c)
WaitStep(x) == Poll(x) \/ PollMisses(x) \/ PollRefused(x)

ClientNext ==
  \/ \E q \in Request : Serve(q) \/ RunMoves(q) \/ CancelIsWritten(q)
  \/ \E t \in Task : TaskStep(t) \/ WorkerDies(t) \/ TriggererDies(t)
  \/ \E c \in Canceller : CancelStep(c)
  \/ \E x \in Worker : WaitStep(x)

ClientSpec == ClientInit /\ [][ClientNext]_clientVars

\* The client's process runs: its calls have timeouts, its sleeps end.
FairClients ==
  /\ ClientSpec
  /\ \A t \in Task : WF_clientVars(TaskStep(t))
  /\ \A c \in Canceller : WF_clientVars(HearCancel(c) \/ CancelFails(c))
  /\ \A x \in Worker : WF_clientVars(WaitStep(x))

------------------------------------------------------------------------------
(* Properties *)

\* However often a call is repeated, by the client or after the client has
\* given up on it, a try of a task makes one run at most; and so do all tries
\* together of the tasks that have a key in their configuration (submit_run,
\* _request).
OneRunPerKey ==
  \A p, q \in made :
    /\ p[1] = q[1] /\ p[2] = q[2] => p = q
    /\ conf[p[1]].key # NoKey /\ conf[p[1]].key = conf[q[1]].key => p = q

\* A task succeeds, and fails for its run's sake, only as the run did: what it was
\* told stays true, except that a cancel which found the run queued may still make
\* a run cancelled that has succeeded (post_cancel_run, cancel_run).  The run was
\* made for what the task asks for, under its key; and when a task that cancels has
\* succeeded, the run is over.
OutcomeIsTheRuns ==
  \A x \in Worker :
    /\ at[x] = "success" /\ x \in Task =>
         \/ state[watched[x]] = "succeeded"
         \/ state[watched[x]] = "cancelled" /\ watched[x] \in stale
    /\ at[x] = "success" => state[watched[x]] \in Terminal
    /\ at[x] = "run_failed" => state[watched[x]] \in Failure
    /\ x \in Task /\ watched[x] # NoRequest =>
         /\ want[watched[x]].body = want[<<x, try[x], 1>>].body
         /\ conf[x].key # NoKey => want[watched[x]].key = conf[x].key
         /\ conf[x].key = NoKey => watched[x][1] = x

\* Nobody waits for ever, whatever becomes of the API and of the runs.
EveryTaskEnds ==
  /\ \A t \in Task : <>(at[t] \in Done)
  /\ \A c \in Canceller : at[c] \in {"asking", "waiting"} ~> at[c] \in Done \cup {"ready"}
=============================================================================
