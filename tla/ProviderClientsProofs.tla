------------------------ MODULE ProviderClientsProofs ------------------------
(***************************************************************************)
(* For all tasks, keys, bodies and limits: that a repeated submission      *)
(* makes no second run, and that a task ends only as its own run did, with *)
(* the one exception of a cancel that overwrites what it has not seen.     *)
(***************************************************************************)
EXTENDS ProviderClients, TLAPS

\* What the API keeps: one request took effect for each key.
OneMadePerKey ==
  /\ made \subseteq Request
  /\ \A p, q \in made : want[p].key = want[q].key => p = q

\* What the clients keep: each request carries the key of its try.
KeysAreFixed == \A q \in Request : want[q].key = KeyOf(q[1], q[2], q[3])

KeysInv == OneMadePerKey /\ KeysAreFixed

\* The calls of the clients leave the register alone.
RegisterStill == UNCHANGED <<conf, want, made, answer>>

LEMMA InitKeys == ClientInit => KeysInv
<1> SUFFICES ASSUME ClientInit PROVE KeysInv
  OBVIOUS
<1>1. OneMadePerKey
  BY DEF ClientInit, OneMadePerKey
<1>2. PICK plan \in Plans :
        want = [q \in Request |->
                 [key |-> KeyOf(q[1], q[2], q[3]), body |-> plan.body[<<q[1], q[2]>>]]]
  BY DEF ClientInit
<1>3. ASSUME NEW q \in Request PROVE want[q].key = KeyOf(q[1], q[2], q[3])
  BY <1>2
<1> QED
  BY <1>1, <1>3 DEF KeysInv, KeysAreFixed

\* Serving a request adds it to what took effect only if its key is free.
LEMMA ServeKeepsKeys ==
  ASSUME KeysInv, NEW q \in Request, Serve(q)
  PROVE  KeysInv'
<1>1. UNCHANGED <<conf, want>>
  BY DEF Serve, TakeEffect, Fail, Replay, Conflict, Tell
<1>2. \/ made' = made
      \/ /\ made' = made \cup {q}
         /\ \A p \in made : want[p].key # want[q].key
  <2>1. CASE TakeEffect(q)
    BY <2>1 DEF TakeEffect
  <2>2. CASE Fail(q)
    BY <2>2 DEF Fail
  <2>3. ASSUME NEW p \in made, Replay(q, p) \/ Conflict(q, p) PROVE made' = made
    BY <2>3 DEF Replay, Conflict
  <2> QED
    BY <2>1, <2>2, <2>3 DEF Serve
<1>3. KeysAreFixed'
  BY <1>1 DEF KeysInv, KeysAreFixed, KeyOf
<1>4. OneMadePerKey'
  BY <1>1, <1>2 DEF KeysInv, OneMadePerKey
<1> QED
  BY <1>3, <1>4 DEF KeysInv

\* Every other step leaves the register alone.
LEMMA OthersLeaveRegister ==
  ASSUME [ClientNext]_clientVars
  PROVE  RegisterStill \/ \E q \in Request : Serve(q)
<1>1. CASE UNCHANGED clientVars
  BY <1>1 DEF clientVars, apiVars, RegisterStill
<1>2. ASSUME NEW q \in Request, RunMoves(q) \/ CancelIsWritten(q) PROVE RegisterStill
  BY <1>2 DEF RunMoves, CancelIsWritten, RegisterStill
<1>3. ASSUME NEW t \in Task, TaskStep(t) \/ WorkerDies(t) \/ TriggererDies(t)
      PROVE RegisterStill
  <2>1. CASE Ask(t) BY <2>1 DEF Ask, RegisterStill
  <2>2. CASE Hear(t) BY <2>2 DEF Hear, apiVars, RegisterStill
  <2>3. CASE AskAgain(t) BY <2>3 DEF AskAgain, RegisterStill
  <2>4. CASE TurnedAway(t) BY <2>4 DEF TurnedAway, RegisterStill
  <2>5. CASE AskRefused(t) BY <2>5 DEF AskRefused, apiVars, RegisterStill
  <2>6. CASE WorkerDies(t) BY <2>6 DEF WorkerDies, apiVars, RegisterStill
  <2>7. CASE TriggererDies(t) BY <2>7 DEF TriggererDies, apiVars, RegisterStill
  <2> QED BY <1>3, <2>1, <2>2, <2>3, <2>4, <2>5, <2>6, <2>7 DEF TaskStep
<1>4. ASSUME NEW c \in Canceller, CancelStep(c) PROVE RegisterStill
  BY <1>4 DEF CancelStep, AskCancel, ReadForCancel, HearCancel, CancelFails, apiVars, RegisterStill
<1>5. ASSUME NEW x \in Worker, WaitStep(x) PROVE RegisterStill
  BY <1>5 DEF WaitStep, Poll, PollMisses, PollRefused, apiVars, RegisterStill
<1> QED
  BY <1>1, <1>2, <1>3, <1>4, <1>5 DEF ClientNext

LEMMA StepKeepsKeys ==
  ASSUME KeysInv, [ClientNext]_clientVars
  PROVE  KeysInv'
<1>1. CASE RegisterStill
  BY <1>1 DEF KeysInv, OneMadePerKey, KeysAreFixed, KeyOf, RegisterStill
<1>2. CASE \E q \in Request : Serve(q)
  BY <1>2, ServeKeepsKeys
<1> QED
  BY <1>1, <1>2, OthersLeaveRegister

\* Two requests of one try, or of tasks with one key, carry one key.
LEMMA KeysMakeOneRun == KeysInv => OneRunPerKey
<1> SUFFICES ASSUME KeysInv, NEW p \in made, NEW q \in made
             PROVE  /\ p[1] = q[1] /\ p[2] = q[2] => p = q
                    /\ conf[p[1]].key # NoKey /\ conf[p[1]].key = conf[q[1]].key => p = q
  BY DEF OneRunPerKey
<1>1. /\ p \in Request /\ q \in Request
      /\ want[p].key = want[q].key => p = q
  BY DEF KeysInv, OneMadePerKey
<1>2. /\ want[p].key = KeyOf(p[1], p[2], p[3])
      /\ want[q].key = KeyOf(q[1], q[2], q[3])
  BY <1>1 DEF KeysInv, KeysAreFixed
<1> QED
  BY <1>1, <1>2 DEF KeyOf

\* However often a submission is repeated, a try makes one run at most, and so
\* do all tries together of the tasks that share a configured key (submit_run,
\* _request, with_idempotency).
THEOREM OneRunForAKey == ClientSpec => []OneRunPerKey
<1>1. KeysInv /\ [ClientNext]_clientVars => KeysInv'
  BY StepKeepsKeys
<1> QED
  BY InitKeys, <1>1, KeysMakeOneRun, PTL DEF ClientSpec

------------------------------------------------------------------------------
(* That an outcome is the run's *)

\* A task that asks has sent a request; who asks to cancel, waits, or has ended as
\* its run did, knows the run.
WorkersKnow ==
  \A x \in Worker :
    /\ x \in Task /\ at[x] = "asking" => sends[x] # 0
    /\ x \in Canceller /\ at[x] = "asking" => watched[x] \in Request
    /\ at[x] \in {"waiting", "success", "run_failed"} => watched[x] \in Request

\* Who is told of a run is told of one that was made, for what it wants.
AnswersAreTrue ==
  \A q \in Request :
    answer[q].kind \in {"made", "replayed"} =>
      answer[q].of \in made /\ want[answer[q].of] = want[q]

\* A request has a run only if it took effect, and only runs are found queued: no
\* run is started anew.
RunsAreMade ==
  /\ \A q \in Request : state[q] # "absent" => q \in made
  /\ \A q \in stale : state[q] # "absent"

\* All requests of a try carry one body, and so do all tries of an op.
BodiesAreFixed ==
  \A q \in Request :
    /\ want[q].body = want[<<q[1], q[2], 1>>].body
    /\ q[1] \in Ops => want[q].body = want[<<q[1], 1, 1>>].body

RegisterInv == KeysInv /\ AnswersAreTrue /\ RunsAreMade /\ BodiesAreFixed

\* What a cancel has found lasts while it asks: a run it found over is over.
FindingLasts(x) ==
  x \in Canceller /\ seen[x] # "unread" =>
    /\ at[x] = "asking"
    /\ seen[x] \in Terminal => state[watched[x]] \in Terminal

FindingsLast == \A x \in Worker : FindingLasts(x)

ClientInv ==
  ClientTypeOK /\ WorkersKnow /\ RegisterInv /\ OutcomeIsTheRuns /\ FindingsLast

\* The requests of a try that has sent its sends-th are requests.
LEMMA RequestsOfTries ==
  ASSUME NEW t \in Task, NEW n \in 1 .. MaxTries, NEW i \in 1 .. MaxSends
  PROVE  <<t, n, i>> \in Request
  BY ClientAssumption

LEMMA InitClient == ClientInit => ClientInv
<1> SUFFICES ASSUME ClientInit PROVE ClientInv
  OBVIOUS
<1> USE DEF ClientInit
<1>1. PICK plan \in Plans :
        /\ conf = plan.conf
        /\ \A t \in Ops, n \in 1 .. MaxTries : plan.body[<<t, n>>] = plan.body[<<t, 1>>]
        /\ want = [q \in Request |->
                     [key |-> KeyOf(q[1], q[2], q[3]), body |-> plan.body[<<q[1], q[2]>>]]]
  OBVIOUS
<1>2. 1 \in 1 .. MaxTries /\ 1 \in 1 .. MaxSends /\ 0 \in 0 .. Deadline
        /\ 0 \in 0 .. MaxMisses /\ 0 \in 0 .. MaxDeaths /\ 0 \in 0 .. MaxSends
  BY ClientAssumption
<1>3. ASSUME NEW q \in Request
      PROVE  /\ want[q] \in [key : Key, body : Body]
             /\ want[q].body = plan.body[<<q[1], q[2]>>]
             /\ q[1] \in Task /\ q[2] \in 1 .. MaxTries /\ q[3] \in 1 .. MaxSends
  <2>1. q[1] \in Task /\ q[2] \in 1 .. MaxTries /\ q[3] \in 1 .. MaxSends
    BY ClientAssumption
  <2>2. plan.body[<<q[1], q[2]>>] \in Body
    BY <2>1, ClientAssumption
  <2>3. conf[q[1]].key \in GivenKey \cup {NoKey}
    BY <1>1, <2>1, ClientAssumption DEF Conf
  <2>4. KeyOf(q[1], q[2], q[3]) \in Key
    BY <2>1, <2>3, KeyAssumption DEF KeyOf
  <2>5. want[q] = [key |-> KeyOf(q[1], q[2], q[3]), body |-> plan.body[<<q[1], q[2]>>]]
    BY <1>1
  <2> QED
    BY <2>1, <2>2, <2>4, <2>5
<1>4. want \in [Request -> [key : Key, body : Body]]
  <2>1. want = [q \in Request |-> want[q]]
    BY <1>1
  <2> QED
    BY <2>1, <1>3
<1>5. ClientTypeOK
  BY <1>1, <1>2, <1>4, ClientAssumption DEF ClientTypeOK, Answer, Unanswered, Runs!Init, Runs!State
<1>6. BodiesAreFixed
  <2> SUFFICES ASSUME NEW q \in Request
               PROVE  /\ want[q].body = want[<<q[1], q[2], 1>>].body
                      /\ q[1] \in Ops => want[q].body = want[<<q[1], 1, 1>>].body
    BY DEF BodiesAreFixed
  <2>1. /\ <<q[1], q[2], 1>> \in Request
        /\ <<q[1], 1, 1>> \in Request
    BY <1>2, <1>3, RequestsOfTries
  <2>2. /\ want[<<q[1], q[2], 1>>].body = plan.body[<<q[1], q[2]>>]
        /\ want[<<q[1], 1, 1>>].body = plan.body[<<q[1], 1>>]
    BY <2>1, <1>3
  <2> QED
    BY <1>1, <1>3, <2>2
<1>7. AnswersAreTrue /\ RunsAreMade
  BY DEF AnswersAreTrue, RunsAreMade, Unanswered, Runs!Init
<1>8. WorkersKnow /\ OutcomeIsTheRuns /\ FindingsLast
  BY DEF WorkersKnow, OutcomeIsTheRuns, FindingsLast, FindingLasts, Worker
<1> QED
  BY InitKeys, <1>5, <1>6, <1>7, <1>8 DEF ClientInv, RegisterInv

WorkerTypes ==
  /\ at \in [Worker -> {"ready", "asking", "waiting"} \cup Done]
  /\ try \in [Worker -> 1 .. MaxTries]
  /\ sends \in [Worker -> 0 .. MaxSends]
  /\ watched \in [Worker -> Request \cup {NoRequest}]
  /\ seen \in [Canceller -> {"unread"} \cup Runs!State]
  /\ waited \in [Worker -> 0 .. Deadline]
  /\ misses \in [Worker -> 0 .. MaxMisses]

Stays(y) ==
  /\ at'[y] = at[y] /\ try'[y] = try[y] /\ watched'[y] = watched[y]
  /\ y \in Canceller => seen'[y] = seen[y]

\* The other workers stay as they are.
OthersStay(x) ==
  \A y \in Worker \ {x} : Stays(y)

\* A step of a worker that neither ends well nor ends with its run, and learns
\* of no run: it may forget the run, and counts tries only if it does or is an op.
OrdinaryMove(x) ==
  /\ WorkerTypes'
  /\ WorkersKnow'
  /\ OthersStay(x)
  /\ at'[x] \notin {"success", "run_failed"}
  /\ x \in Canceller => seen'[x] = "unread"
  /\ \/ watched'[x] = NoRequest
     \/ watched'[x] = watched[x] /\ (try'[x] = try[x] \/ x \in Ops)

\* No run that is over goes on: it may only become cancelled, if it was found queued.
RunsKeep ==
  /\ stale \subseteq stale'
  /\ \A q \in Request :
       state[q] \in Terminal =>
         state'[q] = state[q] \/ (state'[q] = "cancelled" /\ q \in stale')

\* Runs move, but none starts.
RunsGoOn ==
  /\ RunsKeep
  /\ state' \in [Request -> Runs!State]
  /\ stale' \subseteq Request
  /\ \A q \in Request : state'[q] # "absent" <=> state[q] # "absent"
  /\ \A q \in stale' : state'[q] # "absent"

\* Giving a try up, giving the task up, sending again, polling again.
LEMMA OrdinaryMoves ==
  ASSUME ClientInv, NEW x \in Worker, at[x] \in {"ready", "asking", "waiting"},
         \/ FailsForNow(x)
         \/ Ends(x, "failed")
         \/ x \in Task /\ at[x] = "asking" /\ SendAgain(x)
         \/ at[x] = "waiting" /\ \E n \in 0 .. MaxMisses : WaitOn(x, n)
  PROVE  OrdinaryMove(x)
<1> USE ClientAssumption DEF ClientInv, ClientTypeOK, WorkersKnow, WorkerTypes, OthersStay, Stays,
          OrdinaryMove, Done
<1>1. CASE TryFails(x)
  <2>1. /\ try' = [try EXCEPT ![x] = @ + 1] /\ try[x] < MaxTries
        /\ sends' = [sends EXCEPT ![x] = 0]
        /\ waited' = [waited EXCEPT ![x] = 0]
        /\ misses' = [misses EXCEPT ![x] = 0]
        /\ seen' = IF x \in Canceller THEN [seen EXCEPT ![x] = "unread"] ELSE seen
    BY <1>1 DEF TryFails, Reset
  <2>2. /\ try' \in [Worker -> 1 .. MaxTries]
        /\ sends' \in [Worker -> 0 .. MaxSends]
        /\ waited' \in [Worker -> 0 .. Deadline]
        /\ misses' \in [Worker -> 0 .. MaxMisses]
    BY <2>1
  <2>5. /\ seen' \in [Canceller -> {"unread"} \cup Runs!State]
        /\ x \in Canceller => seen'[x] = "unread"
        /\ \A y \in Canceller \ {x} : seen'[y] = seen[y]
    BY <2>1
  <2>3. CASE at[x] = "waiting" /\ x \in Ops /\ UNCHANGED <<at, watched>>
    BY <2>1, <2>2, <2>3, <2>5
  <2>4. CASE at' = [at EXCEPT ![x] = "ready"] /\ watched' = [watched EXCEPT ![x] = NoRequest]
    BY <2>1, <2>2, <2>4, <2>5
  <2> QED
    BY <1>1, <2>3, <2>4 DEF TryFails, Move
<1>2. CASE Ends(x, "failed")
  BY <1>2 DEF Ends, Reset, Move
<1>3. CASE LastTryFails(x)
  BY <1>2, <1>3 DEF LastTryFails
<1>4. CASE x \in Task /\ at[x] = "asking" /\ SendAgain(x)
  BY <1>4 DEF SendAgain
<1>5. ASSUME NEW n \in 0 .. MaxMisses, at[x] = "waiting", WaitOn(x, n) PROVE OrdinaryMove(x)
  <2>1. x \in Canceller => seen[x] = "unread"
    BY <1>5 DEF FindingsLast, FindingLasts
  <2> QED
    BY <1>5, <2>1 DEF WaitOn
<1> QED
  BY <1>1, <1>2, <1>3, <1>4, <1>5 DEF FailsForNow

\* What a task watches was made for what its try asks for.
WatchesItsOwn(x) ==
  x \in Task /\ watched[x] # NoRequest =>
    /\ want[watched[x]].body = want[<<x, try[x], 1>>].body
    /\ conf[x].key # NoKey => want[watched[x]].key = conf[x].key
    /\ conf[x].key = NoKey => watched[x][1] = x

EndsAsItsRun(x) ==
  /\ at[x] = "success" /\ x \in Task =>
       \/ state[watched[x]] = "succeeded"
       \/ state[watched[x]] = "cancelled" /\ watched[x] \in stale
  /\ at[x] = "success" => state[watched[x]] \in Terminal
  /\ at[x] = "run_failed" => state[watched[x]] \in Failure

WorkerFits(x) == EndsAsItsRun(x) /\ WatchesItsOwn(x) /\ FindingLasts(x)

LEMMA OutcomeParts ==
  OutcomeIsTheRuns /\ FindingsLast <=> \A x \in Worker : WorkerFits(x)
  BY DEF OutcomeIsTheRuns, FindingsLast, WorkerFits, EndsAsItsRun, WatchesItsOwn

\* The register's part of the invariant depends on what RegisterStill keeps and on
\* which requests have a run.
LEMMA StillRegister ==
  ASSUME ClientInv, RegisterStill, RunsGoOn
  PROVE  RegisterInv'
  BY DEF ClientInv, RegisterInv, KeysInv, OneMadePerKey, KeysAreFixed, KeyOf, AnswersAreTrue,
         RunsAreMade, BodiesAreFixed, Ops, RegisterStill, RunsGoOn

\* A worker that stays as it is keeps its outcome while the runs go on.
LEMMA StayingKeepsOutcome ==
  ASSUME ClientInv, UNCHANGED <<conf, want>>, RunsKeep, NEW y \in Worker, Stays(y)
  PROVE  WorkerFits(y)'
<1>1. EndsAsItsRun(y) /\ WatchesItsOwn(y) /\ FindingLasts(y)
  BY OutcomeParts DEF ClientInv, WorkerFits
<1>2. /\ at[y] \in {"success", "run_failed"} => watched[y] \in Request
      /\ y \in Canceller /\ at[y] = "asking" => watched[y] \in Request
  BY DEF ClientInv, WorkersKnow
<1>3. EndsAsItsRun(y)'
  BY <1>1, <1>2 DEF EndsAsItsRun, Stays, RunsKeep, Terminal, Failure
<1>4. WatchesItsOwn(y)'
  BY <1>1 DEF WatchesItsOwn, Stays
<1>5. FindingLasts(y)'
  BY <1>1, <1>2 DEF FindingLasts, Stays, RunsKeep, Terminal, Failure
<1> QED
  BY <1>3, <1>4, <1>5 DEF WorkerFits

\* One worker moves, the others stay.
LEMMA OneWorkerMoves ==
  ASSUME ClientInv, NEW x \in Worker, OthersStay(x), RegisterStill, RunsGoOn,
         asked' \subseteq Request, deaths' \in 0 .. MaxDeaths,
         WorkerTypes', WorkersKnow', WorkerFits(x)'
  PROVE  ClientInv'
<1>1. ClientTypeOK'
  BY DEF ClientInv, ClientTypeOK, WorkerTypes, RegisterStill, RunsGoOn, Answer, Conf
<1>2. ASSUME NEW y \in Worker \ {x} PROVE WorkerFits(y)'
  BY StayingKeepsOutcome DEF OthersStay, RegisterStill, RunsGoOn
<1>3. OutcomeIsTheRuns' /\ FindingsLast'
  BY <1>2 DEF OutcomeIsTheRuns, FindingsLast, WorkerFits, EndsAsItsRun, WatchesItsOwn
<1> QED
  BY <1>1, <1>3, StillRegister DEF ClientInv

\* The tries of an op ask for one body, so that what it watches stays its own.
LEMMA OrdinaryMoveKeeps ==
  ASSUME ClientInv, NEW x \in Worker, OrdinaryMove(x), RegisterStill, RunsGoOn,
         asked' \subseteq Request, deaths' \in 0 .. MaxDeaths
  PROVE  ClientInv'
<1>1. EndsAsItsRun(x)' /\ FindingLasts(x)'
  BY DEF OrdinaryMove, EndsAsItsRun, FindingLasts
<1>2. WatchesItsOwn(x)'
  <2> SUFFICES ASSUME x \in Task, watched'[x] # NoRequest
               PROVE  WatchesItsOwn(x)'
    BY DEF WatchesItsOwn
  <2>1. watched'[x] = watched[x] /\ (try'[x] = try[x] \/ x \in Ops)
    BY DEF OrdinaryMove
  <2>2. WatchesItsOwn(x)
    BY OutcomeParts DEF ClientInv, WorkerFits
  <2>3. try[x] \in 1 .. MaxTries /\ try'[x] \in 1 .. MaxTries /\ 1 \in 1 .. MaxSends
    BY ClientAssumption DEF ClientInv, ClientTypeOK, OrdinaryMove, WorkerTypes
  <2>4. <<x, try[x], 1>> \in Request /\ <<x, try'[x], 1>> \in Request
    BY <2>3, RequestsOfTries
  <2>5. x \in Ops => want[<<x, try[x], 1>>].body = want[<<x, try'[x], 1>>].body
    BY <2>4 DEF ClientInv, RegisterInv, BodiesAreFixed
  <2> QED
    BY <2>1, <2>2, <2>5 DEF WatchesItsOwn, RegisterStill
<1> QED
  BY <1>1, <1>2, OneWorkerMoves DEF OrdinaryMove, WorkerFits

------------------------------------------------------------------------------
(* The steps, one lemma for each kind *)

LEMMA StillRunsGoOn == ClientInv /\ UNCHANGED runVars => RunsGoOn
  BY DEF ClientInv, ClientTypeOK, RegisterInv, RunsAreMade, RunsGoOn, RunsKeep, runVars

\* Whoever asks has sent a request of its try.
LEMMA CurrentIsRequest ==
  ASSUME ClientInv, NEW t \in Task, at[t] = "asking"
  PROVE  Current(t) \in Request
<1>1. try[t] \in 1 .. MaxTries /\ sends[t] \in 1 .. MaxSends
  BY ClientAssumption DEF ClientInv, ClientTypeOK, WorkersKnow, Worker
<1> QED
  BY <1>1, RequestsOfTries DEF Current

\* A request that takes effect had no run, so that no outcome changes.
LEMMA ServeKeepsClients ==
  ASSUME ClientInv, NEW q \in Request, Serve(q)
  PROVE  ClientInv'
<1> USE DEF ClientInv, RegisterInv
<1>1. KeysInv'
  BY ServeKeepsKeys
<1>2. UNCHANGED <<conf, want, asked, stale, taskVars, deaths>> /\ answer[q] = Unanswered
  BY DEF Serve, TakeEffect, Fail, Replay, Conflict, Tell
<1>3. \/ /\ q \notin made /\ made' = made \cup {q} /\ state' = [state EXCEPT ![q] = "queued"]
         /\ \/ answer' = [answer EXCEPT ![q] = [kind |-> "made", of |-> q]]
            \/ answer' = [answer EXCEPT ![q] = [kind |-> "lost", of |-> NoRequest]]
      \/ /\ UNCHANGED <<made, state>>
         /\ \/ \E k \in {"refused", "lost", "conflict"} :
                 answer' = [answer EXCEPT ![q] = [kind |-> k, of |-> NoRequest]]
            \/ \E p \in made : /\ want[p] = want[q]
                               /\ answer' = [answer EXCEPT ![q] = [kind |-> "replayed", of |-> p]]
  <2>1. CASE TakeEffect(q) /\ state' = [state EXCEPT ![q] = "queued"]
    BY <2>1 DEF TakeEffect, Tell
  <2>2. CASE Fail(q) /\ UNCHANGED state
    BY <2>2 DEF Fail, Tell
  <2>3. ASSUME NEW p \in made, Replay(q, p), UNCHANGED state
        PROVE  /\ UNCHANGED <<made, state>> /\ want[p] = want[q]
               /\ answer' = [answer EXCEPT ![q] = [kind |-> "replayed", of |-> p]]
    BY <2>3 DEF Replay, Tell
  <2>4. ASSUME NEW p \in made, Conflict(q, p), UNCHANGED state
        PROVE  /\ UNCHANGED <<made, state>>
               /\ answer' = [answer EXCEPT ![q] = [kind |-> "conflict", of |-> NoRequest]]
    BY <2>4 DEF Conflict, Tell
  <2> QED
    BY <2>1, <2>2, <2>3, <2>4 DEF Serve
<1>4. ClientTypeOK'
  <2>1. answer' \in [Request -> Answer] /\ made' \subseteq Request
    <3>1. answer \in [Request -> Answer] /\ made \subseteq Request
      BY DEF ClientTypeOK
    <3>2. /\ [kind |-> "made", of |-> q] \in Answer
          /\ \A p \in made : [kind |-> "replayed", of |-> p] \in Answer
          /\ \A k \in {"refused", "lost", "conflict"} : [kind |-> k, of |-> NoRequest] \in Answer
      BY <3>1 DEF Answer
    <3> QED
      BY <1>3, <3>1, <3>2
  <2>2. state' \in [Request -> Runs!State]
    BY <1>3 DEF ClientTypeOK, Runs!State, Runs!Active
  <2> QED
    BY <1>2, <2>1, <2>2 DEF ClientTypeOK, taskVars, Conf
<1>5. AnswersAreTrue'
  <2> SUFFICES ASSUME NEW r \in Request, answer'[r].kind \in {"made", "replayed"}
               PROVE  answer'[r].of \in made' /\ want[answer'[r].of] = want[r]
    BY <1>2 DEF AnswersAreTrue
  <2>1. CASE r # q
    BY <1>3, <2>1 DEF AnswersAreTrue, ClientTypeOK
  <2>2. CASE r = q
    BY <1>3, <2>2 DEF ClientTypeOK
  <2> QED
    BY <2>1, <2>2
<1>6. RunsAreMade'
  BY <1>2, <1>3 DEF RunsAreMade, ClientTypeOK
<1>7. BodiesAreFixed' /\ WorkersKnow'
  BY <1>2 DEF BodiesAreFixed, WorkersKnow, Ops, taskVars
<1>8. OutcomeIsTheRuns' /\ FindingsLast'
  <2> SUFFICES ASSUME NEW x \in Worker
               PROVE  WorkerFits(x)'
    BY DEF OutcomeIsTheRuns, FindingsLast, WorkerFits, EndsAsItsRun, WatchesItsOwn
  <2>1. state[q] = "absent" \/ state' = state
    BY <1>3 DEF RunsAreMade
  <2>2. RunsKeep
    BY <1>2, <1>3, <2>1 DEF RunsKeep, ClientTypeOK, Terminal, Failure
  <2>3. Stays(x)
    BY <1>2 DEF Stays, taskVars
  <2> QED
    BY <1>2, <2>2, <2>3, StayingKeepsOutcome
<1> QED
  BY <1>1, <1>4, <1>5, <1>6, <1>7, <1>8

\* The workers rest while a run moves, or is cancelled.
LEMMA RunMovesKeepsClients ==
  ASSUME ClientInv, NEW q \in Request, RunMoves(q) \/ CancelIsWritten(q)
  PROVE  ClientInv'
<1>1. RegisterStill /\ UNCHANGED <<asked, stale, taskVars, deaths>>
  BY DEF RunMoves, CancelIsWritten, RegisterStill
<1>2. RunsGoOn
  <2>1. CASE RunMoves(q)
    <3>1. PICK s \in Reached : /\ <<state[q], s>> \in Runs!ForwardEdges
                               /\ state' = [state EXCEPT ![q] = s]
      BY <2>1 DEF RunMoves
    <3>2. /\ s \in Runs!State /\ s # "absent"
          /\ state[q] # "absent" /\ state[q] \notin Terminal
      BY <2>1, <3>1, ClientAssumption
      DEF RunMoves, Runs!ForwardEdges, Runs!Terminal, Terminal, Failure
    <3> QED
      BY <1>1, <3>1, <3>2
      DEF ClientInv, ClientTypeOK, RegisterInv, RunsAreMade, RunsGoOn, RunsKeep
  <2>2. CASE CancelIsWritten(q)
    BY <1>1, <2>2
    DEF CancelIsWritten, ClientInv, ClientTypeOK, RegisterInv, RunsAreMade, RunsGoOn, RunsKeep,
        Runs!State, Runs!Terminal
  <2> QED
    BY <2>1, <2>2
<1>3. ClientTypeOK'
  BY <1>1, <1>2 DEF ClientInv, ClientTypeOK, RegisterStill, RunsGoOn, taskVars, Answer, Conf
<1>4. WorkersKnow'
  BY <1>1 DEF ClientInv, WorkersKnow, taskVars
<1>5. ASSUME NEW y \in Worker PROVE WorkerFits(y)'
  BY <1>1, <1>2, StayingKeepsOutcome DEF RegisterStill, RunsGoOn, Stays, taskVars
<1>6. OutcomeIsTheRuns' /\ FindingsLast'
  BY <1>5 DEF OutcomeIsTheRuns, FindingsLast, WorkerFits, EndsAsItsRun, WatchesItsOwn
<1> QED
  BY <1>1, <1>2, <1>3, <1>4, <1>6, StillRegister DEF ClientInv

\* The first request of a call.
LEMMA AskKeepsClients ==
  ASSUME ClientInv, NEW t \in Task, Ask(t)
  PROVE  ClientInv'
<1>1. t \in Worker /\ RegisterStill /\ RunsGoOn /\ deaths' \in 0 .. MaxDeaths
  BY StillRunsGoOn DEF Ask, RegisterStill, Worker, ClientInv, ClientTypeOK
<1>2. asked' \subseteq Request
  <2>1. try[t] \in 1 .. MaxTries /\ 1 \in 1 .. MaxSends
    BY <1>1, ClientAssumption DEF ClientInv, ClientTypeOK
  <2> QED
    BY <2>1, RequestsOfTries DEF Ask, ClientInv, ClientTypeOK
<1>3. OrdinaryMove(t)
  BY <1>1, ClientAssumption DEF Ask, Move, ClientInv, ClientTypeOK, WorkersKnow, WorkerTypes,
                                OthersStay, Stays, OrdinaryMove
<1> QED
  BY <1>1, <1>2, <1>3, OrdinaryMoveKeeps

\* The next request of the call, or the end of the try.
LEMMA AskAgainKeepsClients ==
  ASSUME ClientInv, NEW t \in Task, AskAgain(t) \/ TurnedAway(t) \/ AskRefused(t)
  PROVE  ClientInv'
<1>1. /\ t \in Worker /\ at[t] = "asking"
      /\ RegisterStill /\ UNCHANGED <<runVars, deaths>>
  BY DEF AskAgain, TurnedAway, AskRefused, RegisterStill, apiVars, Worker
<1>2. RunsGoOn /\ deaths' \in 0 .. MaxDeaths
  BY <1>1, StillRunsGoOn DEF ClientInv, ClientTypeOK
<1>3. FailsForNow(t) \/ Ends(t, "failed") \/ SendAgain(t)
  BY DEF AskAgain, TurnedAway, AskRefused
<1>4. asked' \subseteq Request
  <2>1. CASE sends[t] < MaxSends
    <3>1. try[t] \in 1 .. MaxTries /\ sends[t] + 1 \in 1 .. MaxSends
      BY <1>1, <2>1, ClientAssumption DEF ClientInv, ClientTypeOK
    <3>2. Following(t) \in Request
      BY <3>1, RequestsOfTries DEF Following
    <3> QED
      BY <3>2 DEF AskAgain, TurnedAway, AskRefused, apiVars, ClientInv, ClientTypeOK
  <2>2. CASE ~(sends[t] < MaxSends)
    BY <2>2 DEF AskAgain, TurnedAway, AskRefused, SendAgain, apiVars, ClientInv, ClientTypeOK
  <2> QED
    BY <2>1, <2>2
<1>5. OrdinaryMove(t)
  BY <1>1, <1>3, OrdinaryMoves
<1> QED
  BY <1>1, <1>2, <1>4, <1>5, OrdinaryMoveKeeps

\* The response names a run that was made for the body and under the key of the
\* request, and only requests of the task itself carry a key it made up.
LEMMA HearKeepsClients ==
  ASSUME ClientInv, NEW t \in Task, Hear(t)
  PROVE  ClientInv'
<1> DEFINE c == Current(t)
           r == answer[c].of
<1>1. t \in Worker /\ RegisterStill /\ UNCHANGED <<asked, runVars, deaths>>
  BY DEF Hear, RegisterStill, apiVars, Worker
<1>2. RunsGoOn
  BY <1>1, StillRunsGoOn
<1>3. c \in Request /\ c = <<t, try[t], sends[t]>>
  BY CurrentIsRequest DEF Hear, Current
<1>4. r \in made /\ r \in Request /\ want[r] = want[c]
  BY <1>3 DEF Hear, Heard, ClientInv, RegisterInv, AnswersAreTrue, ClientTypeOK
<1>5. /\ at' = [at EXCEPT ![t] = "waiting"]
      /\ watched' = [watched EXCEPT ![t] = r]
      /\ try' = [try EXCEPT ![t] = IF t \in Ops THEN 1 ELSE @]
      /\ sends' = [sends EXCEPT ![t] = 0]
      /\ waited' = [waited EXCEPT ![t] = 0]
      /\ misses' = [misses EXCEPT ![t] = 0]
      /\ seen' = seen
  BY ClientAssumption DEF Hear, Move, Reset
<1>6. WorkerTypes' /\ WorkersKnow' /\ OthersStay(t)
  BY <1>1, <1>4, <1>5, ClientAssumption
  DEF ClientInv, ClientTypeOK, WorkerTypes, WorkersKnow, OthersStay, Stays
<1>7. asked' \subseteq Request /\ deaths' \in 0 .. MaxDeaths
  BY <1>1 DEF ClientInv, ClientTypeOK
<1>8. EndsAsItsRun(t)' /\ FindingLasts(t)'
  BY <1>1, <1>5, ClientAssumption DEF EndsAsItsRun, FindingLasts, ClientInv, ClientTypeOK
<1>9. WatchesItsOwn(t)'
  <2>1. try[t] \in 1 .. MaxTries /\ try'[t] \in 1 .. MaxTries /\ 1 \in 1 .. MaxSends
    BY <1>1, <1>6, ClientAssumption DEF ClientInv, ClientTypeOK, WorkerTypes
  <2>2. <<t, try[t], 1>> \in Request /\ <<t, try'[t], 1>> \in Request
    BY <2>1, RequestsOfTries
  <2>3. want[c].body = want[<<t, try'[t], 1>>].body
    <3>1. try'[t] = IF t \in Ops THEN 1 ELSE try[t]
      BY <1>1, <1>5 DEF ClientInv, ClientTypeOK
    <3>2. c[1] = t /\ c[2] = try[t]
      BY <1>3
    <3>3. /\ want[c].body = want[<<c[1], c[2], 1>>].body
          /\ c[1] \in Ops => want[c].body = want[<<c[1], 1, 1>>].body
      BY <1>3 DEF ClientInv, RegisterInv, BodiesAreFixed
    <3> HIDE DEF c
    <3> QED
      BY <3>1, <3>2, <3>3
  <2>4. want[c].key = KeyOf(t, try[t], sends[t]) /\ want[r].key = KeyOf(r[1], r[2], r[3])
    BY <1>3, <1>4 DEF ClientInv, RegisterInv, KeysInv, KeysAreFixed
  <2>5. conf[t].key # NoKey => want[r].key = conf[t].key
    BY <1>4, <2>4 DEF KeyOf
  <2>6. ASSUME conf[t].key = NoKey PROVE r[1] = t
    <3>1. r[1] \in Task /\ r[2] \in 1 .. MaxTries
      BY <1>4, ClientAssumption
    <3>2. conf[r[1]].key \in GivenKey \cup {NoKey}
      BY <3>1 DEF ClientInv, ClientTypeOK, Conf
    <3>3. want[r].key = <<t, try[t]>> /\ <<t, try[t]>> \notin GivenKey
      BY <1>4, <2>1, <2>4, <2>6, KeyAssumption DEF KeyOf
    <3> QED
      BY <2>4, <3>2, <3>3 DEF KeyOf
  <2>7. watched'[t] = r /\ want' = want /\ conf' = conf
    BY <1>1, <1>5 DEF ClientInv, ClientTypeOK, RegisterStill
  <2> QED
    BY <1>4, <2>3, <2>5, <2>6, <2>7 DEF WatchesItsOwn
<1> QED
  BY <1>1, <1>2, <1>6, <1>7, <1>8, <1>9, OneWorkerMoves DEF WorkerFits

\* A run that is seen to be over stays so, and the worker knows how it ended.
LEMMA EndingKeepsClients ==
  ASSUME ClientInv, NEW x \in Worker, NEW place \in {"success", "run_failed"},
         watched[x] \in Request,
         place = "success" /\ x \in Task => state[watched[x]] = "succeeded",
         place = "success" => state[watched[x]] \in Terminal,
         place = "run_failed" => state[watched[x]] \in Failure,
         Ends(x, place), UNCHANGED <<apiVars, deaths>>
  PROVE  ClientInv'
<1>1. /\ RegisterStill /\ RunsGoOn /\ UNCHANGED state
      /\ asked' \subseteq Request /\ deaths' \in 0 .. MaxDeaths
  BY StillRunsGoOn DEF RegisterStill, apiVars, runVars, ClientInv, ClientTypeOK
<1>2. WorkerTypes' /\ WorkersKnow' /\ OthersStay(x) /\ try' = try /\ watched' = watched
  BY ClientAssumption
  DEF Ends, Move, Reset, Done, Worker, ClientInv, ClientTypeOK, WorkerTypes, WorkersKnow, OthersStay,
      Stays
<1>3. at'[x] = place /\ (x \in Canceller => seen'[x] = "unread")
  BY DEF Ends, Move, Reset, ClientInv, ClientTypeOK
<1>4. EndsAsItsRun(x)' /\ FindingLasts(x)'
  BY <1>1, <1>2, <1>3 DEF EndsAsItsRun, FindingLasts
<1>5. WatchesItsOwn(x)'
  <2>1. WatchesItsOwn(x)
    BY OutcomeParts DEF ClientInv, WorkerFits
  <2> QED
    BY <1>1, <1>2, <2>1 DEF WatchesItsOwn, RegisterStill
<1> QED
  BY <1>1, <1>2, <1>4, <1>5, OneWorkerMoves DEF WorkerFits

LEMMA PollEndedKeepsClients ==
  ASSUME ClientInv, NEW x \in Worker, at[x] = "waiting", PollEnded(x),
         UNCHANGED <<apiVars, deaths>>
  PROVE  ClientInv'
<1>1. watched[x] \in Request /\ state[watched[x]] \in Terminal
  BY DEF PollEnded, ClientInv, WorkersKnow
<1>2. PICK place \in {"success", "run_failed"} :
        /\ Ends(x, place)
        /\ place = "success" => state[watched[x]] = "succeeded"
        /\ place = "run_failed" => state[watched[x]] \in Failure
  BY <1>1 DEF PollEnded, Terminal
<1> QED
  BY <1>1, <1>2, EndingKeepsClients DEF Terminal

\* Every other turn of the loop is an ordinary move.
LEMMA WaitKeepsClients ==
  ASSUME ClientInv, NEW x \in Worker, WaitStep(x)
  PROVE  ClientInv'
<1>1. at[x] = "waiting" /\ UNCHANGED <<apiVars, deaths>>
  BY DEF WaitStep, Poll, PollMisses, PollRefused
<1>2. CASE PollEnded(x)
  BY <1>1, <1>2, PollEndedKeepsClients
<1>3. CASE ~PollEnded(x)
  <2>1. /\ RegisterStill /\ RunsGoOn
        /\ asked' \subseteq Request /\ deaths' \in 0 .. MaxDeaths
    BY <1>1, StillRunsGoOn DEF RegisterStill, apiVars, ClientInv, ClientTypeOK
  <2>2. misses[x] \in 0 .. MaxMisses
    BY DEF ClientInv, ClientTypeOK
  <2>3. \/ FailsForNow(x)
        \/ Ends(x, "failed")
        \/ \E n \in 0 .. MaxMisses : WaitOn(x, n)
    <3>1. CASE Poll(x)
      <4>1. 0 \in 0 .. MaxMisses
        BY ClientAssumption
      <4> QED
        BY <1>3, <3>1, <4>1 DEF Poll
    <3>2. CASE PollMisses(x)
      <4>1. /\ 0 \in 0 .. MaxMisses
            /\ misses[x] < MaxMisses => misses[x] + 1 \in 0 .. MaxMisses
        BY <2>2, ClientAssumption
      <4> QED
        BY <3>2, <4>1 DEF PollMisses
    <3> QED
      BY <3>1, <3>2 DEF WaitStep, PollRefused
  <2>4. OrdinaryMove(x)
    BY <1>1, <2>3, OrdinaryMoves
  <2> QED
    BY <2>1, <2>4, OrdinaryMoveKeeps
<1> QED
  BY <1>2, <1>3

\* A cancel request reads its run, or is given up: what it found queued is a run.
LEMMA FoundQueuedGoesOn ==
  ASSUME ClientInv, NEW q \in Request, stale' = stale \cup FoundQueued(q), UNCHANGED state
  PROVE  RunsGoOn
  BY DEF FoundQueued, ClientInv, ClientTypeOK, RegisterInv, RunsAreMade, RunsGoOn, RunsKeep

\* It asks for a run that its task watches.
LEMMA AskCancelKeepsClients ==
  ASSUME ClientInv, NEW c \in Canceller, AskCancel(c)
  PROVE  ClientInv'
<1> DEFINE q == watched[Target[c]]
<1>1. c \in Worker /\ c \notin Task /\ Target[c] \in Worker
  BY ClientAssumption DEF Worker
<1>2. q \in Request /\ at[c] = "ready" /\ seen[c] = "unread"
  <2>1. FindingLasts(c)
    BY <1>1 DEF ClientInv, FindingsLast
  <2> QED
    BY <1>1, <2>1 DEF AskCancel, FindingLasts, ClientInv, ClientTypeOK
<1>3. /\ RegisterStill /\ RunsGoOn
      /\ asked' \subseteq Request /\ deaths' \in 0 .. MaxDeaths
  BY StillRunsGoOn DEF AskCancel, RegisterStill, apiVars, ClientInv, ClientTypeOK
<1>4. /\ at' = [at EXCEPT ![c] = "asking"]
      /\ watched' = [watched EXCEPT ![c] = q]
      /\ UNCHANGED <<try, sends, seen, waited, misses>>
  BY DEF AskCancel, Move
<1> HIDE DEF q
<1>5. WorkerTypes' /\ WorkersKnow' /\ OthersStay(c) /\ at'[c] = "asking"
  BY <1>1, <1>2, <1>4
  DEF ClientInv, ClientTypeOK, WorkerTypes, WorkersKnow, OthersStay, Stays
<1>6. WorkerFits(c)'
  BY <1>1, <1>2, <1>4, <1>5 DEF WorkerFits, EndsAsItsRun, WatchesItsOwn, FindingLasts
<1> QED
  BY <1>1, <1>3, <1>5, <1>6, OneWorkerMoves

LEMMA ReadForCancelKeepsClients ==
  ASSUME ClientInv, NEW c \in Canceller, ReadForCancel(c)
  PROVE  ClientInv'
<1>1. c \in Worker /\ c \notin Task
  BY ClientAssumption DEF Worker
<1>2. at[c] = "asking" /\ watched[c] \in Request
  BY <1>1 DEF ReadForCancel, ClientInv, WorkersKnow
<1>3. /\ RegisterStill /\ RunsGoOn
      /\ asked' \subseteq Request /\ deaths' \in 0 .. MaxDeaths
  BY <1>2, FoundQueuedGoesOn DEF ReadForCancel, RegisterStill, ClientInv, ClientTypeOK
<1>4. /\ seen' = [seen EXCEPT ![c] = state[watched[c]]]
      /\ UNCHANGED <<state, at, try, sends, watched, waited, misses>>
  BY DEF ReadForCancel
<1>5. WorkerTypes' /\ WorkersKnow' /\ OthersStay(c) /\ seen'[c] = state[watched[c]]
  BY <1>1, <1>2, <1>4
  DEF ClientInv, ClientTypeOK, WorkerTypes, WorkersKnow, OthersStay, Stays
<1>6. WorkerFits(c)'
  BY <1>1, <1>2, <1>4, <1>5 DEF WorkerFits, EndsAsItsRun, WatchesItsOwn, FindingLasts
<1> QED
  BY <1>1, <1>3, <1>5, <1>6, OneWorkerMoves

\* A canceller that is done has been told that the run is over; else it waits.
LEMMA HearCancelKeepsClients ==
  ASSUME ClientInv, NEW c \in Canceller, HearCancel(c)
  PROVE  ClientInv'
<1>1. c \in Worker /\ c \notin Task
  BY ClientAssumption DEF Worker
<1>2. at[c] = "asking" /\ watched[c] \in Request /\ UNCHANGED <<apiVars, deaths>>
  BY <1>1 DEF HearCancel, ClientInv, WorkersKnow
<1>3. CASE Ends(c, "success") /\ state[watched[c]] \in Terminal
  BY <1>1, <1>2, <1>3, EndingKeepsClients
<1>4. CASE Move(c, "waiting") /\ Reset(c) /\ UNCHANGED <<try, watched>>
  <2>1. /\ RegisterStill /\ RunsGoOn
        /\ asked' \subseteq Request /\ deaths' \in 0 .. MaxDeaths
    BY <1>2, StillRunsGoOn DEF RegisterStill, apiVars, ClientInv, ClientTypeOK
  <2>2. OrdinaryMove(c)
    BY <1>1, <1>2, <1>4, ClientAssumption
    DEF Move, Reset, ClientInv, ClientTypeOK, WorkersKnow, WorkerTypes, OthersStay, Stays, OrdinaryMove
  <2> QED
    BY <1>1, <2>1, <2>2, OrdinaryMoveKeeps
<1>5. seen[c] \in Terminal => state[watched[c]] \in Terminal
  <2>1. FindingLasts(c) /\ "unread" \notin Terminal
    BY <1>1 DEF ClientInv, FindingsLast, Terminal, Failure
  <2> QED
    BY <2>1 DEF FindingLasts
<1> QED
  BY <1>3, <1>4, <1>5 DEF HearCancel, Terminal, Failure

LEMMA CancelFailsKeepsClients ==
  ASSUME ClientInv, NEW c \in Canceller, CancelFails(c)
  PROVE  ClientInv'
<1>1. c \in Worker
  BY DEF Worker
<1>2. at[c] = "asking" /\ watched[c] \in Request
  BY <1>1 DEF CancelFails, ClientInv, WorkersKnow
<1>3. /\ RegisterStill /\ RunsGoOn
      /\ asked' \subseteq Request /\ deaths' \in 0 .. MaxDeaths
  BY <1>2, FoundQueuedGoesOn DEF CancelFails, RegisterStill, ClientInv, ClientTypeOK
<1>4. OrdinaryMove(c)
  BY <1>1, <1>2, OrdinaryMoves DEF CancelFails
<1> QED
  BY <1>1, <1>3, <1>4, OrdinaryMoveKeeps

\* A death ends a try, or makes a trigger's wait start anew.
LEMMA DeathKeepsClients ==
  ASSUME ClientInv, NEW t \in Task, WorkerDies(t) \/ TriggererDies(t)
  PROVE  ClientInv'
<1>1. t \in Worker /\ RegisterStill /\ RunsGoOn /\ asked' \subseteq Request
  BY StillRunsGoOn
  DEF WorkerDies, TriggererDies, RegisterStill, apiVars, Worker, ClientInv, ClientTypeOK
<1>2. deaths' \in 0 .. MaxDeaths
  BY ClientAssumption DEF WorkerDies, TriggererDies, ClientInv, ClientTypeOK
<1>3. CASE WorkerDies(t)
  <2>1. FailsForNow(t) /\ at[t] \in {"asking", "waiting"}
    BY <1>3 DEF WorkerDies
  <2>2. OrdinaryMove(t)
    BY <1>1, <2>1, OrdinaryMoves
  <2> QED
    BY <1>1, <1>2, <2>2, OrdinaryMoveKeeps
<1>4. CASE TriggererDies(t)
  <2>1. OrdinaryMove(t)
    BY <1>1, <1>4, ClientAssumption
    DEF TriggererDies, ClientInv, ClientTypeOK, WorkersKnow, WorkerTypes, OthersStay, Stays,
        OrdinaryMove
  <2> QED
    BY <1>1, <1>2, <2>1, OrdinaryMoveKeeps
<1> QED
  BY <1>3, <1>4

LEMMA StepKeepsClients ==
  ASSUME ClientInv, [ClientNext]_clientVars
  PROVE  ClientInv'
<1>1. CASE UNCHANGED clientVars
  <2> USE <1>1 DEF clientVars, apiVars, taskVars
  <2>1. RegisterStill /\ RunsGoOn
    BY StillRunsGoOn DEF RegisterStill
  <2>2. ClientTypeOK' /\ WorkersKnow'
    BY DEF ClientInv, ClientTypeOK, WorkersKnow, runVars, Answer, Conf
  <2>3. OutcomeIsTheRuns' /\ FindingsLast'
    BY DEF ClientInv, OutcomeIsTheRuns, FindingsLast, FindingLasts, runVars
  <2> QED
    BY <2>1, <2>2, <2>3, StillRegister DEF ClientInv
<1>2. ASSUME NEW q \in Request, Serve(q) \/ RunMoves(q) \/ CancelIsWritten(q) PROVE ClientInv'
  BY <1>2, ServeKeepsClients, RunMovesKeepsClients
<1>3. ASSUME NEW t \in Task, TaskStep(t) \/ WorkerDies(t) \/ TriggererDies(t) PROVE ClientInv'
  BY <1>3, AskKeepsClients, HearKeepsClients, AskAgainKeepsClients, DeathKeepsClients DEF TaskStep
<1>4. ASSUME NEW c \in Canceller, CancelStep(c) PROVE ClientInv'
  BY <1>4, AskCancelKeepsClients, ReadForCancelKeepsClients, HearCancelKeepsClients,
     CancelFailsKeepsClients DEF CancelStep
<1>5. ASSUME NEW x \in Worker, WaitStep(x) PROVE ClientInv'
  BY <1>5, WaitKeepsClients
<1> QED
  BY <1>1, <1>2, <1>3, <1>4, <1>5 DEF ClientNext

LEMMA ClientInvariance == ClientSpec => []ClientInv
  BY InitClient, StepKeepsClients, PTL DEF ClientSpec

\* Every variable of the clients keeps its type: no count passes its limit
\* (_request, wait_for_terminal_state, the triggers).
THEOREM ClientTypeCorrect == ClientSpec => []ClientTypeOK
<1>1. ClientInv => ClientTypeOK
  BY DEF ClientInv
<1> QED
  BY <1>1, ClientInvariance, PTL

\* A task succeeds only if the run it waited for succeeded, and what it was told stays
\* true unless a cancel that found the run queued overwrites it; that run was made
\* for what the task's try asks for, under its own key; and a cancelling task
\* succeeds only over a run that has ended: whatever answers are lost, whoever dies
\* and however late a request takes effect.
THEOREM OutcomeIsCorrect == ClientSpec => []OutcomeIsTheRuns
<1>1. ClientInv => OutcomeIsTheRuns
  BY DEF ClientInv
<1> QED
  BY <1>1, ClientInvariance, PTL

=============================================================================
