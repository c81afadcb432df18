----------------------------- MODULE Provisioning -----------------------------
(***************************************************************************)
(* process_provisioning_once: provisioner workers that share a queue of    *)
(* operations, each the staged build of one environment.                   *)
(*                                                                         *)
(* A worker claims every operation it can in one transaction and works     *)
(* through them by age.  The stages of an operation end with a commit      *)
(* each: the checkpoint, the operation's new state and a fresh claim time. *)
(* The first commit publishes the claims; until then their rows are        *)
(* locked.  How an operation ended is set in memory and published by the   *)
(* next commit, which may be the one at the very end.                      *)
(*                                                                         *)
(* Operations are numbered by created_at.  Time passes in ticks; a claim   *)
(* older than TTL ticks has expired, and a stage takes StageTime at most.  *)
(***************************************************************************)
EXTENDS Naturals, FiniteSets

CONSTANTS
  Worker,       \* provisioner processes
  NoWorker,
  Op,           \* rows of provisioning_operations, by created_at
  Last,         \* the number of PROVISIONING_STEPS; the stages are 1..Last
  TTL,          \* WORKER_CLAIM_TTL_SECONDS
  StageTime,    \* a bound on one stage
  MaxCrashes    \* bound on the crashes explored

ASSUME ProvisioningAssumption ==
  /\ NoWorker \notin Worker
  /\ Op \subseteq Nat
  /\ Last \in Nat \ {0}
  /\ TTL \in Nat
  /\ StageTime \in Nat
  /\ MaxCrashes \in Nat

VARIABLES
  row,         \* row[o]: the committed state, claim token and age of the claim
  checkpoint,  \* checkpoint[o]: last_successful_stage of its newest audit event
  built,       \* built[o]: the stages that have taken effect in AWS
  draft,       \* draft[o]: who has claimed o without commit yet, and when
  pc,          \* pc[w]: where worker w is
  look,        \* look[w]: the candidates still to be claimed
  todo,        \* todo[w]: the claimed operations w has not finished
  stage,       \* stage[w]: the stage w is at
  last,        \* last[w]: last_successful_stage of the checkpoint w holds
  elapsed,     \* elapsed[w]: how long that stage has taken
  ends,        \* ends[w][o]: how o ended, set but not committed
  batched,     \* history: some worker has claimed two operations at once
  crashes      \* history: crashes so far

workVars == <<look, todo, stage, last, elapsed>>
vars == <<row, checkpoint, built, draft, pc, workVars, ends, batched, crashes>>

Stages == 1..Last
Ended  == {"ready", "failed"}
Age    == 0..TTL + 1
States == {"absent", "queued", "staged"} \cup Ended

\* state and step name the same stage, or else the same state; step is 0 then.
Row == [state: States, step: 0..Last, token: Worker \cup {NoWorker}, age: Age]

Fresh(state) == [state |-> state, step |-> 0, token |-> NoWorker, age |-> 0]

NoDraft  == [by |-> NoWorker, age |-> 0]
NoEnds   == [o \in Op |-> "none"]

TypeOK ==
  /\ row \in [Op -> Row]
  /\ checkpoint \in [Op -> 0..Last]
  /\ built \in [Op -> SUBSET Stages]
  /\ draft \in [Op -> [by: Worker \cup {NoWorker}, age: Age]]
  /\ pc \in [Worker -> {"idle", "claim", "next", "stage", "applied"}]
  /\ look \in [Worker -> SUBSET Op]
  /\ todo \in [Worker -> SUBSET Op]
  /\ stage \in [Worker -> Stages]
  /\ last \in [Worker -> 0..Last]
  /\ elapsed \in [Worker -> 0..StageTime]
  /\ ends \in [Worker -> [Op -> {"none"} \cup Ended]]
  /\ batched \in BOOLEAN
  /\ crashes \in 0..MaxCrashes

Init ==
  /\ row = [o \in Op |-> Fresh("absent")]
  /\ checkpoint = [o \in Op |-> 0]
  /\ built = [o \in Op |-> {}]
  /\ draft = [o \in Op |-> NoDraft]
  /\ pc = [w \in Worker |-> "idle"]
  /\ look = [w \in Worker |-> {}]
  /\ todo = [w \in Worker |-> {}]
  /\ stage = [w \in Worker |-> 1]
  /\ last = [w \in Worker |-> 0]
  /\ elapsed = [w \in Worker |-> 0]
  /\ ends = [w \in Worker |-> NoEnds]
  /\ batched = FALSE
  /\ crashes = 0

First(o, ops) == o \in ops /\ \A p \in ops : o <= p

\* create_environment queues an operation.
Submit(o) ==
  /\ row[o].state = "absent"
  /\ \A p \in Op : p < o => row[p].state # "absent"
  /\ row' = [row EXCEPT ![o] = Fresh("queued")]
  /\ UNCHANGED <<checkpoint, built, draft, pc, workVars, ends, batched, crashes>>

------------------------------------------------------------------------------
(* Claims *)

\* Mutant of Claimable: a claim never expires.
ClaimableOnlyReleased(o) ==
  /\ row[o].state \in {"queued", "staged"}
  /\ row[o].token = NoWorker

Claimable(o) ==
  /\ row[o].state \in {"queued", "staged"}
  /\ row[o].token = NoWorker \/ row[o].age > TTL

\* The SELECT of the candidates.
Poll(w) ==
  /\ pc[w] = "idle"
  /\ \E o \in Op : Claimable(o)
  /\ look' = [look EXCEPT ![w] = {o \in Op : Claimable(o)}]
  /\ pc' = [pc EXCEPT ![w] = "claim"]
  /\ UNCHANGED <<row, checkpoint, built, draft, todo, stage, last, elapsed, ends,
                 batched, crashes>>

\* The candidate is done with: on to the next one, or to work, or back to
\* sleep with nothing claimed.
Looked(w, o) ==
  /\ look' = [look EXCEPT ![w] = @ \ {o}]
  /\ pc' = [pc EXCEPT ![w] = IF look[w] # {o} THEN "claim"
                             ELSE IF todo'[w] # {} THEN "next" ELSE "idle"]

\* The conditional UPDATE of one candidate: it waits for the row, then tests
\* the committed row again.  The model takes the cutoff of that moment, the
\* code the one of the poll.
ClaimRow(w, o) ==
  /\ pc[w] = "claim"
  /\ First(o, look[w])
  /\ draft[o].by = NoWorker
  /\ Claimable(o)
  /\ draft' = [draft EXCEPT ![o] = [by |-> w, age |-> 0]]
  /\ todo' = [todo EXCEPT ![w] = @ \cup {o}]
  /\ Looked(w, o)
  /\ batched' = (batched \/ todo[w] # {})
  /\ UNCHANGED <<row, checkpoint, built, stage, last, elapsed, ends, crashes>>

SkipRow(w, o) ==
  /\ pc[w] = "claim"
  /\ First(o, look[w])
  /\ draft[o].by = NoWorker
  /\ ~Claimable(o)
  /\ todo' = todo
  /\ Looked(w, o)
  /\ UNCHANGED <<row, checkpoint, built, draft, stage, last, elapsed, ends, batched,
                 crashes>>

------------------------------------------------------------------------------
(* Transactions *)

\* The rows that the next commit of w writes, whatever else it does.
Touched(w) == {o \in Op : draft[o].by = w \/ ends[w][o] # "none"}

\* An UPDATE waits for a row that another transaction has claimed.
CanWrite(w, ops) == \A o \in ops : draft[o].by \in {w, NoWorker}

\* The end of an operation releases the claim, no matter whose it is.
Written(w, o) ==
  IF ends[w][o] # "none"
    THEN Fresh(ends[w][o])
  ELSE IF draft[o].by = w
    THEN [state |-> row[o].state, step |-> row[o].step, token |-> w,
          age |-> draft[o].age]
  ELSE row[o]

\* state = step and worker_claimed_at = now; the token stays as it is.
Stamped(w, o) == [state |-> "staged", step |-> stage[w],
                  token |-> Written(w, o).token, age |-> 0]

Unlocked(w) == [o \in Op |-> IF draft[o].by = w THEN NoDraft ELSE draft[o]]

\* Mutant of PublishStage: the claim is not refreshed.
PublishStageOnly(w, o, done) ==
  /\ CanWrite(w, Touched(w) \cup {o})
  /\ row' = [p \in Op |->
               IF p = o THEN [state |-> "staged", step |-> stage[w],
                              token |-> Written(w, o).token,
                              age |-> Written(w, o).age]
                        ELSE Written(w, p)]
  /\ checkpoint' = [checkpoint EXCEPT ![o] = done]
  /\ draft' = Unlocked(w)

\* The commit that ends a stage of o, with done as its last successful stage.
PublishStage(w, o, done) ==
  /\ CanWrite(w, Touched(w) \cup {o})
  /\ row' = [p \in Op |-> IF p = o THEN Stamped(w, o) ELSE Written(w, p)]
  /\ checkpoint' = [checkpoint EXCEPT ![o] = done]
  /\ draft' = Unlocked(w)

------------------------------------------------------------------------------
(* Work on one operation *)

\* Mutant of ResumeStage: it goes on after the stage that the row names.
ResumeAfterRow(o) ==
  IF checkpoint[o] # 0 THEN checkpoint[o] + 1
  ELSE IF row[o].state = "staged" THEN row[o].step + 1
  ELSE 1

\* After the last successful stage, or else at the one the row names.
ResumeStage(o) ==
  IF checkpoint[o] # 0 THEN checkpoint[o] + 1
  ELSE IF row[o].state = "staged" THEN row[o].step
  ELSE 1

\* o is over for w, with ended as what its transaction holds so far.
Close(w, o, ended, how) ==
  /\ ends' = [ends EXCEPT ![w] = [ended EXCEPT ![o] = how]]
  /\ todo' = [todo EXCEPT ![w] = @ \ {o}]
  /\ pc' = [pc EXCEPT ![w] = "next"]

\* Mutant of Begin: the checkpoint is begun anew, and the row says where.
BeginAnew(w, o) ==
  /\ pc[w] = "next"
  /\ First(o, todo[w])
  /\ last' = [last EXCEPT ![w] = 0]
  /\ stage' = [stage EXCEPT ![w] = IF row[o].state = "staged" THEN row[o].step ELSE 1]
  /\ elapsed' = [elapsed EXCEPT ![w] = 0]
  /\ pc' = [pc EXCEPT ![w] = "stage"]
  /\ UNCHANGED <<row, checkpoint, built, draft, look, todo, ends, batched, crashes>>

\* The checkpoint is loaded; neither the state nor the claim is looked at.
Begin(w, o) ==
  /\ pc[w] = "next"
  /\ First(o, todo[w])
  /\ ResumeStage(o) <= Last
  /\ last' = [last EXCEPT ![w] = checkpoint[o]]
  /\ stage' = [stage EXCEPT ![w] = ResumeStage(o)]
  /\ elapsed' = [elapsed EXCEPT ![w] = 0]
  /\ pc' = [pc EXCEPT ![w] = "stage"]
  /\ UNCHANGED <<row, checkpoint, built, draft, look, todo, ends, batched, crashes>>

\* No stage is left: a worker died, or lost the race, after the last one.
BeginDone(w, o) ==
  /\ pc[w] = "next"
  /\ First(o, todo[w])
  /\ ResumeStage(o) > Last
  /\ Close(w, o, ends[w], "ready")
  /\ UNCHANGED <<row, checkpoint, built, draft, look, stage, last, elapsed, batched,
                 crashes>>

\* Terraform has applied the stage, or the validation has passed.
Apply(w, o) ==
  /\ pc[w] = "stage"
  /\ First(o, todo[w])
  /\ built' = [built EXCEPT ![o] = @ \cup {stage[w]}]
  /\ pc' = [pc EXCEPT ![w] = "applied"]
  /\ UNCHANGED <<row, checkpoint, draft, workVars, ends, batched, crashes>>

CommitStage(w, o) ==
  /\ pc[w] = "applied"
  /\ First(o, todo[w])
  /\ stage[w] < Last
  /\ PublishStage(w, o, stage[w])
  /\ ends' = [ends EXCEPT ![w] = NoEnds]
  /\ last' = [last EXCEPT ![w] = stage[w]]
  /\ stage' = [stage EXCEPT ![w] = @ + 1]
  /\ elapsed' = [elapsed EXCEPT ![w] = 0]
  /\ pc' = [pc EXCEPT ![w] = "stage"]
  /\ UNCHANGED <<built, look, todo, batched, crashes>>

\* The commit of the last stage.  ready is set after it, unless Terraform has
\* left the environment without its cluster or virtual cluster.
CommitLast(w, o) ==
  /\ pc[w] = "applied"
  /\ First(o, todo[w])
  /\ stage[w] = Last
  /\ PublishStage(w, o, Last)
  /\ \E how \in Ended : Close(w, o, NoEnds, how)
  /\ UNCHANGED <<built, look, stage, last, elapsed, batched, crashes>>

\* Plan, apply or validation fails: a commit with the old checkpoint, and then
\* the ValueError whose handler sets failed.
RejectStage(w, o) ==
  /\ pc[w] = "stage"
  /\ First(o, todo[w])
  /\ PublishStage(w, o, last[w])
  /\ Close(w, o, NoEnds, "failed")
  /\ UNCHANGED <<built, look, stage, last, elapsed, batched, crashes>>

\* Any other exception, before the stages, in one, or over the outputs of one
\* that was applied: no commit.
Raise(w, o) ==
  /\ pc[w] \in {"next", "stage", "applied"}
  /\ First(o, todo[w])
  /\ Close(w, o, ends[w], "failed")
  /\ UNCHANGED <<row, checkpoint, built, draft, look, stage, last, elapsed, batched,
                 crashes>>

\* Everything claimed has been tried: the commit at the end of the pass.
FinishPass(w) ==
  /\ pc[w] = "next"
  /\ todo[w] = {}
  /\ CanWrite(w, Touched(w))
  /\ row' = [o \in Op |-> Written(w, o)]
  /\ draft' = Unlocked(w)
  /\ ends' = [ends EXCEPT ![w] = NoEnds]
  /\ pc' = [pc EXCEPT ![w] = "idle"]
  /\ UNCHANGED <<checkpoint, built, workVars, batched, crashes>>

\* The worker's process dies, its transaction is undone and ECS restarts it.
Crash(w) ==
  /\ crashes < MaxCrashes
  /\ pc[w] # "idle"
  /\ crashes' = crashes + 1
  /\ draft' = Unlocked(w)
  /\ look' = [look EXCEPT ![w] = {}]
  /\ todo' = [todo EXCEPT ![w] = {}]
  /\ ends' = [ends EXCEPT ![w] = NoEnds]
  /\ pc' = [pc EXCEPT ![w] = "idle"]
  /\ UNCHANGED <<row, checkpoint, built, stage, last, elapsed, batched>>

------------------------------------------------------------------------------
(* Time *)

\* Only AWS and other transactions take time; what Python does in between
\* takes none to speak of against a TTL of half an hour.
MayWait(w) ==
  \/ pc[w] = "idle"
  \/ pc[w] = "stage" /\ elapsed[w] < StageTime
  \/ pc[w] = "claim" /\ \E o \in Op : First(o, look[w]) /\ draft[o].by # NoWorker
  \/ /\ pc[w] = "applied"
     /\ \E o \in Op : First(o, todo[w]) /\ ~CanWrite(w, Touched(w) \cup {o})
  \/ pc[w] = "next" /\ todo[w] = {} /\ ~CanWrite(w, Touched(w))

Older(age) == IF age > TTL THEN age ELSE age + 1

Tick ==
  /\ \A w \in Worker : MayWait(w)
  /\ row' = [o \in Op |->
               [state |-> row[o].state, step |-> row[o].step, token |-> row[o].token,
                age |-> IF row[o].token = NoWorker THEN row[o].age
                                                   ELSE Older(row[o].age)]]
  /\ draft' = [o \in Op |->
               [by |-> draft[o].by,
                age |-> IF draft[o].by = NoWorker THEN draft[o].age
                                                  ELSE Older(draft[o].age)]]
  /\ elapsed' = [w \in Worker |-> IF pc[w] = "stage" THEN elapsed[w] + 1 ELSE elapsed[w]]
  /\ UNCHANGED <<checkpoint, built, pc, look, todo, stage, last, ends, batched, crashes>>

Work(w, o) ==
  \/ ClaimRow(w, o) \/ SkipRow(w, o)
  \/ Begin(w, o) \/ BeginDone(w, o) \/ Apply(w, o)
  \/ CommitStage(w, o) \/ CommitLast(w, o) \/ RejectStage(w, o) \/ Raise(w, o)

Step(w) == Poll(w) \/ FinishPass(w) \/ \E o \in Op : Work(w, o)

Next ==
  \/ \E o \in Op : Submit(o)
  \/ \E w \in Worker : Step(w) \/ Crash(w)
  \/ Tick

Spec == Init /\ [][Next]_vars

(***************************************************************************)
(* Workers poll for ever and every AWS call returns or times out;          *)
(* PostgreSQL grants a row in the order it was asked for, hence SF.        *)
(* Crashes and submissions need not happen.                                *)
(***************************************************************************)
FairSpec ==
  /\ Spec
  /\ \A w \in Worker : SF_vars(Step(w))
  /\ WF_vars(Tick)

------------------------------------------------------------------------------
(* Properties *)

AtWork(w, o) == pc[w] \in {"stage", "applied"} /\ First(o, todo[w])

(***************************************************************************)
(* A claim keeps other workers away from an operation (SparkPilot-threat-  *)
(* model.md:74).  That is so only within limits: what waits behind another *)
(* operation of the same claim is not refreshed, expires, is claimed and   *)
(* worked on by a second worker, and the first does not look again when it *)
(* gets there.                                                             *)
(***************************************************************************)
NoDuplicateWork ==
  \A v, w \in Worker, o \in Op : AtWork(v, o) /\ AtWork(w, o) => v = w

(***************************************************************************)
(* That queue is the only way to it: while no worker has ever claimed two  *)
(* operations at once, and no stage outlives a claim, crashes and restarts *)
(* included, two workers are never at one operation.                       *)
(***************************************************************************)
ClaimsSuffice == StageTime <= TTL /\ ~batched

AloneUnlessBatched == ClaimsSuffice => NoDuplicateWork

(***************************************************************************)
(* ready is true: whoever set it, after whatever crashes, resumptions and  *)
(* duplicated work, every stage has taken effect, and never one before the *)
(* stages it builds upon.                                                  *)
(***************************************************************************)
ReadyIsBuilt ==
  \A o \in Op :
    /\ row[o].state = "ready" => built[o] = Stages
    /\ \A s \in built[o] : 1..s \subseteq built[o]

(***************************************************************************)
(* Short of duplicated work nothing is undone: the checkpoint only moves   *)
(* on, a crash and a failure included, and an outcome stays.               *)
(***************************************************************************)
Progresses ==
  \A o \in Op : /\ checkpoint'[o] >= checkpoint[o]
                /\ row[o].state \in Ended => row'[o] = row[o]

NothingIsUndone == [][ClaimsSuffice' => Progresses]_vars

(***************************************************************************)
(* Every operation ends, however many workers die on it: the claim of a    *)
(* dead worker expires.                                                    *)
(***************************************************************************)
EveryOperationEnds ==
  \A o \in Op : (row[o].state = "queued") ~> (row[o].state \in Ended)
------------------------------------------------------------------------------
(* The inductive invariant *)

Upto(s) == 1..s

\* What the tables and the workers believe to be built has been built.
BeliefsAreTrue ==
  \A o \in Op :
    /\ \A s \in built[o] : Upto(s) \subseteq built[o]
    /\ Upto(checkpoint[o]) \subseteq built[o]
    /\ row[o].state = "staged" =>
         row[o].step \in Stages /\ Upto(row[o].step - 1) \subseteq built[o]
    /\ row[o].state = "ready" => Stages \subseteq built[o]

WorkersAreRight ==
  \A w \in Worker, o \in Op :
    /\ AtWork(w, o) => /\ Upto(stage[w] - 1) \subseteq built[o]
                       /\ Upto(last[w]) \subseteq built[o]
                       /\ pc[w] = "applied" => stage[w] \in built[o]
    /\ ends[w][o] = "ready" => Stages \subseteq built[o]

\* A worker has nothing in hand before its claims and no operation twice;
\* what is drafted is open, and what has ended is released.
InHand(w, o) == o \in todo[w] \/ ends[w][o] # "none"

HandsAreClean ==
  /\ \A w \in Worker :
       /\ pc[w] \in {"idle", "claim"} => ends[w] = NoEnds
       /\ pc[w] = "idle" => todo[w] = {}
       /\ \A o \in todo[w] : ends[w][o] = "none"
  /\ \A o \in Op :
       /\ draft[o].by # NoWorker => row[o].state \in {"queued", "staged"}
       /\ row[o].state \in Ended => row[o].token = NoWorker

\* While claims suffice a worker has one operation, which is open, under a
\* lock or a live claim of its own, and with the checkpoint it has loaded.
Held(w, o) ==
  \/ draft[o].by = w
  \/ /\ draft[o].by = NoWorker
     /\ pc[w] \in {"claim", "next"} => o \notin todo[w]
     /\ row[o].token = w
     /\ row[o].age <= IF pc[w] = "stage" THEN elapsed[w] ELSE StageTime

HandsAreApart ==
  ClaimsSuffice =>
    \A w \in Worker, o \in Op :
      InHand(w, o) =>
        /\ \A p \in Op : InHand(w, p) => p = o
        /\ row[o].state \in {"queued", "staged"}
        /\ Held(w, o)
        /\ AtWork(w, o) => last[w] = checkpoint[o] /\ checkpoint[o] < stage[w]

IInv ==
  /\ TypeOK
  /\ BeliefsAreTrue
  /\ WorkersAreRight
  /\ HandsAreClean
  /\ HandsAreApart
===============================================================================
