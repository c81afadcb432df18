------------------------- MODULE RunLifecycleProofs -------------------------
(***************************************************************************)
(* Theorems about RunLifecycle, for any number of runs, schedulers,        *)
(* reconcilers and cancel requests and any bound on faults.                *)
(***************************************************************************)
EXTENDS RunLifecycle, TLAPS

USE RunAssumption, WorkerAssumption, CallerAssumption, BoundAssumption

(***************************************************************************)
(* Operators                                                               *)
(***************************************************************************)

\* EMR_TO_PLATFORM_STATE and its default name run states only.
LEMMA PlatformIsState ==
  ASSUME NEW s
  PROVE  Platform(s) \in {"accepted", "running"} \cup Terminal
  BY DEF Platform, Terminal

LEMMA RecordedIsRow ==
  ASSUME NEW row \in Row, NEW s \in State
  PROVE  /\ Recorded(row, s) \in Row
         /\ Recorded(row, s).state = s
         /\ Recorded(row, s).usage = (row.usage \/ s \in Terminal)
         /\ Recorded(row, s).job = row.job
         /\ Recorded(row, s).cancelReq = row.cancelReq
  BY DEF Recorded, Row

LEMMA CancelledIsRow ==
  ASSUME NEW row \in Row, NEW seen
  PROVE  /\ Cancelled(row, seen) \in Row
         /\ Cancelled(row, seen).job = row.job
         /\ Cancelled(row, seen).usage = row.usage
         /\ seen = "queued" => Cancelled(row, seen).state = "cancelled"
         /\ seen # "queued" => Cancelled(row, seen).state = row.state
  BY DEF Cancelled, Row, State, Terminal

LEMMA AfterDispatchErrorIsRow ==
  ASSUME NEW row \in Row, NEW transient \in BOOLEAN
  PROVE  /\ AfterDispatchError(row, transient) \in Row
         /\ AfterDispatchError(row, transient).state \in {row.state, "failed"}
         /\ AfterDispatchError(row, transient).job = row.job
         /\ AfterDispatchError(row, transient).usage = row.usage
         /\ AfterDispatchError(row, transient).cancelReq = row.cancelReq
  BY DEF AfterDispatchError, Row, State, Terminal

LEMMA AbsentRowIsRow == AbsentRow \in Row
  BY DEF AbsentRow, Row, State, MaxStarts

\* A job that moves changes one slot of one run.
LEMMA CancelJobEffect ==
  ASSUME TypeOK, NEW r \in Run, CancelJob(r)
  PROVE  /\ jobs' \in [Run -> [Slot -> JobState]]
         /\ \A q \in Run \ {r} : jobs'[q] = jobs[q]
         /\ \A i \in Slot : jobs'[r][i] = jobs[r][i]
                            \/ (jobs[r][i] \in Live /\ jobs'[r][i] = "CANCEL_PENDING")
         /\ draft[r].job # 0 => jobs'[r][draft[r].job] \notin Live
  <1>1. draft[r].job \in Slot
    BY DEF CancelJob, TypeOK, Row, MaxStarts, Slot
  <1> QED
    BY <1>1 DEF CancelJob, TypeOK, JobState, Live

LEMMA StartJobEffect ==
  ASSUME TypeOK, NEW r \in Run, StartJob(r)
  PROVE  /\ jobs' \in [Run -> [Slot -> JobState]]
         /\ starts' \in [Run -> 0 .. MaxStarts]
         /\ starts[r] + 1 \in 1 .. MaxStarts
         /\ starts'[r] = starts[r] + 1
         /\ \A q \in Run \ {r} : jobs'[q] = jobs[q] /\ starts'[q] = starts[q]
  <1>1. starts[r] + 1 \in Slot
    BY DEF StartJob, TypeOK, Slot, MaxStarts
  <1> QED
    BY <1>1 DEF StartJob, TypeOK, JobState, Live, Slot, MaxStarts

LEMMA JobMovesEffect ==
  ASSUME TypeOK, NEW r \in Run, NEW i \in Slot, JobMoves(r, i)
  PROVE  /\ jobs' \in [Run -> [Slot -> JobState]]
         /\ \A q \in Run, k \in Slot :
              \/ jobs'[q][k] = jobs[q][k]
              \/ /\ jobs[q][k] # "COMPLETED" /\ jobs[q][k] \notin Live
                 /\ jobs'[q][k] \notin Live
              \/ jobs[q][k] \in Live /\ jobs'[q][k] # "PENDING"
                 /\ (jobs'[q][k] = "SUBMITTED" => jobs[q][k] = "PENDING")
  BY DEF JobMoves, Following, TypeOK, JobState, Live, Stopped

(***************************************************************************)
(* One iteration of a worker's loop over its claimed runs                  *)
(***************************************************************************)

LoopAction(w, r) ==
  \/ DeclineDispatch(w, r) \/ Dispatch(w, r)
  \/ DispatchError(w, r) \/ DispatchAnswerLost(w, r)
  \/ TimeOut(w, r) \/ CancelDispatch(w, r)
  \/ Observe(w, r) \/ ReconcileError(w, r)

\* What every iteration does, as far as the invariant can tell: it writes one
\* fitting row along one edge of the lifecycle and accounts for what it started.
LoopEffect(w, r, row) ==
  /\ todo[w] = {} /\ lock[r] = w /\ r \notin done[w]
  /\ Finish(w, r, row)
  /\ row.state = db[r].state \/ <<db[r].state, row.state>> \in Lifecycle!ForwardEdges
  /\ RowFits(row, jobs'[r]) /\ RowFits(db[r], jobs'[r])
  /\ jobs' \in [Run -> [Slot -> JobState]] /\ starts' \in [Run -> 0 .. MaxStarts]
  /\ age' \in [Run -> 0 .. MaxAge] /\ faults' \in 0 .. MaxFaults
  /\ \A q \in Run \ {r} : jobs'[q] = jobs[q] /\ starts'[q] = starts[q]
  /\ faults <= faults' /\ starts'[r] <= 1 + faults'
  /\ row.state \in {"absent", "queued"} => starts'[r] <= faults'

\* A run in hand still has its committed row, in a state its holder wants.
LEMMA InHand ==
  ASSUME IInv, NEW w \in Worker, NEW r \in Run, Working(w, r)
  PROVE  /\ todo[w] = {} /\ lock[r] = w /\ r \notin done[w] /\ lock[r] # NoWorker
         /\ draft[r] = db[r] /\ draft[r] \in Row
         /\ RowFits(draft[r], jobs[r]) /\ db[r].state \in Wanted(w)
         /\ starts[r] \in Nat /\ faults \in Nat /\ starts[r] <= 1 + faults
         /\ draft[r].state = "queued" => starts[r] <= faults
  <1>1. lock[r] = w /\ r \notin done[w] /\ todo[w] = {} /\ lock[r] # NoWorker
    BY DEF Working, Foremost, Held, Worker
  <1>2. draft[r] = db[r]
    BY <1>1 DEF IInv, DraftsAreLocal
  <1>3. db[r].state \in Wanted(w)
    BY <1>1 DEF IInv, ClaimsAreWanted
  <1>4. draft[r] \in Row /\ starts[r] \in Nat /\ faults \in Nat
    BY DEF IInv, TypeOK, MaxStarts
  <1>5. RowFits(draft[r], jobs[r])
    BY DEF IInv, RowsFit
  <1>6. /\ starts[r] <= 1 + faults
        /\ draft[r].state = "queued" => starts[r] <= faults
    BY DEF IInv, StartsAreAccounted
  <1> QED
    BY <1>1, <1>2, <1>3, <1>4, <1>5, <1>6

LEMMA SchedulerLoop ==
  ASSUME IInv, NEW w \in Worker, NEW r \in Run,
         \/ DeclineDispatch(w, r) \/ Dispatch(w, r)
         \/ DispatchError(w, r) \/ DispatchAnswerLost(w, r)
  PROVE  \E row \in Row : LoopEffect(w, r, row)
  <1> USE DEF Lifecycle!ForwardEdges, Lifecycle!Terminal, Lifecycle!Active
  <1>1. w \in Scheduler /\ Working(w, r)
    BY DEF DeclineDispatch, Dispatch, DispatchError, DispatchAnswerLost
  <1>2. TypeOK /\ db[r].state = "queued" /\ draft[r].state = "queued"
    BY <1>1, InHand DEF Wanted, IInv
  <1>3. CASE DeclineDispatch(w, r)
    <2> DEFINE row == [draft[r] EXCEPT !.state =
                         IF draft[r].cancelReq THEN "cancelled" ELSE "failed"]
    <2>1. row \in Row /\ row.state \in {"cancelled", "failed"}
          /\ row.job = draft[r].job /\ row.usage = draft[r].usage
      BY <1>1, InHand DEF Row, State, Terminal
    <2>2. LoopEffect(w, r, row)
      BY <1>1, <1>2, <1>3, <2>1, InHand
      DEF LoopEffect, DeclineDispatch, RowFits, TypeOK, Finish
    <2> QED
      BY <2>1, <2>2
  <1>4. CASE Dispatch(w, r)
    <2> DEFINE row == [draft[r] EXCEPT !.state = "accepted", !.job = starts[r] + 1]
    <2>1. starts[r] + 1 \in 0 .. MaxStarts /\ starts[r] + 1 # 0
      BY <1>2, <1>4, StartJobEffect DEF Dispatch, TypeOK, MaxStarts
    <2>2. draft[r] \in Row
      BY <1>1, InHand
    <2>3. row \in Row /\ row.state = "accepted" /\ row.job # 0
          /\ row.usage = draft[r].usage
      BY <2>1, <2>2 DEF Row, State
    <2>4. LoopEffect(w, r, row)
      <3>1. Finish(w, r, row) /\ faults' = faults /\ db' = db
        BY <1>4 DEF Dispatch, Finish
      <3>2. starts'[r] <= 1 + faults'
        BY <1>1, <1>2, <1>4, <3>1, InHand, StartJobEffect DEF Dispatch
      <3>3. age' \in [Run -> 0 .. MaxAge]
        BY <1>2, <1>4 DEF Dispatch, TypeOK
      <3>4. RowFits(row, jobs'[r]) /\ RowFits(db[r], jobs'[r])
        BY <1>1, <1>2, <2>3, <3>1, InHand DEF RowFits, Terminal
      <3> QED
        BY <1>1, <1>2, <1>4, <2>3, <3>1, <3>2, <3>3, <3>4, InHand, StartJobEffect
        DEF LoopEffect, Dispatch, TypeOK
    <2> QED
      BY <2>3, <2>4
  <1>5. CASE DispatchError(w, r)
    <2>1. PICK transient \in BOOLEAN :
            Finish(w, r, AfterDispatchError(draft[r], transient))
      BY <1>5 DEF DispatchError
    <2> DEFINE row == AfterDispatchError(draft[r], transient)
    <2>2. row \in Row /\ row.state \in {"queued", "failed"}
          /\ row.job = draft[r].job /\ row.usage = draft[r].usage
          /\ row.cancelReq = draft[r].cancelReq
      BY <1>1, <1>2, InHand, AfterDispatchErrorIsRow
    <2>3. LoopEffect(w, r, row)
      <3> HIDE DEF row
      <3>1. Finish(w, r, row)
        BY <2>1 DEF row
      <3> QED
        BY <1>1, <1>2, <1>5, <2>2, <3>1, InHand
        DEF LoopEffect, DispatchError, RowFits, TypeOK, Finish
    <2> QED
      BY <2>2, <2>3
  <1>6. CASE DispatchAnswerLost(w, r)
    <2>1. PICK transient \in BOOLEAN :
            Finish(w, r, AfterDispatchError(draft[r], transient))
      BY <1>6 DEF DispatchAnswerLost
    <2> DEFINE row == AfterDispatchError(draft[r], transient)
    <2>2. row \in Row /\ row.state \in {"queued", "failed"}
          /\ row.job = draft[r].job /\ row.usage = draft[r].usage
          /\ row.cancelReq = draft[r].cancelReq
      BY <1>1, <1>2, InHand, AfterDispatchErrorIsRow
    <2>3. LoopEffect(w, r, row)
      <3> HIDE DEF row
      <3>1. Finish(w, r, row) /\ db' = db
        BY <2>1 DEF row, Finish
      <3>2. faults' = faults + 1 /\ faults' \in 0 .. MaxFaults /\ age' = age
        BY <1>2, <1>6 DEF DispatchAnswerLost, TypeOK
      <3>3. StartJob(r)
        BY <1>6 DEF DispatchAnswerLost
      <3>4. starts'[r] = starts[r] + 1 /\ starts[r] <= faults
            /\ starts[r] \in Nat /\ faults \in Nat
        BY <1>1, <1>2, <3>3, InHand, StartJobEffect
      <3>5. RowFits(draft[r], jobs[r]) /\ db[r] = draft[r]
        BY <1>1, InHand
      <3>6. RowFits(row, jobs'[r]) /\ RowFits(db[r], jobs'[r])
        BY <1>2, <2>2, <3>5 DEF RowFits, Terminal
      <3>7. /\ todo[w] = {} /\ lock[r] = w /\ r \notin done[w]
            /\ row.state = db[r].state \/ <<db[r].state, row.state>> \in Lifecycle!ForwardEdges
        BY <1>1, <1>2, <2>2, InHand
      <3>8. faults <= faults' /\ starts'[r] <= faults' /\ starts'[r] <= 1 + faults'
        BY <3>2, <3>4
      <3>9. /\ jobs' \in [Run -> [Slot -> JobState]] /\ starts' \in [Run -> 0 .. MaxStarts]
            /\ \A q \in Run \ {r} : jobs'[q] = jobs[q] /\ starts'[q] = starts[q]
        BY <1>2, <3>3, StartJobEffect
      <3>10. age' \in [Run -> 0 .. MaxAge]
        BY <1>2, <3>2 DEF TypeOK
      <3> QED
        BY <3>1, <3>2, <3>6, <3>7, <3>8, <3>9, <3>10 DEF LoopEffect
    <2> QED
      BY <2>2, <2>3
  <1> QED
    BY <1>3, <1>4, <1>5, <1>6

\* The world as a reconciler's iteration leaves it: only jobs may change.
LEMMA ReconcilerFrame ==
  ASSUME IInv, NEW w \in Worker, NEW r \in Run, NEW row,
         Working(w, r), Finish(w, r, row),
         jobs' = jobs \/ CancelJob(r),
         UNCHANGED <<starts, age, faults>>,
         row.state = db[r].state \/ <<db[r].state, row.state>> \in Lifecycle!ForwardEdges,
         row.state \notin {"absent", "queued"},
         RowFits(row, jobs'[r]), RowFits(db[r], jobs'[r])
  PROVE  LoopEffect(w, r, row)
  <1>1. TypeOK
    BY DEF IInv
  <1>2. todo[w] = {} /\ lock[r] = w /\ r \notin done[w]
        /\ starts[r] <= 1 + faults /\ faults \in Nat
    BY InHand
  <1>3. jobs' \in [Run -> [Slot -> JobState]] /\ \A q \in Run \ {r} : jobs'[q] = jobs[q]
    <2>1. CASE jobs' = jobs
      BY <1>1, <2>1 DEF TypeOK
    <2>2. CASE CancelJob(r)
      BY <1>1, <2>2, CancelJobEffect
    <2> QED
      BY <2>1, <2>2
  <1>4. /\ starts' \in [Run -> 0 .. MaxStarts] /\ age' \in [Run -> 0 .. MaxAge]
        /\ faults' \in 0 .. MaxFaults
    BY <1>1 DEF TypeOK
  <1> QED
    BY <1>2, <1>3, <1>4 DEF LoopEffect

LEMMA ReconcilerLoop ==
  ASSUME IInv, NEW w \in Worker, NEW r \in Run,
         \/ TimeOut(w, r) \/ CancelDispatch(w, r)
         \/ Observe(w, r) \/ ReconcileError(w, r)
  PROVE  \E row \in Row : LoopEffect(w, r, row)
  <1>1. w \in Reconciler /\ w \notin Scheduler /\ Working(w, r)
    BY DEF TimeOut, CancelDispatch, Observe, ReconcileError
  <1>2. TypeOK /\ draft[r] \in Row /\ draft[r] = db[r] /\ RowFits(db[r], jobs[r])
    BY <1>1, InHand DEF IInv
  <1>3. db[r].state \in {"accepted", "running"} /\ db[r].job # 0 /\ db[r].job \in Slot
    <2>1. db[r].state \in {"accepted", "running"}
      BY <1>1, InHand DEF Wanted
    <2> QED
      BY <1>2, <2>1 DEF RowFits, Row, Slot, MaxStarts
  <1>4. \A s \in Terminal : <<db[r].state, s>> \in Lifecycle!ForwardEdges
    BY <1>3 DEF Lifecycle!ForwardEdges, Lifecycle!Terminal, Terminal
  \* What a cancel that is sent leaves of the job.
  <1>5. ASSUME CancelJob(r)
        PROVE  RowFits(db[r], jobs'[r]) /\ jobs'[r][db[r].job] \notin Live
    BY <1>2, <1>3, <1>5, CancelJobEffect DEF RowFits, Live, Terminal
  <1>6. CASE TimeOut(w, r)
    <2>1. CancelJob(r) /\ UNCHANGED <<starts, age, faults>>
          /\ Finish(w, r, [Recorded(draft[r], "timed_out") EXCEPT !.cancelReq = TRUE])
      BY <1>6 DEF TimeOut
    <2>2. PICK row : row = [Recorded(draft[r], "timed_out") EXCEPT !.cancelReq = TRUE]
      OBVIOUS
    <2>3. row \in Row /\ row.state = "timed_out" /\ row.usage = TRUE /\ row.job = db[r].job
      BY <1>2, <2>2 DEF Recorded, Row, State, Terminal
    <2>4. RowFits(row, jobs'[r])
      BY <1>3, <1>5, <2>1, <2>3 DEF RowFits, Terminal
    <2> QED
      BY <1>1, <1>4, <1>5, <2>1, <2>2, <2>3, <2>4, ReconcilerFrame DEF Terminal
  <1>7. CASE CancelDispatch(w, r)
    <2>1. CancelJob(r) /\ UNCHANGED <<starts, age, faults>>
          /\ Finish(w, r, Recorded(draft[r], "cancelled"))
      BY <1>7 DEF CancelDispatch
    <2>2. PICK row : row = Recorded(draft[r], "cancelled")
      OBVIOUS
    <2>3. row \in Row /\ row.state = "cancelled" /\ row.job = db[r].job
      BY <1>2, <2>2, RecordedIsRow DEF State, Terminal
    <2>4. RowFits(row, jobs'[r])
      BY <1>3, <2>3 DEF RowFits, Terminal
    <2> QED
      BY <1>1, <1>4, <1>5, <2>1, <2>2, <2>3, <2>4, ReconcilerFrame DEF Terminal
  <1>8. CASE Observe(w, r)
    <2>1. PICK s \in {jobs[r][draft[r].job], "FAILED"} :
            Finish(w, r, Recorded(draft[r],
                                  IF Stale(s, age[r]) THEN "failed" ELSE Platform(s)))
      BY <1>8 DEF Observe
    <2>2. PICK next : next = IF Stale(s, age[r]) THEN "failed" ELSE Platform(s)
      OBVIOUS
    <2>3. PICK row : row = Recorded(draft[r], next)
      OBVIOUS
    <2>4. next \in {"accepted", "running"} \cup Terminal
      BY <2>2, PlatformIsState DEF Terminal
    <2>5. row \in Row /\ row.state = next /\ row.job = db[r].job
          /\ row.usage = (next \in Terminal)
      <3>1. ~ draft[r].usage
        BY <1>2, <1>3 DEF RowFits
      <3> QED
        BY <1>2, <2>3, <2>4, <3>1, RecordedIsRow DEF State
    <2>6. /\ next = "running" => jobs[r][db[r].job] \notin {"PENDING", "SUBMITTED"}
          /\ next = "succeeded" => jobs[r][db[r].job] = "COMPLETED"
          /\ next = "accepted" => jobs[r][db[r].job] \in {"PENDING", "SUBMITTED"}
          /\ next # "timed_out"
      BY <1>2, <2>2 DEF Platform
    <2>7. RowFits(row, jobs[r])
      BY <1>3, <2>4, <2>5, <2>6 DEF RowFits, Terminal
    <2>8. row.state = db[r].state \/ <<db[r].state, row.state>> \in Lifecycle!ForwardEdges
      <3>1. next = "accepted" => db[r].state = "accepted"
        BY <1>2, <1>3, <2>6 DEF RowFits
      <3>2. next = "running" => \/ db[r].state = "running"
                               \/ <<db[r].state, next>> \in Lifecycle!ForwardEdges
        BY <1>3 DEF Lifecycle!ForwardEdges, Lifecycle!Terminal
      <3> QED
        BY <1>4, <2>4, <2>5, <3>1, <3>2
    <2>9. jobs' = jobs /\ UNCHANGED <<starts, age, faults>> /\ Finish(w, r, row)
      BY <1>8, <2>1, <2>2, <2>3 DEF Observe
    <2> QED
      BY <1>1, <1>2, <2>4, <2>5, <2>7, <2>8, <2>9, ReconcilerFrame DEF Terminal
  <1>9. CASE ReconcileError(w, r)
    <2>1. (jobs' = jobs \/ CancelJob(r)) /\ UNCHANGED <<starts, age, faults>>
          /\ Finish(w, r, db[r])
      BY <1>2, <1>9 DEF ReconcileError
    <2>2. RowFits(db[r], jobs'[r])
      BY <1>2, <1>5, <2>1
    <2> QED
      BY <1>1, <1>2, <1>3, <2>1, <2>2, ReconcilerFrame
  <1> QED
    BY <1>6, <1>7, <1>8, <1>9

\* A worker's loop preserves the invariant, whatever the iteration did.
LEMMA LoopPreserves ==
  ASSUME IInv, NEW w \in Worker, NEW r \in Run, NEW row \in Row, LoopEffect(w, r, row)
  PROVE  IInv'
  <1>1. /\ todo[w] = {} /\ lock[r] = w /\ r \notin done[w]
        /\ UNCHANGED <<db, lock, todo, call>>
        /\ draft' = [draft EXCEPT ![r] = row]
        /\ done' = [done EXCEPT ![w] = @ \cup {r}]
    BY DEF LoopEffect, Finish
  <1>2. TypeOK'
    BY <1>1 DEF LoopEffect, IInv, TypeOK
  <1>3. /\ draft'[r] = row /\ \A q \in Run \ {r} : draft'[q] = draft[q]
        /\ done'[w] = done[w] \cup {r} /\ \A v \in Worker \ {w} : done'[v] = done[v]
    BY <1>1 DEF IInv, TypeOK
  <1>4. lock[r] # NoWorker
    BY <1>1 DEF Worker
  <1>5. DraftsAreLocal'
    <2> SUFFICES ASSUME NEW q \in Run
                 PROVE  /\ lock[q] = NoWorker \/ q \notin done'[lock[q]] => draft'[q] = db[q]
                        /\ \/ draft'[q].state = db[q].state
                           \/ <<db[q].state, draft'[q].state>> \in Lifecycle!ForwardEdges
      BY <1>1 DEF DraftsAreLocal, Lifecycle!ForwardEdges, Lifecycle!Terminal
    <2>1. CASE q = r
      BY <1>1, <1>3, <1>4, <2>1 DEF LoopEffect
    <2>2. CASE q # r
      <3>1. lock[q] \in Worker \cup {NoWorker}
        BY DEF IInv, TypeOK
      <3> QED
        BY <1>3, <2>2, <3>1 DEF IInv, DraftsAreLocal
    <2> QED
      BY <2>1, <2>2
  <1>6. ClaimsAreWanted'
    <2>1. \A q \in Run : lock'[q] # NoWorker => db'[q].state \in Wanted(lock'[q])
      BY <1>1 DEF IInv, ClaimsAreWanted
    <2>2. \A v \in Worker : done'[v] \subseteq Held(v)' /\ (todo'[v] # {} => done'[v] = {})
      BY <1>1, <1>3 DEF IInv, ClaimsAreWanted, Held
    <2> QED
      BY <2>1, <2>2 DEF ClaimsAreWanted, Wanted
  <1>7. StartsAreAccounted'
    <2> SUFFICES ASSUME NEW q \in Run
                 PROVE  /\ starts'[q] <= 1 + faults'
                        /\ draft'[q].state \in {"absent", "queued"} => starts'[q] <= faults'
      BY DEF StartsAreAccounted
    <2>1. CASE q = r
      BY <1>3, <2>1 DEF LoopEffect
    <2>2. CASE q # r
      <3>1. /\ starts'[q] = starts[q] /\ starts[q] \in Nat /\ draft'[q] = draft[q]
            /\ faults \in Nat /\ faults' \in Nat /\ faults <= faults'
        BY <1>3, <2>2 DEF LoopEffect, IInv, TypeOK, MaxStarts
      <3>2. /\ starts[q] <= 1 + faults
            /\ draft[q].state \in {"absent", "queued"} => starts[q] <= faults
        BY DEF IInv, StartsAreAccounted
      <3> QED
        BY <3>1, <3>2
    <2> QED
      BY <2>1, <2>2
  <1>8. CallsAreMonotonic'
    BY <1>1 DEF IInv, CallsAreMonotonic
  <1>9. RowsFit'
    <2> SUFFICES ASSUME NEW q \in Run
                 PROVE  RowFits(db'[q], jobs'[q]) /\ RowFits(draft'[q], jobs'[q])
      BY DEF RowsFit, RowFits, Terminal, Live
    <2>1. CASE q = r
      BY <1>1, <1>3, <2>1 DEF LoopEffect
    <2>2. CASE q # r
      <3>1. db' = db /\ draft'[q] = draft[q] /\ jobs'[q] = jobs[q]
        BY <1>1, <1>3, <2>2 DEF LoopEffect
      <3> QED
        BY <3>1 DEF IInv, RowsFit
    <2> QED
      BY <2>1, <2>2
  <1> QED
    BY <1>2, <1>5, <1>6, <1>7, <1>8, <1>9 DEF IInv

(***************************************************************************)
(* The API's transactions                                                  *)
(***************************************************************************)

LEMMA CreateRunPreserves ==
  ASSUME IInv, NEW r \in Run, CreateRun(r)
  PROVE  IInv'
  <1> DEFINE row == [AbsentRow EXCEPT !.state = "queued"]
  <1>1. /\ lock[r] = NoWorker /\ db[r].state = "absent"
        /\ db' = [db EXCEPT ![r] = row] /\ draft' = [draft EXCEPT ![r] = row]
        /\ UNCHANGED <<lock, todo, done, call, jobs, starts, age, faults>>
    BY DEF CreateRun, Publish, world
  <1>2. row \in Row /\ row.state = "queued" /\ row.job = 0 /\ ~ row.usage /\ ~ row.cancelReq
    BY AbsentRowIsRow DEF AbsentRow, Row, State
  <1> HIDE DEF row
  <1>3. TypeOK'
    BY <1>1, <1>2 DEF IInv, TypeOK
  <1>4. /\ db'[r] = row /\ draft'[r] = row
        /\ \A q \in Run \ {r} : db'[q] = db[q] /\ draft'[q] = draft[q]
    BY <1>1 DEF IInv, TypeOK
  <1>5. DraftsAreLocal'
    BY <1>1, <1>4 DEF IInv, DraftsAreLocal, Lifecycle!ForwardEdges, Lifecycle!Terminal
  <1>6. ClaimsAreWanted'
    BY <1>1, <1>4 DEF IInv, ClaimsAreWanted, Held, Wanted
  <1>7. StartsAreAccounted'
    <2>1. draft[r].state = "absent"
      BY <1>1 DEF IInv, DraftsAreLocal
    <2>2. starts[r] <= faults
      BY <2>1 DEF IInv, StartsAreAccounted
    <2> QED
      BY <1>1, <1>4, <2>2 DEF IInv, StartsAreAccounted
  <1>8. CallsAreMonotonic'
    BY <1>1, <1>2, <1>4 DEF IInv, CallsAreMonotonic, TypeOK
  <1>9. RowsFit'
    <2>1. RowFits(row, jobs[r])
      BY <1>2 DEF RowFits, Terminal
    <2> QED
      BY <1>1, <1>4, <2>1 DEF IInv, RowsFit, RowFits
  <1> QED
    BY <1>3, <1>5, <1>6, <1>7, <1>8, <1>9 DEF IInv

LEMMA CancelReadPreserves ==
  ASSUME IInv, NEW c \in Caller, NEW r \in Run, CancelRead(c, r)
  PROVE  IInv'
  <1>1. /\ call' = [call EXCEPT ![c] = [run |-> r, seen |-> db[r].state]]
        /\ db[r].state # "absent" /\ db[r].state \in State
        /\ UNCHANGED <<db, draft, lock, todo, done, jobs, starts, age, faults>>
    BY DEF CancelRead, IInv, TypeOK, Row
  <1>2. TypeOK'
    BY <1>1 DEF IInv, TypeOK
  <1>3. CallsAreMonotonic'
    BY <1>1 DEF IInv, CallsAreMonotonic, TypeOK
  <1>4. DraftsAreLocal' /\ ClaimsAreWanted' /\ StartsAreAccounted' /\ RowsFit'
    BY <1>1 DEF IInv, DraftsAreLocal, ClaimsAreWanted, StartsAreAccounted, RowsFit,
                RowFits, Held, Wanted, Lifecycle!ForwardEdges, Lifecycle!Terminal
  <1> QED
    BY <1>2, <1>3, <1>4 DEF IInv

LEMMA CancelWritePreserves ==
  ASSUME IInv, NEW c \in Caller, CancelWrite(c)
  PROVE  IInv'
  <1> DEFINE r == call[c].run
  <1> DEFINE row == Cancelled(db[r], call[c].seen)
  <1>1. /\ r \in Run /\ call' = [call EXCEPT ![c] = NoCall]
        /\ UNCHANGED <<lock, todo, done, jobs, starts, age, faults>>
        /\ \/ UNCHANGED <<db, draft>>
           \/ /\ call[c].seen \notin Terminal /\ lock[r] = NoWorker
              /\ db' = [db EXCEPT ![r] = row] /\ draft' = [draft EXCEPT ![r] = row]
    BY DEF CancelWrite, Publish, IInv, TypeOK
  <1>2. /\ row \in Row /\ row.job = db[r].job /\ row.usage = db[r].usage
        /\ \/ row.state = "cancelled"
           \/ row.state = db[r].state /\ db[r].state \notin {"absent", "queued"}
    <2>1. db[r] \in Row
      BY <1>1 DEF IInv, TypeOK
    <2>2. /\ db[r].state # "absent"
          /\ call[c].seen # "queued" => db[r].state # "queued"
      BY <1>1 DEF IInv, CallsAreMonotonic
    <2> QED
      BY <2>1, <2>2, CancelledIsRow
  <1>3. lock[r] = NoWorker => draft[r] = db[r]
    BY <1>1 DEF IInv, DraftsAreLocal
  <1>4. RowFits(row, jobs[r])
    <2>1. RowFits(db[r], jobs[r])
      BY <1>1 DEF IInv, RowsFit
    <2> QED
      BY <1>2, <2>1 DEF RowFits, Terminal
  <1> HIDE DEF r, row
  <1>5. TypeOK'
    <2>1. NoCall \in [run : Run \cup {NoRun}, seen : State]
      BY DEF NoCall, State
    <2>2. call' \in [Caller -> [run : Run \cup {NoRun}, seen : State]]
      BY <1>1, <2>1 DEF IInv, TypeOK
    <2>3. db' \in [Run -> Row] /\ draft' \in [Run -> Row]
      BY <1>1, <1>2 DEF IInv, TypeOK
    <2> QED
      BY <1>1, <2>2, <2>3 DEF IInv, TypeOK
  <1>6. \/ UNCHANGED <<db, draft>>
        \/ /\ lock[r] = NoWorker /\ db'[r] = row /\ draft'[r] = row
           /\ \A q \in Run \ {r} : db'[q] = db[q] /\ draft'[q] = draft[q]
    BY <1>1 DEF IInv, TypeOK
  <1>7. DraftsAreLocal'
    <2> SUFFICES ASSUME NEW q \in Run
                 PROVE  /\ lock[q] = NoWorker \/ q \notin done[lock[q]] => draft'[q] = db'[q]
                        /\ \/ draft'[q].state = db'[q].state
                           \/ <<db'[q].state, draft'[q].state>> \in Lifecycle!ForwardEdges
      BY <1>1 DEF DraftsAreLocal, Lifecycle!ForwardEdges, Lifecycle!Terminal
    <2>1. CASE db'[q] = db[q] /\ draft'[q] = draft[q]
      BY <2>1 DEF IInv, DraftsAreLocal
    <2>2. CASE db'[q] = row /\ draft'[q] = row
      BY <2>2
    <2> QED
      BY <1>6, <2>1, <2>2
  <1>8. ClaimsAreWanted'
    BY <1>1, <1>6 DEF IInv, ClaimsAreWanted, Held, Wanted
  <1>9. StartsAreAccounted'
    BY <1>1, <1>2, <1>6 DEF IInv, StartsAreAccounted
  <1>10. CallsAreMonotonic'
    <2> SUFFICES ASSUME NEW d \in Caller, call'[d].run # NoRun
                 PROVE  /\ db'[call'[d].run].state # "absent"
                        /\ call'[d].seen # "queued" => db'[call'[d].run].state # "queued"
      BY DEF CallsAreMonotonic
    <2>1. d # c /\ call'[d] = call[d] /\ call[d].run \in Run
      BY <1>1 DEF IInv, TypeOK, NoCall
    <2>2. /\ db[call[d].run].state # "absent"
          /\ call[d].seen # "queued" => db[call[d].run].state # "queued"
      BY <2>1 DEF IInv, CallsAreMonotonic
    <2> QED
      BY <1>2, <1>6, <2>1, <2>2
  <1>11. RowsFit'
    BY <1>1, <1>4, <1>6 DEF IInv, RowsFit, RowFits
  <1> QED
    BY <1>5, <1>7, <1>8, <1>9, <1>10, <1>11 DEF IInv

(***************************************************************************)
(* Claiming, committing and rolling back                                   *)
(***************************************************************************)

LEMMA PollPreserves ==
  ASSUME IInv, NEW w \in Worker, Poll(w)
  PROVE  IInv'
  <1>1. /\ Held(w) = {} /\ todo' = [todo EXCEPT ![w] = {r \in Run : db[r].state \in Wanted(w)}]
        /\ UNCHANGED <<db, draft, lock, done, call, jobs, starts, age, faults>>
    BY DEF Poll, world
  <1>2. TypeOK'
    BY <1>1 DEF IInv, TypeOK
  <1>3. ClaimsAreWanted'
    <2>1. done[w] = {}
      BY <1>1 DEF IInv, ClaimsAreWanted
    <2> QED
      BY <1>1, <2>1 DEF IInv, ClaimsAreWanted, TypeOK, Held, Wanted
  <1>4. DraftsAreLocal' /\ StartsAreAccounted' /\ CallsAreMonotonic' /\ RowsFit'
    BY <1>1 DEF IInv, DraftsAreLocal, StartsAreAccounted, CallsAreMonotonic, RowsFit,
                RowFits, Lifecycle!ForwardEdges, Lifecycle!Terminal
  <1> QED
    BY <1>2, <1>3, <1>4 DEF IInv

LEMMA ClaimRowPreserves ==
  ASSUME IInv, NEW w \in Worker, NEW r \in Run, ClaimRow(w, r)
  PROVE  IInv'
  <1>1. /\ r \in todo[w] /\ db[r].state \in Wanted(w) /\ lock[r] = NoWorker
        /\ lock' = [lock EXCEPT ![r] = w] /\ todo' = [todo EXCEPT ![w] = @ \ {r}]
        /\ UNCHANGED <<db, draft, done, call, jobs, starts, age, faults>>
    BY DEF ClaimRow, Foremost, world
  <1>2. TypeOK'
    BY <1>1 DEF IInv, TypeOK
  <1>3. done[w] = {}
    BY <1>1 DEF IInv, ClaimsAreWanted
  <1>4. DraftsAreLocal'
    <2> SUFFICES ASSUME NEW q \in Run
                 PROVE  /\ lock'[q] = NoWorker \/ q \notin done[lock'[q]] => draft[q] = db[q]
                        /\ \/ draft[q].state = db[q].state
                           \/ <<db[q].state, draft[q].state>> \in Lifecycle!ForwardEdges
      BY <1>1 DEF DraftsAreLocal, Lifecycle!ForwardEdges, Lifecycle!Terminal
    <2>1. lock'[q] = lock[q] \/ (q = r /\ lock[q] = NoWorker)
      BY <1>1 DEF IInv, TypeOK
    <2> QED
      BY <2>1 DEF IInv, DraftsAreLocal
  <1>5. ClaimsAreWanted'
    <2>1. \A q \in Run : lock'[q] = lock[q] \/ (q = r /\ lock'[q] = w)
      BY <1>1 DEF IInv, TypeOK
    <2>2. \A q \in Run : lock'[q] # NoWorker => db[q].state \in Wanted(lock'[q])
      BY <1>1, <2>1 DEF IInv, ClaimsAreWanted
    <2>3. \A v \in Worker : Held(v) \subseteq Held(v)'
      BY <1>1 DEF Held, IInv, TypeOK, Worker
    <2>4. \A v \in Worker : todo'[v] # {} => done[v] = {}
      BY <1>1, <1>3 DEF IInv, ClaimsAreWanted, TypeOK
    <2> QED
      BY <1>1, <2>2, <2>3, <2>4 DEF IInv, ClaimsAreWanted, Wanted
  <1>6. StartsAreAccounted' /\ CallsAreMonotonic' /\ RowsFit'
    BY <1>1 DEF IInv, StartsAreAccounted, CallsAreMonotonic, RowsFit, RowFits
  <1> QED
    BY <1>2, <1>4, <1>5, <1>6 DEF IInv

LEMMA SkipRowPreserves ==
  ASSUME IInv, NEW w \in Worker, NEW r \in Run, SkipRow(w, r)
  PROVE  IInv'
  <1>1. /\ r \in todo[w] /\ todo' = [todo EXCEPT ![w] = @ \ {r}]
        /\ UNCHANGED <<db, draft, lock, done, call, jobs, starts, age, faults>>
    BY DEF SkipRow, Foremost, world
  <1>2. TypeOK'
    BY <1>1 DEF IInv, TypeOK
  <1>3. ClaimsAreWanted'
    BY <1>1 DEF IInv, ClaimsAreWanted, TypeOK, Held, Wanted
  <1>4. DraftsAreLocal' /\ StartsAreAccounted' /\ CallsAreMonotonic' /\ RowsFit'
    BY <1>1 DEF IInv, DraftsAreLocal, StartsAreAccounted, CallsAreMonotonic, RowsFit,
                RowFits, Lifecycle!ForwardEdges, Lifecycle!Terminal
  <1> QED
    BY <1>2, <1>3, <1>4 DEF IInv

LEMMA CommitPreserves ==
  ASSUME IInv, NEW w \in Worker, CommitTxn(w)
  PROVE  IInv'
  <1>1. /\ todo[w] = {}
        /\ db' = [r \in Run |-> IF lock[r] = w THEN draft[r] ELSE db[r]]
        /\ lock' = [r \in Run |-> IF lock[r] = w THEN NoWorker ELSE lock[r]]
        /\ done' = [done EXCEPT ![w] = {}]
        /\ UNCHANGED <<draft, todo, call, jobs, starts, age, faults>>
    BY DEF CommitTxn, world
  <1>2. w # NoWorker
    BY DEF Worker
  <1>3. TypeOK'
    BY <1>1 DEF IInv, TypeOK
  <1>4. DraftsAreLocal'
    <2> SUFFICES ASSUME NEW q \in Run
                 PROVE  /\ lock'[q] = NoWorker \/ q \notin done'[lock'[q]] => draft[q] = db'[q]
                        /\ \/ draft[q].state = db'[q].state
                           \/ <<db'[q].state, draft[q].state>> \in Lifecycle!ForwardEdges
      BY <1>1 DEF DraftsAreLocal, Lifecycle!ForwardEdges, Lifecycle!Terminal
    <2>1. CASE lock[q] = w
      BY <1>1, <2>1
    <2>2. CASE lock[q] # w
      <3>1. lock'[q] = lock[q] /\ db'[q] = db[q] /\ lock[q] \in Worker \cup {NoWorker}
        BY <1>1, <2>2 DEF IInv, TypeOK
      <3>2. lock[q] # NoWorker => done'[lock[q]] = done[lock[q]]
        BY <1>1, <2>2, <3>1 DEF IInv, TypeOK
      <3> QED
        BY <3>1, <3>2 DEF IInv, DraftsAreLocal
    <2> QED
      BY <2>1, <2>2
  <1>5. ClaimsAreWanted'
    <2>1. \A q \in Run : lock'[q] # NoWorker => lock'[q] = lock[q] /\ db'[q] = db[q]
      BY <1>1
    <2>2. \A q \in Run : lock'[q] # NoWorker => db'[q].state \in Wanted(lock'[q])
      BY <2>1 DEF IInv, ClaimsAreWanted
    <2>3. \A v \in Worker \ {w} : Held(v)' = Held(v) /\ done'[v] = done[v]
      BY <1>1 DEF Held, IInv, TypeOK, Worker
    <2>4. done'[w] = {}
      BY <1>1 DEF IInv, TypeOK
    <2> QED
      BY <1>1, <2>2, <2>3, <2>4 DEF IInv, ClaimsAreWanted, Wanted
  <1>6. StartsAreAccounted'
    BY <1>1 DEF IInv, StartsAreAccounted
  <1>7. CallsAreMonotonic'
    <2> SUFFICES ASSUME NEW c \in Caller, call[c].run # NoRun
                 PROVE  /\ db'[call[c].run].state # "absent"
                        /\ call[c].seen # "queued" => db'[call[c].run].state # "queued"
      BY <1>1 DEF CallsAreMonotonic
    <2> DEFINE r == call[c].run
    <2>1. r \in Run
      BY DEF IInv, TypeOK
    <2>2. db'[r] = db[r] \/ db'[r] = draft[r]
      BY <1>1, <2>1
    <2>3. /\ db[r].state # "absent"
          /\ call[c].seen # "queued" => db[r].state # "queued"
      BY DEF IInv, CallsAreMonotonic
    <2>4. \/ draft[r].state = db[r].state
          \/ <<db[r].state, draft[r].state>> \in Lifecycle!ForwardEdges
      BY <2>1 DEF IInv, DraftsAreLocal
    <2> QED
      BY <2>2, <2>3, <2>4 DEF Lifecycle!ForwardEdges, Lifecycle!Terminal
  <1>8. RowsFit'
    BY <1>1 DEF IInv, RowsFit, RowFits
  <1> QED
    BY <1>3, <1>4, <1>5, <1>6, <1>7, <1>8 DEF IInv

\* A rollback forgets drafts, so a run whose job has been started may be queued
\* again: the fault that caused it is what accounts for the job.
LEMMA RollbackPreserves ==
  ASSUME IInv, NEW w \in Worker, Rollback(w),
         \/ faults' = faults /\ done[w] = {}
         \/ faults' = faults + 1 /\ faults < MaxFaults
  PROVE  IInv'
  <1>1. /\ draft' = [r \in Run |-> IF lock[r] = w THEN db[r] ELSE draft[r]]
        /\ lock' = [r \in Run |-> IF lock[r] = w THEN NoWorker ELSE lock[r]]
        /\ todo' = [todo EXCEPT ![w] = {}] /\ done' = [done EXCEPT ![w] = {}]
        /\ UNCHANGED <<db, call, jobs, starts, age>>
    BY DEF Rollback
  <1>2. w # NoWorker
    BY DEF Worker
  <1>3. TypeOK'
    <2>1. faults' \in 0 .. MaxFaults
      BY DEF IInv, TypeOK
    <2> QED
      BY <1>1, <2>1 DEF IInv, TypeOK
  <1>4. DraftsAreLocal'
    <2> SUFFICES ASSUME NEW q \in Run
                 PROVE  /\ lock'[q] = NoWorker \/ q \notin done'[lock'[q]] => draft'[q] = db[q]
                        /\ \/ draft'[q].state = db[q].state
                           \/ <<db[q].state, draft'[q].state>> \in Lifecycle!ForwardEdges
      BY <1>1 DEF DraftsAreLocal, Lifecycle!ForwardEdges, Lifecycle!Terminal
    <2>1. CASE lock[q] = w
      BY <1>1, <2>1
    <2>2. CASE lock[q] # w
      <3>1. lock'[q] = lock[q] /\ draft'[q] = draft[q] /\ lock[q] \in Worker \cup {NoWorker}
        BY <1>1, <2>2 DEF IInv, TypeOK
      <3>2. lock[q] # NoWorker => done'[lock[q]] = done[lock[q]]
        BY <1>1, <2>2, <3>1 DEF IInv, TypeOK
      <3> QED
        BY <3>1, <3>2 DEF IInv, DraftsAreLocal
    <2> QED
      BY <2>1, <2>2
  <1>5. ClaimsAreWanted'
    <2>1. \A q \in Run : lock'[q] # NoWorker => lock'[q] = lock[q]
      BY <1>1
    <2>2. \A q \in Run : lock'[q] # NoWorker => db[q].state \in Wanted(lock'[q])
      BY <2>1 DEF IInv, ClaimsAreWanted
    <2>3. \A v \in Worker \ {w} : /\ Held(v)' = Held(v) /\ done'[v] = done[v]
                                  /\ todo'[v] = todo[v]
      BY <1>1 DEF Held, IInv, TypeOK, Worker
    <2>4. done'[w] = {}
      BY <1>1 DEF IInv, TypeOK
    <2> QED
      BY <1>1, <2>2, <2>3, <2>4 DEF IInv, ClaimsAreWanted, Wanted
  <1>6. StartsAreAccounted'
    <2> SUFFICES ASSUME NEW q \in Run
                 PROVE  /\ starts[q] <= 1 + faults'
                        /\ draft'[q].state \in {"absent", "queued"} => starts[q] <= faults'
      BY <1>1 DEF StartsAreAccounted
    <2>1. /\ starts[q] <= 1 + faults
          /\ draft[q].state \in {"absent", "queued"} => starts[q] <= faults
      BY DEF IInv, StartsAreAccounted
    <2>2. starts[q] \in Nat /\ faults \in Nat
      BY DEF IInv, TypeOK, MaxStarts
    <2>3. CASE faults' = faults + 1
      BY <2>1, <2>2, <2>3
    <2>4. CASE faults' = faults /\ done[w] = {}
      <3>1. draft'[q] = draft[q]
        BY <1>1, <1>2, <2>4 DEF IInv, DraftsAreLocal
      <3> QED
        BY <2>1, <2>4, <3>1
    <2> QED
      BY <2>3, <2>4
  <1>7. CallsAreMonotonic'
    BY <1>1 DEF IInv, CallsAreMonotonic
  <1>8. RowsFit'
    BY <1>1 DEF IInv, RowsFit, RowFits
  <1> QED
    BY <1>3, <1>4, <1>5, <1>6, <1>7, <1>8 DEF IInv

(***************************************************************************)
(* EMR and the clock                                                       *)
(***************************************************************************)

LEMMA JobMovesPreserves ==
  ASSUME IInv, NEW r \in Run, NEW i \in Slot, JobMoves(r, i)
  PROVE  IInv'
  <1>1. UNCHANGED <<db, draft, lock, todo, done, call, starts, age, faults>>
    BY DEF JobMoves
  <1>2. TypeOK
    BY DEF IInv
  <1>3. TypeOK'
    BY <1>1, <1>2, JobMovesEffect DEF TypeOK
  <1>4. ASSUME NEW q \in Run, NEW row \in Row, RowFits(row, jobs[q])
        PROVE  RowFits(row, jobs'[q])
    <2>1. row.state \in {"running", "succeeded", "timed_out"} => row.job \in Slot
      BY <1>4 DEF RowFits, Row, Slot, MaxStarts
    <2>2. row.state \in {"running", "succeeded", "timed_out"} =>
            \/ jobs'[q][row.job] = jobs[q][row.job]
            \/ /\ jobs[q][row.job] # "COMPLETED" /\ jobs[q][row.job] \notin Live
               /\ jobs'[q][row.job] \notin Live
            \/ jobs[q][row.job] \in Live /\ jobs'[q][row.job] # "PENDING"
               /\ (jobs'[q][row.job] = "SUBMITTED" => jobs[q][row.job] = "PENDING")
      BY <1>2, <2>1, JobMovesEffect
    <2> QED
      BY <1>4, <2>2 DEF RowFits, Live, Terminal
  <1>5. RowsFit'
    <2> SUFFICES ASSUME NEW q \in Run
                 PROVE  RowFits(db'[q], jobs'[q]) /\ RowFits(draft'[q], jobs'[q])
      BY DEF RowsFit, RowFits, Terminal, Live
    <2>1. db[q] \in Row /\ draft[q] \in Row
      BY <1>2 DEF TypeOK
    <2>2. RowFits(db[q], jobs[q]) /\ RowFits(draft[q], jobs[q])
      BY DEF IInv, RowsFit
    <2> QED
      BY <1>1, <1>4, <2>1, <2>2
  <1>6. DraftsAreLocal' /\ ClaimsAreWanted' /\ StartsAreAccounted' /\ CallsAreMonotonic'
    BY <1>1 DEF IInv, DraftsAreLocal, ClaimsAreWanted, StartsAreAccounted, CallsAreMonotonic,
                Held, Wanted, Lifecycle!ForwardEdges, Lifecycle!Terminal
  <1> QED
    BY <1>3, <1>5, <1>6 DEF IInv

LEMMA QuietPreserves ==
  ASSUME IInv, UNCHANGED <<db, draft, lock, todo, done, call, jobs, starts, faults>>,
         age' \in [Run -> 0 .. MaxAge]
  PROVE  IInv'
  BY DEF IInv, TypeOK, DraftsAreLocal, ClaimsAreWanted, StartsAreAccounted,
         CallsAreMonotonic, RowsFit, RowFits, Held, Wanted, Terminal, Live,
         Lifecycle!ForwardEdges, Lifecycle!Terminal

(***************************************************************************)
(* The invariant                                                           *)
(***************************************************************************)

LEMMA InitEstablishes == Init => IInv
  <1> SUFFICES ASSUME Init PROVE IInv
    OBVIOUS
  <1>1. MaxStarts \in Nat
    BY DEF MaxStarts
  <1>2. TypeOK
    <2>1. NoCall \in [run : Run \cup {NoRun}, seen : State]
      BY DEF NoCall, State
    <2> QED
      BY <1>1, <2>1, AbsentRowIsRow DEF Init, TypeOK, JobState
  <1>3. RowsFit
    BY DEF Init, RowsFit, RowFits, AbsentRow, Terminal
  <1>4. DraftsAreLocal /\ ClaimsAreWanted /\ StartsAreAccounted /\ CallsAreMonotonic
    BY DEF Init, DraftsAreLocal, ClaimsAreWanted, StartsAreAccounted, CallsAreMonotonic,
           NoCall
  <1> QED
    BY <1>2, <1>3, <1>4 DEF IInv

LEMMA NextPreserves == IInv /\ [Next]_vars => IInv'
  <1> SUFFICES ASSUME IInv, [Next]_vars PROVE IInv'
    OBVIOUS
  <1>1. ASSUME NEW r \in Run, CreateRun(r) PROVE IInv'
    BY <1>1, CreateRunPreserves
  <1>2. ASSUME NEW r \in Run, Tick(r) PROVE IInv'
    <2>1. UNCHANGED <<db, draft, lock, todo, done, call, jobs, starts, faults>>
          /\ age' \in [Run -> 0 .. MaxAge]
      BY <1>2 DEF Tick, IInv, TypeOK
    <2> QED
      BY <2>1, QuietPreserves
  <1>3. ASSUME NEW c \in Caller, NEW r \in Run, CancelRead(c, r) PROVE IInv'
    BY <1>3, CancelReadPreserves
  <1>4. ASSUME NEW c \in Caller, CancelWrite(c) PROVE IInv'
    BY <1>4, CancelWritePreserves
  <1>5. ASSUME NEW w \in Worker, WorkerStep(w) PROVE IInv'
    <2>1. CASE Poll(w)
      BY <2>1, PollPreserves
    <2>2. CASE CommitTxn(w)
      BY <2>2, CommitPreserves
    <2>3. CASE DeadlockVictim(w)
      <3>1. Rollback(w) /\ faults' = faults /\ todo[w] # {}
        BY <2>3 DEF DeadlockVictim
      <3>2. done[w] = {}
        BY <3>1 DEF IInv, ClaimsAreWanted
      <3> QED
        BY <3>1, <3>2, RollbackPreserves
    <2>4. ASSUME NEW r \in Run, RunStep(w, r) PROVE IInv'
      <3>1. CASE ClaimRow(w, r)
        BY <3>1, ClaimRowPreserves
      <3>2. CASE SkipRow(w, r)
        BY <3>2, SkipRowPreserves
      <3>3. CASE \/ DeclineDispatch(w, r) \/ Dispatch(w, r)
                 \/ DispatchError(w, r) \/ DispatchAnswerLost(w, r)
        BY <3>3, SchedulerLoop, LoopPreserves
      <3>4. CASE \/ TimeOut(w, r) \/ CancelDispatch(w, r)
                 \/ Observe(w, r) \/ ReconcileError(w, r)
        BY <3>4, ReconcilerLoop, LoopPreserves
      <3> QED
        BY <2>4, <3>1, <3>2, <3>3, <3>4 DEF RunStep
    <2> QED
      BY <1>5, <2>1, <2>2, <2>3, <2>4 DEF WorkerStep
  <1>6. ASSUME NEW w \in Worker, Crash(w) PROVE IInv'
    BY <1>6, RollbackPreserves DEF Crash
  <1>7. ASSUME NEW r \in Run, NEW i \in Slot, JobMoves(r, i) PROVE IInv'
    BY <1>7, JobMovesPreserves
  <1>8. CASE UNCHANGED vars
    <2>1. UNCHANGED <<db, draft, lock, todo, done, call, jobs, starts, faults>>
          /\ age' \in [Run -> 0 .. MaxAge]
      BY <1>8 DEF vars, IInv, TypeOK
    <2> QED
      BY <2>1, QuietPreserves
  <1> QED
    BY <1>1, <1>2, <1>3, <1>4, <1>5, <1>6, <1>7, <1>8 DEF Next

\* The rows, drafts, locks and EMR's jobs fit together in every reachable state.
THEOREM Invariance == Spec => []IInv
  BY InitEstablishes, NextPreserves, PTL DEF Spec

\* The variables keep to their types: in particular no run is ever dispatched
\* so often that MaxStarts slots do not suffice for its jobs.
THEOREM TypeCorrectness == Spec => []TypeOK
  <1>1. IInv => TypeOK
    BY DEF IInv
  <1> QED
    BY <1>1, Invariance, PTL

\* However many schedulers and reconcilers share the queue, a run has at most
\* one EMR job more than there were crashes and lost answers.
THEOREM DuplicatesNeedFaults == Spec => []DuplicateNeedsFault
  <1>1. IInv => DuplicateNeedsFault
    BY DEF IInv, StartsAreAccounted, DuplicateNeedsFault
  <1> QED
    BY <1>1, Invariance, PTL

\* The timeout leaves no live job behind.
THEOREM TimeoutStopsTheJob == Spec => []TimedOutJobIsStopped
  <1>1. IInv => TimedOutJobIsStopped
    BY DEF IInv, RowsFit, RowFits, TimedOutJobIsStopped, TrackedJob, Live
  <1> QED
    BY <1>1, Invariance, PTL

\* Success is EMR's word on the job the row points at.
THEOREM SuccessIsTrue == Spec => []SuccessIsEmrs
  <1>1. IInv => SuccessIsEmrs
    BY DEF IInv, RowsFit, RowFits, SuccessIsEmrs, TrackedJob, Terminal
  <1> QED
    BY <1>1, Invariance, PTL

\* Usage and outcome are committed together.
THEOREM UsageFollowsOutcome == Spec => []UsageMatchesOutcome
  <1>1. IInv => UsageMatchesOutcome
    BY DEF IInv, RowsFit, RowFits, UsageMatchesOutcome
  <1> QED
    BY <1>1, Invariance, PTL

\* The queue holds only runs without a job and without a cancel request.
THEOREM TheQueueIsFresh == Spec => []QueuedIsFresh
  <1>1. IInv => QueuedIsFresh
    BY DEF IInv, RowsFit, RowFits, QueuedIsFresh
  <1> QED
    BY <1>1, Invariance, PTL

(***************************************************************************)
(* The refinement                                                          *)
(***************************************************************************)

FollowsAnEdge(q) ==
  \/ db'[q].state = db[q].state
  \/ <<db[q].state, db'[q].state>> \in Lifecycle!ForwardEdges \cup Lifecycle!LateCancelEdges

\* Only three actions write committed rows: submission, cancel and commit.
LEMMA StepsFollowEdges ==
  ASSUME IInv, [Next]_vars, NEW q \in Run
  PROVE  FollowsAnEdge(q)
  <1>1. db' = db => FollowsAnEdge(q)
    BY DEF FollowsAnEdge
  <1>2. ASSUME NEW r \in Run, CreateRun(r) PROVE FollowsAnEdge(q)
    <2>1. /\ db[r].state = "absent"
          /\ db' = [db EXCEPT ![r] = [AbsentRow EXCEPT !.state = "queued"]]
      BY <1>2 DEF CreateRun, Publish
    <2>2. IF q = r THEN db[q].state = "absent" /\ db'[q].state = "queued"
                   ELSE db'[q] = db[q]
      BY <2>1 DEF IInv, TypeOK, AbsentRow
    <2> QED
      BY <2>2 DEF FollowsAnEdge, Lifecycle!ForwardEdges
  <1>3. ASSUME NEW c \in Caller, CancelWrite(c) PROVE FollowsAnEdge(q)
    <2> DEFINE r == call[c].run
    <2> DEFINE row == Cancelled(db[r], call[c].seen)
    <2>1. /\ r \in Run
          /\ db' = db \/ (db' = [db EXCEPT ![r] = row])
      BY <1>3 DEF CancelWrite, Publish, IInv, TypeOK
    <2>2. /\ db[r].state # "absent" /\ db[r].state \in State
          /\ row.state \in {db[r].state, "cancelled"}
      <3>1. db[r] \in Row
        BY <2>1 DEF IInv, TypeOK
      <3>2. db[r].state # "absent"
        BY <2>1 DEF IInv, CallsAreMonotonic
      <3>3. row.state \in {db[r].state, "cancelled"}
        BY <3>1, CancelledIsRow
      <3> QED
        BY <3>1, <3>2, <3>3 DEF Row
    <2> HIDE DEF r, row
    <2>3. \/ db'[q] = db[q]
          \/ q = r /\ db'[q] = row
      BY <2>1 DEF IInv, TypeOK
    <2> QED
      BY <2>2, <2>3 DEF FollowsAnEdge, Lifecycle!ForwardEdges, Lifecycle!LateCancelEdges,
                        Lifecycle!Terminal, State, Terminal
  <1>4. ASSUME NEW w \in Worker, CommitTxn(w) PROVE FollowsAnEdge(q)
    <2>1. db'[q] = db[q] \/ db'[q] = draft[q]
      BY <1>4 DEF CommitTxn
    <2>2. \/ draft[q].state = db[q].state
          \/ <<db[q].state, draft[q].state>> \in Lifecycle!ForwardEdges
      BY DEF IInv, DraftsAreLocal
    <2> QED
      BY <2>1, <2>2 DEF FollowsAnEdge
  <1>5. ASSUME NEW w \in Worker, WorkerStep(w) \/ Crash(w) PROVE FollowsAnEdge(q)
    <2>1. CASE CommitTxn(w)
      BY <1>4, <2>1
    <2>2. CASE ~ CommitTxn(w)
      <3>1. db' = db
        BY <1>5, <2>2 DEF WorkerStep, Crash, RunStep, Poll, DeadlockVictim, Rollback,
             ClaimRow, SkipRow, DeclineDispatch, Dispatch, DispatchError,
             DispatchAnswerLost, TimeOut, CancelDispatch, Observe, ReconcileError, Finish
      <3> QED
        BY <1>1, <3>1
    <2> QED
      BY <2>1, <2>2
  <1>6. ASSUME NEW r \in Run, Tick(r) PROVE FollowsAnEdge(q)
    BY <1>1, <1>6 DEF Tick
  <1>7. ASSUME NEW c \in Caller, NEW r \in Run, CancelRead(c, r) PROVE FollowsAnEdge(q)
    BY <1>1, <1>7 DEF CancelRead
  <1>8. ASSUME NEW r \in Run, NEW i \in Slot, JobMoves(r, i) PROVE FollowsAnEdge(q)
    BY <1>1, <1>8 DEF JobMoves
  <1>9. CASE UNCHANGED vars
    BY <1>1, <1>9 DEF vars
  <1> QED
    BY <1>2, <1>3, <1>5, <1>6, <1>7, <1>8, <1>9 DEF Next

\* The workers and the API implement the lifecycle of RunStates, late cancels
\* included.
THEOREM Refinement == Spec => RefinesLifecycle
  <1>1. Init => Lifecycle!Init
    BY DEF Init, Lifecycle!Init, AbsentRow
  <1>2. IInv /\ IInv' /\ [Next]_vars => [Lifecycle!Next]_([r \in Run |-> db[r].state])
    <2> SUFFICES ASSUME IInv, IInv', [Next]_vars
                 PROVE  Lifecycle!Next
      OBVIOUS
    <2>1. \A q \in Run : db'[q].state \in Lifecycle!State
      BY DEF IInv, TypeOK, Row, State, Terminal, Lifecycle!State, Lifecycle!Active,
             Lifecycle!Terminal
    <2>2. Lifecycle!Moves(Lifecycle!ForwardEdges \cup Lifecycle!LateCancelEdges)
      BY StepsFollowEdges DEF FollowsAnEdge, Lifecycle!Moves
    <2> QED
      BY <2>1, <2>2 DEF Lifecycle!Next
  <1> QED
    BY <1>1, <1>2, Invariance, PTL DEF Spec, RefinesLifecycle, Lifecycle!Spec

==============================================================================
