-------------------------- MODULE RunAdmissionProofs --------------------------
(***************************************************************************)
(* The limits on concurrent runs and on their vCPUs hold for any number of *)
(* submissions of any size, and a submission keeps the promise of its      *)
(* Idempotency-Key when the lock of the environment and everything else is *)
(* added to it.                                                            *)
(***************************************************************************)
EXTENDS RunAdmission, IdempotencyProofs, FiniteSetTheorems, WellFoundedInduction

LEMMA ActiveIsFinite ==
  /\ IsFiniteSet(ActiveRuns)
  /\ Cardinality(ActiveRuns) \in Nat
  BY FiniteAssumption, FS_Subset, FS_CardinalityType DEF ActiveRuns

LEMMA AdmissionInitInv == AdmissionInit => AdmissionInv
<1> SUFFICES ASSUME AdmissionInit PROVE AdmissionInv
  OBVIOUS
<1>1. TypeOK
  BY InitIInv DEF AdmissionInit, IInv
<1>2. AdmissionTypeOK
  BY <1>1 DEF AdmissionInit, AdmissionTypeOK, Status, Session, Editor, Op
<1>3. ActiveRuns = {}
  BY DEF AdmissionInit, ActiveRuns
<1>4. RunLimitHolds
  BY <1>3, FS_EmptySet, QuotaAssumption DEF RunLimitHolds
<1>5. AdmittedHasRoom
  BY DEF AdmissionInit, Init, AdmittedHasRoom
<1>6. QED  BY <1>2, <1>4, <1>5 DEF AdmissionInv

\* Every step of the environment is a step of with_idempotency or none.
LEMMA StepIsIdempotent == AdmissionNext => [Next]_vars
<1> SUFFICES ASSUME AdmissionNext PROVE [Next]_vars
  OBVIOUS
<1>1. ASSUME NEW q \in Request, SubmissionStep(q) \/ Die(q) \/ EndRun(q)
      PROVE  [Next]_vars
  BY <1>1
  DEF SubmissionStep, Arrive, AroundExecute, LockEnvironment, Admit, CommitRun,
      Refuse, Die, EndRun, Next, Step
<1>2. ASSUME NEW x \in Editor, EditorStep(x) PROVE [Next]_vars
  BY <1>2
  DEF EditorStep, ReadEnvironment, CheckRuns, CheckOperations, RetryWrite,
      DeleteWrite
<1>3. ASSUME NEW o \in Op, LoadForOperation(o) \/ EndOperation(o)
      PROVE  [Next]_vars
  BY <1>3 DEF LoadForOperation, EndOperation
<1>4. CASE Quiet
  BY <1>4 DEF Quiet, allVars
<1>5. QED  BY <1>1, <1>2, <1>3, <1>4 DEF AdmissionNext

(***************************************************************************)
(* What holds of with_idempotency alone holds of submissions: one run per  *)
(* key, replays that are true, and the contract of OnceRegister.           *)
(***************************************************************************)
THEOREM SubmissionIsOnce == AdmissionSpec => []AtMostOnce /\ RefinesOnce
<1>1. AdmissionInit => Init
  BY DEF AdmissionInit
<1>2. [AdmissionNext]_allVars => [Next]_vars
  BY StepIsIdempotent DEF allVars
<1>3. AdmissionSpec => Spec
  BY <1>1, <1>2, PTL DEF AdmissionSpec, Spec
<1>4. QED  BY <1>3, OneEffectPerKey, Refinement, PTL

------------------------------------------------------------------------------
(* The limit on concurrent runs *)

\* Steps that leave the runs, the lock and the commits alone.
LEMMA QuietStep ==
  ASSUME AdmissionInv, AdmissionTypeOK', run' = run,
         \A q \in Request : pc'[q] = "commit" => pc[q] = "commit",
         \A q \in Request : pc'[q] = "commit" => lockedBy' = lockedBy
  PROVE  AdmissionInv'
<1>1. ActiveRuns' = ActiveRuns
  BY DEF ActiveRuns
<1>2. QED
  BY <1>1 DEF AdmissionInv, AdmittedHasRoom, RunLimitHolds

LEMMA AdmissionTypeStep ==
  ASSUME AdmissionTypeOK, TypeOK', AdmissionNext PROVE AdmissionTypeOK'
<1> USE DEF AdmissionTypeOK
<1>1. ASSUME NEW q \in Request, SubmissionStep(q) \/ Die(q) \/ EndRun(q)
      PROVE  AdmissionTypeOK'
  <2> USE DEF Session
  <2>1. CASE Arrive(q)  BY <2>1 DEF Arrive
  <2>2. CASE AroundExecute(q)  BY <2>2 DEF AroundExecute, envVars
  <2>3. CASE LockEnvironment(q)  BY <2>3 DEF LockEnvironment
  <2>4. CASE Admit(q)  BY <2>4 DEF Admit, envVars
  <2>5. CASE CommitRun(q)  BY <2>5 DEF CommitRun, Release
  <2>6. CASE Refuse(q) \/ Die(q)  BY <2>6 DEF Refuse, Die, Release
  <2>7. CASE EndRun(q)  BY <2>7 DEF EndRun
  <2>8. QED
    BY <1>1, <2>1, <2>2, <2>3, <2>4, <2>5, <2>6, <2>7 DEF SubmissionStep
<1>2. ASSUME NEW x \in Editor, EditorStep(x) PROVE AdmissionTypeOK'
  <2> USE DEF At, Session, Status
  <2>1. CASE ReadEnvironment(x)  BY <2>1 DEF ReadEnvironment
  <2>2. CASE CheckRuns(x)  BY <2>2 DEF CheckRuns
  <2>3. CASE CheckOperations(x)  BY <2>3 DEF CheckOperations
  <2>4. CASE RetryWrite(x)  BY <2>4 DEF RetryWrite, Assign, Op
  <2>5. CASE DeleteWrite(x)  BY <2>5 DEF DeleteWrite, Assign
  <2>6. QED  BY <1>2, <2>1, <2>2, <2>3, <2>4, <2>5 DEF EditorStep
<1>3. ASSUME NEW o \in Op, LoadForOperation(o) \/ EndOperation(o)
      PROVE  AdmissionTypeOK'
  BY <1>3 DEF LoadForOperation, EndOperation, Assign, Session, Status
<1>4. CASE Quiet
  BY <1>4 DEF Quiet, allVars, envVars
<1>5. QED  BY <1>1, <1>2, <1>3, <1>4 DEF AdmissionNext

LEMMA AdmissionNextInv ==
  ASSUME AdmissionInv, IInv, IInv', [AdmissionNext]_allVars PROVE AdmissionInv'
<1>1. CASE UNCHANGED allVars
  BY <1>1
  DEF AdmissionInv, AdmissionTypeOK, AdmittedHasRoom, RunLimitHolds, ActiveRuns,
      TypeOK, allVars, vars, envVars
<1> SUFFICES ASSUME AdmissionNext PROVE AdmissionInv'
  BY <1>1
<1>2. AdmissionTypeOK'
  BY AdmissionTypeStep DEF AdmissionInv, IInv
<1> USE DEF Goto
<1>3. ASSUME NEW q \in Request, Admit(q) PROVE AdmissionInv'
  <2>1. ActiveRuns' = ActiveRuns
    BY <1>3 DEF Admit, envVars, ActiveRuns
  <2>2. lockedBy = q /\ lockedBy' = q /\ Cardinality(ActiveRuns) < MaxConcurrentRuns
    BY <1>3 DEF Admit, WithinQuota, envVars
  <2>3. ASSUME NEW p \in Request, pc'[p] = "commit" PROVE lockedBy' = p
    BY <1>3, <2>2, <2>3
    DEF Admit, Execute, AdmissionInv, AdmissionTypeOK, TypeOK, AdmittedHasRoom
  <2>4. QED
    BY <1>2, <2>1, <2>2, <2>3 DEF AdmissionInv, AdmittedHasRoom, RunLimitHolds
<1>4. ASSUME NEW q \in Request, CommitRun(q) PROVE AdmissionInv'
  <2>1. /\ pc[q] = "commit" /\ lockedBy = q
        /\ Cardinality(ActiveRuns) < MaxConcurrentRuns
    BY <1>4 DEF CommitRun, Commit, AdmissionInv, AdmittedHasRoom
  <2>2. \A p \in Request : pc'[p] # "commit"
    BY <1>4, <2>1
    DEF CommitRun, Commit, AdmissionInv, AdmissionTypeOK, TypeOK, AdmittedHasRoom
  <2>3. ActiveRuns' = ActiveRuns \cup {q}
    BY <1>4 DEF CommitRun, ActiveRuns, AdmissionInv, AdmissionTypeOK
  <2>4. Cardinality(ActiveRuns') <= Cardinality(ActiveRuns) + 1
    BY <2>3, ActiveIsFinite, FS_AddElement
  <2>5. Cardinality(ActiveRuns') <= MaxConcurrentRuns
    <3>1. Cardinality(ActiveRuns') \in Nat
      BY <2>3, ActiveIsFinite, FS_AddElement
    <3>2. QED  BY <2>1, <2>4, <3>1, ActiveIsFinite, QuotaAssumption
  <2>6. QED
    BY <1>2, <2>2, <2>5 DEF AdmissionInv, AdmittedHasRoom, RunLimitHolds
<1>5. ASSUME NEW q \in Request, EndRun(q) PROVE AdmissionInv'
  <2>1. ActiveRuns' \subseteq ActiveRuns
    BY <1>5 DEF EndRun, ActiveRuns, AdmissionInv, AdmissionTypeOK
  <2>2. Cardinality(ActiveRuns') <= Cardinality(ActiveRuns)
    BY <2>1, ActiveIsFinite, FS_Subset
  <2>3. IsFiniteSet(ActiveRuns')
    BY <2>1, ActiveIsFinite, FS_Subset
  <2>4. Cardinality(ActiveRuns') \in Nat
    BY <2>3, FS_CardinalityType
  <2>5. pc' = pc /\ lockedBy' = lockedBy
    BY <1>5 DEF EndRun, vars
  <2>6. RunLimitHolds'
    BY <2>2, <2>4, ActiveIsFinite, QuotaAssumption DEF AdmissionInv, RunLimitHolds
  <2>7. AdmittedHasRoom'
    BY <2>2, <2>4, <2>5, ActiveIsFinite, QuotaAssumption
    DEF AdmissionInv, AdmittedHasRoom
  <2>8. QED  BY <1>2, <2>6, <2>7 DEF AdmissionInv
<1>6. ASSUME NEW q \in Request, LockEnvironment(q) PROVE AdmissionInv'
  <2>1. \A p \in Request : pc'[p] # "commit"
    BY <1>6, RequestAssumption
    DEF LockEnvironment, Unlocked, vars, AdmissionInv, AdmittedHasRoom
  <2>2. QED  BY <1>2, <1>6, <2>1, QuietStep DEF LockEnvironment
<1>7. ASSUME NEW q \in Request, Refuse(q) \/ Die(q) PROVE AdmissionInv'
  <2>1. \A p \in Request : pc'[p] = "commit" => p # q /\ pc[p] = "commit"
    BY <1>7 DEF Refuse, Die, Fail, Crash, AdmissionInv, AdmissionTypeOK, TypeOK
  <2>2. \A p \in Request : pc'[p] = "commit" => lockedBy' = lockedBy
    BY <1>7, <2>1 DEF Refuse, Die, Release, AdmissionInv, AdmittedHasRoom
  <2>3. QED  BY <1>2, <1>7, <2>1, <2>2, QuietStep DEF Refuse, Die
<1>8. ASSUME NEW q \in Request, Arrive(q) \/ AroundExecute(q) PROVE AdmissionInv'
  <2>1. \A p \in Request : pc'[p] = "commit" => pc[p] = "commit"
    BY <1>8
    DEF Arrive, AroundExecute, LoadHit, LoadMiss, Reserve, ReserveRefused, Reload,
        vars, AdmissionInv, AdmissionTypeOK, TypeOK
  <2>2. QED
    BY <1>2, <1>8, <2>1, QuietStep DEF Arrive, AroundExecute, envVars
<1>9. ASSUME NEW x \in Editor, EditorStep(x) PROVE AdmissionInv'
  BY <1>2, <1>9, QuietStep
  DEF EditorStep, ReadEnvironment, CheckRuns, CheckOperations, RetryWrite,
      DeleteWrite, vars
<1>10. ASSUME NEW o \in Op, LoadForOperation(o) \/ EndOperation(o)
       PROVE  AdmissionInv'
  BY <1>2, <1>10, QuietStep DEF LoadForOperation, EndOperation, vars
<1>11. CASE Quiet
  BY <1>2, <1>11, QuietStep DEF Quiet, allVars, vars, envVars
<1>12. QED
  BY <1>3, <1>4, <1>5, <1>6, <1>7, <1>8, <1>9, <1>10, <1>11
  DEF AdmissionNext, SubmissionStep

(***************************************************************************)
(* The strengthening of the limit: between the count and the commit the    *)
(* lock keeps every other submission out.                                  *)
(***************************************************************************)
THEOREM AdmissionInvariance == AdmissionSpec => []AdmissionInv
<1>1. AdmissionInit => Init
  BY DEF AdmissionInit
<1>2. [AdmissionNext]_allVars => [Next]_vars
  BY StepIsIdempotent DEF allVars
<1>3. AdmissionSpec => []IInv
  BY <1>1, <1>2, Invariance, PTL DEF AdmissionSpec, Spec
<1>4. AdmissionInv /\ IInv /\ IInv' /\ [AdmissionNext]_allVars => AdmissionInv'
  BY AdmissionNextInv
<1>5. QED
  BY <1>3, <1>4, AdmissionInitInv, PTL DEF AdmissionSpec

(***************************************************************************)
(* create_run never admits a run over max_concurrent_runs, for any number  *)
(* of submissions, retries and deletions at once.                          *)
(***************************************************************************)
THEOREM RunLimit == AdmissionSpec => []RunLimitHolds
<1>1. AdmissionInv => RunLimitHolds
  BY DEF AdmissionInv
<1>2. QED  BY <1>1, AdmissionInvariance, PTL

------------------------------------------------------------------------------
(* Sums over finite sets *)

\* A nonempty set of finite subsets has a least one, of whose strict subsets
\* none is in it: induction on finite sets, without an operator for what is shown.
LEMMA LeastSet ==
  ASSUME NEW S, IsFiniteSet(S), NEW T, T \subseteq SUBSET S, T # {}
  PROVE  \E s \in T : \A u \in SUBSET s : u # s => u \notin T
<1>1. IsWellFoundedOn(StrictSubsetOrdering(S), SUBSET S)
  BY FS_StrictSubsetOrderingWellFounded, FS_FiniteSubsetsOfFinite
<1>2. PICK s \in T : \A u \in T : <<u, s>> \notin StrictSubsetOrdering(S)
  BY <1>1, WFMin
<1>3. ASSUME NEW u \in SUBSET s, u # s, u \in T PROVE FALSE
  <2>1. <<u, s>> \in StrictSubsetOrdering(S)
    BY <1>3 DEF StrictSubsetOrdering
  <2> QED
    BY <1>2, <1>3, <2>1
<1> QED
  BY <1>3

Picked(s) == CHOOSE x \in s : TRUE

\* The function by which the sum of w over S is computed.
IsSum(f, w, S) ==
  f = [s \in SUBSET S |-> IF s = {} THEN 0 ELSE w[Picked(s)] + f[s \ {Picked(s)}]]

SumsBelow(w, S) == CHOOSE f : IsSum(f, w, S)

LEMMA SumUnfolds ==
  ASSUME NEW w, NEW S
  PROVE  SumFunctionOnSet(w, S) = SumsBelow(w, S)[S]
  BY DEF SumFunctionOnSet, FoldFunctionOnSet, MapThenFoldSet, SumsBelow, IsSum, Picked

LEMMA PickedIsIn ==
  ASSUME NEW s, s # {}
  PROVE  Picked(s) \in s
  BY DEF Picked

\* On the subsets of U, the functions for S and for U agree.
LEMMA SumsAgree ==
  ASSUME NEW S, IsFiniteSet(S), NEW U \in SUBSET S, NEW w, NEW f, NEW g,
         IsSum(f, w, S), IsSum(g, w, U)
  PROVE  \A s \in SUBSET U : f[s] = g[s]
<1> DEFINE T == {s \in SUBSET U : f[s] # g[s]}
<1>1. IsFiniteSet(U)
  BY FS_Subset
<1>2. SUFFICES ASSUME T # {} PROVE FALSE
  OBVIOUS
<1>3. PICK s \in T : \A u \in SUBSET s : u # s => u \notin T
  <2>1. T \subseteq SUBSET U
    OBVIOUS
  <2> HIDE DEF T
  <2> QED
    BY <1>1, <1>2, <2>1, LeastSet
<1>4. /\ f[s] = IF s = {} THEN 0 ELSE w[Picked(s)] + f[s \ {Picked(s)}]
      /\ g[s] = IF s = {} THEN 0 ELSE w[Picked(s)] + g[s \ {Picked(s)}]
  <2>1. s \in SUBSET S /\ s \in SUBSET U
    OBVIOUS
  <2> QED
    BY <2>1 DEF IsSum
<1>5. s # {}
  BY <1>4
<1>6. s \ {Picked(s)} \notin T
  BY <1>3, <1>5, PickedIsIn
<1> QED
  BY <1>4, <1>5, <1>6

\* The function exists.
LEMMA SumsExist ==
  ASSUME NEW S, IsFiniteSet(S), NEW w
  PROVE  \A s \in SUBSET S : IsSum(SumsBelow(w, s), w, s)
<1> DEFINE T == {s \in SUBSET S : ~ IsSum(SumsBelow(w, s), w, s)}
<1>1. SUFFICES ASSUME T # {} PROVE FALSE
  OBVIOUS
<1>2. PICK s \in T : \A u \in SUBSET s : u # s => u \notin T
  <2>1. T \subseteq SUBSET S
    OBVIOUS
  <2> HIDE DEF T
  <2> QED
    BY <1>1, <2>1, LeastSet
<1> DEFINE rest(u) == u \ {Picked(u)}
           below(u) == SumsBelow(w, u)
           f == [u \in SUBSET s |-> IF u = {} THEN 0 ELSE w[Picked(u)] + below(rest(u))[rest(u)]]
<1>3. ASSUME NEW u \in SUBSET s, u # {}
      PROVE  f[rest(u)] = below(rest(u))[rest(u)]
  <2> DEFINE v == rest(u)
  <2>1. v \in SUBSET s /\ v # s /\ v \in SUBSET S
    BY <1>3, PickedIsIn
  <2>2. IsSum(below(v), w, v)
    BY <1>2, <2>1
  <2>3. below(v)[v] = IF v = {} THEN 0 ELSE w[Picked(v)] + below(v)[rest(v)]
    BY <2>2 DEF IsSum
  <2>4. CASE v = {}
    BY <2>1, <2>3, <2>4
  <2>5. CASE v # {}
    <3>1. rest(v) \in SUBSET v /\ rest(v) # s /\ rest(v) \in SUBSET s /\ rest(v) \in SUBSET S
      BY <2>1, <2>5, PickedIsIn
    <3>2. IsSum(below(rest(v)), w, rest(v))
      BY <1>2, <3>1
    <3>3. IsFiniteSet(v)
      BY <2>1, FS_Subset
    <3> HIDE DEF v, below, rest
    <3>4. below(v)[rest(v)] = below(rest(v))[rest(v)]
      BY <2>2, <3>1, <3>2, <3>3, SumsAgree
    <3>5. f[v] = w[Picked(v)] + below(rest(v))[rest(v)]
      BY <2>1, <2>5
    <3> QED
      BY <2>3, <2>5, <3>4, <3>5 DEF v
  <2> QED
    BY <2>4, <2>5
<1>4. IsSum(f, w, s)
  <2>1. f = [u \in SUBSET s |-> IF u = {} THEN 0 ELSE w[Picked(u)] + f[rest(u)]]
    <3> HIDE DEF rest, below
    <3> QED
      BY <1>3
  <2> HIDE DEF f
  <2> QED
    BY <2>1 DEF IsSum
<1>5. IsSum(SumsBelow(w, s), w, s)
  <2> HIDE DEF f
  <2> QED
  BY <1>4 DEF SumsBelow
<1> QED
  BY <1>5

\* The sum over nothing is 0, and otherwise the summand of the element picked
\* and the sum over the others.
LEMMA SumStep ==
  ASSUME NEW S, IsFiniteSet(S), NEW w
  PROVE  SumFunctionOnSet(w, S) =
           IF S = {} THEN 0 ELSE w[Picked(S)] + SumFunctionOnSet(w, S \ {Picked(S)})
<1> DEFINE rest == S \ {Picked(S)}
<1>1. IsSum(SumsBelow(w, S), w, S) /\ IsSum(SumsBelow(w, rest), w, rest)
  BY SumsExist
<1>2. SumsBelow(w, S)[S] = IF S = {} THEN 0 ELSE w[Picked(S)] + SumsBelow(w, S)[rest]
  BY <1>1 DEF IsSum
<1>3. SumsBelow(w, S)[rest] = SumsBelow(w, rest)[rest]
  BY <1>1, SumsAgree
<1> QED
  BY <1>2, <1>3, SumUnfolds

\* A sum of naturals is a natural.
LEMMA SumIsNat ==
  ASSUME NEW S, IsFiniteSet(S), NEW w, \A x \in S : w[x] \in Nat
  PROVE  \A s \in SUBSET S : SumFunctionOnSet(w, s) \in Nat
<1> DEFINE T == {s \in SUBSET S : SumFunctionOnSet(w, s) \notin Nat}
<1>1. SUFFICES ASSUME T # {} PROVE FALSE
  OBVIOUS
<1>2. PICK s \in T : \A u \in SUBSET s : u # s => u \notin T
  <2>1. T \subseteq SUBSET S
    OBVIOUS
  <2> HIDE DEF T
  <2> QED
    BY <1>1, <2>1, LeastSet
<1>3. IsFiniteSet(s)
  BY FS_Subset
<1>4. s # {}
  BY <1>3, SumStep
<1>5. Picked(s) \in S /\ SumFunctionOnSet(w, s \ {Picked(s)}) \in Nat
  BY <1>2, <1>4, PickedIsIn
<1>6. SumFunctionOnSet(w, s) = w[Picked(s)] + SumFunctionOnSet(w, s \ {Picked(s)})
  BY <1>3, <1>4, SumStep
<1>7. w[Picked(s)] \in Nat
  BY <1>5
<1> QED
  BY <1>5, <1>6, <1>7

\* Any element may be summed first.
LEMMA SumOfOneAndOthers ==
  ASSUME NEW S, IsFiniteSet(S), NEW w, \A x \in S : w[x] \in Nat
  PROVE  \A s \in SUBSET S : \A x \in s :
           SumFunctionOnSet(w, s) = w[x] + SumFunctionOnSet(w, s \ {x})
<1> DEFINE sum(s) == SumFunctionOnSet(w, s)
           T == {s \in SUBSET S : \E x \in s : sum(s) # w[x] + sum(s \ {x})}
<1>1. SUFFICES ASSUME T # {} PROVE FALSE
  OBVIOUS
<1>2. PICK s \in T : \A u \in SUBSET s : u # s => u \notin T
  <2>1. T \subseteq SUBSET S
    OBVIOUS
  <2> HIDE DEF T
  <2> QED
    BY <1>1, <2>1, LeastSet
<1>3. PICK x \in s : sum(s) # w[x] + sum(s \ {x})
  OBVIOUS
<1> DEFINE p == Picked(s)
           rest == s \ {x, p}
<1>4. p \in s /\ s \in SUBSET S /\ IsFiniteSet(s)
  BY PickedIsIn, FS_Subset
<1>5. sum(s) = w[p] + sum(s \ {p})
  BY <1>4, SumStep
<1>6. x # p
  BY <1>3, <1>5
<1>7. s \ {p} \notin T /\ s \ {x} \notin T
  BY <1>2, <1>4
<1>8. (s \ {p}) \ {x} = rest /\ (s \ {x}) \ {p} = rest
  OBVIOUS
<1>9. sum(s \ {p}) = w[x] + sum(rest) /\ sum(s \ {x}) = w[p] + sum(rest)
  <2>1. s \ {p} \in SUBSET S /\ x \in s \ {p} /\ s \ {x} \in SUBSET S /\ p \in s \ {x}
    BY <1>4, <1>6
  <2> HIDE DEF sum, p
  <2> QED
    BY <1>7, <1>8, <2>1
<1>10. w[x] \in Nat /\ w[p] \in Nat /\ sum(rest) \in Nat
  BY <1>4, SumIsNat
<1> HIDE DEF sum, p, rest
<1> QED
  BY <1>3, <1>5, <1>9, <1>10

------------------------------------------------------------------------------
(* The limit on vCPUs *)

\* Between the sum and the commit the sum can only fall, as the count can.
AdmittedHasVcpus ==
  \A q \in Request : pc[q] = "commit" => VcpuOf(ActiveRuns) + Sizes[q] <= MaxVcpu

VcpuInv == AdmittedHasVcpus /\ VcpuLimitHolds

LEMMA SizesAreNat ==
  ASSUME TypeOK
  PROVE  \A q \in Request : Sizes[q] \in Nat
  BY QuotaAssumption DEF TypeOK, Sizes

LEMMA VcpuOfIsNat ==
  ASSUME TypeOK
  PROVE  \A qs \in SUBSET Request : VcpuOf(qs) \in Nat
  BY SizesAreNat, SumIsNat, FiniteAssumption DEF VcpuOf

\* One run more or less is its vCPUs more or less.
LEMMA VcpuOfOneMore ==
  ASSUME TypeOK, NEW qs \in SUBSET Request, NEW q \in Request \ qs
  PROVE  VcpuOf(qs \cup {q}) = Sizes[q] + VcpuOf(qs)
<1>1. (qs \cup {q}) \ {q} = qs /\ qs \cup {q} \in SUBSET Request /\ q \in qs \cup {q}
  OBVIOUS
<1> QED
  BY <1>1, SizesAreNat, SumOfOneAndOthers, FiniteAssumption DEF VcpuOf

LEMMA RequestsStay == [AdmissionNext]_allVars => want' = want
<1>1. [Next]_vars => want' = want
  BY DEF Next, Finished, Step, LoadHit, LoadMiss, Reserve, ReserveRefused, Reload, Execute,
         Fail, Commit, Crash, vars
<1> QED
  BY <1>1, StepIsIdempotent DEF allVars

\* Steps that leave the runs alone and take nobody to the commit.
LEMMA QuietVcpuStep ==
  ASSUME VcpuInv, want' = want, run' = run,
         \A q \in Request : pc'[q] = "commit" => pc[q] = "commit"
  PROVE  VcpuInv'
<1>1. ActiveRuns' = ActiveRuns /\ Sizes' = Sizes
  BY DEF ActiveRuns, Sizes
<1>2. VcpuOf(ActiveRuns)' = VcpuOf(ActiveRuns)
  BY <1>1 DEF VcpuOf
<1> QED
  BY <1>1, <1>2 DEF VcpuInv, AdmittedHasVcpus, VcpuLimitHolds

LEMMA VcpuNextInv ==
  ASSUME VcpuInv, AdmissionInv, [AdmissionNext]_allVars
  PROVE  VcpuInv'
<1> DEFINE used == VcpuOf(ActiveRuns)
<1>1. TypeOK /\ AdmissionTypeOK /\ want' = want
  BY RequestsStay DEF AdmissionInv, AdmissionTypeOK
<1>2. Sizes' = Sizes /\ ActiveRuns \in SUBSET Request
  BY <1>1 DEF Sizes, ActiveRuns
<1>3. used \in Nat /\ \A q \in Request : Sizes[q] \in Nat
  BY <1>1, <1>2, VcpuOfIsNat, SizesAreNat
<1>4. CASE UNCHANGED allVars
  BY <1>1, <1>4, QuietVcpuStep DEF allVars, vars, envVars
<1> SUFFICES ASSUME AdmissionNext PROVE VcpuInv'
  BY <1>4
<1> USE DEF Goto
<1>5. ASSUME NEW q \in Request, Admit(q) PROVE VcpuInv'
  <2>1. ActiveRuns' = ActiveRuns /\ used + Sizes[q] <= MaxVcpu
    BY <1>5 DEF Admit, WithinQuota, envVars, ActiveRuns
  <2>2. VcpuOf(ActiveRuns)' = used
    BY <1>2, <2>1 DEF VcpuOf
  <2>3. ASSUME NEW p \in Request, pc'[p] = "commit" PROVE pc[p] = "commit" \/ p = q
    BY <1>1, <1>5, <2>3 DEF Admit, Execute, TypeOK
  <2> QED
    BY <1>2, <2>1, <2>2, <2>3 DEF VcpuInv, AdmittedHasVcpus, VcpuLimitHolds
<1>6. ASSUME NEW q \in Request, CommitRun(q) PROVE VcpuInv'
  <2>1. pc[q] = "commit" /\ lockedBy = q /\ used + Sizes[q] <= MaxVcpu
    BY <1>6 DEF CommitRun, Commit, AdmissionInv, AdmittedHasRoom, VcpuInv, AdmittedHasVcpus
  <2>2. \A p \in Request : pc'[p] # "commit"
    BY <1>1, <1>6, <2>1 DEF CommitRun, Commit, AdmissionInv, TypeOK, AdmittedHasRoom
  <2>3. ActiveRuns' = ActiveRuns \cup {q}
    BY <1>1, <1>6 DEF CommitRun, ActiveRuns, AdmissionTypeOK
  <2>4. VcpuOf(ActiveRuns)' = VcpuOf(ActiveRuns \cup {q})
    BY <1>2, <2>3 DEF VcpuOf
  <2>5. VcpuOf(ActiveRuns \cup {q}) <= MaxVcpu
    <3>1. CASE q \in ActiveRuns
      <4>1. ActiveRuns \cup {q} = ActiveRuns
        BY <3>1
      <4> QED
        BY <4>1 DEF VcpuInv, VcpuLimitHolds
    <3>2. CASE q \notin ActiveRuns
      <4>1. VcpuOf(ActiveRuns \cup {q}) = Sizes[q] + used
        BY <1>1, <1>2, <3>2, VcpuOfOneMore
      <4> QED
        BY <1>3, <2>1, <4>1
    <3> QED
      BY <3>1, <3>2
  <2> QED
    BY <2>2, <2>4, <2>5 DEF VcpuInv, AdmittedHasVcpus, VcpuLimitHolds
<1>7. ASSUME NEW q \in Request, EndRun(q) PROVE VcpuInv'
  <2>1. q \in ActiveRuns /\ ActiveRuns' = ActiveRuns \ {q} /\ pc' = pc
    BY <1>1, <1>7 DEF EndRun, ActiveRuns, AdmissionTypeOK, vars
  <2>2. VcpuOf(ActiveRuns)' = VcpuOf(ActiveRuns \ {q})
    BY <1>2, <2>1 DEF VcpuOf
  <2>3. used = Sizes[q] + VcpuOf(ActiveRuns \ {q})
    <3>1. (ActiveRuns \ {q}) \cup {q} = ActiveRuns
      BY <2>1
    <3> QED
      BY <1>1, <1>2, <3>1, VcpuOfOneMore
  <2>4. VcpuOf(ActiveRuns \ {q}) \in Nat
    BY <1>1, <1>2, VcpuOfIsNat
  <2> HIDE DEF used
  <2>5. VcpuOf(ActiveRuns)' <= used
    BY <1>3, <2>2, <2>3, <2>4
  <2>6. VcpuOf(ActiveRuns)' \in Nat
    BY <2>2, <2>4
  <2>7. used <= MaxVcpu /\ \A p \in Request : pc[p] = "commit" => used + Sizes[p] <= MaxVcpu
    BY DEF VcpuInv, AdmittedHasVcpus, VcpuLimitHolds, used
  <2>8. /\ VcpuOf(ActiveRuns)' <= MaxVcpu
        /\ \A p \in Request : pc[p] = "commit" => VcpuOf(ActiveRuns)' + Sizes[p] <= MaxVcpu
    BY <1>3, <2>5, <2>6, <2>7, QuotaAssumption
  <2> QED
    BY <1>2, <2>1, <2>8 DEF VcpuInv, AdmittedHasVcpus, VcpuLimitHolds
<1>8. ASSUME NEW q \in Request,
             Arrive(q) \/ AroundExecute(q) \/ LockEnvironment(q) \/ Refuse(q) \/ Die(q)
      PROVE  VcpuInv'
  <2>1. run' = run
    BY <1>8 DEF Arrive, AroundExecute, LockEnvironment, Refuse, Die, envVars
  <2>2. ASSUME NEW p \in Request, pc'[p] = "commit" PROVE pc[p] = "commit"
    BY <1>1, <1>8, <2>2
    DEF Arrive, AroundExecute, LoadHit, LoadMiss, Reserve, ReserveRefused, Reload,
        LockEnvironment, Refuse, Fail, Die, Crash, vars, TypeOK
  <2> QED
    BY <1>1, <2>1, <2>2, QuietVcpuStep
<1>9. ASSUME NEW x \in Editor, EditorStep(x) PROVE VcpuInv'
  BY <1>1, <1>9, QuietVcpuStep
  DEF EditorStep, ReadEnvironment, CheckRuns, CheckOperations, RetryWrite, DeleteWrite, vars
<1>10. ASSUME NEW o \in Op, LoadForOperation(o) \/ EndOperation(o) PROVE VcpuInv'
  BY <1>1, <1>10, QuietVcpuStep DEF LoadForOperation, EndOperation, vars
<1>11. CASE Quiet
  BY <1>1, <1>11, QuietVcpuStep DEF Quiet, allVars, vars, envVars
<1> QED
  BY <1>5, <1>6, <1>7, <1>8, <1>9, <1>10, <1>11 DEF AdmissionNext, SubmissionStep

LEMMA VcpuInitInv == AdmissionInit => VcpuInv
<1> SUFFICES ASSUME AdmissionInit PROVE VcpuInv
  OBVIOUS
<1>1. ActiveRuns = {}
  BY DEF AdmissionInit, ActiveRuns
<1>2. VcpuOf({}) = 0
  BY FS_EmptySet, SumStep DEF VcpuOf
<1> QED
  BY <1>1, <1>2, QuotaAssumption
  DEF AdmissionInit, Init, VcpuInv, AdmittedHasVcpus, VcpuLimitHolds

(***************************************************************************)
(* create_run never admits runs that ask together for more than max_vcpu,  *)
(* whatever their sizes and the order in which they come and end.          *)
(***************************************************************************)
THEOREM VcpuLimit == AdmissionSpec => []VcpuLimitHolds
<1>1. VcpuInv => VcpuLimitHolds
  BY DEF VcpuInv
<1>2. QED
  BY <1>1, VcpuInitInv, VcpuNextInv, AdmissionInvariance, PTL DEF AdmissionSpec

------------------------------------------------------------------------------
(* Provisioning *)

\* Of an environment in provisioning some operation is under way whose session
\* does not hold another status: when it ends, its assignment is not lost.
SomeoneWillEndIt ==
  status = "provisioning" =>
    \E o \in Op : op[o] = "active" /\ seen[o] \in {"unread", "provisioning"}

LEMMA EndIsWritten ==
  ASSUME AdmissionTypeOK, SomeoneWillEndIt, [AdmissionNext]_allVars
  PROVE  SomeoneWillEndIt'
<1>1. seen \in [Session -> Status \cup {"unread"}] /\ Op \subseteq Session
  BY DEF AdmissionTypeOK, Session
<1>2. ASSUME UNCHANGED <<status, op>>,
             seen' = seen \/ \E x \in Session : seen' = [seen EXCEPT ![x] = status]
      PROVE  SomeoneWillEndIt'
  BY <1>1, <1>2 DEF SomeoneWillEndIt
<1>3. ASSUME NEW x \in Editor, RetryWrite(x) PROVE SomeoneWillEndIt'
  <2>1. x \in Op /\ op' = [op EXCEPT ![x] = "active"] /\ seen' = [seen EXCEPT ![x] = "unread"]
    BY <1>3 DEF RetryWrite, Op
  <2>2. op'[x] = "active" /\ seen'[x] = "unread"
    BY <1>1, <2>1 DEF AdmissionTypeOK
  <2> QED
    BY <2>1, <2>2 DEF SomeoneWillEndIt
<1>4. ASSUME NEW x \in Editor, DeleteWrite(x) PROVE SomeoneWillEndIt'
  BY <1>4 DEF DeleteWrite, Assign, SomeoneWillEndIt
<1>5. ASSUME NEW o \in Op, EndOperation(o) PROVE SomeoneWillEndIt'
  <2>1. PICK v \in {"ready", "failed"} : Assign(o, v)
    BY <1>5 DEF EndOperation
  <2>2. seen' = seen /\ \A p \in Op \ {o} : op'[p] = op[p]
    BY <1>5 DEF EndOperation, AdmissionTypeOK
  <2>3. CASE seen[o] = "provisioning"
    BY <2>1, <2>3 DEF Assign, SomeoneWillEndIt
  <2>4. CASE seen[o] # "provisioning"
    <3>1. seen[o] # "unread"
      BY <1>5 DEF EndOperation
    <3>2. status' = status \/ status' = v
      BY <2>1 DEF Assign
    <3> QED
      BY <2>2, <2>4, <3>1, <3>2 DEF SomeoneWillEndIt
  <2> QED
    BY <2>3, <2>4
<1>6. ASSUME NEW q \in Request, SubmissionStep(q) \/ Die(q) \/ EndRun(q)
      PROVE  SomeoneWillEndIt'
  BY <1>2, <1>6 DEF SubmissionStep, Die, EndRun, Arrive, AroundExecute, LockEnvironment,
                    Admit, CommitRun, Refuse, envVars, Session
<1>7. ASSUME NEW x \in Editor,
             ReadEnvironment(x) \/ CheckRuns(x) \/ CheckOperations(x)
      PROVE  SomeoneWillEndIt'
  BY <1>2, <1>7 DEF ReadEnvironment, CheckRuns, CheckOperations, Session
<1>8. ASSUME NEW o \in Op, LoadForOperation(o) PROVE SomeoneWillEndIt'
  BY <1>1, <1>2, <1>8 DEF LoadForOperation
<1>9. CASE UNCHANGED allVars
  BY <1>2, <1>9 DEF allVars, envVars
<1> QED
  BY <1>3, <1>4, <1>5, <1>6, <1>7, <1>8, <1>9 DEF AdmissionNext, EditorStep, Quiet

(***************************************************************************)
(* An environment in provisioning has an operation under way, through any  *)
(* number of retries and deletions that overlap, and however old the       *)
(* status that an operation has loaded when it ends.                       *)
(***************************************************************************)
THEOREM ProvisioningIsUnderWay == AdmissionSpec => []ProvisioningHasAnOperation
<1>1. AdmissionInit => SomeoneWillEndIt
  BY DEF AdmissionInit, SomeoneWillEndIt, Op, Session
<1>2. AdmissionInv => AdmissionTypeOK
  BY DEF AdmissionInv
<1>3. SomeoneWillEndIt => ProvisioningHasAnOperation
  BY DEF SomeoneWillEndIt, ProvisioningHasAnOperation, ActiveOps
<1>4. QED
  BY <1>1, <1>2, <1>3, EndIsWritten, AdmissionInvariance, PTL DEF AdmissionSpec
=============================================================================
