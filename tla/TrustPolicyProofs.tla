-------------------------- MODULE TrustPolicyProofs --------------------------
(* What an update does to the policy, for all environments and policies.   *)
EXTENDS TrustPolicy, TLAPS

-----------------------------------------------------------------------------
(* The merge.                                                              *)

\* A policy stays a set of statements.
LEMMA MergeType ==
  ASSUME NEW p \in SUBSET Statement, NEW e \in Environment
  PROVE  Merge(p, e) \in SUBSET Statement
<1>1. ASSUME NEW pr \in Provider, NEW subs \in SUBSET Sub
      PROVE  StatementFor(pr, subs) \in Statement
  BY <1>1 DEF StatementFor, Statement
<1>2. {PatternOf[e]} \in SUBSET Sub /\ ProviderOf[e] \in Provider
  BY EnvironmentAssumption
<1>3. Added(p, e) \in SUBSET Statement
  BY <1>1, <1>2 DEF Added
<1>4. ASSUME NEW q \in SUBSET Statement PROVE Consolidated(q) \in SUBSET Statement
  <2>1. ASSUME NEW st \in q
        PROVE  StatementFor(st.provider, ManagedSubs(q, st.provider)) \in Statement
    <3>1. st.provider \in Provider
      BY DEF Statement
    <3>2. \A s \in q : s.subs \subseteq Sub
      BY DEF Statement
    <3>3. ManagedSubs(q, st.provider) \in SUBSET Sub
      BY <3>2 DEF ManagedSubs
    <3> QED
      BY <3>1, <3>3, <1>1
  <2> QED
    BY <2>1 DEF Consolidated
<1> QED
  BY <1>3, <1>4 DEF Merge

\* A managed statement lives on in its provider's: same provider, all of its
\* subjects, under StringLike.
LEMMA ConsolidatedHolds ==
  ASSUME NEW p, NEW st \in p, Managed(st)
  PROVE  \E t \in Consolidated(p) :
           t.web /\ t.op = "like" /\ t.provider = st.provider
           /\ st.subs \subseteq t.subs
<1> DEFINE t == StatementFor(st.provider, ManagedSubs(p, st.provider))
<1>1. t \in Consolidated(p)
  BY DEF Consolidated
<1>2. st.subs \subseteq ManagedSubs(p, st.provider)
  BY DEF ManagedSubs
<1>3. /\ t.web /\ t.op = "like" /\ t.provider = st.provider
      /\ t.subs = ManagedSubs(p, st.provider)
  BY DEF StatementFor
<1> QED
  BY <1>1, <1>2, <1>3

\* The check finds what the merge has put there.
LEMMA MergeTrusts ==
  ASSUME NEW p \in SUBSET Statement, NEW e \in Environment
  PROVE  Trusts(Merge(p, e), e)
<1>1. \E st \in Added(p, e) : Names(st, e)
  <2>1. Names(StatementFor(ProviderOf[e], {PatternOf[e]}), e)
    BY DEF Names, StatementFor
  <2> QED
    BY <2>1 DEF Added
<1>2. PICK st \in Added(p, e) : Names(st, e)
  BY <1>1
<1>3. PatternOf[e] \in EmrSub
  BY EnvironmentAssumption
<1>4. Managed(st)
  BY <1>2, <1>3 DEF Names, Managed
<1>5. PICK t \in Merge(p, e) : t.web /\ t.op = "like"
         /\ t.provider = st.provider /\ st.subs \subseteq t.subs
  BY <1>4, ConsolidatedHolds DEF Merge
<1> QED
  BY <1>2, <1>5 DEF Trusts, Names

\* Nothing that the policy let in is shut out, and the customer's own
\* statements are untouched.
LEMMA MergeKeeps ==
  ASSUME NEW p \in SUBSET Statement, NEW e \in Environment
  PROVE  Grants(p) \subseteq Grants(Merge(p, e)) /\ Foreign(p) \subseteq Merge(p, e)
<1>1. p \subseteq Added(p, e)
  BY DEF Added
<1>2. Foreign(p) \subseteq Merge(p, e)
  BY <1>1 DEF Foreign, Merge, Consolidated
<1>3. ASSUME NEW ps \in Grants(p) PROVE ps \in Grants(Merge(p, e))
  <2>1. PICK st \in p : st.web /\ st.provider = ps[1] /\ ps[2] \in st.subs
    BY DEF Grants
  <2>2. CASE Managed(st)
    <3>1. PICK t \in Merge(p, e) : t.web /\ t.provider = st.provider
                                     /\ st.subs \subseteq t.subs
      BY <1>1, <2>2, ConsolidatedHolds DEF Merge
    <3> QED
      BY <2>1, <3>1 DEF Grants
  <2>3. CASE ~Managed(st)
    BY <1>2, <2>1, <2>3 DEF Grants, Foreign
  <2> QED
    BY <2>2, <2>3
<1> QED
  BY <1>2, <1>3

\* One statement to a provider.
LEMMA MergeTidy ==
  ASSUME NEW p, NEW e PROVE Tidy(Merge(p, e))
<1> DEFINE q == Added(p, e)
<1>1. ASSUME NEW t \in Consolidated(q), Managed(t)
      PROVE  t = StatementFor(t.provider, ManagedSubs(q, t.provider))
  <2>1. PICK st \in q : t = StatementFor(st.provider, ManagedSubs(q, st.provider))
    BY <1>1 DEF Consolidated
  <2>2. t.provider = st.provider
    BY <2>1 DEF StatementFor
  <2> QED
    BY <2>1, <2>2
<1> QED
  BY <1>1 DEF Tidy, Merge

-----------------------------------------------------------------------------
(* The callers.                                                            *)

\* A copy holds its environment's statement and is tidy, and it is the merge
\* of the present policy as long as nobody has written since it was read.
CopiesAreMerges ==
  \A a \in Actor : at[a] = "writing" =>
    /\ Trusts(draft[a], For[a])
    /\ Tidy(draft[a])
    /\ a \notin overtaken => draft[a] = Merge(policy, For[a])

TrustInv == TrustTypeOK /\ CopiesAreMerges /\ UpdateSuffices

LEMMA InitTrust == Init => TrustInv
BY PolicyAssumption, BoundAssumption
DEF Init, TrustInv, TrustTypeOK, CopiesAreMerges, UpdateSuffices

\* A caller that only moves, and neither to its write nor to its second check.
LEMMA MoveKeeps ==
  ASSUME TrustInv, NEW a \in Actor, NEW to \in {"idle", "checking", "updating"},
         Move(a, to), at[a] # "writing" \/ draft' = [draft EXCEPT ![a] = {}],
         at[a] = "writing" \/ draft' = draft \/ draft' = [draft EXCEPT ![a] = {}],
         policy' = policy, overtaken' = overtaken \ {a},
         passes' \in 0..MaxPasses, edits' \in 0..MaxEdits, faults' \in 0..MaxFaults
  PROVE  TrustInv'
<1> USE DEF TrustInv, Move
<1>1. at' = [at EXCEPT ![a] = to] /\ draft' \in [Actor -> SUBSET Statement]
  BY DEF TrustTypeOK
<1>2. \A b \in Actor : at'[b] = (IF b = a THEN to ELSE at[b])
  BY DEF TrustTypeOK
<1>3. \A b \in Actor \ {a} : draft'[b] = draft[b]
  BY DEF TrustTypeOK
<1>4. draft'[a] = {}
  BY DEF TrustTypeOK
<1>5. at' \in [Actor -> {"idle", "checking", "updating", "writing", "rechecking"}]
  BY DEF TrustTypeOK
<1>6. TrustTypeOK'
  BY <1>1, <1>2, <1>3, <1>4, <1>5 DEF TrustTypeOK, Readers
<1>7. CopiesAreMerges'
  BY <1>2, <1>3 DEF CopiesAreMerges
<1>8. UpdateSuffices'
  BY <1>2 DEF UpdateSuffices
<1> QED
  BY <1>6, <1>7, <1>8

LEMMA ReadKeeps ==
  ASSUME TrustInv, NEW a \in Actor, Read(a)
  PROVE  TrustInv'
<1> USE DEF TrustInv, Read, Move
<1>1. For[a] \in Environment /\ policy \in SUBSET Statement
  BY ActorAssumption DEF TrustTypeOK
<1>2. \A b \in Actor : at'[b] = (IF b = a THEN "writing" ELSE at[b])
  BY DEF TrustTypeOK
<1>3. \A b \in Actor : draft'[b] = (IF b = a THEN Merge(policy, For[a]) ELSE draft[b])
  BY DEF TrustTypeOK
<1>4. Merge(policy, For[a]) \in SUBSET Statement
  BY <1>1, MergeType
<1>5. draft' \in [Actor -> SUBSET Statement]
  BY <1>4 DEF TrustTypeOK
<1>6. at' \in [Actor -> {"idle", "checking", "updating", "writing", "rechecking"}]
  BY DEF TrustTypeOK
<1>7. TrustTypeOK'
  BY <1>2, <1>3, <1>5, <1>6 DEF TrustTypeOK, Readers
<1>8. Trusts(Merge(policy, For[a]), For[a]) /\ Tidy(Merge(policy, For[a]))
  BY <1>1, MergeTrusts, MergeTidy
<1>9. CopiesAreMerges'
  BY <1>2, <1>3, <1>8 DEF CopiesAreMerges
<1>10. UpdateSuffices'
  BY <1>2 DEF UpdateSuffices
<1> QED
  BY <1>7, <1>9, <1>10

LEMMA WriteKeeps ==
  ASSUME TrustInv, NEW a \in Actor, Write(a)
  PROVE  TrustInv'
<1> USE DEF TrustInv, Write, Move
<1> DEFINE to == IF a \in Preflight THEN "rechecking" ELSE "idle"
<1>1. \A b \in Actor : at'[b] = (IF b = a THEN to ELSE at[b])
  BY DEF TrustTypeOK
<1>2. \A b \in Actor : draft'[b] = (IF b = a THEN {} ELSE draft[b])
  BY DEF TrustTypeOK
<1>3. draft' \in [Actor -> SUBSET Statement] /\ policy' \in SUBSET Statement
  BY DEF TrustTypeOK
<1>4. at' \in [Actor -> {"idle", "checking", "updating", "writing", "rechecking"}]
  BY DEF TrustTypeOK
<1>5. \A b \in Actor \ {a} : at[b] \in {"writing", "rechecking"} => b \in overtaken'
  BY DEF Readers
<1>6. overtaken' \subseteq Readers'
  BY <1>1 DEF TrustTypeOK, Readers
<1>7. TrustTypeOK'
  BY <1>1, <1>2, <1>3, <1>4, <1>6 DEF TrustTypeOK
<1>8. CopiesAreMerges'
  BY <1>1, <1>2, <1>5 DEF CopiesAreMerges
<1>9. Trusts(policy', For[a])
  BY DEF CopiesAreMerges
<1>10. UpdateSuffices'
  BY <1>1, <1>5, <1>9 DEF UpdateSuffices
<1> QED
  BY <1>7, <1>8, <1>10

LEMMA EditKeeps ==
  ASSUME TrustInv, CustomerEdits
  PROVE  TrustInv'
<1> USE DEF TrustInv, CustomerEdits
<1>1. TrustTypeOK'
  BY PolicyAssumption, BoundAssumption DEF TrustTypeOK, Readers
<1>2. CopiesAreMerges' /\ UpdateSuffices'
  BY DEF CopiesAreMerges, UpdateSuffices, Readers
<1> QED
  BY <1>1, <1>2

LEMMA StepKeeps == TrustInv /\ [Next]_vars => TrustInv'
<1> SUFFICES ASSUME TrustInv, [Next]_vars PROVE TrustInv'
  OBVIOUS
<1>1. ASSUME NEW a \in Actor, Begin(a) \/ Check(a) \/ Provision(a) \/ Recheck(a)
                                \/ CheckRefused(a) \/ GiveUp(a)
      PROVE  TrustInv'
  <2>1. \/ at[a] \notin {"writing", "rechecking"} /\ a \notin overtaken
        \/ Recheck(a) \/ GiveUp(a)
    BY <1>1 DEF TrustInv, TrustTypeOK, Readers, Begin, Check, Provision, CheckRefused
  <2>2. overtaken' = overtaken \ {a} /\ policy' = policy
    BY <1>1, <2>1 DEF Begin, Check, Provision, CheckRefused, Recheck, GiveUp
  <2>3. \E to \in {"idle", "checking", "updating"} : Move(a, to)
    BY <1>1 DEF Begin, Check, Provision, CheckRefused, Recheck, GiveUp
  <2>4. draft' = [draft EXCEPT ![a] = {}] \/ (draft' = draft /\ at[a] # "writing")
    BY <1>1 DEF Begin, Check, Provision, CheckRefused, Recheck, GiveUp
  <2>5. passes' \in 0..MaxPasses /\ edits' \in 0..MaxEdits /\ faults' \in 0..MaxFaults
    BY <1>1, BoundAssumption DEF TrustInv, TrustTypeOK,
       Begin, Check, Provision, CheckRefused, Recheck, GiveUp
  <2> QED
    BY <2>2, <2>3, <2>4, <2>5, MoveKeeps
<1>2. CASE UNCHANGED vars
  BY <1>2 DEF vars, TrustInv, TrustTypeOK, CopiesAreMerges, UpdateSuffices, Readers
<1> QED
  BY <1>1, <1>2, ReadKeeps, WriteKeeps, EditKeeps DEF Next, Step

LEMMA TrustInvariance == TrustSpec => []TrustInv
BY InitTrust, StepKeeps, PTL DEF TrustSpec

(* The variables have their types, and only a caller about to write holds  *)
(* a copy of the policy.                                                   *)
THEOREM TrustTypeCorrect == TrustSpec => []TrustTypeOK
<1>1. TrustInv => TrustTypeOK
  BY DEF TrustInv
<1> QED
  BY <1>1, TrustInvariance, PTL

(* An update is enough for the check that follows it: a preflight that has *)
(* written finds its statement unless somebody wrote after it.             *)
THEOREM UpdatesSuffice == TrustSpec => []UpdateSuffices
<1>1. TrustInv => UpdateSuffices
  BY DEF TrustInv
<1> QED
  BY <1>1, TrustInvariance, PTL

(* An update that nobody wrote during takes away no grant and no statement *)
(* of the customer's.                                                      *)
THEOREM UpdatesTakeNothingAway == TrustSpec => UpdatesOnlyAdd
<1>1. ASSUME TrustInv, Next, NEW a \in Actor \ overtaken, at[a] = "writing",
             policy' # policy, at'[a] # "writing"
      PROVE  Grants(policy) \subseteq Grants(policy') /\ Foreign(policy) \subseteq policy'
  <2>1. PICK b \in Actor : Write(b)
    BY <1>1 DEF Next, Step, Begin, Check, CheckRefused, Provision, Read, Recheck,
                GiveUp, CustomerEdits
  <2>2. b = a
    BY <1>1, <2>1 DEF Write, Move, TrustInv, TrustTypeOK
  <2>3. policy' = Merge(policy, For[a])
    BY <1>1, <2>1, <2>2 DEF Write, TrustInv, CopiesAreMerges
  <2>4. For[a] \in Environment /\ policy \in SUBSET Statement
    BY <1>1, ActorAssumption DEF TrustInv, TrustTypeOK
  <2> QED
    BY <2>3, <2>4, MergeKeeps
<1>2. TrustInv /\ [Next]_vars =>
        [\A a \in Actor \ overtaken : at[a] = "writing" /\ policy' # policy
            /\ at'[a] # "writing"
              => Grants(policy) \subseteq Grants(policy')
                 /\ Foreign(policy) \subseteq policy']_vars
  BY <1>1 DEF vars
<1> QED
  BY <1>2, TrustInvariance, PTL DEF TrustSpec, UpdatesOnlyAdd

(* Whatever SparkPilot writes has one statement of its own to a provider.  *)
THEOREM UpdatesStayTidy == TrustSpec => UpdatesAreTidy
<1>1. ASSUME TrustInv, Next, policy' # policy, edits' = edits
      PROVE  Tidy(policy')
  <2>1. PICK b \in Actor : Write(b)
    BY <1>1 DEF Next, Step, Begin, Check, CheckRefused, Provision, Read, Recheck,
                GiveUp, CustomerEdits, TrustInv, TrustTypeOK
  <2> QED
    BY <1>1, <2>1 DEF Write, TrustInv, CopiesAreMerges
<1>2. TrustInv /\ [Next]_vars =>
        [policy' # policy /\ edits' = edits => Tidy(policy')]_vars
  BY <1>1 DEF vars
<1> QED
  BY <1>2, TrustInvariance, PTL DEF TrustSpec, UpdatesAreTidy
=============================================================================
