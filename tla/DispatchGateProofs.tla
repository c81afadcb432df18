-------------------------- MODULE DispatchGateProofs --------------------------
(***************************************************************************)
(* For any number of runs, schedulers, provisioning attempts, policies and *)
(* releases: a ready environment has its own virtual cluster, a cost that  *)
(* is known is final, a preflight passes on exactly the facts that the     *)
(* history goes by, and with that, what the gate lets through or fails is  *)
(* what AWS and the tables said within the TTL.                            *)
(***************************************************************************)
EXTENDS DispatchGate, FiniteSetTheorems, SequenceTheorems, WellFoundedInduction,
        TLAPS

USE CostAssumption, GateAssumption

------------------------------------------------------------------------------
(* The environment's virtual cluster *)

\* Between the creation and the commit the namespace is the attempt's, and an
\* environment in provisioning is not ready.
ClusterInv ==
  /\ attempt \in Nat \ {0}
  /\ prov = "commit" => occupant = attempt
  /\ prov # "idle" => status # "ready"
  /\ status = "ready" => cluster = attempt /\ occupant = attempt

\* The provisioner alone makes and takes clusters.
LEMMA ProvisionerCluster ==
  ASSUME ClusterInv, ProvisionerStep
  PROVE  ClusterInv'
<1> USE DEF ClusterInv, ProvisioningFails
<1>1. CASE LiteValidate
  BY <1>1 DEF LiteValidate
<1>2. CASE LiteUpdateTrust
  BY <1>2 DEF LiteUpdateTrust
<1>3. CASE LiteLook
  BY <1>3 DEF LiteLook
<1>4. CASE LiteCreate
  BY <1>4 DEF LiteCreate
<1>5. CASE LiteCommit
  BY <1>5 DEF LiteCommit
<1>6. CASE LiteRestart
  BY <1>6 DEF LiteRestart
<1> QED
  BY <1>1, <1>2, <1>3, <1>4, <1>5, <1>6 DEF ProvisionerStep

\* A deletion leaves no environment ready, and a stranger takes only a
\* namespace that is free.
LEMMA OthersCluster ==
  ASSUME ClusterInv, RequestStep \/ OutsideStep
  PROVE  ClusterInv'
<1> USE DEF ClusterInv
<1>1. CASE DeleteLooks
  BY <1>1 DEF DeleteLooks
<1>2. CASE DeleteWrites
  BY <1>2 DEF DeleteWrites
<1>3. CASE StrangerComes
  BY <1>3 DEF StrangerComes, Nobody
<1>4. ASSUME UNCHANGED rowVars PROVE ClusterInv'
  BY <1>4 DEF rowVars
<1>5. CASE \E r \in Run : Submit(r)
  BY <1>4, <1>5 DEF Submit
<1>6. CASE \E f \in Drift : FactChanges(f)
  BY <1>4, <1>6 DEF FactChanges
<1>7. CASE \E v \in Release : Publish(v)
  BY <1>4, <1>7 DEF Publish
<1>8. CASE SyncReleases
  BY <1>4, <1>8 DEF SyncReleases
<1>9. CASE \E p \in Policy : CreatePolicy(p) \/ DeletePolicy(p)
  BY <1>4, <1>9 DEF CreatePolicy, DeletePolicy
<1> QED
  BY <1>1, <1>2, <1>3, <1>5, <1>6, <1>7, <1>8, <1>9 DEF RequestStep, OutsideStep

\* Schedulers, the ends of runs, time and the ledger leave the row alone.
LEMMA SchedulerKeepsRow ==
  ASSUME NEW s \in Scheduler, SchedulerStep(s) \/ SchedulerCrash(s)
  PROVE  UNCHANGED rowVars
<1>1. CASE LookHit(s)
  BY <1>1 DEF LookHit
<1>2. CASE LookMiss(s)
  BY <1>2 DEF LookMiss
<1>3. CASE BuildEnds(s)
  BY <1>3 DEF BuildEnds
<1>4. CASE PassEnds(s)
  BY <1>4 DEF PassEnds
<1>5. CASE Begin(s)
  BY <1>5 DEF Begin
<1>6. CASE SchedulerCrash(s)
  BY <1>6 DEF SchedulerCrash
<1> QED
  BY <1>1, <1>2, <1>3, <1>4, <1>5, <1>6 DEF SchedulerStep

LEMMA ClusterStep == ClusterInv /\ [Next]_vars => ClusterInv'
<1> SUFFICES ASSUME ClusterInv, [Next]_vars PROVE ClusterInv'
  OBVIOUS
<1>1. ASSUME UNCHANGED rowVars PROVE ClusterInv'
  BY <1>1 DEF ClusterInv, rowVars
<1>2. CASE ProvisionerStep
  BY <1>2, ProvisionerCluster
<1>3. CASE RequestStep \/ OutsideStep
  BY <1>3, OthersCluster
<1>4. CASE \E s \in Scheduler : SchedulerStep(s) \/ SchedulerCrash(s)
  BY <1>1, <1>4, SchedulerKeepsRow
<1>5. CASE \E r \in Run : RunEnds(r)
  BY <1>1, <1>5 DEF RunEnds
<1>6. CASE LedgerStep /\ UNCHANGED gateVars
  BY <1>1, <1>6 DEF gateVars
<1>7. CASE Tick
  BY <1>1, <1>7 DEF Tick
<1>8. CASE UNCHANGED vars
  BY <1>1, <1>8 DEF vars, gateVars
<1> QED
  BY <1>2, <1>3, <1>4, <1>5, <1>6, <1>7, <1>8 DEF Next, Step

\* A ready environment's column names a virtual cluster that its own last
\* provisioning attempt made and that has the namespace in AWS
\* (_run_byoc_lite_provisioning), however attempts die, fail, and are retried,
\* whatever somebody else makes in the namespace, and whenever a deletion runs.
THEOREM ReadyClusterIsItsOwn == Spec => []ReadyMeansItsOwnCluster
<1>1. GateInit => ClusterInv
  BY DEF GateInit, ClusterInv
<1>2. ClusterInv /\ [Next]_vars => ClusterInv'
  BY ClusterStep
<1>3. ClusterInv => ReadyMeansItsOwnCluster
  BY DEF ClusterInv, ReadyMeansItsOwnCluster
<1> QED
  BY <1>1, <1>2, <1>3, PTL DEF Spec

------------------------------------------------------------------------------
(* The ledger *)

\* A running query found nothing about an allocation that is settled.
QueryInv == \A found \in query : DOMAIN found \cap DOMAIN actual = {}

Settled == \A r \in DOMAIN actual : r \in DOMAIN actual' /\ actual'[r] = actual[r]

LEMMA OldestAreOfTheSet == ASSUME NEW rs PROVE Oldest(rs) \subseteq rs
  BY DEF Oldest

LEMMA LedgerKeeps ==
  ASSUME QueryInv, LedgerStep
  PROVE  QueryInv' /\ Settled
<1> USE DEF QueryInv, Settled
<1>1. CASE \E r \in Run : BillArrives(r)
  BY <1>1 DEF BillArrives
<1>2. CASE NewMonth
  BY <1>2 DEF NewMonth
<1>3. CASE StartQuery
  <2>1. Oldest(Pending) \cap DOMAIN actual = {}
    BY OldestAreOfTheSet DEF Pending
  <2> QED
    BY <1>3, <2>1 DEF StartQuery
<1>4. CASE ApplyCosts
  <2>1. PICK found \in query :
          actual' = [r \in DOMAIN found \cup DOMAIN actual |->
                       IF r \in DOMAIN found THEN found[r] ELSE actual[r]]
    BY <1>4 DEF ApplyCosts
  <2>2. DOMAIN found \cap DOMAIN actual = {}
    OBVIOUS
  <2> QED
    BY <1>4, <2>1, <2>2 DEF ApplyCosts
<1>5. CASE QueryFails
  BY <1>5 DEF QueryFails
<1> QED
  BY <1>1, <1>2, <1>3, <1>4, <1>5 DEF LedgerStep

LEMMA OthersKeepLedger ==
  ASSUME \/ ProvisionerStep \/ RequestStep \/ OutsideStep \/ Tick
         \/ \E s \in Scheduler : SchedulerStep(s) \/ SchedulerCrash(s)
  PROVE  UNCHANGED ledgerVars
<1>1. CASE ProvisionerStep
  BY <1>1 DEF ProvisionerStep, LiteValidate, LiteUpdateTrust, LiteLook, LiteCreate,
     LiteCommit, LiteRestart
<1>2. CASE RequestStep
  BY <1>2 DEF RequestStep, DeleteLooks, DeleteWrites, Submit
<1>3. CASE OutsideStep
  BY <1>3 DEF OutsideStep, FactChanges, StrangerComes, Publish, SyncReleases,
     CreatePolicy, DeletePolicy
<1>4. CASE \E s \in Scheduler : SchedulerStep(s)
  BY <1>4 DEF SchedulerStep, LookHit, LookMiss, BuildEnds, PassEnds, Begin
<1>5. CASE \E s \in Scheduler : SchedulerCrash(s)
  BY <1>5 DEF SchedulerCrash
<1>6. CASE Tick
  BY <1>6 DEF Tick
<1> QED
  BY <1>1, <1>2, <1>3, <1>4, <1>5, <1>6

LEMMA QueryStep == QueryInv /\ [Next]_vars => QueryInv' /\ [Settled]_ledgerVars
<1> SUFFICES ASSUME QueryInv, [Next]_vars PROVE QueryInv' /\ [Settled]_ledgerVars
  OBVIOUS
<1>1. ASSUME UNCHANGED ledgerVars PROVE QueryInv' /\ [Settled]_ledgerVars
  BY <1>1 DEF QueryInv, ledgerVars
<1>2. CASE LedgerStep
  BY <1>2, LedgerKeeps
<1>3. CASE \E r \in Run : RunEnds(r)
  BY <1>3 DEF RunEnds, Record, QueryInv, Settled
<1>4. CASE \/ ProvisionerStep \/ RequestStep \/ OutsideStep \/ Tick
           \/ \E s \in Scheduler : SchedulerStep(s) \/ SchedulerCrash(s)
  BY <1>1, <1>4, OthersKeepLedger
<1>5. CASE UNCHANGED vars
  BY <1>1, <1>5 DEF vars
<1> QED
  BY <1>2, <1>3, <1>4, <1>5 DEF Next, Step

\* What a team was shown for a month changes only from an estimate to an actual
\* cost, whatever fails in between and however the report grows
\* (_load_pending_cost_allocations, _apply_cur_cost_updates).
THEOREM KnownCostsAreFinal == Spec => ActualIsFinal
<1>1. GateInit => QueryInv
  BY DEF GateInit, LedgerInit, QueryInv
<1>2. QueryInv /\ [Next]_vars => QueryInv' /\ [Settled]_ledgerVars
  BY QueryStep
<1> QED
  BY <1>1, <1>2, PTL DEF Spec, ActualIsFinal, Settled

------------------------------------------------------------------------------
(* What a preflight passes on *)

\* A preflight is good unless something fails: of two checks with one key a
\* failed one stays.
LEMMA GoodMeansNothingFails ==
  ASSUME NEW x
  PROVE  Ready(Build(x)) <=> \A c \in Emitted(x) : c.status # "fail"
<1>1. ASSUME NEW c \in Emitted(x), c.status = "fail" PROVE c \in Build(x)
  <2>1. \A d \in Emitted(x) : Stays(c, d)
    BY <1>1 DEF Stays, Priority
  <2> QED
    BY <2>1 DEF Build
<1> QED
  BY <1>1 DEF Ready, Build

NothingFails(checks) == \A c \in checks : c.status # "fail"

\* Of checks that are put together none fails if none of the parts' does.
LEMMA NothingFailsOf ==
  /\ NothingFails({})
  /\ \A A, B : NothingFails(A \cup B) <=> NothingFails(A) /\ NothingFails(B)
  /\ \A c, v : NothingFails({Check(c, v)}) <=> v # "fail"
  /\ \A c, v, d, w : NothingFails({Check(c, v), Check(d, w)}) <=> v # "fail" /\ w # "fail"
  /\ \A c, v, d, w, e, u : NothingFails({Check(c, v), Check(d, w), Check(e, u)}) <=>
                            v # "fail" /\ w # "fail" /\ u # "fail"
  /\ \A codes : NothingFails(Warnings(codes))
<1> USE DEF NothingFails, Check
<1>1. ASSUME NEW A, NEW B
      PROVE  NothingFails(A \cup B) <=> NothingFails(A) /\ NothingFails(B)
  OBVIOUS
<1>2. ASSUME NEW codes PROVE NothingFails(Warnings(codes))
  <2>1. ASSUME NEW c \in Warnings(codes) PROVE c.status = "warning"
    <3>1. PICK code \in codes : c = [code |-> code, id |-> "", status |-> "warning"]
      BY <2>1 DEF Warnings
    <3> QED
      BY <3>1
  <2> QED
    BY <2>1
<1>3. ASSUME NEW c, NEW v PROVE NothingFails({Check(c, v)}) <=> v # "fail"
  OBVIOUS
<1>4. ASSUME NEW c, NEW v, NEW d, NEW w
      PROVE  NothingFails({Check(c, v), Check(d, w)}) <=> v # "fail" /\ w # "fail"
  OBVIOUS
<1>5. ASSUME NEW c, NEW v, NEW d, NEW w, NEW e, NEW u
      PROVE  NothingFails({Check(c, v), Check(d, w), Check(e, u)}) <=>
               v # "fail" /\ w # "fail" /\ u # "fail"
  OBVIOUS
<1> QED
  BY <1>1, <1>2, <1>3, <1>4, <1>5

\* The facts that are not AWS's are in order for every reading of the gate.
LEMMA RowAndSettings ==
  ASSUME NEW gone \in SUBSET Drift
  PROVE  SettingFact \cup RowFact \subseteq Fact \ gone
  BY DEF Fact, SettingFact, RowFact, AwsFact

\* What the dispatch gate's twelve groups of checks come to, one by one, for a
\* reading x with the row and the settings in order.
LEMMA TableChecks ==
  ASSUME NEW x, SettingFact \cup RowFact \subseteq x.ok,
         x.releases = {} \/ \E row : x.releases = {row}
  PROVE  /\ NothingFails(RuntimeAndRelease(x)) <=>
              /\ \A row \in x.releases : row.life # "end_of_life"
              /\ x.arch = "arm64" => \E row \in x.releases : row.graviton
         /\ NothingFails(SparkConfPolicy(x)) <=> "blocked_key" \notin x.conf
         /\ NothingFails(TeamBudget(x)) <=> \A b \in x.budget : ~(x.spend >= b.block)
         /\ NothingFails(PolicyChecks(x)) <=> Breaches(x.policies, x.asks) = {}
         /\ NothingFails(YunikornQueue(x)) /\ NothingFails(Advice(x))
<1> USE NothingFailsOf DEF PassIf, FailUnless
<1>1. NothingFails(RuntimeAndRelease(x)) <=>
              /\ \A row \in x.releases : row.life # "end_of_life"
              /\ x.arch = "arm64" => \E row \in x.releases : row.graviton
  <2>1. NothingFails(GravitonSupport(x)) <=>
          (x.arch = "arm64" => \E row \in x.releases : row.graviton)
    BY DEF GravitonSupport, SettingFact
  <2>2. NothingFails(ReleaseCurrency(x)) <=> {row.life : row \in x.releases} # {"end_of_life"}
    BY DEF ReleaseCurrency
  <2>3. {row.life : row \in x.releases} = {"end_of_life"} <=>
          \E row \in x.releases : row.life = "end_of_life"
    OBVIOUS
  <2>4. NothingFails(RuntimeAndRelease(x)) <=>
          NothingFails(ReleaseCurrency(x)) /\ NothingFails(GravitonSupport(x))
    <3> DEFINE role  == FailUnless("config.execution_role", "execution_role" \in x.ok)
               logs  == FailUnless("config.log_group_prefix", "log_group" \in x.ok)
               label == FailUnless("config.emr_release_label", "release_label" \in x.ok)
    <3>1. {"execution_role", "log_group", "release_label"} \subseteq x.ok
      BY DEF SettingFact
    <3>2. NothingFails(role) /\ NothingFails(logs) /\ NothingFails(label)
      BY <3>1
    <3>3. RuntimeAndRelease(x) =
            role \cup logs \cup label \cup ReleaseCurrency(x) \cup GravitonSupport(x)
      BY <3>1, Zenon DEF RuntimeAndRelease
    <3> HIDE DEF role, logs, label
    <3> QED
      BY ONLY <3>2, <3>3 DEF NothingFails
  <2> QED
    BY <2>1, <2>2, <2>3, <2>4
<1>2. NothingFails(SparkConfPolicy(x)) <=> "blocked_key" \notin x.conf
  BY DEF SparkConfPolicy
<1>3. NothingFails(TeamBudget(x)) <=> \A b \in x.budget : ~(x.spend >= b.block)
  BY DEF TeamBudget
<1>4. NothingFails(PolicyChecks(x)) <=> Breaches(x.policies, x.asks) = {}
  <2>1. ASSUME NEW p \in Breaches(x.policies, x.asks) PROVE ~NothingFails(PolicyChecks(x))
    <3>1. p \in x.policies /\ p.hard /\ ~Obeys(p, x.asks)
      BY <2>1 DEF Breaches
    <3>2. PolicyCheck(p.rule, p.id, "fail") \in PolicyChecks(x)
      BY <3>1 DEF PolicyChecks
    <3> QED
      BY <3>2 DEF NothingFails, PolicyCheck
  <2>2. ASSUME NEW c \in PolicyChecks(x), c.status = "fail"
        PROVE  Breaches(x.policies, x.asks) # {}
    <3>1. PICK p \in x.policies :
            c = PolicyCheck(p.rule, p.id,
                   IF Obeys(p, x.asks) THEN "pass" ELSE IF p.hard THEN "fail" ELSE "warning")
      BY <2>2 DEF PolicyChecks
    <3>2. p.hard /\ ~Obeys(p, x.asks)
      BY <2>2, <3>1 DEF PolicyCheck
    <3> QED
      BY <3>2 DEF Breaches
  <2> QED
    BY <2>1, <2>2 DEF NothingFails
<1>5. NothingFails(YunikornQueue(x)) /\ NothingFails(Advice(x))
  BY DEF YunikornQueue, Advice
<1> QED
  BY <1>1, <1>2, <1>3, <1>4, <1>5

LEMMA AwsChecks ==
  ASSUME NEW x, SettingFact \cup RowFact \subseteq x.ok, x.status = "ready", x.vc
  PROVE  /\ NothingFails(RowChecks(x))
         /\ NothingFails(GateChecks(x)) <=>
              (x.lite => {"assume", "simulate", "dispatch", "eks_describe", "pass_role",
                          "active", "issuer", "trust"} \subseteq x.ok)
         /\ "trust" \in x.ok =>
              (NothingFails(ByocLite(x)) <=>
                 (x.lite => /\ {"issuer", "oidc", "simulate", "dispatch", "pass_role"} \subseteq x.ok
                            /\ "list_clusters" \in x.ok => "namespace_free" \in x.ok))
         /\ NothingFails(LakeFormation(x)) <=>
              (x.fgac => /\ "slr" \in x.ok
                         /\ "lf_read" \in x.ok => "lf_grants" \in x.ok)
         /\ NothingFails(SecurityConfiguration(x)) <=>
              (x.sec # "" => "security_configuration" \in x.ok)
         /\ NothingFails(CredentialChain(x)) <=> {"caller", "assume_globally"} \subseteq x.ok
<1> USE NothingFailsOf DEF PassIf, FailUnless, WarnUnless
<1>1. NothingFails(RowChecks(x))
  BY DEF RowChecks, RowFact
<1>2. NothingFails(GateChecks(x)) <=>
              (x.lite => {"assume", "simulate", "dispatch", "eks_describe", "pass_role",
                          "active", "issuer", "trust"} \subseteq x.ok)
  <2>1. CASE ~x.lite
    <3>1. GateChecks(x) = {}
      BY <2>1, Zenon DEF GateChecks
    <3> QED
      BY <2>1, <3>1
  <2>2. CASE x.lite /\ "assume" \notin x.ok
    BY <2>2 DEF GateChecks
  <2>3. CASE x.lite /\ "assume" \in x.ok /\ ~MayDispatch(x)
    <3>1. GateChecks(x) = {Check(Sts, "pass"), Check(Simulate, "fail")}
                            \cup Warnings({Describe, Irsa})
      BY <2>3, Zenon DEF GateChecks
    <3>2. ~NothingFails(GateChecks(x))
      BY <3>1
    <3> QED
      BY <2>3, <3>2 DEF MayDispatch, SettingFact
  <2>4. CASE x.lite /\ "assume" \in x.ok /\ MayDispatch(x) /\ ~ClusterAnswers(x)
    <3>1. GateChecks(x) = {Check(Sts, "pass"), Check(Simulate, "pass"), Check(Describe, "fail")}
                            \cup Warnings({Irsa})
      BY <2>4, Zenon DEF GateChecks
    <3>2. ~NothingFails(GateChecks(x))
      BY <3>1
    <3> QED
      BY <2>4, <3>2 DEF ClusterAnswers
  <2>5. CASE x.lite /\ "assume" \in x.ok /\ MayDispatch(x) /\ ClusterAnswers(x)
    <3>1. GateChecks(x) = {Check(Sts, "pass"), Check(Simulate, "pass"), Check(Describe, "pass")}
                            \cup FailUnless(Irsa, "trust" \in x.ok)
      BY <2>5, Zenon DEF GateChecks
    <3>2. /\ NothingFails({Check(Sts, "pass"), Check(Simulate, "pass"), Check(Describe, "pass")})
          /\ NothingFails(FailUnless(Irsa, "trust" \in x.ok)) <=> "trust" \in x.ok
      OBVIOUS
    <3>3. NothingFails(GateChecks(x)) <=> "trust" \in x.ok
      BY ONLY <3>1, <3>2 DEF NothingFails
    <3> QED
      BY <2>5, <3>3 DEF MayDispatch, ClusterAnswers
  <2> QED
    BY <2>1, <2>2, <2>3, <2>4, <2>5
<1>3. ASSUME "trust" \in x.ok
      PROVE  NothingFails(ByocLite(x)) <=>
               (x.lite => /\ {"issuer", "oidc", "simulate", "dispatch", "pass_role"} \subseteq x.ok
                          /\ "list_clusters" \in x.ok => "namespace_free" \in x.ok)
  <2>1. Eligible(x)
    BY DEF Eligible
  <2>2. NothingFails(ClusterRowChecks(x))
    <3>1. RowFact \subseteq x.ok
      OBVIOUS
    <3>2. NothingFails(NamespaceChecks(x))
      <4>1. /\ NothingFails(FailUnless("byoc_lite.eks_namespace", "namespace" \in x.ok))
            /\ NothingFails(FailUnless("byoc_lite.eks_namespace_normalized", "trimmed" \in x.ok))
            /\ NothingFails(FailUnless("byoc_lite.eks_namespace_format", "format" \in x.ok))
            /\ NothingFails(FailUnless("byoc_lite.namespace_bootstrap", "unreserved" \in x.ok))
        BY <3>1 DEF RowFact
      <4> QED
        BY ONLY <3>1, <4>1, NothingFailsOf DEF NamespaceChecks, RowFact
    <3>3. /\ NothingFails(FailUnless("byoc_lite.eks_cluster_arn", "cluster_arn" \in x.ok))
          /\ NothingFails(FailUnless("byoc_lite.eks_cluster_region", "region" \in x.ok))
          /\ NothingFails(FailUnless("byoc_lite.account_alignment", "account" \in x.ok))
      BY <3>1 DEF RowFact
    <3> QED
      BY ONLY <3>1, <3>2, <3>3, NothingFailsOf DEF ClusterRowChecks, RowFact
  <2>3. /\ NothingFails(ClusterIdentity(x))
        /\ NothingFails(SpotCapacity(x))
        /\ NothingFails(SpotPlacement(x))
    BY DEF ClusterIdentity, SpotCapacity, SpotPlacement
  <2>4. NothingFails(OidcAssociation(x)) <=> {"issuer", "oidc"} \subseteq x.ok
    BY DEF OidcAssociation
  <2>5. NothingFails(ExecutionRoleTrust(x)) <=> "issuer" \in x.ok
    BY <1>3 DEF ExecutionRoleTrust, Remediates, SettingFact
  <2>6. NothingFails(DispatchPermissions(x)) <=>
          {"simulate", "dispatch", "pass_role"} \subseteq x.ok
    BY DEF DispatchPermissions, SettingFact
  <2>7. NothingFails(NamespaceCollision(x)) <=>
          ("list_clusters" \in x.ok => "namespace_free" \in x.ok)
    BY DEF NamespaceCollision
  <2>8. x.lite => ByocLite(x) =
                   ClusterRowChecks(x) \cup OidcAssociation(x) \cup ExecutionRoleTrust(x)
                   \cup ClusterIdentity(x) \cup DispatchPermissions(x) \cup NamespaceCollision(x)
                   \cup SpotCapacity(x) \cup SpotPlacement(x)
    BY <2>1 DEF ByocLite
  <2>9. ~x.lite => ByocLite(x) = {}
    BY DEF ByocLite
  <2>10. x.lite => (NothingFails(ByocLite(x)) <=>
           /\ NothingFails(OidcAssociation(x)) /\ NothingFails(ExecutionRoleTrust(x))
           /\ NothingFails(DispatchPermissions(x)) /\ NothingFails(NamespaceCollision(x)))
    BY ONLY <2>2, <2>3, <2>8 DEF NothingFails
  <2> QED
    BY <2>4, <2>5, <2>6, <2>7, <2>9, <2>10
<1>4. NothingFails(LakeFormation(x)) <=>
              (x.fgac => /\ "slr" \in x.ok
                         /\ "lf_read" \in x.ok => "lf_grants" \in x.ok)
  BY DEF LakeFormation, SettingFact
<1>5. NothingFails(SecurityConfiguration(x)) <=>
              (x.sec # "" => "security_configuration" \in x.ok)
  BY DEF SecurityConfiguration
<1>6. NothingFails(CredentialChain(x)) <=> {"caller", "assume_globally"} \subseteq x.ok
  BY DEF CredentialChain
<1> QED
  BY <1>1, <1>2, <1>3, <1>4, <1>5, <1>6

\* The scheduler's preflight of a run (_build_preflight, _preflight_summary)
\* passes exactly if the row was ready, AWS has what a row of this kind needs, and
\* the tables and the configuration are in order: no merge of checks, no skipped
\* check, and no error that is swallowed lets anything else through or holds
\* anything else back.
THEOREM PreflightIsExact ==
  ASSUME NEW r, NEW seen, NEW gone \in SUBSET Drift, NEW tables \in TablesRead
  PROVE  Verdict(RunReading(r, seen, tables, Fact \ gone)) = "pass" <=>
           seen = "ready" /\ AwsAllows(gone) /\ TablesAllow(r, tables)
<1> DEFINE x == RunReading(r, seen, tables, Fact \ gone)
<1>1. /\ x.status = seen /\ x.vc = (seen = "ready") /\ x.needsReady /\ x.needsCluster
      /\ x.lite = Row.lite /\ x.arch = Row.arch /\ x.fgac = Row.fgac /\ x.sec = Row.sec
      /\ x.releases = tables.releases /\ x.budget = Budget /\ x.spend = tables.spend
      /\ x.policies = tables.policies /\ x.conf = Ask[r].conf /\ x.ok = Fact \ gone
      /\ x.asks = RunAtDispatch(Ask[r], Row.sec)
      /\ x.releases = {} \/ \E row : x.releases = {row}
  <2>1. tables.releases \in
          {{}} \cup {{[life |-> l, graviton |-> Label >= GravitonFrom]} : l \in Life}
    BY DEF TablesRead
  <2>2. tables.releases = {} \/ \E row : tables.releases = {row}
    BY <2>1
  <2> QED
    BY <2>2 DEF RunReading, Reading
<1>2. SettingFact \cup RowFact \subseteq x.ok
  BY <1>1, RowAndSettings
<1> HIDE DEF x
<1>3. Ready(Build(x)) <=>
        /\ NothingFails(RuntimeAndRelease(x)) /\ NothingFails(RowChecks(x))
        /\ NothingFails(SparkConfPolicy(x)) /\ NothingFails(TeamBudget(x))
        /\ NothingFails(YunikornQueue(x)) /\ NothingFails(GateChecks(x))
        /\ NothingFails(ByocLite(x)) /\ NothingFails(Advice(x))
        /\ NothingFails(PolicyChecks(x)) /\ NothingFails(LakeFormation(x))
        /\ NothingFails(SecurityConfiguration(x)) /\ NothingFails(CredentialChain(x))
  <2>1. Ready(Build(x)) <=> NothingFails(Emitted(x))
    BY GoodMeansNothingFails DEF NothingFails
  <2> QED
    BY ONLY <2>1 DEF Emitted, NothingFails
<1>4. Verdict(x) = "pass" <=> ~Raises(x) /\ Ready(Build(x))
  BY DEF Verdict
<1>5. CASE seen # "ready"
  <2>1. Check("environment.status", "fail") \in RowChecks(x)
    BY <1>1, <1>5 DEF RowChecks, FailUnless, PassIf
  <2>2. ~NothingFails(RowChecks(x))
    BY <2>1 DEF NothingFails, Check
  <2> QED
    BY <1>3, <1>4, <1>5, <2>2 DEF x
<1>6. CASE seen = "ready"
  <2>1. /\ \A row \in tables.releases : row.life # "end_of_life"
        /\ Row.arch = "arm64" => \E row \in tables.releases : row.graviton
        /\ "blocked_key" \notin Ask[r].conf
        /\ \A b \in Budget : ~(tables.spend >= b.block)
        /\ Breaches(tables.policies, RunAtDispatch(Ask[r], Row.sec)) = {}
        <=> /\ NothingFails(RuntimeAndRelease(x)) /\ NothingFails(SparkConfPolicy(x))
            /\ NothingFails(TeamBudget(x)) /\ NothingFails(PolicyChecks(x))
            /\ NothingFails(YunikornQueue(x)) /\ NothingFails(Advice(x))
    BY ONLY <1>1, <1>2, TableChecks
  <2>2. TablesAllow(r, tables) <=>
            /\ NothingFails(RuntimeAndRelease(x)) /\ NothingFails(SparkConfPolicy(x))
            /\ NothingFails(TeamBudget(x)) /\ NothingFails(PolicyChecks(x))
            /\ NothingFails(YunikornQueue(x)) /\ NothingFails(Advice(x))
    BY <2>1 DEF TablesAllow
  <2>3. AwsAllows(gone) <=>
          /\ ~Raises(x)
          /\ NothingFails(RowChecks(x)) /\ NothingFails(GateChecks(x)) /\ NothingFails(ByocLite(x))
          /\ NothingFails(LakeFormation(x)) /\ NothingFails(SecurityConfiguration(x))
          /\ NothingFails(CredentialChain(x))
    <3>1. ~("release_label" \in x.ok /\ Cardinality(x.releases) > 1)
      <4>1. CASE x.releases = {}
        BY <4>1, FS_EmptySet
      <4>2. ASSUME NEW row, x.releases = {row} PROVE Cardinality(x.releases) = 1
        BY <4>2, FS_Singleton
      <4> QED
        BY <1>1, <4>1, <4>2
    <3>2. Eligible(x)
      BY <1>1, <1>2, <1>6 DEF Eligible
    <3>3. Raises(x) <=> \/ x.lite /\ {"assume", "steady"} \ x.ok # {}
                        \/ x.sec # "" /\ {"assume", "steady"} \ x.ok # {}
      BY <1>2, <3>1, <3>2 DEF Raises, SettingFact
    <3>4. \A f \in AwsFact : f \in x.ok <=> f \notin gone
      BY <1>1 DEF Fact
    <3>5. x.status = "ready" /\ x.vc
      BY <1>1, <1>6
    <3>6. AwsAllows(gone) <=>
            /\ {"caller", "assume_globally"} \subseteq x.ok
            /\ x.lite => /\ {"assume", "steady", "simulate", "dispatch", "pass_role",
                             "eks_describe", "active", "issuer", "oidc", "trust"} \subseteq x.ok
                         /\ "list_clusters" \in x.ok => "namespace_free" \in x.ok
            /\ x.fgac => "slr" \in x.ok /\ ("lf_read" \in x.ok => "lf_grants" \in x.ok)
            /\ x.sec # "" => {"assume", "steady", "security_configuration"} \subseteq x.ok
      <4>1. AwsAllows(gone) <=>
              /\ Needed \subseteq x.ok
              /\ Row.lite /\ "namespace_free" \notin x.ok => "list_clusters" \notin x.ok
              /\ Row.fgac /\ "lf_grants" \notin x.ok => "lf_read" \notin x.ok
        <5>1. Needed \subseteq AwsFact
          BY DEF Needed, AwsFact
        <5>2. {"namespace_free", "list_clusters", "lf_grants", "lf_read"} \subseteq AwsFact
          BY DEF AwsFact
        <5> QED
          BY ONLY <3>4, <5>1, <5>2 DEF AwsAllows
      <4> QED
        BY ONLY <1>1, <4>1 DEF Needed
    <3>7. /\ NothingFails(RowChecks(x))
          /\ NothingFails(GateChecks(x)) <=>
               (x.lite => {"assume", "simulate", "dispatch", "eks_describe", "pass_role",
                           "active", "issuer", "trust"} \subseteq x.ok)
          /\ "trust" \in x.ok =>
               (NothingFails(ByocLite(x)) <=>
                  (x.lite => /\ {"issuer", "oidc", "simulate", "dispatch", "pass_role"} \subseteq x.ok
                             /\ "list_clusters" \in x.ok => "namespace_free" \in x.ok))
          /\ NothingFails(LakeFormation(x)) <=>
               (x.fgac => "slr" \in x.ok /\ ("lf_read" \in x.ok => "lf_grants" \in x.ok))
          /\ NothingFails(SecurityConfiguration(x)) <=>
               (x.sec # "" => "security_configuration" \in x.ok)
          /\ NothingFails(CredentialChain(x)) <=> {"caller", "assume_globally"} \subseteq x.ok
      BY ONLY <1>2, <3>5, AwsChecks
    <3>8. ~x.lite => NothingFails(ByocLite(x))
      BY DEF ByocLite, NothingFails
    <3> QED
      BY ONLY <3>3, <3>6, <3>7, <3>8
  <2> QED
    BY <1>3, <1>4, <1>6, <2>2, <2>3 DEF x
<1> QED
  BY <1>5, <1>6

------------------------------------------------------------------------------
(* Least and greatest elements, and the trim of the cache *)

\* A nonempty set of finite subsets has a least one, of whose strict subsets
\* none is in it: induction on finite sets, without an operator for what is shown.
LEMMA LeastSet ==
  ASSUME NEW S, IsFiniteSet(S), NEW T, T \subseteq SUBSET S, T # {}
  PROVE  \E s \in T : \A u \in SUBSET s : u # s => u \notin T
<1>1. IsWellFoundedOn(StrictSubsetOrdering(S), SUBSET S)
  BY FS_StrictSubsetOrderingWellFounded, FS_FiniteSubsetsOfFinite
<1>2. PICK s \in T : \A u \in T : <<u, s>> \notin StrictSubsetOrdering(S)
  BY <1>1, WFMin
<1>3. ASSUME NEW u \in SUBSET s, u # s, u \in T PROVE FALSE
  <2>1. <<u, s>> \in StrictSubsetOrdering(S)
    BY <1>3 DEF StrictSubsetOrdering
  <2> QED
    BY <1>2, <1>3, <2>1
<1> QED
  BY <1>3

\* A nonempty set of numbers has a least one, and if it is finite a greatest one.
LEMMA MinIsIn ==
  ASSUME NEW S \in SUBSET Nat, S # {}
  PROVE  Min(S) \in S
<1>1. PICK x \in S : \A y \in S : <<y, x>> \notin OpToRel(<, Nat)
  BY NatLessThanWellFounded, WFMin, Zenon
<1>2. ASSUME NEW y \in S PROVE x =< y
  <2>1. ~(y < x)
    BY <1>1, Zenon DEF OpToRel
  <2> QED
    BY <2>1
<1> QED
  BY <1>2, Zenon DEF Min

LEMMA MaxIsIn ==
  ASSUME NEW S \in SUBSET Nat, IsFiniteSet(S), S # {}
  PROVE  Max(S) \in S
<1> DEFINE T == {s \in SUBSET S : s # {} /\ \A x \in s : \E y \in s : ~(x >= y)}
<1>1. SUFFICES ASSUME T # {} PROVE FALSE
  BY DEF Max
<1>2. PICK s \in T : \A u \in SUBSET s : u # s => u \notin T
  <2>1. T \subseteq SUBSET S
    OBVIOUS
  <2> HIDE DEF T
  <2> QED
    BY <1>1, <2>1, LeastSet
<1>3. PICK x \in s : TRUE
  OBVIOUS
<1>4. CASE s = {x}
  BY <1>4
<1>5. CASE s # {x}
  <2>1. PICK m \in s \ {x} : \A y \in s \ {x} : m >= y
    <3>1. s \ {x} \in SUBSET s /\ s \ {x} # s /\ s \ {x} # {} /\ s \ {x} \in SUBSET S
      BY <1>3, <1>5
    <3>2. s \ {x} \notin T
      BY <1>2, <3>1
    <3> QED
      BY <3>1, <3>2
  <2>2. x \in Nat /\ m \in Nat
    OBVIOUS
  <2>3. \A y \in s : (IF m >= x THEN m ELSE x) >= y
    <3> TAKE y \in s
    <3>1. y \in Nat
      OBVIOUS
    <3> QED
      BY <2>1, <2>2, <3>1
  <2> QED
    BY <2>1, <2>3
<1> QED
  BY <1>4, <1>5

\* One step of the trim, and the function by which the entries of c at S that
\* are not stale are computed.
Keep(kept, e) == IF e.age < Ttl THEN Append(kept, e) ELSE kept

IsTrim(f, c, S) ==
  f = [s \in SUBSET S |-> IF s = {} THEN << >> ELSE Keep(f[s \ {Max(s)}], c[Max(s)])]

TrimmedBelow(c, S) == CHOOSE f : IsTrim(f, c, S)

LEMMA GoodUnfolds ==
  ASSUME NEW s
  PROVE  Good(s) = TrimmedBelow(cache[s], DOMAIN cache[s])[DOMAIN cache[s]]
  BY DEF Good, FoldLeft, MapThenFoldSet, TrimmedBelow, IsTrim, Keep

\* On the subsets of U, the functions for S and for U agree.
LEMMA TrimsAgree ==
  ASSUME NEW S \in SUBSET Nat, IsFiniteSet(S), NEW U \in SUBSET S, NEW c, NEW f, NEW g,
         IsTrim(f, c, S), IsTrim(g, c, U)
  PROVE  \A s \in SUBSET U : f[s] = g[s]
<1> DEFINE T == {s \in SUBSET U : f[s] # g[s]}
<1>1. IsFiniteSet(U)
  BY FS_Subset
<1>2. SUFFICES ASSUME T # {} PROVE FALSE
  OBVIOUS
<1>3. PICK s \in T : \A u \in SUBSET s : u # s => u \notin T
  <2>1. T \subseteq SUBSET U
    OBVIOUS
  <2> HIDE DEF T
  <2> QED
    BY <1>1, <1>2, <2>1, LeastSet
<1>4. /\ f[s] = IF s = {} THEN << >> ELSE Keep(f[s \ {Max(s)}], c[Max(s)])
      /\ g[s] = IF s = {} THEN << >> ELSE Keep(g[s \ {Max(s)}], c[Max(s)])
  <2>1. s \in SUBSET S /\ s \in SUBSET U
    OBVIOUS
  <2> QED
    BY <2>1 DEF IsTrim
<1>5. s # {}
  BY <1>4
<1>6. s \ {Max(s)} \notin T
  <2>1. s \in SUBSET Nat /\ IsFiniteSet(s)
    BY <1>1, FS_Subset
  <2> QED
    BY <1>3, <1>5, <2>1, MaxIsIn
<1> QED
  BY <1>4, <1>5, <1>6

\* The function exists.
LEMMA TrimsExist ==
  ASSUME NEW S \in SUBSET Nat, IsFiniteSet(S), NEW c
  PROVE  \A s \in SUBSET S : IsTrim(TrimmedBelow(c, s), c, s)
<1> DEFINE T == {s \in SUBSET S : ~ IsTrim(TrimmedBelow(c, s), c, s)}
<1>1. SUFFICES ASSUME T # {} PROVE FALSE
  OBVIOUS
<1>2. PICK s \in T : \A u \in SUBSET s : u # s => u \notin T
  <2>1. T \subseteq SUBSET S
    OBVIOUS
  <2> HIDE DEF T
  <2> QED
    BY <1>1, <2>1, LeastSet
<1> DEFINE rest(u) == u \ {Max(u)}
           below(u) == TrimmedBelow(c, u)
           f == [u \in SUBSET s |->
                   IF u = {} THEN << >> ELSE Keep(below(rest(u))[rest(u)], c[Max(u)])]
<1>3. ASSUME NEW u \in SUBSET s, u # {}
      PROVE  /\ rest(u) \in SUBSET s /\ rest(u) # s /\ rest(u) \in SUBSET S
             /\ rest(u) \in SUBSET u
             /\ IsTrim(below(rest(u)), c, rest(u))
  <2>1. u \in SUBSET Nat /\ IsFiniteSet(u)
    BY FS_Subset
  <2>2. Max(u) \in u
    BY <1>3, <2>1, MaxIsIn
  <2> QED
    BY <1>2, <1>3, <2>2
<1>4. ASSUME NEW u \in SUBSET s, u # {}
      PROVE  f[rest(u)] = below(rest(u))[rest(u)]
  <2> DEFINE v == rest(u)
  <2>1. v \in SUBSET s /\ v # s /\ v \in SUBSET S /\ IsTrim(below(v), c, v)
    BY <1>3, <1>4
  <2>2. below(v)[v] = IF v = {} THEN << >> ELSE Keep(below(v)[rest(v)], c[Max(v)])
    BY <2>1 DEF IsTrim
  <2>3. CASE v = {}
    BY <2>1, <2>2, <2>3
  <2>4. CASE v # {}
    <3>1. /\ rest(v) \in SUBSET v /\ rest(v) \in SUBSET s
          /\ IsTrim(below(rest(v)), c, rest(v))
      BY <1>3, <2>1, <2>4
    <3>2. IsFiniteSet(v) /\ v \in SUBSET Nat
      BY <2>1, FS_Subset
    <3> HIDE DEF v, below, rest
    <3>3. below(v)[rest(v)] = below(rest(v))[rest(v)]
      BY <2>1, <3>1, <3>2, TrimsAgree
    <3>4. f[v] = Keep(below(rest(v))[rest(v)], c[Max(v)])
      BY <2>1, <2>4
    <3> QED
      BY <2>2, <2>4, <3>3, <3>4 DEF v
  <2> QED
    BY <2>3, <2>4
<1>5. IsTrim(f, c, s)
  <2>1. f = [u \in SUBSET s |-> IF u = {} THEN << >> ELSE Keep(f[rest(u)], c[Max(u)])]
    <3> HIDE DEF rest, below
    <3> QED
      BY <1>4
  <2> HIDE DEF f
  <2> QED
    BY <2>1 DEF IsTrim
<1>6. IsTrim(TrimmedBelow(c, s), c, s)
  <2> HIDE DEF f
  <2> QED
    BY <1>5 DEF TrimmedBelow
<1> QED
  BY <1>6

\* What a trim leaves is no longer than the cache was, and of its entries those
\* that are not stale.
LEMMA GoodIs ==
  ASSUME NEW E, NEW s, cache[s] \in Seq(E)
  PROVE  /\ Good(s) \in Seq({e \in E : e.age < Ttl})
         /\ Len(Good(s)) <= Len(cache[s])
<1> DEFINE c == cache[s]
           D == 1 .. Len(c)
           F == {e \in E : e.age < Ttl}
           g == TrimmedBelow(c, D)
           T == {u \in SUBSET D : ~(g[u] \in Seq(F) /\ Len(g[u]) <= Cardinality(u))}
<1>1. /\ Len(c) \in Nat /\ DOMAIN c = D /\ D \in SUBSET Nat
      /\ IsFiniteSet(D) /\ Cardinality(D) = Len(c)
  <2>1. Len(c) \in Nat /\ DOMAIN c = D
    BY LenProperties
  <2> QED
    BY <2>1, FS_Interval
<1>2. IsTrim(g, c, D)
  BY <1>1, TrimsExist
<1>3. T = {}
  <2>1. SUFFICES ASSUME T # {} PROVE FALSE
    OBVIOUS
  <2>2. PICK u \in T : \A v \in SUBSET u : v # u => v \notin T
    <3>1. T \subseteq SUBSET D
      OBVIOUS
    <3>2. T # {}
      BY <2>1
    <3>3. IsFiniteSet(D)
      BY <1>1
    <3> HIDE DEF T, D
    <3> QED
      BY <3>1, <3>2, <3>3, LeastSet
  <2>3. u \in SUBSET D /\ u \in SUBSET Nat /\ IsFiniteSet(u)
    BY <1>1, FS_Subset
  <2>4. g[u] = IF u = {} THEN << >> ELSE Keep(g[u \ {Max(u)}], c[Max(u)])
    BY <1>2, <2>3 DEF IsTrim
  <2>5. u # {}
    <3>1. << >> \in Seq(F) /\ Len(<< >>) <= Cardinality({})
      BY FS_EmptySet
    <3>2. ~(g[u] \in Seq(F) /\ Len(g[u]) <= Cardinality(u))
      OBVIOUS
    <3> HIDE DEF F, g, T
    <3> QED
      BY <2>4, <3>1, <3>2
  <2>6. Max(u) \in u
    BY <2>3, <2>5, MaxIsIn
  <2> DEFINE v == u \ {Max(u)}
  <2>7. g[v] \in Seq(F) /\ Len(g[v]) <= Cardinality(v)
    BY <2>2, <2>3, <2>6
  <2>8. Cardinality(v) = Cardinality(u) - 1 /\ Cardinality(u) \in Nat
    BY <2>3, <2>6, FS_RemoveElement, FS_CardinalityType
  <2>9. c[Max(u)] \in E
    BY <1>1, <2>3, <2>6, ElementOfSeq
  <2>10. g[u] \in Seq(F) /\ Len(g[u]) <= Cardinality(u)
    <3> HIDE DEF g, c, v
    <3>1. CASE c[Max(u)].age < Ttl
      <4>1. c[Max(u)] \in F
        BY <2>9, <3>1
      <4>2. g[u] = Append(g[v], c[Max(u)])
        BY <2>4, <2>5, <3>1 DEF Keep, v
      <4> HIDE DEF F
      <4>3. Len(g[u]) = Len(g[v]) + 1 /\ g[u] \in Seq(F)
        BY <2>7, <4>1, <4>2, AppendProperties
      <4> QED
        BY <2>7, <2>8, <4>3, LenProperties
    <3>2. CASE ~(c[Max(u)].age < Ttl)
      <4>1. g[u] = g[v]
        BY <2>4, <2>5, <3>2 DEF Keep, v
      <4> QED
        BY <2>7, <2>8, <4>1, LenProperties
    <3> QED
      BY <3>1, <3>2
  <2> QED
    BY <2>2, <2>10
<1>4. Good(s) = g[D]
  BY <1>1, GoodUnfolds
<1> QED
  BY <1>1, <1>3, <1>4

------------------------------------------------------------------------------
(* Types *)

\* A running query found costs of allocations, and what it found are amounts.
LedgerInv ==
  /\ LedgerTypeOK
  /\ \A found \in query :
       DOMAIN found \subseteq Allocated /\ \A r \in DOMAIN found : found[r] \in Nat

\* GateTypeOK without the cache, which takes an invariant of its own.
RowsInv ==
  /\ status \in {"provisioning", "ready", "failed", "deleted"}
  /\ {cluster, occupant} \subseteq Nobody .. Stranger
  /\ prov \in {"idle", "validate", "trust", "look", "create", "commit"}
  /\ attempt \in 1 .. MaxAttempts
  /\ deleting \in BOOLEAN
  /\ missing \subseteq Drift
  /\ published \subseteq Release
  /\ DOMAIN catalogue \subseteq Release
  /\ policies \subseteq Policy
  /\ run \in [Run -> {"new", "refused", "queued", "cleared", "failed", "ended"}]
  /\ tries \in [Run -> 1 .. MaxAttempts]
  /\ changes \in 0 .. MaxChanges

LEMMA LedgerOfStep ==
  ASSUME LedgerInv, LedgerStep \/ \E r \in Run : Record(r)
  PROVE  LedgerInv'
<1> USE DEF LedgerInv, LedgerTypeOK, Allocated, ToSet
<1>1. CASE \E r \in Run : Record(r)
  <2>1. PICK r \in Run : Record(r)
    BY <1>1
  <2>2. ledger' = Append(ledger, r) /\ UNCHANGED <<actual, billed, period, query, failures>>
    BY <2>1 DEF Record
  <2>3. /\ ledger' \in Seq(Run)
        /\ \A i \in DOMAIN ledger : i \in DOMAIN ledger' /\ ledger'[i] = ledger[i]
    BY <2>2
  <2>4. Allocated \subseteq Allocated'
    BY <2>3
  <2>5. month' \in [Run -> 0 .. MaxPeriod]
    BY <2>1 DEF Record
  <2> QED
    BY <2>2, <2>3, <2>4, <2>5
<1>2. CASE \E r \in Run : BillArrives(r)
  BY <1>2 DEF BillArrives
<1>3. CASE NewMonth
  BY <1>3 DEF NewMonth
<1>4. CASE StartQuery
  <2>1. Oldest(Pending) \subseteq Allocated /\ Allocated \subseteq Run
    <3>1. Oldest(Pending) \subseteq Pending
      BY OldestAreOfTheSet
    <3>2. \A i \in DOMAIN ledger : ledger[i] \in Run
      OBVIOUS
    <3> QED
      BY <3>1, <3>2 DEF Pending
  <2>2. PICK found :
          /\ query' = {found}
          /\ found = [r \in {q \in Oldest(Pending) : billed[q] > 0} |-> billed[r]]
    BY <1>4 DEF StartQuery
  <2>3. DOMAIN found \subseteq Allocated /\ \A r \in DOMAIN found : found[r] \in Nat
    BY <2>1, <2>2
  <2>4. UNCHANGED <<ledger, month, actual, billed, period, failures>>
    BY <1>4 DEF StartQuery
  <2>5. Allocated' = Allocated
    BY <2>4
  <2> HIDE DEF Allocated
  <2> QED
    BY <2>1, <2>2, <2>3, <2>4, <2>5
<1>5. CASE ApplyCosts
  <2>1. PICK found \in query :
          actual' = [r \in DOMAIN found \cup DOMAIN actual |->
                       IF r \in DOMAIN found THEN found[r] ELSE actual[r]]
    BY <1>5 DEF ApplyCosts
  <2>2. query' = {} /\ UNCHANGED <<ledger, month, billed, period, failures>>
    BY <1>5 DEF ApplyCosts
  <2>3. DOMAIN actual' \subseteq Allocated /\ \A r \in DOMAIN actual' : actual'[r] \in Nat
    BY <2>1
  <2> QED
    BY <2>2, <2>3
<1>6. CASE QueryFails
  BY <1>6 DEF QueryFails
<1> QED
  BY <1>1, <1>2, <1>3, <1>4, <1>5, <1>6 DEF LedgerStep

LEMMA LedgerInvStep == LedgerInv /\ [Next]_vars => LedgerInv'
<1> SUFFICES ASSUME LedgerInv, [Next]_vars PROVE LedgerInv'
  OBVIOUS
<1>1. ASSUME UNCHANGED ledgerVars PROVE LedgerInv'
  BY <1>1 DEF LedgerInv, LedgerTypeOK, Allocated, ledgerVars
<1>2. CASE LedgerStep
  BY <1>2, LedgerOfStep
<1>3. CASE \E r \in Run : RunEnds(r)
  BY <1>3, LedgerOfStep DEF RunEnds
<1>4. CASE \/ ProvisionerStep \/ RequestStep \/ OutsideStep \/ Tick
           \/ \E s \in Scheduler : SchedulerStep(s) \/ SchedulerCrash(s)
  BY <1>1, <1>4, OthersKeepLedger
<1>5. CASE UNCHANGED vars
  BY <1>1, <1>5 DEF vars
<1> QED
  BY <1>2, <1>3, <1>4, <1>5 DEF Next, Step

LEMMA RowsOfProvisioner ==
  ASSUME RowsInv, ProvisionerStep
  PROVE  RowsInv'
<1> USE DEF RowsInv, ProvisioningFails, outsideVars, runVars, Nobody, Stranger
<1>1. CASE LiteValidate
  BY <1>1 DEF LiteValidate
<1>2. CASE LiteUpdateTrust
  BY <1>2 DEF LiteUpdateTrust
<1>3. CASE LiteLook
  BY <1>3 DEF LiteLook
<1>4. CASE LiteCreate
  BY <1>4 DEF LiteCreate
<1>5. CASE LiteCommit
  BY <1>5 DEF LiteCommit
<1>6. CASE LiteRestart
  BY <1>6 DEF LiteRestart
<1> QED
  BY <1>1, <1>2, <1>3, <1>4, <1>5, <1>6 DEF ProvisionerStep

LEMMA RowsOfOthers ==
  ASSUME RowsInv, RequestStep \/ OutsideStep \/ \E r \in Run : RunEnds(r)
  PROVE  RowsInv'
<1> USE DEF RowsInv, rowVars, outsideVars, runVars, Nobody, Stranger
<1>1. CASE DeleteLooks
  BY <1>1 DEF DeleteLooks
<1>2. CASE DeleteWrites
  BY <1>2 DEF DeleteWrites
<1>3. CASE \E r \in Run : Submit(r)
  BY <1>3 DEF Submit
<1>4. CASE \E r \in Run : RunEnds(r)
  BY <1>4 DEF RunEnds
<1>5. CASE \E f \in Drift : FactChanges(f)
  BY <1>5 DEF FactChanges, Change, SymDiff
<1>6. CASE StrangerComes
  BY <1>6 DEF StrangerComes, Change
<1>7. CASE \E v \in Release : Publish(v)
  BY <1>7 DEF Publish, Change
<1>8. CASE SyncReleases
  BY <1>8 DEF SyncReleases
<1>9. CASE \E p \in Policy : CreatePolicy(p) \/ DeletePolicy(p)
  BY <1>9 DEF CreatePolicy, DeletePolicy, Change
<1> QED
  BY <1>1, <1>2, <1>3, <1>4, <1>5, <1>6, <1>7, <1>8, <1>9 DEF RequestStep, OutsideStep

\* What a scheduler makes of a run is one of the statuses, whichever run it is.
LEMMA RowsOfSettle ==
  ASSUME RowsInv, NEW s \in Scheduler,
         NEW outcome \in {"queued", "cleared", "failed"}, Settle(s, outcome)
  PROVE  run' \in [Run -> {"new", "refused", "queued", "cleared", "failed", "ended"}]
  BY DEF RowsInv, Settle

LEMMA RowsOfScheduler ==
  ASSUME RowsInv, NEW s \in Scheduler, SchedulerStep(s) \/ SchedulerCrash(s)
  PROVE  RowsInv'
<1>1. UNCHANGED rowVars
  BY SchedulerKeepsRow
<1>2. /\ UNCHANGED <<published, catalogue, policies>>
      /\ missing' \subseteq missing
      /\ changes' = changes \/ Change
  <2>1. CASE LookHit(s) \/ LookMiss(s) \/ PassEnds(s) \/ Begin(s)
    BY <2>1 DEF LookHit, LookMiss, PassEnds, Begin, outsideVars
  <2>2. CASE BuildEnds(s)
    BY <2>2 DEF BuildEnds
  <2>3. CASE SchedulerCrash(s)
    BY <2>3 DEF SchedulerCrash, outsideVars
  <2> QED
    BY <2>1, <2>2, <2>3 DEF SchedulerStep
<1>3. run' \in [Run -> {"new", "refused", "queued", "cleared", "failed", "ended"}]
  <2>1. CASE LookHit(s)
    BY <2>1, RowsOfSettle DEF LookHit, Decision
  <2>2. CASE LookMiss(s) \/ PassEnds(s) \/ Begin(s)
    BY <2>2 DEF LookMiss, PassEnds, Begin, RowsInv
  <2>3. CASE BuildEnds(s)
    BY <2>3, RowsOfSettle DEF BuildEnds, Decision
  <2>4. CASE SchedulerCrash(s)
    BY <2>4 DEF SchedulerCrash, RowsInv
  <2> QED
    BY <2>1, <2>2, <2>3, <2>4 DEF SchedulerStep
<1>4. tries' \in [Run -> 1 .. MaxAttempts]
  <2>1. CASE LookHit(s) \/ LookMiss(s) \/ PassEnds(s) \/ Begin(s) \/ SchedulerCrash(s)
    BY <2>1 DEF LookHit, LookMiss, PassEnds, Begin, SchedulerCrash, RowsInv
  <2>2. CASE BuildEnds(s)
    <3>1. \/ UNCHANGED tries
          \/ \E r : tries[r] < MaxAttempts /\ tries' = [tries EXCEPT ![r] = @ + 1]
      BY <2>2, Zenon DEF BuildEnds
    <3> QED
      BY <3>1 DEF RowsInv
  <2> QED
    BY <2>1, <2>2 DEF SchedulerStep
<1> QED
  BY <1>1, <1>2, <1>3, <1>4 DEF RowsInv, rowVars, Change

LEMMA RowsStep == RowsInv /\ [Next]_vars => RowsInv'
<1> SUFFICES ASSUME RowsInv, [Next]_vars PROVE RowsInv'
  OBVIOUS
<1>1. ASSUME UNCHANGED <<rowVars, outsideVars, run, tries, changes>> PROVE RowsInv'
  BY <1>1 DEF RowsInv, rowVars, outsideVars
<1>2. CASE ProvisionerStep
  BY <1>2, RowsOfProvisioner
<1>3. CASE RequestStep \/ OutsideStep \/ \E r \in Run : RunEnds(r)
  BY <1>3, RowsOfOthers
<1>4. CASE \E s \in Scheduler : SchedulerStep(s) \/ SchedulerCrash(s)
  BY <1>4, RowsOfScheduler
<1>5. CASE LedgerStep /\ UNCHANGED gateVars
  BY <1>1, <1>5 DEF gateVars, runVars
<1>6. CASE Tick
  BY <1>1, <1>6 DEF Tick
<1>7. CASE UNCHANGED vars
  BY <1>1, <1>7 DEF vars, gateVars, runVars
<1> QED
  BY <1>2, <1>3, <1>4, <1>5, <1>6, <1>7 DEF Next, Step

------------------------------------------------------------------------------
(* What the gate goes by is recent *)

Places == {"none", "provisioning", "ready", "failed", "deleted"}

\* The history is right about what AWS and the tables say now.
HistoryInv ==
  /\ sinceTables \in [Conf -> 0 .. Ttl]
  /\ sinceAws \in 0 .. Ttl
  /\ sinceBad \in [Conf -> 0 .. Ttl]
  /\ AwsAllows(missing) => sinceAws = 0
  /\ ~AwsAllows(missing) => \A c \in Conf : sinceBad[c] = 0
  /\ \A c \in AllowedConfs(Tables) : sinceTables[c] = 0
  /\ \A c \in ForbiddenConfs(Tables) : sinceBad[c] = 0

IsPass(p) ==
  /\ p \in [todo : SUBSET Run, done : SUBSET Run, seen : Places, stamp : 0 .. Ttl - 1,
            building : BOOLEAN, tables : {p.tables}]
  /\ ~p.building => p.stamp = 0
  /\ p.building => p.todo # {}

\* What a build read of the tables was so within the time that it has taken.
SoundPass(p) ==
  p.building =>
    /\ \A c \in AllowedConfs(p.tables) : sinceTables[c] <= p.stamp
    /\ \A c \in ForbiddenConfs(p.tables) : sinceBad[c] <= p.stamp

\* The runs of a pass are queued, and in no other pass.
PassInv ==
  /\ pass = [s \in Scheduler |-> pass[s]]
  /\ \A s \in Scheduler : IsPass(pass[s]) /\ SoundPass(pass[s])
  /\ \A s \in Scheduler : \A r \in pass[s].todo : run[r] = "queued"
  /\ \A s, t \in Scheduler : s # t => pass[s].todo \cap pass[t].todo = {}

Entries == [key : Places \X Conf, ready : BOOLEAN, age : 0 .. Ttl]

\* What an entry says was so within its age.
Sound(e) ==
  /\ e.ready => e.key[1] = "ready" /\ sinceTables[e.key[2]] <= e.age /\ sinceAws <= e.age
  /\ ~e.ready /\ e.key[1] = "ready" => sinceBad[e.key[2]] <= e.age

SoundEntries == {e \in Entries : Sound(e)}

CacheInv ==
  /\ cache \in [Scheduler -> Seq(SoundEntries)]
  /\ \A s \in Scheduler : Len(cache[s]) <= CacheMax

LEMMA ConfsAreConfs ==
  ASSUME NEW tables
  PROVE  AllowedConfs(tables) \subseteq Conf /\ ForbiddenConfs(tables) \subseteq Conf
  BY DEF AllowedConfs, ForbiddenConfs, Conf

LEMMA MinOfTwo ==
  ASSUME NEW a \in Nat, NEW b \in Nat
  PROVE  Min({a, b}) = IF a <= b THEN a ELSE b
  BY DEF Min

\* The history moves by the time that passes at most, and stays right.
LEMMA HistoryOfStep ==
  ASSUME HistoryInv, NEW ticks \in {0, 1}, Remember(ticks)
  PROVE  /\ HistoryInv'
         /\ \A c \in Conf : sinceTables'[c] <= sinceTables[c] + ticks
         /\ sinceAws' <= sinceAws + ticks
         /\ \A c \in Conf : sinceBad'[c] <= sinceBad[c] + ticks
<1> DEFINE after(age) == Min({age + ticks, Ttl})
<1>1. ASSUME NEW age \in 0 .. Ttl PROVE after(age) \in 0 .. Ttl /\ after(age) <= age + ticks
  BY <1>1, MinOfTwo
<1>2. /\ sinceTables' = [c \in Conf |-> IF c \in AllowedConfs(Tables') THEN 0
                                        ELSE after(sinceTables[c])]
      /\ sinceAws' = IF AwsAllows(missing') THEN 0 ELSE after(sinceAws)
      /\ sinceBad' = [c \in Conf |-> IF ~AwsAllows(missing') \/ c \in ForbiddenConfs(Tables')
                                     THEN 0 ELSE after(sinceBad[c])]
  BY DEF Remember
<1> HIDE DEF after
<1>3. /\ sinceTables' \in [Conf -> 0 .. Ttl]
      /\ \A c \in Conf : sinceTables'[c] <= sinceTables[c] + ticks
      /\ \A c \in AllowedConfs(Tables') : sinceTables'[c] = 0
  BY <1>1, <1>2, ConfsAreConfs DEF HistoryInv
<1>4. /\ sinceAws' \in 0 .. Ttl
      /\ sinceAws' <= sinceAws + ticks
      /\ AwsAllows(missing') => sinceAws' = 0
  BY <1>1, <1>2 DEF HistoryInv
<1>5. /\ sinceBad' \in [Conf -> 0 .. Ttl]
      /\ \A c \in Conf : sinceBad'[c] <= sinceBad[c] + ticks
      /\ \A c \in ForbiddenConfs(Tables') : sinceBad'[c] = 0
      /\ ~AwsAllows(missing') => \A c \in Conf : sinceBad'[c] = 0
  BY <1>1, <1>2, ConfsAreConfs DEF HistoryInv
<1> QED
  BY <1>3, <1>4, <1>5 DEF HistoryInv

LEMMA FirstIsOfThePass ==
  ASSUME PassInv, NEW s \in Scheduler, pass[s].todo # {}
  PROVE  First(s) \in pass[s].todo /\ First(s) \in Run /\ Key(s) \in Places \X Conf
<1>1. pass[s].todo \in SUBSET Nat /\ pass[s].todo \subseteq Run /\ pass[s].seen \in Places
  BY DEF PassInv, IsPass
<1>2. First(s) \in pass[s].todo
  BY <1>1, MinIsIn DEF First
<1> QED
  BY <1>1, <1>2 DEF Key, Conf

------------------------------------------------------------------------------
(* Passes *)

\* A pass that a step leaves as it is stays sound, as no time passes.
LEMMA PassKept ==
  ASSUME HistoryInv, PassInv, Remember(0), NEW s \in Scheduler, pass'[s] = pass[s]
  PROVE  IsPass(pass'[s]) /\ SoundPass(pass[s])'
<1>1. IsPass(pass[s]) /\ SoundPass(pass[s])
  BY DEF PassInv
<1>2. /\ \A c \in Conf : sinceTables'[c] <= sinceTables[c] /\ sinceBad'[c] <= sinceBad[c]
      /\ \A c \in Conf : sinceTables[c] \in Nat /\ sinceTables'[c] \in Nat
      /\ \A c \in Conf : sinceBad[c] \in Nat /\ sinceBad'[c] \in Nat
  <2>1. HistoryInv'
    BY HistoryOfStep
  <2>2. \A c \in Conf : sinceTables'[c] <= sinceTables[c] + 0 /\ sinceBad'[c] <= sinceBad[c] + 0
    BY HistoryOfStep
  <2> QED
    BY <2>1, <2>2 DEF HistoryInv
<1>3. pass[s].stamp \in Nat
  BY <1>1 DEF IsPass
<1>4. SoundPass(pass[s])'
  BY <1>1, <1>2, <1>3, ConfsAreConfs DEF SoundPass
<1> QED
  BY <1>1, <1>4

\* It is enough to look at the pass of one scheduler, and at the runs that change.
LEMMA PassOfStep ==
  ASSUME HistoryInv, PassInv, Remember(0), NEW s \in Scheduler, NEW p,
         pass' = [pass EXCEPT ![s] = p], IsPass(p), SoundPass(pass[s])',
         \A r \in p.todo : run'[r] = "queued",
         \A t \in Scheduler : t # s =>
            \A r \in pass[t].todo : r \notin p.todo /\ run'[r] = "queued"
  PROVE  PassInv'
<1>1. pass' = [t \in Scheduler |-> pass'[t]] /\ pass'[s] = p
      /\ \A t \in Scheduler : t # s => pass'[t] = pass[t]
  BY DEF PassInv
<1>2. \A t \in Scheduler : IsPass(pass[t])' /\ SoundPass(pass[t])'
  <2> TAKE t \in Scheduler
  <2>1. CASE t = s
    BY <1>1, <2>1 DEF IsPass
  <2>2. CASE t # s
    BY <1>1, <2>2, PassKept DEF IsPass
  <2> QED
    BY <2>1, <2>2
<1>3. \A t \in Scheduler : \A r \in pass'[t].todo : run'[r] = "queued"
  BY <1>1
<1>4. \A t, u \in Scheduler : t # u => pass'[t].todo \cap pass'[u].todo = {}
  BY <1>1 DEF PassInv
<1> QED
  BY <1>1, <1>2, <1>3, <1>4 DEF PassInv

\* The same for a step that leaves the passes as they are.
LEMMA PassesKept ==
  ASSUME HistoryInv, PassInv, Remember(0), UNCHANGED pass,
         \A s \in Scheduler : \A r \in pass[s].todo : run'[r] = run[r]
  PROVE  PassInv'
<1>1. \A s \in Scheduler : IsPass(pass[s])' /\ SoundPass(pass[s])'
  BY PassKept DEF IsPass
<1> QED
  BY <1>1 DEF PassInv

LEMMA PassOfSettle ==
  ASSUME HistoryInv, PassInv, RowsInv, Remember(0), NEW s \in Scheduler,
         pass[s].todo # {}, NEW outcome, Settle(s, outcome)
  PROVE  PassInv'
<1> DEFINE r == First(s)
           p == [pass[s] EXCEPT !.todo = pass[s].todo \ {r}, !.done = pass[s].done \cup {r},
                                !.stamp = 0, !.building = FALSE, !.tables = NoTables]
<1>1. r \in pass[s].todo /\ r \in Run
  BY FirstIsOfThePass
<1>2. IsPass(pass[s])
  BY DEF PassInv
<1>3. /\ p.todo = pass[s].todo \ {r} /\ p.building = FALSE /\ p.stamp = 0
      /\ IsPass(p)
  <2>1. /\ p.todo = pass[s].todo \ {r} /\ p.done = pass[s].done \cup {r}
        /\ p.building = FALSE /\ p.stamp = 0 /\ p.tables = NoTables
    BY <1>2 DEF IsPass
  <2>2. p \in [todo : SUBSET Run, done : SUBSET Run, seen : Places, stamp : 0 .. Ttl - 1,
               building : BOOLEAN, tables : {NoTables}]
    <3>1. /\ 0 \in 0 .. Ttl - 1
          /\ pass[s].todo \ {r} \in SUBSET Run /\ pass[s].done \cup {r} \in SUBSET Run
      BY <1>1, <1>2 DEF IsPass
    <3> HIDE DEF r
    <3> QED
      BY <1>2, <3>1 DEF IsPass
  <2> HIDE DEF p
  <2> QED
    BY <2>1, <2>2 DEF IsPass
<1>4. pass' = [pass EXCEPT ![s] = p]
  <2>1. pass' = [pass EXCEPT ![s].todo = @ \ {r}, ![s].done = @ \cup {r}, ![s].stamp = 0,
                             ![s].building = FALSE, ![s].tables = NoTables]
    BY DEF Settle
  <2> QED
    BY <2>1 DEF PassInv
<1> HIDE DEF p
<1>6. pass'[s] = p
  BY <1>4 DEF PassInv
<1>7. SoundPass(pass[s])'
  BY <1>3, <1>6 DEF SoundPass
<1>8. \A q \in Run : q # r => run'[q] = run[q]
  BY DEF Settle, RowsInv
<1>9. \A q \in p.todo : run'[q] = "queued"
  BY <1>2, <1>3, <1>8 DEF PassInv, IsPass
<1>10. \A t \in Scheduler : t # s =>
         \A q \in pass[t].todo : q \notin p.todo /\ run'[q] = "queued"
  BY <1>1, <1>3, <1>8 DEF PassInv, IsPass
<1> QED
  BY <1>3, <1>4, <1>7, <1>9, <1>10, PassOfStep

LEMMA PassOfLookMiss ==
  ASSUME HistoryInv, PassInv, Remember(0), NEW s \in Scheduler, LookMiss(s)
  PROVE  PassInv'
<1> DEFINE p == [pass[s] EXCEPT !.building = TRUE, !.tables = Tables]
<1>1. IsPass(pass[s]) /\ pass[s].stamp = 0 /\ pass[s].todo # {}
  BY DEF PassInv, IsPass, LookMiss
<1>2. pass' = [pass EXCEPT ![s] = p] /\ UNCHANGED <<run, outsideVars, ledgerVars>>
  BY DEF LookMiss, PassInv
<1>3. p.todo = pass[s].todo /\ p.stamp = 0 /\ p.tables = Tables
  BY <1>1 DEF IsPass
<1>4. IsPass(p)
  BY <1>1 DEF IsPass
<1> HIDE DEF p
<1>5. pass'[s] = p
  BY <1>2 DEF PassInv
<1>6. Tables' = Tables
  BY <1>2 DEF Tables, outsideVars, ledgerVars, SpendIn, Allocated, Effective
<1>7. HistoryInv'
  BY HistoryOfStep
<1>8. SoundPass(pass[s])'
  BY <1>3, <1>5, <1>6, <1>7 DEF SoundPass, HistoryInv
<1>9. /\ \A r \in p.todo : run'[r] = "queued"
      /\ \A t \in Scheduler : t # s => \A r \in pass[t].todo : r \notin p.todo /\ run'[r] = "queued"
  BY <1>2, <1>3 DEF PassInv
<1> QED
  BY <1>2, <1>4, <1>8, <1>9, PassOfStep

LEMMA PassOfBegin ==
  ASSUME HistoryInv, PassInv, RowsInv, Remember(0), NEW s \in Scheduler, Begin(s)
  PROVE  PassInv'
<1> DEFINE free == {r \in Run : run[r] = "queued" /\ ~InPass(r)}
           p == [NoPass EXCEPT !.todo = free, !.seen = status]
<1>1. pass[s] = NoPass /\ UNCHANGED run
  BY DEF Begin
<1>2. pass' = [pass EXCEPT ![s] = p]
  BY <1>1 DEF Begin, PassInv
<1>3. p.todo = free /\ p.building = FALSE
  BY DEF NoPass
<1>4. IsPass(p)
  <2>1. p \in [todo : SUBSET Run, done : SUBSET Run, seen : Places, stamp : 0 .. Ttl - 1,
               building : BOOLEAN, tables : {NoTables}]
    <3>1. 0 \in 0 .. Ttl - 1 /\ free \in SUBSET Run /\ {} \in SUBSET Run /\ status \in Places
      BY DEF RowsInv, Places
    <3> HIDE DEF free
    <3> QED
      BY <3>1 DEF NoPass
  <2>2. p.tables = NoTables /\ p.stamp = 0
    BY DEF NoPass
  <2> HIDE DEF p
  <2> QED
    BY <1>3, <2>1, <2>2 DEF IsPass
<1> HIDE DEF p
<1>5. SoundPass(pass[s])'
  BY <1>2, <1>3 DEF SoundPass, PassInv
<1>6. \A r \in p.todo : run'[r] = "queued"
  BY <1>1, <1>3
<1>7. \A t \in Scheduler : t # s => \A r \in pass[t].todo : r \notin p.todo /\ run'[r] = "queued"
  BY <1>1, <1>3 DEF PassInv, InPass
<1> QED
  BY <1>2, <1>4, <1>5, <1>6, <1>7, PassOfStep

LEMMA PassOfItsEnd ==
  ASSUME HistoryInv, PassInv, RowsInv, Remember(0), NEW s \in Scheduler,
         PassEnds(s) \/ SchedulerCrash(s)
  PROVE  PassInv'
<1>1. pass' = [pass EXCEPT ![s] = NoPass]
  BY DEF PassEnds, SchedulerCrash
<1>2. \A r \in Run : run'[r] = run[r] \/ run'[r] = "queued"
  BY DEF PassEnds, SchedulerCrash
<1>3. IsPass(NoPass)
  BY DEF IsPass, NoPass, Places
<1>4. SoundPass(pass[s])'
  BY <1>1 DEF SoundPass, PassInv, NoPass
<1>5. NoPass.todo = {}
  BY DEF NoPass
<1>6. \A t \in Scheduler : \A r \in pass[t].todo : r \in Run /\ run[r] = "queued"
  BY DEF PassInv, IsPass
<1> QED
  BY <1>1, <1>2, <1>3, <1>4, <1>5, <1>6, PassOfStep

LEMMA PassOfTick ==
  ASSUME HistoryInv, PassInv, Tick, Remember(1)
  PROVE  PassInv'
<1>1. /\ pass' = [s \in Scheduler |->
                    [pass[s] EXCEPT !.stamp = IF pass[s].building THEN @ + 1 ELSE @]]
      /\ UNCHANGED run
      /\ \A s \in Scheduler : pass[s].building => pass[s].stamp + 1 < Ttl
  BY DEF Tick
<1>2. ASSUME NEW s \in Scheduler
      PROVE  /\ IsPass(pass'[s]) /\ SoundPass(pass[s])'
             /\ pass'[s].todo = pass[s].todo
  <2>1. IsPass(pass[s]) /\ SoundPass(pass[s])
    BY DEF PassInv
  <2>2. pass'[s] = [pass[s] EXCEPT !.stamp = IF pass[s].building THEN pass[s].stamp + 1
                                             ELSE pass[s].stamp]
    BY <1>1
  <2> DEFINE p == pass'[s]
  <2>3. /\ p.todo = pass[s].todo /\ p.building = pass[s].building
        /\ p.stamp = IF pass[s].building THEN pass[s].stamp + 1 ELSE pass[s].stamp
        /\ p.tables = pass[s].tables
    BY <2>1, <2>2 DEF IsPass
  <2>4. IsPass(p)
    BY <1>1, <2>1, <2>2 DEF IsPass
  <2> HIDE DEF p
  <2>5. /\ \A c \in Conf : sinceTables'[c] <= sinceTables[c] + 1
        /\ \A c \in Conf : sinceBad'[c] <= sinceBad[c] + 1
        /\ \A c \in Conf : sinceTables[c] \in Nat /\ sinceTables'[c] \in Nat
        /\ \A c \in Conf : sinceBad[c] \in Nat /\ sinceBad'[c] \in Nat
    <3>1. HistoryInv'
      BY HistoryOfStep
    <3>2. \A c \in Conf : sinceTables'[c] <= sinceTables[c] + 1 /\ sinceBad'[c] <= sinceBad[c] + 1
      BY HistoryOfStep
    <3> QED
      BY <3>1, <3>2 DEF HistoryInv
  <2>6. pass[s].stamp \in Nat
    BY <2>1 DEF IsPass
  <2>7. p.building =>
          /\ \A c \in AllowedConfs(p.tables) : sinceTables'[c] <= p.stamp
          /\ \A c \in ForbiddenConfs(p.tables) : sinceBad'[c] <= p.stamp
    BY <2>1, <2>3, <2>5, <2>6, ConfsAreConfs DEF SoundPass
  <2> QED
    BY <2>3, <2>4, <2>7 DEF p, SoundPass
<1>3. pass' = [s \in Scheduler |-> pass'[s]]
  BY <1>1
<1>4. /\ \A s \in Scheduler : \A r \in pass'[s].todo : run'[r] = "queued"
      /\ \A s, t \in Scheduler : s # t => pass'[s].todo \cap pass'[t].todo = {}
  BY <1>1, <1>2 DEF PassInv
<1>5. \A s \in Scheduler : IsPass(pass[s])' /\ SoundPass(pass[s])'
  BY <1>2 DEF IsPass
<1> QED
  BY <1>3, <1>4, <1>5 DEF PassInv

------------------------------------------------------------------------------
(* Builds and the cache *)

IsVerdict(s, v) == <<<<First(s), pass[s].seen, missing, pass[s].tables>>, v>> \in Verdicts

LEMMA VerdictsAre ==
  ASSUME NEW r, NEW seen, NEW gone, NEW tables, NEW v,
         <<<<r, seen, gone, tables>>, v>> \in Verdicts
  PROVE  /\ r \in Run /\ gone \in SUBSET Drift /\ tables \in TablesRead
         /\ v = Verdict(RunReading(r, seen, tables, Fact \ gone))
<1>1. PICK z \in Readings :
        <<<<r, seen, gone, tables>>, v>> =
          <<z, Verdict(RunReading(z[1], z[2], z[4], Fact \ z[3]))>>
  BY DEF Verdicts
<1>2. z = <<r, seen, gone, tables>>
  BY <1>1
<1>3. v = Verdict(RunReading(r, seen, tables, Fact \ gone))
  BY <1>1, <1>2
<1>4. r \in Run /\ gone \in SUBSET Drift /\ tables \in TablesRead
  BY <1>2 DEF Readings
<1> QED
  BY <1>3, <1>4

\* What a build finds is so of AWS now, and was so of the tables when it began.
LEMMA BuildIsSound ==
  ASSUME HistoryInv, PassInv, NEW s \in Scheduler, pass[s].building, NEW v, IsVerdict(s, v)
  PROVE  LET c == Ask[First(s)].conf
         IN /\ v = "pass" => /\ pass[s].seen = "ready"
                             /\ sinceTables[c] <= pass[s].stamp
                             /\ sinceAws = 0
            /\ v # "pass" /\ pass[s].seen = "ready" => sinceBad[c] <= pass[s].stamp
<1> DEFINE r == First(s)
           tables == pass[s].tables
<1>1. /\ r \in Run /\ missing \in SUBSET Drift /\ tables \in TablesRead
      /\ v = Verdict(RunReading(r, pass[s].seen, tables, Fact \ missing))
  BY VerdictsAre DEF IsVerdict
<1>2. v = "pass" <=>
        pass[s].seen = "ready" /\ AwsAllows(missing) /\ TablesAllow(r, tables)
  BY <1>1, PreflightIsExact
<1>3. /\ SoundPass(pass[s]) /\ pass[s].stamp \in Nat
      /\ Ask[r].conf \in Conf
  BY <1>1 DEF PassInv, IsPass, Conf
<1>4. TablesAllow(r, tables) => sinceTables[Ask[r].conf] <= pass[s].stamp
  <2>1. TablesAllow(r, tables) => Ask[r].conf \in AllowedConfs(tables)
    BY <1>1 DEF AllowedConfs
  <2> QED
    BY <1>3, <2>1 DEF SoundPass
<1>5. ~TablesAllow(r, tables) => sinceBad[Ask[r].conf] <= pass[s].stamp
  <2>1. ~TablesAllow(r, tables) => Ask[r].conf \in ForbiddenConfs(tables)
    BY <1>1 DEF ForbiddenConfs
  <2> QED
    BY <1>3, <2>1 DEF SoundPass
<1>6. ~AwsAllows(missing) => sinceBad[Ask[r].conf] = 0
  BY <1>3 DEF HistoryInv
<1>7. AwsAllows(missing) => sinceAws = 0
  BY DEF HistoryInv
<1> QED
  BY <1>2, <1>3, <1>4, <1>5, <1>6, <1>7

LEMMA EntryIsSound ==
  ASSUME HistoryInv, PassInv, NEW s \in Scheduler, pass[s].building,
         NEW v, IsVerdict(s, v)
  PROVE  Entry(s, v = "pass") \in SoundEntries
<1>1. Key(s) \in Places \X Conf /\ Key(s)[1] = pass[s].seen /\ Key(s)[2] = Ask[First(s)].conf
  BY FirstIsOfThePass DEF PassInv, IsPass, Key
<1>2. pass[s].stamp \in 0 .. Ttl - 1
  BY DEF PassInv, IsPass
<1>3. Entry(s, v = "pass") \in Entries
  BY <1>1, <1>2 DEF Entry, Entries
<1> DEFINE e == Entry(s, v = "pass")
           c == Ask[First(s)].conf
<1>4. /\ e.key[1] = pass[s].seen /\ e.key[2] = c
      /\ e.ready = (v = "pass") /\ e.age = pass[s].stamp
  BY <1>1 DEF Entry
<1>5. /\ v = "pass" => pass[s].seen = "ready" /\ sinceTables[c] <= pass[s].stamp /\ sinceAws = 0
      /\ v # "pass" /\ pass[s].seen = "ready" => sinceBad[c] <= pass[s].stamp
  BY BuildIsSound
<1> HIDE DEF e, c
<1>6. Sound(e)
  <2>1. CASE v = "pass"
    <3>1. e.ready /\ e.key[1] = "ready"
      BY <1>4, <1>5, <2>1
    <3>2. sinceTables[e.key[2]] <= e.age /\ sinceAws <= e.age
      BY <1>2, <1>4, <1>5, <2>1
    <3> QED
      BY <3>1, <3>2, Zenon DEF Sound
  <2>2. CASE v # "pass"
    BY <1>2, <1>4, <1>5, <2>2 DEF Sound
  <2> QED
    BY <2>1, <2>2
<1> QED
  BY <1>3, <1>6 DEF SoundEntries, e

LEMMA TouchKeeps ==
  ASSUME NEW E, NEW entries \in Seq(E), NEW i \in DOMAIN entries
  PROVE  Touch(entries, i) \in Seq(E) /\ Len(Touch(entries, i)) = Len(entries)
<1>1. i \in 1 .. Len(entries) /\ Len(entries) \in Nat /\ entries[i] \in E
  BY LenProperties, ElementOfSeq
<1>2. /\ SubSeq(entries, 1, i - 1) \in Seq(E) /\ Len(SubSeq(entries, 1, i - 1)) = i - 1
      /\ SubSeq(entries, i + 1, Len(entries)) \in Seq(E)
      /\ Len(SubSeq(entries, i + 1, Len(entries))) = Len(entries) - i
  BY <1>1
<1>3. /\ RemoveAt(entries, i) \in Seq(E)
      /\ Len(RemoveAt(entries, i)) = Len(entries) - 1
  <2> DEFINE left == SubSeq(entries, 1, i - 1)
             right == SubSeq(entries, i + 1, Len(entries))
  <2>1. RemoveAt(entries, i) = left \o right
    BY DEF RemoveAt
  <2> HIDE DEF left, right
  <2>2. /\ left \in Seq(E) /\ right \in Seq(E)
        /\ Len(left) = i - 1 /\ Len(right) = Len(entries) - i
    BY <1>2 DEF left, right
  <2> QED
    BY <1>1, <2>1, <2>2, ConcatProperties
<1> QED
  BY <1>1, <1>3, AppendProperties DEF Touch

\* A scheduler finds sound entries in its cache that are not stale.
LEMMA GoodAreSound ==
  ASSUME CacheInv, NEW s \in Scheduler
  PROVE  /\ cache[s] \in Seq(SoundEntries)
         /\ Good(s) \in Seq(SoundEntries)
         /\ Len(Good(s)) <= CacheMax
         /\ \A i \in DOMAIN Good(s) : Good(s)[i] \in SoundEntries /\ Good(s)[i].age < Ttl
<1>1. cache[s] \in Seq(SoundEntries) /\ Len(cache[s]) <= CacheMax
  BY DEF CacheInv
<1>2. /\ Good(s) \in Seq({e \in SoundEntries : e.age < Ttl})
      /\ Len(Good(s)) <= Len(cache[s])
  BY <1>1, GoodIs
<1>3. Len(cache[s]) \in Nat /\ Len(Good(s)) \in Nat
  BY <1>1, <1>2, LenProperties
<1>4. \A i \in DOMAIN Good(s) : Good(s)[i] \in {e \in SoundEntries : e.age < Ttl}
  BY <1>2, LenProperties, ElementOfSeq
<1>5. Good(s) \in Seq(SoundEntries)
  BY <1>2, SeqMonotonic
<1> QED
  BY <1>1, <1>2, <1>3, <1>4, <1>5

\* As no time passes, what is sound stays sound.
LEMMA CacheOfStep ==
  ASSUME HistoryInv, Remember(0),
         cache' \in [Scheduler -> Seq(SoundEntries)],
         \A s \in Scheduler : Len(cache'[s]) <= CacheMax
  PROVE  CacheInv'
<1>1. /\ \A c \in Conf : sinceTables'[c] <= sinceTables[c] /\ sinceBad'[c] <= sinceBad[c]
      /\ \A c \in Conf : sinceTables[c] \in Nat /\ sinceTables'[c] \in Nat
      /\ \A c \in Conf : sinceBad[c] \in Nat /\ sinceBad'[c] \in Nat
      /\ sinceAws' <= sinceAws /\ sinceAws \in Nat /\ sinceAws' \in Nat
  <2>1. HistoryInv'
    BY HistoryOfStep
  <2>2. /\ \A c \in Conf : sinceTables'[c] <= sinceTables[c] + 0 /\ sinceBad'[c] <= sinceBad[c] + 0
        /\ sinceAws' <= sinceAws + 0
    BY HistoryOfStep
  <2> QED
    BY <2>1, <2>2 DEF HistoryInv
<1>2. SoundEntries \subseteq SoundEntries'
  <2>1. ASSUME NEW e \in SoundEntries PROVE e \in SoundEntries'
    <3>1. /\ e \in Entries /\ e.key[2] \in Conf /\ e.age \in Nat
          /\ Sound(e)
      BY DEF SoundEntries, Entries
    <3>2. Sound(e)'
      BY <1>1, <3>1 DEF Sound
    <3> QED
      BY <3>1, <3>2 DEF SoundEntries, Entries
  <2> QED
    BY <2>1
<1>3. Seq(SoundEntries) \subseteq Seq(SoundEntries')
  BY <1>2, SeqMonotonic
<1>4. cache' \in [Scheduler -> Seq(SoundEntries')]
  BY <1>3
<1> QED
  BY <1>4 DEF CacheInv

LEMMA CacheOfScheduler ==
  ASSUME HistoryInv, PassInv, CacheInv, Remember(0), NEW s \in Scheduler,
         SchedulerStep(s) \/ SchedulerCrash(s)
  PROVE  CacheInv'
<1>1. SUFFICES cache' = cache \/
               \E q \in Seq(SoundEntries) : cache' = [cache EXCEPT ![s] = q] /\ Len(q) <= CacheMax
  BY CacheOfStep DEF CacheInv
<1>2. CASE PassEnds(s) \/ Begin(s)
  BY <1>2 DEF PassEnds, Begin
<1>3. CASE SchedulerCrash(s)
  <2>1. << >> \in Seq(SoundEntries) /\ Len(<< >>) <= CacheMax
    OBVIOUS
  <2> QED
    BY <1>3, <2>1 DEF SchedulerCrash
<1>4. CASE LookHit(s)
  <2>1. PICK i \in DOMAIN Good(s) : cache' = [cache EXCEPT ![s] = Touch(Good(s), i)]
    BY <1>4 DEF LookHit
  <2>2. Touch(Good(s), i) \in Seq(SoundEntries) /\ Len(Touch(Good(s), i)) = Len(Good(s))
    BY GoodAreSound, TouchKeeps
  <2> QED
    BY <2>1, <2>2, GoodAreSound
<1>5. CASE LookMiss(s)
  BY <1>5, GoodAreSound DEF LookMiss
<1>6. CASE BuildEnds(s)
  <2>1. CASE UNCHANGED cache
    BY <2>1
  <2>2. ASSUME NEW v, IsVerdict(s, v),
               cache' = [cache EXCEPT ![s] = Trim(Append(cache[s], Entry(s, v = "pass")))]
        PROVE  \E q \in Seq(SoundEntries) :
                 cache' = [cache EXCEPT ![s] = q] /\ Len(q) <= CacheMax
    <3> DEFINE e == Entry(s, v = "pass")
    <3>1. e \in SoundEntries
      BY <1>6, <2>2, EntryIsSound DEF BuildEnds
    <3>2. cache[s] \in Seq(SoundEntries) /\ Len(cache[s]) \in Nat /\ Len(cache[s]) <= CacheMax
      BY LenProperties DEF CacheInv
    <3> HIDE DEF e
    <3> DEFINE more == Append(cache[s], e)
    <3>3. more \in Seq(SoundEntries) /\ Len(more) = Len(cache[s]) + 1 /\ more # << >>
      BY <3>1, <3>2, AppendProperties
    <3> HIDE DEF more
    <3>4. Trim(more) \in Seq(SoundEntries) /\ Len(Trim(more)) <= CacheMax
      BY <3>2, <3>3, HeadTailProperties DEF Trim
    <3> QED
      BY <2>2, <3>4 DEF more, e
  <2>3. \/ UNCHANGED cache
        \/ /\ IsVerdict(s, "pass") \/ IsVerdict(s, "fail")
           /\ cache' = [cache EXCEPT ![s] =
                          Trim(Append(cache[s], Entry(s, IsVerdict(s, "pass"))))]
    BY <1>6, Zenon DEF BuildEnds, IsVerdict
  <2>4. CASE IsVerdict(s, "pass")
    <3>1. IsVerdict(s, "pass") = ("pass" = "pass")
      BY <2>4 DEF IsVerdict
    <3> QED
      BY <2>1, <2>2, <2>3, <2>4, <3>1
  <2>5. CASE ~IsVerdict(s, "pass")
    <3>1. IsVerdict(s, "pass") = ("fail" = "pass")
      BY <2>5 DEF IsVerdict
    <3> QED
      BY <2>1, <2>2, <2>3, <2>5, <3>1
  <2> QED
    BY <2>4, <2>5
<1> QED
  BY <1>2, <1>3, <1>4, <1>5, <1>6 DEF SchedulerStep

\* A tick makes an entry older, and what it says at most as much longer ago.
LEMMA CacheOfTick ==
  ASSUME HistoryInv, CacheInv, Tick, Remember(1)
  PROVE  CacheInv'
<1> DEFINE older(e) == [e EXCEPT !.age = Min({e.age + 1, Ttl})]
<1>1. cache' = [s \in Scheduler |-> [i \in DOMAIN cache[s] |-> older(cache[s][i])]]
  BY DEF Tick
<1>2. /\ \A c \in Conf : sinceTables'[c] <= sinceTables[c] + 1 /\ sinceBad'[c] <= sinceBad[c] + 1
      /\ \A c \in Conf : sinceTables[c] \in Nat /\ sinceTables'[c] \in 0 .. Ttl
      /\ \A c \in Conf : sinceBad[c] \in Nat /\ sinceBad'[c] \in 0 .. Ttl
      /\ sinceAws' <= sinceAws + 1 /\ sinceAws \in Nat /\ sinceAws' \in 0 .. Ttl
  <2>1. HistoryInv'
    BY HistoryOfStep
  <2>2. /\ \A c \in Conf : sinceTables'[c] <= sinceTables[c] + 1 /\ sinceBad'[c] <= sinceBad[c] + 1
        /\ sinceAws' <= sinceAws + 1
    BY HistoryOfStep
  <2> QED
    BY <2>1, <2>2 DEF HistoryInv
<1>3. ASSUME NEW e \in SoundEntries PROVE older(e) \in SoundEntries'
  <2>1. /\ e \in Entries /\ e.key[2] \in Conf /\ e.age \in 0 .. Ttl /\ e.ready \in BOOLEAN
        /\ Sound(e)
    BY DEF SoundEntries, Entries
  <2>2. Min({e.age + 1, Ttl}) \in 0 .. Ttl
        /\ Min({e.age + 1, Ttl}) = IF e.age + 1 <= Ttl THEN e.age + 1 ELSE Ttl
    BY <2>1, MinOfTwo
  <2>3. older(e) \in Entries
        /\ older(e).key = e.key /\ older(e).ready = e.ready
        /\ older(e).age = Min({e.age + 1, Ttl})
    BY <2>1, <2>2 DEF Entries
  <2> HIDE DEF older
  <2>4. Sound(older(e))'
    BY <1>2, <2>1, <2>2, <2>3 DEF Sound
  <2> QED
    BY <2>3, <2>4 DEF SoundEntries, Entries
<1> HIDE DEF older
<1>4. ASSUME NEW s \in Scheduler
      PROVE  cache'[s] \in Seq(SoundEntries') /\ Len(cache'[s]) <= CacheMax
  <2>1. cache[s] \in Seq(SoundEntries) /\ Len(cache[s]) <= CacheMax
    BY DEF CacheInv
  <2>2. /\ Len(cache[s]) \in Nat /\ DOMAIN cache[s] = 1 .. Len(cache[s])
        /\ \A i \in 1 .. Len(cache[s]) : cache[s][i] \in SoundEntries
    BY <2>1, LenProperties, ElementOfSeq
  <2>3. cache'[s] = [i \in 1 .. Len(cache[s]) |-> older(cache[s][i])]
    BY <1>1, <2>2
  <2>4. cache'[s] \in Seq(SoundEntries')
    BY <1>3, <2>2, <2>3
  <2>5. Len(cache'[s]) = Len(cache[s])
    BY <2>2, <2>3, <2>4, LenProperties
  <2> QED
    BY <2>1, <2>4, <2>5
<1> QED
  BY <1>1, <1>4 DEF CacheInv

------------------------------------------------------------------------------
(* The gate as a whole *)

GateInv == RowsInv /\ HistoryInv /\ PassInv /\ CacheInv

\* What the steps of others leave alone.
LEMMA OthersKeepRuns ==
  ASSUME \/ ProvisionerStep \/ OutsideStep \/ DeleteLooks \/ DeleteWrites
         \/ LedgerStep /\ UNCHANGED gateVars
  PROVE  UNCHANGED <<run, pass, cache>>
<1>1. CASE ProvisionerStep
  BY <1>1 DEF ProvisionerStep, LiteValidate, LiteUpdateTrust, LiteLook, LiteCreate,
     LiteCommit, LiteRestart, runVars
<1>2. CASE DeleteLooks \/ DeleteWrites
  BY <1>2 DEF DeleteLooks, DeleteWrites, runVars
<1>3. CASE OutsideStep
  BY <1>3 DEF OutsideStep, FactChanges, StrangerComes, Publish, SyncReleases,
     CreatePolicy, DeletePolicy, runVars
<1>4. CASE LedgerStep /\ UNCHANGED gateVars
  BY <1>4 DEF gateVars, runVars
<1> QED
  BY <1>1, <1>2, <1>3, <1>4

\* A run of a pass is settled by that pass, and by nobody else.
LEMMA OthersKeepPasses ==
  ASSUME GateInv,
         \/ ProvisionerStep \/ OutsideStep \/ RequestStep
         \/ LedgerStep /\ UNCHANGED gateVars
         \/ \E r \in Run : RunEnds(r)
  PROVE  /\ UNCHANGED <<pass, cache>>
         /\ \A s \in Scheduler : \A r \in pass[s].todo : run'[r] = run[r]
<1> USE DEF GateInv
<1>1. ASSUME UNCHANGED run PROVE \A s \in Scheduler : \A r \in pass[s].todo : run'[r] = run[r]
  BY <1>1
<1>2. \A s \in Scheduler : \A r \in pass[s].todo : r \in Run /\ run[r] = "queued"
  BY DEF PassInv, IsPass
<1>3. CASE \E q \in Run : Submit(q)
  <2>1. PICK q \in Run : Submit(q)
    BY <1>3
  <2>2. UNCHANGED <<pass, cache>> /\ run[q] = "new" /\ \A r \in Run : r # q => run'[r] = run[r]
    BY <2>1 DEF Submit, RowsInv
  <2> QED
    BY <1>2, <2>2
<1>4. CASE \E q \in Run : RunEnds(q)
  <2>1. PICK q \in Run : RunEnds(q)
    BY <1>4
  <2>2. UNCHANGED <<pass, cache>> /\ ~InPass(q) /\ \A r \in Run : r # q => run'[r] = run[r]
    BY <2>1 DEF RunEnds, RowsInv
  <2> QED
    BY <1>2, <2>2 DEF InPass
<1>5. CASE \/ ProvisionerStep \/ OutsideStep \/ DeleteLooks \/ DeleteWrites
           \/ LedgerStep /\ UNCHANGED gateVars
  BY <1>1, <1>5, OthersKeepRuns
<1> QED
  BY <1>3, <1>4, <1>5 DEF RequestStep

LEMMA PassOfScheduler ==
  ASSUME GateInv, Remember(0), NEW s \in Scheduler, SchedulerStep(s) \/ SchedulerCrash(s)
  PROVE  PassInv'
<1> USE DEF GateInv
<1>1. CASE LookHit(s)
  BY <1>1, PassOfSettle DEF LookHit
<1>2. CASE LookMiss(s)
  BY <1>2, PassOfLookMiss
<1>3. CASE BuildEnds(s)
  <2>1. \E outcome : Settle(s, outcome)
    BY <1>3, Zenon DEF BuildEnds
  <2>2. pass[s].todo # {}
    BY <1>3 DEF BuildEnds, PassInv, IsPass
  <2> QED
    BY <2>1, <2>2, PassOfSettle
<1>4. CASE PassEnds(s) \/ SchedulerCrash(s)
  BY <1>4, PassOfItsEnd
<1>5. CASE Begin(s)
  BY <1>5, PassOfBegin
<1> QED
  BY <1>1, <1>2, <1>3, <1>4, <1>5 DEF SchedulerStep

LEMMA GateInvInit == GateInit => GateInv
<1> SUFFICES ASSUME GateInit PROVE GateInv
  OBVIOUS
<1>1. RowsInv
  <2>1. DOMAIN catalogue \subseteq Release
    BY DEF GateInit
  <2>2. {cluster, occupant} \subseteq Nobody .. Stranger /\ attempt \in 1 .. MaxAttempts
    BY DEF GateInit, Nobody, Stranger
  <2>3. tries \in [Run -> 1 .. MaxAttempts] /\ changes \in 0 .. MaxChanges
    BY DEF GateInit
  <2> QED
    BY <2>1, <2>2, <2>3 DEF GateInit, RowsInv
<1>2. HistoryInv
  BY ConfsAreConfs DEF GateInit, HistoryInv
<1>3. PassInv
  <2>1. pass = [s \in Scheduler |-> NoPass]
    BY DEF GateInit
  <2>2. IsPass(NoPass) /\ NoPass.todo = {} /\ NoPass.building = FALSE
    BY DEF NoPass, IsPass, Places
  <2> QED
    BY <2>1, <2>2 DEF PassInv, SoundPass
<1>4. CacheInv
  BY DEF GateInit, CacheInv
<1> QED
  BY <1>1, <1>2, <1>3, <1>4 DEF GateInv

LEMMA GateStep == GateInv /\ [Next]_vars => GateInv'
<1> SUFFICES ASSUME GateInv, [Next]_vars PROVE GateInv'
  OBVIOUS
<1>1. RowsInv'
  BY RowsStep DEF GateInv
<1>2. CASE Step /\ Remember(0)
  <2>1. HistoryInv'
    BY <1>2, HistoryOfStep DEF GateInv
  <2>2. CASE \E s \in Scheduler : SchedulerStep(s) \/ SchedulerCrash(s)
    BY <1>1, <1>2, <2>1, <2>2, PassOfScheduler, CacheOfScheduler DEF GateInv
  <2>3. CASE \/ ProvisionerStep \/ OutsideStep \/ RequestStep
             \/ LedgerStep /\ UNCHANGED gateVars
             \/ \E r \in Run : RunEnds(r)
    <3>1. /\ UNCHANGED <<pass, cache>>
          /\ \A s \in Scheduler : \A r \in pass[s].todo : run'[r] = run[r]
      BY <2>3, OthersKeepPasses
    <3>2. PassInv'
      BY <1>2, <3>1, PassesKept DEF GateInv
    <3>3. CacheInv'
      BY <1>2, <3>1, CacheOfStep DEF GateInv, CacheInv
    <3> QED
      BY <1>1, <2>1, <3>2, <3>3 DEF GateInv
  <2> QED
    BY <1>2, <2>2, <2>3 DEF Step
<1>3. CASE Tick /\ Remember(1)
  <2>1. HistoryInv'
    BY <1>3, HistoryOfStep DEF GateInv
  <2> QED
    BY <1>1, <1>3, <2>1, PassOfTick, CacheOfTick DEF GateInv
<1>4. CASE UNCHANGED vars
  <2>1. UNCHANGED <<rowVars, outsideVars, run, tries, pass, cache, changes, history, ledgerVars>>
    BY <1>4 DEF vars, gateVars, runVars
  <2>2. Tables' = Tables
    BY <2>1 DEF Tables, outsideVars, ledgerVars, SpendIn, Allocated, Effective
  <2>3. HistoryInv'
    BY <2>1, <2>2 DEF GateInv, HistoryInv, history, outsideVars
  <2>4. PassInv'
    BY <2>1 DEF GateInv, PassInv, IsPass, SoundPass, history
  <2>5. CacheInv'
    BY <2>1 DEF GateInv, CacheInv, SoundEntries, Sound, history
  <2> QED
    BY <1>1, <2>3, <2>4, <2>5 DEF GateInv
<1> QED
  BY <1>2, <1>3, <1>4 DEF Next

\* Each variable of the gate and of the ledger stays within its type, and the
\* cache of each scheduler within its limit (_trim_preflight_cache), for any
\* number of runs, schedulers, policies and releases.
THEOREM GateTypeCorrect == Spec => []GateTypeOK
<1>1. GateInit => LedgerInv
  BY DEF GateInit, LedgerInit, LedgerInv, LedgerTypeOK, Allocated, ToSet
<1>2. LedgerInv /\ [Next]_vars => LedgerInv'
  BY LedgerInvStep
<1>3. GateInit => GateInv
  BY GateInvInit
<1>4. GateInv /\ [Next]_vars => GateInv'
  BY GateStep
<1>5. LedgerInv /\ GateInv => GateTypeOK
  BY DEF LedgerInv, GateInv, RowsInv, CacheInv, GateTypeOK
<1> QED
  BY <1>1, <1>2, <1>3, <1>4, <1>5, PTL DEF Spec

\* A run that a step clears or fails is settled by its pass: from an entry of
\* the cache that is not stale, or from a build.
LEMMA WhoSettles ==
  ASSUME GateInv, Step, NEW s \in Scheduler, NEW r \in pass[s].todo, run'[r] # "queued"
  PROVE  LET c == Ask[r].conf
         IN \/ \E e \in SoundEntries :
                 /\ e.age < Ttl
                 /\ e.key = <<pass[s].seen, c>>
                 /\ run'[r] = Decision(e.ready)
            \/ /\ pass[s].building
               /\ r = First(s)
               /\ \E v : /\ IsVerdict(s, v)
                         /\ run'[r] = IF v = "pass" THEN "cleared" ELSE "failed"
<1> USE DEF GateInv
<1>1. r \in Run /\ run[r] = "queued"
  BY DEF PassInv, IsPass
<1>2. PICK t \in Scheduler : SchedulerStep(t) \/ SchedulerCrash(t)
  BY <1>1, OthersKeepPasses DEF Step
<1>3. LookHit(t) \/ BuildEnds(t)
  BY <1>1, <1>2 DEF SchedulerStep, LookMiss, PassEnds, Begin, SchedulerCrash
<1>4. pass[t].todo # {}
  BY <1>3 DEF LookHit, BuildEnds, PassInv, IsPass
<1>5. \E outcome : Settle(t, outcome)
  BY <1>3, Zenon DEF LookHit, BuildEnds
<1>6. r = First(t)
  BY <1>1, <1>5 DEF Settle, RowsInv
<1>7. t = s
  BY <1>4, <1>6, FirstIsOfThePass DEF PassInv
<1>8. \A outcome : Settle(s, outcome) => run'[r] = outcome
  BY <1>1, <1>6, <1>7 DEF Settle, RowsInv
<1>9. CASE LookHit(t)
  <2>1. PICK i \in DOMAIN Good(s) :
          Good(s)[i].key = Key(s) /\ Settle(s, Decision(Good(s)[i].ready))
    BY <1>7, <1>9 DEF LookHit
  <2>2. Good(s)[i] \in SoundEntries /\ Good(s)[i].age < Ttl
    BY GoodAreSound
  <2> QED
    BY <1>6, <1>7, <1>8, <2>1, <2>2 DEF Key
<1>10. CASE BuildEnds(t)
  <2>1. /\ pass[s].building
        /\ \/ /\ IsVerdict(s, "pass") \/ IsVerdict(s, "fail")
              /\ Settle(s, Decision(IsVerdict(s, "pass")))
           \/ /\ IsVerdict(s, "error") \/ IsVerdict(s, "transient")
              /\ Settle(s, "queued") \/ Settle(s, "failed")
    BY <1>7, <1>10, Zenon DEF BuildEnds, IsVerdict
  <2>2. CASE IsVerdict(s, "pass") /\ Settle(s, Decision(IsVerdict(s, "pass")))
    <3>1. run'[r] = "cleared"
      BY <1>8, <2>2 DEF Decision
    <3> QED
      BY <1>6, <1>7, <2>1, <2>2, <3>1
  <2>3. CASE /\ ~IsVerdict(s, "pass") /\ IsVerdict(s, "fail")
             /\ Settle(s, Decision(IsVerdict(s, "pass")))
    <3>1. run'[r] = "failed"
      BY <1>8, <2>3 DEF Decision
    <3> QED
      BY <1>6, <1>7, <2>1, <2>3, <3>1
  <2>4. CASE \/ IsVerdict(s, "error") /\ Settle(s, "failed")
             \/ IsVerdict(s, "transient") /\ Settle(s, "failed")
    <3>1. run'[r] = "failed"
      BY <1>8, <2>4
    <3> QED
      BY <1>6, <1>7, <2>1, <2>4, <3>1
  <2>5. CASE Settle(s, "queued")
    BY <1>8, <2>5
  <2> QED
    BY <2>1, <2>2, <2>3, <2>4, <2>5
<1> QED
  BY <1>3, <1>9, <1>10

ClearedRightly ==
  \A r \in Run, s \in Scheduler :
    /\ r \in pass[s].todo
    /\ run'[r] = "cleared"
    => /\ pass[s].seen = "ready"
       /\ sinceTables[Ask[r].conf] < Ttl
       /\ sinceAws < Ttl

FailedRightly ==
  \A r \in Run, s \in Scheduler :
    /\ r \in pass[s].todo
    /\ run'[r] = "failed"
    /\ pass[s].seen = "ready"
    => sinceBad[Ask[r].conf] < Ttl

LEMMA SettledRightly == GateInv /\ [Next]_vars => ClearedRightly /\ FailedRightly
<1> SUFFICES ASSUME GateInv, [Next]_vars, NEW r \in Run, NEW s \in Scheduler, r \in pass[s].todo,
                    run'[r] \in {"cleared", "failed"}
             PROVE  LET c == Ask[r].conf
                    IN /\ run'[r] = "cleared" =>
                            pass[s].seen = "ready" /\ sinceTables[c] < Ttl /\ sinceAws < Ttl
                       /\ run'[r] = "failed" /\ pass[s].seen = "ready" => sinceBad[c] < Ttl
  BY DEF ClearedRightly, FailedRightly
<1> DEFINE c == Ask[r].conf
<1>1. run[r] = "queued"
  BY DEF GateInv, PassInv
<1>2. Step
  BY <1>1 DEF Next, Tick, vars, gateVars, runVars
<1>3. /\ c \in Conf /\ sinceTables[c] \in Nat /\ sinceBad[c] \in Nat /\ sinceAws \in Nat
      /\ pass[s].stamp \in 0 .. Ttl - 1
  BY DEF GateInv, HistoryInv, PassInv, IsPass, Conf
<1>4. ASSUME NEW e \in SoundEntries, e.age < Ttl, e.key = <<pass[s].seen, c>>,
             run'[r] = Decision(e.ready)
      PROVE  /\ run'[r] = "cleared" =>
                  pass[s].seen = "ready" /\ sinceTables[c] < Ttl /\ sinceAws < Ttl
             /\ run'[r] = "failed" /\ pass[s].seen = "ready" => sinceBad[c] < Ttl
  <2>1. e.age \in Nat /\ Sound(e) /\ e.key[1] = pass[s].seen /\ e.key[2] = c
    BY <1>4 DEF SoundEntries, Entries
  <2>2. run'[r] = IF e.ready THEN "cleared" ELSE "failed"
    BY <1>4 DEF Decision
  <2> QED
    BY <1>3, <1>4, <2>1, <2>2 DEF Sound
<1>5. ASSUME pass[s].building, r = First(s), NEW v, IsVerdict(s, v),
             run'[r] = IF v = "pass" THEN "cleared" ELSE "failed"
      PROVE  /\ run'[r] = "cleared" =>
                  pass[s].seen = "ready" /\ sinceTables[c] < Ttl /\ sinceAws < Ttl
             /\ run'[r] = "failed" /\ pass[s].seen = "ready" => sinceBad[c] < Ttl
  <2>1. /\ v = "pass" => pass[s].seen = "ready" /\ sinceTables[c] <= pass[s].stamp /\ sinceAws = 0
        /\ v # "pass" /\ pass[s].seen = "ready" => sinceBad[c] <= pass[s].stamp
    BY <1>5, BuildIsSound DEF GateInv
  <2> QED
    BY <1>3, <1>5, <2>1
<1> QED
  BY <1>2, <1>4, <1>5, WhoSettles

\* A run that the gate lets through belonged to an environment that was ready,
\* and AWS and the tables would each have let a run with its Spark configuration
\* through within the TTL, whatever the schedulers cached, however long a build
\* took of the TTL, and whatever changed (_build_preflight_cached).
THEOREM ClearedRecently == Spec => ClearedOnRecentChecks
<1>1. GateInit => GateInv
  BY GateInvInit
<1>2. GateInv /\ [Next]_vars => GateInv'
  BY GateStep
<1>3. GateInv /\ [Next]_vars => ClearedRightly
  BY SettledRightly
<1> QED
  BY <1>1, <1>2, <1>3, PTL DEF Spec, ClearedOnRecentChecks, ClearedRightly

\* A run that fails at the gate of a ready environment fails on something that
\* was wrong within the TTL: a good environment is not refused on old news.
THEOREM FailedRecently == Spec => FailedOnRecentChecks
<1>1. GateInit => GateInv
  BY GateInvInit
<1>2. GateInv /\ [Next]_vars => GateInv'
  BY GateStep
<1>3. GateInv /\ [Next]_vars => FailedRightly
  BY SettledRightly
<1> QED
  BY <1>1, <1>2, <1>3, PTL DEF Spec, FailedOnRecentChecks, FailedRightly
==============================================================================
