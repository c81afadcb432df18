--------------------------- MODULE PreflightChecks ---------------------------
(***************************************************************************)
(* What a preflight finds: the checks that _build_preflight emits for what *)
(* it reads, their merge, and the verdict.  A reading x has                *)
(*   status, vc, lite, arch, fgac, sec   of the environment's row          *)
(*   needsReady, needsCluster            what the caller requires          *)
(*   releases        the catalogue's rows for the configured label         *)
(*   budget, spend   the team's thresholds (an empty set if there is no    *)
(*                   budget) and what it has spent in the period           *)
(*   policies        the active policies in scope                          *)
(*   conf            what matters of the Spark configuration               *)
(*   asks            what the policies compare (see RunAtDispatch)         *)
(*   ok              the settings and the facts in AWS that are in order   *)
(* Messages, remediations and details are left out.                        *)
(***************************************************************************)
EXTENDS Naturals, FiniteSets

CONSTANTS DefaultTimeout  \* 7200 seconds: the run's timeout if it gives none

\* The settings, the well-formed columns, and the facts in AWS.
SettingFact == {"execution_role", "log_group", "release_label", "lf_release"}
RowFact     == {"role_arn", "cluster_arn", "namespace", "trimmed", "format",
                "unreserved", "region", "account"}
AwsFact     == {"caller", "no_static_keys", "assume", "assume_globally", "steady", "simulate",
                "dispatch", "pass_role", "eks_describe", "active", "issuer",
                "oidc", "trust", "trust_writable", "pod_agent", "access_entries",
                "list_clusters", "namespace_free", "nodegroups", "spot", "diverse",
                "slr", "lf_read", "lf_grants", "security_configuration"}
Fact == SettingFact \cup RowFact \cup AwsFact

Check(code, worth) == [code |-> code, id |-> "", status |-> worth]
PolicyCheck(code, id, worth) == [code |-> code, id |-> id, status |-> worth]

\* A check that passes on a condition and is as bad as given otherwise.
PassIf(code, good, otherwise) == {Check(code, IF good THEN "pass" ELSE otherwise)}
FailUnless(code, good) == PassIf(code, good, "fail")
WarnUnless(code, good) == PassIf(code, good, "warning")
Warnings(codes) == {Check(code, "warning") : code \in codes}

------------------------------------------------------------------------------
(* Settings, release and row *)

ReleaseCurrency(x) ==
  LET life == {r.life : r \in x.releases}
  IN {Check("config.emr_release_currency",
             IF life = {"current"} THEN "pass"
             ELSE IF life = {"end_of_life"} THEN "fail" ELSE "warning")}

\* x86_64 needs nothing, arm64 a release that is known to support it.
GravitonSupport(x) ==
  PassIf("config.graviton_release_support",
         \/ x.arch = "x86_64"
         \/ "release_label" \in x.ok /\ \E r \in x.releases : r.graviton,
         IF x.arch = "arm64" THEN "fail" ELSE "warning")

RuntimeAndRelease(x) ==
  FailUnless("config.execution_role", "execution_role" \in x.ok)
  \cup FailUnless("config.log_group_prefix", "log_group" \in x.ok)
  \cup FailUnless("config.emr_release_label", "release_label" \in x.ok)
  \cup (IF "release_label" \in x.ok THEN ReleaseCurrency(x)
        ELSE {Check("config.emr_release_currency", "fail")})
  \cup GravitonSupport(x)

RowChecks(x) ==
  FailUnless("environment.customer_role_arn", "role_arn" \in x.ok)
  \cup (IF x.needsReady THEN FailUnless("environment.status", x.status = "ready")
      ELSE {})
  \cup (IF x.needsCluster THEN FailUnless("environment.virtual_cluster", x.vc) ELSE {})

SparkConfPolicy(x) == FailUnless("run.spark_conf_policy", "blocked_key" \notin x.conf)

\* At or above a threshold counts as over it.
TeamBudget(x) ==
  {Check("team_budget",
          IF \E b \in x.budget : x.spend >= b.block THEN "fail"
          ELSE IF \E b \in x.budget : x.spend >= b.warn THEN "warning" ELSE "pass")}

\* The columns of the queue are set by no operation of this code.
YunikornQueue(x) == {Check("yunikorn_queue_capacity", "pass")}

Advice(x) ==
  (IF "small_batch" \in x.conf THEN {Check("run.vpa_compat", "warning")} ELSE {})
  \cup (IF "s3express" \in x.conf /\ "zone" \notin x.conf
      THEN {Check("run.s3_express_config", "warning")} ELSE {})

------------------------------------------------------------------------------
(* The dispatch gate: each check needs the one before it *)

Sts      == "issue3.sts_caller_identity"
Simulate == "issue3.iam_simulate_principal_policy"
Describe == "issue3.eks_describe_cluster"
Irsa     == "issue3.irsa_trust_subject"

MayDispatch(x) ==
  {"execution_role", "simulate", "dispatch", "eks_describe", "pass_role"} \subseteq x.ok
ClusterAnswers(x) == {"active", "issuer"} \subseteq x.ok

GateChecks(x) ==
  IF ~x.lite THEN {}
  ELSE CASE "assume" \notin x.ok ->
              {Check(Sts, "fail")} \cup Warnings({Simulate, Describe, Irsa})
         [] "assume" \in x.ok /\ ~MayDispatch(x) ->
              {Check(Sts, "pass"), Check(Simulate, "fail")} \cup Warnings({Describe, Irsa})
         [] "assume" \in x.ok /\ MayDispatch(x) /\ ~ClusterAnswers(x) ->
              {Check(Sts, "pass"), Check(Simulate, "pass"), Check(Describe, "fail")}
                \cup Warnings({Irsa})
         [] OTHER ->
              {Check(Sts, "pass"), Check(Simulate, "pass"), Check(Describe, "pass")}
                \cup FailUnless(Irsa, "trust" \in x.ok)

------------------------------------------------------------------------------
(* BYOC-Lite *)

\* An empty namespace is not asked to be trimmed, well-formed or unreserved.
NamespaceChecks(x) ==
  FailUnless("byoc_lite.eks_namespace", "namespace" \in x.ok)
  \cup (IF "namespace" \in x.ok
      THEN FailUnless("byoc_lite.eks_namespace_normalized", "trimmed" \in x.ok)
             \cup FailUnless("byoc_lite.eks_namespace_format", "format" \in x.ok)
             \cup FailUnless("byoc_lite.namespace_bootstrap", "unreserved" \in x.ok)
      ELSE {})

ClusterRowChecks(x) ==
  FailUnless("byoc_lite.eks_cluster_arn", "cluster_arn" \in x.ok)
  \cup NamespaceChecks(x)
  \cup (IF "cluster_arn" \in x.ok
      THEN FailUnless("byoc_lite.eks_cluster_region", "region" \in x.ok)
             \cup (IF "role_arn" \in x.ok
                 THEN FailUnless("byoc_lite.account_alignment", "account" \in x.ok)
                 ELSE {})
      ELSE {})

Eligible(x) ==
  /\ x.status = "ready"
  /\ x.vc
  /\ RowFact \ {"role_arn"} \subseteq x.ok

OidcAssociation(x) ==
  FailUnless("byoc_lite.oidc_association", {"issuer", "oidc"} \subseteq x.ok)

\* A missing trust statement is written on the spot, where that is allowed,
\* and then found.
Remediates(x) ==
  /\ x.lite
  /\ Eligible(x)
  /\ "trust" \notin x.ok
  /\ {"execution_role", "issuer", "trust_writable"} \subseteq x.ok

ExecutionRoleTrust(x) ==
  FailUnless("byoc_lite.execution_role_trust",
             {"execution_role", "issuer", "trust"} \subseteq x.ok \/ Remediates(x))

\* Missing pods and entries are advice, and so is not being allowed to look.
ClusterIdentity(x) ==
  WarnUnless("byoc_lite.pod_identity_readiness", "pod_agent" \in x.ok)
  \cup WarnUnless("byoc_lite.access_entry_mode", "access_entries" \in x.ok)

DispatchPermissions(x) ==
  FailUnless("byoc_lite.customer_role_dispatch", 
             {"execution_role", "simulate", "dispatch"} \subseteq x.ok)
  \cup FailUnless("byoc_lite.iam_pass_role",
                {"execution_role", "simulate", "pass_role"} \subseteq x.ok)

\* The environment's own virtual cluster is no collision.
NamespaceCollision(x) ==
  IF "list_clusters" \notin x.ok THEN {Check("byoc_lite.namespace_collision", "warning")}
  ELSE FailUnless("byoc_lite.namespace_collision", "namespace_free" \in x.ok)

SpotCapacity(x) ==
  WarnUnless("byoc_lite.spot_capacity", {"nodegroups", "spot"} \subseteq x.ok)
  \cup WarnUnless("byoc_lite.spot_diversification",
                {"nodegroups", "spot", "diverse"} \subseteq x.ok)

SpotPlacement(x) ==
  WarnUnless("byoc_lite.spot_executor_placement",
             {"spot_selector", "spot_toleration"} \subseteq x.conf)

SkippedAwsChecks ==
  Warnings({"byoc_lite.customer_role_dispatch", "byoc_lite.iam_pass_role",
             "byoc_lite.execution_role_trust", "byoc_lite.oidc_association",
             "byoc_lite.pod_identity_readiness", "byoc_lite.access_entry_mode",
             "byoc_lite.namespace_collision", "byoc_lite.spot_capacity",
             "byoc_lite.spot_diversification", "byoc_lite.spot_executor_placement"})

ByocLite(x) ==
  IF ~x.lite THEN {}
  ELSE ClusterRowChecks(x)
         \cup (IF ~Eligible(x) THEN SkippedAwsChecks
             ELSE OidcAssociation(x) \cup ExecutionRoleTrust(x) \cup ClusterIdentity(x)
                    \cup DispatchPermissions(x) \cup NamespaceCollision(x)
                    \cup SpotCapacity(x) \cup SpotPlacement(x))

------------------------------------------------------------------------------
(* Policies *)

\* A limit that is not positive binds nobody; an empty list allows anything.
Unbound(p) == p.limit = 0
WithinRuntime(p, a)     == Unbound(p) \/ a.timeout <= p.limit
WithinVcpu(p, a)        == Unbound(p) \/ a.vcpu <= p.limit
WithinMemory(p, a)      == Unbound(p) \/ a.memory <= p.limit
HasTags(p, a)           == p.allowed \subseteq a.tags
OnGoldenPath(p, a) ==
  \/ p.allowed = {}
  \/ a.path = "" /\ ~p.required
  \/ a.path \in p.allowed
OnRelease(p, a)         == p.allowed = {} \/ a.label = "" \/ a.label \in p.allowed
OnInstanceType(p, a)    == p.allowed = {} \/ a.instance = "" \/ a.instance \in p.allowed
HasSecurityConfiguration(p, a) ==
  \/ a.sec = "" /\ ~p.required
  \/ a.sec # "" /\ (p.allowed = {} \/ a.sec \in p.allowed)

Obeys(p, a) ==
  \/ p.rule = "max_runtime_seconds" /\ WithinRuntime(p, a)
  \/ p.rule = "max_vcpu" /\ WithinVcpu(p, a)
  \/ p.rule = "max_memory_gb" /\ WithinMemory(p, a)
  \/ p.rule = "required_tags" /\ HasTags(p, a)
  \/ p.rule = "allowed_golden_paths" /\ OnGoldenPath(p, a)
  \/ p.rule = "allowed_release_labels" /\ OnRelease(p, a)
  \/ p.rule = "allowed_instance_types" /\ OnInstanceType(p, a)
  \/ p.rule = "allowed_security_configurations" /\ HasSecurityConfiguration(p, a)

\* A run r has timeout (0: none was asked for), jobTimeout, path ("": none)
\* with pathTimeout, vcpu, memory, tags and instance.
GrantedTimeout(r) ==
  LET t == IF r.timeout = 0 THEN r.jobTimeout ELSE r.timeout
  IN IF r.path # "" /\ r.pathTimeout < t THEN r.pathTimeout ELSE t

\* create_run compares the timeout that was asked for and names no security
\* configuration.
RunAtSubmission(r) ==
  [timeout |-> IF r.timeout = 0 THEN DefaultTimeout ELSE r.timeout,
   vcpu |-> r.vcpu, memory |-> r.memory, tags |-> r.tags, path |-> r.path,
   instance |-> r.instance, label |-> "", sec |-> ""]

\* Preflight compares the timeout the run got.  It looks for a column that a
\* run does not have (golden_path_name), and so never sees a golden path.
RunAtDispatch(r, sec) ==
  [RunAtSubmission(r) EXCEPT
     !.timeout = GrantedTimeout(r),
     !.path = "",
     !.sec = sec]

\* Without a run: the defaults of one driver and one executor.
NoRunAsks(sec) ==
  [timeout |-> DefaultTimeout, vcpu |-> 2, memory |-> 8, tags |-> {}, path |-> "",
   instance |-> "", label |-> "", sec |-> sec]

Breaches(ps, a) == {p \in ps : p.hard /\ ~Obeys(p, a)}

PolicyChecks(x) ==
  {PolicyCheck(p.rule, p.id,
               IF Obeys(p, x.asks) THEN "pass" ELSE IF p.hard THEN "fail" ELSE "warning")
     : p \in x.policies}

------------------------------------------------------------------------------
(* Lake Formation, security configuration, credentials *)

\* Release 7.7.0 is the first that supports it, whatever the catalogue says.
LakeFormation(x) ==
  IF ~x.fgac THEN {}
  ELSE FailUnless("fgac.emr_release",
                  {"release_label", "lf_release"} \subseteq x.ok)
         \cup FailUnless("fgac.service_linked_role", "slr" \in x.ok)
         \cup (IF {"execution_role", "lf_read"} \subseteq x.ok
             THEN FailUnless("fgac.lf_permissions", "lf_grants" \in x.ok)
             ELSE {Check("fgac.lf_permissions", "warning")})

SecurityConfiguration(x) ==
  IF x.sec = "" THEN {}
  ELSE FailUnless("emr.security_configuration", "security_configuration" \in x.ok)

\* This check uses the global ExternalId, the one of Sts the environment's own.
CredentialChain(x) ==
  IF "caller" \notin x.ok THEN {Check("iam.runtime_identity", "fail")}
  ELSE {Check("iam.runtime_identity", "pass")}
         \cup (IF "no_static_keys" \in x.ok THEN {}
             ELSE {Check("iam.no_static_credentials", "warning")})
         \cup FailUnless("iam.assume_role_chain", "assume_globally" \in x.ok)

------------------------------------------------------------------------------
(* The build *)

Emitted(x) ==
  RuntimeAndRelease(x) \cup RowChecks(x) \cup SparkConfPolicy(x) \cup TeamBudget(x)
    \cup YunikornQueue(x) \cup GateChecks(x) \cup ByocLite(x) \cup Advice(x)
    \cup PolicyChecks(x) \cup LakeFormation(x) \cup SecurityConfiguration(x)
    \cup CredentialChain(x)

Priority(worth) == CASE worth = "fail" -> 2 [] worth = "warning" -> 1 [] OTHER -> 0

MergeKey(c) == <<c.code, c.id>>

\* Of two checks with one key the worse one stays.
Stays(c, d) == Priority(c.status) >= Priority(d.status)

Build(x) ==
  {c \in Emitted(x) : \A d \in Emitted(x) : MergeKey(c) = MergeKey(d) => Stays(c, d)}

Ready(checks) == \A c \in checks : c.status # "fail"

\* Two rows for one label (with and without its -latest) raise
\* MultipleResultsFound.  The helpers take a session for the customer's role
\* outside their try, and let every error but a refusal through.
Raises(x) ==
  \/ "release_label" \in x.ok /\ Cardinality(x.releases) > 1
  \/ x.lite /\ {"assume", "execution_role"} \subseteq x.ok /\ "steady" \notin x.ok
  \/ x.lite /\ Eligible(x) /\ {"assume", "steady"} \ x.ok # {}
  \/ x.sec # "" /\ {"assume", "steady"} \ x.ok # {}

Passes(x) == ~Raises(x) /\ Ready(Build(x))
==============================================================================
