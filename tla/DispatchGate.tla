----------------------------- MODULE DispatchGate -----------------------------
(***************************************************************************)
(* One environment from its BYOC-Lite provisioning to the runs that the    *)
(* schedulers let through: the preflight at each of these gates, the cache *)
(* in front of it, and what it depends on and changes under it (AWS, the   *)
(* release catalogue, policies, the team's spend).                         *)
(*                                                                         *)
(* A pass of a scheduler works on the environment's row as it was when the *)
(* pass began.  A build reads the tables first, AWS after that; time may   *)
(* pass between the two, but less than the TTL.  The claims of runs, their *)
(* dispatch and the rest of their life are module RunLifecycle's.          *)
(***************************************************************************)
EXTENDS PreflightChecks, CostLedger

CONSTANTS
  Scheduler,
  Ask,          \* Ask[r]: what run r asks for, and its Spark configuration
  Row,          \* lite, arch, fgac, sec: the row's columns that never change
  Policy,       \* the policies that somebody creates
  Adopted,      \* those that are in force to begin with
  Budget,       \* the team's thresholds, if it has a budget
  Drift,        \* the facts in AWS that come and go
  Lost,         \* the facts in AWS that do not hold to begin with
  Release,      \* the releases that EMR publishes, as 10 * major + minor
  Label,        \* the one that is configured
  TopReleases,  \* so many of the newest are current: 3
  GravitonFrom, \* 6.9.0
  Ttl,          \* ticks that a cached preflight is good for: 300 seconds
  CacheMax,     \* cached preflights: 1024
  MaxAttempts,  \* job.retry_max_attempts, and bound of provisioning attempts
  MaxChanges    \* bound: changes of facts, crashes and published releases

ASSUME GateAssumption ==
  /\ Run \subseteq Nat
  /\ Drift \subseteq AwsFact
  /\ Lost \subseteq Drift
  /\ Adopted \subseteq Policy
  /\ Label \in Release
  /\ Ttl \in Nat \ {0, 1}
  /\ CacheMax \in Nat \ {0}
  /\ MaxAttempts \in Nat \ {0}
  /\ MaxChanges \in Nat

VARIABLES
  status,     \* environments.status
  cluster,    \* environments.emr_virtual_cluster_id, or Nobody
  occupant,   \* whose virtual cluster has the namespace, in AWS
  prov,       \* where the provisioner is with this environment
  attempt,    \* its attempts: each would make a cluster of its own
  deleting,   \* a deletion that found nothing active
  missing,    \* the facts in AWS that do not hold
  published,  \* the releases that EMR lists
  catalogue,  \* catalogue[v]: life of the releases in emr_releases
  policies,   \* the active policies
  run,        \* run[r]: where r is, in the session of a pass that has it
  tries,      \* tries[r]: runs.attempt
  pass,       \* pass[s]: the pass of scheduler s
  cache,      \* cache[s]: the cached preflights of its process, oldest first
  changes     \* so many changes so far

\* History: ticks since a reading of the tables, or of AWS, would have let a
\* run with configuration c through, and since one would have failed it.
VARIABLES sinceTables, sinceAws, sinceBad

rowVars     == <<status, cluster, occupant, prov, attempt, deleting>>
outsideVars == <<missing, published, catalogue, policies>>
runVars     == <<run, tries, pass, cache>>
history     == <<sinceTables, sinceAws, sinceBad>>
gateVars    == <<rowVars, outsideVars, runVars, changes>>
vars        == <<gateVars, history, ledgerVars>>

Nobody   == 0
Stranger == MaxAttempts + 1
Conf     == {Ask[r].conf : r \in Run}
NoTables == [policies |-> {}, spend |-> 0, releases |-> {}]
NoPass   == [todo |-> {}, done |-> {}, seen |-> "none", stamp |-> 0,
             building |-> FALSE, tables |-> NoTables]

------------------------------------------------------------------------------
(* Readings *)

Life == {"current", "deprecated", "end_of_life"}

\* sync_emr_releases_once: the newest three are current, another major version
\* than the newest's makes a release one at the end of its life.
LifeOf(v, vs) ==
  CASE v \div 10 < Max(vs) \div 10 -> "end_of_life"
    [] v \div 10 = Max(vs) \div 10 /\ Cardinality({w \in vs : w > v}) < TopReleases -> "current"
    [] OTHER -> "deprecated"

ReleaseRows(books) ==
  IF Label \in DOMAIN books
  THEN {[life |-> books[Label], graviton |-> Label >= GravitonFrom]} ELSE {}

Reading(a, st, vc, needs, tables, ok, confOf) ==
  [status |-> st, vc |-> vc, needsReady |-> needs, needsCluster |-> needs,
   lite |-> Row.lite, arch |-> Row.arch, fgac |-> Row.fgac, sec |-> Row.sec,
   releases |-> tables.releases, budget |-> Budget, spend |-> tables.spend,
   policies |-> tables.policies, conf |-> confOf, asks |-> a, ok |-> ok]

\* What a scheduler reads for r.  A row that is ready has its cluster.
RunReading(r, seen, tables, ok) ==
  Reading(RunAtDispatch(Ask[r], Row.sec), seen, seen = "ready", TRUE, tables, ok,
          Ask[r].conf)

Tables ==
  [policies |-> policies, spend |-> SpendIn(period), releases |-> ReleaseRows(catalogue)]

\* What can be read, and what a build makes of it.
SumOf(cost) == MapThenSumSet(LAMBDA r : cost[r], Run)
TablesRead ==
  [policies : SUBSET Policy,
   spend : 0 .. SumOf(Estimate) + SumOf(Bill),
   releases : {{}} \cup {{[life |-> l, graviton |-> Label >= GravitonFrom]} : l \in Life}]

Verdict(x) ==
  CASE ~Raises(x) -> IF Ready(Build(x)) THEN "pass" ELSE "fail"
    [] Raises(x) -> IF "steady" \in x.ok THEN "error" ELSE "transient"

\* The namespace of a ready environment is its own: ReadyMeansItsOwnCluster.
Readings == Run \X {"ready", "deleted"} \X (SUBSET Drift) \X TablesRead
Verdicts ==
  {<<z, Verdict(RunReading(z[1], z[2], z[4], Fact \ z[3]))>> : z \in Readings}

\* Without a run, of a row that is not ready and has no cluster: the namespace
\* is not looked at.
Prerequisites ==
  {z \in (SUBSET Drift) \X TablesRead :
     Verdict(Reading(NoRunAsks(Row.sec), "provisioning", FALSE, FALSE, z[2], Fact \ z[1], {}))
       = "pass"}

------------------------------------------------------------------------------
(* Provisioning: _run_byoc_lite_provisioning *)

\* A step that fails ends the operation and the environment's provisioning.
ProvisioningFails ==
  /\ prov' = "idle"
  /\ status' = "failed"

LiteValidate ==
  /\ prov = "validate"
  /\ IF <<missing, Tables>> \in Prerequisites THEN prov' = "trust" /\ UNCHANGED status
     ELSE ProvisioningFails
  /\ UNCHANGED <<cluster, occupant, attempt, deleting, outsideVars, runVars, changes,
                 ledgerVars>>

\* The issuer must be registered; the trust statement is merged in, which
\* changes nothing where it is already there.
LiteUpdateTrust ==
  /\ prov = "trust"
  /\ IF {"assume", "steady", "issuer", "oidc", "trust_writable"} \cap missing = {}
     THEN /\ missing' = missing \ {"trust"}
          /\ prov' = "look"
          /\ UNCHANGED status
     ELSE ProvisioningFails /\ UNCHANGED missing
  /\ UNCHANGED <<cluster, occupant, attempt, deleting, published, catalogue, policies,
                 runVars, changes, ledgerVars>>

\* Mutant of LiteLook: the cluster that is there is taken over.
LiteAdopt ==
  /\ prov = "look"
  /\ IF occupant = Nobody THEN prov' = "create" /\ UNCHANGED <<status, cluster>>
     ELSE prov' = "idle" /\ status' = "ready" /\ cluster' = occupant
  /\ UNCHANGED <<occupant, attempt, deleting, outsideVars, runVars, changes, ledgerVars>>

LiteLook ==
  /\ prov = "look"
  /\ IF occupant = Nobody THEN prov' = "create" /\ UNCHANGED status ELSE ProvisioningFails
  /\ UNCHANGED <<cluster, occupant, attempt, deleting, outsideVars, runVars, changes,
                 ledgerVars>>

\* EMR has one virtual cluster for a namespace and refuses a second.
LiteCreate ==
  /\ prov = "create"
  /\ IF occupant = Nobody /\ "steady" \notin missing
     THEN prov' = "commit" /\ occupant' = attempt /\ UNCHANGED status
     ELSE ProvisioningFails /\ UNCHANGED occupant
  /\ UNCHANGED <<cluster, attempt, deleting, outsideVars, runVars, changes, ledgerVars>>

LiteCommit ==
  /\ prov = "commit"
  /\ prov' = "idle"
  /\ status' = "ready"
  /\ cluster' = attempt
  /\ UNCHANGED <<occupant, attempt, deleting, outsideVars, runVars, changes, ledgerVars>>

\* The worker dies and another one begins again, or, after a failure, somebody
\* asks for a retry.  A cluster that was made stays in AWS.
LiteRestart ==
  /\ attempt < MaxAttempts
  /\ attempt' = attempt + 1
  /\ prov' = "validate"
  /\ \/ prov \notin {"idle", "validate"} /\ UNCHANGED status
     \/ status = "failed" /\ status' = "provisioning"
  /\ UNCHANGED <<cluster, occupant, deleting, outsideVars, runVars, changes, ledgerVars>>

\* delete_environment: nothing may be active when it looks; the virtual cluster
\* is not touched.
DeleteLooks ==
  /\ ~deleting
  /\ status \in {"ready", "failed"}
  /\ prov = "idle"
  /\ \A r \in Run : run[r] \notin {"queued", "cleared"}
  /\ deleting' = TRUE
  /\ UNCHANGED <<status, cluster, occupant, prov, attempt, outsideVars, runVars, changes,
                 ledgerVars>>

DeleteWrites ==
  /\ deleting
  /\ status' = "deleted"
  /\ deleting' = FALSE
  /\ UNCHANGED <<cluster, occupant, prov, attempt, outsideVars, runVars, changes, ledgerVars>>

------------------------------------------------------------------------------
(* What happens outside *)

Change ==
  /\ changes < MaxChanges
  /\ changes' = changes + 1

FactChanges(f) ==
  /\ Change
  /\ missing' = SymDiff(missing, {f})
  /\ UNCHANGED <<rowVars, published, catalogue, policies, runVars, ledgerVars>>

\* Somebody else makes a virtual cluster for the namespace.
StrangerComes ==
  /\ Change
  /\ occupant = Nobody
  /\ occupant' = Stranger
  /\ UNCHANGED <<status, cluster, prov, attempt, deleting, outsideVars, runVars, ledgerVars>>

Publish(v) ==
  /\ Change
  /\ v \notin published
  /\ published' = published \cup {v}
  /\ UNCHANGED <<rowVars, missing, catalogue, policies, runVars, ledgerVars>>

\* Rows of releases that are no longer listed stay as they were.
SyncReleases ==
  /\ published # {}
  /\ catalogue' = [v \in published \cup DOMAIN catalogue |->
                     IF v \in published THEN LifeOf(v, published) ELSE catalogue[v]]
  /\ catalogue' # catalogue
  /\ UNCHANGED <<rowVars, missing, published, policies, runVars, changes, ledgerVars>>

CreatePolicy(p) ==
  /\ Change
  /\ p \notin policies
  /\ policies' = policies \cup {p}
  /\ UNCHANGED <<rowVars, missing, published, catalogue, runVars, ledgerVars>>

\* delete_policy deactivates.
DeletePolicy(p) ==
  /\ Change
  /\ p \in policies
  /\ policies' = policies \ {p}
  /\ UNCHANGED <<rowVars, missing, published, catalogue, runVars, ledgerVars>>

------------------------------------------------------------------------------
(* Runs *)

\* create_run, on a ready environment and within the quota (see RunAdmission).
\* The runs are numbered in the order in which they come.
Submit(r) ==
  /\ run[r] = "new"
  /\ \A q \in Run : q < r => run[q] # "new"
  /\ status = "ready"
  /\ run' = [run EXCEPT ![r] =
               IF "blocked_key" \in Ask[r].conf
                  \/ Breaches(policies, RunAtSubmission(Ask[r])) # {}
               THEN "refused" ELSE "queued"]
  /\ UNCHANGED <<rowVars, outsideVars, tries, pass, cache, changes, ledgerVars>>

InPass(r) == \E s \in Scheduler : r \in pass[s].todo \cup pass[s].done

\* _claim_runs, and the rows that come with the runs.
Begin(s) ==
  LET free == {r \in Run : run[r] = "queued" /\ ~InPass(r)}
  IN /\ pass[s] = NoPass
     /\ free # {}
     /\ pass' = [pass EXCEPT ![s].todo = free, ![s].seen = status]
     /\ UNCHANGED <<rowVars, outsideVars, run, tries, cache, changes, ledgerVars>>

\* The oldest run of the pass has its turn.
First(s) == Min(pass[s].todo)

\* The first run of the pass is settled.
Settle(s, outcome) ==
  LET r == First(s)
  IN /\ run' = [run EXCEPT ![r] = outcome]
     /\ pass' = [pass EXCEPT ![s].todo = @ \ {r}, ![s].done = @ \cup {r}, ![s].stamp = 0,
                             ![s].building = FALSE, ![s].tables = NoTables]

Decision(good) == IF good THEN "cleared" ELSE "failed"

\* The environment's fingerprint and the configuration's.  Of what the first
\* is made of, only the status changes once there are runs.
Key(s) == <<pass[s].seen, Ask[First(s)].conf>>

\* The entries that are not yet stale.
Good(s) ==
  FoldLeft(LAMBDA good, e : IF e.age < Ttl THEN Append(good, e) ELSE good, << >>, cache[s])

\* The last one used is the last to go.
Touch(entries, i) == Append(RemoveAt(entries, i), entries[i])

\* _build_preflight_cached finds an entry that is not yet stale.
LookHit(s) ==
  /\ pass[s].todo # {}
  /\ ~pass[s].building
  /\ \E i \in DOMAIN Good(s) :
       /\ Good(s)[i].key = Key(s)
       /\ cache' = [cache EXCEPT ![s] = Touch(Good(s), i)]
       /\ Settle(s, Decision(Good(s)[i].ready))
  /\ UNCHANGED <<rowVars, outsideVars, tries, changes, ledgerVars>>

\* It finds none: the build begins.
LookMiss(s) ==
  /\ pass[s].todo # {}
  /\ ~pass[s].building
  /\ \A i \in DOMAIN Good(s) : Good(s)[i].key # Key(s)
  /\ cache' = [cache EXCEPT ![s] = Good(s)]
  /\ pass' = [pass EXCEPT ![s].building = TRUE, ![s].tables = Tables]
  /\ UNCHANGED <<rowVars, outsideVars, run, tries, changes, ledgerVars>>

\* Mutant of Entry: the entry is as old as its place in the cache.
EntryOnStore(s, good) == [key |-> Key(s), ready |-> good, age |-> 0]

\* The entry has the time at which its build began.
Entry(s, good) == [key |-> Key(s), ready |-> good, age |-> pass[s].stamp]

\* Mutant of Trim: nothing is ever dropped.
TrimNot(entries) == entries

Trim(entries) ==
  IF Len(entries) > CacheMax THEN Tail(entries) ELSE entries

\* The build reads AWS, where it may put the trust policy right, and ends.
BuildEnds(s) ==
  LET r == First(s)
      is(v) == <<<<r, pass[s].seen, missing, pass[s].tables>>, v>> \in Verdicts
      x == RunReading(r, pass[s].seen, pass[s].tables, Fact \ missing)
  IN /\ pass[s].building
     /\ missing' = IF Remediates(x) THEN missing \ {"trust"} ELSE missing
     /\ \/ /\ is("pass") \/ is("fail")
           /\ cache' = [cache EXCEPT ![s] = Trim(Append(@, Entry(s, is("pass"))))]
           /\ Settle(s, Decision(is("pass")))
           /\ UNCHANGED tries
        \/ /\ is("error") \/ is("transient")
           /\ IF is("transient") /\ tries[r] < MaxAttempts
              THEN Settle(s, "queued") /\ tries' = [tries EXCEPT ![r] = @ + 1]
              ELSE Settle(s, "failed") /\ UNCHANGED tries
           /\ UNCHANGED cache
     /\ UNCHANGED <<rowVars, published, catalogue, policies, changes, ledgerVars>>

\* One commit for the whole pass.
PassEnds(s) ==
  /\ pass[s] # NoPass
  /\ pass[s].todo = {}
  /\ pass' = [pass EXCEPT ![s] = NoPass]
  /\ UNCHANGED <<rowVars, outsideVars, run, tries, cache, changes, ledgerVars>>

\* Nothing of the pass is committed, and the cache goes with the process.
\* (What was dispatched stays dispatched: see RunLifecycle.)
SchedulerCrash(s) ==
  /\ pass[s] # NoPass
  /\ Change
  /\ run' = [r \in Run |-> IF r \in pass[s].done THEN "queued" ELSE run[r]]
  /\ pass' = [pass EXCEPT ![s] = NoPass]
  /\ cache' = [cache EXCEPT ![s] = <<>>]
  /\ UNCHANGED <<rowVars, outsideVars, tries, ledgerVars>>

\* The run that was dispatched is over.
RunEnds(r) ==
  /\ run[r] = "cleared"
  /\ ~InPass(r)
  /\ Record(r)
  /\ run' = [run EXCEPT ![r] = "ended"]
  /\ UNCHANGED <<rowVars, outsideVars, tries, pass, cache, changes>>

------------------------------------------------------------------------------
(* Time, and the history *)

\* A build takes less than the TTL.
Tick ==
  /\ \A s \in Scheduler : pass[s].building => pass[s].stamp + 1 < Ttl
  /\ cache' = [s \in Scheduler |->
                 [i \in DOMAIN cache[s] |-> [cache[s][i] EXCEPT !.age = Min({@ + 1, Ttl})]]]
  /\ pass' = [s \in Scheduler |->
                [pass[s] EXCEPT !.stamp = IF pass[s].building THEN @ + 1 ELSE @]]
  /\ UNCHANGED <<rowVars, outsideVars, run, tries, changes, ledgerVars>>

\* What a ready environment with this row needs of AWS, in so many words; the
\* rest costs a warning at most.
Needed ==
  {"caller", "assume_globally"}
    \cup (IF Row.lite
            THEN {"assume", "steady", "simulate", "dispatch", "pass_role", "eks_describe",
                  "active", "issuer", "oidc", "trust"}
            ELSE {})
    \cup (IF Row.fgac THEN {"slr"} ELSE {})
    \cup (IF Row.sec # "" THEN {"assume", "steady", "security_configuration"} ELSE {})

\* What cannot be looked at is not held against the environment.
AwsAllows(gone) ==
  /\ Needed \cap gone = {}
  /\ Row.lite /\ "namespace_free" \in gone => "list_clusters" \in gone
  /\ Row.fgac /\ "lf_grants" \in gone => "lf_read" \in gone

\* What the tables and the configuration must be like for a run, likewise.
TablesAllow(r, tables) ==
  /\ "blocked_key" \notin Ask[r].conf
  /\ Breaches(tables.policies, RunAtDispatch(Ask[r], Row.sec)) = {}
  /\ \A b \in Budget : ~(tables.spend >= b.block)
  /\ \A row \in tables.releases : row.life # "end_of_life"
  /\ Row.arch = "arm64" => \E row \in tables.releases : row.graviton

AllowedConfs(tables) == {Ask[r].conf : r \in {q \in Run : TablesAllow(q, tables)}}
ForbiddenConfs(tables) == {Ask[r].conf : r \in {q \in Run : ~TablesAllow(q, tables)}}

\* One action later, which took so many ticks.
Remember(ticks) ==
  LET after(age) == Min({age + ticks, Ttl})
  IN /\ sinceTables' = [c \in Conf |-> IF c \in AllowedConfs(Tables') THEN 0
                                       ELSE after(sinceTables[c])]
     /\ sinceAws' = IF AwsAllows(missing') THEN 0 ELSE after(sinceAws)
     /\ sinceBad' = [c \in Conf |-> IF ~AwsAllows(missing') \/ c \in ForbiddenConfs(Tables')
                                    THEN 0 ELSE after(sinceBad[c])]

GateInit ==
  /\ LedgerInit
  /\ status = "provisioning"
  /\ cluster = Nobody
  /\ occupant = Nobody
  /\ prov = "validate"
  /\ attempt = 1
  /\ deleting = FALSE
  /\ missing = Lost
  /\ published = {Label}
  /\ catalogue = << >>
  /\ policies = Adopted
  /\ run = [r \in Run |-> "new"]
  /\ tries = [r \in Run |-> 1]
  /\ pass = [s \in Scheduler |-> NoPass]
  /\ cache = [s \in Scheduler |-> << >>]
  /\ changes = 0
  /\ sinceTables = [c \in Conf |-> IF c \in AllowedConfs(Tables) THEN 0 ELSE Ttl]
  /\ sinceAws = IF AwsAllows(missing) THEN 0 ELSE Ttl
  /\ sinceBad = [c \in Conf |-> IF ~AwsAllows(missing) \/ c \in ForbiddenConfs(Tables) THEN 0 ELSE Ttl]

ProvisionerStep ==
  \/ LiteValidate \/ LiteUpdateTrust \/ LiteLook \/ LiteCreate \/ LiteCommit
  \/ LiteRestart
RequestStep == DeleteLooks \/ DeleteWrites \/ \E r \in Run : Submit(r)
OutsideStep ==
  \/ \E f \in Drift : FactChanges(f)
  \/ StrangerComes
  \/ \E v \in Release : Publish(v)
  \/ SyncReleases
  \/ \E p \in Policy : CreatePolicy(p) \/ DeletePolicy(p)
SchedulerStep(s) ==
  LookHit(s) \/ LookMiss(s) \/ BuildEnds(s) \/ PassEnds(s) \/ Begin(s)

Step ==
  \/ ProvisionerStep
  \/ RequestStep
  \/ OutsideStep
  \/ \E s \in Scheduler : SchedulerStep(s) \/ SchedulerCrash(s)
  \/ \E r \in Run : RunEnds(r)
  \/ LedgerStep /\ UNCHANGED gateVars

Next ==
  \/ Step /\ Remember(0)
  \/ Tick /\ Remember(1)

Spec == GateInit /\ [][Next]_vars

\* The reconciling worker polls.
LedgerFairness ==
  /\ WF_vars(StartQuery /\ UNCHANGED gateVars /\ Remember(0))
  /\ WF_vars(ApplyCosts /\ UNCHANGED gateVars /\ Remember(0))

FairSpec == Spec /\ LedgerFairness

------------------------------------------------------------------------------

GateTypeOK ==
  /\ LedgerTypeOK
  /\ status \in {"provisioning", "ready", "failed", "deleted"}
  /\ {cluster, occupant} \subseteq Nobody .. Stranger
  /\ prov \in {"idle", "validate", "trust", "look", "create", "commit"}
  /\ attempt \in 1 .. MaxAttempts
  /\ deleting \in BOOLEAN
  /\ missing \subseteq Drift
  /\ published \subseteq Release
  /\ DOMAIN catalogue \subseteq Release
  /\ policies \subseteq Policy
  /\ run \in [Run -> {"new", "refused", "queued", "cleared", "failed", "ended"}]
  /\ tries \in [Run -> 1 .. MaxAttempts]
  /\ \A s \in Scheduler : Len(cache[s]) <= CacheMax
  /\ changes \in 0 .. MaxChanges

\* Provisioning ends with a virtual cluster that it made for this environment,
\* and the column names the one that has the namespace in AWS: never one of
\* somebody else's, and never one of an attempt that died.
ReadyMeansItsOwnCluster ==
  status = "ready" => cluster = occupant /\ cluster = attempt

\* A run that the gate lets through belonged to a ready environment when its
\* pass began, and within the TTL a preflight's two halves would have let a run
\* with its Spark configuration through (_build_preflight_cached).
ClearedOnRecentChecks ==
  [][\A r \in Run, s \in Scheduler :
       /\ r \in pass[s].todo
       /\ run'[r] = "cleared"
       => /\ pass[s].seen = "ready"
          /\ sinceTables[Ask[r].conf] < Ttl
          /\ sinceAws < Ttl]_vars

\* A run that fails at the gate of an environment that was ready when its pass
\* began, fails on something that was wrong within the TTL, for a run with its
\* Spark configuration.
FailedOnRecentChecks ==
  [][\A r \in Run, s \in Scheduler :
       /\ r \in pass[s].todo
       /\ run'[r] = "failed"
       /\ pass[s].seen = "ready"
       => sinceBad[Ask[r].conf] < Ttl]_vars

\* "Run-level checks always run fresh" (_build_preflight_cached): what the gate
\* lets through obeys every hard policy that is in force.
RunChecksAreFresh ==
  [][\A r \in Run :
       run[r] = "queued" /\ run'[r] = "cleared"
       => Breaches(policies, RunAtDispatch(Ask[r], Row.sec)) = {}]_vars
==============================================================================
