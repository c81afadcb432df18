---------------------------- MODULE TrustPolicy ----------------------------
(***************************************************************************)
(* The trust policy of the execution role.  Every BYOC-Lite environment    *)
(* runs its jobs under the one role of the settings, so that all of them   *)
(* share its trust policy: a list of statements, and an environment's      *)
(* service accounts may take the role only if a web-identity statement of  *)
(* the cluster's OIDC provider lists their pattern.  AWS keeps no version  *)
(* of the policy and a caller replaces it as a whole, so an update of      *)
(* aws_clients.py reads it, merges a statement into its copy, and writes   *)
(* the copy back: whoever wrote in between is undone.  Two callers update  *)
(* it: the provisioner of an environment, always, and the preflight of a   *)
(* run or of an environment, when its check does not find the statement.   *)
(*                                                                         *)
(* A policy is a set of statements (the merge removes duplicates).  A      *)
(* statement allows one provider, under one of the condition operators     *)
(* StringLike and StringEquals, the subjects "subs"; "web" says that its   *)
(* action is the web-identity one.                                         *)
(***************************************************************************)
EXTENDS Naturals, FiniteSets

CONSTANTS
  Environment,       \* the environments that share the role
  Provider,          \* OIDC providers, one to a cluster
  Sub,               \* subjects and patterns of subjects
  EmrSub,            \* those with the prefix emr-containers-sa-
  ProviderOf,        \* the provider of an environment's cluster
  PatternOf,         \* _emr_sa_pattern of an environment's namespace
  Preflight,         \* the preflights that may run at the same time
  Provisioner,       \* the provisioning passes that may
  For,               \* the environment that each of them is for
  AutoFixing,        \* preflights in processes with the auto-remediation on
  CustomerPolicies,  \* what the customer may leave as the policy
  MaxPasses,         \* bound: provisioning passes
  MaxEdits,          \* bound: edits by the customer
  MaxFaults          \* bound: refused or failed calls and crashes

Actor == Preflight \cup Provisioner
Statement == [web : BOOLEAN, provider : Provider,
              op : {"like", "equals"}, subs : SUBSET Sub]

ASSUME EnvironmentAssumption ==
  /\ ProviderOf \in [Environment -> Provider]
  /\ PatternOf \in [Environment -> EmrSub]
  /\ EmrSub \subseteq Sub
ASSUME ActorAssumption ==
  /\ Preflight \cap Provisioner = {}
  /\ AutoFixing \subseteq Preflight
  /\ For \in [Actor -> Environment]
ASSUME PolicyAssumption ==
  CustomerPolicies # {} /\ CustomerPolicies \subseteq SUBSET Statement
ASSUME BoundAssumption ==
  MaxPasses \in Nat /\ MaxEdits \in Nat /\ MaxFaults \in Nat

VARIABLES
  policy,     \* the role's trust policy
  at,         \* where each caller is in its code
  draft,      \* the merged copy that a caller is about to write
  overtaken,  \* history: callers whom somebody wrote after, since their last call
  passes, edits, faults

vars == <<policy, at, draft, overtaken, passes, edits, faults>>

-----------------------------------------------------------------------------
(* What aws_clients.py computes.                                           *)

(* A statement that SparkPilot takes for its own.                          *)
Managed(st) == st.web /\ st.subs \cap EmrSub # {}

(* The merge's view of "already present": either operator will do.         *)
Names(st, e) ==
  st.web /\ st.provider = ProviderOf[e] /\ PatternOf[e] \in st.subs

(* The check's view: only a StringLike counts.                             *)
Trusts(p, e) == \E st \in p : Names(st, e) /\ st.op = "like"

StatementFor(pr, subs) ==
  [web |-> TRUE, provider |-> pr, op |-> "like", subs |-> subs]

\* Mutant of ManagedSubs: only the StringLike block is read.
LikeSubs(p, pr) ==
  UNION {st.subs : st \in {s \in p : Managed(s) /\ s.provider = pr
                                       /\ s.op = "like"}}

\* Mutant of ManagedSubs: only subjects with SparkPilot's prefix are carried over.
OwnSubs(p, pr) ==
  EmrSub \cap UNION {st.subs : st \in {s \in p : Managed(s) /\ s.provider = pr}}

ManagedSubs(p, pr) ==
  UNION {st.subs : st \in {s \in p : Managed(s) /\ s.provider = pr}}

(* One statement to a provider in place of SparkPilot's own; the others    *)
(* stay as they are.                                                       *)
Consolidated(p) ==
  {st \in p : ~Managed(st)}
    \cup {StatementFor(st.provider, ManagedSubs(p, st.provider)) :
             st \in {s \in p : Managed(s)}}

Added(p, e) ==
  IF \E st \in p : Names(st, e)
  THEN p ELSE p \cup {StatementFor(ProviderOf[e], {PatternOf[e]})}

\* Mutant of Merge: the statement is appended after the consolidation.
MergeAppends(p, e) == Added(Consolidated(p), e)

\* Mutant of Merge: the statement takes the place of SparkPilot's others.
MergeReplaces(p, e) ==
  {st \in p : ~Managed(st)} \cup {StatementFor(ProviderOf[e], {PatternOf[e]})}

Merge(p, e) == Consolidated(Added(p, e))

-----------------------------------------------------------------------------
Init ==
  /\ policy \in CustomerPolicies
  /\ at = [a \in Actor |-> "idle"]
  /\ draft = [a \in Actor |-> {}]
  /\ overtaken = {}
  /\ passes = 0 /\ edits = 0 /\ faults = 0

Move(a, to) == at' = [at EXCEPT ![a] = to]
Readers == {a \in Actor : at[a] \in {"writing", "rechecking"}}

(* A preflight begins (the scheduler's, or one asked of the API).          *)
Begin(a) ==
  /\ a \in Preflight /\ at[a] = "idle"
  /\ Move(a, "checking")
  /\ UNCHANGED <<policy, draft, overtaken, passes, edits, faults>>

(* The check reads the policy; a preflight that may remediate goes on when *)
(* the statement is missing.                                               *)
Check(a) ==
  /\ at[a] = "checking"
  /\ Move(a, IF Trusts(policy, For[a]) \/ a \notin AutoFixing
             THEN "idle" ELSE "updating")
  /\ UNCHANGED <<policy, draft, overtaken, passes, edits, faults>>

(* A call of the check is refused: a ValueError like any other, so that    *)
(* the preflight remediates a policy it has not seen.                      *)
CheckRefused(a) ==
  /\ at[a] = "checking" /\ faults < MaxFaults
  /\ Move(a, IF a \in AutoFixing THEN "updating" ELSE "idle")
  /\ faults' = faults + 1
  /\ UNCHANGED <<policy, draft, overtaken, passes, edits>>

(* A pass of the provisioner has found the OIDC provider associated.       *)
Provision(a) ==
  /\ a \in Provisioner /\ at[a] = "idle" /\ passes < MaxPasses
  /\ Move(a, "updating")
  /\ passes' = passes + 1
  /\ UNCHANGED <<policy, draft, overtaken, edits, faults>>

(* The update reads the policy and merges the statement into its copy.     *)
Read(a) ==
  /\ at[a] = "updating"
  /\ draft' = [draft EXCEPT ![a] = Merge(policy, For[a])]
  /\ Move(a, "writing")
  /\ overtaken' = overtaken \ {a}
  /\ UNCHANGED <<policy, passes, edits, faults>>

(* It writes the copy, whatever the policy has become.                     *)
Write(a) ==
  /\ at[a] = "writing"
  /\ policy' = draft[a]
  /\ draft' = [draft EXCEPT ![a] = {}]
  /\ Move(a, IF a \in Preflight THEN "rechecking" ELSE "idle")
  /\ overtaken' = (overtaken \cup Readers) \ {a}
  /\ UNCHANGED <<passes, edits, faults>>

(* The preflight checks again, and passes or fails on what it finds.       *)
Recheck(a) ==
  /\ at[a] = "rechecking"
  /\ Move(a, "idle")
  /\ overtaken' = overtaken \ {a}
  /\ UNCHANGED <<policy, draft, passes, edits, faults>>

(* A call of the update is refused (access, the size limit, a document     *)
(* that IAM does not take) or raises, or the process dies.                 *)
GiveUp(a) ==
  /\ at[a] # "idle" /\ faults < MaxFaults
  /\ Move(a, "idle")
  /\ draft' = [draft EXCEPT ![a] = {}]
  /\ overtaken' = overtaken \ {a}
  /\ faults' = faults + 1
  /\ UNCHANGED <<policy, passes, edits>>

(* The customer edits the policy, whoever is between a read and a write.   *)
CustomerEdits ==
  /\ edits < MaxEdits
  /\ policy' \in CustomerPolicies
  /\ edits' = edits + 1
  /\ overtaken' = overtaken \cup Readers
  /\ UNCHANGED <<at, draft, passes, faults>>

Step(a) == Check(a) \/ Read(a) \/ Write(a) \/ Recheck(a)

Next ==
  \/ \E a \in Actor :
        \/ Step(a) \/ Begin(a) \/ Provision(a)
        \/ CheckRefused(a) \/ GiveUp(a)
  \/ CustomerEdits

TrustSpec == Init /\ [][Next]_vars

(* A caller that has begun goes on.                                        *)
FairTrust == TrustSpec /\ \A a \in Actor : WF_vars(Step(a))

-----------------------------------------------------------------------------
(* The policy and every copy of it are sets of statements, and only a      *)
(* caller about to write holds a copy.                                     *)
TrustTypeOK ==
  /\ policy \in SUBSET Statement
  /\ at \in [Actor -> {"idle", "checking", "updating", "writing", "rechecking"}]
  /\ draft \in [Actor -> SUBSET Statement]
  /\ \A a \in Actor : at[a] # "writing" => draft[a] = {}
  /\ overtaken \subseteq Readers
  /\ passes \in 0..MaxPasses /\ edits \in 0..MaxEdits /\ faults \in 0..MaxFaults

(* An update is enough for the check: a preflight that has written, though *)
(* on an old copy, finds its statement when it checks again unless         *)
(* somebody wrote after it.  The merge and the check look for the          *)
(* statement in different ways: a StringEquals is enough for the one only. *)
UpdateSuffices ==
  \A a \in Actor : at[a] = "rechecking" /\ a \notin overtaken
                     => Trusts(policy, For[a])

Grants(p) == {ps \in Provider \X Sub :
                \E st \in p : st.web /\ st.provider = ps[1] /\ ps[2] \in st.subs}

Foreign(p) == {st \in p : ~Managed(st)}

(* An update that nobody wrote during takes nothing away: every pair of a  *)
(* provider and a subject that the policy let in is still let in, and the  *)
(* customer's own statements are still there, word for word.               *)
UpdatesOnlyAdd ==
  [][\A a \in Actor \ overtaken : at[a] = "writing" /\ policy' # policy
        /\ at'[a] # "writing"
          => Grants(policy) \subseteq Grants(policy')
             /\ Foreign(policy) \subseteq policy']_vars

Tidy(p) ==
  \A st1, st2 \in p : Managed(st1) /\ Managed(st2)
                        /\ st1.provider = st2.provider => st1 = st2

(* The policy does not grow by a statement for each namespace: whatever    *)
(* SparkPilot writes, overtaken or not, has one statement of its own for   *)
(* each provider.                                                          *)
UpdatesAreTidy ==
  [][policy' # policy /\ edits' = edits => Tidy(policy')]_vars

Quiet == \A a \in Actor : at[a] = "idle"

(* Updates undo one another, but the preflights repair it: as long as each *)
(* environment is preflighted again and again by a process that may        *)
(* remediate, and again and again no caller is at work, every environment  *)
(* is trusted in the end and stays so.  Without the quiet moments two      *)
(* preflights of each of two environments can go on undoing one another.   *)
Converges ==
  /\ []<>Quiet
  /\ \A e \in Environment :
        []<>(\E a \in AutoFixing : For[a] = e /\ at[a] = "checking")
  => <>[](\A e \in Environment : Trusts(policy, e))
=============================================================================
