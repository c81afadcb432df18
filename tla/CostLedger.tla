------------------------------ MODULE CostLedger ------------------------------
(***************************************************************************)
(* What a team is charged: one allocation per run that ended, estimated at *)
(* once and replaced by the actual cost when the cost and usage report     *)
(* (CUR) has it, and the budget that looks at the sum of the month.  One   *)
(* worker reconciles; its query runs between two of its steps.             *)
(***************************************************************************)
EXTENDS Naturals, Sequences, FiniteSets, FiniteSetsExt, SequencesExt

CONSTANTS
  Run,
  Estimate,    \* Estimate[r]: what the runtime prices say of r
  Bill,        \* Bill[r]: what r will have cost in the report, 0 if it never shows up
  Limit,       \* allocations that one reconciliation takes: 200
  MaxPeriod,   \* bound: months
  MaxFailures  \* bound: queries that fail

ASSUME CostAssumption ==
  /\ Estimate \in [Run -> Nat]
  /\ Bill \in [Run -> Nat]
  /\ Limit \in Nat \ {0}
  /\ MaxPeriod \in Nat
  /\ MaxFailures \in Nat

VARIABLES
  ledger,    \* the runs with an allocation, oldest first
  month,     \* month[r]: the billing period of r's allocation
  actual,    \* actual[r]: its actual cost, once that is known
  billed,    \* billed[r]: what the report says of r so far
  period,    \* the current billing period
  query,     \* what the running query found, if one is running
  failures   \* queries that failed

ledgerVars == <<ledger, month, actual, billed, period, query, failures>>

LedgerTypeOK ==
  /\ ledger \in Seq(Run)
  /\ month \in [Run -> 0 .. MaxPeriod]
  /\ DOMAIN actual \subseteq ToSet(ledger)
  /\ \A r \in DOMAIN actual : actual[r] \in Nat
  /\ billed \in [Run -> Nat]
  /\ period \in 0 .. MaxPeriod
  /\ \A found \in query : DOMAIN found \subseteq Run
  /\ failures \in 0 .. MaxFailures

LedgerInit ==
  /\ ledger = <<>>
  /\ month = [r \in Run |-> 0]
  /\ actual = << >>
  /\ billed = [r \in Run |-> 0]
  /\ period = 0
  /\ query = {}
  /\ failures = 0

Allocated == ToSet(ledger)

\* The actual cost where it is known, the estimate elsewhere.
Effective == [r \in Run |-> IF r \in DOMAIN actual THEN actual[r] ELSE Estimate[r]]

SpendIn(p) == SumFunctionOnSet(Effective, {r \in Allocated : month[r] = p})

------------------------------------------------------------------------------

\* _record_usage_if_needed, when a run ends.
Record(r) ==
  /\ r \notin Allocated
  /\ ledger' = Append(ledger, r)
  /\ month' = [month EXCEPT ![r] = period]
  /\ UNCHANGED <<actual, billed, period, query, failures>>

\* The report is delivered several times a day and grows.
BillArrives(r) ==
  /\ r \in Allocated
  /\ billed[r] < Bill[r]
  /\ billed' = [billed EXCEPT ![r] = @ + 1]
  /\ UNCHANGED <<ledger, month, actual, period, query, failures>>

NewMonth ==
  /\ period < MaxPeriod
  /\ period' = period + 1
  /\ UNCHANGED <<ledger, month, actual, billed, query, failures>>

\* Mutant of Pending: everything is asked for again.
PendingAll == Allocated

Pending == Allocated \ DOMAIN actual

\* Mutant of Oldest: the newest first.
Newest(rs) ==
  LET at == {i \in DOMAIN ledger : ledger[i] \in rs}
  IN {ledger[i] : i \in {j \in at : Cardinality({k \in at : k > j}) < Limit}}

\* At most Limit of them, the oldest first.
Oldest(rs) ==
  LET at == {i \in DOMAIN ledger : ledger[i] \in rs}
  IN {ledger[i] : i \in {j \in at : Cardinality({k \in at : k < j}) < Limit}}

\* The query sees the report as it is; the rest of the pass works on its result.
StartQuery ==
  /\ query = {}
  /\ Pending # {}
  /\ query' = {[r \in {q \in Oldest(Pending) : billed[q] > 0} |-> billed[r]]}
  /\ UNCHANGED <<ledger, month, actual, billed, period, failures>>

\* _apply_cur_cost_updates and the commit.
ApplyCosts ==
  /\ \E found \in query :
       actual' = [r \in DOMAIN found \cup DOMAIN actual |->
                    IF r \in DOMAIN found THEN found[r] ELSE actual[r]]
  /\ query' = {}
  /\ UNCHANGED <<ledger, month, billed, period, failures>>

\* It fails, is cancelled, outlasts the worker's patience, or the worker dies.
QueryFails ==
  /\ query # {}
  /\ failures < MaxFailures
  /\ query' = {}
  /\ failures' = failures + 1
  /\ UNCHANGED <<ledger, month, actual, billed, period>>

LedgerStep ==
  \/ \E r \in Run : BillArrives(r)
  \/ NewMonth
  \/ StartQuery
  \/ ApplyCosts
  \/ QueryFails

------------------------------------------------------------------------------

\* A cost that is known is final: what a team was shown for a month changes
\* only from an estimate to an actual cost (_load_pending_cost_allocations).
ActualIsFinal == [][\A r \in DOMAIN actual : r \in DOMAIN actual' /\ actual'[r] = actual[r]]_ledgerVars

\* The older allocations that the report has nothing about.
MissingAhead(r) ==
  {q \in Pending : /\ billed[q] = 0
                   /\ \E i, j \in DOMAIN ledger : i < j /\ ledger[i] = q /\ ledger[j] = r}

\* An allocation that the report has, with fewer than Limit older ones that it
\* has nothing about, is reconciled in the end: failed queries and newer runs
\* do not hold it up (the order and the limit of _load_pending_cost_allocations).
ReconciledUnlessStarved ==
  \A r \in Run :
    /\ r \in Allocated
    /\ billed[r] > 0
    /\ Cardinality(MissingAhead(r)) < Limit
    ~> r \in DOMAIN actual
==============================================================================
