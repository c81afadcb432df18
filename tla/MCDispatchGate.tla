---------------------------- MODULE MCDispatchGate ----------------------------
(* Small instances of DispatchGate for TLC. *)
EXTENDS DispatchGate

\* Runs with one Spark configuration, and the timeout of 1 that one of them asks
\* for; the other one gets 3 from its job.
Short == [conf |-> {}, timeout |-> 1, jobTimeout |-> 3, path |-> "",
          pathTimeout |-> 0, vcpu |-> 2, memory |-> 8, tags |-> {},
          instance |-> ""]
Long  == [Short EXCEPT !.timeout = 0]
ShortThenLong == <<Short, Long>>
LongThenShort == <<Long, Short>>

LiteRow == [lite |-> TRUE, arch |-> "arm64", fgac |-> TRUE, sec |-> "sc1"]

\* Two is the default timeout.
OnTime == [id |-> "p1", rule |-> "max_runtime_seconds", limit |-> 2, allowed |-> {},
           required |-> FALSE, hard |-> TRUE]
Narrow == [OnTime EXCEPT !.id = "p2", !.rule = "max_vcpu", !.limit = 1, !.hard = FALSE]
Policies == {OnTime, Narrow}
OldPolicies == {OnTime}
OneBudget == {[warn |-> 1, block |-> 2]}
Estimates == <<1, 1>>
Bills     == <<2, 0>>
==============================================================================
