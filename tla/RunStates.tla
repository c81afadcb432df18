------------------------------ MODULE RunStates ------------------------------
(***************************************************************************)
(* What SparkPilot promises about the state column of the table runs, as   *)
(* a reader outside the database sees it: which state may follow which.    *)
(* RunLifecycle implements Spec.  docs/architecture.md has the same machine *)
(* without LateCancelEdges.                                                *)
(*                                                                         *)
(* A worker commits a whole batch of runs in one transaction, so one step  *)
(* may move several runs at once, each along an edge of its own.           *)
(***************************************************************************)
CONSTANT Run          \* the run ids

VARIABLE state        \* state[r]: the committed state of run r

Terminal == {"succeeded", "failed", "cancelled", "timed_out"}
Active   == {"queued", "dispatching", "accepted", "running"}
State    == {"absent"} \cup Active \cup Terminal

TypeOK == state \in [Run -> State]

Init == state = [r \in Run |-> "absent"]

(***************************************************************************)
(* Submission; the scheduler's outcomes (and a cancel of a queued run);    *)
(* the reconciler's.  EMR may report a job it called RUNNING as anything   *)
(* but SUBMITTED or PENDING again, so "running" has no way back.           *)
(***************************************************************************)
ForwardEdges ==
  ({"absent"} \X {"queued"})
    \cup ({"queued"} \X {"accepted", "failed", "cancelled"})
    \cup ({"accepted"} \X ({"running"} \cup Terminal))
    \cup ({"running"} \X Terminal)

(***************************************************************************)
(* cancel_run decides on the state it read when the request began and      *)
(* writes without looking again: a run it saw queued becomes cancelled     *)
(* whatever the workers made of it in between.                             *)
(***************************************************************************)
LateCancelEdges == Terminal \X {"cancelled"}

Moves(edges) ==
  \A r \in Run : state'[r] = state[r] \/ <<state[r], state'[r]>> \in edges

Next == state' \in [Run -> State] /\ Moves(ForwardEdges \cup LateCancelEdges)

Spec == Init /\ [][Next]_state
=============================================================================
