--------------------------- MODULE MCRunLifecycle ---------------------------
(* Small instances of RunLifecycle for TLC. *)
EXTENDS RunLifecycle, TLC

\* Workers of a kind are interchangeable, and so are callers; run ids are not:
\* the scheduler takes them in order.
WorkerSymmetry == Permutations(Scheduler) \cup Permutations(Reconciler)
                    \cup Permutations(Caller)
==============================================================================
