-------------------------- MODULE MCProviderClients --------------------------
(* Small instances of ProviderClients for TLC. *)
EXTENDS ProviderClients

CONSTANTS t1, c1, b1, b2

Requests == Task \X (1 .. MaxTries) \X (1 .. MaxSends)
Keys     == GivenKey \cup (Task \X (1 .. MaxTries)) \cup Requests
GivenKeys == {<<"given">>}

Plan(kind, key, second) ==
  [conf |-> [t \in Task |-> [kind |-> kind, key |-> key]],
   body |-> [tn \in Task \X (1 .. MaxTries) |-> IF tn[2] = 1 THEN b1 ELSE second]]

(* The kinds with keys and without; a template of Airflow's may render another body. *)
KindsAndKeys ==
  {Plan("deferred", NoKey, b2), Plan("sync", <<"given">>, b2),
   Plan("ops", NoKey, b1), Plan("ops", <<"given">>, b1)}

OfTheFirst == [c \in Canceller |-> t1]
=============================================================================
