--------------------------- MODULE MCTrustPolicy ---------------------------
(* Small instances of TrustPolicy for TLC. *)
EXTENDS TrustPolicy

CONSTANTS e1, e2, p1, p2, s1, s2, own, f1, f2, f3, f4, g1

(* Two namespaces of one cluster; two preflights of each that may overlap,  *)
(* one of them in a process without the remediation, and a provisioner of   *)
(* the second environment.                                                  *)
OneCluster == [e \in Environment |-> p1]
Patterns   == [e \in Environment |-> IF e = e1 THEN s1 ELSE s2]
ForWhom    == [a \in Actor |-> IF a \in {f1, f3} THEN e1 ELSE e2]

Ec2    == [web |-> FALSE, provider |-> p1, op |-> "like", subs |-> {}]
Web(p, op, subs) == [web |-> TRUE, provider |-> p, op |-> op, subs |-> subs]

(* A fresh role; one with a statement of the customer's for the provider;   *)
(* one made by an older version, a statement to a namespace, the first with *)
(* StringEquals; one with a statement that mixes SparkPilot's and others'.  *)
Policies ==
  { {Ec2},
    {Ec2, Web(p1, "equals", {own})},
    {Web(p1, "equals", {s1}), Web(p1, "like", {s2})},
    {Web(p1, "like", {s2, own}), Web(p2, "equals", {s1, own})} }
=============================================================================
