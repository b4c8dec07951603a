---------------------------- MODULE MCDiscovery ----------------------------
(***************************************************************************)
(* Instances of Discovery for TLC.                                         *)
(***************************************************************************)
EXTENDS Discovery, TLC

CONSTANTS v1, v2

\* Names, split at their underscores.
x  == <<"x">>
g  == <<"pg", "all">>
p  == <<"pg">>
d1 == <<"app">>
d2 == <<"app", "old">>
n1 == <<"node", "1">>
a  == <<"a">>
b  == <<"b">>
ab == <<"a", "b">>

MCPlain       == {x}
MCPgDiscovery == {g}
MCPatroni     == {p}
MCDb          == {d1, d2}

MCMatches == [all |-> {d1, d2}, some |-> {d1}]

Cfg(conn, pattern, master) == [conn |-> conn, pattern |-> pattern, master |-> master]

\* A namespace with the clusters below it, one cluster of it, and an address
\* that cannot be asked.
Namespace == [dcs |-> "etcd", cert |-> FALSE, key |-> FALSE, scopes |-> {a, b, ab}, scoped |-> FALSE]
Cluster   == [dcs |-> "etcd", cert |-> TRUE, key |-> TRUE, scopes |-> {a}, scoped |-> TRUE]
Consul    == [dcs |-> "consul", cert |-> FALSE, key |-> FALSE, scopes |-> {a}, scoped |-> TRUE]

\* A cluster with a member that moves, and another whose member has its name.
MCMember ==
  {[scope |-> a, name |-> n1, url |-> v1, role |-> "primary"],
   [scope |-> a, name |-> n1, url |-> v2, role |-> "replica"],
   [scope |-> b, name |-> n1, url |-> v2, role |-> "primary"]}

\* The member b_node_1 of cluster a, and the member node_1 of cluster a_b.
AmbiguousMember ==
  {[scope |-> a, name |-> <<"b", "node", "1">>, url |-> v1, role |-> "primary"],
   [scope |-> ab, name |-> n1, url |-> v2, role |-> "primary"]}

MCChoices == (x :> {Cfg(v1, "all", FALSE)}) @@
             (g :> {Cfg(v1, "all", FALSE), Cfg(v2, "all", FALSE), Cfg(v1, "some", FALSE)}) @@
             (p :> {Cfg(Namespace, "some", FALSE), Cfg(Cluster, "some", TRUE), Cfg(Consul, "some", TRUE)})

\* At first two clusters have a member each, and the namespace of both is
\* monitored.
MCInit ==
  /\ Init
  /\ Cardinality(dcs) = 2 /\ \A m \in dcs : IsPrimary(m)
  /\ config[p].conn = Namespace /\ config[g] = Cfg(v1, "all", FALSE)

MCSpec == MCInit /\ [][Next]_vars
=============================================================================
