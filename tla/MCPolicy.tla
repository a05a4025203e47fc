------------------------------ MODULE MCPolicy ------------------------------
(* An instance of PolicyStore for TLC. *)
EXTENDS PolicyStore

\* A rule that sorts before the defaults and a weaker body for one of them.
MCUserRules == {
    Rule("allow-production", "allow", {"apply", "scale"}, {"production"}, {}, {}),
    Rule("deny-privileged", "deny", {"apply"}, {}, {}, {"privileged"}) }

MCNameOrder == <<"allow-production", "confirm-production", "deny-dangerous-kinds",
                 "deny-delete-system-ns", "deny-privileged">>

Workload(cs, net) == [templated |-> TRUE, containers |-> cs, hostNetwork |-> net,
                      hostPID |-> FALSE, present |-> TRUE]

Op(a, res, ns, m) == [action |-> a, resource |-> res, namespace |-> ns, manifest |-> m]

\* One operation per default rule, their overlaps, a spelling of a kind, a
\* read, and a write no rule names.
MCOps == {
    Op("delete", "pod", "kube-system", NoManifest),
    Op("delete", "node", "kube-system", NoManifest),
    Op("delete", "nodes", "default", NoManifest),
    Op("apply", "Node", "production", Workload(<<FALSE>>, FALSE)),
    Op("apply", "deployment", "production", Workload(<<TRUE>>, FALSE)),
    Op("apply", "deployment", "default", Workload(<<FALSE, TRUE>>, FALSE)),
    Op("apply", "deployment", "default", Workload(<<>>, TRUE)),
    Op("scale", "deployment", "production", NoManifest),
    Op("get", "pod", "default", NoManifest) }
=============================================================================
