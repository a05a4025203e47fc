----------------------------- MODULE PolicyRules -----------------------------
(***************************************************************************)
(* The policy engine's pure part: rules, matching and evaluation           *)
(* (internal/policy).  An operation is a record with the four things a     *)
(* rule looks at; a manifest is abstracted to the fields the default rules *)
(* name.                                                                   *)
(***************************************************************************)
EXTENDS Naturals, Sequences, FiniteSetsExt

Effects    == {"allow", "confirm", "deny"}
NoManifest == [templated |-> FALSE, containers |-> <<>>,
               hostNetwork |-> FALSE, hostPID |-> FALSE, present |-> FALSE]

\* A rule; an empty dimension matches everything.
Rule(n, e, acts, nss, kinds, paths) ==
    [name |-> n, effect |-> e, action |-> acts, namespace |-> nss,
     kind |-> kinds, unsafe |-> paths]

\* The four built-in rules, in DefaultRules() order.
DefaultRules == <<
    Rule("deny-delete-system-ns", "deny", {"delete"},
         {"kube-system", "kube-public", "kube-node-lease"}, {}, {}),
    Rule("deny-dangerous-kinds", "deny", {"apply", "delete"}, {},
         {"Node", "ClusterRole", "ClusterRoleBinding", "CustomResourceDefinition"}, {}),
    Rule("deny-privileged", "deny", {"apply"}, {}, {},
         {"privileged", "hostNetwork", "hostPID"}),
    Rule("confirm-production", "confirm", {"apply", "delete", "scale"},
         {"production", "prod"}, {}, {}) >>

\* contains compares with EqualFold; the spellings below are the ones whose
\* case differs.  A plural is another word.
Fold(s) == IF s \in {"node", "Node", "NODE"} THEN "Node"
           ELSE IF s \in {"clusterrole", "ClusterRole"} THEN "ClusterRole"
           ELSE s

ContainsFold(xs, s) == \E x \in xs : Fold(x) = Fold(s)

\* JSONPathGet as the set of values found: none when a step of the path is
\* missing; "[*]" takes the first container only.
JSONPathGet(m, path) ==
    IF ~m.templated THEN {}
    ELSE CASE path = "privileged"  -> IF m.containers = <<>> THEN {} ELSE {m.containers[1]}
           [] path = "hostNetwork" -> {m.hostNetwork}
           [] path = "hostPID"     -> {m.hostPID}

\* Match.matches: every non-empty dimension must match; one unsafe field is
\* enough; an operation without a manifest has no unsafe fields.
Matches(r, op) ==
    /\ r.action = {} \/ ContainsFold(r.action, op.action)
    /\ r.namespace = {} \/ ContainsFold(r.namespace, op.namespace)
    /\ r.kind = {} \/ ContainsFold(r.kind, op.resource)
    /\ r.unsafe = {} \/ /\ op.manifest.present
                        /\ \E p \in r.unsafe : TRUE \in JSONPathGet(op.manifest, p)

IsWrite(action) == action \in {"apply", "delete", "scale"}

\* Mutant of Evaluate: a later match overrides an earlier one.
EvaluateLast(rules, op) ==
    LET hits == {i \in DOMAIN rules : Matches(rules[i], op)} IN
    IF hits # {} THEN rules[Max(hits)].effect
    ELSE IF IsWrite(op.action) THEN "confirm" ELSE "allow"

\* Engine.Evaluate: the first rule that matches decides.
Evaluate(rules, op) ==
    LET hits == {i \in DOMAIN rules : Matches(rules[i], op)} IN
    IF hits # {} THEN rules[Min(hits)].effect
    ELSE IF IsWrite(op.action) THEN "confirm" ELSE "allow"
=============================================================================
