---------------------------- MODULE PlanExecution ----------------------------
(***************************************************************************)
(* Planned writes from k8s_plan_write to the cluster: several turns plan,  *)
(* wait for a decision and execute plans of a shared table, while the      *)
(* policy is edited, clients leave and the server may stop.                *)
(*                                                                         *)
(* The decision on a plan is SessionGate's business: here a waiting turn   *)
(* gets one.  The policy engine is PolicyStore's: here it is the set of    *)
(* operations it denies, and an edit is the window in which Engine.Rules   *)
(* is assigned without a lock, during which a concurrent Evaluate may      *)
(* answer anything.  The model drives the tools: which plan it executes,   *)
(* and when, is not up to the code.                                        *)
(***************************************************************************)
EXTENDS Naturals, Sequences

CONSTANTS
    Turns,      \* chat turns (and scheduled runs)
    Ops,        \* operations
    MaxOps,     \* bound: operations of a plan
    MaxPlans,   \* bound: plans
    MaxExecs,   \* bound: k8s_execute_plan calls
    MaxEdits,   \* bound: policy edits
    MaxStops    \* bound: server stops

ASSUME PlanConstants ==
    /\ MaxOps \in Nat /\ MaxPlans \in Nat /\ MaxExecs \in Nat
    /\ MaxEdits \in Nat /\ MaxStops \in Nat

VARIABLES
    at,        \* per turn: where its loop is
    ops,       \* per turn: the operations of the running tool call
    i,         \* per turn: the next one
    plan,      \* per turn: the plan's id
    previewed, \* per turn: the operations with a diff
    did,       \* history, per turn: what this execution changed the cluster with
    stood,     \* history, per turn: denied without a break since its plan was loaded
    exec,      \* history, per turn: its latest execution, 0 before the first
    left,      \* per turn: its context is cancelled
    rows,      \* the plans table, by id
    nextPlan, execs,
    denied,    \* the operations the engine denies
    editing,   \* e.Rules is being assigned
    newDenied, \* ... with rules that deny these
    edits,
    audit,     \* audit_log: [plan, status, exec, did]; exec and did are history
    touched,   \* history, per plan: operations that reached the cluster
    made,      \* history, per execution: operations it changed the cluster with
    stops

turnVars   == <<at, ops, i, plan, previewed, did, stood, exec, left>>
planVars   == <<rows, nextPlan, execs, audit, touched, made>>
policyVars == <<denied, editing, newDenied, edits>>
vars       == <<turnVars, planVars, policyVars, stops>>

PlanIds == 1..MaxPlans
OpSeqs  == UNION {[1..n -> Ops] : n \in 0..MaxOps}
Steps   == 1..MaxOps
Execs   == 1..MaxExecs

Row == [stored: BOOLEAN, ops: OpSeqs, diffs: SUBSET Steps,
        status: {"pending", "executed"}]
NoRow == [stored |-> FALSE, ops |-> <<>>, diffs |-> {}, status |-> "pending"]

AuditRow == [plan: PlanIds, status: {"ok", "failed"}, exec: Execs, did: SUBSET Steps]

Executing == {"evaluating", "applying", "succeeded", "failed", "marking"}
Places    == {"new", "llm", "planning", "waiting", "over", "dead"} \cup Executing

TypeOK ==
    /\ at \in [Turns -> Places]
    /\ ops \in [Turns -> OpSeqs]
    /\ i \in [Turns -> 1..(MaxOps + 1)]
    /\ plan \in [Turns -> 0..MaxPlans]
    /\ previewed \in [Turns -> SUBSET Steps]
    /\ did \in [Turns -> SUBSET Steps]
    /\ stood \in [Turns -> SUBSET Ops]
    /\ exec \in [Turns -> 0..MaxExecs]
    /\ left \in [Turns -> BOOLEAN]
    /\ rows \in [PlanIds -> Row]
    /\ nextPlan \in 1..(MaxPlans + 1)
    /\ execs \in 0..MaxExecs
    /\ denied \in SUBSET Ops
    /\ editing \in BOOLEAN
    /\ newDenied \in SUBSET Ops
    /\ edits \in 0..MaxEdits
    /\ audit \in SUBSET AuditRow
    /\ touched \in [PlanIds -> SUBSET Steps]
    /\ made \in [Execs -> SUBSET Steps]
    /\ stops \in 0..MaxStops

Init ==
    /\ at = [t \in Turns |-> "new"]
    /\ ops = [t \in Turns |-> <<>>]
    /\ i = [t \in Turns |-> 1]
    /\ plan = [t \in Turns |-> 0]
    /\ previewed = [t \in Turns |-> {}]
    /\ did = [t \in Turns |-> {}]
    /\ stood = [t \in Turns |-> {}]
    /\ exec = [t \in Turns |-> 0]
    /\ left = [t \in Turns |-> FALSE]
    /\ rows = [p \in PlanIds |-> NoRow]
    /\ nextPlan = 1
    /\ execs = 0
    /\ denied \in SUBSET Ops
    /\ editing = FALSE
    /\ newDenied = {}
    /\ edits = 0
    /\ audit = {}
    /\ touched = [p \in PlanIds |-> {}]
    /\ made = [e \in Execs |-> {}]
    /\ stops = 0

-----------------------------------------------------------------------------
(* Turns, clients and the server                                           *)

BeginTurn(t) ==
    /\ at[t] = "new"
    /\ at' = [at EXCEPT ![t] = "llm"]
    /\ UNCHANGED <<ops, i, plan, previewed, did, stood, exec, left, planVars, policyVars, stops>>

\* Runner.Run returns.
EndTurn(t) ==
    /\ at[t] = "llm"
    /\ at' = [at EXCEPT ![t] = "over"]
    /\ UNCHANGED <<ops, i, plan, previewed, did, stood, exec, left, planVars, policyVars, stops>>

\* The client disconnects: every statement and API call of the turn from here
\* on fails with the context's error.
Leave(t) ==
    /\ at[t] \notin {"new", "over", "dead"}
    /\ ~left[t]
    /\ left' = [left EXCEPT ![t] = TRUE]
    /\ UNCHANGED <<at, ops, i, plan, previewed, did, stood, exec, planVars, policyVars, stops>>

\* The process stops and is started again: the running turns are gone, the
\* plans table stays, the engine has the rules it is started with.
Stop ==
    /\ stops < MaxStops
    /\ stops' = stops + 1
    /\ at' = [t \in Turns |-> IF at[t] \in {"new", "over"} THEN at[t] ELSE "dead"]
    /\ denied' \in SUBSET Ops
    /\ editing' = FALSE
    /\ newDenied' = {}
    /\ UNCHANGED <<ops, i, plan, previewed, did, stood, exec, left, planVars, edits>>

\* Engine.ReloadPolicies' assignment, begun ...
BeginEdit ==
    /\ ~editing
    /\ edits < MaxEdits
    /\ edits' = edits + 1
    /\ editing' = TRUE
    /\ newDenied' \in SUBSET Ops
    /\ stood' = [t \in Turns |-> {}]
    /\ UNCHANGED <<at, ops, i, plan, previewed, did, exec, left, planVars, denied, stops>>

\* ... and complete.
EndEdit ==
    /\ editing
    /\ editing' = FALSE
    /\ denied' = newDenied
    /\ newDenied' = {}
    /\ UNCHANGED <<turnVars, planVars, edits, stops>>

\* Engine.Evaluate: whether op may be denied, and whether it may pass.
MayDeny(op) == editing \/ op \in denied
MayPass(op) == editing \/ op \notin denied

-----------------------------------------------------------------------------
(* k8s_plan_write                                                          *)

\* The handler up to PlanWrite's loop.
PlanWrite(t) ==
    /\ at[t] = "llm"
    /\ nextPlan <= MaxPlans
    /\ \E s \in OpSeqs : ops' = [ops EXCEPT ![t] = s]
    /\ i' = [i EXCEPT ![t] = 1]
    /\ plan' = [plan EXCEPT ![t] = nextPlan]
    /\ nextPlan' = nextPlan + 1
    /\ previewed' = [previewed EXCEPT ![t] = {}]
    /\ did' = [did EXCEPT ![t] = {}]
    /\ at' = [at EXCEPT ![t] = "planning"]
    /\ UNCHANGED <<stood, exec, left, rows, execs, audit, touched, made, policyVars, stops>>

\* Mutant: a denied operation takes the next one with it.
PlanDeniedSkips(t) ==
    /\ at[t] = "planning"
    /\ i[t] <= Len(ops[t])
    /\ MayDeny(ops[t][i[t]])
    /\ i' = [i EXCEPT ![t] = i[t] + 2]
    /\ UNCHANGED <<at, ops, plan, previewed, did, stood, exec, left, planVars, policyVars, stops>>

\* One operation of the loop that the policy denies: no dry-run.
PlanDenied(t) ==
    /\ at[t] = "planning"
    /\ i[t] <= Len(ops[t])
    /\ MayDeny(ops[t][i[t]])
    /\ i' = [i EXCEPT ![t] = i[t] + 1]
    /\ UNCHANGED <<at, ops, plan, previewed, did, stood, exec, left, planVars, policyVars, stops>>

\* One operation the policy lets through, with its dry-run.
PlanDryRun(t) ==
    /\ at[t] = "planning"
    /\ i[t] <= Len(ops[t])
    /\ MayPass(ops[t][i[t]])
    /\ ~left[t]
    /\ previewed' = [previewed EXCEPT ![t] = previewed[t] \cup {i[t]}]
    /\ i' = [i EXCEPT ![t] = i[t] + 1]
    /\ UNCHANGED <<at, ops, plan, did, stood, exec, left, planVars, policyVars, stops>>

\* ... or without: the client or the dry-run fails and so does the tool.
PlanFails(t) ==
    /\ at[t] = "planning"
    /\ i[t] <= Len(ops[t])
    /\ MayPass(ops[t][i[t]])
    /\ at' = [at EXCEPT ![t] = "llm"]
    /\ previewed' = [previewed EXCEPT ![t] = {}]
    /\ UNCHANGED <<ops, i, plan, did, stood, exec, left, planVars, policyVars, stops>>

\* CreatePlan, with every operation, denied ones too; its error is ignored.
\* Then the events and the wait.
CreatePlan(t) ==
    /\ at[t] = "planning"
    /\ i[t] > Len(ops[t])
    /\ rows' = IF left[t] THEN rows
               ELSE [rows EXCEPT ![plan[t]] =
                       [stored |-> TRUE, ops |-> ops[t], diffs |-> previewed[t],
                        status |-> "pending"]]
    /\ at' = [at EXCEPT ![t] = "waiting"]
    /\ previewed' = [previewed EXCEPT ![t] = {}]
    /\ UNCHANGED <<ops, i, plan, did, stood, exec, left,
                   nextPlan, execs, audit, touched, made, policyVars, stops>>

\* WaitPlan returns: a decision of the user, or the context's error.  Either is
\* told to the model and kept nowhere else, so which one makes no difference.
Decided(t) ==
    /\ at[t] = "waiting"
    /\ at' = [at EXCEPT ![t] = "llm"]
    /\ UNCHANGED <<ops, i, plan, previewed, did, stood, exec, left, planVars, policyVars, stops>>

-----------------------------------------------------------------------------
(* k8s_execute_plan                                                        *)

\* loadOpsForPlan finds the plan; neither its status nor a decision is looked at.
LoadPlan(t) ==
    /\ at[t] = "llm"
    /\ execs < MaxExecs
    /\ ~left[t]
    /\ \E p \in PlanIds :
         /\ rows[p].stored
         /\ plan' = [plan EXCEPT ![t] = p]
         /\ ops' = [ops EXCEPT ![t] = rows[p].ops]
    /\ i' = [i EXCEPT ![t] = 1]
    /\ did' = [did EXCEPT ![t] = {}]
    /\ stood' = [stood EXCEPT ![t] = IF editing THEN {} ELSE denied]
    /\ execs' = execs + 1
    /\ exec' = [exec EXCEPT ![t] = execs + 1]
    /\ at' = [at EXCEPT ![t] = "evaluating"]
    /\ UNCHANGED <<previewed, left, rows, nextPlan, audit, touched, made, policyVars, stops>>

\* Mutant: an operation is applied as soon as it has been evaluated.
EvaluatedApplies(t) ==
    /\ at[t] = "evaluating"
    /\ i[t] <= Len(ops[t])
    /\ MayPass(ops[t][i[t]])
    /\ i' = [i EXCEPT ![t] = i[t] + 1]
    /\ did' = [did EXCEPT ![t] = did[t] \cup {i[t]}]
    /\ UNCHANGED <<at, ops, plan, previewed, stood, exec, left, planVars, policyVars, stops>>

\* Mutant: the second evaluation is left out.
EvaluatedBlind(t) ==
    /\ at[t] = "evaluating"
    /\ i[t] <= Len(ops[t])
    /\ i' = [i EXCEPT ![t] = i[t] + 1]
    /\ UNCHANGED <<at, ops, plan, previewed, did, stood, exec, left, planVars, policyVars, stops>>

\* The first loop of ExecutePlan: one operation passes ...
Evaluated(t) ==
    /\ at[t] = "evaluating"
    /\ i[t] <= Len(ops[t])
    /\ MayPass(ops[t][i[t]])
    /\ i' = [i EXCEPT ![t] = i[t] + 1]
    /\ UNCHANGED <<at, ops, plan, previewed, did, stood, exec, left, planVars, policyVars, stops>>

\* ... or is denied: the plan is aborted, without an audit row.
ExecDenied(t) ==
    /\ at[t] = "evaluating"
    /\ i[t] <= Len(ops[t])
    /\ MayDeny(ops[t][i[t]])
    /\ at' = [at EXCEPT ![t] = "llm"]
    /\ UNCHANGED <<ops, i, plan, previewed, did, stood, exec, left, planVars, policyVars, stops>>

AllPassed(t) ==
    /\ at[t] = "evaluating"
    /\ i[t] > Len(ops[t])
    /\ i' = [i EXCEPT ![t] = 1]
    /\ at' = [at EXCEPT ![t] = "applying"]
    /\ UNCHANGED <<ops, plan, previewed, did, stood, exec, left, planVars, policyVars, stops>>

\* The second loop: applyOne succeeds.
Applied(t) ==
    /\ at[t] = "applying"
    /\ i[t] <= Len(ops[t])
    /\ ~left[t]
    /\ did' = [did EXCEPT ![t] = did[t] \cup {i[t]}]
    /\ touched' = [touched EXCEPT ![plan[t]] = touched[plan[t]] \cup {i[t]}]
    /\ made' = [made EXCEPT ![exec[t]] = made[exec[t]] \cup {i[t]}]
    /\ i' = [i EXCEPT ![t] = i[t] + 1]
    /\ UNCHANGED <<at, ops, plan, previewed, stood, exec, left,
                   rows, nextPlan, execs, audit, policyVars, stops>>

\* Mutant: a failed operation is skipped and the loop goes on.
ApplySkips(t) ==
    /\ at[t] = "applying"
    /\ i[t] <= Len(ops[t])
    /\ i' = [i EXCEPT ![t] = i[t] + 1]
    /\ UNCHANGED <<at, ops, plan, previewed, did, stood, exec, left, planVars, policyVars, stops>>

\* applyOne returns an error, and the cluster may have changed all the same:
\* the answer was lost, or the context ended after the request went out.
\* rollbackOne undoes nothing.
ApplyFails(t) ==
    /\ at[t] = "applying"
    /\ i[t] <= Len(ops[t])
    /\ \E d \in {{}, {i[t]}} :
         /\ did' = [did EXCEPT ![t] = did[t] \cup d]
         /\ touched' = [touched EXCEPT ![plan[t]] = touched[plan[t]] \cup d]
         /\ made' = [made EXCEPT ![exec[t]] = made[exec[t]] \cup d]
    /\ at' = [at EXCEPT ![t] = "failed"]
    /\ UNCHANGED <<ops, i, plan, previewed, stood, exec, left,
                   rows, nextPlan, execs, audit, policyVars, stops>>

AllApplied(t) ==
    /\ at[t] = "applying"
    /\ i[t] > Len(ops[t])
    /\ at' = [at EXCEPT ![t] = "succeeded"]
    /\ UNCHANGED <<ops, i, plan, previewed, did, stood, exec, left, planVars, policyVars, stops>>

\* Mutant: a failed execution leaves no audit row.
AuditFailedSkipped(t) ==
    /\ at[t] = "failed"
    /\ at' = [at EXCEPT ![t] = "llm"]
    /\ UNCHANGED <<ops, i, plan, previewed, did, stood, exec, left, planVars, policyVars, stops>>

\* AppendAudit with status "failed"; its error is ignored.
AuditFailed(t) ==
    /\ at[t] = "failed"
    /\ audit' = IF left[t] THEN audit
                ELSE audit \cup {[plan |-> plan[t], status |-> "failed",
                                  exec |-> exec[t], did |-> did[t]]}
    /\ at' = [at EXCEPT ![t] = "llm"]
    /\ UNCHANGED <<ops, i, plan, previewed, did, stood, exec, left,
                   rows, nextPlan, execs, touched, made, policyVars, stops>>

\* AppendAudit with status "ok".
AuditOk(t) ==
    /\ at[t] = "succeeded"
    /\ audit' = IF left[t] THEN audit
                ELSE audit \cup {[plan |-> plan[t], status |-> "ok",
                                  exec |-> exec[t], did |-> did[t]]}
    /\ at' = [at EXCEPT ![t] = "marking"]
    /\ UNCHANGED <<ops, i, plan, previewed, did, stood, exec, left,
                   rows, nextPlan, execs, touched, made, policyVars, stops>>

\* MarkExecuted; its error is ignored.
MarkExecuted(t) ==
    /\ at[t] = "marking"
    /\ rows' = IF left[t] THEN rows
               ELSE [rows EXCEPT ![plan[t]].status = "executed"]
    /\ at' = [at EXCEPT ![t] = "llm"]
    /\ UNCHANGED <<ops, i, plan, previewed, did, stood, exec, left,
                   nextPlan, execs, audit, touched, made, policyVars, stops>>

-----------------------------------------------------------------------------
TurnStep(t) ==
    \/ BeginTurn(t) \/ EndTurn(t) \/ Leave(t)
    \/ PlanWrite(t) \/ PlanDenied(t) \/ PlanDryRun(t) \/ PlanFails(t)
    \/ CreatePlan(t) \/ Decided(t)
    \/ LoadPlan(t) \/ Evaluated(t) \/ ExecDenied(t) \/ AllPassed(t)
    \/ Applied(t) \/ ApplyFails(t) \/ AllApplied(t)
    \/ AuditFailed(t) \/ AuditOk(t) \/ MarkExecuted(t)

\* Every turn has ended.
AllOver == (\A t \in Turns : at[t] \in {"over", "dead"}) /\ UNCHANGED vars

Next == (\E t \in Turns : TurnStep(t)) \/ Stop \/ BeginEdit \/ EndEdit \/ AllOver

Spec == Init /\ [][Next]_vars

-----------------------------------------------------------------------------
(* Properties                                                              *)

\* "A rule change between plan and execute cannot silently bypass a deny": an
\* execution that has changed the cluster holds no operation the policy has
\* denied ever since the plan was loaded, wherever in the plan it stands.
DenyBlocksPlan ==
    \A t \in Turns : did[t] # {} =>
        \A k \in 1..Len(ops[t]) : ops[t][k] \notin stood[t]

\* What audit_log says of an execution is what happened: "ok" means every
\* operation reached the cluster, "failed" that a prefix did, one short of the
\* whole plan unless the last answer was lost.
AuditTruthful ==
    \A a \in audit :
        /\ a.status = "ok" => a.did = 1..Len(rows[a.plan].ops)
        /\ a.status = "failed" => \E k \in 0..Len(rows[a.plan].ops) : a.did = 1..k

\* A plan marked executed has been applied in full.
ExecutedMeansApplied ==
    \A p \in PlanIds : rows[p].status = "executed" =>
        touched[p] = 1..Len(rows[p].ops)

\* No cluster change goes unrecorded: an execution that has changed the cluster
\* has an audit row of its own, written after all it did; only one that is still
\* running, or whose own turn was cut off by its client or by the server's stop,
\* may be without.  A row of another execution of the same plan does not count.
ChangesAccounted ==
    \A e \in Execs : made[e] # {} =>
        \/ \E a \in audit : a.exec = e /\ a.did = made[e]
        \/ \E t \in Turns : /\ exec[t] = e
                            /\ left[t] \/ at[t] \in Executing \cup {"dead"}

\* The stored plan holds the denied operations too, and only the second
\* evaluation keeps them out: as long as the policy stays what it was, every
\* operation that reaches the cluster was dry-run and shown as a diff.
OnlyPreviewedOpsRun ==
    edits = 0 /\ stops = 0 => \A p \in PlanIds : touched[p] \subseteq rows[p].diffs

=============================================================================
